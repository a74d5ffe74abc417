-------------------------- MODULE MigrationProofs --------------------------
(***************************************************************************)
(* A migration never leaves the host without a path and ends clean,        *)
(* whatever passes are cut and writes refused, for any number of faults.   *)
(*                                                                         *)
(* The argument: each field of the VolumeMigration has one writer, so the  *)
(* copy that the agent works on, however old, has the pipe of the object   *)
(* as it is now; the phases only advance, and a phase is entered only when *)
(* the fields it rests on are set.                                         *)
(***************************************************************************)
EXTENDS Migration, TLAPS

(* What the fields of an object that was ever stored have to do with each
   other: a finalizer goes with its connection, a phase with what ended the
   one before. *)
ObjectInv(m) ==
    /\ m.pipeFinalizers = IF m.pipe = "connected" THEN 1 ELSE 0
    /\ m.hostFinalizers = IF m.host = "connected" THEN 1 ELSE 0
    /\ m.phase \in {"", "pending", "creatingVolume"} => m.pipe = "no" /\ m.host = "no"
    /\ m.phase = "setupPipe" => m.pipe # "disconnected" /\ m.host # "disconnected"
    /\ m.phase = "syncing" => m.pipe = "connected" /\ m.host = "connected"
    /\ m.enabled => m.phase \in {"syncing", "cleaning", "finished"}
    /\ m.success => m.enabled
    /\ m.phase = "cleaning" => m.pipe # "no" /\ m.host # "no" /\ m.success
    /\ m.phase = "finished" => m.pipe = "disconnected" /\ m.host = "disconnected" /\ m.success

(* A copy is one of an object that was stored, and of no later phase. *)
CopyInv(c) ==
    /\ ~c.there => c = NothingRead
    /\ c.phase = "syncing" => mig.phase \in {"syncing", "cleaning", "finished"}
    /\ c.phase = "cleaning" => mig.phase \in {"cleaning", "finished"}

(* Nobody but the agent writes these two fields. *)
AgentInv ==
    held["agent"].there => /\ held["agent"].pipe = mig.pipe
                           /\ held["agent"].enabled = mig.enabled

(* The task runs between the two ends of the pipe, and cleaning takes both
   away before the object says so. *)
TaskInv ==
    /\ task.there => mig.pipe = "connected" /\ mig.phase \in {"syncing", "cleaning"}
    /\ attached => mig.pipe # "disconnected"

(* What the object says of the host's paths is so, unless one was lost. *)
PathInv ==
    ~broken => /\ mig.host # "no" => path.dst # "none"
               /\ mig.success => path.dst = "working"
               /\ mig.host = "disconnected" => path.src = "none"

IInv ==
    /\ TypeOK
    /\ ObjectInv(mig) /\ \A a \in Actors : ObjectInv(held[a]) /\ CopyInv(held[a])
    /\ AgentInv /\ TaskInv /\ PathInv /\ NeverStranded

-----------------------------------------------------------------------------
(* The writes. *)

(* o has the fields of m that the invariant speaks of. *)
Same(o, m) ==
    /\ o.phase = m.phase /\ o.pipe = m.pipe /\ o.host = m.host
    /\ o.enabled = m.enabled /\ o.success = m.success
    /\ o.pipeFinalizers = m.pipeFinalizers /\ o.hostFinalizers = m.hostFinalizers

LEMMA MarkType ==
    ASSUME NEW m \in Object
    PROVE  /\ [m EXCEPT !.status = "error"] \in Object
           /\ [m EXCEPT !.source = TRUE] \in Object
           /\ [m EXCEPT !.labelled = TRUE] \in Object
           /\ [m EXCEPT !.destName = TRUE] \in Object
           /\ [m EXCEPT !.destInfo = TRUE] \in Object
           /\ [m EXCEPT !.there = FALSE] \in Object
           /\ [m EXCEPT !.deleting = TRUE] \in Object
BY Zenon DEF Object

LEMMA MarkFields ==
    ASSUME NEW m \in Object
    PROVE  /\ Same([m EXCEPT !.status = "error"], m)
           /\ Same([m EXCEPT !.source = TRUE], m)
           /\ Same([m EXCEPT !.labelled = TRUE], m)
           /\ Same([m EXCEPT !.destName = TRUE], m)
           /\ Same([m EXCEPT !.destInfo = TRUE], m)
           /\ Same([m EXCEPT !.there = FALSE], m)
           /\ Same([m EXCEPT !.deleting = TRUE], m)
BY Zenon DEF Object, Same

-----------------------------------------------------------------------------
(* What every step has in common. *)

LEMMA NewObjectType == NewObject \in Object
<1>1. 0 \in 0..1
  OBVIOUS
<1> QED BY <1>1, Zenon DEF NewObject, Object, Phases, Connect

LEMMA NothingReadFields ==
    /\ NothingRead \in Object
    /\ NothingRead.there = FALSE /\ NothingRead.phase = "" /\ NothingRead.pipe = "no"
    /\ NothingRead.host = "no" /\ NothingRead.enabled = FALSE /\ NothingRead.success = FALSE
    /\ NothingRead.pipeFinalizers = 0 /\ NothingRead.hostFinalizers = 0
<1>1. NothingRead \in Object
  BY NewObjectType, Zenon DEF NothingRead, Object
<1> QED BY <1>1, Zenon DEF NothingRead, NewObject

LEMMA NothingReadInv == ObjectInv(NothingRead)
BY NothingReadFields, Zenon DEF ObjectInv

(* The object only goes forward. *)
Forward ==
    /\ mig.phase = "syncing" => mig'.phase \in {"syncing", "cleaning", "finished"}
    /\ mig.phase = "cleaning" => mig'.phase \in {"cleaning", "finished"}
    /\ mig.phase = "finished" => mig'.phase = "finished"

Machine == kind' = kind /\ dest' \in {"none", "created", "ready"} /\ faults' \in 0..MaxFaults
           /\ broken' \in BOOLEAN

LEMMA CopiesKept ==
    ASSUME IInv, Forward, NEW a \in Actors,
           held' \in [Actors -> Object],
           held'[a] = held[a] \/ held'[a] = NothingRead
    PROVE  ObjectInv(held[a])' /\ CopyInv(held[a])'
<1>1. ObjectInv(held[a]) /\ CopyInv(held[a])
  BY Zenon DEF IInv
<1>2. CASE held'[a] = held[a]
  <2>1. ObjectInv(held[a])'
    BY <1>1, <1>2, Zenon DEF ObjectInv
  <2>2. CopyInv(held[a])'
    BY <1>1, <1>2, Zenon DEF CopyInv, Forward, NothingRead, NewObject
  <2> QED BY <2>1, <2>2
<1>3. CASE held'[a] = NothingRead
  <2>1. ObjectInv(held[a])'
    BY <1>3, NothingReadInv, Zenon DEF ObjectInv
  <2>2. CopyInv(held[a])'
    BY <1>3, NothingReadFields, Zenon DEF CopyInv, NothingRead, NewObject
  <2> QED BY <2>1, <2>2
<1> QED BY <1>2, <1>3

LEMMA StepKeeps ==
    ASSUME IInv, Machine, Forward,
           mig' \in Object, ObjectInv(mig)',
           held' \in [Actors -> Object],
           \A a \in Actors : held'[a] = held[a] \/ held'[a] = NothingRead,
           held'["agent"] = NothingRead \/ (mig'.pipe = mig.pipe /\ mig'.enabled = mig.enabled),
           attached' \in BOOLEAN,
           task' \in [there : BOOLEAN, round : BOOLEAN, autoSwitch : BOOLEAN, done : BOOLEAN],
           path' \in [src : {"none", "working", "degraded"}, dst : {"none", "standby", "working"}],
           TaskInv', PathInv', NeverStranded'
    PROVE  IInv'
<1>1. TypeOK'
  BY Zenon DEF IInv, TypeOK, Machine
<1>2. \A a \in Actors : ObjectInv(held[a])' /\ CopyInv(held[a])'
  BY CopiesKept, Zenon
<1>3. AgentInv'
  <2>1. "agent" \in Actors
    BY DEF Actors
  <2>2. CASE held'["agent"] = NothingRead
    BY <2>2, NothingReadFields, Zenon DEF AgentInv
  <2>3. CASE held'["agent"] = held["agent"] /\ held'["agent"] # NothingRead
    BY <2>3, Zenon DEF AgentInv, IInv
  <2> QED BY <2>1, <2>2, <2>3, Zenon
<1> QED BY <1>1, <1>2, <1>3, Zenon DEF IInv

(* A pass ends and its copy is gone. *)
LEMMA OverKeeps ==
    ASSUME TypeOK, NEW a \in Actors, Over(a)
    PROVE  /\ held' \in [Actors -> Object]
           /\ \A b \in Actors : held'[b] = held[b] \/ held'[b] = NothingRead
           /\ held'[a] = NothingRead
           /\ \A b \in Actors \ {a} : held'[b] = held[b]
BY NothingReadFields, Zenon DEF TypeOK, Over

LEMMA FaultType ==
    ASSUME TypeOK, Fault \/ UNCHANGED faults
    PROVE  faults' \in 0..MaxFaults
BY MigrationAssumption DEF TypeOK, Fault

LEMMA UpdateOutcome ==
    ASSUME NEW a \in Actors, NEW m, Update(a, m)
    PROVE  /\ Over(a)
           /\ Fault \/ UNCHANGED faults
           /\ mig' = mig \/ (mig = held[a] /\ mig' = m)
BY Zenon DEF Update

LEMMA InitIInv == Init => IInv
<1> SUFFICES ASSUME Init PROVE IInv
  OBVIOUS
<1>1. TypeOK
  <2>1. held \in [Actors -> Object]
    BY NothingReadFields, Zenon DEF Init
  <2>2. 0 \in 0..MaxFaults
    BY MigrationAssumption
  <2> QED BY <2>1, <2>2, NewObjectType, Zenon DEF Init, TypeOK, NoTask
<1>2. ObjectInv(mig) /\ TaskInv /\ PathInv /\ NeverStranded
  BY Zenon DEF Init, ObjectInv, TaskInv, PathInv, NeverStranded, NewObject, NoTask
<1>3. \A a \in Actors : held[a] = NothingRead
  BY Zenon DEF Init
<1>4. \A a \in Actors : ObjectInv(held[a])
  BY <1>3, NothingReadInv, Zenon
<1>5. \A a \in Actors : CopyInv(held[a])
  BY <1>3, NothingReadFields, Zenon DEF CopyInv
<1>6. AgentInv
  BY <1>3, NothingReadFields, Zenon DEF AgentInv, Actors
<1> QED BY <1>1, <1>2, <1>4, <1>5, <1>6, Zenon DEF IInv

-----------------------------------------------------------------------------
(* The steps of SPDK, of the kernel and of the API server. *)

(* What a step that leaves the object and the copies alone has to show. *)
LEMMA NodeKeeps ==
    ASSUME IInv, UNCHANGED <<kind, mig, held, dest>>,
           faults' \in 0..MaxFaults, broken' \in BOOLEAN, attached' \in BOOLEAN,
           task' \in [there : BOOLEAN, round : BOOLEAN, autoSwitch : BOOLEAN, done : BOOLEAN],
           path' \in [src : {"none", "working", "degraded"}, dst : {"none", "standby", "working"}],
           TaskInv', PathInv', NeverStranded'
    PROVE  IInv'
<1>1. Machine /\ mig' \in Object /\ held' \in [Actors -> Object]
  BY Zenon DEF IInv, TypeOK, Machine
<1>2. Forward
  BY Zenon DEF Forward
<1>3. ObjectInv(mig)'
  BY Zenon DEF IInv, ObjectInv
<1> QED BY <1>1, <1>2, <1>3, StepKeeps, Zenon

LEMMA TaskRoundKeeps ==
    ASSUME IInv, TaskRound
    PROVE  IInv'
<1>1. /\ task' \in [there : BOOLEAN, round : BOOLEAN, autoSwitch : BOOLEAN, done : BOOLEAN]
      /\ task'.there = task.there
  BY Zenon DEF TaskRound, IInv, TypeOK
<1>2. UNCHANGED <<kind, mig, held, dest, faults, broken, attached, path>>
  BY Zenon DEF TaskRound
<1>3. TaskInv' /\ PathInv' /\ NeverStranded'
  BY <1>1, <1>2, Zenon DEF IInv, TaskInv, PathInv, NeverStranded
<1> QED BY <1>1, <1>2, <1>3, NodeKeeps, Zenon DEF IInv, TypeOK

(* SPDK switches over to the destination: the task runs, so the host is
   connected to it. *)
LEMMA TaskSwitchesKeeps ==
    ASSUME IInv, TaskSwitches
    PROVE  IInv'
<1>1. /\ task' \in [there : BOOLEAN, round : BOOLEAN, autoSwitch : BOOLEAN, done : BOOLEAN]
      /\ task'.there = task.there /\ task.there
  BY Zenon DEF TaskSwitches, IInv, TypeOK
<1>2. UNCHANGED <<kind, mig, held, dest, faults, broken, attached>>
  BY Zenon DEF TaskSwitches
<1>3. mig.host # "no"
  BY <1>1, Zenon DEF IInv, TaskInv, ObjectInv
<1>4. \/ /\ path.dst = "standby" /\ path'.dst = "working" /\ path'.src = path.src
         /\ path' = [path EXCEPT !.dst = "working"]
      \/ /\ path.dst # "standby" /\ path'.dst = path.dst
         /\ path' = [path EXCEPT !.src = IF path.src = "working" THEN "degraded" ELSE path.src]
         /\ path'.src = IF path.src = "working" THEN "degraded" ELSE path.src
  BY Zenon DEF TaskSwitches, IInv, TypeOK
<1>5. path' \in [src : {"none", "working", "degraded"}, dst : {"none", "standby", "working"}]
  BY <1>4, Zenon DEF IInv, TypeOK
<1>6. TaskInv' 
  BY <1>1, <1>2, Zenon DEF IInv, TaskInv
<1>7. path.dst \in {"none", "standby", "working"}
  BY Zenon DEF IInv, TypeOK
<1>8. PathInv' /\ NeverStranded'
  BY <1>2, <1>3, <1>4, <1>7, Zenon DEF IInv, PathInv, NeverStranded
<1> QED BY <1>1, <1>2, <1>5, <1>6, <1>8, NodeKeeps, Zenon DEF IInv, TypeOK

LEMMA SourceDegradesKeeps ==
    ASSUME IInv, SourceDegrades
    PROVE  IInv'
<1>1. /\ path' \in [src : {"none", "working", "degraded"}, dst : {"none", "standby", "working"}]
      /\ path'.dst = path.dst /\ path.dst = "working" /\ path.src = "working"
  BY Zenon DEF SourceDegrades, IInv, TypeOK
<1>2. UNCHANGED <<kind, mig, held, dest, faults, broken, attached, task>>
  BY Zenon DEF SourceDegrades
<1>3. TaskInv' /\ PathInv' /\ NeverStranded'
  BY <1>1, <1>2, Zenon DEF IInv, TaskInv, PathInv, NeverStranded
<1> QED BY <1>1, <1>2, <1>3, NodeKeeps, Zenon DEF IInv, TypeOK

LEMMA LossKeeps ==
    ASSUME IInv, PathLost \/ SourceSpdkRestarts
    PROVE  IInv'
<1>1. /\ path' \in [src : {"none", "working", "degraded"}, dst : {"none", "standby", "working"}]
      /\ task' \in [there : BOOLEAN, round : BOOLEAN, autoSwitch : BOOLEAN, done : BOOLEAN]
      /\ attached' \in BOOLEAN
  <2>1. CASE PathLost
    BY <2>1, Zenon DEF PathLost, IInv, TypeOK
  <2>2. CASE SourceSpdkRestarts
    BY <2>2, Zenon DEF SourceSpdkRestarts, NoTask, IInv, TypeOK
  <2> QED BY <2>1, <2>2
<1>2. UNCHANGED <<kind, mig, held, dest>> /\ broken' = TRUE /\ Fault
  BY Zenon DEF PathLost, SourceSpdkRestarts
<1>3. (task'.there => task.there) /\ (attached' => attached)
  <2>1. NoTask.there = FALSE
    BY Zenon DEF NoTask
  <2> QED BY <2>1 DEF PathLost, SourceSpdkRestarts
<1>4. TaskInv' /\ PathInv' /\ NeverStranded'
  BY <1>2, <1>3, Zenon DEF IInv, TaskInv, PathInv, NeverStranded
<1>5. faults' \in 0..MaxFaults
  BY <1>2, FaultType, Zenon DEF IInv
<1> QED BY <1>1, <1>2, <1>4, <1>5, NodeKeeps, Zenon

-----------------------------------------------------------------------------
(* The steps that may write the object. *)

(* What a step that leaves SPDK and the kernel alone has to show of a mark:
   a write that touches no field the invariant speaks of. *)
LEMMA MarkKeeps ==
    ASSUME IInv, Machine, UNCHANGED <<attached, task, path, broken>>,
           mig' \in Object, Same(mig', mig), held' \in [Actors -> Object],
           \A a \in Actors : held'[a] = held[a] \/ held'[a] = NothingRead
    PROVE  IInv'
<1>1. Forward
  BY DEF Same, Forward
<1>2. ObjectInv(mig)'
  BY Zenon DEF IInv, ObjectInv, Same
<1>3. TaskInv' /\ PathInv' /\ NeverStranded'
  BY Zenon DEF IInv, TaskInv, PathInv, NeverStranded, Same
<1>4. mig'.pipe = mig.pipe /\ mig'.enabled = mig.enabled
  BY Zenon DEF Same
<1>5. /\ attached' \in BOOLEAN
      /\ task' \in [there : BOOLEAN, round : BOOLEAN, autoSwitch : BOOLEAN, done : BOOLEAN]
      /\ path' \in [src : {"none", "working", "degraded"}, dst : {"none", "standby", "working"}]
  BY Zenon DEF IInv, TypeOK
<1> QED BY <1>1, <1>2, <1>3, <1>4, <1>5, StepKeeps, Zenon

LEMMA PassEndsKeeps ==
    ASSUME IInv, NEW a \in Actors, PassEnds(a)
    PROVE  IInv'
<1>1. Over(a) /\ UNCHANGED <<kind, mig, dest, attached, task, path, broken, faults>>
  BY Zenon DEF PassEnds
<1>2. Machine /\ Same(mig', mig) /\ mig' \in Object
  BY <1>1, Zenon DEF Machine, Same, IInv, TypeOK
<1> QED BY <1>1, <1>2, OverKeeps, MarkKeeps, Zenon DEF IInv

LEMMA ReadsKeep ==
    ASSUME IInv, NEW a \in Actors, Read(a)
    PROVE  IInv'
<1>1. /\ UNCHANGED <<kind, mig, dest, attached, task, path, broken, faults>>
      /\ held' = [held EXCEPT ![a] = mig] /\ mig.there
  BY Zenon DEF Read, Queued
<1>2. /\ held' \in [Actors -> Object]
      /\ \A b \in Actors : held'[b] = held[b] \/ held'[b] = mig
  BY <1>1, Zenon DEF IInv, TypeOK
<1>3. \A b \in Actors : ObjectInv(held[b])'
  BY <1>1, <1>2, Zenon DEF IInv, ObjectInv
<1>4. \A b \in Actors : CopyInv(held[b])'
  BY <1>1, <1>2, Zenon DEF IInv, CopyInv
<1>5. AgentInv'
  <2>1. held'["agent"] = held["agent"] \/ held'["agent"] = mig
    BY <1>2, Zenon DEF Actors
  <2> QED BY <1>1, <2>1, Zenon DEF IInv, AgentInv
<1>6. TypeOK' /\ TaskInv' /\ PathInv' /\ NeverStranded'
  <2>1. TypeOK'
    BY <1>1, <1>2, Zenon DEF IInv, TypeOK
  <2> QED BY <1>1, <2>1, Zenon DEF IInv, TaskInv, PathInv, NeverStranded
<1>7. ObjectInv(mig)'
  BY <1>1, Zenon DEF IInv, ObjectInv
<1> QED BY <1>3, <1>4, <1>5, <1>6, <1>7, Zenon DEF IInv

LEMMA DestKeeps ==
    ASSUME IInv, CreateDest \/ DestReady
    PROVE  IInv'
<1>1. UNCHANGED <<kind, mig, attached, task, path, held, broken, faults>>
      /\ dest' \in {"none", "created", "ready"}
  BY Zenon DEF CreateDest, DestReady, controllerOnly
<1>2. Machine /\ Same(mig', mig) /\ mig' \in Object /\ held' \in [Actors -> Object]
  BY <1>1, Zenon DEF Machine, Same, IInv, TypeOK
<1> QED BY <1>1, <1>2, MarkKeeps, Zenon

LEMMA DeleteKeeps ==
    ASSUME IInv, DeleteMigration
    PROVE  IInv'
<1>1. /\ UNCHANGED <<kind, dest, attached, task, path, held, broken>> /\ Fault
      /\ mig' = [mig EXCEPT !.there = FALSE] \/ mig' = [mig EXCEPT !.deleting = TRUE]
  BY Zenon DEF DeleteMigration
<1>2. mig \in Object
  BY Zenon DEF IInv, TypeOK
<1>3. mig' \in Object /\ Same(mig', mig)
  BY <1>1, <1>2, MarkType, MarkFields, Zenon
<1>4. Machine /\ held' \in [Actors -> Object]
  BY <1>1, FaultType, Zenon DEF Machine, IInv, TypeOK
<1> QED BY <1>1, <1>3, <1>4, MarkKeeps, Zenon

(* The phase p follows the one the object is in, which is done. *)
Follows(p) ==
    \/ mig.phase = "" /\ p = "pending"
    \/ mig.phase = "pending" /\ p = "creatingVolume"
    \/ mig.phase = "creatingVolume" /\ p = "setupPipe"
    \/ /\ mig.phase = "setupPipe" /\ p = "syncing"
       /\ mig.pipe = "connected" /\ mig.host = "connected"
    \/ mig.phase = "syncing" /\ p = "cleaning" /\ mig.success
    \/ /\ mig.phase = "cleaning" /\ p = "finished"
       /\ mig.pipe = "disconnected" /\ mig.host = "disconnected"

LEMMA PhaseKeeps ==
    ASSUME IInv, UNCHANGED <<kind, dest, attached, task, path, held, broken, faults>>,
           NEW p \in Phases, NEW s \in {"", "working", "error", "finished"},
           mig' = [mig EXCEPT !.phase = p] \/ mig' = [mig EXCEPT !.phase = p, !.status = s],
           Follows(p)
    PROVE  IInv'
<1>1. mig \in Object /\ ObjectInv(mig)
  BY Zenon DEF IInv, TypeOK
<1>2. /\ mig' \in Object
      /\ mig'.phase = p /\ mig'.pipe = mig.pipe /\ mig'.host = mig.host
      /\ mig'.enabled = mig.enabled /\ mig'.success = mig.success
      /\ mig'.pipeFinalizers = mig.pipeFinalizers /\ mig'.hostFinalizers = mig.hostFinalizers
  <2>1. CASE mig' = [mig EXCEPT !.phase = p]
    BY <1>1, <2>1, Zenon DEF Object
  <2>2. CASE mig' = [mig EXCEPT !.phase = p, !.status = s]
    BY <1>1, <2>2, Zenon DEF Object
  <2> QED BY <2>1, <2>2, Zenon
<1>3. Forward
  <2>1. mig.phase = "syncing" => p \in {"syncing", "cleaning", "finished"}
    BY Zenon DEF Follows
  <2>2. mig.phase = "cleaning" => p \in {"cleaning", "finished"}
    BY Zenon DEF Follows
  <2>3. mig.phase # "finished"
    BY Zenon DEF Follows
  <2> QED BY <1>2, <2>1, <2>2, <2>3, Zenon DEF Forward
<1>4. ObjectInv(mig)'
  <2>1. CASE p \in {"pending", "creatingVolume", "setupPipe"}
    <3>1. mig.phase \in {"", "pending", "creatingVolume"}
      BY <2>1, Zenon DEF Follows
    <3>2. mig.pipe = "no" /\ mig.host = "no" /\ ~mig.enabled
      BY <1>1, <3>1, Zenon DEF ObjectInv
    <3> QED BY <1>1, <1>2, <2>1, <3>2, Zenon DEF ObjectInv
  <2>2. CASE p = "syncing" /\ mig.pipe = "connected" /\ mig.host = "connected"
    BY <1>1, <1>2, <2>2, Zenon DEF ObjectInv
  <2>3. CASE p = "cleaning" /\ mig.phase = "syncing" /\ mig.success
    BY <1>1, <1>2, <2>3, Zenon DEF ObjectInv
  <2>4. CASE /\ p = "finished" /\ mig.phase = "cleaning"
             /\ mig.pipe = "disconnected" /\ mig.host = "disconnected"
    BY <1>1, <1>2, <2>4, Zenon DEF ObjectInv
  <2> QED BY <2>1, <2>2, <2>3, <2>4, Zenon DEF Follows
<1>5. TaskInv'
  <2>1. task.there => p \in {"syncing", "cleaning"}
    <3>1. task.there => mig.pipe = "connected" /\ mig.phase \in {"syncing", "cleaning"}
      BY Zenon DEF IInv, TaskInv
    <3> QED BY <3>1, Zenon DEF Follows
  <2> QED BY <1>2, <2>1, Zenon DEF IInv, TaskInv
<1>6. PathInv'
  BY <1>2, Zenon DEF IInv, PathInv
<1>7. NeverStranded'
  BY Zenon DEF IInv, NeverStranded
<1>8. /\ Machine /\ held' \in [Actors -> Object] /\ attached' \in BOOLEAN
      /\ task' \in [there : BOOLEAN, round : BOOLEAN, autoSwitch : BOOLEAN, done : BOOLEAN]
      /\ path' \in [src : {"none", "working", "degraded"}, dst : {"none", "standby", "working"}]
  BY Zenon DEF Machine, IInv, TypeOK
<1> QED BY <1>2, <1>3, <1>4, <1>5, <1>6, <1>7, <1>8, StepKeeps, Zenon

LEMMA ReconcileKeeps ==
    ASSUME IInv, Reconcile
    PROVE  IInv'
<1>1. UNCHANGED <<kind, dest, attached, task, path, held, broken, faults>>
  BY Zenon DEF Reconcile, controllerOnly
<1>2. mig \in Object /\ held \in [Actors -> Object]
  BY Zenon DEF IInv, TypeOK
<1>3. ASSUME mig' \in Object, Same(mig', mig)
      PROVE  IInv'
  <2>1. Machine
    BY <1>1, Zenon DEF Machine, IInv, TypeOK
  <2> QED BY <1>1, <1>2, <1>3, <2>1, MarkKeeps, Zenon
<1>4. \/ mig.phase = "" /\ mig' = [mig EXCEPT !.phase = "pending", !.status = "working"]
      \/ mig' = [mig EXCEPT !.status = "error"]
      \/ mig' = [mig EXCEPT !.source = TRUE]
      \/ mig' = [mig EXCEPT !.labelled = TRUE]
      \/ mig.phase = "pending" /\ mig' = [mig EXCEPT !.phase = "creatingVolume"]
      \/ mig' = [mig EXCEPT !.destName = TRUE]
      \/ mig' = [mig EXCEPT !.destInfo = TRUE]
      \/ PhaseDone(mig) /\ mig' = Following(mig)
  BY Zenon DEF Reconcile
<1>5. CASE mig.phase = "" /\ mig' = [mig EXCEPT !.phase = "pending", !.status = "working"]
  BY <1>1, <1>5, PhaseKeeps, Zenon DEF Phases, Follows
<1>6. CASE mig.phase = "pending" /\ mig' = [mig EXCEPT !.phase = "creatingVolume"]
  BY <1>1, <1>6, PhaseKeeps, Zenon DEF Phases, Follows
<1>7. CASE \/ mig' = [mig EXCEPT !.status = "error"]
           \/ mig' = [mig EXCEPT !.source = TRUE]
           \/ mig' = [mig EXCEPT !.labelled = TRUE]
           \/ mig' = [mig EXCEPT !.destName = TRUE]
           \/ mig' = [mig EXCEPT !.destInfo = TRUE]
  BY <1>2, <1>3, <1>7, MarkType, MarkFields, Zenon
<1>8. CASE PhaseDone(mig) /\ mig' = Following(mig)
  <2>1. \/ mig.phase = "creatingVolume" /\ mig' = [mig EXCEPT !.phase = "setupPipe"]
        \/ /\ mig.phase = "setupPipe" /\ mig' = [mig EXCEPT !.phase = "syncing"]
           /\ mig.pipe = "connected" /\ mig.host = "connected"
        \/ mig.phase = "syncing" /\ mig' = [mig EXCEPT !.phase = "cleaning"] /\ mig.success
        \/ /\ mig.phase = "cleaning"
           /\ mig' = [mig EXCEPT !.phase = "finished", !.status = "finished"]
           /\ mig.pipe = "disconnected" /\ mig.host = "disconnected"
    BY <1>8, Zenon DEF PhaseDone, Following
  <2>2. CASE mig.phase = "creatingVolume" /\ mig' = [mig EXCEPT !.phase = "setupPipe"]
    BY <1>1, <2>2, PhaseKeeps, Zenon DEF Phases, Follows
  <2>3. CASE /\ mig.phase = "setupPipe" /\ mig' = [mig EXCEPT !.phase = "syncing"]
             /\ mig.pipe = "connected" /\ mig.host = "connected"
    BY <1>1, <2>3, PhaseKeeps, Zenon DEF Phases, Follows
  <2>4. CASE mig.phase = "syncing" /\ mig' = [mig EXCEPT !.phase = "cleaning"] /\ mig.success
    BY <1>1, <2>4, PhaseKeeps, Zenon DEF Phases, Follows
  <2>5. CASE /\ mig.phase = "cleaning"
             /\ mig' = [mig EXCEPT !.phase = "finished", !.status = "finished"]
             /\ mig.pipe = "disconnected" /\ mig.host = "disconnected"
    BY <1>1, <2>5, PhaseKeeps, Zenon DEF Phases, Follows
  <2> QED BY <2>1, <2>2, <2>3, <2>4, <2>5, Zenon
<1> QED BY <1>4, <1>5, <1>6, <1>7, <1>8, Zenon

-----------------------------------------------------------------------------
(* The passes of the agent. *)

(* What a copy that is worked on says of the object: the agent's has the
   object's pipe and switch, and the object is in its phase or a later one. *)
LEMMA AgentSees ==
    ASSUME IInv, held["agent"].phase # ""
    PROVE  /\ held["agent"] \in Object /\ mig \in Object
           /\ ObjectInv(held["agent"]) /\ CopyInv(held["agent"])
           /\ held["agent"].pipe = mig.pipe /\ held["agent"].enabled = mig.enabled
<1>1. "agent" \in Actors
  BY Zenon DEF Actors
<1>2. /\ held["agent"] \in Object /\ mig \in Object
      /\ ObjectInv(held["agent"]) /\ CopyInv(held["agent"])
  BY <1>1, Zenon DEF IInv, TypeOK
<1>3. held["agent"].there
  BY <1>2, NothingReadFields, Zenon DEF CopyInv
<1> QED BY <1>2, <1>3, Zenon DEF IInv, AgentInv

(* What is left to show of a step of the agent, whose copy is gone after it. *)
LEMMA AgentKeeps ==
    ASSUME IInv, Over("agent"), Fault \/ UNCHANGED faults,
           UNCHANGED <<kind, dest, path, broken>>,
           Forward, mig' \in Object, ObjectInv(mig)', attached' \in BOOLEAN,
           task' \in [there : BOOLEAN, round : BOOLEAN, autoSwitch : BOOLEAN, done : BOOLEAN],
           TaskInv', mig'.host = mig.host, mig'.success = mig.success
    PROVE  IInv'
<1>1. "agent" \in Actors
  BY Zenon DEF Actors
<1>2. /\ held' \in [Actors -> Object] /\ held'["agent"] = NothingRead
      /\ \A a \in Actors : held'[a] = held[a] \/ held'[a] = NothingRead
  BY <1>1, OverKeeps, Zenon DEF IInv
<1>3. Machine
  BY FaultType, Zenon DEF IInv, TypeOK, Machine
<1>4. PathInv' /\ NeverStranded'
  BY Zenon DEF IInv, PathInv, NeverStranded
<1>5. path' \in [src : {"none", "working", "degraded"}, dst : {"none", "standby", "working"}]
  BY Zenon DEF IInv, TypeOK
<1> QED BY <1>2, <1>3, <1>4, <1>5, StepKeeps, Zenon

(* A pass of the agent that leaves the object alone. *)
LEMMA AgentKeepsSame ==
    ASSUME IInv, Over("agent"), Fault \/ UNCHANGED faults,
           UNCHANGED <<kind, mig, dest, path, broken>>, attached' \in BOOLEAN,
           task' \in [there : BOOLEAN, round : BOOLEAN, autoSwitch : BOOLEAN, done : BOOLEAN],
           TaskInv'
    PROVE  IInv'
<1>1. Forward /\ mig' \in Object /\ mig'.host = mig.host /\ mig'.success = mig.success
  BY Zenon DEF Forward, IInv, TypeOK
<1>2. ObjectInv(mig)'
  BY Zenon DEF ObjectInv, IInv
<1> QED BY <1>1, <1>2, AgentKeeps, Zenon

LEMMA AgentSetupPipeKeeps ==
    ASSUME IInv, AgentSetupPipe
    PROVE  IInv'
<1> DEFINE m == [held["agent"] EXCEPT !.pipe = "connected",
                                     !.pipeFinalizers = held["agent"].pipeFinalizers + 1]
<1>1. /\ held["agent"].phase = "setupPipe" /\ held["agent"].pipe = "no"
      /\ attached' = TRUE /\ Update("agent", m)
      /\ UNCHANGED <<kind, dest, task, path, broken>>
  <2>1. attached' \in EnsureMigrationDestBdev(attached) /\ attached \in BOOLEAN
    BY Zenon DEF AgentSetupPipe, IInv, TypeOK
  <2>2. attached' = TRUE
    BY <2>1, Zenon DEF EnsureMigrationDestBdev
  <2> QED BY <2>2, Zenon DEF AgentSetupPipe, PipeMissing
<1>2. /\ Over("agent") /\ (Fault \/ UNCHANGED faults)
      /\ mig' = mig \/ (mig = held["agent"] /\ mig' = m)
  BY <1>1, UpdateOutcome, Zenon DEF Actors
<1>3. /\ held["agent"] \in Object /\ ObjectInv(held["agent"]) /\ mig.pipe = "no"
  BY <1>1, AgentSees, Zenon
<1>4. attached' \in BOOLEAN /\ task' = task
      /\ task' \in [there : BOOLEAN, round : BOOLEAN, autoSwitch : BOOLEAN, done : BOOLEAN]
  BY <1>1, Zenon DEF IInv, TypeOK
<1>5. ~task.there
  BY <1>3, Zenon DEF IInv, TaskInv
<1>6. CASE mig' = mig
  <2>1. TaskInv'
    BY <1>3, <1>4, <1>5, <1>6, Zenon DEF TaskInv
  <2> QED BY <1>1, <1>2, <1>4, <1>6, <2>1, AgentKeepsSame, Zenon
<1>7. CASE mig = held["agent"] /\ mig' = m
  <2>1. held["agent"].pipeFinalizers = 0
    BY <1>1, <1>3, Zenon DEF ObjectInv
  <2>2. held["agent"].pipeFinalizers + 1 = 1 /\ 1 \in 0..1
    BY <2>1
  <2>3. m = [mig EXCEPT !.pipe = "connected", !.pipeFinalizers = 1]
    BY <1>7, <2>2, Zenon
  <2>4. /\ mig' \in Object
        /\ mig'.phase = mig.phase /\ mig'.pipe = "connected" /\ mig'.host = mig.host
        /\ mig'.enabled = mig.enabled /\ mig'.success = mig.success
        /\ mig'.pipeFinalizers = 1 /\ mig'.hostFinalizers = mig.hostFinalizers
    BY <1>3, <1>7, <2>2, <2>3, Zenon DEF Object, Connect
  <2> HIDE DEF m
  <2>5. Forward /\ TaskInv'
    BY <1>4, <1>5, <2>4, Zenon DEF Forward, TaskInv
  <2>6. ObjectInv(mig)'
    BY <1>1, <1>3, <1>7, <2>4, Zenon DEF ObjectInv
  <2> QED BY <1>1, <1>2, <1>4, <2>4, <2>5, <2>6, AgentKeeps, Zenon
<1> QED BY <1>2, <1>6, <1>7, Zenon

(* The task is started from a copy of phase Syncing: the object has its pipe
   then, and is not finished, because a finished one has none. *)
LEMMA AgentStartTaskKeeps ==
    ASSUME IInv, AgentStartTask
    PROVE  IInv'
<1>1. /\ held["agent"].phase = "syncing" /\ attached
      /\ task' = [NoTask EXCEPT !.there = TRUE]
      /\ Over("agent") /\ UNCHANGED <<kind, mig, dest, attached, path, broken, faults>>
  BY Zenon DEF AgentStartTask, StartMigrationTask
<1>2. mig.pipe = "connected" /\ mig.phase \in {"syncing", "cleaning", "finished"}
  BY <1>1, AgentSees, Zenon DEF ObjectInv, CopyInv
<1>3. mig.phase # "finished"
  BY <1>2, Zenon DEF IInv, ObjectInv
<1>4. attached' \in BOOLEAN
      /\ task' \in [there : BOOLEAN, round : BOOLEAN, autoSwitch : BOOLEAN, done : BOOLEAN]
  BY <1>1, Zenon DEF NoTask, IInv, TypeOK
<1>5. TaskInv'
  BY <1>1, <1>2, <1>3, Zenon DEF TaskInv
<1> QED BY <1>1, <1>4, <1>5, AgentKeepsSame, Zenon

(* The merge patch is not refused.  It takes nothing back: a switch that is
   not enabled in the agent's copy is not enabled in the object. *)
LEMMA AgentEnableAutoSwitchKeeps ==
    ASSUME IInv, AgentEnableAutoSwitch
    PROVE  IInv'
<1>1. /\ held["agent"].phase = "syncing" /\ task.there /\ ~held["agent"].enabled
      /\ task' = [task EXCEPT !.autoSwitch = TRUE]
      /\ Patch("agent", [mig EXCEPT !.enabled = TRUE, !.success = FALSE])
      /\ UNCHANGED <<kind, dest, attached, path, broken>>
  BY Zenon DEF AgentEnableAutoSwitch, SetMigrationConfig, GetMigrationTask
<1>2. /\ Over("agent") /\ (Fault \/ UNCHANGED faults)
      /\ mig' = mig \/ mig' = [mig EXCEPT !.enabled = TRUE, !.success = FALSE]
  BY <1>1, Zenon DEF Patch
<1>3. /\ mig \in Object /\ ~mig.enabled
      /\ mig.phase \in {"syncing", "cleaning", "finished"}
  BY <1>1, AgentSees, Zenon DEF CopyInv
<1>4. /\ attached' \in BOOLEAN /\ task'.there = task.there
      /\ task' \in [there : BOOLEAN, round : BOOLEAN, autoSwitch : BOOLEAN, done : BOOLEAN]
  BY <1>1, Zenon DEF IInv, TypeOK
<1>5. CASE mig' = mig
  <2>1. TaskInv'
    BY <1>1, <1>4, <1>5, Zenon DEF IInv, TaskInv
  <2> QED BY <1>1, <1>2, <1>4, <1>5, <2>1, AgentKeepsSame, Zenon
<1>6. CASE mig' = [mig EXCEPT !.enabled = TRUE, !.success = FALSE]
  <2>1. mig.success = FALSE /\ mig.phase = "syncing"
    BY <1>3, Zenon DEF IInv, ObjectInv, Object
  <2>2. /\ mig' \in Object
        /\ mig'.phase = mig.phase /\ mig'.pipe = mig.pipe /\ mig'.host = mig.host
        /\ mig'.enabled = TRUE /\ mig'.success = FALSE
        /\ mig'.pipeFinalizers = mig.pipeFinalizers /\ mig'.hostFinalizers = mig.hostFinalizers
    BY <1>3, <1>6, Zenon DEF Object
  <2>3. Forward /\ TaskInv'
    BY <1>1, <1>4, <2>2, Zenon DEF Forward, IInv, TaskInv
  <2>4. ObjectInv(mig)'
    BY <2>1, <2>2, Zenon DEF IInv, ObjectInv
  <2>5. mig'.host = mig.host /\ mig'.success = mig.success
    BY <2>1, <2>2, Zenon
  <2> QED BY <1>1, <1>2, <1>4, <2>2, <2>3, <2>4, <2>5, AgentKeeps, Zenon
<1> QED BY <1>2, <1>5, <1>6, Zenon

LEMMA AgentCleanKeeps ==
    ASSUME IInv, AgentClean
    PROVE  IInv'
<1> DEFINE m == [held["agent"] EXCEPT !.pipe = "disconnected", !.pipeFinalizers = 0]
<1>1. /\ held["agent"].phase = "cleaning" /\ held["agent"].pipe = "connected"
      /\ task' = NoTask /\ UNCHANGED <<kind, dest, path, broken>>
  BY Zenon DEF AgentClean, CleanMigrationTask
<1>2. /\ Over("agent") /\ (Fault \/ UNCHANGED faults)
      /\ \/ mig' = mig /\ (attached' = attached \/ attached' = FALSE)
         \/ mig = held["agent"] /\ mig' = m /\ attached' = FALSE
  <2>1. CASE DetachMigrationDestBdev /\ Update("agent", m)
    BY <2>1, UpdateOutcome, Zenon DEF Actors, DetachMigrationDestBdev
  <2>2. CASE UNCHANGED <<attached, mig>> /\ Over("agent") /\ Fault
    BY <2>2, Zenon
  <2> QED BY <2>1, <2>2, Zenon DEF AgentClean
<1>3. /\ held["agent"] \in Object /\ mig.pipe = "connected"
      /\ mig.phase \in {"cleaning", "finished"}
  BY <1>1, AgentSees, Zenon DEF CopyInv
<1>4. /\ attached' \in BOOLEAN /\ ~task'.there
      /\ task' \in [there : BOOLEAN, round : BOOLEAN, autoSwitch : BOOLEAN, done : BOOLEAN]
  BY <1>1, <1>2, Zenon DEF NoTask, IInv, TypeOK
<1>5. CASE mig' = mig
  <2>1. TaskInv'
    BY <1>3, <1>4, <1>5, Zenon DEF TaskInv
  <2> QED BY <1>1, <1>2, <1>4, <1>5, <2>1, AgentKeepsSame, Zenon
<1>6. CASE mig = held["agent"] /\ mig' = m /\ attached' = FALSE
  <2>1. 0 \in 0..1
    OBVIOUS
  <2>2. /\ mig' \in Object
        /\ mig'.phase = mig.phase /\ mig'.pipe = "disconnected" /\ mig'.host = mig.host
        /\ mig'.enabled = mig.enabled /\ mig'.success = mig.success
        /\ mig'.pipeFinalizers = 0 /\ mig'.hostFinalizers = mig.hostFinalizers
    BY <1>3, <1>6, <2>1, Zenon DEF Object, Connect
  <2> HIDE DEF m
  <2>3. Forward /\ TaskInv'
    BY <1>4, <1>6, <2>2, Zenon DEF Forward, TaskInv
  <2>4. ObjectInv(mig)'
    BY <1>1, <1>6, <2>2, Zenon DEF IInv, ObjectInv
  <2> QED BY <1>1, <1>2, <1>4, <2>2, <2>3, <2>4, AgentKeeps, Zenon
<1> QED BY <1>2, <1>5, <1>6, Zenon

-----------------------------------------------------------------------------
(* The passes of the host-nvme manager. *)

LEMMA HostSees ==
    ASSUME IInv
    PROVE  /\ held["host"] \in Object /\ mig \in Object
           /\ ObjectInv(held["host"]) /\ CopyInv(held["host"])
BY Zenon DEF IInv, TypeOK, Actors

(* What is left to show of a step of the host-nvme manager. *)
LEMMA HostKeeps ==
    ASSUME IInv, Over("host"), Fault \/ UNCHANGED faults,
           UNCHANGED <<kind, dest, attached, task, broken>>,
           mig' \in Object, ObjectInv(mig)',
           mig'.phase = mig.phase, mig'.pipe = mig.pipe, mig'.enabled = mig.enabled,
           path' \in [src : {"none", "working", "degraded"}, dst : {"none", "standby", "working"}],
           PathInv', NeverStranded'
    PROVE  IInv'
<1>1. "host" \in Actors
  BY Zenon DEF Actors
<1>2. /\ held' \in [Actors -> Object]
      /\ \A a \in Actors : held'[a] = held[a] \/ held'[a] = NothingRead
  BY <1>1, OverKeeps, Zenon DEF IInv
<1>3. Machine
  BY FaultType, Zenon DEF IInv, TypeOK, Machine
<1>4. Forward /\ TaskInv'
  BY Zenon DEF IInv, Forward, TaskInv
<1>5. /\ task' \in [there : BOOLEAN, round : BOOLEAN, autoSwitch : BOOLEAN, done : BOOLEAN]
      /\ attached' \in BOOLEAN
  BY Zenon DEF IInv, TypeOK
<1> QED BY <1>2, <1>3, <1>4, <1>5, StepKeeps, Zenon

LEMMA Subsystems ==
    ASSUME TypeOK
    PROVE  /\ "dst" \in ListSubsystems(path) <=> path.dst # "none"
           /\ ListSubsystems(path) = {"src", "dst"} <=> path.src # "none" /\ path.dst # "none"
<1>1. DOMAIN path = {"src", "dst"}
  BY Zenon DEF TypeOK
<1>2. \A s \in {"src", "dst"} : s \in ListSubsystems(path) <=> path[s] # "none"
  BY <1>1, Zenon DEF ListSubsystems
<1>3. ListSubsystems(path) \subseteq {"src", "dst"}
  BY <1>1, Zenon DEF ListSubsystems
<1> QED BY <1>2, <1>3

LEMMA HostConnectsKeeps ==
    ASSUME IInv, HostConnects
    PROVE  IInv'
<1> DEFINE m == [held["host"] EXCEPT !.host = "connected",
                                    !.hostFinalizers = held["host"].hostFinalizers + 1]
<1>1. /\ held["host"].phase = "setupPipe" /\ held["host"].host # "connected"
      /\ Update("host", m) /\ UNCHANGED <<kind, dest, attached, task, broken>>
  BY Zenon DEF HostConnects
<1>2. /\ Over("host") /\ (Fault \/ UNCHANGED faults)
      /\ mig' = mig \/ (mig = held["host"] /\ mig' = m)
  BY <1>1, UpdateOutcome, Zenon DEF Actors
<1>3. \/ path.dst # "none" /\ path' = path
      \/ path.dst = "none" /\ path' = [path EXCEPT !.dst = "standby"]
  BY Subsystems, Zenon DEF HostConnects, IInv
<1>4. /\ path' \in [src : {"none", "working", "degraded"}, dst : {"none", "standby", "working"}]
      /\ path'.src = path.src /\ path'.dst # "none"
      /\ path.dst = "working" => path'.dst = "working"
  BY <1>3, Zenon DEF IInv, TypeOK
<1>5. held["host"] \in Object /\ ObjectInv(held["host"])
  BY HostSees, Zenon
<1>6. NeverStranded'
  BY <1>1, <1>4, Zenon DEF IInv, NeverStranded
<1>7. CASE mig' = mig
  <2>1. /\ mig' \in Object /\ mig'.phase = mig.phase /\ mig'.pipe = mig.pipe
        /\ mig'.enabled = mig.enabled
    BY <1>7, Zenon DEF IInv, TypeOK
  <2>2. ObjectInv(mig)'
    BY <1>7, Zenon DEF IInv, ObjectInv
  <2>3. PathInv'
    BY <1>1, <1>4, <1>7, Zenon DEF IInv, PathInv
  <2> QED BY <1>1, <1>2, <1>4, <1>6, <2>1, <2>2, <2>3, HostKeeps, Zenon
<1>8. CASE mig = held["host"] /\ mig' = m
  <2>1. mig.host = "no" /\ mig.hostFinalizers = 0
    BY <1>1, <1>5, <1>8, Zenon DEF ObjectInv, Object, Connect
  <2>2. held["host"].hostFinalizers + 1 = 1 /\ 1 \in 0..1
    BY <1>8, <2>1
  <2>3. m = [mig EXCEPT !.host = "connected", !.hostFinalizers = 1]
    BY <1>8, <2>2, Zenon
  <2>4. /\ mig' \in Object
        /\ mig'.phase = mig.phase /\ mig'.pipe = mig.pipe /\ mig'.host = "connected"
        /\ mig'.enabled = mig.enabled /\ mig'.success = mig.success
        /\ mig'.pipeFinalizers = mig.pipeFinalizers /\ mig'.hostFinalizers = 1
    BY <1>5, <1>8, <2>2, <2>3, Zenon DEF Object, Connect
  <2> HIDE DEF m
  <2>5. ObjectInv(mig)'
    BY <1>1, <1>8, <2>4, Zenon DEF IInv, ObjectInv
  <2>6. PathInv'
    BY <1>1, <1>4, <2>4, Zenon DEF IInv, PathInv
  <2> QED BY <1>1, <1>2, <1>4, <1>6, <2>4, <2>5, <2>6, HostKeeps, Zenon
<1> QED BY <1>2, <1>7, <1>8, Zenon

LEMMA HostSeesSwitchKeeps ==
    ASSUME IInv, HostSeesSwitch
    PROVE  IInv'
<1> DEFINE m == [held["host"] EXCEPT !.success = TRUE]
<1>1. /\ held["host"].phase = "syncing" /\ held["host"].enabled /\ path.dst = "working"
      /\ Update("host", m) /\ UNCHANGED <<kind, dest, attached, task, path, broken>>
  BY Zenon DEF HostSeesSwitch
<1>2. /\ Over("host") /\ (Fault \/ UNCHANGED faults)
      /\ mig' = mig \/ (mig = held["host"] /\ mig' = m)
  BY <1>1, UpdateOutcome, Zenon DEF Actors
<1>3. /\ path' \in [src : {"none", "working", "degraded"}, dst : {"none", "standby", "working"}]
      /\ NeverStranded'
  BY <1>1, Zenon DEF IInv, TypeOK, NeverStranded
<1>4. held["host"] \in Object
  BY HostSees, Zenon
<1>5. /\ mig' \in Object
      /\ mig'.phase = mig.phase /\ mig'.pipe = mig.pipe /\ mig'.host = mig.host
      /\ mig'.enabled = mig.enabled
      /\ mig'.pipeFinalizers = mig.pipeFinalizers /\ mig'.hostFinalizers = mig.hostFinalizers
      /\ mig' = mig \/ (mig.phase = "syncing" /\ mig.enabled)
  <2>1. CASE mig' = mig
    BY <2>1, Zenon DEF IInv, TypeOK
  <2>2. CASE mig = held["host"] /\ mig' = m
    BY <1>1, <1>4, <2>2, Zenon DEF Object
  <2> QED BY <1>2, <2>1, <2>2, Zenon
<1> HIDE DEF m
<1>6. ObjectInv(mig)'
  <2>1. CASE mig' = mig
    BY <2>1, Zenon DEF IInv, ObjectInv
  <2>2. CASE mig.phase = "syncing" /\ mig.enabled
    BY <1>5, <2>2, Zenon DEF IInv, ObjectInv
  <2> QED BY <1>5, <2>1, <2>2, Zenon
<1>7. PathInv'
  BY <1>1, <1>5, Zenon DEF IInv, PathInv
<1> QED BY <1>1, <1>2, <1>3, <1>5, <1>6, <1>7, HostKeeps, Zenon

(* The source is disconnected from a copy of phase Cleaning: the object says
   then that the destination works. *)
LEMMA HostDisconnectsKeeps ==
    ASSUME IInv, HostDisconnects
    PROVE  IInv'
<1> DEFINE m == [held["host"] EXCEPT !.host = "disconnected", !.hostFinalizers = 0]
<1>1. /\ held["host"].phase = "cleaning" /\ held["host"].host = "connected"
      /\ Update("host", m) /\ UNCHANGED <<kind, dest, attached, task, broken>>
  BY Zenon DEF HostDisconnects
<1>2. /\ Over("host") /\ (Fault \/ UNCHANGED faults)
      /\ mig' = mig \/ (mig = held["host"] /\ mig' = m)
  BY <1>1, UpdateOutcome, Zenon DEF Actors
<1>3. /\ path.src # "working" \/ path.dst = "none"
      /\ \/ path' = path /\ (path.src # "degraded" \/ path.dst = "none")
         \/ path' = [path EXCEPT !.src = "none"]
  BY Subsystems, Zenon DEF HostDisconnects, SourcePathWaits, IInv
<1>4. path' \in [src : {"none", "working", "degraded"}, dst : {"none", "standby", "working"}]
      /\ path'.dst = path.dst
  BY <1>3, Zenon DEF IInv, TypeOK
<1>5. held["host"] \in Object /\ mig.success
  BY <1>1, HostSees, Zenon DEF IInv, ObjectInv, CopyInv
<1>6. ~broken => path'.src = "none" /\ path'.dst = "working"
  <2>1. SUFFICES ASSUME ~broken PROVE path'.src = "none" /\ path'.dst = "working"
    OBVIOUS
  <2>2. path.dst = "working"
    BY <1>5, <2>1, Zenon DEF IInv, PathInv
  <2>3. CASE path' = [path EXCEPT !.src = "none"]
    BY <1>4, <2>2, <2>3, Zenon DEF IInv, TypeOK
  <2>4. CASE path' = path /\ path.src # "degraded" /\ path.src # "working"
    BY <2>2, <2>4, Zenon DEF IInv, TypeOK
  <2> QED BY <1>3, <2>2, <2>3, <2>4, Zenon
<1>7. NeverStranded'
  BY <1>1, <1>6, Zenon DEF NeverStranded
<1>8. 0 \in 0..1
  OBVIOUS
<1>9. /\ mig' \in Object
      /\ mig'.phase = mig.phase /\ mig'.pipe = mig.pipe
      /\ mig'.enabled = mig.enabled /\ mig'.success = mig.success
      /\ mig'.pipeFinalizers = mig.pipeFinalizers
      /\ \/ mig' = mig
         \/ mig'.host = "disconnected" /\ mig'.hostFinalizers = 0 /\ mig.phase = "cleaning"
  <2>1. CASE mig' = mig
    BY <2>1, Zenon DEF IInv, TypeOK
  <2>2. CASE mig = held["host"] /\ mig' = m
    BY <1>1, <1>5, <1>8, <2>2, Zenon DEF Object, Connect
  <2> QED BY <1>2, <2>1, <2>2, Zenon
<1> HIDE DEF m
<1>10. ObjectInv(mig)'
  <2>1. CASE mig' = mig
    BY <2>1, Zenon DEF IInv, ObjectInv
  <2>2. CASE mig'.host = "disconnected" /\ mig'.hostFinalizers = 0 /\ mig.phase = "cleaning"
    BY <1>9, <2>2, Zenon DEF IInv, ObjectInv
  <2> QED BY <1>9, <2>1, <2>2, Zenon
<1>11. PathInv'
  BY <1>1, <1>6, Zenon DEF PathInv
<1> QED BY <1>1, <1>2, <1>4, <1>7, <1>9, <1>10, <1>11, HostKeeps, Zenon

-----------------------------------------------------------------------------
LEMMA NextIInv ==
    ASSUME IInv, [Next]_vars
    PROVE  IInv'
<1>1. CASE UNCHANGED vars
  <2>1. UNCHANGED <<kind, mig, held, dest, attached, task, path, broken, faults>>
    BY <1>1, Zenon DEF vars
  <2>2. TaskInv' /\ PathInv' /\ NeverStranded'
    BY <2>1, Zenon DEF IInv, TaskInv, PathInv, NeverStranded
  <2> QED BY <2>1, <2>2, NodeKeeps, Zenon DEF IInv, TypeOK
<1>2. CASE AgentReads \/ HostReads
  BY <1>2, ReadsKeep, Zenon DEF AgentReads, HostReads, Actors
<1>3. CASE AgentStep
  BY <1>3, AgentSetupPipeKeeps, AgentStartTaskKeeps, AgentEnableAutoSwitchKeeps,
     AgentCleanKeeps, Zenon DEF AgentStep
<1>4. CASE HostStep
  BY <1>4, HostConnectsKeeps, HostSeesSwitchKeeps, HostDisconnectsKeeps, Zenon DEF HostStep
<1> QED BY <1>1, <1>2, <1>3, <1>4, ReconcileKeeps, DestKeeps, PassEndsKeeps, TaskRoundKeeps,
           TaskSwitchesKeeps, SourceDegradesKeeps, LossKeeps, DeleteKeeps, Zenon DEF Next

LEMMA SpecIInv == Spec => []IInv
BY InitIInv, NextIInv, PTL DEF Spec

(* The variables keep their types; neither finalizer is ever listed twice,
   although SetupPipe and the connecting of the host may be run again. *)
THEOREM TypeCorrect == Spec => []TypeOK
<1>1. IInv => TypeOK
  BY Zenon DEF IInv
<1> QED BY SpecIInv, <1>1, PTL

(* The host always has a path to use unless one was lost by itself, however
   the passes of the three components interleave, are cut, and have their
   writes refused. *)
THEOREM HostNeverStranded == Spec => []NeverStranded
<1>1. IInv => NeverStranded
  BY Zenon DEF IInv
<1> QED BY SpecIInv, <1>1, PTL

(* A migration whose phase is Finished has left no task, no attached
   controller, no path to the source and no finalizer behind. *)
THEOREM EndIsClean == Spec => []CleanEnd
<1>1. IInv => CleanEnd
  <2>1. SUFFICES ASSUME IInv, mig.phase = "finished"
                 PROVE  /\ ~task.there /\ ~attached
                        /\ broken \/ path = [src |-> "none", dst |-> "working"]
                        /\ mig.pipeFinalizers = 0 /\ mig.hostFinalizers = 0
    BY Zenon DEF CleanEnd
  <2>2. /\ mig.pipe = "disconnected" /\ mig.host = "disconnected" /\ mig.success
        /\ mig.pipeFinalizers = 0 /\ mig.hostFinalizers = 0
    BY <2>1, Zenon DEF IInv, ObjectInv
  <2>3. ~task.there /\ ~attached
    BY <2>1, <2>2, Zenon DEF IInv, TaskInv
  <2>4. ~broken => path.src = "none" /\ path.dst = "working"
    BY <2>2, <2>1, Zenon DEF IInv, PathInv
  <2>5. path.src = "none" /\ path.dst = "working" => path = [src |-> "none", dst |-> "working"]
    BY <2>1, Zenon DEF IInv, TypeOK
  <2> QED BY <2>2, <2>3, <2>4, <2>5, Zenon
<1> QED BY SpecIInv, <1>1, PTL
=============================================================================
