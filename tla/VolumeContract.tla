--------------------------- MODULE VolumeContract ---------------------------
(***************************************************************************)
(* What the Disk-Controller promises about a volume, whatever its caches   *)
(* and retries do: it is placed on one node and stays there, its space is  *)
(* counted on that node and on no other from before it may be used until   *)
(* it is deleted, and an admitted volume (one with the in-state finalizer) *)
(* goes away only after its space was given back.  VolumeLifecycle         *)
(* implements this.                                                        *)
(***************************************************************************)
CONSTANTS
    Nodes,      \* nodes with a StoragePool
    None        \* no node

VARIABLES
    phase,      \* how far the volume is
    place,      \* the node it is placed on
    counted,    \* the nodes where its space is taken
    admitted    \* it has carried the in-state finalizer

vars == <<phase, place, counted, admitted>>

Phases == {"absent", "requested", "ready", "deleting", "gone"}
Live == phase \in {"requested", "ready"}

Init == phase = "absent" /\ place = None /\ counted = {} /\ admitted = FALSE

Request ==
    /\ phase = "absent" /\ phase' = "requested"
    /\ UNCHANGED <<place, counted, admitted>>

(* The space is taken on n, where the volume is or may be placed, and the
   placement recorded or not.  That may come too late for a volume that was
   deleted before it was admitted. *)
Take(n) ==
    /\ phase # "absent" /\ (phase = "gone" => ~admitted)
    /\ counted \subseteq {n} /\ place \in {None, n}
    /\ counted' = {n}
    /\ place' = place \/ (phase # "gone" /\ place' = n)
    /\ UNCHANGED <<phase, admitted>>

(* A placed volume is admitted with its space taken. *)
Admit ==
    /\ phase \in {"requested", "ready"} /\ place # None
    /\ counted \subseteq {place} /\ counted' = {place}
    /\ admitted' = TRUE
    /\ UNCHANGED <<phase, place>>

Activate ==
    /\ phase = "requested" /\ admitted /\ counted = {place}
    /\ phase' = "ready"
    /\ UNCHANGED <<place, counted, admitted>>

(* The space of a volume that is neither placed nor needed may be forgotten. *)
Forget ==
    /\ place = None \/ ~Live
    /\ counted' = {}
    /\ UNCHANGED <<phase, place, admitted>>

(* A volume that nobody admitted is gone as soon as it is deleted. *)
Delete ==
    /\ Live
    /\ IF admitted THEN phase' = "deleting" /\ UNCHANGED place
                   ELSE phase' = "gone" /\ place' = None
    /\ UNCHANGED <<counted, admitted>>

Vanish ==
    /\ phase = "deleting" /\ phase' = "gone" /\ place' = None
    /\ counted' = {}
    /\ UNCHANGED admitted

Next ==
    \/ Request \/ Admit \/ Activate \/ Forget \/ Delete \/ Vanish
    \/ \E n \in Nodes : Take(n)

Spec == Init /\ [][Next]_vars
=============================================================================
