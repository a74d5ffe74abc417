--------------------------- MODULE SvcIdAllocator ---------------------------
(***************************************************************************)
(* The allocator of NVMe-oF service ids: the TCP ports that SPDK targets   *)
(* listen on.  It keeps a cursor and the set of ids it takes for used.     *)
(* Each operation runs under the allocator's lock, so each is a function   *)
(* from the allocator's state to the next.                                 *)
(***************************************************************************)
EXTENDS Integers, FiniteSets

CONSTANTS MinId, MaxId      \* the range of ids, both ends included

ASSUME RangeAssumption == MinId \in Nat \ {0} /\ MaxId \in Nat /\ MinId < MaxId

Ids == MinId..MaxId

Count == MaxId - MinId + 1

(* No id: an empty SvcID, or the 0 that NextID returns with its error. *)
NoId == 0

Allocator == [cursor : Ids, inUse : SUBSET Ids]

(* The id that the cursor reaches after k < Count steps: past MaxId it is set
   back to MinId. *)
After(cursor, k) == IF cursor + k <= MaxId THEN cursor + k ELSE cursor + k - Count

(* The search stops at step k: the id is free and no earlier one is.  The
   step counter is compared with Count after each step, also after the one
   that finds a free id, so that the last of the Count steps never counts. *)
Found(a, k) ==
    /\ k \in 1..(Count - 1)
    /\ After(a.cursor, k) \notin a.inUse
    /\ \A j \in 1..(k - 1) : After(a.cursor, j) \in a.inUse

(* NextID: the id it returns, NoId for the error. *)
NextID(a) ==
    IF a.inUse = {} THEN MinId
    ELSE IF \E k \in 1..(Count - 1) : Found(a, k)
         THEN After(a.cursor, CHOOSE k \in 1..(Count - 1) : Found(a, k))
         ELSE NoId

(* What NextID leaves behind: an error leaves the cursor where it was, after
   a full turn. *)
Taken(a) ==
    IF NextID(a) = NoId THEN a
    ELSE [cursor |-> NextID(a), inUse |-> a.inUse \cup {NextID(a)}]

(* SyncFromTruth replaces the ids in use by those of SPDK's listeners.  The
   set is emptied first and stays empty when SPDK does not answer. *)
SyncFromTruth(a, truth) == [a EXCEPT !.inUse = truth]

SyncFailed(a) == [a EXCEPT !.inUse = {}]

(* NewSpdkService. *)
NewAllocator(truth) == [cursor |-> MinId, inUse |-> truth]

=============================================================================
