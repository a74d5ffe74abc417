----------------------------- MODULE PoolBuild -----------------------------
(***************************************************************************)
(* How the Disk-Agent comes to its pool.  At every start NewPoolService    *)
(* looks for the volume group or the lvstore, and builds what is missing   *)
(* below it: a file, a device on it, and the group or store on the device. *)
(* The agent gives up on the first error and is started again.             *)
(*                                                                         *)
(* The four stacks: "lvm", a volume group on a loop device; and an lvstore *)
(* on an aio bdev, on memory, or on a RAID 0 of two NVMe devices.          *)
(***************************************************************************)

CONSTANTS Stacks

ASSUME StacksAssumption == Stacks \subseteq {"lvm", "aio", "mem", "raid"}

VARIABLES
    stack,
    agent,      \* the agent is up
    media       \* what there is to build the pool on

poolVars == <<stack, agent, media>>

(* file: the file behind the device; short: without its size.  base: the loop device, or the base bdev in
   the running SPDK.  store: the volume group or lvstore on the medium.
   swapped: the two devices of the RAID are in another order than when the
   store was written. *)
NoMedia == [file |-> FALSE, short |-> FALSE, base |-> FALSE, store |-> FALSE,
            swapped |-> FALSE]

Online == media.base /\ media.store /\ ~media.swapped

(* What an attempt to build comes to. *)
Outcome(m, ok, fresh) == [media |-> m, ok |-> ok, fresh |-> fresh]

-----------------------------------------------------------------------------
(* buildLVM.  The devices come first: CreateFallocateFile leaves a file that is
   there alone, whatever its size.  A device that comes back has its volume group
   on it, and pvcreate refuses it, as it does one without a size. *)
LoopDevices(m) == [m EXCEPT !.file = TRUE, !.base = TRUE]

CreateVG(m) ==
    IF m.store \/ m.short THEN Outcome(m, FALSE, FALSE)
    ELSE Outcome([m EXCEPT !.store = TRUE], TRUE, TRUE)

PoolInfo(m) == m.base /\ m.store

BuildLVM(m) ==
    IF PoolInfo(m) THEN Outcome(m, TRUE, FALSE) ELSE CreateVG(LoopDevices(m))

-----------------------------------------------------------------------------
(* The base bdevs. *)

(* Mutant: the file is created without a look whether it is there. *)
LvsAioBdev_Truncated(m) ==
    Outcome(IF m.base THEN m ELSE [m EXCEPT !.file = TRUE, !.base = TRUE, !.store = FALSE],
            TRUE, ~m.base)

(* buildLvsAioBdev.  With the file there, the error of the query that did not
   find the bdev is returned although the bdev has been created since, or has
   not, on a file without a size. *)
LvsAioBdev(m) ==
    IF m.base THEN Outcome(m, TRUE, FALSE)
    ELSE Outcome([m EXCEPT !.file = TRUE, !.base = ~m.short], ~m.file, FALSE)

LvsMemBdev(m) == Outcome([m EXCEPT !.base = TRUE], TRUE, FALSE)

(* AttachNVMe pairs names and PCI addresses in the order in which two Go maps
   are walked. *)
AttachNVMe(m) ==
    IF m.base THEN {m} ELSE {[m EXCEPT !.base = TRUE, !.swapped = m.store /\ b] : b \in BOOLEAN}

(* The RAID is made of the two in the order of their names. *)
CreateBdevRaid(m) == Outcome(m, TRUE, FALSE)

LvsRaidBdev(m) == {CreateBdevRaid(x) : x \in AttachNVMe(m)}

(* CreateLVStore: SPDK has loaded a store it finds on the base bdev; where the
   name is not found a new one is written. *)
CreateLVStore(m) ==
    IF m.store /\ ~m.swapped THEN Outcome(m, TRUE, FALSE)
    ELSE Outcome([m EXCEPT !.store = TRUE, !.swapped = FALSE], TRUE, TRUE)

LvsBase(m) ==
    CASE stack = "aio" -> {LvsAioBdev(m)}
      [] stack = "mem" -> {LvsMemBdev(m)}
      [] stack = "raid" -> LvsRaidBdev(m)

BuildSpdkLVS(m) ==
    {IF b.ok THEN CreateLVStore(b.media) ELSE b : b \in LvsBase(m)}

Build(m) == IF stack = "lvm" THEN {BuildLVM(m)} ELSE BuildSpdkLVS(m)

-----------------------------------------------------------------------------
PoolInit == stack \in Stacks /\ agent = FALSE /\ media = NoMedia

(* NewPoolService.  fresh: the store is a new one, without volumes. *)
StartAgent(fresh) ==
    /\ ~agent
    /\ \E b \in Build(media) :
        media' = b.media /\ agent' = b.ok /\ b.fresh = fresh
    /\ UNCHANGED stack

(* The agent dies while it builds, after it has created the file, or before the
   file has its size. *)
BuildInterrupted ==
    /\ ~agent /\ ~media.file
    /\ \E b \in BOOLEAN : media' = [media EXCEPT !.file = TRUE, !.short = b]
    /\ UNCHANGED <<stack, agent>>

AgentDies ==
    /\ agent
    /\ agent' = FALSE
    /\ UNCHANGED <<stack, media>>

(* What is left when the loop device or SPDK is gone. *)
Offline(m) == [m EXCEPT !.base = FALSE, !.store = @ /\ stack # "mem"]

(* No one builds the base bdev again before the agent is started again. *)
SpdkRestarts ==
    /\ media.base
    /\ media' = IF stack = "lvm" THEN media ELSE Offline(media)
    /\ UNCHANGED <<stack, agent>>

NodeReboots ==
    /\ media.base
    /\ agent' = FALSE
    /\ media' = Offline(media)
    /\ UNCHANGED stack
=============================================================================
