------------------------------ MODULE MCAttach ------------------------------
(* A block volume of an SPDK pool and a file system volume of an LVM pool,
   four ports, two Pods and two failures: enough for a failure inside the
   recovery from another one, too few to use up the ports.  The file system
   volume, which alone has a mount to leave behind, may be deleted. *)
EXTENDS Attach

CONSTANTS v1, v2

=============================================================================
