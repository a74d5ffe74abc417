---------------------------- MODULE MCMigration ----------------------------
(* One migration, with every kind of source volume, and three faults: a cut
   pass in each of two components, and a loss or a deletion besides. *)
EXTENDS Migration

=============================================================================
