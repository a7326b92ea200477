---------------------------- MODULE MCSyncEngine ----------------------------
(* Instances of SyncEngine for TLC. *)
EXTENDS SyncEngine, TLC

MCModes == {[incremental |-> FALSE, bidirectional |-> FALSE],
            [incremental |-> TRUE, bidirectional |-> TRUE]}

Symmetry == Permutations(Execs)
=============================================================================
