------------------------- MODULE MCAwsSnapshotStore -------------------------
(* The constants of AwsSnapshotStore for TLC. *)
EXTENDS AwsSnapshotStore, TLC

OneService == <<"ec2">>

StoreSymmetry == Permutations(Writers) \cup Permutations(Hashes)
=============================================================================
