---------------------------- MODULE MCCheckpoint ----------------------------
(* Small instances of CheckpointProps for TLC. *)
EXTENDS CheckpointProps, TLC

\* Files and processes are interchangeable where no temporal property is checked.
FileSymmetry == Permutations(Inodes) \cup Permutations(Procs)
=============================================================================
