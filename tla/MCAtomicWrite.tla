---------------------------- MODULE MCAtomicWrite ----------------------------
(* Values of the constants of AtomicWrite for TLC. *)
EXTENDS AtomicWrite, TLC

\* Pids, values and inodes are alike among themselves.
Symmetry == Permutations(Procs) \cup Permutations(Inodes) \cup Permutations(Values)

=============================================================================
