------------------------------ MODULE MCFleet ------------------------------
(* Small instances of DownloadFleet for TLC. *)
EXTENDS DownloadFleet, TLC

MCIdentityOf == [r \in Requests |-> CHOOSE i \in Identities : TRUE]
MCSize       == [d \in Digests |-> 1]
MCHookDelay  == [n \in 0 .. BackoffCap |-> 2 ^ n]
Symmetry     == Permutations(Procs) \cup Permutations(Gens)

WorkerSymmetry == Permutations(Workers)
=============================================================================
