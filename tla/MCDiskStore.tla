---------------------------- MODULE MCDiskStore ----------------------------
(* Small instances of DiskStore for TLC. *)
EXTENDS DiskStore, TLC

CONSTANTS i1, i2, i3, l1, l2

Wide   == [quota |-> 4, high |-> 3, low |-> 2, objects |-> 3]
Middle == [quota |-> 3, high |-> 2, low |-> 1, objects |-> 2]
Narrow == [quota |-> 2, high |-> 2, low |-> 1, objects |-> 2]

Roomy     == {Wide}
Tight     == {Middle}
Shrinking == {Middle, Narrow}     \* a restart may come with a smaller quota

Interchangeable == Permutations(Ids) \cup Permutations(Leases)
=============================================================================
