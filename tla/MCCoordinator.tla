--------------------------- MODULE MCCoordinator ---------------------------
(* Small instances of Coordinator for TLC. *)
EXTENDS Coordinator, TLC

CONSTANTS r1, r2, w1, w2, a1, a2, a3, k1, k2

Load(k, o)  == [key |-> k, owner |-> o, writing |-> FALSE]
Store(k, o) == [key |-> k, owner |-> o, writing |-> TRUE]

OneReader   == {Load(k1, "p")}
OneWriter   == {Store(k1, "q")}
ReadWrite   == {Load(k1, "p"), Store(k1, "q")}

Reading(calls, n, lost, clock) ==
  [asks |-> OneReader, calls |-> calls, workers |-> n, losses |-> lost, clock |-> clock, closes |-> FALSE]
Writing(calls, n) ==
  [asks |-> OneWriter, calls |-> calls, workers |-> n, losses |-> 1, clock |-> FALSE, closes |-> TRUE]

Renewal == {Reading({"reserve", "renew"}, 1, 1, TRUE),
            Reading({"reserve", "release", "renew"}, 2, 0, TRUE),
            Reading({"reserve", "release", "renew"}, 2, 1, FALSE)}
Cleanup == {Reading({"reserve", "release", "invalidate"}, 2, 1, FALSE), Writing({"reserve", "complete"}, 1)}
(* A store that fails while its key is looked up. *)
Overlap == {[asks |-> ReadWrite, calls |-> {"reserve", "release", "complete"}, workers |-> 1,
             losses |-> 0, clock |-> FALSE, closes |-> FALSE]}
AnyUse  == Renewal \cup Cleanup \cup Overlap

Flat == [k \in Keys |-> 1]

Interchangeable == Permutations(Ranks) \cup Permutations(Workers) \cup Permutations(Attempts)
=============================================================================
