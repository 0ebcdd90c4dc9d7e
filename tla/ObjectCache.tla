---------------------------- MODULE ObjectCache ----------------------------
(***************************************************************************)
(* What a rank's object store promises its users, without files, tables,   *)
(* quotas or clocks.  An object becomes visible under its key once, whole; *)
(* it may be dropped at any time, because this is a cache; once dropped it *)
(* is never visible again; and while a reader has it pinned its data stays *)
(* in the store whether it was dropped or not.                             *)
(***************************************************************************)
CONSTANTS Ids, Keys, Leases, None

VARIABLES
  visible,   \* the object a lookup of each key finds
  stored,    \* the objects whose data is in the store
  retired,   \* the objects that will never be visible (again)
  pin        \* the object every reader holds
vars == <<visible, stored, retired, pin>>

Init ==
  /\ visible = [k \in Keys |-> None]
  /\ stored = {}
  /\ retired = {}
  /\ pin = [l \in Leases |-> None]

Shown  == {visible[k] : k \in Keys}
Pinned == {pin[l] : l \in Leases}

Publish(k, i) ==
  /\ visible[k] = None
  /\ i \notin retired \cup Shown
  /\ visible' = [visible EXCEPT ![k] = i]
  /\ stored' = stored \cup {i}
  /\ UNCHANGED <<retired, pin>>

(* Data arrives whose object may then never become visible. *)
Place(i) ==
  /\ i \notin stored
  /\ stored' = stored \cup {i}
  /\ UNCHANGED <<visible, pin>>
  /\ \E R \in SUBSET (Ids \ Shown) : retired' = retired \cup R

(* Retire the objects R and delete the data of the retired objects P. *)
Reclaim(R, P) ==
  /\ retired' = retired \cup R
  /\ P \subseteq retired' \ Pinned
  /\ visible' = [k \in Keys |-> IF visible[k] \in R THEN None ELSE visible[k]]
  /\ stored' = stored \ P
  /\ UNCHANGED pin

Pin(l, i) ==
  /\ pin[l] = None
  /\ i \in Shown
  /\ pin' = [pin EXCEPT ![l] = i]
  /\ UNCHANGED <<visible, stored>>
  /\ \E R \in SUBSET (Ids \ Shown) : retired' = retired \cup R

Unpin(S) ==
  /\ pin' = [l \in Leases |-> IF l \in S THEN None ELSE pin[l]]
  /\ UNCHANGED <<visible, stored>>
  /\ \E R \in SUBSET (Ids \ Shown) : retired' = retired \cup R

Next ==
  \/ \E k \in Keys, i \in Ids : Publish(k, i)
  \/ \E i \in Ids : Place(i)
  \/ \E R, P \in SUBSET Ids : Reclaim(R, P)
  \/ \E l \in Leases, i \in Ids : Pin(l, i)
  \/ \E S \in SUBSET Leases : Unpin(S)

Spec == Init /\ [][Next]_vars

(* A pinned or visible object can be read. *)
ReadersServed == (Pinned \cup Shown) \ {None} \subseteq stored
=============================================================================
