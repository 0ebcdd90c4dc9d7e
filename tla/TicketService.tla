--------------------------- MODULE TicketService ---------------------------
(***************************************************************************)
(* What the coordinator promises the manager, without ranks, calls,        *)
(* threads, logs or windows.  A ticket is one lease.  It is granted whole, *)
(* for a key nobody vetoed; its owner is told a deadline only while it     *)
(* stands; once it is given back it is never vouched for again, and it is  *)
(* dropped when nothing is kept for it anywhere.  A lease that has lapsed or  *)
(* been let go is not revived, and a veto outlasts the tickets of its key  *)
(* and whatever was served of it when it was vetoed.                       *)
(***************************************************************************)
CONSTANTS Tickets, Keys, None

VARIABLES
  lease,     \* "none", "ticket", "retiring" or "dropped"
  key,       \* the key of a ticket until it is dropped
  vouched,   \* the tickets whose deadline has not passed, as far as the owner is told
  standing,  \* the tickets whose lease is in force on the disks
  kept,      \* the tickets for which some disk keeps an object
  vetoed,
  served,    \* the vetoed keys that some disk still serves
  closed
disks == <<standing, kept, served>>
vars == <<lease, key, vouched, disks, vetoed, closed>>

Init ==
  /\ lease = [t \in Tickets |-> "none"]
  /\ key = [t \in Tickets |-> None]
  /\ vouched = {} /\ standing \in SUBSET Tickets /\ kept = {}
  /\ vetoed = {} /\ served = {}
  /\ closed = FALSE

Open == {t \in Tickets : lease[t] = "none"}      \* not granted, and perhaps being asked for
Users(k) == {t \in Tickets : key[t] = k}

Grant(t, k) ==
  /\ ~closed /\ lease[t] = "none"
  /\ k \notin vetoed /\ t \in standing
  /\ lease' = [lease EXCEPT ![t] = "ticket"]
  /\ key' = [key EXCEPT ![t] = k]
  /\ vouched' = vouched \cup {t}
  /\ UNCHANGED <<disks, vetoed, closed>>

(* The lease was renewed in time. *)
Vouch(t) ==
  /\ ~closed /\ lease[t] = "ticket"
  /\ key[t] \notin vetoed /\ t \in standing
  /\ vouched' = vouched \cup {t}
  /\ UNCHANGED <<lease, key, disks, vetoed, closed>>

Retire(t) ==
  /\ lease[t] = "ticket"
  /\ lease' = [lease EXCEPT ![t] = "retiring"]
  /\ vouched' = vouched \ {t}
  /\ UNCHANGED <<key, disks, vetoed, closed>>

(* The last user of a vetoed key may take the veto along. *)
Lifts(k) == k \notin served /\ (\A t \in Tickets : key'[t] # k) /\ vetoed' = vetoed \ {k}

Drop(t) ==
  /\ lease[t] = "retiring" /\ t \notin kept
  /\ lease' = [lease EXCEPT ![t] = "dropped"]
  /\ key' = [key EXCEPT ![t] = None]
  /\ vetoed' = vetoed \/ Lifts(key[t])
  /\ UNCHANGED <<vouched, disks, closed>>

Veto(k) ==
  /\ vetoed' = vetoed \cup {k}
  /\ vouched' = vouched \ Users(k)
  /\ served' \in {served, served \cup {k}}
  /\ UNCHANGED <<lease, key, standing, kept, closed>>

Lift(k) ==
  /\ k \in vetoed
  /\ Lifts(k)
  /\ UNCHANGED <<lease, key, vouched, disks, closed>>

(* On the disks everything granted only fades; what is not granted yet may *)
(* come to stand, or turn up late.                                         *)
Fade ==
  /\ standing' \ standing \subseteq Open /\ kept' \ kept \subseteq Open
  /\ served' \subseteq served
  /\ vouched' \subseteq vouched \cap standing'
  /\ UNCHANGED <<lease, key, vetoed, closed>>

Close ==
  /\ closed' = TRUE
  /\ vouched' = {}
  /\ UNCHANGED <<lease, key, disks, vetoed>>

Next ==
  \/ Fade
  \/ \E t \in Tickets : Vouch(t) \/ Retire(t) \/ Drop(t) \/ \E k \in Keys : Grant(t, k)
  \/ \E k \in Keys : Veto(k) \/ Lift(k)
  \/ Close

Spec == Init /\ [][Next]_vars

(* What the owner of a ticket relies on. *)
Promise ==
  /\ vouched \subseteq standing
  /\ \A t \in vouched : lease[t] = "ticket" /\ key[t] \notin vetoed
  /\ \A t \in kept : lease[t] # "dropped"
  /\ served \subseteq vetoed
=============================================================================
