--------------------------- MODULE ManagerProofs ---------------------------
(***************************************************************************)
(* Tickets, vetoes and bounds of Manager for every set of requests, keys   *)
(* and tickets, every setup and all bounds.                                *)
(***************************************************************************)
EXTENDS Manager, FiniteSetTheorems, SequenceTheorems, WellFoundedInduction, TLAPS

Kinds == {"load", "store"}

(* The maps and the coordinator as values, of which the steps make others. *)
Maps ==
  [loads : [Ids -> Tickets \cup {None}], stores : [Ids -> Tickets \cup {None}],
   retiring : SUBSET Ids, retiringStores : SUBSET Ids, prepared : SUBSET Ids,
   renewals : SUBSET Tickets, stale : [Ids -> 0..StaleMax],
   veto : [Keys -> {"none", "asked", "acked"}],
   reset : BOOLEAN, closed : BOOLEAN, quarantined : BOOLEAN,
   futures : SUBSET Future, attempts : [Works -> 0..(AttemptsMax + 1)], backoff : SUBSET Works,
   owners : Seq(Owners), turn : Owners \cup {None}, left : 0..setup.budget]
Coordinators ==
  [lease : [Tickets -> {"none", "held", "retiring"}],
   of : [Tickets -> (Ids \X Kinds) \cup {None}], over : SUBSET Tickets,
   index : [Ids \X Kinds -> Tickets \cup {None}], vetoed : SUBSET Keys, acked : SUBSET Keys]

-----------------------------------------------------------------------------
(* The inductive invariant, of maps x, a coordinator cc and the identities *)
(* ov that were reserved while an older ticket was being released.         *)

(* A live ticket is of an identity; an identity in the index has its own.  *)
Books(cc) ==
  /\ cc \in Coordinators /\ cc.acked \subseteq cc.vetoed
  /\ \A t \in Tickets : cc.lease[t] # "none" => cc.of[t] \in Ids \X Kinds
  /\ \A w \in Ids \X Kinds :
       cc.index[w] # None => cc.lease[cc.index[w]] # "none" /\ cc.of[cc.index[w]] = w
Gives(cc, t, i, kind) == cc.lease[t] # "none" => cc.of[t] = <<i, kind>>

(* No ticket is in two places, and a live one is where it belongs.         *)
Distinct(x) ==
  /\ \A i, j \in Ids : x.loads[i] # None /\ x.loads[i] = x.loads[j] => i = j
  /\ \A i, j \in Ids : x.stores[i] # None /\ x.stores[i] = x.stores[j] => i = j
  /\ \A i, j \in Ids : x.loads[i] # None => x.loads[i] # x.stores[j]
Named(x, cc) ==
  \A i \in Ids : /\ x.loads[i] # None => Gives(cc, x.loads[i], i, "load")
                 /\ x.stores[i] # None => Gives(cc, x.stores[i], i, "store")
Kept(x, cc, ov) ==
  \A t \in Tickets, i \in Ids \ ov :
    cc.lease[t] # "none" => /\ cc.of[t] = <<i, "load">> => x.loads[i] = t
                            /\ cc.of[t] = <<i, "store">> => x.stores[i] = t

(* A cleanup is of what the maps have, until it is polled.                 *)
FutureOK(f, x, cc, ov) ==
  /\ f.kind = "load" => /\ f.on \in Ids /\ f.ticket \in Tickets /\ Gives(cc, f.ticket, f.on, "load")
                        /\ f.on \notin ov => x.loads[f.on] = f.ticket /\ f.on \in x.retiring
  /\ f.kind = "store" => /\ f.on \in Ids /\ f.ticket \in Tickets /\ Gives(cc, f.ticket, f.on, "store")
                         /\ x.stores[f.on] = f.ticket /\ f.on \in x.retiringStores
  /\ f.kind \in Kinds /\ f.at = "done" /\ f.ack => cc.lease[f.ticket] = "none"
  /\ f.kind = "invalidate" => f.on \in Keys /\ f.ticket = None /\ x.veto[f.on] = "asked"
  /\ f.kind = "renew" => f.ticket \in Tickets /\ f.on = f.ticket
  /\ f.kind \notin Kinds => f.at # "running"
Single(S) ==
  \A f, g \in S : <<f.kind, f.on>> = <<g.kind, g.on>> \/ (f.ticket = g.ticket /\ f.ticket # None) => f = g
Futures(x, cc, ov) ==
  /\ \A f \in x.futures : FutureOK(f, x, cc, ov)
  /\ Single(x.futures) /\ IsFiniteSet(x.futures) /\ Cardinality(x.futures) <= Submitted

Fits(x) ==
  /\ Len(x.owners) <= setup.capacity
  /\ Cardinality(Owned(x, "loads")) + Cardinality(Owned(x, "stores")) <= setup.capacity
  /\ IsFiniteSet(Vetoed(x)) /\ Cardinality(Vetoed(x)) <= setup.capacity

Good(x, cc, ov) ==
  x \in Maps /\ Distinct(x) /\ Named(x, cc) /\ Kept(x, cc, ov) /\ Futures(x, cc, ov) /\ Fits(x)

(* What a call was begun for stays so until it ends.                       *)
Calling ==
  /\ call.at = "failure" => call.id \in Ids
  /\ call.at \in {"ask", "vouch", "fanout"} =>
       /\ call.id \in Ids /\ call.for \in {"load", "probe", "store"}
       /\ ~m.closed /\ m.veto[call.id[2]] = "none" /\ ~Full(m)
       /\ call.for = "load" => call.id \notin m.prepared /\ (m.loads[call.id] = None \/ call.id \in m.retiring)
       /\ call.for = "probe" => m.loads[call.id] = None
       /\ call.for \in {"probe", "store"} => m.stores[call.id] = None
  /\ call.at = "vouch" => call.old \in Tickets /\ Gives(c, call.old, Wanted[1], Wanted[2])

(* A promised load has its leases, and keeps them when it is prepared.     *)
Promised ==
  \A i \in Ids \ (m.retiring \cup overlapped) :
    answer[i] = "yes" /\ m.loads[i] # None => c.lease[m.loads[i]] = "held"
Prepared ==
  \A i \in m.prepared \ (marked \cup overlapped) :
    /\ m.loads[i] # None /\ c.lease[m.loads[i]] = "held"
    /\ \A f \in m.futures : f.kind = "load" => f.on # i

(* shutdown() gives back all there is.                                     *)
Draining ==
  call.at \in {"drain", "down"} =>
    /\ \A i \in Ids \ overlapped : m.loads[i] # None => i \in m.retiring
    /\ \A i \in Ids : m.stores[i] # None => i \in m.retiringStores
    /\ call.at = "down" => m.futures = {} /\ m.retiring = {} /\ m.retiringStores = {}

(* What was read with a failed load stays in the maps, and vetoed.         *)
Tainted ==
  /\ \A t \in tainted : /\ t \in Tickets /\ Live(t)
                        /\ m.closed \/ (m.veto[KeyOf(t)] # "none" /\ \E i \in Ids : m.loads[i] = t)
  /\ \A i \in Ids : answer[i] = "yes" => m.loads[i] \notin tainted

Sorts ==
  /\ setup \in Setups
  /\ call \in [at : {"idle", "ask", "vouch", "fanout", "failure", "drain", "down"}, id : Ids \cup {None},
               for : {"load", "probe", "store", "none"}, old : Tickets \cup {None}]
  /\ answer \in [Ids -> {"no", "wait", "yes"}] /\ seen \subseteq Ids /\ late \in BOOLEAN
  /\ finished \subseteq Owners /\ overlapped \subseteq Ids /\ marked \subseteq Ids

ManagerInv ==
  /\ Sorts /\ Books(c) /\ Good(m, c, overlapped)
  /\ Calling /\ Promised /\ Prepared /\ Draining /\ Tainted

-----------------------------------------------------------------------------
(* Dicts in order: the r-th key that is kept is where r are kept.          *)
LEMMA Least ==
  ASSUME NEW T, T \subseteq Nat, T # {}
  PROVE  \E x \in T : \A y \in T : x <= y
<1>1. PICK R : IsWellFoundedOn(R, Nat) /\ \A x, y \in Nat : y < x => <<y, x>> \in R
  <2> DEFINE R == OpToRel(<, Nat)
  <2>1. IsWellFoundedOn(R, Nat)
    BY NatLessThanWellFounded
  <2>2. R = {ss \in Nat \X Nat : ss[1] < ss[2]}
    BY DEF OpToRel
  <2>3. \A x, y \in Nat : y < x => <<y, x>> \in R
    BY <2>2 DEF OpToRel
  <2>4. QED
    BY <2>1, <2>3
<1>2. PICK x \in T : \A y \in T : ~(<<y, x>> \in R)
  BY <1>1, WFMin
<1>3. \A y \in T : y \in Nat /\ x \in Nat /\ ~(y < x)
  <2> TAKE y \in T
  <2>1. y \in Nat /\ x \in Nat /\ ~(<<y, x>> \in R)
    BY <1>2
  <2>2. y < x => <<y, x>> \in R
    BY <1>1, <2>1
  <2>3. QED
    BY <2>1, <2>2
<1>4. QED
  BY <1>3

LEMMA WithoutFacts ==
  ASSUME NEW q \in Seq(Owners), NEW S
  PROVE  /\ Without(q, S) \in Seq(Owners) /\ Len(Without(q, S)) <= Len(q)
         /\ (\E n \in 1..Len(q) : q[n] \in S) => Len(Without(q, S)) < Len(q)
<1> DEFINE kept == {n \in 1..Len(q) : q[n] \notin S}
           upto(n) == {p \in kept : p <= n}
<1>1. Len(q) \in Nat /\ IsFiniteSet(1..Len(q)) /\ Cardinality(1..Len(q)) = Len(q)
  <2>1. \A n \in Nat : IsFiniteSet(1..n) /\ Cardinality(1..n) = IF 1 > n THEN 0 ELSE n - 1 + 1
    BY FS_Interval
  <2>2. \A n \in Nat : IsFiniteSet(1..n) /\ Cardinality(1..n) = n
    BY <2>1
  <2>3. QED
    BY <2>2, LenProperties
<1>2. \A T \in SUBSET (1..Len(q)) : /\ IsFiniteSet(T) /\ Cardinality(T) \in Nat /\ Cardinality(T) <= Len(q)
                                    /\ Cardinality(T) = Len(q) => T = 1..Len(q)
  BY <1>1, FS_Subset, FS_CardinalityType
<1>3. kept \in SUBSET (1..Len(q)) /\ \A n : upto(n) \in SUBSET (1..Len(q))
  OBVIOUS
<1>4. Without(q, S) = [r \in 1..Cardinality(kept) |-> q[CHOOSE n \in kept : Cardinality(upto(n)) = r]]
  BY DEF Without
<1>5. (\A n \in kept : q[n] \in Owners) /\ ((\E n \in 1..Len(q) : q[n] \in S) => kept # 1..Len(q))
  BY ElementOfSeq
<1>6. /\ upto(Len(q)) = kept /\ upto(0) = {}
      /\ \A n \in 1..Len(q) : n \in kept => upto(n) = upto(n - 1) \cup {n} /\ n \notin upto(n - 1)
      /\ \A n \in 1..Len(q) : n \notin kept => upto(n) = upto(n - 1)
  BY <1>1
<1> HIDE DEF kept, upto
<1>7. /\ Cardinality(kept) \in Nat
      /\ \A n : IsFiniteSet(upto(n)) /\ Cardinality(upto(n)) \in Nat
  BY <1>2, <1>3
<1>8. ASSUME NEW r \in 1..Cardinality(kept)
      PROVE  \E n \in kept : Cardinality(upto(n)) = r
  <2> DEFINE T == {n \in 0..Len(q) : Cardinality(upto(n)) >= r}
  <2>1. Len(q) \in T /\ T \subseteq Nat
    BY <1>1, <1>6, <1>7
  <2>2. 0 \notin T
    BY <1>6, <1>7, FS_EmptySet
  <2>3. PICK n \in T : \A y \in T : n <= y
    BY <2>1, Least
  <2>4. n \in 1..Len(q) /\ Cardinality(upto(n)) >= r
    BY <1>1, <2>2, <2>3
  <2>5. n - 1 \in 0..Len(q) /\ ~(n <= n - 1)
    BY <1>1, <2>4
  <2>6. ~(Cardinality(upto(n - 1)) >= r)
    BY <2>3, <2>5
  <2>7. CASE n \in kept
    <3>1. Cardinality(upto(n)) = Cardinality(upto(n - 1)) + 1
      BY <1>6, <1>7, <2>4, <2>7, FS_AddElement
    <3>2. QED
      BY <1>7, <2>4, <2>6, <2>7, <3>1
  <2>8. QED
    BY <1>6, <2>4, <2>6, <2>7
<1>9. Without(q, S) \in Seq(Owners) /\ Len(Without(q, S)) = Cardinality(kept)
  <2>1. \A r \in 1..Cardinality(kept) : q[CHOOSE n \in kept : Cardinality(upto(n)) = r] \in Owners
    BY <1>5, <1>8
  <2>2. Without(q, S) \in [1..Cardinality(kept) -> Owners]
    BY <1>4, <2>1
  <2>3. QED
    BY <1>7, <2>2
<1>10. QED
  BY <1>1, <1>2, <1>3, <1>5, <1>9

-----------------------------------------------------------------------------
(* How a step of the scheduler may change the maps: a ticket leaves them    *)
(* when it is gone, an identity its retirement when it has no ticket, and  *)
(* a veto goes only with all loads, or from a tier that is closed.         *)
Onward(x, y, cc, ov) ==
  /\ \A i \in Ids : /\ y.loads[i] \in {x.loads[i], None}
                    /\ x.loads[i] # y.loads[i] => cc.lease[x.loads[i]] = "none"
                    /\ i \notin ov /\ i \in x.retiring => i \in y.retiring \/ y.loads[i] = None
                    /\ y.stores[i] \in {x.stores[i], None}
                    /\ i \in x.retiringStores => i \in y.retiringStores \/ y.stores[i] = None
  /\ x.closed => y.closed
  /\ \/ \A k \in Keys : x.veto[k] # "none" => y.veto[k] # "none"
     \/ \A i \in Ids : y.loads[i] = None
     \/ y.closed
(* It begins no release of what is prepared.                               *)
Spares(x, y) ==
  /\ y.prepared = x.prepared
  /\ \A f \in y.futures : f \in x.futures \/ (f.kind = "load" => f.on \notin x.prepared)
Calm(x, y, cc, ov) == Onward(x, y, cc, ov) /\ Spares(x, y)

LEMMA OnwardChain ==
  ASSUME NEW x, NEW y, NEW z, NEW cc, NEW ov, Onward(x, y, cc, ov), Onward(y, z, cc, ov)
  PROVE  Onward(x, z, cc, ov)
<1>1. ASSUME NEW i \in Ids
      PROVE  /\ z.loads[i] \in {x.loads[i], None}
             /\ x.loads[i] # z.loads[i] => cc.lease[x.loads[i]] = "none"
             /\ i \notin ov /\ i \in x.retiring => i \in z.retiring \/ z.loads[i] = None
             /\ z.stores[i] \in {x.stores[i], None}
             /\ i \in x.retiringStores => i \in z.retiringStores \/ z.stores[i] = None
  BY DEF Onward
<1>2. \/ \A k \in Keys : x.veto[k] # "none" => z.veto[k] # "none"
      \/ \A i \in Ids : z.loads[i] = None
      \/ z.closed
  BY DEF Onward
<1>3. QED
  BY <1>1, <1>2 DEF Onward

LEMMA CalmChain ==
  ASSUME NEW x, NEW y, NEW z, NEW cc, NEW ov, Calm(x, y, cc, ov), Calm(y, z, cc, ov)
  PROVE  Calm(x, z, cc, ov)
<1>1. Spares(x, z)
  BY DEF Calm, Spares
<1>2. QED
  BY <1>1, OnwardChain DEF Calm

(* Steps that touch only marks, counters and the queue of requests.        *)
Edited(x, y) ==
  /\ y \in Maps
  /\ y.loads = x.loads /\ y.stores = x.stores /\ y.futures = x.futures /\ y.veto = x.veto
  /\ y.prepared = x.prepared
  /\ x.retiring \subseteq y.retiring /\ x.retiringStores \subseteq y.retiringStores
  /\ x.closed => y.closed
  /\ Len(x.owners) <= setup.capacity => Len(y.owners) <= setup.capacity

LEMMA EditedChain ==
  ASSUME NEW x, NEW y, NEW z, Edited(x, y), Edited(y, z)
  PROVE  Edited(x, z)
BY DEF Edited

LEMMA EditedGood ==
  ASSUME NEW x, NEW y, NEW cc, NEW ov, Good(x, cc, ov), Edited(x, y)
  PROVE  Good(y, cc, ov) /\ Calm(x, y, cc, ov)
<1>1. Distinct(y) /\ Named(y, cc) /\ Kept(y, cc, ov)
  BY DEF Good, Edited, Distinct, Named, Kept
<1>2. Futures(y, cc, ov)
  <2>1. ASSUME NEW f \in x.futures, FutureOK(f, x, cc, ov) PROVE FutureOK(f, y, cc, ov)
    BY <2>1 DEF FutureOK, Edited
  <2>2. QED
    BY <2>1 DEF Good, Edited, Futures
<1>3. Fits(y)
  <2>1. Owned(y, "loads") = Owned(x, "loads") /\ Owned(y, "stores") = Owned(x, "stores") /\ Vetoed(y) = Vetoed(x)
    BY DEF Edited, Owned, Vetoed
  <2>2. QED
    BY <2>1 DEF Good, Edited, Fits
<1>4. Calm(x, y, cc, ov)
  BY DEF Edited, Calm, Onward, Spares
<1>5. QED
  BY <1>1, <1>2, <1>3, <1>4 DEF Good, Edited

LEMMA Setting ==
  ASSUME setup \in Setups
  PROVE  /\ setup.ids \subseteq Ids /\ setup.capacity \in Nat \ {0} /\ setup.budget \in Nat
         /\ {Submitted, StaleMax, AttemptsMax} \subseteq Nat \ {0}
BY SetupAssumption, BoundAssumption

LEMMA GateEdit ==
  ASSUME setup \in Setups, NEW x \in Maps, NEW q \in Seq(Owners), NEW o \in Owners \cup {None},
         NEW n \in 0..setup.budget, Len(x.owners) <= setup.capacity => Len(q) <= setup.capacity
  PROVE  /\ Edited(x, [x EXCEPT !.owners = q])
         /\ Edited(x, [x EXCEPT !.turn = o])
         /\ Edited(x, [x EXCEPT !.left = n])
         /\ Edited(x, [x EXCEPT !.owners = q, !.turn = o, !.left = n])
<1>1. [x EXCEPT !.owners = q] \in Maps /\ [x EXCEPT !.turn = o] \in Maps /\ [x EXCEPT !.left = n] \in Maps
      /\ [x EXCEPT !.owners = q, !.turn = o, !.left = n] \in Maps
  BY DEF Maps
<1>2. QED
  BY <1>1 DEF Edited, Maps

LEMMA Edits ==
  ASSUME setup \in Setups, NEW x \in Maps
  PROVE  /\ \A o : Edited(x, Forget(x, o))
         /\ \A I \in SUBSET Ids : Edited(x, Marked(x, I))
         /\ \A t \in Tickets : Edited(x, Requested(x, t))
         /\ Edited(x, GateCleared(x)) /\ Edited(x, Degraded(x))
         /\ Edited(x, [x EXCEPT !.closed = TRUE])
         /\ Edited(x, Reset(x))
         /\ \A i \in Ids, n \in 0..StaleMax : Edited(x, [x EXCEPT !.stale[i] = n])
         /\ Edited(x, Rotated(x))
<1>a. setup.budget \in Nat /\ setup.capacity \in Nat
  BY Setting
<1>1. \A o : Edited(x, Forget(x, o))
  <2> TAKE o
  <2>1. x.owners \in Seq(Owners) /\ Without(x.owners, {o}) \in Seq(Owners)
        /\ Len(Without(x.owners, {o})) <= Len(x.owners)
    BY WithoutFacts DEF Maps
  <2>2. Len(x.owners) <= setup.capacity => Len(Without(x.owners, {o})) <= setup.capacity
    BY <1>a, <2>1, LenProperties
  <2>3. None \in Owners \cup {None} /\ 0 \in 0..setup.budget
    BY <1>a
  <2>4. QED
    BY <2>1, <2>2, <2>3, GateEdit DEF Forget
<1>2. \A I \in SUBSET Ids : Edited(x, Marked(x, I))
  BY DEF Marked, Edited, Maps
<1>3. \A t \in Tickets : Edited(x, Requested(x, t))
  BY DEF Requested, Edited, Maps
<1>4. Edited(x, GateCleared(x))
  <2>1. <<>> \in Seq(Owners) /\ Len(<<>>) = 0 /\ None \in Owners \cup {None} /\ setup.budget \in 0..setup.budget
        /\ Len(<<>>) <= setup.capacity
    BY <1>a, EmptySeq
  <2>2. QED
    BY <2>1, GateEdit DEF GateCleared
<1>5. Edited(x, Degraded(x))
  <2>1. Edited(x, [x EXCEPT !.closed = TRUE])
    BY DEF Edited, Maps
  <2>2. [x EXCEPT !.closed = TRUE] \in Maps
    BY <2>1 DEF Edited
  <2>3. <<>> \in Seq(Owners) /\ Len(<<>>) = 0 /\ None \in Owners \cup {None} /\ setup.budget \in 0..setup.budget
        /\ Len(<<>>) <= setup.capacity
    BY <1>a, EmptySeq
  <2>4. Edited([x EXCEPT !.closed = TRUE], Degraded(x))
    BY <2>2, <2>3, GateEdit DEF GateCleared, Degraded
  <2>5. QED
    BY <2>1, <2>4, EditedChain
<1>6. Edited(x, [x EXCEPT !.closed = TRUE]) /\ Edited(x, Reset(x))
  <2> DEFINE r == [x EXCEPT !.retiring = @ \cup Owned(x, "loads"), !.renewals = {}, !.reset = TRUE]
  <2>1. Edited(x, [x EXCEPT !.closed = TRUE])
    BY DEF Edited, Maps
  <2>2. Owned(x, "loads") \subseteq Ids
    BY DEF Owned
  <2>3. Edited(x, r) /\ r \in Maps
    BY <2>2 DEF Edited, Maps
  <2>4. <<>> \in Seq(Owners) /\ Len(<<>>) = 0 /\ None \in Owners \cup {None} /\ setup.budget \in 0..setup.budget
        /\ Len(<<>>) <= setup.capacity
    BY <1>a, EmptySeq
  <2>5. Edited(r, Reset(x))
    BY <2>3, <2>4, GateEdit DEF GateCleared, Reset
  <2>6. QED
    BY <2>1, <2>3, <2>5, EditedChain
<1>7. \A i \in Ids, n \in 0..StaleMax : Edited(x, [x EXCEPT !.stale[i] = n])
  BY DEF Edited, Maps
<1>8. Edited(x, Rotated(x))
  <2> DEFINE mine == \E n \in DOMAIN x.owners : x.owners[n] = x.turn
             w == Without(x.owners, {x.turn})
             q == IF mine THEN Append(w, x.turn) ELSE x.owners
             o == IF q = <<>> THEN None ELSE Head(q)
  <2>1. x.owners \in Seq(Owners) /\ x.turn \in Owners \cup {None} /\ DOMAIN x.owners = 1..Len(x.owners)
    BY LenProperties DEF Maps
  <2>2. w \in Seq(Owners) /\ Len(w) \in Nat /\ Len(x.owners) \in Nat /\ (mine => Len(w) < Len(x.owners))
    BY <2>1, WithoutFacts, LenProperties
  <2>3. mine => x.turn \in Owners
    BY <2>1, ElementOfSeq
  <2>4. q \in Seq(Owners) /\ Len(q) <= Len(x.owners)
    BY <2>1, <2>2, <2>3, AppendProperties
  <2>5. o \in Owners \cup {None}
    BY <2>4, HeadTailProperties
  <2>6. Len(x.owners) <= setup.capacity => Len(q) <= setup.capacity
    BY <1>a, <2>2, <2>4, LenProperties
  <2>7. setup.budget \in 0..setup.budget
    BY <1>a
  <2>8. Rotated(x) = [x EXCEPT !.owners = q, !.turn = o, !.left = setup.budget]
    BY DEF Rotated
  <2> HIDE DEF q, o, mine, w
  <2>9. Edited(x, [x EXCEPT !.owners = q, !.turn = o, !.left = setup.budget])
    BY <2>4, <2>5, <2>6, <2>7, GateEdit
  <2>10. QED
    BY <2>8, <2>9
<1>9. QED
  BY <1>1, <1>2, <1>3, <1>4, <1>5, <1>6, <1>7, <1>8

-----------------------------------------------------------------------------
(* _dispatch_metadata(): new futures, of what the maps have.               *)
LEMMA ImageOf ==
  ASSUME NEW f, IsFiniteSet(DOMAIN f)
  PROVE  IsFiniteSet({f[a] : a \in DOMAIN f})
<1>1. [a \in DOMAIN f |-> f[a]] \in Surjection(DOMAIN f, {f[a] : a \in DOMAIN f})
  BY DEF Surjection
<1>2. QED
  BY <1>1, FS_Surjection

LEMMA JobForms ==
  ASSUME NEW x \in Maps, NEW j \in Jobs(x)
  PROVE  \/ \E k \in Keys : j = Job("invalidate", k, None) /\ x.veto[k] = "asked"
         \/ \E i \in Ids : j = Job("load", i, x.loads[i]) /\ i \in x.retiring /\ x.loads[i] \in Tickets
                           /\ i \notin x.prepared
         \/ \E i \in Ids : j = Job("store", i, x.stores[i]) /\ i \in x.retiringStores /\ x.stores[i] \in Tickets
         \/ \E t \in Tickets : j = Job("renew", t, t)
                               /\ t \in {x.loads[i] : i \in Ids \ x.retiring} \cup {x.stores[i] : i \in Ids \ x.retiringStores}
BY DEF Jobs, Owned, Maps

LEMMA FiniteJobs ==
  ASSUME NEW x \in Maps, IsFiniteSet(Vetoed(x))
  PROVE  IsFiniteSet(Jobs(x))
<1> DEFINE V == {k \in Keys : x.veto[k] = "asked"}
           v == [k \in V |-> Job("invalidate", k, None)]
           l == [i \in Ids |-> Job("load", i, x.loads[i])]
           s == [i \in Ids |-> Job("store", i, x.stores[i])]
           n == [t \in Tickets |-> Job("renew", t, t)]
           A == {v[k] : k \in V} \cup {l[i] : i \in Ids}
           B == {s[i] : i \in Ids} \cup {n[t] : t \in Tickets}
<1>1. V \in SUBSET Vetoed(x)
  BY DEF Vetoed
<1>2. IsFiniteSet(V)
  BY <1>1, FS_Subset
<1>3. IsFiniteSet({v[k] : k \in V})
  <2>1. DOMAIN v = V
    OBVIOUS
  <2> HIDE DEF v, V
  <2>2. QED
    BY <1>2, <2>1, ImageOf
<1>4. IsFiniteSet({l[i] : i \in Ids})
  <2>1. DOMAIN l = Ids
    OBVIOUS
  <2> HIDE DEF l
  <2>2. QED
    BY <2>1, ImageOf, FiniteAssumption
<1>5. IsFiniteSet({s[i] : i \in Ids})
  <2>1. DOMAIN s = Ids
    OBVIOUS
  <2> HIDE DEF s
  <2>2. QED
    BY <2>1, ImageOf, FiniteAssumption
<1>6. IsFiniteSet({n[t] : t \in Tickets})
  <2>1. DOMAIN n = Tickets
    OBVIOUS
  <2> HIDE DEF n
  <2>2. QED
    BY <2>1, ImageOf, FiniteAssumption
<1>7. Jobs(x) \in SUBSET (A \cup B)
  <2>1. ASSUME NEW j \in Jobs(x) PROVE j \in A \cup B
    <3>1. CASE \E k \in Keys : j = Job("invalidate", k, None) /\ x.veto[k] = "asked"
      BY <3>1
    <3>2. CASE \E i \in Ids : j = Job("load", i, x.loads[i])
      BY <3>2
    <3>3. CASE \E i \in Ids : j = Job("store", i, x.stores[i])
      BY <3>3
    <3>4. CASE \E t \in Tickets : j = Job("renew", t, t)
      BY <3>4
    <3>5. QED
      BY <3>1, <3>2, <3>3, <3>4, JobForms
  <2>2. QED
    BY <2>1
<1> HIDE DEF A, B
<1>8. IsFiniteSet(A \cup B)
  BY <1>3, <1>4, <1>5, <1>6, FS_Union DEF A, B
<1>9. QED
  BY <1>7, <1>8, FS_Subset

LEMMA JobFacts ==
  ASSUME NEW x \in Maps, NEW cc, NEW ov, Distinct(x), Named(x, cc), NEW j \in Jobs(x)
  PROVE  j \in Future /\ FutureOK(j, x, cc, ov)
<1> USE NoneAssumption
<1>1. ASSUME NEW k \in Keys, j = Job("invalidate", k, None), x.veto[k] = "asked"
      PROVE  j \in Future /\ FutureOK(j, x, cc, ov)
  BY <1>1 DEF Job, Future, FutureOK, Kinds
<1>2. ASSUME NEW i \in Ids, j = Job("load", i, x.loads[i]), i \in x.retiring, x.loads[i] \in Tickets
      PROVE  j \in Future /\ FutureOK(j, x, cc, ov)
  BY <1>2 DEF Job, Future, FutureOK, Kinds, Named
<1>3. ASSUME NEW i \in Ids, j = Job("store", i, x.stores[i]), i \in x.retiringStores, x.stores[i] \in Tickets
      PROVE  j \in Future /\ FutureOK(j, x, cc, ov)
  BY <1>3 DEF Job, Future, FutureOK, Kinds, Named
<1>4. ASSUME NEW t \in Tickets, j = Job("renew", t, t)
      PROVE  j \in Future /\ FutureOK(j, x, cc, ov)
  BY <1>4 DEF Job, Future, FutureOK, Kinds
<1>5. QED
  BY <1>1, <1>2, <1>3, <1>4, JobForms

LEMMA JobsSingle ==
  ASSUME NEW x \in Maps, Distinct(x)
  PROVE  Single(Jobs(x))
<1> USE NoneAssumption
<1> SUFFICES ASSUME NEW f \in Jobs(x), NEW g \in Jobs(x),
                    (f.kind = g.kind /\ f.on = g.on) \/ (f.ticket = g.ticket /\ f.ticket # None)
             PROVE  f = g
  BY DEF Single
<1>1. CASE \E k \in Keys : f = Job("invalidate", k, None)
  BY <1>1, JobForms DEF Job
<1>2. CASE \E t \in Tickets : f = Job("renew", t, t)
          /\ t \in {x.loads[i] : i \in Ids \ x.retiring} \cup {x.stores[i] : i \in Ids \ x.retiringStores}
  BY <1>2, JobForms DEF Job, Distinct
<1>3. CASE \E i \in Ids : f = Job("load", i, x.loads[i]) /\ i \in x.retiring /\ x.loads[i] \in Tickets
  BY <1>3, JobForms DEF Job, Distinct
<1>4. CASE \E i \in Ids : f = Job("store", i, x.stores[i]) /\ i \in x.retiringStores /\ x.stores[i] \in Tickets
  BY <1>4, JobForms DEF Job, Distinct
<1>5. QED
  BY <1>1, <1>2, <1>3, <1>4, JobForms

LEMMA Dispatching ==
  ASSUME setup \in Setups, NEW x, NEW cc, NEW ov, Good(x, cc, ov), NEW y \in Dispatched(x)
  PROVE  /\ Good(y, cc, ov) /\ Calm(x, y, cc, ov)
         /\ y.loads = x.loads /\ y.stores = x.stores /\ y.retiring = x.retiring /\ y.veto = x.veto
         /\ y.retiringStores = x.retiringStores /\ y.closed = x.closed /\ y.owners = x.owners
<1> DEFINE ready == {j \in Jobs(x) : Submittable(x, j)}
           room == Submitted - Cardinality(x.futures)
<1>1. x \in Maps /\ Distinct(x) /\ Named(x, cc) /\ Futures(x, cc, ov) /\ Fits(x)
  BY DEF Good
<1>2. PICK S : /\ y = [x EXCEPT !.futures = @ \cup S] \/ (S = {} /\ y = x)
               /\ S \in SUBSET ready /\ IsFiniteSet(S)
               /\ Cardinality(x.futures \cup S) <= Submitted /\ IsFiniteSet(x.futures \cup S)
  <2>1. IsFiniteSet(ready) /\ Cardinality(ready) \in Nat
    BY <1>1, FiniteJobs, FS_Subset, FS_CardinalityType DEF Fits
  <2>2. IsFiniteSet(x.futures) /\ Cardinality(x.futures) \in Nat /\ Submitted \in Nat /\ Cardinality(x.futures) <= Submitted
    BY <1>1, FS_CardinalityType, Setting DEF Futures
  <2>3. CASE y = x
    <3>1. {} \in SUBSET ready /\ x.futures \cup {} = x.futures /\ IsFiniteSet({})
      BY FS_EmptySet
    <3>2. QED
      BY <2>2, <2>3, <3>1
  <2>4. CASE y # x
    <3>1. PICK S \in SUBSET ready :
            /\ y = [x EXCEPT !.futures = @ \cup S]
            /\ Cardinality(S) = IF Cardinality(ready) < room THEN Cardinality(ready) ELSE room
      BY <2>4 DEF Dispatched
    <3>2. Cardinality(S) <= room
      BY <2>1, <2>2, <3>1
    <3>3. IsFiniteSet(S) /\ Cardinality(S) \in Nat
      BY <2>1, FS_Subset, FS_CardinalityType
    <3>4. IsFiniteSet(x.futures \cup S)
          /\ Cardinality(x.futures \cup S) = Cardinality(x.futures) + Cardinality(S) - Cardinality(x.futures \cap S)
      BY <2>2, <3>3, FS_Union
    <3>5. Cardinality(x.futures \cap S) \in Nat
      BY <2>2, FS_Subset, FS_CardinalityType
    <3>6. Cardinality(x.futures \cup S) <= Submitted
      BY <2>2, <3>2, <3>3, <3>4, <3>5
    <3>7. QED
      BY <3>1, <3>3, <3>4, <3>6
  <2>5. QED
    BY <2>3, <2>4
<1>3. \A j \in S : j \in Jobs(x) /\ j \in Future /\ FutureOK(j, x, cc, ov) /\ Submittable(x, j)
  BY <1>1, <1>2, JobFacts
<1>4. /\ y \in Maps /\ y.futures = x.futures \cup S
      /\ y.loads = x.loads /\ y.stores = x.stores /\ y.retiring = x.retiring /\ y.veto = x.veto
      /\ y.retiringStores = x.retiringStores /\ y.closed = x.closed /\ y.owners = x.owners
      /\ y.prepared = x.prepared
  <2>1. S \subseteq Future
    BY <1>3
  <2>2. CASE y = [x EXCEPT !.futures = @ \cup S]
    BY <1>1, <2>1, <2>2 DEF Maps
  <2>3. CASE S = {} /\ y = x
    BY <1>1, <2>3
  <2>4. QED
    BY <1>2, <2>2, <2>3
<1>5. Single(x.futures \cup S)
  <2>1. Single(x.futures) /\ Single(S)
    BY <1>1, <1>2, JobsSingle DEF Futures, Single
  <2>2. ASSUME NEW f \in x.futures, NEW g \in S
        PROVE  /\ <<f.kind, f.on>> # <<g.kind, g.on>>
               /\ f.ticket # g.ticket \/ g.ticket = None
    BY <1>3 DEF Submittable
  <2>3. QED
    BY <2>1, <2>2 DEF Single
<1>6. \A f : FutureOK(f, x, cc, ov) => FutureOK(f, y, cc, ov)
  BY <1>4 DEF FutureOK
<1>7. Futures(y, cc, ov)
  BY <1>1, <1>2, <1>3, <1>4, <1>5, <1>6 DEF Futures
<1>8. Distinct(y) /\ Named(y, cc) /\ Kept(y, cc, ov) /\ Fits(y)
  <2>1. Owned(y, "loads") = Owned(x, "loads") /\ Owned(y, "stores") = Owned(x, "stores") /\ Vetoed(y) = Vetoed(x)
    BY <1>4 DEF Owned, Vetoed
  <2>2. Fits(y)
    BY <1>1, <1>4, <2>1 DEF Fits
  <2>3. QED
    BY <1>4, <2>2 DEF Good, Distinct, Named, Kept
<1>9. Calm(x, y, cc, ov)
  <2>1. \A f \in S : f.kind = "load" => f.on \notin x.prepared
    BY <1>1, <1>3, JobForms DEF Job
  <2>2. QED
    BY <1>4, <2>1 DEF Calm, Onward, Spares
<1>10. QED
  BY <1>4, <1>7, <1>8, <1>9 DEF Good

(* The usual end of a method.                                              *)
LEMMA EditDispatch ==
  ASSUME setup \in Setups, NEW x, NEW cc, NEW ov, Good(x, cc, ov), NEW z, Edited(x, z), NEW y \in Dispatched(z)
  PROVE  Good(y, cc, ov) /\ Calm(x, y, cc, ov)
BY EditedGood, Dispatching, CalmChain

-----------------------------------------------------------------------------
(* _poll_metadata(): the answers of the cleanups that are done.            *)
LEMMA Reconciling ==
  ASSUME setup \in Setups, NEW x, NEW cc, NEW ov, Good(x, cc, ov)
  PROVE  Good(Reconciled(x), cc, ov) /\ Calm(x, Reconciled(x), cc, ov)
<1> DEFINE y == Reconciled(x)
           done == {f \in x.futures : f.at = "done"}
           over == {f \in done : f.kind # "renew" /\ f.ack}
           acked == {<<f.kind, f.on>> : f \in over}
           nacked == {<<f.kind, f.on>> : f \in {g \in done : g.kind # "renew"} \ over}
           lost == {f.ticket : f \in {g \in done : g.kind = "renew" /\ ~g.ack}}
           given(kind, i, t) == \E f \in over : f.kind = kind /\ f.on = i /\ f.ticket = t
<1>1. /\ x \in Maps /\ Distinct(x) /\ Named(x, cc) /\ Kept(x, cc, ov) /\ Futures(x, cc, ov) /\ Fits(x)
      /\ \A f \in x.futures : f \in Future /\ FutureOK(f, x, cc, ov)
  BY DEF Good, Futures, Maps
<1>2. /\ y.futures = x.futures \ done
      /\ y.loads = [i \in Ids |-> IF given("load", i, x.loads[i]) THEN None ELSE x.loads[i]]
      /\ y.stores = [i \in Ids |-> IF given("store", i, x.stores[i]) THEN None ELSE x.stores[i]]
      /\ y.retiring = {i \in x.retiring : <<"load", i>> \notin acked} \cup {i \in Ids : x.loads[i] \in lost}
      /\ y.retiringStores = {i \in x.retiringStores : <<"store", i>> \notin acked}
      /\ y.veto = [k \in Keys |-> IF <<"invalidate", k>> \in acked THEN "acked" ELSE x.veto[k]]
      /\ y.prepared = x.prepared /\ y.closed = x.closed /\ y.owners = x.owners
  BY <1>1 DEF Reconciled, Dropped, Maps
<1>3. y \in Maps
  <2> DEFINE attempts == [w \in Works |-> IF w \in acked THEN 0
                                          ELSE IF w \in nacked /\ x.attempts[w] <= AttemptsMax
                                               THEN x.attempts[w] + 1 ELSE x.attempts[w]]
             backoff == (x.backoff \ acked) \cup {w \in nacked : x.attempts[w] < AttemptsMax}
             renewals == x.renewals \ {f.ticket : f \in over \cup {g \in done : g.kind = "renew"}}
  <2>1. y = [x EXCEPT !.futures = y.futures, !.loads = y.loads, !.stores = y.stores,
                      !.retiring = y.retiring, !.retiringStores = y.retiringStores,
                      !.renewals = renewals, !.veto = y.veto, !.attempts = attempts, !.backoff = backoff]
    BY <1>1, <1>2 DEF Reconciled, Dropped, Maps
  <2>2. attempts \in [Works -> 0..(AttemptsMax + 1)]
    <3>1. x.attempts \in [Works -> 0..(AttemptsMax + 1)] /\ AttemptsMax \in Nat
      BY <1>1, Setting DEF Maps
    <3> HIDE DEF acked, nacked
    <3>2. QED
      BY <3>1
  <2>3. nacked \subseteq Works
    BY <1>1 DEF FutureOK, Works, Future
  <2>4. y.veto \in [Keys -> {"none", "asked", "acked"}]
    <3>1. x.veto \in [Keys -> {"none", "asked", "acked"}]
      BY <1>1 DEF Maps
    <3>2. QED
      BY <1>2, <3>1
  <2>5. /\ y.loads \in [Ids -> Tickets \cup {None}] /\ y.stores \in [Ids -> Tickets \cup {None}]
    <3>1. x.loads \in [Ids -> Tickets \cup {None}] /\ x.stores \in [Ids -> Tickets \cup {None}]
      BY <1>1 DEF Maps
    <3>2. QED
      BY <1>2, <3>1
  <2>6. /\ y.retiring \subseteq Ids /\ y.retiringStores \subseteq Ids /\ y.futures \subseteq Future
        /\ renewals \subseteq Tickets /\ backoff \subseteq Works
    <3>1. x.retiring \subseteq Ids /\ x.retiringStores \subseteq Ids /\ x.futures \subseteq Future
          /\ x.renewals \subseteq Tickets /\ x.backoff \subseteq Works
      BY <1>1 DEF Maps
    <3>2. backoff \subseteq Works
      BY <2>3, <3>1
    <3>3. renewals \subseteq Tickets
      BY <3>1
    <3>4. y.retiring \subseteq Ids /\ y.retiringStores \subseteq Ids /\ y.futures \subseteq Future
      <4> HIDE DEF y, done, acked, lost
      <4>1. QED
        BY <1>2, <3>1
    <3>5. QED
      BY <3>2, <3>3, <3>4
  <2> HIDE DEF y, attempts, backoff, renewals
  <2> DEFINE F == y.futures
             L == y.loads
             S == y.stores
             R == y.retiring
             T == y.retiringStores
             V == y.veto
  <2>7. /\ F \in SUBSET Future /\ L \in [Ids -> Tickets \cup {None}] /\ S \in [Ids -> Tickets \cup {None}]
        /\ R \in SUBSET Ids /\ T \in SUBSET Ids /\ V \in [Keys -> {"none", "asked", "acked"}]
        /\ y = [x EXCEPT !.futures = F, !.loads = L, !.stores = S, !.retiring = R, !.retiringStores = T,
                         !.renewals = renewals, !.veto = V, !.attempts = attempts, !.backoff = backoff]
    BY <2>1, <2>4, <2>5, <2>6
  <2> HIDE DEF F, L, S, R, T, V
  <2>8. [x EXCEPT !.futures = F, !.loads = L, !.stores = S, !.retiring = R, !.retiringStores = T,
                  !.renewals = renewals, !.veto = V, !.attempts = attempts, !.backoff = backoff] \in Maps
    <3>1. /\ x \in Maps /\ renewals \in SUBSET Tickets /\ backoff \in SUBSET Works
          /\ F \in SUBSET Future /\ L \in [Ids -> Tickets \cup {None}] /\ S \in [Ids -> Tickets \cup {None}]
          /\ R \in SUBSET Ids /\ T \in SUBSET Ids /\ V \in [Keys -> {"none", "asked", "acked"}]
      BY <1>1, <2>6, <2>7
    <3>2. QED
      BY <2>2, <3>1, Zenon DEF Maps
  <2>9. QED
    BY <2>7, <2>8
<1>4. ASSUME NEW i \in Ids
      PROVE  /\ y.loads[i] \in {x.loads[i], None}
             /\ x.loads[i] # y.loads[i] => cc.lease[x.loads[i]] = "none"
             /\ i \notin ov /\ i \in x.retiring => i \in y.retiring \/ y.loads[i] = None
             /\ y.stores[i] \in {x.stores[i], None}
             /\ x.stores[i] # y.stores[i] => cc.lease[x.stores[i]] = "none"
             /\ i \in x.retiringStores => i \in y.retiringStores \/ y.stores[i] = None
  <2>1. /\ y.loads[i] = IF given("load", i, x.loads[i]) THEN None ELSE x.loads[i]
        /\ y.stores[i] = IF given("store", i, x.stores[i]) THEN None ELSE x.stores[i]
    BY <1>2
  <2>2. \A kind \in Kinds : \A t : given(kind, i, t) => cc.lease[t] = "none"
    BY <1>1 DEF FutureOK, Kinds
  <2>3. i \notin ov /\ i \in x.retiring => i \in y.retiring \/ y.loads[i] = None
    <3> SUFFICES ASSUME i \notin ov, i \in x.retiring, i \notin y.retiring PROVE y.loads[i] = None
      OBVIOUS
    <3>1. PICK f \in over : f.kind = "load" /\ f.on = i
      BY <1>2
    <3>2. x.loads[i] = f.ticket
      BY <1>1, <3>1 DEF FutureOK
    <3>3. QED
      BY <2>1, <3>1, <3>2
  <2>4. i \in x.retiringStores => i \in y.retiringStores \/ y.stores[i] = None
    <3> SUFFICES ASSUME i \in x.retiringStores, i \notin y.retiringStores PROVE y.stores[i] = None
      OBVIOUS
    <3>1. PICK f \in over : f.kind = "store" /\ f.on = i
      BY <1>2
    <3>2. x.stores[i] = f.ticket
      BY <1>1, <3>1 DEF FutureOK
    <3>3. QED
      BY <2>1, <3>1, <3>2
  <2> HIDE DEF given, y
  <2>5. QED
    BY <2>1, <2>2, <2>3, <2>4 DEF Kinds
<1>5. \A k \in Keys : y.veto[k] # "none" <=> x.veto[k] # "none"
  BY <1>1, <1>2 DEF FutureOK
<1>6. Futures(y, cc, ov)
  <2>1. ASSUME NEW f \in y.futures PROVE FutureOK(f, y, cc, ov)
    <3>1. f \in x.futures /\ f \notin done /\ FutureOK(f, x, cc, ov)
      BY <1>1, <1>2
    <3>2. \A g \in over : ~(g.kind = f.kind /\ g.on = f.on)
      BY <1>1, <3>1 DEF Futures, Single
    <3>3. <<f.kind, f.on>> \notin acked
      BY <3>2
    <3>4. f.kind = "load" /\ f.on \notin ov => y.loads[f.on] = f.ticket /\ f.on \in y.retiring
      BY <1>2, <3>1, <3>2, <3>3 DEF FutureOK
    <3>5. f.kind = "store" => y.stores[f.on] = f.ticket /\ f.on \in y.retiringStores
      BY <1>2, <3>1, <3>2, <3>3 DEF FutureOK
    <3>6. f.kind = "invalidate" => y.veto[f.on] = "asked"
      BY <1>2, <3>1, <3>3 DEF FutureOK
    <3> HIDE DEF y
    <3>7. QED
      BY <3>1, <3>4, <3>5, <3>6 DEF FutureOK
  <2>2. y.futures \in SUBSET x.futures
    BY <1>2
  <2>3. IsFiniteSet(y.futures) /\ Cardinality(y.futures) <= Submitted
    <3>1. IsFiniteSet(x.futures) /\ Cardinality(x.futures) <= Submitted /\ Submitted \in Nat
      BY <1>1, Setting DEF Futures
    <3> HIDE DEF y
    <3>2. QED
      BY <2>2, <3>1, FS_Subset, FS_CardinalityType
  <2> HIDE DEF y
  <2>4. QED
    BY <1>1, <2>1, <2>2, <2>3 DEF Futures, Single
<1> HIDE DEF y
<1>7. Distinct(y) /\ Named(y, cc)
  BY <1>1, <1>4 DEF Distinct, Named
<1>8. Kept(y, cc, ov)
  BY <1>1, <1>4 DEF Kept
<1>9. Fits(y)
  <2>1. Owned(y, "loads") \in SUBSET Owned(x, "loads") /\ Owned(y, "stores") \in SUBSET Owned(x, "stores")
        /\ Owned(x, "loads") \in SUBSET Ids /\ Owned(x, "stores") \in SUBSET Ids
    BY <1>4 DEF Owned
  <2>2. /\ IsFiniteSet(Owned(x, "loads")) /\ Cardinality(Owned(x, "loads")) \in Nat
        /\ IsFiniteSet(Owned(x, "stores")) /\ Cardinality(Owned(x, "stores")) \in Nat
    BY <2>1, FiniteAssumption, FS_Subset, FS_CardinalityType
  <2>3. /\ Cardinality(Owned(y, "loads")) <= Cardinality(Owned(x, "loads")) /\ Cardinality(Owned(y, "loads")) \in Nat
        /\ Cardinality(Owned(y, "stores")) <= Cardinality(Owned(x, "stores")) /\ Cardinality(Owned(y, "stores")) \in Nat
    BY <2>1, <2>2, FS_Subset, FS_CardinalityType
  <2>4. Vetoed(y) = Vetoed(x)
    BY <1>5 DEF Vetoed
  <2>5. QED
    BY <1>1, <1>2, <2>2, <2>3, <2>4, Setting DEF Fits
<1>10. Calm(x, y, cc, ov)
  BY <1>2, <1>4, <1>5 DEF Calm, Onward, Spares
<1>11. QED
  BY <1>3, <1>6, <1>7, <1>8, <1>9, <1>10 DEF Good, y

LEMMA Polling ==
  ASSUME setup \in Setups, NEW x, NEW cc, NEW ov, Good(x, cc, ov)
  PROVE  Good(Polled(x), cc, ov) /\ Calm(x, Polled(x), cc, ov)
<1> DEFINE y == IF Rejected(x) THEN Degraded(Reconciled(x)) ELSE Reconciled(x)
           z == [y EXCEPT !.veto = [k \in Keys |-> "none"], !.reset = FALSE]
<1>1. Good(y, cc, ov) /\ Calm(x, y, cc, ov)
  <2>1. Good(Reconciled(x), cc, ov) /\ Calm(x, Reconciled(x), cc, ov) /\ Reconciled(x) \in Maps
    BY Reconciling DEF Good
  <2>2. Good(Degraded(Reconciled(x)), cc, ov) /\ Calm(Reconciled(x), Degraded(Reconciled(x)), cc, ov)
    BY <2>1, Edits, EditedGood
  <2>3. QED
    BY <2>1, <2>2, CalmChain
<1>2. Polled(x) = IF y.reset /\ SafeReset(y) THEN z ELSE y
  BY DEF Polled
<1> HIDE DEF y
<1>3. ASSUME SafeReset(y) PROVE Good(z, cc, ov) /\ Calm(y, z, cc, ov)
  <2>1. y \in Maps /\ y.futures = {} /\ (\A i \in Ids : y.loads[i] = None)
    BY <1>1, <1>3 DEF Good, SafeReset, Pending, Owned
  <2>2. /\ z \in Maps /\ z.loads = y.loads /\ z.stores = y.stores /\ z.futures = {} /\ z.prepared = y.prepared
        /\ z.retiring = y.retiring /\ z.retiringStores = y.retiringStores /\ z.closed = y.closed /\ z.owners = y.owners
        /\ z.veto = [k \in Keys |-> "none"]
    BY <2>1 DEF Maps
  <2> HIDE DEF z
  <2>3. Distinct(z) /\ Named(z, cc) /\ Kept(z, cc, ov)
    BY <1>1, <2>2 DEF Good, Distinct, Named, Kept
  <2>4. Futures(z, cc, ov)
    BY <1>1, <2>1, <2>2 DEF Good, Futures
  <2>5. Fits(z)
    <3>1. Owned(z, "loads") = Owned(y, "loads") /\ Owned(z, "stores") = Owned(y, "stores") /\ Vetoed(z) = {}
      BY <2>2 DEF Owned, Vetoed
    <3>2. QED
      BY <1>1, <2>2, <3>1, FS_EmptySet, Setting DEF Good, Fits
  <2>6. Calm(y, z, cc, ov)
    BY <2>1, <2>2 DEF Calm, Onward, Spares
  <2>7. QED
    BY <2>2, <2>3, <2>4, <2>5, <2>6 DEF Good
<1>4. QED
  BY <1>1, <1>2, <1>3, CalmChain

-----------------------------------------------------------------------------
(* Steps that change neither the coordinator nor what is prepared.         *)
LEMMA SameWorld ==
  ASSUME setup' = setup, Good(m', c', overlapped')
  PROVE  Good(m, c, overlapped)'
<1>1. m' \in Maps' /\ Fits(m)'
  BY DEF Good, Maps, Fits, Owned, Vetoed
<1>2. QED
  BY <1>1 DEF Good, Distinct, Named, Kept, Futures, FutureOK, Gives, Single

Sound(i) == m.loads[i] # None => c.lease[m.loads[i]] = "held" /\ m.loads[i] \notin tainted

LEMMA StillPromised ==
  ASSUME ManagerInv, Onward(m, m', c, overlapped), c' = c, overlapped' = overlapped,
         m' \in Maps,
         \A i \in Ids : answer'[i] = "yes" => answer[i] = "yes" \/ Sound(i)
  PROVE  Promised'
<1> SUFFICES ASSUME NEW i \in Ids, i \notin m'.retiring, i \notin overlapped, answer'[i] = "yes", m'.loads[i] # None
             PROVE  c.lease[m'.loads[i]] = "held"
  BY DEF Promised
<1>1. m'.loads[i] = m.loads[i] /\ i \notin m.retiring
  BY DEF Onward
<1>2. QED
  BY <1>1 DEF ManagerInv, Promised, Sound

LEMMA StillPrepared ==
  ASSUME ManagerInv, Calm(m, m', c, overlapped), c' = c, overlapped' = overlapped, marked' = marked
  PROVE  Prepared'
<1> SUFFICES ASSUME NEW i \in m'.prepared, i \notin marked, i \notin overlapped
             PROVE  /\ m'.loads[i] # None /\ c.lease[m'.loads[i]] = "held"
                    /\ \A f \in m'.futures : f.kind = "load" => f.on # i
  BY DEF Prepared
<1>1. i \in m.prepared /\ m.loads[i] # None /\ c.lease[m.loads[i]] = "held" /\ i \in Ids
      /\ \A f \in m.futures : f.kind = "load" => f.on # i
  BY DEF Calm, Spares, ManagerInv, Prepared, Good, Maps
<1>2. QED
  BY <1>1 DEF Calm, Onward, Spares

LEMMA StaysTainted ==
  ASSUME ManagerInv, Onward(m, m', c, overlapped), NEW t \in tainted
  PROVE  /\ t \in Tickets /\ c.lease[t] # "none"
         /\ m'.closed \/ (m'.veto[c.of[t][1][2]] # "none" /\ \E i \in Ids : m'.loads[i] = t)
<1>1. t \in Tickets /\ c.lease[t] # "none"
      /\ (m.closed \/ (m.veto[c.of[t][1][2]] # "none" /\ \E i \in Ids : m.loads[i] = t))
  BY DEF ManagerInv, Tainted, Live, KeyOf
<1>2. CASE m.closed
  BY <1>1, <1>2 DEF Onward
<1>3. CASE ~m.closed
  <2>1. PICK i \in Ids : m.loads[i] = t
    BY <1>1, <1>3
  <2>2. m'.loads[i] = t /\ t # None
    BY <1>1, <2>1, NoneAssumption DEF Onward
  <2>3. c.of[t][1][2] \in Keys
    <3>1. c.of[t] \in Ids \X Kinds
      BY <1>1 DEF ManagerInv, Books, Coordinators
    <3>2. QED
      BY <3>1 DEF Ids
  <2>4. QED
    BY <1>1, <1>3, <2>1, <2>2, <2>3 DEF Onward
<1>4. QED
  BY <1>1, <1>2, <1>3

LEMMA StillTainted ==
  ASSUME ManagerInv, Onward(m, m', c, overlapped), c' = c, tainted' = tainted, m' \in Maps,
         \A i \in Ids : answer'[i] = "yes" => answer[i] = "yes" \/ Sound(i)
  PROVE  Tainted'
<1>1. \A t \in tainted :
        /\ t \in Tickets /\ c.lease[t] # "none"
        /\ m'.closed \/ (m'.veto[c.of[t][1][2]] # "none" /\ \E i \in Ids : m'.loads[i] = t)
  BY StaysTainted
<1>2. ASSUME NEW i \in Ids, answer'[i] = "yes"
      PROVE  m'.loads[i] \notin tainted
  <2>1. None \notin tainted
    BY NoneAssumption DEF ManagerInv, Tainted
  <2>2. m.loads[i] \notin tainted
    BY <1>2, <2>1 DEF ManagerInv, Tainted, Sound
  <2>3. QED
    BY <2>1, <2>2 DEF Onward
<1>3. QED
  BY <1>1, <1>2 DEF Tainted, Live, KeyOf

LEMMA Stay ==
  ASSUME ManagerInv
  PROVE  /\ setup \in Setups /\ m \in Maps /\ Edited(m, m) /\ Calm(m, m, c, overlapped)
         /\ Good(m, c, overlapped)
BY DEF ManagerInv, Sorts, Good, Edited, Calm, Onward, Spares

LEMMA QuietStep ==
  ASSUME ManagerInv, setup' = setup, c' = c, overlapped' = overlapped, marked' = marked, tainted' = tainted,
         Good(m', c, overlapped), Calm(m, m', c, overlapped),
         Sorts', Calling', Draining',
         \A i \in Ids : answer'[i] = "yes" => answer[i] = "yes" \/ Sound(i)
  PROVE  ManagerInv'
<1>1. Onward(m, m', c, overlapped) /\ m' \in Maps
  BY DEF Calm, Good
<1>2. Promised' /\ Tainted' /\ Prepared'
  BY <1>1, StillPromised, StillTainted, StillPrepared
<1>3. Good(m, c, overlapped)'
  BY SameWorld
<1>4. Books(c)'
  BY DEF ManagerInv, Books, Coordinators
<1>5. QED
  BY <1>2, <1>3, <1>4 DEF ManagerInv

(* Between the calls of the scheduler.                                     *)
LEMMA IdleStep ==
  ASSUME ManagerInv, setup' = setup, c' = c, overlapped' = overlapped, marked' = marked, tainted' = tainted,
         Good(m', c, overlapped), Calm(m, m', c, overlapped),
         call' = Idle \/ (At("idle") /\ call' = call), answer' \in [Ids -> {"no", "wait", "yes"}],
         seen' \subseteq Ids, late' \in BOOLEAN, finished' \subseteq Owners,
         \A i \in Ids : answer'[i] = "yes" => answer[i] = "yes" \/ Sound(i)
  PROVE  ManagerInv'
<1>1. call'.at = "idle"
  BY DEF Idle, At
<1>2. Sorts'
  BY DEF ManagerInv, Sorts, Idle
<1>3. Calling' /\ Draining'
  BY <1>1 DEF Calling, Draining
<1>4. QED
  BY <1>2, <1>3, QuietStep

LEMMA Stepped ==
  ASSUME ManagerInv, StepOver
  PROVE  answer' \in [Ids -> {"no", "wait", "yes"}] /\ \A i \in Ids : answer'[i] # "yes"
BY DEF ManagerInv, Sorts, StepOver

-----------------------------------------------------------------------------
(* The methods that neither look up nor reserve.                           *)
LEMMA Backoffs == ManagerInv /\ BackoffEnds => ManagerInv'
<1> SUFFICES ASSUME ManagerInv, BackoffEnds PROVE ManagerInv'
  OBVIOUS
<1>1. /\ m' \in Maps /\ m'.loads = m.loads /\ m'.stores = m.stores /\ m'.futures = m.futures /\ m'.veto = m.veto
      /\ m'.prepared = m.prepared /\ m'.retiring = m.retiring /\ m'.retiringStores = m.retiringStores
      /\ m'.closed = m.closed /\ m'.owners = m.owners
  BY Stay DEF BackoffEnds, Maps
<1>2. Edited(m, m') /\ Good(m', c, overlapped) /\ Calm(m, m', c, overlapped)
  BY <1>1, Stay, EditedGood DEF Edited
<1>3. Full(m)' = Full(m)
  BY <1>1 DEF Full, Owned, Vetoed, BackoffEnds
<1>4. Calling'
  BY <1>1, <1>3 DEF ManagerInv, Calling, BackoffEnds, Wanted, Gives
<1>5. Draining'
  BY <1>1 DEF ManagerInv, Draining, BackoffEnds, history
<1>6. Sorts'
  BY DEF ManagerInv, Sorts, BackoffEnds, history
<1>7. QED
  BY <1>2, <1>4, <1>5, <1>6, QuietStep DEF BackoffEnds, history

LEMMA Polls == ManagerInv /\ Poll => ManagerInv'
<1> SUFFICES ASSUME ManagerInv, Poll PROVE ManagerInv'
  OBVIOUS
<1>1. Good(m', c, overlapped) /\ Calm(m, m', c, overlapped)
  BY Stay, Polling DEF Poll
<1>2. QED
  BY <1>1, IdleStep DEF ManagerInv, Sorts, Poll, history

LEMMA Passes == ASSUME ManagerInv, NEW hook \in BOOLEAN, NEW later \in BOOLEAN, PassEnds(hook, later)
                PROVE  ManagerInv'
<1>1. Good(m', c, overlapped) /\ Calm(m, m', c, overlapped)
  <2>1. CASE ~hook
    BY <2>1, Stay DEF PassEnds
  <2>2. CASE hook
    <3>a. PICK S \in SUBSET Tickets : \E x \in Dispatched(Swept(Polled(m), S)) :
            m' = IF setup.budget = 0 THEN x ELSE Rotated(x)
      BY <2>2 DEF PassEnds
    <3>1. PICK x \in Dispatched(Swept(Polled(m), S)) : m' = IF setup.budget = 0 THEN x ELSE Rotated(x)
      BY <3>a
    <3>2. Good(Polled(m), c, overlapped) /\ Calm(m, Polled(m), c, overlapped) /\ Polled(m) \in Maps
      BY Stay, Polling DEF Good
    <3>3. Edited(Polled(m), Swept(Polled(m), S))
      <4> DEFINE x0 == Polled(m)
                 more == {x0.loads[i] : i \in Owned(x0, "loads") \ (x0.retiring \cup x0.retiringStores)}
                           \cup {x0.stores[i] : i \in Owned(x0, "stores") \ (x0.retiring \cup x0.retiringStores)}
                 renewals == x0.renewals \cup {t \in more : ~Valid(t)} \cup (more \cap S)
      <4>1. more \subseteq Tickets
        BY <3>2 DEF Owned, Maps
      <4>2. Swept(x0, S) = [x0 EXCEPT !.renewals = renewals]
        BY DEF Swept
      <4>3. renewals \subseteq Tickets
        BY <3>2, <4>1 DEF Maps
      <4> HIDE DEF x0, more, renewals
      <4>4. x0 \in Maps /\ x0 = Polled(m)
        BY <3>2 DEF x0
      <4>5. Edited(x0, [x0 EXCEPT !.renewals = renewals])
        BY <4>3, <4>4 DEF Edited, Maps
      <4>6. QED
        BY <4>2, <4>4, <4>5
    <3>4. Good(x, c, overlapped) /\ Calm(m, x, c, overlapped) /\ x \in Maps
      BY <3>1, <3>2, <3>3, Stay, EditDispatch, CalmChain DEF Good
    <3>5. Good(Rotated(x), c, overlapped) /\ Calm(x, Rotated(x), c, overlapped)
      BY <3>4, Stay, Edits, EditedGood
    <3>6. QED
      BY <3>1, <3>4, <3>5, CalmChain
  <2>3. QED
    BY <2>1, <2>2
<1>2. answer' \in [Ids -> {"no", "wait", "yes"}] /\ \A i \in Ids : answer'[i] # "yes"
  BY Stepped DEF PassEnds
<1>3. late' \in BOOLEAN /\ seen' \subseteq Ids /\ finished' \subseteq Owners
  BY DEF PassEnds, ManagerInv, Sorts, history
<1>4. QED
  BY <1>1, <1>2, <1>3, IdleStep DEF PassEnds, history

LEMMA Resets == ManagerInv /\ ResetCache => ManagerInv'
<1> SUFFICES ASSUME ManagerInv, ResetCache PROVE ManagerInv'
  OBVIOUS
<1>1. PICK x \in Dispatched(Reset(m)) : m' = GateCleared(x)
  BY DEF ResetCache
<1>2. Good(x, c, overlapped) /\ Calm(m, x, c, overlapped) /\ x \in Maps
  BY <1>1, Stay, Edits, EditDispatch DEF Good
<1>3. Good(m', c, overlapped) /\ Calm(x, m', c, overlapped)
  BY <1>1, <1>2, Stay, Edits, EditedGood
<1>4. Calm(m, m', c, overlapped)
  BY <1>2, <1>3, CalmChain
<1>5. answer' \in [Ids -> {"no", "wait", "yes"}] /\ \A i \in Ids : answer'[i] # "yes"
  BY Stepped DEF ResetCache
<1>6. QED
  BY <1>3, <1>4, <1>5, IdleStep DEF ResetCache, ManagerInv, Sorts, history

LEMMA CompletesStore == ASSUME ManagerInv, NEW i \in Ids, CompleteStore(i) PROVE ManagerInv'
<1> DEFINE z == [m EXCEPT !.retiringStores = @ \cup {i}, !.renewals = @ \ {m.stores[i]}]
<1>1. Edited(m, z)
  BY Stay DEF Edited, Maps
<1>2. Good(m', c, overlapped) /\ Calm(m, m', c, overlapped)
  BY <1>1, Stay, EditDispatch DEF CompleteStore
<1>3. answer' \in [Ids -> {"no", "wait", "yes"}] /\ \A j \in Ids : answer'[j] # "yes"
  BY Stepped DEF CompleteStore
<1>4. QED
  BY <1>2, <1>3, IdleStep DEF CompleteStore, ManagerInv, Sorts, history

LEMMA Finishes == ASSUME ManagerInv, NEW o \in Owners, RequestFinished(o) PROVE ManagerInv'
<1> DEFINE I == {i \in Ids : i[1] = o}
           x == Marked(m, I \cap Owned(m, "loads"))
           y == [x EXCEPT !.stale = [i \in Ids |-> IF i \in I /\ m.loads[i] # None THEN 0 ELSE @[i]]]
           z == Forget(y, o)
<1>1. Edited(m, x) /\ x \in Maps
  <2>1. I \cap Owned(m, "loads") \in SUBSET Ids
    OBVIOUS
  <2> HIDE DEF I
  <2>2. Edited(m, x)
    BY <2>1, Stay, Edits
  <2>3. QED
    BY <2>2 DEF Edited
<1> HIDE DEF x
<1>2. Edited(x, y) /\ y \in Maps
  <2>1. x.stale \in [Ids -> 0..StaleMax] /\ StaleMax \in Nat
    BY <1>1, Stay, Setting DEF Maps
  <2>2. [i \in Ids |-> IF i \in I /\ m.loads[i] # None THEN 0 ELSE x.stale[i]] \in [Ids -> 0..StaleMax]
    BY <2>1
  <2>3. QED
    BY <1>1, <2>2 DEF Edited, Maps
<1> HIDE DEF y
<1>3. Edited(m, z)
  BY <1>1, <1>2, Stay, Edits, EditedChain
<1>4. m' \in Dispatched(z)
  BY DEF RequestFinished, x, y
<1> HIDE DEF z
<1>5. Good(m', c, overlapped) /\ Calm(m, m', c, overlapped)
  BY <1>3, <1>4, Stay, EditDispatch
<1>6. answer' \in [Ids -> {"no", "wait", "yes"}] /\ \A i \in Ids : answer'[i] # "yes"
  BY DEF RequestFinished, ManagerInv, Sorts
<1>7. QED
  BY <1>5, <1>6, IdleStep DEF RequestFinished, ManagerInv, Sorts

LEMMA Drains == ManagerInv /\ Drain => ManagerInv'
<1> SUFFICES ASSUME ManagerInv, Drain PROVE ManagerInv'
  OBVIOUS
<1>1. /\ m' \in Dispatched(Polled(m))
      /\ call' = IF Pending(m') THEN call ELSE [Idle EXCEPT !.at = "down"]
  BY DEF Drain
<1>2. Good(Polled(m), c, overlapped) /\ Calm(m, Polled(m), c, overlapped)
  BY Stay, Polling
<1>3. Good(m', c, overlapped) /\ Calm(m, m', c, overlapped)
  BY <1>1, <1>2, Stay, Dispatching, CalmChain
<1>4. Draining'
  <2>1. \A i \in Ids \ overlapped : m'.loads[i] # None => i \in m'.retiring
    BY <1>3 DEF Calm, Onward, ManagerInv, Draining, Drain, At
  <2>2. \A i \in Ids : m'.stores[i] # None => i \in m'.retiringStores
    BY <1>3 DEF Calm, Onward, ManagerInv, Draining, Drain, At
  <2>3. call'.at = "down" => m'.futures = {} /\ m'.retiring = {} /\ m'.retiringStores = {}
    BY <1>1 DEF Drain, At, Pending
  <2>4. QED
    BY <2>1, <2>2, <2>3 DEF Draining, Drain, history
<1>5. Calling' /\ Sorts'
  BY <1>1 DEF Calling, ManagerInv, Sorts, Idle, Drain, At, history
<1>6. QED
  BY <1>3, <1>4, <1>5, QuietStep DEF Drain, history

LEMMA TimesOut == ManagerInv /\ DrainTimesOut => ManagerInv'
BY Stay, IdleStep DEF DrainTimesOut, ManagerInv, Sorts, history

LEMMA Shutsdown == ManagerInv /\ Shutdown => ManagerInv'
<1> SUFFICES ASSUME ManagerInv, Shutdown PROVE ManagerInv'
  OBVIOUS
<1>1. PICK x \in Dispatched(Reset(m)) : m' = [GateCleared(x) EXCEPT !.closed = TRUE]
  BY DEF Shutdown
<1>2. Good(Reset(m), c, overlapped) /\ Calm(m, Reset(m), c, overlapped)
  BY Stay, Edits, EditedGood
<1>3. Good(x, c, overlapped) /\ Calm(m, x, c, overlapped) /\ x \in Maps
      /\ x.loads = Reset(m).loads /\ x.stores = Reset(m).stores /\ x.retiring = Reset(m).retiring
      /\ x.retiringStores = Reset(m).retiringStores
  BY <1>1, <1>2, Stay, Dispatching, CalmChain DEF Good
<1>4. Edited(x, GateCleared(x)) /\ GateCleared(x) \in Maps /\ Edited(GateCleared(x), m')
  BY <1>1, <1>3, Stay, Edits DEF Edited
<1>5. Edited(x, m')
  BY <1>4, EditedChain
<1>6. Good(m', c, overlapped) /\ Calm(m, m', c, overlapped)
  BY <1>3, <1>5, EditedGood, CalmChain
<1>7. Draining'
  <2>1. /\ Reset(m).loads = m.loads /\ Reset(m).stores = m.stores /\ Reset(m).retiringStores = m.retiringStores
        /\ Reset(m).retiring = m.retiring \cup Owned(m, "loads")
    BY Stay DEF Reset, GateCleared, Maps
  <2>2. m'.loads = m.loads /\ m'.stores = m.stores
    BY <1>3, <1>5, <2>1 DEF Edited
  <2>3. Owned(m, "loads") \subseteq m'.retiring /\ m.retiringStores \subseteq m'.retiringStores
    BY <1>3, <1>5, <2>1 DEF Edited
  <2>4. \A i \in Ids : (m.loads[i] # None => i \in m'.retiring) /\ (m.stores[i] # None => i \in m'.retiringStores)
    BY <2>3 DEF Owned, Shutdown, Resettable
  <2>5. call'.at = "drain"
    BY DEF Shutdown, Idle
  <2>6. QED
    BY <2>2, <2>4, <2>5 DEF Draining, Shutdown, history
<1>8. Calling' /\ Sorts'
  BY DEF Calling, ManagerInv, Sorts, Idle, Shutdown, history
<1>9. QED
  BY <1>6, <1>7, <1>8, QuietStep DEF Shutdown, history

-----------------------------------------------------------------------------
(* prepare_load() and what ends it.                                        *)
LEMMA Preparing ==
  ASSUME NEW x, NEW cc, NEW ov, Good(x, cc, ov), NEW P \in SUBSET Ids
  PROVE  LET z == [x EXCEPT !.prepared = P] IN
         z \in Maps /\ Good(z, cc, ov) /\ Onward(x, z, cc, ov) /\ z.futures = x.futures /\ z.prepared = P
<1> DEFINE z == [x EXCEPT !.prepared = P]
<1>1. x \in Maps
  BY DEF Good
<1>2. /\ z \in Maps /\ z.loads = x.loads /\ z.stores = x.stores /\ z.futures = x.futures /\ z.veto = x.veto
      /\ z.retiring = x.retiring /\ z.retiringStores = x.retiringStores /\ z.closed = x.closed
      /\ z.owners = x.owners /\ z.prepared = P
  BY <1>1 DEF Maps
<1> HIDE DEF z
<1>3. Distinct(z) /\ Named(z, cc) /\ Kept(z, cc, ov)
  BY <1>2 DEF Good, Distinct, Named, Kept
<1>4. Futures(z, cc, ov)
  <2>1. ASSUME NEW f \in x.futures, FutureOK(f, x, cc, ov) PROVE FutureOK(f, z, cc, ov)
    BY <1>2, <2>1 DEF FutureOK
  <2>2. QED
    BY <1>2, <2>1 DEF Good, Futures
<1>5. Fits(z)
  <2>1. Owned(z, "loads") = Owned(x, "loads") /\ Owned(z, "stores") = Owned(x, "stores") /\ Vetoed(z) = Vetoed(x)
    BY <1>2 DEF Owned, Vetoed
  <2>2. QED
    BY <1>2, <2>1 DEF Good, Fits
<1>6. Onward(x, z, cc, ov)
  BY <1>2 DEF Onward
<1>7. QED
  BY <1>2, <1>3, <1>4, <1>5, <1>6 DEF Good, z

LEMMA PreparesLoad == ASSUME ManagerInv, NEW o \in Owners, PrepareLoad(o) PROVE ManagerInv'
<1> DEFINE I == {i \in Ids : i[1] = o /\ answer[i] = "yes"}
           z == [m EXCEPT !.prepared = @ \cup I]
<1>1. z \in Maps /\ Good(z, c, overlapped) /\ Onward(m, z, c, overlapped)
      /\ z.futures = m.futures /\ z.prepared = m.prepared \cup I
  <2>1. m.prepared \cup I \in SUBSET Ids
    BY Stay DEF Maps
  <2>2. z = [m EXCEPT !.prepared = m.prepared \cup I]
    OBVIOUS
  <2> HIDE DEF I, z
  <2>3. QED
    BY <2>1, <2>2, Stay, Preparing
<1>2. m' = Forget(z, o)
  BY DEF PrepareLoad
<1>3. /\ \A i \in I : i \in Ids /\ answer[i] = "yes" /\ m.loads[i] # None
      /\ marked' = marked \cup (I \cap m.retiring)
      /\ answer' = [i \in Ids |-> IF i \in I THEN "no" ELSE answer[i]]
      /\ UNCHANGED <<setup, c, call, seen, late, finished, overlapped, tainted>> /\ At("idle")
  BY DEF PrepareLoad
<1> HIDE DEF z
<1>4. Good(m', c, overlapped) /\ Onward(m, m', c, overlapped) /\ m' \in Maps
      /\ m'.prepared = m.prepared \cup I /\ m'.futures = m.futures
  <2>1. Edited(z, m')
    BY <1>1, <1>2, Stay, Edits
  <2>2. Good(m', c, overlapped) /\ Calm(z, m', c, overlapped)
    BY <1>1, <2>1, EditedGood
  <2>3. Onward(m, m', c, overlapped)
    BY <1>1, <2>2, OnwardChain DEF Calm
  <2>4. QED
    BY <1>1, <2>1, <2>2, <2>3 DEF Edited
<1> HIDE DEF I
<1>5. \A i \in Ids : answer'[i] = "yes" => answer[i] = "yes" \/ Sound(i)
  BY <1>3
<1>6. Promised' /\ Tainted'
  BY <1>3, <1>4, <1>5, StillPromised, StillTainted
<1>7. Prepared'
  <2> SUFFICES ASSUME NEW i \in m'.prepared, i \notin marked', i \notin overlapped
               PROVE  /\ m'.loads[i] # None /\ c.lease[m'.loads[i]] = "held"
                      /\ \A f \in m'.futures : f.kind = "load" => f.on # i
    BY <1>3 DEF Prepared
  <2>1. /\ i \in Ids /\ m.loads[i] # None /\ c.lease[m.loads[i]] = "held"
        /\ \A f \in m.futures : f.kind = "load" => f.on # i
    <3>1. CASE i \in m.prepared
      BY <1>3, <3>1, Stay DEF ManagerInv, Prepared, Maps
    <3>2. CASE i \in I
      <4>1. i \in Ids /\ m.loads[i] # None /\ i \notin m.retiring /\ answer[i] = "yes"
        BY <1>3, <3>2
      <4>2. c.lease[m.loads[i]] = "held"
        BY <4>1 DEF ManagerInv, Promised
      <4>3. \A f \in m.futures : f.kind = "load" => f.on # i
        BY <4>1, Stay DEF Good, Futures, FutureOK
      <4>4. QED
        BY <4>1, <4>2, <4>3
    <3>3. QED
      BY <1>4, <3>1, <3>2
  <2>2. m'.loads[i] = m.loads[i]
    BY <1>4, <2>1 DEF Onward
  <2>3. QED
    BY <1>4, <2>1, <2>2
<1>8. Sorts'
  <2>1. marked' \subseteq Ids
    BY <1>3 DEF ManagerInv, Sorts
  <2>2. answer' \in [Ids -> {"no", "wait", "yes"}]
    BY <1>3 DEF ManagerInv, Sorts
  <2>3. QED
    BY <1>3, <2>1, <2>2 DEF ManagerInv, Sorts
<1>9. Calling' /\ Draining'
  BY <1>3 DEF Calling, Draining, At
<1>10. Good(m, c, overlapped)' /\ Books(c)'
  BY <1>3, <1>4, SameWorld DEF ManagerInv, Books, Coordinators
<1>11. QED
  BY <1>6, <1>7, <1>8, <1>9, <1>10 DEF ManagerInv

LEMMA CompletesLoad == ASSUME ManagerInv, NEW i \in Ids, NEW ok \in BOOLEAN, CompleteLoad(i, ok) PROVE ManagerInv'
<1> DEFINE x == Marked(m, {i} \cap Owned(m, "loads"))
           y == [x EXCEPT !.stale[i] = 0]
           z == [y EXCEPT !.prepared = @ \ {i}]
<1>1. Good(x, c, overlapped) /\ Calm(m, x, c, overlapped) /\ x \in Maps
  <2>1. {i} \cap Owned(m, "loads") \in SUBSET Ids
    OBVIOUS
  <2>2. QED
    BY <2>1, Stay, Edits, EditedGood DEF Good
<1>2. m' \in Dispatched(z)
  BY DEF CompleteLoad
<1> HIDE DEF x
<1>3. Good(y, c, overlapped) /\ Calm(m, y, c, overlapped) /\ y \in Maps
  <2>1. 0 \in 0..StaleMax
    BY Stay, Setting
  <2>2. Edited(x, y)
    BY <1>1, <2>1, Stay, Edits
  <2>3. Good(y, c, overlapped) /\ Calm(x, y, c, overlapped)
    BY <1>1, <2>2, EditedGood
  <2>4. QED
    BY <1>1, <2>3, CalmChain DEF Good
<1> HIDE DEF y
<1>4. Good(z, c, overlapped) /\ Onward(m, z, c, overlapped) /\ z.prepared = m.prepared \ {i}
      /\ z.futures = y.futures
  <2>1. y.prepared = m.prepared
    BY <1>3 DEF Calm, Spares
  <2>2. m.prepared \ {i} \in SUBSET Ids
    BY Stay DEF Maps
  <2>3. z = [y EXCEPT !.prepared = m.prepared \ {i}]
    BY <2>1, <1>3 DEF Maps
  <2> HIDE DEF z
  <2>4. Good(z, c, overlapped) /\ Onward(y, z, c, overlapped) /\ z.prepared = m.prepared \ {i}
        /\ z.futures = y.futures
    BY <1>3, <2>2, <2>3, Preparing
  <2>5. QED
    BY <1>3, <2>4, OnwardChain DEF Calm
<1> HIDE DEF z
<1>5. Good(m', c, overlapped) /\ Onward(m, m', c, overlapped) /\ m'.prepared = m.prepared \ {i} /\ m' \in Maps
      /\ \A f \in m'.futures : f \in m.futures \/ (f.kind = "load" => f.on \notin m.prepared \ {i})
  <2>1. Good(m', c, overlapped) /\ Calm(z, m', c, overlapped)
    BY <1>2, <1>4, Stay, Dispatching
  <2>2. Onward(m, m', c, overlapped)
    BY <1>4, <2>1, OnwardChain DEF Calm
  <2>3. QED
    BY <1>3, <1>4, <2>1, <2>2 DEF Calm, Spares, Good
<1>6. answer' \in [Ids -> {"no", "wait", "yes"}] /\ \A j \in Ids : answer'[j] # "yes"
  BY Stepped DEF CompleteLoad
<1>7. Promised' /\ Tainted'
  BY <1>5, <1>6, StillPromised, StillTainted DEF CompleteLoad
<1>8. Prepared'
  <2> SUFFICES ASSUME NEW j \in m'.prepared, j \notin marked', j \notin overlapped
               PROVE  /\ m'.loads[j] # None /\ c.lease[m'.loads[j]] = "held"
                      /\ \A f \in m'.futures : f.kind = "load" => f.on # j
    BY DEF Prepared, CompleteLoad
  <2>1. j \in m.prepared \ {i} /\ j \notin marked /\ j \in Ids
    BY <1>5, Stay DEF CompleteLoad, Maps
  <2>2. m.loads[j] # None /\ c.lease[m.loads[j]] = "held"
        /\ \A f \in m.futures : f.kind = "load" => f.on # j
    BY <2>1 DEF ManagerInv, Prepared
  <2>3. QED
    BY <1>5, <2>1, <2>2 DEF Onward
<1>9. Sorts' /\ Calling' /\ Draining'
  <2>1. call' = Idle \/ (call'.at = "failure" /\ call'.id = i
                         /\ call' \in [at : {"idle", "ask", "vouch", "fanout", "failure", "drain", "down"}, id : Ids \cup {None},
                                       for : {"load", "probe", "store", "none"}, old : Tickets \cup {None}])
    BY DEF CompleteLoad, Idle
  <2>2. Sorts'
    BY <1>6, <2>1 DEF ManagerInv, Sorts, CompleteLoad, Idle
  <2>3. QED
    BY <2>1, <2>2 DEF Calling, Draining, Idle
<1>10. Good(m, c, overlapped)' /\ Books(c)'
  BY <1>5, SameWorld DEF ManagerInv, Books, Coordinators, CompleteLoad
<1>11. QED
  BY <1>7, <1>8, <1>9, <1>10 DEF ManagerInv

-----------------------------------------------------------------------------
(* on_load_failure().                                                      *)
LEMMA Vetoing ==
  ASSUME setup \in Setups, NEW x, NEW cc, NEW ov, Good(x, cc, ov), NEW k \in Keys,
         x.veto[k] # "none" \/ Cardinality(Vetoed(x)) < setup.capacity
  PROVE  /\ Good(VetoedNow(x, k), cc, ov) /\ Calm(x, VetoedNow(x, k), cc, ov)
         /\ VetoedNow(x, k).veto[k] # "none"
<1> DEFINE y == Marked(x, Readers(k))
           q == Without(y.owners, {i[1] : i \in Readers(k)})
           u == [y EXCEPT !.owners = q]
           z == [u EXCEPT !.veto[k] = "asked"]
<1>1. Good(y, cc, ov) /\ Calm(x, y, cc, ov) /\ y \in Maps /\ y.veto = x.veto
  <2>1. x \in Maps /\ Readers(k) \in SUBSET Ids
    BY DEF Good, Readers, Owned
  <2>2. Edited(x, y)
    BY <2>1, Edits
  <2> HIDE DEF y
  <2>3. QED
    BY <2>2, EditedGood DEF Good, Edited
<1>2. VetoedNow(x, k) = [[y EXCEPT !.veto[k] = "asked"] EXCEPT !.owners = q]
  BY <1>1 DEF VetoedNow, Maps
<1> HIDE DEF y
<1>3. Good(u, cc, ov) /\ Calm(x, u, cc, ov) /\ u \in Maps /\ u.veto = x.veto
  <2>1. y.owners \in Seq(Owners) /\ q \in Seq(Owners) /\ Len(q) <= Len(y.owners)
    BY <1>1, WithoutFacts DEF Maps
  <2>2. Len(y.owners) <= setup.capacity => Len(q) <= setup.capacity
    BY <2>1, LenProperties, Setting
  <2>3. None \in Owners \cup {None} /\ 0 \in 0..setup.budget
    BY Setting
  <2> HIDE DEF q
  <2>4. Edited(y, u)
    BY <1>1, <2>1, <2>2, <2>3, GateEdit
  <2> HIDE DEF u
  <2>5. QED
    BY <1>1, <2>4, EditedGood, CalmChain DEF Good, Edited
<1>4. VetoedNow(x, k) = z
  <2> HIDE DEF q
  <2>1. QED
    BY <1>1, <1>2 DEF Maps
<1> HIDE DEF u, q
<1>5. /\ z \in Maps /\ z.loads = u.loads /\ z.stores = u.stores /\ z.futures = u.futures
      /\ z.retiring = u.retiring /\ z.retiringStores = u.retiringStores /\ z.closed = u.closed
      /\ z.owners = u.owners /\ z.prepared = u.prepared
      /\ z.veto[k] = "asked" /\ \A l \in Keys : l # k => z.veto[l] = x.veto[l]
  BY <1>3 DEF Maps
<1> HIDE DEF z
<1>6. Distinct(z) /\ Named(z, cc) /\ Kept(z, cc, ov)
  BY <1>3, <1>5 DEF Good, Distinct, Named, Kept
<1>7. Futures(z, cc, ov)
  <2>1. ASSUME NEW f \in u.futures, FutureOK(f, u, cc, ov) PROVE FutureOK(f, z, cc, ov)
    BY <1>3, <1>5, <2>1 DEF FutureOK
  <2>2. QED
    BY <1>3, <1>5, <2>1 DEF Good, Futures
<1>8. Fits(z)
  <2>1. Owned(z, "loads") = Owned(u, "loads") /\ Owned(z, "stores") = Owned(u, "stores")
    BY <1>5 DEF Owned
  <2>2. IsFiniteSet(Vetoed(z)) /\ Cardinality(Vetoed(z)) <= setup.capacity
    <3>1. Vetoed(z) = Vetoed(x) \cup {k}
      BY <1>5 DEF Vetoed
    <3>2. IsFiniteSet(Vetoed(x)) /\ Cardinality(Vetoed(x)) <= setup.capacity /\ Cardinality(Vetoed(x)) \in Nat
      BY FS_CardinalityType DEF Good, Fits
    <3>3. k \in Vetoed(x) <=> x.veto[k] # "none"
      BY DEF Vetoed
    <3>4. CASE k \in Vetoed(x)
      <4>1. Vetoed(z) = Vetoed(x)
        BY <3>1, <3>4
      <4>2. QED
        BY <3>2, <4>1
    <3>5. CASE k \notin Vetoed(x)
      <4>1. IsFiniteSet(Vetoed(x) \cup {k}) /\ Cardinality(Vetoed(x) \cup {k}) = Cardinality(Vetoed(x)) + 1
        BY <3>2, <3>5, FS_AddElement
      <4>2. QED
        BY <3>1, <3>2, <3>3, <3>5, <4>1, Setting
    <3>6. QED
      BY <3>4, <3>5
  <2>3. QED
    BY <1>3, <1>5, <2>1, <2>2 DEF Good, Fits
<1>9. Calm(u, z, cc, ov)
  BY <1>3, <1>5 DEF Calm, Onward, Spares
<1>10. QED
  BY <1>3, <1>4, <1>5, <1>6, <1>7, <1>8, <1>9, CalmChain DEF Good

(* A veto that all ranks have acknowledged makes room, in a closed tier.   *)
LEMMA Evicting ==
  ASSUME setup \in Setups, NEW x, NEW cc, NEW ov, Good(x, cc, ov), NEW l \in Keys, x.veto[l] = "acked", x.closed
  PROVE  LET z == [x EXCEPT !.veto[l] = "none"] IN
         Good(z, cc, ov) /\ Calm(x, z, cc, ov) /\ Cardinality(Vetoed(z)) < setup.capacity
<1> DEFINE z == [x EXCEPT !.veto[l] = "none"]
<1>1. /\ z \in Maps /\ z.loads = x.loads /\ z.stores = x.stores /\ z.futures = x.futures
      /\ z.retiring = x.retiring /\ z.retiringStores = x.retiringStores /\ z.closed = x.closed
      /\ z.owners = x.owners /\ z.prepared = x.prepared
      /\ z.veto[l] = "none" /\ \A k \in Keys : k # l => z.veto[k] = x.veto[k]
  BY DEF Good, Maps
<1> HIDE DEF z
<1>2. Distinct(z) /\ Named(z, cc) /\ Kept(z, cc, ov)
  BY <1>1 DEF Good, Distinct, Named, Kept
<1>3. Futures(z, cc, ov)
  <2>1. ASSUME NEW f \in x.futures, FutureOK(f, x, cc, ov) PROVE FutureOK(f, z, cc, ov)
    BY <1>1, <2>1 DEF FutureOK
  <2>2. QED
    BY <1>1, <2>1 DEF Good, Futures
<1>4. IsFiniteSet(Vetoed(z)) /\ Cardinality(Vetoed(z)) < setup.capacity
  <2>1. Vetoed(z) = Vetoed(x) \ {l} /\ l \in Vetoed(x)
    BY <1>1 DEF Vetoed
  <2>2. IsFiniteSet(Vetoed(x)) /\ Cardinality(Vetoed(x)) <= setup.capacity /\ Cardinality(Vetoed(x)) \in Nat
    BY FS_CardinalityType DEF Good, Fits
  <2>3. IsFiniteSet(Vetoed(x) \ {l}) /\ Cardinality(Vetoed(x) \ {l}) = Cardinality(Vetoed(x)) - 1
    BY <2>1, <2>2, FS_RemoveElement
  <2>4. QED
    BY <2>1, <2>2, <2>3, Setting
<1>5. Fits(z)
  <2>1. Owned(z, "loads") = Owned(x, "loads") /\ Owned(z, "stores") = Owned(x, "stores")
    BY <1>1 DEF Owned
  <2>2. Cardinality(Vetoed(z)) <= setup.capacity
    BY <1>4, FS_CardinalityType, Setting
  <2>3. QED
    BY <1>1, <1>4, <2>1, <2>2 DEF Good, Fits
<1>6. Calm(x, z, cc, ov)
  BY <1>1 DEF Calm, Onward, Spares
<1>7. QED
  BY <1>1, <1>2, <1>3, <1>4, <1>5, <1>6 DEF Good, z

LEMMA Fails == ManagerInv /\ OnLoadFailure => ManagerInv'
<1> SUFFICES ASSUME ManagerInv, OnLoadFailure PROVE ManagerInv'
  OBVIOUS
<1> DEFINE k == call.id[2]
<1>1. call.id \in Ids /\ k \in Keys
  BY DEF OnLoadFailure, At, ManagerInv, Calling, Ids
<1>2. Edited(m, Degraded(m)) /\ Good(Degraded(m), c, overlapped) /\ Calm(m, Degraded(m), c, overlapped)
      /\ Degraded(m).closed /\ Degraded(m).veto = m.veto /\ Degraded(m) \in Maps
  <2>1. Edited(m, Degraded(m))
    BY Stay, Edits
  <2>2. Good(Degraded(m), c, overlapped) /\ Calm(m, Degraded(m), c, overlapped)
    BY <2>1, Stay, EditedGood
  <2>3. Degraded(m).closed
    BY Stay DEF Degraded, GateCleared, Maps
  <2>4. QED
    BY <2>1, <2>2, <2>3 DEF Edited
<1>3. Good(m', c, overlapped) /\ Calm(m, m', c, overlapped) /\ (m'.veto[k] # "none" \/ m'.closed)
  <2> DEFINE full == m.veto[k] = "none" /\ Cardinality(Vetoed(m)) >= setup.capacity
  <2>1. CASE ~full /\ m' \in Dispatched(VetoedNow(m, k))
    <3>1. m.veto[k] # "none" \/ Cardinality(Vetoed(m)) < setup.capacity
      <4>1. Cardinality(Vetoed(m)) \in Nat /\ setup.capacity \in Nat
        BY Stay, Setting, FS_CardinalityType DEF Good, Fits
      <4>2. QED
        BY <2>1, <4>1
    <3>2. /\ Good(VetoedNow(m, k), c, overlapped) /\ Calm(m, VetoedNow(m, k), c, overlapped)
          /\ VetoedNow(m, k).veto[k] # "none"
      BY <1>1, <3>1, Stay, Vetoing
    <3> HIDE DEF k
    <3>3. QED
      BY <2>1, <3>2, Stay, Dispatching, CalmChain
  <2>2. ASSUME NEW l \in Keys, m.veto[l] = "acked",
               m' \in Dispatched(VetoedNow([Degraded(m) EXCEPT !.veto[l] = "none"], k))
        PROVE  Good(m', c, overlapped) /\ Calm(m, m', c, overlapped) /\ m'.veto[k] # "none"
    <3> DEFINE z == [Degraded(m) EXCEPT !.veto[l] = "none"]
    <3>1. Good(z, c, overlapped) /\ Calm(Degraded(m), z, c, overlapped) /\ Cardinality(Vetoed(z)) < setup.capacity
      BY <1>2, <2>2, Stay, Evicting
    <3>2. m' \in Dispatched(VetoedNow(z, k))
      BY <2>2
    <3> HIDE DEF z, k
    <3>3. k \in Keys
      BY <1>1
    <3>4. /\ Good(VetoedNow(z, k), c, overlapped) /\ Calm(z, VetoedNow(z, k), c, overlapped)
          /\ VetoedNow(z, k).veto[k] # "none"
      BY <3>1, <3>3, Stay, Vetoing
    <3>5. Good(m', c, overlapped) /\ Calm(VetoedNow(z, k), m', c, overlapped) /\ m'.veto = VetoedNow(z, k).veto
      BY <3>2, <3>4, Stay, Dispatching
    <3>6. Calm(m, z, c, overlapped)
      BY <1>2, <3>1, CalmChain
    <3>7. Calm(m, VetoedNow(z, k), c, overlapped)
      BY <3>4, <3>6, CalmChain
    <3>8. QED
      BY <3>4, <3>5, <3>7, CalmChain
  <2>3. CASE m' = [Degraded(m) EXCEPT !.quarantined = TRUE]
    <3>1. Edited(Degraded(m), m') /\ m'.closed
      BY <1>2, <2>3 DEF Edited, Maps
    <3>2. QED
      BY <1>2, <3>1, EditedGood, CalmChain
  <2>4. QED
    BY <2>1, <2>2, <2>3 DEF OnLoadFailure
<1>4. answer' \in [Ids -> {"no", "wait", "yes"}] /\ \A j \in Ids : answer'[j] # "yes"
  BY Stepped DEF OnLoadFailure
<1>5. UNCHANGED <<setup, c, seen, late, finished, overlapped, marked>> /\ call' = Idle
      /\ tainted' = tainted \cup {t \in {m.loads[i] : i \in Readers(k)} : Live(t)}
  BY DEF OnLoadFailure
<1>6. Onward(m, m', c, overlapped) /\ m' \in Maps
  BY <1>3 DEF Calm, Good
<1>7. Promised' /\ Prepared'
  BY <1>3, <1>4, <1>5, <1>6, StillPromised, StillPrepared
<1>8. Tainted'
  <2> SUFFICES ASSUME NEW t \in tainted'
               PROVE  /\ t \in Tickets /\ c.lease[t] # "none"
                      /\ m'.closed \/ (m'.veto[c.of[t][1][2]] # "none" /\ \E i \in Ids : m'.loads[i] = t)
    BY <1>4, <1>5 DEF Tainted, Live, KeyOf
  <2>1. CASE t \in tainted
    BY <1>6, <2>1, StaysTainted
  <2>2. CASE t \notin tainted
    <3>1. PICK i \in Ids : m.loads[i] = t /\ m.loads[i] # None /\ i[2] = k /\ c.lease[t] # "none"
      BY <1>5, <2>2 DEF Readers, Owned, Live
    <3>2. t \in Tickets
      BY <3>1, Stay DEF Maps
    <3>3. c.of[t] = <<i, "load">>
      BY <3>1, Stay DEF Good, Named, Gives
    <3>4. m'.loads[i] = t
      BY <1>6, <3>1 DEF Onward
    <3>5. c.of[t][1][2] = k
      BY <3>1, <3>3
    <3>6. QED
      BY <1>3, <3>1, <3>2, <3>4, <3>5
  <2>3. QED
    BY <2>1, <2>2
<1>9. Sorts' /\ Calling' /\ Draining'
  BY <1>4, <1>5 DEF ManagerInv, Sorts, Calling, Draining, Idle
<1>10. Good(m, c, overlapped)' /\ Books(c)'
  BY <1>3, <1>5, SameWorld DEF ManagerInv, Books, Coordinators
<1>11. QED
  BY <1>7, <1>8, <1>9, <1>10 DEF ManagerInv

-----------------------------------------------------------------------------
(* lookup() and prepare_store(), until they reserve.                       *)
LEMMA FullBy ==
  ASSUME NEW x, NEW y, y.loads = x.loads, y.stores = x.stores, y.veto = x.veto
  PROVE  Full(y) <=> Full(x)
<1>1. Owned(y, "loads") = Owned(x, "loads") /\ Owned(y, "stores") = Owned(x, "stores") /\ Vetoed(y) = Vetoed(x)
  BY DEF Owned, Vetoed
<1>2. QED
  BY <1>1 DEF Full

LEMMA AskStep ==
  ASSUME ManagerInv, setup' = setup, c' = c, overlapped' = overlapped, marked' = marked, tainted' = tainted,
         Good(m', c, overlapped), Calm(m, m', c, overlapped),
         NEW i \in Ids, NEW w \in {"load", "probe", "store"},
         call' = [at |-> "ask", id |-> i, for |-> w, old |-> None],
         ~m'.closed, m'.veto[i[2]] = "none", ~Full(m'),
         w = "load" => i \notin m'.prepared /\ (m'.loads[i] = None \/ i \in m'.retiring),
         w = "probe" => m'.loads[i] = None,
         w # "load" => m'.stores[i] = None,
         answer' \in [Ids -> {"no", "wait", "yes"}], \A j \in Ids : answer'[j] = "yes" => answer[j] = "yes",
         seen' \subseteq Ids, late' \in BOOLEAN, finished' \subseteq Owners
  PROVE  ManagerInv'
<1>1. Full(m)' <=> Full(m')
  BY DEF Full, Owned, Vetoed
<1>2. Calling'
  BY <1>1 DEF Calling
<1>3. Sorts' /\ Draining'
  BY DEF ManagerInv, Sorts, Draining
<1>4. QED
  BY <1>2, <1>3, QuietStep

LEMMA Stales ==
  ASSUME setup \in Setups, NEW x, NEW cc, NEW ov, Good(x, cc, ov), NEW i \in Ids, NEW y \in Stale(x, i)
  PROVE  /\ Good(y, cc, ov) /\ Calm(x, y, cc, ov) /\ i \in y.retiring
         /\ y.closed = x.closed /\ y.veto = x.veto /\ y.loads = x.loads /\ y.stores = x.stores
<1> DEFINE z == Marked(x, {i})
           u == [z EXCEPT !.stale[i] = 0]
<1>1. x \in Maps
  BY DEF Good
<1>2. Edited(x, z) /\ z.closed = x.closed /\ i \in z.retiring /\ z \in Maps
  <2>1. z.closed = x.closed /\ i \in z.retiring
    BY <1>1 DEF Marked, Maps
  <2>2. {i} \in SUBSET Ids
    OBVIOUS
  <2>3. Edited(x, z)
    BY <1>1, <2>2, Edits
  <2>4. QED
    BY <2>1, <2>3 DEF Edited
<1>3. y \in Dispatched(u)
  BY DEF Stale
<1> HIDE DEF z
<1>4. Edited(z, u) /\ u.closed = z.closed /\ u.retiring = z.retiring
  <2>1. 0 \in 0..StaleMax
    BY Setting
  <2>2. Edited(z, u)
    BY <1>2, <2>1, Edits
  <2>3. QED
    BY <1>2, <2>2 DEF Maps
<1> HIDE DEF u
<1>5. Edited(x, u)
  BY <1>2, <1>4, EditedChain
<1>6. Good(u, cc, ov)
  BY <1>5, EditedGood
<1>7. QED
  BY <1>2, <1>3, <1>4, <1>5, <1>6, Dispatching, EditDispatch DEF Edited

LEMMA Uncertainty ==
  ASSUME setup \in Setups, NEW x, NEW cc, NEW ov, Good(x, cc, ov), NEW i \in Ids, x.loads[i] # None,
         answer \in [Ids -> {"no", "wait", "yes"}], Uncertain(x, i)
  PROVE  /\ Good(m', cc, ov) /\ Calm(x, m', cc, ov)
         /\ answer' \in [Ids -> {"no", "wait", "yes"}] /\ \A j \in Ids : answer'[j] = "yes" => answer[j] = "yes"
<1>1. x \in Maps /\ x.loads[i] \in Tickets
  BY DEF Good, Maps
<1>2. CASE Exhausted(x, i)
  BY <1>2, Stales DEF Uncertain, Answered
<1>3. CASE ~Exhausted(x, i)
  <2> DEFINE z == Requested(x, x.loads[i])
             n == z.stale[i] + 1
             u == [z EXCEPT !.stale[i] = n]
  <2>1. Edited(x, z) /\ z \in Maps /\ z.stale = x.stale
    <3>1. z.stale = x.stale
      BY <1>1 DEF Requested, Maps
    <3>2. Edited(x, z)
      BY <1>1, Edits
    <3>3. QED
      BY <3>1, <3>2 DEF Edited
  <2>2. n \in 0..StaleMax
    <3>1. x.stale[i] \in 0..StaleMax /\ StaleMax \in Nat
      BY <1>1, Setting DEF Maps
    <3>2. QED
      BY <1>3, <2>1, <3>1 DEF Exhausted
  <2>3. m' \in Dispatched(u) /\ Answered(i, "wait")
    BY <1>3 DEF Uncertain
  <2> HIDE DEF z, n
  <2>4. Edited(z, u)
    BY <2>1, <2>2, Edits
  <2> HIDE DEF u
  <2>5. Edited(x, u)
    BY <2>1, <2>4, EditedChain
  <2>6. Good(m', cc, ov) /\ Calm(x, m', cc, ov)
    BY <2>3, <2>5, EditDispatch
  <2>7. QED
    BY <2>3, <2>6 DEF Answered
<1>4. QED
  BY <1>2, <1>3

LEMMA Turning ==
  ASSUME setup \in Setups, NEW x \in Maps
  PROVE  Edited(x, Turned(x)) /\ Turned(x).closed = x.closed /\ Turned(x).retiring = x.retiring /\ Turned(x) \in Maps
<1>1. Edited(x, x)
  BY DEF Edited
<1>2. Edited(x, Rotated(x)) /\ Rotated(x).closed = x.closed /\ Rotated(x).retiring = x.retiring
  BY Edits DEF Rotated, Maps
<1>3. QED
  BY <1>1, <1>2 DEF Turned, Edited

LEMMA Queuing ==
  ASSUME setup \in Setups, NEW x \in Maps, NEW i \in Ids, ~Crowded(x, i[1])
  PROVE  LET z == Queued(x, i[1]) IN
         Edited(x, z) /\ z.closed = x.closed /\ z.retiring = x.retiring /\ z \in Maps
<1> DEFINE o == i[1]
           y == Turned(x)
           in == \E n \in DOMAIN y.owners : y.owners[n] = o
           q == IF in THEN y.owners ELSE Append(y.owners, o)
           z == [y EXCEPT !.owners = q]
           h == IF z.turn = None THEN Head(q) ELSE z.turn
           u == [z EXCEPT !.turn = h]
<1>1. y \in Maps /\ Edited(x, y) /\ y.closed = x.closed /\ y.retiring = x.retiring
  BY Turning
<1>2. o \in Owners
  BY DEF Ids
<1>3. ~in => Len(y.owners) < setup.capacity
  <2>1. in \/ ~(Len(y.owners) >= setup.capacity)
    BY DEF Crowded
  <2>2. Len(y.owners) \in Nat /\ setup.capacity \in Nat
    BY <1>1, LenProperties, Setting DEF Maps
  <2>3. QED
    BY <2>1, <2>2
<1>4. Queued(x, i[1]) = u
  <2>1. y.owners \in Seq(Owners) /\ DOMAIN y.owners = 1..Len(y.owners)
    BY <1>1, LenProperties DEF Maps
  <2> HIDE DEF in
  <2>2. z = IF in THEN y ELSE [y EXCEPT !.owners = Append(@, o)]
    <3> HIDE DEF y, o
    <3>1. QED
      BY <1>1 DEF Maps
  <2>3. z.owners = q
    <3> HIDE DEF y, o, q
    <3>1. QED
      BY <1>1 DEF Maps
  <2> HIDE DEF z, q
  <2>4. Queued(x, i[1]) = [z EXCEPT !.turn = IF @ = None THEN Head(z.owners) ELSE @]
    BY <2>2 DEF Queued, in
  <2>5. QED
    BY <2>3, <2>4
<1>5. q \in Seq(Owners) /\ q # <<>> /\ (Len(y.owners) <= setup.capacity => Len(q) <= setup.capacity)
  <2>1. y.owners \in Seq(Owners) /\ Len(y.owners) \in Nat /\ DOMAIN y.owners = 1..Len(y.owners)
        /\ setup.capacity \in Nat
    BY <1>1, LenProperties, Setting DEF Maps
  <2> HIDE DEF y, o
  <2>2. CASE in
    <3>1. y.owners # <<>>
      BY <2>1, <2>2, EmptySeq
    <3>2. QED
      BY <2>1, <2>2, <3>1
  <2>3. CASE ~in
    <3>1. Append(y.owners, o) \in Seq(Owners) /\ Len(Append(y.owners, o)) = Len(y.owners) + 1
          /\ Append(y.owners, o) # <<>>
      BY <1>2, <2>1, AppendProperties
    <3> HIDE DEF in
    <3>2. QED
      BY <1>3, <2>1, <2>3, <3>1
  <2>4. QED
    BY <2>2, <2>3
<1> HIDE DEF y, q, o, in
<1>6. Edited(y, z) /\ z \in Maps /\ z.closed = y.closed /\ z.retiring = y.retiring
  <2>1. None \in Owners \cup {None} /\ 0 \in 0..setup.budget
    BY Setting
  <2>2. Edited(y, z)
    BY <1>1, <1>5, <2>1, GateEdit
  <2>3. QED
    BY <1>1, <2>2 DEF Edited, Maps
<1> HIDE DEF z
<1>7. h \in Owners \cup {None}
  BY <1>5, <1>6, HeadTailProperties DEF Maps
<1> HIDE DEF h
<1>8. Edited(z, u) /\ u.closed = z.closed /\ u.retiring = z.retiring
  <2>1. z.owners \in Seq(Owners) /\ 0 \in 0..setup.budget /\ (Len(z.owners) <= setup.capacity => Len(z.owners) <= setup.capacity)
    BY <1>6, Setting DEF Maps
  <2>2. Edited(z, u)
    BY <1>6, <1>7, <2>1, GateEdit
  <2>3. QED
    BY <1>6, <2>2 DEF Maps
<1> HIDE DEF u
<1>9. QED
  BY <1>1, <1>4, <1>6, <1>8, EditedChain DEF Edited

LEMMA Admitting ==
  ASSUME setup \in Setups, NEW x \in Maps, NEW i \in Ids, late \in BOOLEAN, Admission(x, i)
  PROVE  /\ Edited(x, m') /\ m'.closed = x.closed /\ m'.retiring = x.retiring /\ late' \in BOOLEAN
         /\ \/ call' = call /\ (Answered(i, "no") \/ Answered(i, "wait"))
            \/ /\ call' = [at |-> "ask", id |-> i, for |-> "load", old |-> None]
               /\ answer' = answer /\ ~Full(x)
<1>1. CASE Full(x)
  <2>1. m' = Forget(x, i[1]) /\ Answered(i, "no") /\ call' = call /\ late' = late
    BY <1>1 DEF Admission
  <2>2. Edited(x, Forget(x, i[1]))
    BY Edits
  <2>3. Forget(x, i[1]).closed = x.closed /\ Forget(x, i[1]).retiring = x.retiring
    BY DEF Forget, Maps
  <2>4. QED
    BY <2>1, <2>2, <2>3
<1>2. CASE ~Full(x) /\ setup.budget = 0
  <2>1. Edited(x, x)
    BY DEF Edited
  <2>2. QED
    BY <1>2, <2>1 DEF Admission
<1>3. CASE ~Full(x) /\ setup.budget # 0 /\ Crowded(x, i[1])
  BY <1>3, Turning DEF Admission
<1>4. CASE ~Full(x) /\ setup.budget # 0 /\ ~Crowded(x, i[1])
  <2> DEFINE y == Queued(x, i[1])
  <2>1. Edited(x, y) /\ y.closed = x.closed /\ y.retiring = x.retiring /\ y \in Maps
    BY <1>4, Queuing
  <2>2. /\ late' = FALSE
        /\ \/ m' = y /\ Answered(i, "wait") /\ call' = call
           \/ /\ y.left # 0 /\ m' = [y EXCEPT !.left = @ - 1]
              /\ call' = [at |-> "ask", id |-> i, for |-> "load", old |-> None] /\ answer' = answer
    BY <1>4 DEF Admission
  <2> HIDE DEF y
  <2>3. ASSUME y.left # 0 PROVE LET u == [y EXCEPT !.left = @ - 1] IN
                                Edited(x, u) /\ u.closed = x.closed /\ u.retiring = x.retiring
    <3> DEFINE n == y.left - 1
               u == [y EXCEPT !.left = n]
    <3>1. n \in 0..setup.budget
      <4>1. y.left \in 0..setup.budget /\ setup.budget \in Nat
        BY <2>1, Setting DEF Maps
      <4>2. QED
        BY <2>3, <4>1
    <3>2. u = [y EXCEPT !.left = @ - 1]
      OBVIOUS
    <3> HIDE DEF n
    <3>3. y.owners \in Seq(Owners) /\ None \in Owners \cup {None}
          /\ (Len(y.owners) <= setup.capacity => Len(y.owners) <= setup.capacity)
      BY <2>1 DEF Maps
    <3>4. Edited(y, u)
      BY <2>1, <3>1, <3>3, GateEdit
    <3>5. u.closed = y.closed /\ u.retiring = y.retiring
      BY <2>1 DEF Maps
    <3> HIDE DEF u
    <3>6. QED
      BY <2>1, <3>2, <3>4, <3>5, EditedChain
  <2>4. QED
    BY <1>4, <2>1, <2>2, <2>3
<1>5. QED
  BY <1>1, <1>2, <1>3, <1>4

(* What is looked up has its lease, and is not of a load that failed.      *)
LEMMA ValidSound ==
  ASSUME ManagerInv, NEW i \in Ids, ~m.closed, m.veto[i[2]] = "none", m.loads[i] # None, Valid(m.loads[i])
  PROVE  Sound(i)
<1>1. c.lease[m.loads[i]] = "held"
  BY DEF Valid, Known
<1>2. c.of[m.loads[i]] = <<i, "load">>
  BY <1>1, Stay DEF Good, Named, Gives
<1>3. KeyOf(m.loads[i]) = i[2]
  BY <1>2 DEF KeyOf
<1>4. m.loads[i] \notin tainted
  BY <1>3 DEF ManagerInv, Tainted
<1>5. QED
  BY <1>1, <1>4 DEF Sound

LEMMA VouchEdit ==
  ASSUME NEW x \in Maps, setup \in Setups, NEW t \in Tickets, NEW y \in Vouched(x, t)
  PROVE  Edited(x, y) /\ y \in Maps
<1>1. Edited(x, x)
  BY DEF Edited
<1>2. Edited(x, Requested(x, t))
  BY Edits
<1>3. QED
  BY <1>1, <1>2 DEF Vouched, Edited

LEMMA LooksUp == ASSUME ManagerInv, NEW i \in Ids, Lookup(i) PROVE ManagerInv'
<1>1. /\ At("idle") /\ seen' \subseteq Ids /\ late \in BOOLEAN /\ answer \in [Ids -> {"no", "wait", "yes"}]
      /\ UNCHANGED <<setup, c, history>> /\ finished' \subseteq Owners
      /\ \A j \in m.prepared : j[1] # i[1]
  BY DEF Lookup, ManagerInv, Sorts, history
<1>2. UNCHANGED <<finished, overlapped, marked, tainted>>
  BY <1>1 DEF history
<1>3. ASSUME NEW a \in {"no", "wait"}, Answered(i, a)
      PROVE  answer' \in [Ids -> {"no", "wait", "yes"}] /\ \A j \in Ids : answer'[j] = "yes" => answer[j] = "yes"
  BY <1>1, <1>3 DEF Answered
<1>4. CASE LookupRefused(i)
  BY <1>1, <1>2, <1>3, <1>4, Stay, IdleStep DEF LookupRefused
<1>5. ASSUME NEW x, Good(x, c, overlapped), Calm(m, x, c, overlapped), Admission(x, i),
             ~x.closed, x.veto[i[2]] = "none", x.loads[i] = None \/ i \in x.retiring
      PROVE  ManagerInv'
  <2>1. x \in Maps
    BY <1>5 DEF Good
  <2>2. /\ Edited(x, m') /\ m'.closed = x.closed /\ m'.retiring = x.retiring /\ late' \in BOOLEAN
        /\ \/ call' = call /\ (Answered(i, "no") \/ Answered(i, "wait"))
           \/ /\ call' = [at |-> "ask", id |-> i, for |-> "load", old |-> None]
              /\ answer' = answer /\ ~Full(x)
    BY <1>1, <1>5, <2>1, Stay, Admitting
  <2>3. Good(m', c, overlapped) /\ Calm(m, m', c, overlapped)
    BY <1>5, <2>2, EditedGood, CalmChain
  <2>4. CASE call' = call /\ (Answered(i, "no") \/ Answered(i, "wait"))
    BY <1>1, <1>2, <1>3, <2>2, <2>3, <2>4, IdleStep
  <2>5. CASE call' = [at |-> "ask", id |-> i, for |-> "load", old |-> None] /\ answer' = answer /\ ~Full(x)
    <3>1. ~m'.closed /\ m'.veto[i[2]] = "none" /\ (m'.loads[i] = None \/ i \in m'.retiring)
      BY <1>5, <2>2 DEF Edited
    <3>2. ~Full(m')
      BY <2>2, <2>5, FullBy DEF Edited
    <3>3. i \notin m'.prepared
      BY <1>1, <2>3 DEF Calm, Spares
    <3>4. QED
      BY <1>1, <1>2, <2>2, <2>3, <2>5, <3>1, <3>2, <3>3, AskStep
  <2>6. QED
    BY <2>2, <2>4, <2>5
<1>6. CASE LookupFresh(i)
  BY <1>5, <1>6, Stay DEF LookupFresh
<1>7. CASE LookupCached(i)
  <2> DEFINE t == m.loads[i]
  <2>1. ~m.closed /\ m.veto[i[2]] = "none" /\ i \notin m.retiring /\ t # None /\ t \in Tickets
    BY <1>7, Stay DEF LookupCached, Maps
  <2>2. CASE /\ Valid(t) /\ m' \in Vouched(m, t) /\ Answered(i, "yes") /\ UNCHANGED <<call, late>>
    <3>1. Good(m', c, overlapped) /\ Calm(m, m', c, overlapped)
      BY <2>1, <2>2, Stay, VouchEdit, EditedGood
    <3>2. Sound(i)
      BY <2>1, <2>2, ValidSound
    <3>3. answer' \in [Ids -> {"no", "wait", "yes"}] /\ \A j \in Ids : answer'[j] = "yes" => answer[j] = "yes" \/ Sound(j)
      BY <1>1, <2>2, <3>2 DEF Answered
    <3>4. QED
      BY <1>1, <1>2, <2>2, <3>1, <3>3, IdleStep
  <2>3. CASE Uncertain(m, i) /\ UNCHANGED <<call, late>>
    BY <1>1, <1>2, <2>1, <2>3, Stay, Uncertainty, IdleStep
  <2>4. CASE \E x \in Stale(m, i) : Admission(x, i)
    BY <1>5, <2>1, <2>4, Stay, Stales
  <2>5. QED
    BY <1>7, <2>2, <2>3, <2>4 DEF LookupCached
<1>8. QED
  BY <1>4, <1>6, <1>7 DEF Lookup

LEMMA PreparesStore == ASSUME ManagerInv, NEW i \in Ids, PrepareStore(i) PROVE ManagerInv'
<1> DEFINE t == m.loads[i]
           usable == i \notin m.retiring /\ t # None /\ Valid(t)
<1>1. /\ answer' \in [Ids -> {"no", "wait", "yes"}] /\ \A j \in Ids : answer'[j] # "yes"
      /\ UNCHANGED <<setup, c, seen, late, finished, overlapped, marked, tainted>> /\ At("idle")
      /\ seen' \subseteq Ids /\ late' \in BOOLEAN /\ finished' \subseteq Owners
  BY Stepped DEF PrepareStore, history, ManagerInv, Sorts
<1>2. ~m.closed /\ m.stores[i] = None /\ m.veto[i[2]] = "none" /\ ~Full(m)
  BY DEF PrepareStore
<1>3. CASE usable /\ (\E x \in Vouched(m, t) : m' \in Dispatched(x)) /\ UNCHANGED call
  <2>1. PICK x \in Vouched(m, t) : m' \in Dispatched(x)
    BY <1>3
  <2>2. t \in Tickets
    BY <1>3, Stay DEF Maps
  <2>3. Edited(m, x)
    BY <2>1, <2>2, Stay, VouchEdit
  <2>4. Good(m', c, overlapped) /\ Calm(m, m', c, overlapped)
    BY <2>1, <2>3, Stay, EditDispatch
  <2>5. QED
    BY <1>1, <1>3, <2>4, IdleStep
<1>4. CASE /\ m' = IF t = None THEN m ELSE Requested(m, t)
           /\ call' = [at |-> "ask", id |-> i, for |-> IF t = None THEN "probe" ELSE "store", old |-> None]
  <2>1. Edited(m, m') /\ m'.closed = m.closed
    <3>1. CASE t = None
      BY <1>4, <3>1, Stay
    <3>2. CASE t # None
      <4>1. t \in Tickets
        BY <3>2, Stay DEF Maps
      <4>2. Edited(m, Requested(m, t)) /\ Requested(m, t).closed = m.closed
        <5>1. Edited(m, Requested(m, t))
          BY <4>1, Stay, Edits
        <5>2. Requested(m, t).closed = m.closed
          BY Stay DEF Requested, Maps
        <5>3. QED
          BY <5>1, <5>2
      <4>3. QED
        BY <1>4, <3>2, <4>2
    <3>3. QED
      BY <3>1, <3>2
  <2>2. Good(m', c, overlapped) /\ Calm(m, m', c, overlapped)
    BY <2>1, Stay, EditedGood
  <2>3. ~m'.closed /\ m'.veto[i[2]] = "none" /\ m'.stores[i] = None /\ m'.loads[i] = m.loads[i] /\ ~Full(m')
    BY <1>2, <2>1, FullBy DEF Edited
  <2>4. QED
    <3>1. CASE t = None
      BY <1>1, <1>4, <2>2, <2>3, <3>1, AskStep
    <3>2. CASE t # None
      BY <1>1, <1>4, <2>2, <2>3, <3>2, AskStep
    <3>3. QED
      BY <3>1, <3>2
<1>5. QED
  BY <1>3, <1>4 DEF PrepareStore

-----------------------------------------------------------------------------
(* The coordinator gives up leases and takes vetoes, in its own time.      *)
Fades(cc, dd) ==
  /\ Books(dd)
  /\ \A t \in Tickets : dd.lease[t] # "none" => cc.lease[t] # "none" /\ dd.of[t] = cc.of[t]

LEMMA FadesGood ==
  ASSUME NEW x, NEW cc, NEW dd, NEW ov, Good(x, cc, ov), Fades(cc, dd)
  PROVE  Good(x, dd, ov)
<1>1. ASSUME NEW t \in Tickets, NEW i, NEW kind, Gives(cc, t, i, kind) PROVE Gives(dd, t, i, kind)
  BY <1>1 DEF Gives, Fades
<1>2. x \in Maps
  BY DEF Good
<1>3. Named(x, dd)
  <2>1. ASSUME NEW i \in Ids
        PROVE  /\ x.loads[i] # None => Gives(dd, x.loads[i], i, "load")
               /\ x.stores[i] # None => Gives(dd, x.stores[i], i, "store")
    <3>1. x.loads[i] \in Tickets \cup {None} /\ x.stores[i] \in Tickets \cup {None}
      BY <1>2 DEF Maps
    <3>2. QED
      BY <1>1, <3>1 DEF Good, Named
  <2>2. QED
    BY <2>1 DEF Named
<1>4. Kept(x, dd, ov)
  BY DEF Good, Kept, Fades
<1>5. Futures(x, dd, ov)
  <2>1. ASSUME NEW f \in x.futures PROVE FutureOK(f, x, dd, ov)
    <3>1. FutureOK(f, x, cc, ov)
      BY DEF Good, Futures
    <3>2. f.kind \in Kinds /\ f.at = "done" /\ f.ack => dd.lease[f.ticket] = "none"
      BY <3>1 DEF FutureOK, Fades, Kinds
    <3>3. f.kind \in Kinds => Gives(dd, f.ticket, f.on, f.kind)
      BY <1>1, <3>1 DEF FutureOK, Kinds
    <3>4. QED
      BY <3>1, <3>2, <3>3 DEF FutureOK, Kinds
  <2>2. QED
    BY <2>1 DEF Good, Futures
<1>6. QED
  BY <1>3, <1>4, <1>5 DEF Good

LEMMA DrainedFacts ==
  ASSUME NEW x, Books(x), NEW k \in Keys, NEW p
  PROVE  LET y == Drained(x, k, p) IN Books(y) /\ y.lease = x.lease /\ y.of = x.of /\ y.index = x.index
<1> DEFINE z == [x EXCEPT !.vetoed = @ \ {k}, !.acked = @ \ {k}]
<1>1. x \in Coordinators /\ (Drained(x, k, p) = x \/ Drained(x, k, p) = z)
  BY DEF Books, Drained
<1>2. /\ z \in Coordinators /\ z.lease = x.lease /\ z.of = x.of /\ z.index = x.index
      /\ z.vetoed = x.vetoed \ {k} /\ z.acked = x.acked \ {k}
  BY <1>1 DEF Coordinators
<1> HIDE DEF z
<1>3. Books(z)
  BY <1>2 DEF Books
<1>4. QED
  BY <1>1, <1>2, <1>3

LEMMA InvalidFacts ==
  ASSUME NEW x, Books(x), NEW k \in Keys, NEW a \in BOOLEAN
  PROVE  LET y == Invalid(x, k, a) IN Books(y) /\ y.lease = x.lease /\ y.of = x.of /\ y.index = x.index
<1> DEFINE y == Invalid(x, k, a)
<1>1. /\ y \in Coordinators /\ y.lease = x.lease /\ y.of = x.of /\ y.index = x.index
      /\ y.vetoed = x.vetoed \cup {k} /\ y.acked = IF a THEN x.acked \cup {k} ELSE x.acked
  BY DEF Books, Coordinators, Invalid
<1> HIDE DEF y
<1>2. Books(y)
  BY <1>1 DEF Books
<1>3. QED
  BY <1>1, <1>2 DEF y

LEMMA RetiredFacts ==
  ASSUME NEW x, Books(x), NEW t \in Tickets
  PROVE  LET y == Retired(x, t) IN
         /\ Books(y) /\ y.of = x.of /\ y.index = x.index
         /\ \A s \in Tickets : (s # t => y.lease[s] = x.lease[s]) /\ (y.lease[s] = "none" <=> x.lease[s] = "none")
<1> DEFINE y == Retired(x, t)
<1>1. /\ y \in Coordinators /\ y.of = x.of /\ y.index = x.index /\ y.vetoed = x.vetoed /\ y.acked = x.acked
      /\ \A s \in Tickets : y.lease[s] = IF s = t /\ x.lease[s] = "held" THEN "retiring" ELSE x.lease[s]
  BY DEF Books, Coordinators, Retired
<1> HIDE DEF y
<1>2. \A s \in Tickets : (s # t => y.lease[s] = x.lease[s]) /\ (y.lease[s] = "none" <=> x.lease[s] = "none")
  BY <1>1
<1>3. \A w \in Ids \X Kinds : x.index[w] \in Tickets \cup {None}
  BY DEF Books, Coordinators
<1>4. Books(y)
  BY <1>1, <1>2, <1>3 DEF Books
<1>5. QED
  BY <1>1, <1>2, <1>4 DEF y

LEMMA GoneFacts ==
  ASSUME NEW x, Books(x), NEW t \in Tickets, x.lease[t] # "none"
  PROVE  LET y == Gone(x, t) IN
         /\ Books(y) /\ y.lease[t] = "none"
         /\ \A s \in Tickets : s # t => y.lease[s] = x.lease[s] /\ y.of[s] = x.of[s]
<1> DEFINE z == [x EXCEPT !.lease[t] = "none", !.of[t] = None, !.over = @ \ {t}, !.index[x.of[t]] = None]
           k == x.of[t][1][2]
<1>1. x \in Coordinators /\ x.of[t] \in Ids \X Kinds
  BY DEF Books, Coordinators
<1>2. k \in Keys
  BY <1>1 DEF Ids
<1>3. /\ z \in Coordinators /\ z.vetoed = x.vetoed /\ z.acked = x.acked /\ z.lease[t] = "none"
      /\ \A s \in Tickets : s # t => z.lease[s] = x.lease[s] /\ z.of[s] = x.of[s]
      /\ \A w \in Ids \X Kinds : z.index[w] = IF w = x.of[t] THEN None ELSE x.index[w]
  BY <1>1 DEF Coordinators
<1>4. Gone(x, t) = Drained(z, k, Pends(k))
  BY DEF Gone
<1> HIDE DEF z, k
<1>5. Books(z)
  <2>1. \A s \in Tickets : z.lease[s] # "none" => z.of[s] \in Ids \X Kinds
    BY <1>3 DEF Books
  <2>2. ASSUME NEW w \in Ids \X Kinds, z.index[w] # None
        PROVE  z.lease[z.index[w]] # "none" /\ z.of[z.index[w]] = w
    <3>1. w # x.of[t] /\ z.index[w] = x.index[w] /\ x.index[w] \in Tickets
      BY <1>1, <1>3, <2>2 DEF Coordinators
    <3>2. x.lease[x.index[w]] # "none" /\ x.of[x.index[w]] = w
      BY <2>2, <3>1 DEF Books
    <3>3. QED
      BY <1>3, <3>1, <3>2
  <2>3. QED
    BY <1>3, <2>1, <2>2 DEF Books
<1>6. QED
  BY <1>2, <1>3, <1>4, <1>5, DrainedFacts

-----------------------------------------------------------------------------
(* Steps of the executor.                                                  *)
SameMaps(x, y) ==
  /\ y \in Maps
  /\ y.loads = x.loads /\ y.stores = x.stores /\ y.retiring = x.retiring /\ y.retiringStores = x.retiringStores
  /\ y.prepared = x.prepared /\ y.veto = x.veto /\ y.closed = x.closed /\ y.owners = x.owners

LEMMA FutureStep ==
  ASSUME setup \in Setups, NEW x, NEW cc, NEW ov, Good(x, cc, ov), NEW f \in x.futures,
         NEW g \in Future, g.kind = f.kind, g.on = f.on, g.ticket = f.ticket, FutureOK(g, x, cc, ov)
  PROVE  LET y == [x EXCEPT !.futures = (@ \ {f}) \cup {g}] IN
         Good(y, cc, ov) /\ SameMaps(x, y) /\ y.futures = (x.futures \ {f}) \cup {g}
<1> DEFINE y == [x EXCEPT !.futures = (@ \ {f}) \cup {g}]
<1>1. x \in Maps /\ Futures(x, cc, ov) /\ Fits(x) /\ Distinct(x) /\ Named(x, cc) /\ Kept(x, cc, ov)
  BY DEF Good
<1>2. SameMaps(x, y) /\ y.futures = (x.futures \ {f}) \cup {g}
  BY <1>1 DEF Maps, SameMaps
<1> HIDE DEF y
<1>3. Futures(y, cc, ov)
  <2>1. \A e : FutureOK(e, x, cc, ov) => FutureOK(e, y, cc, ov)
    BY <1>2 DEF FutureOK, SameMaps
  <2>2. Single(y.futures)
    BY <1>1, <1>2 DEF Futures, Single
  <2>3. IsFiniteSet(y.futures) /\ Cardinality(y.futures) <= Submitted
    <3>1. IsFiniteSet(x.futures) /\ Cardinality(x.futures) \in Nat /\ Cardinality(x.futures) <= Submitted
      BY <1>1, FS_CardinalityType DEF Futures
    <3>2. IsFiniteSet(x.futures \ {f}) /\ Cardinality(x.futures \ {f}) = Cardinality(x.futures) - 1
      BY <3>1, FS_RemoveElement
    <3>3. g \notin x.futures \ {f}
      BY <1>1 DEF Futures, Single
    <3>4. IsFiniteSet((x.futures \ {f}) \cup {g})
          /\ Cardinality((x.futures \ {f}) \cup {g}) = Cardinality(x.futures \ {f}) + 1
      BY <3>2, <3>3, FS_AddElement
    <3>5. QED
      BY <1>2, <3>1, <3>2, <3>4
  <2>4. QED
    BY <1>1, <1>2, <2>1, <2>2, <2>3 DEF Futures
<1>4. Distinct(y) /\ Named(y, cc) /\ Kept(y, cc, ov)
  BY <1>1, <1>2 DEF Distinct, Named, Kept, SameMaps
<1>5. Fits(y)
  <2>1. Owned(y, "loads") = Owned(x, "loads") /\ Owned(y, "stores") = Owned(x, "stores") /\ Vetoed(y) = Vetoed(x)
    BY <1>2 DEF Owned, Vetoed, SameMaps
  <2>2. QED
    BY <1>1, <1>2, <2>1 DEF Fits, SameMaps
<1>6. QED
  BY <1>2, <1>3, <1>4, <1>5 DEF Good, SameMaps, y

LEMMA WorldStep ==
  ASSUME ManagerInv, UNCHANGED <<setup, call, answer, seen, late, finished, overlapped, marked>>,
         Fades(c, c'), Good(m', c', overlapped), SameMaps(m, m'),
         \A f \in m'.futures : \E g \in m.futures : g.kind = f.kind /\ g.on = f.on,
         \A i \in Ids \ overlapped :
           m.loads[i] # None /\ c.lease[m.loads[i]] = "held" /\ (\A f \in m.futures : f.kind = "load" => f.on # i)
             => c'.lease[m.loads[i]] = "held",
         \A t \in tainted' : t \in tainted /\ c'.lease[t] # "none"
  PROVE  ManagerInv'
<1>1. /\ m'.loads = m.loads /\ m'.stores = m.stores /\ m'.retiring = m.retiring
      /\ m'.retiringStores = m.retiringStores /\ m'.prepared = m.prepared /\ m'.veto = m.veto /\ m'.closed = m.closed
  BY DEF SameMaps
<1>2. Sorts'
  BY DEF ManagerInv, Sorts
<1>3. Promised'
  <2> SUFFICES ASSUME NEW i \in Ids, i \notin m.retiring, i \notin overlapped, answer[i] = "yes", m.loads[i] # None
               PROVE  c'.lease[m.loads[i]] = "held"
    BY <1>1 DEF Promised
  <2>1. c.lease[m.loads[i]] = "held"
    BY DEF ManagerInv, Promised
  <2>2. \A f \in m.futures : f.kind = "load" => f.on # i
    BY Stay DEF Good, Futures, FutureOK
  <2>3. QED
    BY <2>1, <2>2
<1>4. Prepared'
  <2> SUFFICES ASSUME NEW i \in m.prepared, i \notin marked, i \notin overlapped
               PROVE  /\ m.loads[i] # None /\ c'.lease[m.loads[i]] = "held"
                      /\ \A f \in m'.futures : f.kind = "load" => f.on # i
    BY <1>1 DEF Prepared
  <2>1. /\ i \in Ids /\ m.loads[i] # None /\ c.lease[m.loads[i]] = "held"
        /\ \A f \in m.futures : f.kind = "load" => f.on # i
    BY Stay DEF ManagerInv, Prepared, Maps
  <2>2. QED
    BY <2>1
<1>5. Tainted'
  <2>1. ASSUME NEW t \in tainted'
        PROVE  /\ t \in Tickets /\ c'.lease[t] # "none"
               /\ m'.closed \/ (m'.veto[c'.of[t][1][2]] # "none" /\ \E i \in Ids : m'.loads[i] = t)
    BY <1>1 DEF ManagerInv, Tainted, Fades, Live, KeyOf
  <2>2. \A i \in Ids : answer'[i] = "yes" => m'.loads[i] \notin tainted'
    BY <1>1 DEF ManagerInv, Tainted
  <2>3. QED
    BY <2>1, <2>2 DEF Tainted, Live, KeyOf
<1>6. Calling'
  <2>1. Full(m)' <=> Full(m)
    BY <1>1 DEF Full, Owned, Vetoed
  <2>2. call.at = "vouch" => Gives(c', call.old, Wanted[1], Wanted[2])
    BY DEF ManagerInv, Calling, Gives, Fades
  <2>3. Wanted' = Wanted
    BY DEF Wanted
  <2>4. QED
    BY <1>1, <2>1, <2>2, <2>3 DEF ManagerInv, Calling, Gives
<1>7. Draining'
  BY <1>1 DEF ManagerInv, Draining
<1>8. Good(m, c, overlapped)' /\ Books(c)'
  BY SameWorld DEF Fades, Books, Coordinators
<1>9. QED
  BY <1>2, <1>3, <1>4, <1>5, <1>6, <1>7, <1>8 DEF ManagerInv

LEMMA ExecutorStep ==
  ASSUME ManagerInv, UNCHANGED <<setup, call, answer, seen, late, finished, overlapped, marked>>,
         NEW f \in m.futures, NEW g \in Future, g.kind = f.kind, g.on = f.on, g.ticket = f.ticket, Became(f, g),
         Fades(c, c'),
         g.kind \in Kinds /\ g.at = "done" /\ g.ack => c'.lease[g.ticket] = "none",
         g.kind \notin Kinds => g.at # "running",
         \A t \in Tickets : c'.lease[t] # c.lease[t] => f.kind \in Kinds /\ t = f.ticket,
         \A t \in tainted' : t \in tainted /\ c'.lease[t] # "none"
  PROVE  ManagerInv'
<1>1. Good(m, c', overlapped) /\ FutureOK(f, m, c', overlapped) /\ FutureOK(f, m, c, overlapped)
  BY Stay, FadesGood DEF Good, Futures
<1>2. FutureOK(g, m, c', overlapped)
  BY <1>1 DEF FutureOK
<1>3. Good(m', c', overlapped) /\ SameMaps(m, m') /\ m'.futures = (m.futures \ {f}) \cup {g}
  BY <1>1, <1>2, Stay, FutureStep DEF Became
<1>4. \A e \in m'.futures : \E h \in m.futures : h.kind = e.kind /\ h.on = e.on
  BY <1>3
<1>5. ASSUME NEW i \in Ids, m.loads[i] # None, c.lease[m.loads[i]] = "held", \A h \in m.futures : h.kind = "load" => h.on # i
      PROVE  c'.lease[m.loads[i]] = "held"
  <2>1. m.loads[i] \in Tickets /\ c.of[m.loads[i]] = <<i, "load">>
    BY <1>5, Stay DEF Good, Named, Gives, Maps
  <2>2. f.kind = "load" => f.ticket # m.loads[i]
    BY <1>1, <1>5, <2>1 DEF FutureOK, Gives
  <2>3. f.kind = "store" => f.ticket # m.loads[i]
    BY <1>1, <1>5, Stay DEF FutureOK, Good, Distinct
  <2>4. QED
    BY <1>5, <2>1, <2>2, <2>3 DEF Kinds
<1>6. QED
  BY <1>3, <1>4, <1>5, WorldStep

(* A step that leaves maps, futures or leases alone.                       *)
LEMMA Unmoved ==
  ASSUME ManagerInv
  PROVE  /\ Fades(c, c) /\ \A t \in tainted : c.lease[t] # "none"
         /\ \A f \in m.futures : f \in Future /\ FutureOK(f, m, c, overlapped)
BY Stay DEF ManagerInv, Fades, Tainted, Live, Good, Futures, Maps

LEMMA Expiry == ASSUME ManagerInv, NEW t \in Tickets, Expires(t) PROVE ManagerInv'
<1>1. c' \in Coordinators /\ c'.lease = c.lease /\ c'.of = c.of /\ c'.index = c.index
      /\ c'.vetoed = c.vetoed /\ c'.acked = c.acked
  BY DEF ManagerInv, Books, Coordinators, Expires
<1>2. Fades(c, c')
  BY <1>1 DEF ManagerInv, Books, Fades
<1>3. Good(m', c', overlapped) /\ SameMaps(m, m')
  BY <1>2, Stay, FadesGood DEF Expires, SameMaps
<1>4. QED
  BY <1>1, <1>2, <1>3, Unmoved, WorldStep DEF Expires, history

LEMMA BeginsRelease == ASSUME ManagerInv, NEW f \in m.futures, ReleaseBegins(f) PROVE ManagerInv'
<1> DEFINE g == [f EXCEPT !.at = "running"]
<1>1. f \in Future /\ f.kind \in Kinds /\ f.ticket \in Tickets /\ Became(f, g)
      /\ UNCHANGED <<setup, call, answer, seen, late, finished, overlapped, marked, tainted>>
      /\ c' = IF f.kind = "load" THEN Retired(c, f.ticket) ELSE c
  BY Unmoved DEF ReleaseBegins, history, FutureOK, Kinds
<1>2. g \in Future /\ g.kind = f.kind /\ g.on = f.on /\ g.ticket = f.ticket /\ g.at = "running"
  BY <1>1 DEF Future
<1> HIDE DEF g
<1>3. /\ Fades(c, c')
      /\ \A s \in Tickets : (s # f.ticket => c'.lease[s] = c.lease[s]) /\ (c'.lease[s] = "none" <=> c.lease[s] = "none")
  <2>1. CASE f.kind = "load"
    <3>1. /\ Books(c') /\ c'.of = c.of
          /\ \A s \in Tickets : (s # f.ticket => c'.lease[s] = c.lease[s]) /\ (c'.lease[s] = "none" <=> c.lease[s] = "none")
      BY <1>1, <2>1, RetiredFacts DEF ManagerInv
    <3>2. QED
      BY <3>1 DEF Fades
  <2>2. CASE f.kind # "load"
    BY <1>1, <2>2, Unmoved
  <2>3. QED
    BY <2>1, <2>2
<1>4. \A t \in tainted' : t \in tainted /\ t \in Tickets /\ c.lease[t] # "none"
  BY <1>1 DEF ManagerInv, Tainted, Live
<1>5. QED
  BY <1>1, <1>2, <1>3, <1>4, ExecutorStep

LEMMA EndsRelease == ASSUME ManagerInv, NEW f \in m.futures, NEW ack \in BOOLEAN, ReleaseEnds(f, ack) PROVE ManagerInv'
<1> DEFINE g == Done(f, ack)
           t == f.ticket
<1>1. f \in Future /\ f.kind \in Kinds /\ t \in Tickets /\ Became(f, g)
      /\ UNCHANGED <<setup, call, answer, seen, late, finished, overlapped, marked>> /\ Surviving
  BY Unmoved DEF ReleaseEnds, FutureOK, Kinds
<1>2. g \in Future /\ g.kind = f.kind /\ g.on = f.on /\ g.ticket = t /\ g.at = "done" /\ g.ack = ack
  BY <1>1 DEF Future, Done
<1>3. PICK x \in Doubts(c, g) :
        IF ack THEN c' = IF x.lease[t] # "none" THEN Gone(x, t) ELSE x
               ELSE c' \in {x, Retired(x, t)}
  BY DEF ReleaseEnds
<1>4. Books(x) /\ x.lease = c.lease /\ x.of = c.of
  <2>1. g.kind = "store" => g.on[2] \in Keys
    BY <1>2, Unmoved DEF FutureOK, Ids
  <2> HIDE DEF g
  <2>2. x = c \/ (g.kind = "store" /\ x = Invalid(c, g.on[2], TRUE)) \/ (g.kind = "store" /\ x = Invalid(c, g.on[2], g.ack))
    BY DEF Doubts
  <2>3. Books(c) /\ g.ack \in BOOLEAN
    BY <1>2 DEF ManagerInv
  <2>4. ASSUME NEW a \in BOOLEAN, g.kind = "store", x = Invalid(c, g.on[2], a)
        PROVE  Books(x) /\ x.lease = c.lease /\ x.of = c.of
    BY <2>1, <2>3, <2>4, InvalidFacts
  <2>5. QED
    BY <2>2, <2>3, <2>4
<1> HIDE DEF g, t
<1>5. /\ Fades(c, c') /\ \A s \in Tickets : s # t => c'.lease[s] = c.lease[s]
      /\ ack => c'.lease[t] = "none"
  <2>1. CASE c' = x /\ (ack => x.lease[t] = "none")
    BY <1>4, <2>1 DEF Fades
  <2>2. CASE c' = Gone(x, t) /\ x.lease[t] # "none"
    <3>1. /\ Books(c') /\ c'.lease[t] = "none"
          /\ \A s \in Tickets : s # t => c'.lease[s] = x.lease[s] /\ c'.of[s] = x.of[s]
      BY <1>1, <1>4, <2>2, GoneFacts
    <3>2. QED
      BY <1>4, <3>1 DEF Fades
  <2>3. CASE c' = Retired(x, t) /\ ~ack
    <3>1. /\ Books(c') /\ c'.of = x.of
          /\ \A s \in Tickets : (s # t => c'.lease[s] = x.lease[s]) /\ (c'.lease[s] = "none" <=> x.lease[s] = "none")
      BY <1>1, <1>4, <2>3, RetiredFacts
    <3>2. QED
      BY <1>4, <2>3, <3>1 DEF Fades
  <2>4. QED
    BY <1>3, <2>1, <2>2, <2>3
<1>6. \A s \in tainted' : s \in tainted /\ c'.lease[s] # "none"
  BY <1>1 DEF Surviving
<1>7. QED
  BY <1>1, <1>2, <1>5, <1>6, ExecutorStep DEF t

LEMMA EndsRenewal == ASSUME ManagerInv, NEW f \in m.futures, NEW ack \in BOOLEAN, RenewEnds(f, ack) PROVE ManagerInv'
<1> DEFINE g == Done(f, ack)
<1>1. f \in Future /\ f.kind = "renew" /\ Became(f, g)
      /\ UNCHANGED <<setup, call, answer, seen, late, finished, overlapped, marked, tainted>>
  BY Unmoved DEF RenewEnds, history
<1>2. g \in Future /\ g.kind = f.kind /\ g.on = f.on /\ g.ticket = f.ticket /\ g.at = "done"
  BY <1>1 DEF Future, Done
<1> HIDE DEF g
<1>3. c' \in Coordinators /\ c'.lease = c.lease /\ c'.of = c.of /\ c'.index = c.index
      /\ c'.vetoed = c.vetoed /\ c'.acked = c.acked
  BY DEF ManagerInv, Books, Coordinators, RenewEnds
<1>4. Fades(c, c')
  BY <1>3 DEF ManagerInv, Books, Fades
<1>5. g.kind \notin Kinds
  BY <1>1, <1>2 DEF Kinds
<1>6. QED
  BY <1>1, <1>2, <1>3, <1>4, <1>5, Unmoved, ExecutorStep

LEMMA EndsInvalidation ==
  ASSUME ManagerInv, NEW f \in m.futures, NEW ack \in BOOLEAN, InvalidateEnds(f, ack) PROVE ManagerInv'
<1> DEFINE g == Done(f, ack)
           k == f.on
<1>1. f \in Future /\ f.kind = "invalidate" /\ k \in Keys /\ Became(f, g)
      /\ UNCHANGED <<setup, call, answer, seen, late, finished, overlapped, marked, tainted>>
      /\ c' = Drained(Invalid(c, k, ack), k, Pends(k))
  BY Unmoved DEF InvalidateEnds, history, FutureOK
<1>2. g \in Future /\ g.kind = f.kind /\ g.on = f.on /\ g.ticket = f.ticket /\ g.at = "done"
  BY <1>1 DEF Future, Done
<1> HIDE DEF g, k
<1>3. Books(c') /\ c'.lease = c.lease /\ c'.of = c.of
  <2>1. Books(Invalid(c, k, ack)) /\ Invalid(c, k, ack).lease = c.lease /\ Invalid(c, k, ack).of = c.of
    BY <1>1, InvalidFacts DEF ManagerInv
  <2>2. QED
    BY <1>1, <2>1, DrainedFacts
<1>4. Fades(c, c')
  BY <1>3 DEF Fades
<1>5. g.kind \notin Kinds
  BY <1>1, <1>2 DEF Kinds
<1>6. QED
  BY <1>1, <1>2, <1>3, <1>4, <1>5, Unmoved, ExecutorStep

LEMMA Executes == ManagerInv /\ Executor => ManagerInv'
BY BeginsRelease, EndsRelease, EndsRenewal, EndsInvalidation DEF Executor

-----------------------------------------------------------------------------
(* _reserve(): first the coordinator's answer goes into the maps, n, then  *)
(* the method goes on.                                                     *)
Settled(n) ==
  /\ Good(n, c', overlapped') /\ Books(c')
  /\ \A i \in Ids \ (n.retiring \cup overlapped') :
       answer'[i] = "yes" /\ n.loads[i] # None => c'.lease[n.loads[i]] = "held"
  /\ \A i \in n.prepared \ (marked' \cup overlapped') :
       /\ n.loads[i] # None /\ c'.lease[n.loads[i]] = "held"
       /\ \A f \in n.futures : f.kind = "load" => f.on # i
  /\ \A t \in tainted' : /\ t \in Tickets /\ c'.lease[t] # "none"
                         /\ n.closed \/ (n.veto[c'.of[t][1][2]] # "none" /\ \E i \in Ids : n.loads[i] = t)
  /\ \A i \in Ids : answer'[i] = "yes" => n.loads[i] \notin tainted'

LEMMA Returns ==
  ASSUME setup \in Setups, setup' = setup, NEW n, Settled(n), Good(m', c', overlapped'), Calm(n, m', c', overlapped'),
         Sorts', Calling', Draining'
  PROVE  ManagerInv'
<1>1. m' \in Maps /\ n \in Maps /\ Onward(n, m', c', overlapped') /\ Spares(n, m')
  BY DEF Good, Calm, Settled
<1>2. Promised'
  <2> SUFFICES ASSUME NEW i \in Ids, i \notin m'.retiring, i \notin overlapped', answer'[i] = "yes", m'.loads[i] # None
               PROVE  c'.lease[m'.loads[i]] = "held"
    BY DEF Promised
  <2>1. m'.loads[i] = n.loads[i] /\ i \notin n.retiring
    BY <1>1 DEF Onward
  <2>2. QED
    BY <2>1 DEF Settled
<1>3. Prepared'
  <2> SUFFICES ASSUME NEW i \in m'.prepared, i \notin marked', i \notin overlapped'
               PROVE  /\ m'.loads[i] # None /\ c'.lease[m'.loads[i]] = "held"
                      /\ \A f \in m'.futures : f.kind = "load" => f.on # i
    BY DEF Prepared
  <2>1. i \in n.prepared /\ n.loads[i] # None /\ c'.lease[n.loads[i]] = "held" /\ i \in Ids
        /\ \A f \in n.futures : f.kind = "load" => f.on # i
    BY <1>1 DEF Settled, Spares, Maps
  <2>2. QED
    BY <1>1, <2>1 DEF Onward, Spares
<1>4. ASSUME NEW t \in tainted'
      PROVE  /\ t \in Tickets /\ c'.lease[t] # "none"
             /\ m'.closed \/ (m'.veto[c'.of[t][1][2]] # "none" /\ \E i \in Ids : m'.loads[i] = t)
  <2>1. t \in Tickets /\ c'.lease[t] # "none"
        /\ (n.closed \/ (n.veto[c'.of[t][1][2]] # "none" /\ \E i \in Ids : n.loads[i] = t))
    BY DEF Settled
  <2>2. CASE n.closed
    BY <1>1, <2>1, <2>2 DEF Onward
  <2>3. CASE ~n.closed
    <3>1. PICK i \in Ids : n.loads[i] = t
      BY <2>1, <2>3
    <3>2. m'.loads[i] = t /\ t # None
      BY <1>1, <2>1, <3>1, NoneAssumption DEF Onward
    <3>3. c'.of[t][1][2] \in Keys
      <4>1. c'.of[t] \in Ids \X Kinds
        BY <2>1 DEF Settled, Books, Coordinators
      <4>2. QED
        BY <4>1 DEF Ids
    <3>4. QED
      BY <1>1, <2>1, <2>3, <3>1, <3>2, <3>3 DEF Onward
  <2>4. QED
    BY <2>2, <2>3
<1>5. ASSUME NEW i \in Ids, answer'[i] = "yes" PROVE m'.loads[i] \notin tainted'
  <2>1. None \notin tainted'
    BY <1>4, NoneAssumption
  <2>2. QED
    BY <1>1, <1>5, <2>1 DEF Settled, Onward
<1>6. Tainted'
  BY <1>4, <1>5 DEF Tainted, Live, KeyOf
<1>7. Good(m, c, overlapped)' /\ Books(c)'
  BY SameWorld DEF Settled, Books, Coordinators
<1>8. QED
  BY <1>2, <1>3, <1>6, <1>7 DEF ManagerInv

(* Nothing is granted.                                                     *)
LEMMA Faded ==
  ASSUME ManagerInv, Fades(c, c'), UNCHANGED <<overlapped, marked>>, Surviving,
         \A i \in Ids : m.loads[i] # None /\ c.lease[m.loads[i]] = "held" /\ (i \notin m.retiring \/ i \in m.prepared)
                          => c'.lease[m.loads[i]] = "held",
         \A i \in Ids : answer'[i] = "yes" => answer[i] = "yes"
  PROVE  Settled(m)
<1>1. Good(m, c', overlapped') /\ Books(c')
  BY Stay, FadesGood DEF Fades
<1>2. \A i \in Ids \ (m.retiring \cup overlapped') :
        answer'[i] = "yes" /\ m.loads[i] # None => c'.lease[m.loads[i]] = "held"
  BY DEF ManagerInv, Promised
<1>3. ASSUME NEW i \in m.prepared, i \notin marked, i \notin overlapped
      PROVE  /\ m.loads[i] # None /\ c'.lease[m.loads[i]] = "held"
             /\ \A f \in m.futures : f.kind = "load" => f.on # i
  <2>1. i \in Ids
    BY Stay DEF Maps
  <2>2. QED
    BY <1>3, <2>1 DEF ManagerInv, Prepared
<1>4. \A t \in tainted' : /\ t \in Tickets /\ c'.lease[t] # "none"
                          /\ m.closed \/ (m.veto[c'.of[t][1][2]] # "none" /\ \E i \in Ids : m.loads[i] = t)
  BY DEF Surviving, ManagerInv, Tainted, KeyOf, Fades
<1>5. \A i \in Ids : answer'[i] = "yes" => m.loads[i] \notin tainted'
  BY DEF Surviving, ManagerInv, Tainted
<1>6. QED
  BY <1>1, <1>2, <1>3, <1>4, <1>5 DEF Settled

(* A ticket of w is renewed, or granted.                                   *)
Grants(t, w) ==
  /\ Books(c') /\ c'.lease[t] = "held" /\ c'.of[t] = w
  /\ \A s \in Tickets : s # t => c'.lease[s] = c.lease[s] /\ c'.of[s] = c.of[s]
  /\ (c.lease[t] # "none" /\ c.of[t] = w) \/ (c.lease[t] = "none" /\ t \in Spare)

LEMMA Placed ==
  ASSUME ManagerInv, NEW t \in Tickets, NEW w \in Ids \X Kinds, Grants(t, w)
  PROVE  /\ \A i \in Ids : (m.loads[i] = t => w = <<i, "load">>) /\ (m.stores[i] = t => w = <<i, "store">>)
         /\ \A f \in m.futures :
              /\ f.kind \in Kinds => Gives(c', f.ticket, f.on, f.kind)
              /\ f.kind \in Kinds /\ f.at = "done" /\ f.ack => c'.lease[f.ticket] = "none"
         /\ \A i \in Ids : /\ m.loads[i] # None => Gives(c', m.loads[i], i, "load")
                           /\ m.stores[i] # None => Gives(c', m.stores[i], i, "store")
<1>1. \A i \in Ids : (m.loads[i] = t => w = <<i, "load">>) /\ (m.stores[i] = t => w = <<i, "store">>)
  <2> TAKE i \in Ids
  <2>1. t # None
    BY NoneAssumption
  <2>2. QED
    BY <2>1, Stay DEF Good, Named, Gives, Grants, Spare
<1>2. ASSUME NEW f \in m.futures, f.kind \in Kinds
      PROVE  /\ Gives(c', f.ticket, f.on, f.kind)
             /\ f.at = "done" /\ f.ack => c'.lease[f.ticket] = "none"
  <2>1. f.ticket \in Tickets /\ Gives(c, f.ticket, f.on, f.kind)
        /\ (f.at = "done" /\ f.ack => c.lease[f.ticket] = "none")
    BY <1>2, Unmoved DEF FutureOK, Kinds
  <2>2. CASE f.ticket = t
    <3>1. c.lease[t] # "none" /\ c.of[t] = w
      BY <2>2 DEF Grants, Spare
    <3>2. QED
      BY <2>1, <2>2, <3>1 DEF Gives, Grants
  <2>3. CASE f.ticket # t
    BY <2>1, <2>3 DEF Gives, Grants
  <2>4. QED
    BY <2>2, <2>3
<1>3. ASSUME NEW i \in Ids
      PROVE  /\ m.loads[i] # None => Gives(c', m.loads[i], i, "load")
             /\ m.stores[i] # None => Gives(c', m.stores[i], i, "store")
  <2>1. m.loads[i] \in Tickets \cup {None} /\ m.stores[i] \in Tickets \cup {None}
    BY Stay DEF Maps
  <2>2. /\ m.loads[i] # None => Gives(c, m.loads[i], i, "load")
        /\ m.stores[i] # None => Gives(c, m.stores[i], i, "store")
    BY Stay DEF Good, Named
  <2>3. QED
    BY <1>1, <2>1, <2>2 DEF Gives, Grants
<1>4. QED
  BY <1>1, <1>2, <1>3

LEMMA Room ==
  ASSUME ManagerInv, ~Full(m), NEW n, NEW i \in Ids, n.veto = m.veto, Len(n.owners) = Len(m.owners),
         \/ Owned(n, "stores") = Owned(m, "stores") /\ Owned(n, "loads") = Owned(m, "loads") \cup {i}
         \/ Owned(n, "loads") = Owned(m, "loads") /\ Owned(n, "stores") = Owned(m, "stores") \cup {i}
  PROVE  Fits(n)
<1> DEFINE L == Owned(m, "loads")
           S == Owned(m, "stores")
<1>1. L \in SUBSET Ids /\ S \in SUBSET Ids
  BY DEF Owned
<1>2. IsFiniteSet(L) /\ IsFiniteSet(S) /\ Cardinality(L) \in Nat /\ Cardinality(S) \in Nat
  BY <1>1, FiniteAssumption, FS_Subset, FS_CardinalityType
<1>3. Vetoed(n) = Vetoed(m) /\ Len(n.owners) <= setup.capacity
      /\ IsFiniteSet(Vetoed(m)) /\ Cardinality(Vetoed(m)) \in Nat /\ Cardinality(Vetoed(m)) <= setup.capacity
  BY Stay, FS_CardinalityType DEF Vetoed, Good, Fits
<1>4. setup.capacity \in Nat
  BY Stay, Setting
<1>5. ~(Cardinality(L) + Cardinality(S) + Cardinality(Vetoed(m)) >= setup.capacity)
  BY DEF Full
<1>6. Cardinality(L) + Cardinality(S) + 1 <= setup.capacity
  BY <1>2, <1>3, <1>4, <1>5
<1>7. \A T : T \in {L, S} => /\ Cardinality(T \cup {i}) \in {Cardinality(T), Cardinality(T) + 1}
  <2> TAKE T
  <2> HAVE T \in {L, S}
  <2>1. IsFiniteSet(T)
    BY <1>2
  <2>2. CASE i \in T
    <3>1. T \cup {i} = T
      BY <2>2
    <3>2. QED
      BY <3>1
  <2>3. CASE i \notin T
    BY <2>1, <2>3, FS_AddElement
  <2>4. QED
    BY <2>2, <2>3
<1>8. Cardinality(Owned(n, "loads")) + Cardinality(Owned(n, "stores")) <= setup.capacity
  <2>1. CASE Owned(n, "stores") = S /\ Owned(n, "loads") = L \cup {i}
    <3>1. Cardinality(L \cup {i}) \in Nat /\ Cardinality(L \cup {i}) <= Cardinality(L) + 1
      BY <1>2, <1>7
    <3>2. /\ Cardinality(Owned(n, "loads")) = Cardinality(L \cup {i})
          /\ Cardinality(Owned(n, "stores")) = Cardinality(S)
      BY <2>1, Zenon
    <3> HIDE DEF L, S
    <3>3. QED
      BY <1>2, <1>4, <1>6, <3>1, <3>2
  <2>2. CASE Owned(n, "loads") = L /\ Owned(n, "stores") = S \cup {i}
    <3>1. Cardinality(S \cup {i}) \in Nat /\ Cardinality(S \cup {i}) <= Cardinality(S) + 1
      BY <1>2, <1>7
    <3>2. /\ Cardinality(Owned(n, "stores")) = Cardinality(S \cup {i})
          /\ Cardinality(Owned(n, "loads")) = Cardinality(L)
      BY <2>2, Zenon
    <3> HIDE DEF L, S
    <3>3. QED
      BY <1>2, <1>4, <1>6, <3>1, <3>2
  <2>3. QED
    BY <2>1, <2>2
<1>9. QED
  BY <1>3, <1>8 DEF Fits

LEMMA GrantedLoad ==
  ASSUME ManagerInv, NEW t \in Tickets, NEW i \in Ids, Grants(t, <<i, "load">>),
         ~m.closed, m.veto[i[2]] = "none", ~Full(m), marked' = marked, Surviving,
         overlapped' = IF Overlapping(i) THEN overlapped \cup {i} ELSE overlapped,
         \A j \in Ids : j # i /\ answer'[j] = "yes" => answer[j] = "yes"
  PROVE  LET n == [m EXCEPT !.loads[i] = t] IN Settled(n) /\ t \notin tainted'
<1> DEFINE n == [m EXCEPT !.loads[i] = t]
           w == <<i, "load">>
<1>1. /\ n \in Maps /\ n.loads = [m.loads EXCEPT ![i] = t] /\ n.stores = m.stores /\ n.futures = m.futures
      /\ n.retiring = m.retiring /\ n.retiringStores = m.retiringStores /\ n.prepared = m.prepared
      /\ n.veto = m.veto /\ n.closed = m.closed /\ n.owners = m.owners
  BY Stay DEF Maps
<1>2. n.loads[i] = t /\ (\A j \in Ids : j # i => n.loads[j] = m.loads[j]) /\ m.loads \in [Ids -> Tickets \cup {None}]
  BY <1>1, Stay DEF Maps
<1>w. w \in Ids \X Kinds /\ w[1] = i /\ w[2] = "load" /\ Grants(t, w) /\ t # None
  BY NoneAssumption DEF Kinds
<1> HIDE DEF n, w
<1>3. /\ \A j \in Ids : (m.loads[j] = t => w = <<j, "load">>) /\ (m.stores[j] = t => w = <<j, "store">>)
      /\ \A f \in m.futures :
           /\ f.kind \in Kinds => Gives(c', f.ticket, f.on, f.kind)
           /\ f.kind \in Kinds /\ f.at = "done" /\ f.ack => c'.lease[f.ticket] = "none"
      /\ \A j \in Ids : /\ m.loads[j] # None => Gives(c', m.loads[j], j, "load")
                        /\ m.stores[j] # None => Gives(c', m.stores[j], j, "store")
  BY <1>w, Placed
<1>4. \A j \in Ids : (m.loads[j] = t => j = i) /\ m.stores[j] # t
  BY <1>w, <1>3 DEF w
<1>5. overlapped \subseteq overlapped' /\ (\A j \in Ids : j # i /\ j \notin overlapped' => j \notin overlapped)
      /\ (i \notin overlapped' => m.loads[i] = None /\ i \notin overlapped /\ \A f \in m.futures : f.kind = "load" => f.on # i)
  BY DEF Overlapping
<1>6. Distinct(n)
  BY <1>1, <1>2, <1>4, Stay DEF Good, Distinct
<1>7. Named(n, c')
  <2>1. Gives(c', t, i, "load")
    BY DEF Grants, Gives
  <2>2. QED
    BY <1>1, <1>2, <1>3, <2>1 DEF Named
<1>8. Kept(n, c', overlapped')
  <2> SUFFICES ASSUME NEW s \in Tickets, NEW j \in Ids, j \notin overlapped', c'.lease[s] # "none"
               PROVE  /\ c'.of[s] = <<j, "load">> => n.loads[j] = s
                      /\ c'.of[s] = <<j, "store">> => n.stores[j] = s
    BY DEF Kept
  <2>1. CASE s = t
    BY <1>1, <1>2, <1>w, <2>1 DEF Grants, w
  <2>2. CASE s # t
    <3>1. c.lease[s] # "none" /\ c'.of[s] = c.of[s]
      BY <2>2 DEF Grants
    <3>2. j \notin overlapped
      BY <1>5
    <3>3. /\ c.of[s] = <<j, "load">> => m.loads[j] = s
          /\ c.of[s] = <<j, "store">> => m.stores[j] = s
      BY <3>1, <3>2, Stay DEF Good, Kept
    <3>4. j = i => m.loads[j] # s
      BY <1>5, NoneAssumption
    <3>5. QED
      BY <1>1, <1>2, <3>1, <3>3, <3>4
  <2>3. QED
    BY <2>1, <2>2
<1>9. Futures(n, c', overlapped')
  <2>1. ASSUME NEW f \in m.futures PROVE FutureOK(f, n, c', overlapped')
    <3>1. FutureOK(f, m, c, overlapped) /\ f \in Future
      BY Unmoved
    <3>2. f.kind = "load" /\ f.on \notin overlapped' => n.loads[f.on] = f.ticket /\ f.on \in n.retiring
      BY <1>1, <1>2, <1>5, <3>1 DEF FutureOK
    <3>3. f.kind = "store" => n.stores[f.on] = f.ticket /\ f.on \in n.retiringStores
      BY <1>1, <3>1 DEF FutureOK
    <3>4. f.kind = "invalidate" => n.veto[f.on] = "asked"
      BY <1>1, <3>1 DEF FutureOK
    <3>5. QED
      BY <1>3, <3>1, <3>2, <3>3, <3>4 DEF FutureOK, Kinds
  <2>2. QED
    BY <1>1, <2>1, Stay DEF Good, Futures
<1>10. Fits(n)
  <2>1. Owned(n, "stores") = Owned(m, "stores") /\ Owned(n, "loads") = Owned(m, "loads") \cup {i}
    BY <1>1, <1>2, <1>w DEF Owned
  <2>2. QED
    BY <1>1, <2>1, Room
<1>11. Good(n, c', overlapped') /\ Books(c')
  BY <1>1, <1>6, <1>7, <1>8, <1>9, <1>10 DEF Good, Grants
<1>12. ASSUME NEW j \in Ids, j \notin n.retiring, j \notin overlapped', answer'[j] = "yes", n.loads[j] # None
       PROVE  c'.lease[n.loads[j]] = "held"
  <2>1. CASE j = i
    BY <1>2, <2>1 DEF Grants
  <2>2. CASE j # i
    <3>1. c.lease[m.loads[j]] = "held" /\ n.loads[j] = m.loads[j]
      BY <1>1, <1>2, <1>5, <1>12, <2>2 DEF ManagerInv, Promised
    <3>2. QED
      BY <1>2, <1>4, <1>12, <2>2, <3>1 DEF Grants
  <2>3. QED
    BY <2>1, <2>2
<1>13. ASSUME NEW j \in n.prepared, j \notin marked, j \notin overlapped'
       PROVE  /\ n.loads[j] # None /\ c'.lease[n.loads[j]] = "held"
              /\ \A f \in n.futures : f.kind = "load" => f.on # j
  <2>1. j \in Ids /\ j \in m.prepared /\ j \notin overlapped
    BY <1>1, <1>5, <1>13 DEF Maps
  <2>2. CASE j = i
    BY <1>1, <1>2, <1>5, <1>13, <1>w, <2>2 DEF Grants
  <2>3. CASE j # i
    <3>1. m.loads[j] # None /\ c.lease[m.loads[j]] = "held" /\ (\A f \in m.futures : f.kind = "load" => f.on # j)
          /\ n.loads[j] = m.loads[j]
      BY <1>2, <1>13, <2>1, <2>3 DEF ManagerInv, Prepared
    <3>2. m.loads[j] \in Tickets /\ m.loads[j] # t
      BY <1>2, <1>4, <2>1, <2>3, <3>1
    <3>3. QED
      BY <1>1, <3>1, <3>2 DEF Grants
  <2>4. QED
    BY <2>2, <2>3
<1>14. t \notin tainted /\ \A s \in tainted : \E j \in Ids : m.loads[j] = s /\ j # i
  <2>1. ASSUME NEW s \in tainted
        PROVE  s # t /\ \E j \in Ids : m.loads[j] = s /\ j # i
    <3>1. s \in Tickets /\ c.lease[s] # "none" /\ m.veto[c.of[s][1][2]] # "none" /\ \E j \in Ids : m.loads[j] = s
      BY DEF ManagerInv, Tainted, Live, KeyOf
    <3>2. c.of[s] # <<i, "load">>
      BY <3>1
    <3>3. s # t
      BY <3>1, <3>2, <1>w DEF Grants, w
    <3>4. m.loads[i] # s
      <4>1. s # None
        BY <3>1, NoneAssumption
      <4>2. QED
        BY <3>1, <3>2, <4>1, Stay DEF Good, Named, Gives
    <3>5. QED
      BY <3>1, <3>3, <3>4
  <2>2. QED
    BY <2>1
<1>15. ASSUME NEW s \in tainted'
       PROVE  /\ s \in Tickets /\ c'.lease[s] # "none"
              /\ n.closed \/ (n.veto[c'.of[s][1][2]] # "none" /\ \E j \in Ids : n.loads[j] = s)
  <2>1. s \in tainted /\ c'.lease[s] # "none"
    BY DEF Surviving
  <2>2. s \in Tickets /\ m.veto[c.of[s][1][2]] # "none"
    BY <2>1 DEF ManagerInv, Tainted, KeyOf
  <2>3. c'.of[s] = c.of[s]
    BY <1>14, <2>1, <2>2 DEF Grants
  <2>4. QED
    BY <1>1, <1>2, <1>14, <2>1, <2>2, <2>3
<1>16. ASSUME NEW j \in Ids, answer'[j] = "yes" PROVE n.loads[j] \notin tainted'
  BY <1>2, <1>14, <1>16 DEF ManagerInv, Tainted, Surviving
<1>17. QED
  <2>1. Settled(n)
    BY <1>11, <1>12, <1>13, <1>15, <1>16 DEF Settled
  <2>2. t \notin tainted'
    BY <1>14 DEF Surviving
  <2>3. QED
    BY <2>1, <2>2 DEF n

LEMMA GrantedStore ==
  ASSUME ManagerInv, NEW t \in Tickets, NEW i \in Ids, Grants(t, <<i, "store">>),
         m.stores[i] = None, ~Full(m), marked' = marked, overlapped' = overlapped, Surviving,
         \A j \in Ids : answer'[j] = "yes" => answer[j] = "yes"
  PROVE  Settled([m EXCEPT !.stores[i] = t])
<1> DEFINE n == [m EXCEPT !.stores[i] = t]
           w == <<i, "store">>
<1>1. /\ n \in Maps /\ n.stores = [m.stores EXCEPT ![i] = t] /\ n.loads = m.loads /\ n.futures = m.futures
      /\ n.retiring = m.retiring /\ n.retiringStores = m.retiringStores /\ n.prepared = m.prepared
      /\ n.veto = m.veto /\ n.closed = m.closed /\ n.owners = m.owners
  BY Stay DEF Maps
<1>2. n.stores[i] = t /\ (\A j \in Ids : j # i => n.stores[j] = m.stores[j]) /\ m.stores \in [Ids -> Tickets \cup {None}]
  BY <1>1, Stay DEF Maps
<1>w. w \in Ids \X Kinds /\ w[1] = i /\ w[2] = "store" /\ Grants(t, w) /\ t # None
  BY NoneAssumption DEF Kinds
<1> HIDE DEF n, w
<1>3. /\ \A j \in Ids : (m.loads[j] = t => w = <<j, "load">>) /\ (m.stores[j] = t => w = <<j, "store">>)
      /\ \A f \in m.futures :
           /\ f.kind \in Kinds => Gives(c', f.ticket, f.on, f.kind)
           /\ f.kind \in Kinds /\ f.at = "done" /\ f.ack => c'.lease[f.ticket] = "none"
      /\ \A j \in Ids : /\ m.loads[j] # None => Gives(c', m.loads[j], j, "load")
                        /\ m.stores[j] # None => Gives(c', m.stores[j], j, "store")
  BY <1>w, Placed
<1>4. \A j \in Ids : (m.stores[j] = t => j = i) /\ m.loads[j] # t
  BY <1>w, <1>3 DEF w
<1>5. \A j \in Ids : m.loads[j] # None => c'.lease[m.loads[j]] = c.lease[m.loads[j]]
  BY <1>4, Stay DEF Grants, Maps
<1>6. Distinct(n)
  BY <1>1, <1>2, <1>4, Stay DEF Good, Distinct
<1>7. Named(n, c')
  <2>1. Gives(c', t, i, "store")
    BY DEF Grants, Gives
  <2>2. QED
    BY <1>1, <1>2, <1>3, <2>1 DEF Named
<1>8. Kept(n, c', overlapped')
  <2> SUFFICES ASSUME NEW s \in Tickets, NEW j \in Ids, j \notin overlapped, c'.lease[s] # "none"
               PROVE  /\ c'.of[s] = <<j, "load">> => n.loads[j] = s
                      /\ c'.of[s] = <<j, "store">> => n.stores[j] = s
    BY DEF Kept
  <2>1. CASE s = t
    BY <1>1, <1>2, <1>w, <2>1 DEF Grants, w
  <2>2. CASE s # t
    <3>1. c.lease[s] # "none" /\ c'.of[s] = c.of[s]
      BY <2>2 DEF Grants
    <3>2. /\ c.of[s] = <<j, "load">> => m.loads[j] = s
          /\ c.of[s] = <<j, "store">> => m.stores[j] = s
      BY <3>1, Stay DEF Good, Kept
    <3>3. j = i => m.stores[j] # s
      BY NoneAssumption
    <3>4. QED
      BY <1>1, <1>2, <3>1, <3>2, <3>3
  <2>3. QED
    BY <2>1, <2>2
<1>9. Futures(n, c', overlapped')
  <2>1. ASSUME NEW f \in m.futures PROVE FutureOK(f, n, c', overlapped')
    <3>1. FutureOK(f, m, c, overlapped) /\ f \in Future
      BY Unmoved
    <3>2. f.kind = "store" => n.stores[f.on] = f.ticket /\ f.on \in n.retiringStores
      BY <1>1, <1>2, <3>1, NoneAssumption DEF FutureOK
    <3>3. f.kind = "load" /\ f.on \notin overlapped => n.loads[f.on] = f.ticket /\ f.on \in n.retiring
      BY <1>1, <3>1 DEF FutureOK
    <3>4. f.kind = "invalidate" => n.veto[f.on] = "asked"
      BY <1>1, <3>1 DEF FutureOK
    <3>5. QED
      BY <1>3, <3>1, <3>2, <3>3, <3>4 DEF FutureOK, Kinds
  <2>2. QED
    BY <1>1, <2>1, Stay DEF Good, Futures
<1>10. Fits(n)
  <2>1. Owned(n, "loads") = Owned(m, "loads") /\ Owned(n, "stores") = Owned(m, "stores") \cup {i}
    BY <1>1, <1>2, <1>w DEF Owned
  <2>2. QED
    BY <1>1, <2>1, Room
<1>11. Good(n, c', overlapped') /\ Books(c')
  BY <1>1, <1>6, <1>7, <1>8, <1>9, <1>10 DEF Good, Grants
<1>12. \A j \in Ids \ (n.retiring \cup overlapped') :
         answer'[j] = "yes" /\ n.loads[j] # None => c'.lease[n.loads[j]] = "held"
  BY <1>1, <1>5 DEF ManagerInv, Promised
<1>13. ASSUME NEW j \in n.prepared, j \notin marked, j \notin overlapped
       PROVE  /\ n.loads[j] # None /\ c'.lease[n.loads[j]] = "held"
              /\ \A f \in n.futures : f.kind = "load" => f.on # j
  <2>1. j \in Ids /\ j \in m.prepared
    BY <1>1 DEF Maps
  <2>2. QED
    BY <1>1, <1>5, <1>13, <2>1 DEF ManagerInv, Prepared
<1>14. ASSUME NEW s \in tainted'
       PROVE  /\ s \in Tickets /\ c'.lease[s] # "none"
              /\ n.closed \/ (n.veto[c'.of[s][1][2]] # "none" /\ \E j \in Ids : n.loads[j] = s)
  <2>1. /\ s \in tainted /\ c'.lease[s] # "none" /\ s \in Tickets /\ c.lease[s] # "none"
        /\ m.closed \/ (m.veto[c.of[s][1][2]] # "none" /\ \E j \in Ids : m.loads[j] = s)
    BY DEF Surviving, ManagerInv, Tainted, KeyOf, Live
  <2>2. c'.of[s] = c.of[s]
    BY <2>1, <1>w DEF Grants
  <2>3. QED
    BY <1>1, <2>1, <2>2
<1>15. \A j \in Ids : answer'[j] = "yes" => n.loads[j] \notin tainted'
  BY <1>1 DEF ManagerInv, Tainted, Surviving
<1>16. QED
  BY <1>11, <1>12, <1>13, <1>14, <1>15 DEF Settled, n

(* The maps after a method has what it reserved, or not.                   *)
LEMMA Asking ==
  ASSUME ManagerInv, call.at \in {"ask", "vouch", "fanout"}
  PROVE  /\ call.id \in Ids /\ call.for \in {"load", "probe", "store"} /\ Wanted \in Ids \X Kinds
         /\ Wanted = <<call.id, IF call.for = "store" THEN "store" ELSE "load">>
         /\ ~m.closed /\ m.veto[call.id[2]] = "none" /\ ~Full(m)
         /\ call.for = "load" => call.id \notin m.prepared /\ (m.loads[call.id] = None \/ call.id \in m.retiring)
         /\ call.for = "probe" => m.loads[call.id] = None
         /\ call.for \in {"probe", "store"} => m.stores[call.id] = None
         /\ answer \in [Ids -> {"no", "wait", "yes"}]
BY DEF ManagerInv, Calling, Sorts, Wanted, Kinds

LEMMA Reserving ==
  ASSUME ManagerInv, UNCHANGED <<setup, late, finished, marked>>, Surviving,
         call.at \in {"ask", "vouch", "fanout"}, NEW t \in Tickets, Grants(t, Wanted), Reserved(t)
  PROVE  ManagerInv'
<1> DEFINE i == call.id
<1>1. /\ i \in Ids /\ ~m.closed /\ m.veto[i[2]] = "none" /\ ~Full(m)
      /\ call.for \in {"probe", "store"} => m.stores[i] = None
      /\ call.for # "store" => Wanted = <<i, "load">>
      /\ call.for = "store" => Wanted = <<i, "store">>
      /\ answer \in [Ids -> {"no", "wait", "yes"}] /\ setup \in Setups
  BY Asking, Stay
<1> HIDE DEF i
<1>2. ASSUME call' = Idle, answer' \in [Ids -> {"no", "wait", "yes"}], seen' = seen, overlapped' \subseteq Ids
      PROVE  Sorts' /\ Calling' /\ Draining'
  BY <1>2 DEF ManagerInv, Sorts, Calling, Draining, Idle
<1>3. CASE call.for = "load" /\ LoadReserved(t)
  <2> DEFINE n == Loaded(t)
  <2>1. /\ overlapped' = IF Overlapping(i) THEN overlapped \cup {i} ELSE overlapped
        /\ call' = Idle /\ seen' = seen
        /\ \/ m' \in Vouched(n, t) /\ Answered(i, "yes")
           \/ m' \in Stale(n, i) /\ Answered(i, "no")
           \/ Uncertain(n, i)
    BY <1>3 DEF LoadReserved, i
  <2>2. answer' \in [Ids -> {"no", "wait", "yes"}] /\ \A j \in Ids : j # i /\ answer'[j] = "yes" => answer[j] = "yes"
    BY <1>1, <2>1 DEF Answered, Uncertain
  <2>3. n = [m EXCEPT !.loads[i] = t]
    BY DEF Loaded, i
  <2> HIDE DEF n
  <2>4. Settled(n)
    BY <1>1, <1>3, <2>1, <2>2, <2>3, GrantedLoad
  <2>5. Good(n, c', overlapped') /\ n \in Maps /\ n.loads[i] = t /\ t # None
    <3>1. Good(n, c', overlapped') /\ n \in Maps
      BY <2>4 DEF Settled, Good
    <3>2. m \in Maps
      BY Stay
    <3>3. n.loads[i] = t
      BY <1>1, <2>3, <3>2 DEF Maps
    <3>4. QED
      BY <3>1, <3>3, NoneAssumption
  <2>6. Good(m', c', overlapped') /\ Calm(n, m', c', overlapped')
    <3>1. CASE m' \in Vouched(n, t)
      BY <1>1, <2>5, <3>1, VouchEdit, EditedGood
    <3>2. CASE m' \in Stale(n, i)
      BY <1>1, <2>5, <3>2, Stales
    <3>3. CASE Uncertain(n, i)
      BY <1>1, <2>5, <3>3, Uncertainty
    <3>4. QED
      BY <2>1, <3>1, <3>2, <3>3
  <2>7. overlapped' \subseteq Ids
    BY <1>1, <2>1 DEF ManagerInv, Sorts
  <2>8. QED
    BY <1>1, <1>2, <2>1, <2>2, <2>4, <2>6, <2>7, Returns
<1>4. CASE call.for = "probe" /\ ProbeReserved(t)
  <2> DEFINE n == [m EXCEPT !.loads[i] = t]
             z == [n EXCEPT !.retiring = @ \cup {i}]
  <2>1. /\ overlapped' = IF Overlapping(i) THEN overlapped \cup {i} ELSE overlapped
        /\ call' = Idle /\ seen' = seen /\ answer' = answer
        /\ m' \in Dispatched(z)
    BY <1>4 DEF ProbeReserved, Loaded, i
  <2> HIDE DEF z
  <2>2. Settled(n)
    BY <1>1, <1>4, <2>1, GrantedLoad
  <2> HIDE DEF n
  <2>3. Good(n, c', overlapped') /\ n \in Maps
    BY <2>2 DEF Settled, Good
  <2>4. Edited(n, z)
    BY <1>1, <2>3 DEF Edited, Maps, z
  <2>5. Good(m', c', overlapped') /\ Calm(n, m', c', overlapped')
    BY <1>1, <2>1, <2>3, <2>4, EditDispatch
  <2>6. overlapped' \subseteq Ids
    BY <1>1, <2>1 DEF ManagerInv, Sorts
  <2>7. QED
    BY <1>1, <1>2, <2>1, <2>2, <2>5, <2>6, Returns
<1>5. CASE call.for = "store" /\ StoreReserved(t)
  <2> DEFINE n == [m EXCEPT !.stores[i] = t]
  <2>1. overlapped' = overlapped /\ call' = Idle /\ seen' = seen /\ answer' = answer /\ m' \in Dispatched(n)
    BY <1>5 DEF StoreReserved, i
  <2>2. Settled(n)
    BY <1>1, <1>5, <2>1, GrantedStore
  <2> HIDE DEF n
  <2>3. Good(n, c', overlapped')
    BY <2>2 DEF Settled
  <2>4. Good(m', c', overlapped') /\ Calm(n, m', c', overlapped')
    BY <1>1, <2>1, <2>3, Dispatching
  <2>5. overlapped' \subseteq Ids
    BY <2>1 DEF ManagerInv, Sorts
  <2>6. QED
    BY <1>1, <1>2, <2>1, <2>2, <2>4, <2>5, Returns
<1>6. QED
  BY <1>3, <1>4, <1>5 DEF Reserved

LEMMA Unreserves ==
  ASSUME ManagerInv, UNCHANGED <<setup, late, finished, marked>>, Surviving, Unreserved,
         call.at \in {"ask", "vouch", "fanout"}, Fades(c, c'),
         \A i \in Ids : m.loads[i] # None /\ c.lease[m.loads[i]] = "held" /\ (i \notin m.retiring \/ i \in m.prepared)
                          => c'.lease[m.loads[i]] = "held"
  PROVE  ManagerInv'
<1>1. answer' \in [Ids -> {"no", "wait", "yes"}] /\ \A j \in Ids : answer'[j] = "yes" => answer[j] = "yes"
  BY Asking DEF Unreserved, Answered
<1>2. Settled(m)
  BY <1>1, Faded DEF Unreserved
<1>3. Good(m, c', overlapped') /\ setup \in Setups /\ m \in Maps
  BY <1>2, Stay DEF Settled
<1>4. Good(m', c', overlapped') /\ Calm(m, m', c', overlapped')
  <2>1. CASE m' = Forget(m, call.id[1])
    BY <1>3, <2>1, Edits, EditedGood
  <2>2. CASE m' = m
    BY <1>3, <2>2 DEF Calm, Onward, Spares
  <2>3. CASE m' \in Dispatched(m)
    BY <1>3, <2>3, Dispatching
  <2>4. QED
    BY <2>1, <2>2, <2>3 DEF Unreserved
<1>5. Sorts' /\ Calling' /\ Draining'
  <2>1. CASE call' = Idle
    BY <1>1, <2>1 DEF Unreserved, ManagerInv, Sorts, Calling, Draining, Idle
  <2>2. CASE m' = m /\ call.for = "probe" /\ call' = [call EXCEPT !.at = "ask", !.for = "store"]
    <3>1. call'.at = "ask" /\ call'.for = "store" /\ call'.id = call.id
          /\ call' \in [at : {"idle", "ask", "vouch", "fanout", "failure", "drain", "down"}, id : Ids \cup {None},
                        for : {"load", "probe", "store", "none"}, old : Tickets \cup {None}]
      BY <2>2 DEF ManagerInv, Sorts
    <3>2. Full(m)' <=> Full(m)
      BY <2>2 DEF Full, Owned, Vetoed
    <3>3. QED
      BY <1>1, <2>2, <3>1, <3>2, Asking DEF Unreserved, ManagerInv, Sorts, Calling, Draining
  <2>3. QED
    BY <2>1, <2>2 DEF Unreserved
<1>6. QED
  BY <1>2, <1>3, <1>4, <1>5, Returns

(* The thread goes on with the reservation.                                *)
LEMMA GoesOn ==
  ASSUME ManagerInv, UNCHANGED <<setup, late, finished, marked, c, m, answer, seen, overlapped>>, Surviving,
         call.at \in {"ask", "vouch", "fanout"}, NEW p \in {"vouch", "fanout"}, NEW t \in Tickets \cup {None},
         call' = [call EXCEPT !.at = p, !.old = t],
         p = "vouch" => t \in Tickets /\ Gives(c, t, Wanted[1], Wanted[2])
  PROVE  ManagerInv'
<1>1. Fades(c, c')
  BY Unmoved
<1>2. Settled(m)
  BY <1>1, Faded
<1>3. Good(m', c', overlapped') /\ Calm(m, m', c', overlapped')
  BY <1>2 DEF Settled, Calm, Onward, Spares
<1>4. call'.at = p /\ call'.for = call.for /\ call'.id = call.id /\ call'.old = t
      /\ call' \in [at : {"idle", "ask", "vouch", "fanout", "failure", "drain", "down"}, id : Ids \cup {None},
                    for : {"load", "probe", "store", "none"}, old : Tickets \cup {None}]
  BY DEF ManagerInv, Sorts
<1>5. (Full(m)' <=> Full(m)) /\ Wanted' = Wanted
  BY <1>4 DEF Full, Owned, Vetoed, Wanted
<1>6. Calling'
  BY <1>4, <1>5, Asking DEF Calling, Gives
<1>7. Sorts' /\ Draining'
  BY <1>4 DEF ManagerInv, Sorts, Draining
<1>8. QED
  BY <1>2, <1>3, <1>6, <1>7, Stay, Returns

LEMMA Asks == ASSUME ManagerInv, Ask, Surviving, UNCHANGED <<setup, late, finished, marked>> PROVE ManagerInv'
<1> DEFINE t == c.index[Wanted]
<1>1. call.at \in {"ask", "vouch", "fanout"} /\ c' = c
  BY DEF Ask, At
<1>2. CASE Unreserved
  BY <1>1, <1>2, Unmoved, Unreserves
<1>3. CASE call' = [call EXCEPT !.at = IF t = None THEN "fanout" ELSE "vouch", !.old = t]
           /\ UNCHANGED <<m, answer, seen, overlapped>>
  <2>1. Wanted \in Ids \X Kinds
    BY <1>1, Asking
  <2>2. t \in Tickets \cup {None}
    BY <2>1 DEF ManagerInv, Books, Coordinators
  <2>3. t # None => t \in Tickets /\ Gives(c, t, Wanted[1], Wanted[2])
    BY <2>1, <2>2 DEF ManagerInv, Books, Gives
  <2> HIDE DEF t
  <2>4. CASE t = None
    BY <1>1, <1>3, <2>2, <2>4, GoesOn
  <2>5. CASE t # None
    BY <1>1, <1>3, <2>2, <2>3, <2>5, GoesOn
  <2>6. QED
    BY <2>4, <2>5
<1>4. QED
  BY <1>2, <1>3 DEF Ask

LEMMA Vouches == ASSUME ManagerInv, Vouch, Surviving, UNCHANGED <<setup, late, finished, marked>> PROVE ManagerInv'
<1> DEFINE t == call.old
<1>1. call.at \in {"ask", "vouch", "fanout"} /\ t \in Tickets /\ Gives(c, t, Wanted[1], Wanted[2]) /\ Books(c)
  BY DEF Vouch, At, ManagerInv, Calling
<1>2. Wanted \in Ids \X Kinds /\ Wanted = <<Wanted[1], Wanted[2]>>
  BY <1>1, Asking
<1>3. CASE Known(t) /\ c.index[Wanted] = t /\ c' = [c EXCEPT !.over = @ \ {t}] /\ Reserved(t)
  <2>1. c' \in Coordinators /\ c'.lease = c.lease /\ c'.of = c.of /\ c'.index = c.index
        /\ c'.vetoed = c.vetoed /\ c'.acked = c.acked
    BY <1>1, <1>3 DEF Books, Coordinators
  <2>2. c.lease[t] = "held" /\ c.of[t] = Wanted
    BY <1>1, <1>2, <1>3 DEF Known, Gives
  <2>3. Grants(t, Wanted)
    BY <1>1, <2>1, <2>2 DEF Grants, Books
  <2>4. QED
    BY <1>1, <1>3, <2>3, Reserving
<1>4. CASE call' = [call EXCEPT !.at = "fanout", !.old = None] /\ UNCHANGED <<c, m, answer, seen, overlapped>>
  BY <1>1, <1>4, GoesOn
<1>5. CASE c' \in Release(t) /\ Unreserved
  <2>1. /\ Fades(c, c') /\ \A s \in Tickets : s # t => c'.lease[s] = c.lease[s]
        /\ c.lease[t] = "none" => c' = c
    <3>1. CASE ~Live(t)
      BY <1>5, <3>1, Unmoved DEF Release, Live
    <3>2. CASE Live(t) /\ c' = Gone(c, t)
      <4>1. /\ Books(c') /\ c'.lease[t] = "none"
            /\ \A s \in Tickets : s # t => c'.lease[s] = c.lease[s] /\ c'.of[s] = c.of[s]
        BY <1>1, <3>2, GoneFacts DEF Live
      <4>2. QED
        BY <3>2, <4>1 DEF Fades, Live
    <3>3. CASE Live(t) /\ c' = Retired(c, t)
      <4>1. /\ Books(c') /\ c'.of = c.of
            /\ \A s \in Tickets : (s # t => c'.lease[s] = c.lease[s]) /\ (c'.lease[s] = "none" <=> c.lease[s] = "none")
        BY <1>1, <3>3, RetiredFacts
      <4>2. QED
        BY <3>3, <4>1 DEF Fades, Live
    <3>4. QED
      BY <1>5, <3>1, <3>2, <3>3 DEF Release
  <2>2. ASSUME NEW i \in Ids, m.loads[i] # None, c.lease[m.loads[i]] = "held", i \notin m.retiring \/ i \in m.prepared
        PROVE  c'.lease[m.loads[i]] = "held"
    <3>1. m.loads[i] \in Tickets /\ c.of[m.loads[i]] = <<i, "load">>
      BY <2>2, Stay DEF Good, Named, Gives, Maps
    <3>2. m.loads[i] # t
      <4> SUFFICES ASSUME m.loads[i] = t PROVE FALSE
        OBVIOUS
      <4>1. Wanted = <<i, "load">>
        BY <1>1, <1>2, <2>2, <3>1 DEF Gives
      <4>2. i = call.id /\ call.for \in {"load", "probe"}
        BY <1>1, <4>1, Asking
      <4>3. QED
        BY <1>1, <2>2, <4>2, Asking
    <3>3. QED
      BY <2>1, <2>2, <3>1, <3>2
  <2>3. QED
    BY <1>1, <1>5, <2>1, <2>2, Unreserves
<1>6. QED
  BY <1>3, <1>4, <1>5 DEF Vouch

LEMMA Fansout == ASSUME ManagerInv, Fanout, Surviving, UNCHANGED <<setup, late, finished, marked>> PROVE ManagerInv'
<1>1. call.at \in {"ask", "vouch", "fanout"} /\ Books(c) /\ call.id[2] \in Keys /\ Wanted \in Ids \X Kinds
  <2>1. call.at \in {"ask", "vouch", "fanout"}
    BY DEF Fanout, At
  <2>2. QED
    BY <2>1, Asking DEF ManagerInv, Ids
<1>2. CASE Unreserved /\ c' = Drained(c, call.id[2], FALSE)
  <2>1. Books(c') /\ c'.lease = c.lease /\ c'.of = c.of
    BY <1>1, <1>2, DrainedFacts
  <2>2. Fades(c, c')
    BY <2>1 DEF Fades
  <2>3. QED
    BY <1>1, <1>2, <2>1, <2>2, Unreserves
<1>3. CASE /\ Spare # {}
           /\ LET t == CHOOSE s \in Spare : TRUE IN
              c' = [c EXCEPT !.lease[t] = "held", !.of[t] = Wanted, !.index[Wanted] = t] /\ Reserved(t)
  <2>1. PICK t \in Spare : /\ c' = [c EXCEPT !.lease[t] = "held", !.of[t] = Wanted, !.index[Wanted] = t]
                           /\ Reserved(t)
    BY <1>3
  <2>2. t \in Tickets /\ c.lease[t] = "none"
    BY DEF Spare, Live
  <2>3. /\ c' \in Coordinators /\ c'.vetoed = c.vetoed /\ c'.acked = c.acked
        /\ c'.lease[t] = "held" /\ c'.of[t] = Wanted
        /\ \A s \in Tickets : s # t => c'.lease[s] = c.lease[s] /\ c'.of[s] = c.of[s]
        /\ \A w \in Ids \X Kinds : c'.index[w] = IF w = Wanted THEN t ELSE c.index[w]
    BY <1>1, <2>1, <2>2 DEF Books, Coordinators
  <2>4. Books(c')
    <3>1. \A s \in Tickets : c'.lease[s] # "none" => c'.of[s] \in Ids \X Kinds
      BY <1>1, <2>3 DEF Books
    <3>2. ASSUME NEW w \in Ids \X Kinds, c'.index[w] # None
          PROVE  c'.lease[c'.index[w]] # "none" /\ c'.of[c'.index[w]] = w
      <4>1. CASE w = Wanted
        BY <2>3, <4>1
      <4>2. CASE w # Wanted
        <5>1. c'.index[w] = c.index[w] /\ c.index[w] \in Tickets
          BY <1>1, <2>3, <3>2, <4>2 DEF Books, Coordinators
        <5>2. c.lease[c.index[w]] # "none" /\ c.of[c.index[w]] = w
          BY <1>1, <3>2, <5>1 DEF Books
        <5>3. QED
          BY <2>2, <2>3, <5>1, <5>2
      <4>3. QED
        BY <4>1, <4>2
    <3>3. QED
      BY <1>1, <2>3, <3>1, <3>2 DEF Books
  <2>5. Grants(t, Wanted)
    BY <2>1, <2>2, <2>3, <2>4 DEF Grants
  <2>6. QED
    BY <1>1, <2>1, <2>2, <2>5, Reserving
<1>4. QED
  BY <1>2, <1>3 DEF Fanout

LEMMA Reserves == ManagerInv /\ Reserve => ManagerInv'
BY Asks, Vouches, Fansout DEF Reserve

-----------------------------------------------------------------------------
LEMMA Initial == Init => ManagerInv
<1> SUFFICES ASSUME Init PROVE ManagerInv
  OBVIOUS
<1>1. setup \in Setups /\ setup.capacity \in Nat /\ setup.budget \in Nat
      /\ {Submitted, StaleMax, AttemptsMax} \subseteq Nat \ {0}
  BY Setting DEF Init
<1>2. /\ m.loads = [i \in Ids |-> None] /\ m.stores = [i \in Ids |-> None] /\ m.futures = {} /\ m.prepared = {}
      /\ m.veto = [k \in Keys |-> "none"] /\ m.owners = <<>>
  BY DEF Init
<1>3. m \in Maps
  BY <1>1, EmptySeq DEF Init, Maps
<1>4. Books(c) /\ (\A t \in Tickets : c.lease[t] = "none")
  <2>1. /\ c.lease = [t \in Tickets |-> "none"] /\ c.index = [w \in Ids \X Kinds |-> None]
        /\ c.vetoed = {} /\ c.acked = {}
    BY DEF Init, Kinds
  <2>2. c \in Coordinators
    BY DEF Init, Coordinators, Kinds
  <2>3. QED
    BY <2>1, <2>2 DEF Books
<1>5. Distinct(m) /\ Named(m, c) /\ Kept(m, c, overlapped)
  BY <1>2, <1>4 DEF Distinct, Named, Kept
<1>6. Futures(m, c, overlapped)
  BY <1>1, <1>2, FS_EmptySet DEF Futures, Single
<1>7. Fits(m)
  <2>1. Owned(m, "loads") = {} /\ Owned(m, "stores") = {} /\ Vetoed(m) = {}
    BY <1>2 DEF Owned, Vetoed
  <2>2. /\ Cardinality(Owned(m, "loads")) = Cardinality({}) /\ Cardinality(Owned(m, "stores")) = Cardinality({})
        /\ Cardinality(Vetoed(m)) = Cardinality({}) /\ IsFiniteSet(Vetoed(m))
    BY <2>1, FS_EmptySet, Zenon
  <2>3. Cardinality({}) = 0 /\ Len(m.owners) = 0
    BY <1>2, FS_EmptySet, EmptySeq
  <2>4. QED
    BY <1>1, <2>2, <2>3 DEF Fits
<1>8. Sorts /\ call = Idle /\ tainted = {} /\ \A i \in Ids : answer[i] = "no"
  BY <1>1 DEF Init, Sorts, Idle
<1>9. Calling /\ Promised /\ Prepared /\ Draining /\ Tainted
  BY <1>2, <1>8 DEF Calling, Promised, Prepared, Draining, Tainted, Idle
<1>10. QED
  BY <1>3, <1>4, <1>5, <1>6, <1>7, <1>8, <1>9 DEF ManagerInv, Good

LEMMA Step == ManagerInv /\ [Next]_vars => ManagerInv'
<1> SUFFICES ASSUME ManagerInv, [Next]_vars PROVE ManagerInv'
  OBVIOUS
<1>1. CASE UNCHANGED vars
  <2>1. UNCHANGED <<setup, c, call, answer, seen, late, finished, overlapped, marked, tainted>> /\ m' = m
    BY <1>1 DEF vars, history
  <2>2. Fades(c, c') /\ Good(m', c', overlapped) /\ SameMaps(m, m')
    BY <2>1, Unmoved, Stay DEF SameMaps
  <2>3. QED
    BY <2>1, <2>2, Unmoved, WorldStep
<1>2. CASE Executor \/ BackoffEnds \/ Reserve \/ Poll \/ ResetCache \/ OnLoadFailure
  BY <1>2, Executes, Backoffs, Reserves, Polls, Resets, Fails
<1>3. CASE Shutdown \/ Drain \/ DrainTimesOut
  BY <1>3, Shutsdown, Drains, TimesOut
<1>4. CASE \E t \in Tickets : Expires(t)
  BY <1>4, Expiry
<1>5. CASE \E i \in Ids : Lookup(i) \/ PrepareStore(i) \/ CompleteStore(i)
  BY <1>5, LooksUp, PreparesStore, CompletesStore
<1>6. CASE \E i \in Ids, ok \in BOOLEAN : CompleteLoad(i, ok)
  BY <1>6, CompletesLoad
<1>7. CASE \E o \in Owners : PrepareLoad(o) \/ RequestFinished(o)
  BY <1>7, PreparesLoad, Finishes
<1>8. CASE \E hook, later \in BOOLEAN : PassEnds(hook, later)
  BY <1>8, Passes
<1>9. QED
  BY <1>1, <1>2, <1>3, <1>4, <1>5, <1>6, <1>7, <1>8 DEF Next

(* What the maps, the futures, the coordinator and the thread in a call    *)
(* say of each other, in every reachable state.                            *)
THEOREM ManagerSafe == Spec => []ManagerInv
BY Initial, Step, PTL DEF Spec

(* _Manager keeps every map in its bounds: the tickets of the connector,   *)
(* the vetoed keys and the queue of requests within the capacity, the      *)
(* futures within metadata_max_submitted and one to a job, the counts of   *)
(* attempts within theirs.                                                 *)
THEOREM ManagerTypeCorrect == Spec => []TypeOK
<1>1. ManagerInv => TypeOK
  <2> SUFFICES ASSUME ManagerInv PROVE TypeOK
    OBVIOUS
  <2>1. /\ m.loads \in [Ids -> Tickets \cup {None}] /\ m.stores \in [Ids -> Tickets \cup {None}]
        /\ m.retiring \subseteq Ids /\ m.retiringStores \subseteq Ids /\ m.prepared \subseteq Ids
        /\ m.renewals \subseteq Tickets
        /\ m.stale \in [Ids -> 0..StaleMax]
        /\ m.veto \in [Keys -> {"none", "asked", "acked"}]
        /\ {m.reset, m.closed, m.quarantined} \subseteq BOOLEAN
        /\ m.attempts \in [Works -> 0..(AttemptsMax + 1)] /\ m.backoff \subseteq Works
        /\ m.owners \in Seq(Owners) /\ m.turn \in Owners \cup {None} /\ m.left \in 0..setup.budget
        /\ m.futures \subseteq Future
    BY Stay DEF Maps
  <2>2. /\ Cardinality(m.futures) <= Submitted
        /\ \A f, g \in m.futures : <<f.kind, f.on>> = <<g.kind, g.on>> \/ (f.ticket = g.ticket /\ f.ticket # None) => f = g
    BY Stay DEF Good, Futures, Single
  <2>3. /\ Len(m.owners) <= setup.capacity
        /\ Cardinality(Owned(m, "loads")) + Cardinality(Owned(m, "stores")) <= setup.capacity
        /\ Cardinality(Vetoed(m)) <= setup.capacity
    BY Stay DEF Good, Fits
  <2>4. /\ c.lease \in [Tickets -> {"none", "held", "retiring"}]
        /\ c.of \in [Tickets -> (Ids \X {"load", "store"}) \cup {None}]
        /\ c.over \subseteq Tickets /\ c.acked \subseteq c.vetoed /\ c.vetoed \subseteq Keys
        /\ c.index \in [Ids \X {"load", "store"} -> Tickets \cup {None}]
    BY DEF ManagerInv, Books, Coordinators, Kinds
  <2>5. tainted \subseteq Tickets
    BY DEF ManagerInv, Tainted
  <2>6. QED
    BY <2>1, <2>2, <2>3, <2>4, <2>5 DEF TypeOK, ManagerInv, Sorts
<1>2. QED
  BY <1>1, ManagerSafe, PTL

(* "Ownership is never discarded unacknowledged": what the coordinator     *)
(* holds for this process is in the manager's maps until it is gone,       *)
(* whatever is reserved, released, vetoed, reset or closed meanwhile, and  *)
(* shutdown() leaves none of it; a prepared load keeps its leases.         *)
THEOREM TicketsStayOwned == Spec => []TicketsOwned
<1>1. ManagerInv => TicketsOwned
  <2> SUFFICES ASSUME ManagerInv PROVE TicketsOwned
    OBVIOUS
  <2>1. ASSUME NEW t \in Tickets, Live(t), c.of[t][1] \notin overlapped
        PROVE  call.at # "down" /\ \E i \in Ids : t \in {m.loads[i], m.stores[i]}
    <3>1. PICK i \in Ids, kind \in Kinds : c.of[t] = <<i, kind>>
      BY <2>1 DEF ManagerInv, Books, Live
    <3>2. i \notin overlapped /\ (kind = "load" => m.loads[i] = t) /\ (kind = "store" => m.stores[i] = t)
      BY <2>1, <3>1, Stay DEF Good, Kept, Live
    <3>3. t # None
      BY NoneAssumption
    <3>4. QED
      BY <3>1, <3>2, <3>3 DEF Kinds, ManagerInv, Draining
  <2>2. \A i \in m.prepared \ (marked \cup overlapped) : m.loads[i] # None /\ c.lease[m.loads[i]] = "held"
    BY DEF ManagerInv, Prepared
  <2>3. QED
    BY <2>1, <2>2 DEF TicketsOwned
<1>2. QED
  BY <1>1, ManagerSafe, PTL

(* on_load_failure(): as long as a ticket that the manager had of the key  *)
(* then is live, the key stays vetoed or the tier closed, and no load is   *)
(* promised from that ticket.                                              *)
THEOREM VetoIsKept == Spec => []VetoHolds
<1>1. ManagerInv => VetoHolds
  BY DEF ManagerInv, Tainted, VetoHolds
<1>2. QED
  BY <1>1, ManagerSafe, PTL
=============================================================================
