-------------------------- MODULE DiskStoreProofs --------------------------
(***************************************************************************)
(* Files, rows, leases and the running total of DiskStore for every set of *)
(* objects, keys and leases, every configuration and every lease and grace *)
(* period.                                                                 *)
(***************************************************************************)
EXTENDS DiskStore, FiniteSetTheorems, TLAPS

Rows == [Ids -> [st : Live \cup {"new", "gone"}, key : Keys \cup {None},
                 charge : 0..MaxCharge, left : Nat]]

-----------------------------------------------------------------------------
(* What the table operations do to one row. *)

LEMMA RetireFacts ==
  ASSUME NEW r \in Rows, NEW S
  PROVE  /\ Retire(r, S) \in Rows
         /\ \A i \in Ids : i \in S => /\ Retire(r, S)[i].st = "T"
                                      /\ Retire(r, S)[i].key = r[i].key
                                      /\ Retire(r, S)[i].charge = r[i].charge
         /\ \A i \in Ids : i \notin S => Retire(r, S)[i] = r[i]
BY TimeAssumption DEF Retire, Rows, Live

LEMMA EraseFacts ==
  ASSUME NEW r \in Rows, NEW S
  PROVE  /\ Erase(r, S) \in Rows
         /\ \A i \in Ids : i \in S => Erase(r, S)[i] = NoRow
         /\ \A i \in Ids : i \notin S => Erase(r, S)[i] = r[i]
BY ChargeAssumption DEF Erase, Rows, Live, NoRow

LEMMA BytesType ==
  ASSUME NEW r \in Rows, NEW S \in SUBSET Ids
  PROVE  IsFiniteSet(Units(r, S)) /\ Bytes(r, S) \in Nat
<1>1. IsFiniteSet(S)
  BY IdsAssumption, FS_Subset
<1>2. IsFiniteSet(1..MaxCharge)
  BY ChargeAssumption, FS_Interval
<1>3. IsFiniteSet(S \X (1..MaxCharge))
  BY <1>1, <1>2, FS_Product
<1>4. Units(r, S) \in SUBSET (S \X (1..MaxCharge))
  BY DEF Units
<1>5. IsFiniteSet(Units(r, S))
  BY <1>3, <1>4, FS_Subset
<1>6. QED
  BY <1>5, FS_CardinalityType DEF Bytes

-----------------------------------------------------------------------------
(* The states of the rows that reserve_write() passes through.  Nothing it *)
(* does makes a row committed or takes a row or file from a reader.        *)

Spared(r) == \A i \in Ids : Leased(i) /\ row[i].st \in {"C", "T"} => r[i].st \in {"C", "T"}
Younger(r) ==   \* r is row with some objects retired or erased
  /\ r \in Rows
  /\ \A i \in Ids : r[i].st = "C" => row[i].st = "C"
  /\ \A i \in Ids : row[i].st = "new" => r[i].st = "new"
  /\ \A i \in Ids : r[i].st \in Live => /\ row[i].st \in Live
                                       /\ r[i].key = row[i].key
                                       /\ r[i].charge = row[i].charge
  /\ \A i \in Ids : row[i].st \in {"T", "gone"} => r[i].st \in {"T", "gone"}
  /\ Spared(r)

LEMMA RetireYounger ==
  ASSUME NEW r, Younger(r), NEW S,
         \A i \in Ids : i \in S => r[i].st \in Live
  PROVE  Younger(Retire(r, S))
BY RetireFacts DEF Younger, Spared, Live

LEMMA EraseYounger ==
  ASSUME NEW r, Younger(r), NEW S,
         \A i \in Ids : i \in S => r[i].st = "T" /\ ~Leased(i)
  PROVE  Younger(Erase(r, S))
BY EraseFacts DEF Younger, Spared, NoRow, Live

LEMMA SweepYounger ==
  ASSUME row \in Rows
  PROVE  /\ Younger(row)
         /\ Younger(Swept)
         /\ \A force : \A S \in SUBSET Collectable(Swept, force) : Younger(Erase(Swept, S))
<1>1. Younger(row)
  BY DEF Younger, Spared
<1>2. Younger(Swept)
  BY <1>1, RetireYounger DEF Swept, Expire, Overdue, Live
<1>3. QED
  BY <1>1, <1>2, EraseYounger DEF Collectable

LEMMA ReserveYounger ==
  ASSUME row \in Rows, NEW k
  PROVE  /\ Younger(Collected) /\ Younger(Evicted) /\ Younger(Freed(k))
         /\ Dead \subseteq Ids /\ Superseded(k) \subseteq Ids
         /\ \A i \in Dead \cup Superseded(k) :
              ~Leased(i) /\ Evicted[i].st \in {"T", "gone"} /\ Freed(k)[i].st = "gone"
<1>1. Younger(Collected)
  BY SweepYounger DEF Collected, Dead
<1>2. \A i \in Ids : i \in Reclaimed => Collected[i].st = "C"
  BY DEF Reclaimed, Victims, MarkDown
<1>3. Younger(Evicted)
  BY <1>1, <1>2, RetireYounger DEF Evicted, Live
<1>4. \A i \in Ids : i \in Superseded(k) => Evicted[i].st = "T" /\ ~Leased(i)
  BY DEF Superseded, Blocked
<1>5. Younger(Freed(k))
  BY <1>3, <1>4, EraseYounger DEF Freed
<1>6. Dead \subseteq Ids /\ Superseded(k) \subseteq Ids
  BY DEF Dead, Collectable, Superseded, Holding
<1>7. ASSUME NEW i \in Dead
      PROVE  ~Leased(i) /\ Evicted[i].st = "gone" /\ Freed(k)[i].st = "gone"
  <2>1. i \in Ids /\ ~Leased(i)
    BY <1>7 DEF Dead, Collectable
  <2>2. Swept \in Rows
    BY SweepYounger DEF Younger
  <2>3. Collected[i] = NoRow
    BY <1>7, <2>1, <2>2, EraseFacts DEF Collected
  <2>4. i \notin Reclaimed
    BY <1>2, <2>1, <2>3 DEF NoRow
  <2>5. Evicted[i] = NoRow
    BY <1>1, <2>1, <2>3, <2>4, RetireFacts DEF Evicted, Younger
  <2>6. i \notin Superseded(k)
    BY <1>4, <2>1, <2>5 DEF NoRow
  <2>7. QED
    BY <1>3, <2>1, <2>5, <2>6, EraseFacts DEF Freed, Younger, NoRow
<1>8. ASSUME NEW i \in Superseded(k)
      PROVE  ~Leased(i) /\ Evicted[i].st = "T" /\ Freed(k)[i].st = "gone"
  BY <1>3, <1>4, <1>6, <1>8, EraseFacts DEF Freed, Younger, NoRow
<1>9. QED
  BY <1>1, <1>3, <1>5, <1>6, <1>7, <1>8

-----------------------------------------------------------------------------
(* The invariant.  A thread that is still writing an object has it for     *)
(* itself: the object is not committed and nobody reads it.                *)

WriterPrivate == \A i \in Ids : wpc[i] # "done" => row[i].st # "C" /\ ~Leased(i)

Keyed == \A i \in Ids : row[i].st \in Live => row[i].key \in Keys

Safe == Types /\ Keyed /\ LeasedFilesStay /\ CommittedHasFile /\ WriterPrivate

NoReturn == \A i \in Ids : row[i].st \in {"T", "gone"} => row'[i].st \in {"T", "gone"}

(* What every step is shown to do. *)
Kept == Safe' /\ NoReturn

LEMMA InitSafe == Init => Safe
<1> SUFFICES ASSUME Init PROVE Safe
  OBVIOUS
<1>1. Types
  <2>1. NewRow \in [st : Live \cup {"new", "gone"}, key : Keys \cup {None},
                   charge : 0..MaxCharge, left : Nat]
    BY ChargeAssumption DEF NewRow, Live
  <2>2. FreeLease \in [obj : Ids \cup {None}, left : Nat]
    BY DEF FreeLease
  <2>3. /\ row \in [Ids -> [st : Live \cup {"new", "gone"}, key : Keys \cup {None},
                           charge : 0..MaxCharge, left : Nat]]
        /\ lease \in [Leases -> [obj : Ids \cup {None}, left : Nat]]
    BY <2>1, <2>2 DEF Init
  <2>4. file \in [Ids -> {"absent", "part"} \cup Placed]
    BY DEF Init
  <2>5. wpc \in [Ids -> {"idle", "checked", "writing", "done", "stuck"}]
    BY DEF Init
  <2>6. indexed \in BOOLEAN /\ failed \in BOOLEAN
    BY Zenon DEF Init
  <2>7. total \in Int /\ phase \in {"up", "closed", "down"} \cup Recovering
    BY DEF Init
  <2>8. older \subseteq Ids \X Ids /\ durable \subseteq Keys
    BY DEF Init
  <2>9. QED
    BY <2>3, <2>4, <2>5, <2>6, <2>7, <2>8, Zenon DEF Init, Types
<1>2. Keyed /\ LeasedFilesStay /\ CommittedHasFile /\ WriterPrivate
  BY NoneAssumption DEF Init, Keyed, Live, LeasedFilesStay, CommittedHasFile, WriterPrivate, NewRow, FreeLease, Leased
<1>3. QED
  BY <1>1, <1>2 DEF Safe

LEMMA TypeRows == Types => row \in Rows
BY DEF Types, Rows

(* Every step that only retires or erases objects, unlinks files nobody    *)
(* needs, and ends leases or writers keeps the three invariants.           *)
LEMMA ReclaimSafe ==
  ASSUME Safe, Younger(row'),
         \A l \in Leases : lease'[l].obj \in {None, lease[l].obj},
         \A i \in Ids : file'[i] = file[i]
                        \/ (~Leased(i) /\ row'[i].st # "C")
                        \/ (file[i] \in Placed /\ file'[i] \in Placed),
         \A i \in Ids : wpc'[i] = "done" \/ wpc[i] # "done" \/ row[i].st = "new"
  PROVE  Keyed' /\ LeasedFilesStay' /\ CommittedHasFile' /\ WriterPrivate' /\ NoReturn
<1> USE DEF Safe
<1>0. Keyed'
  BY DEF Keyed, Younger
<1>1. CommittedHasFile'
  BY DEF CommittedHasFile, Younger
<1>2. LeasedFilesStay'
  <2> SUFFICES ASSUME NEW l \in Leases, lease'[l].obj # None
               PROVE  /\ row'[lease'[l].obj].st \in {"C", "T"}
                      /\ file'[lease'[l].obj] \in Placed
    BY DEF LeasedFilesStay
  <2>1. lease'[l].obj = lease[l].obj /\ lease[l].obj # None
    OBVIOUS
  <2>2. lease[l].obj \in Ids
    BY <2>1 DEF Types
  <2>3. Leased(lease[l].obj)
    BY DEF Leased
  <2>4. row[lease[l].obj].st \in {"C", "T"} /\ file[lease[l].obj] \in Placed
    BY <2>1 DEF LeasedFilesStay
  <2>5. QED
    BY <2>1, <2>2, <2>3, <2>4 DEF Younger, Spared
<1>3. WriterPrivate'
  <2> SUFFICES ASSUME NEW i \in Ids, wpc'[i] # "done"
               PROVE  row'[i].st # "C" /\ ~Leased(i)'
    BY DEF WriterPrivate
  <2>1. row[i].st # "C" /\ ~Leased(i)
    BY NoneAssumption DEF WriterPrivate, LeasedFilesStay, Leased
  <2>2. QED
    BY <2>1, NoneAssumption DEF Leased, Younger
<1>4. NoReturn
  BY DEF NoReturn, Younger
<1>5. QED
  BY <1>0, <1>1, <1>2, <1>3, <1>4

-----------------------------------------------------------------------------
(* Types, operation by operation. *)

LEMMA UpdateTypes ==
  ASSUME Types, NEW S
  PROVE  /\ Unlink(S) \in [Ids -> {"absent", "part"} \cup Placed]
         /\ Forget(S) \subseteq Keys
         /\ \A r : InOrder(r) \subseteq Ids \X Ids
         /\ \A i \in Ids : Touched(i) \subseteq Ids \X Ids
BY DEF Types, Unlink, Forget, InOrder, Touched

LEMMA RemainingType ==
  ASSUME Types
  PROVE  /\ Swept \in Rows
         /\ Remaining \in Int
         /\ \A k : Used(k) \in Int
         /\ \A S \in SUBSET Ids : total - Bytes(Swept, S) \in Int
<1>1. row \in Rows
  BY TypeRows
<1>2. Swept \in Rows /\ Evicted \in Rows
  BY <1>1, SweepYounger, ReserveYounger DEF Younger
<1>3. \A S \in SUBSET Ids : Bytes(Swept, S) \in Nat /\ Bytes(Evicted, S) \in Nat
  BY <1>2, BytesType
<1>4. Dead \subseteq Ids /\ \A k : Superseded(k) \subseteq Ids
  BY <1>1, ReserveYounger
<1>5. Remaining \in Int
  BY <1>3, <1>4 DEF Remaining, Types
<1>6. QED
  BY <1>2, <1>3, <1>4, <1>5 DEF Used, Types

LEMMA TickSafe == Safe /\ Tick => Kept
<1> SUFFICES ASSUME Safe, Tick PROVE Kept
  OBVIOUS
<1> USE DEF Safe, Kept
<1>a. \A n \in Nat : Down(n) \in Nat
  BY DEF Down
<1>b. row \in Rows /\ row' = [i \in Ids |-> [row[i] EXCEPT !.left = Down(row[i].left)]]
  BY TypeRows DEF Tick
<1>c. row' \in Rows
  BY <1>a, <1>b DEF Rows
<1>d. \A i \in Ids : row'[i].st = row[i].st
  BY <1>b DEF Rows
<1>e. \A l \in Leases : /\ lease'[l] \in [obj : Ids \cup {None}, left : Nat]
                        /\ lease'[l].obj \in {None, lease[l].obj}
  <2> TAKE l \in Leases
  <2>1. lease[l] \in [obj : Ids \cup {None}, left : Nat]
    BY DEF Types
  <2>2. lease'[l] = IF lease[l].left <= 1 THEN FreeLease
                    ELSE [lease[l] EXCEPT !.left = lease[l].left - 1]
    BY DEF Tick
  <2>3. CASE lease[l].left <= 1
    BY <2>2, <2>3 DEF FreeLease
  <2>4. CASE ~(lease[l].left <= 1)
    BY <2>1, <2>2, <2>4
  <2>5. QED
    BY <2>3, <2>4
<1>1. Types'
  BY <1>c, <1>e DEF Tick, Types, Rows, ramVars
<1>2. Younger(row')
  BY <1>b, <1>c, <1>d DEF Younger, Spared, Rows
<1>3. \A l \in Leases : lease'[l].obj \in {None, lease[l].obj}
  BY <1>e
<1>4. Keyed' /\ LeasedFilesStay' /\ CommittedHasFile' /\ WriterPrivate' /\ NoReturn
  BY <1>2, <1>3, ReclaimSafe DEF Tick
<1>5. QED
  BY <1>1, <1>4 DEF Safe

LEMMA ReserveWriteSafe ==
  ASSUME Safe, NEW k \in Keys,
         \/ ReserveWriteRefused(k) \/ AdmissionFails(k) \/ CrashInSupersede(k)
         \/ \E c \in 1..MaxCharge, i \in Ids : ReserveWrite(k, c, i)
  PROVE  Kept
<1> USE DEF Kept
<1>0. row \in Rows /\ Types
  BY TypeRows DEF Safe
<1>1. CASE ReserveWriteRefused(k)
  <2>1. Types'
    BY <1>0, <1>1, UpdateTypes, RemainingType, ReserveYounger
       DEF ReserveWriteRefused, Types, Younger, Rows
  <2>2. QED
    BY <1>0, <1>1, <2>1, ReserveYounger, ReclaimSafe DEF ReserveWriteRefused, Unlink, Safe
<1>2. CASE AdmissionFails(k)
  <2>1. PICK S \in {Dead, Dead \cup Superseded(k)} : file' = Unlink(S)
    BY <1>2 DEF AdmissionFails
  <2>2. /\ Younger(row')
        /\ \A i \in S : ~Leased(i) /\ row'[i].st # "C"
    BY <1>0, <1>2, ReserveYounger DEF AdmissionFails
  <2>3. Types'
    BY <1>0, <1>2, <2>1, <2>2, UpdateTypes, RemainingType
       DEF AdmissionFails, Types, Younger, Rows
  <2>4. QED
    BY <1>0, <1>2, <2>1, <2>2, <2>3, ReclaimSafe DEF AdmissionFails, Unlink, Safe
<1>3. CASE CrashInSupersede(k)
  <2>1. PICK S \in {Dead, Dead \cup Superseded(k)} : file' = Unlink(S)
    BY <1>3 DEF CrashInSupersede
  <2>2. /\ Younger(row')
        /\ \A i \in S : ~Leased(i) /\ row'[i].st # "C"
    BY <1>0, <1>3, ReserveYounger DEF CrashInSupersede
  <2>3. Types'
    BY <1>0, <1>3, <2>1, <2>2, UpdateTypes, RemainingType
       DEF CrashInSupersede, Dies, Types, Younger, Rows
  <2>4. QED
    BY <1>0, <1>3, <2>1, <2>2, <2>3, ReclaimSafe DEF CrashInSupersede, Dies, Unlink, Safe
<1>4. CASE \E c \in 1..MaxCharge, i \in Ids : ReserveWrite(k, c, i)
  <2> PICK c \in 1..MaxCharge, i \in Ids : ReserveWrite(k, c, i)
    BY <1>4
  <2>1. Freed(k) \in Rows
    BY <1>0, ReserveYounger DEF Younger
  <2>2. row' = [Freed(k) EXCEPT ![i] = [st |-> "W", key |-> k, charge |-> c, left |-> Lease]]
    BY DEF ReserveWrite
  <2>3. row' \in Rows
    BY <2>1, <2>2, TimeAssumption DEF Rows, Live
  <2>4. ~Leased(i)
    BY NoneAssumption DEF ReserveWrite, Safe, LeasedFilesStay, Leased
  <2>5. Types'
    BY <1>0, <2>3, UpdateTypes, RemainingType, ChargeAssumption DEF ReserveWrite, Types, Rows
  <2>6. \A j \in Dead \cup Superseded(k) : ~Leased(j) /\ row'[j].st # "C"
    BY <1>0, <2>1, <2>2, ReserveYounger DEF Rows
  <2>7. \A j \in Ids : row'[j].st = "C" => row[j].st = "C"
    BY <1>0, <2>1, <2>2, ReserveYounger DEF Rows, Younger
  <2>8. \A j \in Ids : Leased(j) /\ row[j].st \in {"C", "T"} => row'[j].st \in {"C", "T"}
    BY <1>0, <2>1, <2>2, <2>4, ReserveYounger DEF Rows, Younger, Spared
  <2>9. LeasedFilesStay'
    BY <2>6, <2>8, NoneAssumption DEF ReserveWrite, Safe, LeasedFilesStay, Leased, Types, Unlink
  <2>10. CommittedHasFile'
    BY <2>6, <2>7 DEF ReserveWrite, Safe, CommittedHasFile, Unlink
  <2>11. WriterPrivate'
    BY <2>7, NoneAssumption DEF ReserveWrite, Safe, WriterPrivate, Leased
  <2>12. Keyed'
    BY <1>0, <2>1, <2>2, ReserveYounger DEF Safe, Keyed, Younger, Rows
  <2>13. NoReturn
    BY <1>0, <2>1, <2>2, ReserveYounger DEF ReserveWrite, NoReturn, Younger, Rows
  <2>14. QED
    BY <2>5, <2>9, <2>10, <2>11, <2>12, <2>13 DEF Safe
<1>5. QED
  BY <1>1, <1>2, <1>3, <1>4

LEMMA CollectFailsSafe ==
  ASSUME Safe, NEW done \in SUBSET Ids, NEW half \in SUBSET Ids,
         CollectFails(done, half) \/ CrashInCollect(done, half)
  PROVE  Kept
<1> USE DEF Kept
<1>0. row \in Rows /\ Types
  BY TypeRows DEF Safe
<1>1. ASSUME NEW force, done \subseteq Collectable(Swept, force),
             half \subseteq Collectable(Swept, force) \ done
      PROVE  /\ Younger(Erase(Swept, done))
             /\ \A i \in done \cup half : ~Leased(i) /\ Erase(Swept, done)[i].st \in {"T", "gone"}
  BY <1>0, <1>1, SweepYounger, EraseFacts DEF Collectable, Younger, NoRow
<1>2. CASE CollectFails(done, half)
  <2> DEFINE marked == Victims(Erase(Swept, done), total')
  <2>1. /\ Younger(Erase(Swept, done))
        /\ \A i \in done \cup half : ~Leased(i) /\ Erase(Swept, done)[i].st \in {"T", "gone"}
    BY <1>1, <1>2 DEF CollectFails, PartlyCollected, Dead
  <2>2. \A i \in Ids : i \in marked => Erase(Swept, done)[i].st = "C"
    BY DEF Victims, MarkDown
  <2>3. row' = Retire(Erase(Swept, done), marked)
    BY <1>2 DEF CollectFails
  <2>4. Younger(row')
    BY <2>1, <2>2, <2>3, RetireYounger DEF Live
  <2>5. \A i \in done \cup half : row'[i] = Erase(Swept, done)[i]
    BY <2>1, <2>2, <2>3, RetireFacts DEF Younger
  <2>6. Types'
    BY <1>0, <1>2, <2>4, UpdateTypes, RemainingType
       DEF CollectFails, PartlyCollected, Types, Younger, Rows
  <2>7. QED
    BY <1>0, <1>2, <2>1, <2>4, <2>5, <2>6, ReclaimSafe
       DEF CollectFails, PartlyCollected, Unlink, Safe
<1>3. CASE CrashInCollect(done, half)
  <2>1. /\ Younger(row')
        /\ \A i \in done \cup half : ~Leased(i) /\ row'[i].st \in {"T", "gone"}
    BY <1>1, <1>3 DEF CrashInCollect, PartlyCollected
  <2>2. Types'
    BY <1>0, <1>3, <2>1, UpdateTypes, RemainingType
       DEF CrashInCollect, Dies, PartlyCollected, Types, Younger, Rows
  <2>3. QED
    BY <1>0, <1>3, <2>1, <2>2, ReclaimSafe DEF CrashInCollect, Dies, PartlyCollected, Unlink, Safe
<1>4. QED
  BY <1>2, <1>3

LEMMA EvictFailsSafe ==
  ASSUME Safe, NEW done \in SUBSET Ids, NEW half \in SUBSET Ids, EvictFails(done, half)
  PROVE  Kept
<1> USE DEF Kept
<1>0. row \in Rows /\ Types
  BY TypeRows DEF Safe
<1>1. Younger(row')
  BY <1>0, SweepYounger DEF EvictFails, PartlyCollected, Dead
<1>2. \A i \in done \cup half : ~Leased(i) /\ row'[i].st \in {"T", "gone"}
  BY <1>0, SweepYounger, EraseFacts
     DEF EvictFails, PartlyCollected, Dead, Collectable, Younger, NoRow
<1>3. Types'
  BY <1>0, <1>1, UpdateTypes, RemainingType
     DEF EvictFails, PartlyCollected, Types, Younger, Rows
<1>4. QED
  BY <1>1, <1>2, <1>3, ReclaimSafe DEF EvictFails, PartlyCollected, Unlink, Safe

(* _retire() on one object. *)
LEMMA RetireOrLatchSafe ==
  ASSUME Safe, NEW i \in Ids, RetireOrLatch(i),
         lease' = lease, lim' = lim, phase' = phase, indexed' = indexed,
         durable' \subseteq Keys,
         \/ UNCHANGED <<file, wpc>>
         \/ EndWrite(i) /\ wpc[i] \in {"checked", "writing"}
         \/ /\ wpc[i] = "writing"
            /\ file' = [file EXCEPT ![i] = "final"]
            /\ wpc' = [wpc EXCEPT ![i] = "done"]
  PROVE  Kept
<1> USE DEF Kept
<1>0. row \in Rows /\ Types
  BY TypeRows DEF Safe
<1>1. Younger(row') /\ older' \subseteq Ids \X Ids /\ total' = total /\ failed' \in BOOLEAN
  <2>1. CASE /\ row' = Retire(row, {i} \cap Stored(row))
             /\ older' = InOrder(row')
             /\ UNCHANGED <<failed, lease, total>>
    <3>1. Younger(row')
      BY <1>0, <2>1, SweepYounger, RetireYounger DEF Stored
    <3>2. QED
      BY <1>0, <2>1, <3>1, UpdateTypes DEF Types
  <2>2. CASE failed' = TRUE /\ UNCHANGED dbVars
    <3>1. failed' \in BOOLEAN
      BY <2>2, Zenon
    <3>2. QED
      BY <1>0, <2>2, <3>1, SweepYounger DEF Types, dbVars
  <2>3. QED
    BY <2>1, <2>2 DEF RetireOrLatch
<1>2. \A j \in Ids : file'[j] = file[j] \/ (~Leased(j) /\ row'[j].st # "C")
  <2>1. file[i] = "part" => ~Leased(i) /\ row[i].st # "C"
    BY NoneAssumption DEF Safe, CommittedHasFile, LeasedFilesStay, Leased, Placed
  <2>2. wpc[i] = "writing" => ~Leased(i) /\ row[i].st # "C"
    BY DEF Safe, WriterPrivate
  <2>3. row'[i].st = "C" => row[i].st = "C"
    BY <1>1 DEF Younger
  <2>4. \A j \in Ids \ {i} : file'[j] = file[j]
    BY <1>0 DEF Types, EndWrite, UnlinkTemp
  <2>5. file'[i] = file[i] \/ file[i] = "part" \/ wpc[i] = "writing"
    BY DEF EndWrite, UnlinkTemp
  <2>6. QED
    BY <2>1, <2>2, <2>3, <2>4, <2>5
<1>3. file' \in [Ids -> {"absent", "part"} \cup Placed]
  BY <1>0 DEF Types, EndWrite, UnlinkTemp, Placed
<1>w. /\ wpc' \in [Ids -> {"idle", "checked", "writing", "done", "stuck"}]
      /\ \A j \in Ids : wpc'[j] = "done" \/ wpc[j] # "done"
  BY <1>0 DEF Types, EndWrite
<1>4. Types'
  BY <1>0, <1>1, <1>3, <1>w DEF Types, Younger, Rows
<1>5. \A j \in Ids : wpc'[j] = "done" \/ wpc[j] # "done"
  BY <1>w
<1>6. QED
  BY <1>1, <1>2, <1>4, <1>5, ReclaimSafe DEF Safe

LEMMA WriterSafe ==
  ASSUME Safe, NEW i \in Ids,
         WriteStep(i) \/ PayloadFails(i) \/ CommitFails(i) \/ CrashAfterRename(i)
  PROVE  Kept
<1> USE DEF Kept
<1>0. row \in Rows /\ Types /\ Younger(row)
  BY TypeRows, SweepYounger DEF Safe
<1>1. CASE BeginWrite(i)
  <2>1. Types'
    BY <1>0, <1>1 DEF BeginWrite, Types, dbVars, ramVars
  <2>2. \A j \in Ids : wpc'[j] = "done" \/ wpc[j] # "done"
    BY <1>0, <1>1 DEF BeginWrite, Types
  <2>3. QED
    BY <1>0, <1>1, <2>1, <2>2, ReclaimSafe DEF BeginWrite, dbVars, Safe
<1>2. CASE OpenPartial(i)
  <2>1. Types'
    BY <1>0, <1>2 DEF OpenPartial, Types, dbVars, ramVars
  <2>2. \A j \in Ids : wpc'[j] = "done" \/ wpc[j] # "done"
    BY <1>0, <1>2 DEF OpenPartial, Types
  <2>3. ~Leased(i) /\ row[i].st # "C"
    BY <1>2 DEF OpenPartial, Safe, WriterPrivate
  <2>4. \A j \in Ids : file'[j] = file[j] \/ j = i
    BY <1>0, <1>2 DEF OpenPartial, Types
  <2>5. QED
    BY <1>0, <1>2, <2>1, <2>2, <2>3, <2>4, ReclaimSafe DEF OpenPartial, dbVars, Safe
<1>3. CASE DiscardWrite(i)
  <2>1. file' \in [Ids -> {"absent", "part"} \cup Placed]
    BY <1>0, <1>3 DEF DiscardWrite, EndWrite, Types, UnlinkTemp
  <2>w. /\ wpc' \in [Ids -> {"idle", "checked", "writing", "done", "stuck"}]
        /\ \A j \in Ids : wpc'[j] = "done" \/ wpc[j] # "done"
    BY <1>0, <1>3 DEF DiscardWrite, EndWrite, Types
  <2>2. Types'
    BY <1>0, <1>3, <2>1, <2>w DEF DiscardWrite, Types, dbVars, ramVars
  <2>3. ~Leased(i) /\ row[i].st # "C"
    BY <1>3 DEF DiscardWrite, Safe, WriterPrivate
  <2>4. \A j \in Ids : file'[j] = file[j] \/ j = i
    BY <1>0, <1>3 DEF DiscardWrite, EndWrite, Types, UnlinkTemp
  <2>5. QED
    BY <1>0, <1>3, <2>2, <2>3, <2>4, <2>w, ReclaimSafe DEF DiscardWrite, dbVars, Safe
<1>4. CASE CommitWrite(i)
  <2>1. /\ \A j \in Ids \ {i} : row'[j] = row[j] /\ file'[j] = file[j] /\ wpc'[j] = wpc[j]
        /\ row'[i].st = "C" /\ file'[i] = "final" /\ wpc'[i] = "done"
        /\ row' \in Rows
    <3>1. row \in Rows /\ Lease \in Nat /\ "C" \in Live
      BY <1>0, TimeAssumption DEF Types, Live, Rows
    <3>2. row' = [row EXCEPT ![i].st = "C", ![i].left = Lease]
      BY <1>4 DEF CommitWrite
    <3>3. row' \in Rows /\ row'[i].st = "C" /\ \A j \in Ids \ {i} : row'[j] = row[j]
      BY <3>1, <3>2 DEF Rows
    <3>4. /\ file'[i] = "final" /\ wpc'[i] = "done"
          /\ \A j \in Ids \ {i} : file'[j] = file[j] /\ wpc'[j] = wpc[j]
      BY <1>0, <1>4 DEF CommitWrite, Types
    <3>5. QED
      BY <3>3, <3>4
  <2>2. row[i].st = "W" /\ row[i].key \in Keys /\ row'[i].key = row[i].key
    BY <1>0, <1>4 DEF CommitWrite, StillReserved, Rows, Safe, Keyed, Live
  <2>3. ~Leased(i)
    BY <1>4 DEF CommitWrite, Safe, WriterPrivate
  <2>4. durable' \subseteq Keys
    BY <1>0, <1>4, <2>2 DEF CommitWrite, Note, Types
  <2>5. LeasedFilesStay'
    BY <1>4, <2>1, <2>3, NoneAssumption
       DEF CommitWrite, Safe, LeasedFilesStay, Leased, Types, Placed
  <2>6. CommittedHasFile'
    BY <2>1 DEF Safe, CommittedHasFile, Placed
  <2>7. WriterPrivate'
    BY <1>4, <2>1, <2>3 DEF CommitWrite, Safe, WriterPrivate, Leased
  <2>8. Keyed'
    BY <2>1, <2>2 DEF Safe, Keyed
  <2>9. Types'
    <3>1. file' \in [Ids -> {"absent", "part"} \cup Placed]
      BY <1>0, <1>4 DEF CommitWrite, Types, Placed
    <3>2. wpc' \in [Ids -> {"idle", "checked", "writing", "done", "stuck"}]
      BY <1>0, <1>4 DEF CommitWrite, Types
    <3>3. older' \subseteq Ids \X Ids
      BY <1>0, <1>4, UpdateTypes DEF CommitWrite
    <3>4. row' \in Rows
      BY <2>1
    <3>5. UNCHANGED <<lease, total, indexed, failed, lim, phase>>
      BY <1>4 DEF CommitWrite
    <3>6. QED
      BY <1>0, <2>4, <3>1, <3>2, <3>3, <3>4, <3>5 DEF Types, Rows
  <2>10. NoReturn
    BY <2>1, <2>2 DEF NoReturn
  <2>11. QED
    BY <2>5, <2>6, <2>7, <2>8, <2>9, <2>10 DEF Safe
<1>5. CASE PayloadFails(i) \/ CommitFails(i)
  <2>1. durable' \subseteq Keys
    BY <1>0, <1>5 DEF PayloadFails, CommitFails, Types
  <2>2. lease' = lease
    BY <1>5 DEF PayloadFails, CommitFails, RetireOrLatch, dbVars
  <2>3. QED
    BY <1>5, <2>1, <2>2, RetireOrLatchSafe DEF PayloadFails, CommitFails
<1>6. CASE CrashAfterRename(i)
  <2>1. /\ row' = row /\ lease' = lease
        /\ \A j \in Ids : wpc'[j] = "done" \/ row[j].st = "new"
    BY <1>6 DEF CrashAfterRename, Dies
  <2>2. ~Leased(i) /\ row[i].st # "C"
    BY <1>6 DEF CrashAfterRename, Safe, WriterPrivate
  <2>3. file' \in [Ids -> {"absent", "part"} \cup Placed]
    BY <1>0, <1>6 DEF CrashAfterRename, Types, Placed
  <2>4. Types'
    BY <1>0, <1>6, <2>3, UpdateTypes, Zenon DEF CrashAfterRename, Dies, Types
  <2>5. \A j \in Ids : file'[j] = file[j] \/ j = i
    BY <1>0, <1>6 DEF CrashAfterRename, Types
  <2>6. QED
    BY <1>0, <2>1, <2>2, <2>4, <2>5, ReclaimSafe DEF Safe
<1>7. QED
  BY <1>1, <1>2, <1>3, <1>4, <1>5, <1>6 DEF WriteStep

LEMMA ReaderSafe ==
  ASSUME Safe, NEW l \in Leases,
         \/ ReadInto(l) \/ ReadFails(l) \/ ReleaseRead(l) \/ RenewRead(l)
         \/ \E i \in Ids : ReserveRead(l, i)
  PROVE  Kept
<1> USE DEF Kept
<1>0. row \in Rows /\ Types /\ Younger(row)
  BY TypeRows, SweepYounger DEF Safe
<1>1. CASE ReadInto(l)
  <2> DEFINE i == lease[l].obj
  <2>1. i \in Ids
    BY <1>0, <1>1 DEF ReadInto, Types
  <2>2. CASE row[i].st = "C"
    <3>1. row' = [row EXCEPT ![i].left = Lease] /\ older' = Touched(i)
      BY <1>1, <2>2 DEF ReadInto
    <3>2. row' \in Rows /\ Younger(row')
      BY <1>0, <2>1, <2>2, <3>1, TimeAssumption DEF Rows, Younger, Spared
    <3>3. older' \subseteq Ids \X Ids
      BY <1>0, <2>1, <3>1, UpdateTypes
    <3>4. Types'
      BY <1>0, <1>1, <3>2, <3>3 DEF ReadInto, Types, Rows, ramVars
    <3>5. QED
      BY <1>1, <3>2, <3>4, ReclaimSafe DEF ReadInto, Safe
  <2>3. CASE row[i].st # "C"
    <3>1. row' = row /\ older' = older
      BY <1>1, <2>3 DEF ReadInto
    <3>2. Types'
      BY <1>0, <1>1, <3>1 DEF ReadInto, Types, ramVars
    <3>3. QED
      BY <1>0, <1>1, <3>1, <3>2, ReclaimSafe DEF ReadInto, Safe
  <2>4. QED
    BY <2>2, <2>3
<1>2. CASE ReadFails(l)
  <2>1. lease[l].obj \in Ids
    BY <1>0, <1>2 DEF ReadFails, Types
  <2>2. durable' \subseteq Keys
    BY <1>0, <1>2, UpdateTypes DEF ReadFails
  <2>3. RetireOrLatch(lease[l].obj) /\ lease' = lease
    BY <1>2 DEF ReadFails, RetireOrLatch, dbVars
  <2>4. QED
    BY <1>2, <2>1, <2>2, <2>3, RetireOrLatchSafe DEF ReadFails
<1>3. CASE ReleaseRead(l) \/ RenewRead(l)
  <2>1. /\ \A t \in Leases : lease'[t].obj \in {None, lease[t].obj}
        /\ lease' \in [Leases -> [obj : Ids \cup {None}, left : Nat]]
    <3>1. lease \in [Leases -> [obj : Ids \cup {None}, left : Nat]] /\ Lease \in Nat
      BY <1>0, TimeAssumption DEF Types
    <3>2. CASE ReleaseRead(l)
      BY <3>1, <3>2 DEF ReleaseRead, FreeLease
    <3>3. CASE RenewRead(l)
      BY <3>1, <3>3 DEF RenewRead, Renewed
    <3>4. QED
      BY <1>3, <3>2, <3>3
  <2>2. Types'
    BY <1>0, <1>3, <2>1 DEF ReleaseRead, RenewRead, Types, ramVars
  <2>3. QED
    BY <1>0, <1>3, <2>1, <2>2, ReclaimSafe DEF ReleaseRead, RenewRead, Safe
<1>4. CASE \E i \in Ids : ReserveRead(l, i)
  <2> PICK i \in Ids : ReserveRead(l, i)
    BY <1>4
  <2>1. Swept \in Rows /\ Younger(Swept) /\ row' = [Swept EXCEPT ![i].left = Lease]
    BY <1>0, SweepYounger DEF ReserveRead, Swept, Younger
  <2>2. i \notin Overdue(row) /\ row[i].st = "C"
    BY DEF ReserveRead, Overdue
  <2>3. Swept[i] = row[i]
    BY <1>0, <2>2, RetireFacts DEF Swept, Expire
  <2>4. row' \in Rows /\ Younger(row') /\ row'[i].st = "C"
    BY <2>1, <2>2, <2>3, TimeAssumption DEF Rows, Younger, Spared
  <2>5. lease' \in [Leases -> [obj : Ids \cup {None}, left : Nat]]
    BY <1>0, TimeAssumption DEF ReserveRead, Types
  <2>6. Types'
    BY <1>0, <2>4, <2>5 DEF ReserveRead, Types, Rows, ramVars
  <2>7. Keyed' /\ CommittedHasFile'
    BY <2>4 DEF ReserveRead, Safe, Keyed, CommittedHasFile, Younger
  <2>8. LeasedFilesStay'
    <3> SUFFICES ASSUME NEW t \in Leases, lease'[t].obj # None
                 PROVE  /\ row'[lease'[t].obj].st \in {"C", "T"}
                        /\ file'[lease'[t].obj] \in Placed
      BY DEF LeasedFilesStay
    <3>1. CASE t = l
      BY <1>0, <2>4, <3>1 DEF ReserveRead, Types, RightSize, Placed
    <3>2. CASE t # l
      <4>1. lease'[t] = lease[t] /\ lease[t].obj \in Ids /\ Leased(lease[t].obj)
        BY <1>0, <3>2 DEF ReserveRead, Types, Leased
      <4>2. row[lease[t].obj].st \in {"C", "T"} /\ file[lease[t].obj] \in Placed
        BY <4>1 DEF Safe, LeasedFilesStay
      <4>3. QED
        BY <2>4, <4>1, <4>2 DEF ReserveRead, Younger, Spared
    <3>3. QED
      BY <3>1, <3>2
  <2>9. WriterPrivate'
    <3> SUFFICES ASSUME NEW j \in Ids, wpc[j] # "done"
                 PROVE  row'[j].st # "C" /\ ~Leased(j)'
      BY DEF WriterPrivate, ReserveRead
    <3>1. row[j].st # "C" /\ ~Leased(j) /\ j # i
      BY <2>2 DEF Safe, WriterPrivate
    <3>2. QED
      BY <1>0, <2>4, <3>1 DEF Leased, ReserveRead, Types, Younger
  <2>10. NoReturn
    BY <2>4 DEF NoReturn, Younger
  <2>11. QED
    BY <2>6, <2>7, <2>8, <2>9, <2>10 DEF Safe
<1>5. QED
  BY <1>1, <1>2, <1>3, <1>4

LEMMA OtherSafe ==
  ASSUME Safe,
         \/ \E k \in Keys : ReserveReadMiss(k) \/ Invalidate(k)
         \/ \E i \in Ids : ReleaseWrite(i) \/ RenewWrite(i) \/ Damage(i)
         \/ ReleaseFails \/ ClearFailure \/ Close \/ Crash
  PROVE  Kept
<1> USE DEF Kept
<1>0. row \in Rows /\ Types /\ Younger(row)
  BY TypeRows, SweepYounger DEF Safe
<1>1. ASSUME NEW k \in Keys, ReserveReadMiss(k) PROVE Kept
  <2>1. row' = Swept
    BY <1>1 DEF ReserveReadMiss, Swept
  <2>2. Younger(row') /\ row' \in Rows
    BY <1>0, <2>1, SweepYounger DEF Younger
  <2>3. Types'
    BY <1>0, <1>1, <2>2 DEF ReserveReadMiss, Types, Rows, ramVars
  <2>4. QED
    BY <1>1, <2>2, <2>3, ReclaimSafe DEF ReserveReadMiss, Safe
<1>2. ASSUME NEW k \in Keys, Invalidate(k) PROVE Kept
  <2>1. PICK i \in Holding(row, k) : RetireOrLatch(i)
    BY <1>2 DEF Invalidate
  <2>2. i \in Ids
    BY DEF Holding
  <2>3. durable' \subseteq Keys
    BY <1>0, <1>2, UpdateTypes DEF Invalidate
  <2>4. lease' = lease
    BY <2>1 DEF RetireOrLatch, dbVars
  <2>5. QED
    BY <1>2, <2>1, <2>2, <2>3, <2>4, RetireOrLatchSafe DEF Invalidate
<1>3. ASSUME NEW i \in Ids, ReleaseWrite(i) \/ RenewWrite(i) PROVE Kept
  <2>1. Younger(row')
    <3>1. CASE row' = Retire(row, {i}) /\ row[i].st = "W"
      BY <1>0, <3>1, RetireYounger DEF Live
    <3>2. CASE row' = [row EXCEPT ![i].left = 0] \/ row' = [row EXCEPT ![i].left = Lease]
      BY <1>0, <3>2, TimeAssumption DEF Rows, Younger, Spared
    <3>3. QED
      BY <1>3, <3>1, <3>2 DEF ReleaseWrite, RenewWrite, Renewed
  <2>2. UNCHANGED <<lease, total, older, file, ramVars, wpc>>
    BY <1>3 DEF ReleaseWrite, RenewWrite
  <2>3. Types'
    BY <1>0, <2>1, <2>2 DEF Types, Younger, Rows, ramVars
  <2>4. QED
    BY <2>1, <2>2, <2>3, ReclaimSafe DEF Safe
<1>4. ASSUME NEW i \in Ids, Damage(i) PROVE Kept
  <2>1. PICK f \in {"flipped", "short"} : file' = [file EXCEPT ![i] = f]
    BY <1>4 DEF Damage
  <2>2. UNCHANGED <<dbVars, ramVars, wpc>> /\ file[i] = "final"
    BY <1>4 DEF Damage
  <2>3. Types'
    BY <1>0, <2>1, <2>2 DEF Types, dbVars, ramVars, Placed
  <2>4. \A j \in Ids : file'[j] = file[j] \/ (file[j] \in Placed /\ file'[j] \in Placed)
    BY <1>0, <2>1, <2>2 DEF Types, Placed
  <2>5. QED
    BY <1>0, <2>2, <2>3, <2>4, ReclaimSafe DEF Safe, dbVars
<1>5. CASE ReleaseFails \/ ClearFailure \/ Close
  <2>1. failed' \in BOOLEAN
    BY <1>0, <1>5, Zenon DEF ReleaseFails, ClearFailure, Close, Types
  <2>2. phase' \in {"up", "closed", "down"} \cup Recovering
    BY <1>0, <1>5 DEF ReleaseFails, ClearFailure, Close, Types
  <2>3. UNCHANGED <<dbVars, file, durable, indexed, lim, wpc>>
    BY <1>5 DEF ReleaseFails, ClearFailure, Close
  <2>4. Types'
    BY <1>0, <2>1, <2>2, <2>3, Zenon DEF Types, dbVars
  <2>5. QED
    BY <1>0, <2>3, <2>4, ReclaimSafe DEF Safe, dbVars
<1>6. CASE Crash
  <2>1. UNCHANGED <<row, lease, file, total, lim>>
    BY <1>6 DEF Crash, Dies
  <2>2. wpc' = [i \in Ids |-> IF row[i].st = "new" THEN "idle" ELSE "done"]
    BY <1>6 DEF Crash, Dies
  <2>3. wpc' \in [Ids -> {"idle", "checked", "writing", "done", "stuck"}]
    BY <2>2
  <2>4. indexed' \in BOOLEAN /\ failed' \in BOOLEAN
    BY <1>6, Zenon DEF Crash, Dies
  <2>5. durable' \subseteq Keys /\ older' \subseteq Ids \X Ids /\ phase' = "down"
    BY <1>0, <1>6, UpdateTypes DEF Crash, Dies
  <2>6. Types'
    BY <1>0, <2>1, <2>3, <2>4, <2>5 DEF Types
  <2>7. QED
    BY <1>0, <2>1, <2>2, <2>6, ReclaimSafe DEF Safe
<1>7. QED
  BY <1>1, <1>2, <1>3, <1>4, <1>5, <1>6

LEMMA RecoverySafe ==
  ASSUME Safe,
         \/ \E c \in Limits : RecoverReset(c)
         \/ \E i \in Ids : RecoverScan(i)
         \/ RecoverSweep \/ RecoverVerify \/ RecoverShrink \/ RecoverOpen
  PROVE  Kept
<1> USE DEF Kept
<1>0. row \in Rows /\ Types /\ Younger(row)
  BY TypeRows, SweepYounger DEF Safe
<1>1. ASSUME NEW c \in Limits, RecoverReset(c) PROVE Kept
  <2>1. row' = [i \in Ids |->
                  CASE row[i].st = "W" -> [row[i] EXCEPT !.st = "T", !.left = 0]
                    [] row[i].st = "C" -> [row[i] EXCEPT !.left = Lease]
                    [] OTHER -> row[i]]
    BY <1>1 DEF RecoverReset
  <2>2. \A i \in Ids : /\ row'[i] \in [st : Live \cup {"new", "gone"}, key : Keys \cup {None},
                                       charge : 0..MaxCharge, left : Nat]
                       /\ row'[i].key = row[i].key /\ row'[i].charge = row[i].charge
                       /\ row'[i].st = row[i].st \/ (row[i].st = "W" /\ row'[i].st = "T")
    <3> TAKE i \in Ids
    <3>1. row[i] \in [st : Live \cup {"new", "gone"}, key : Keys \cup {None},
                     charge : 0..MaxCharge, left : Nat]
      BY <1>0 DEF Rows
    <3>2. CASE row[i].st = "W"
      BY <2>1, <3>1, <3>2 DEF Live
    <3>3. CASE row[i].st = "C"
      BY <2>1, <3>1, <3>3, TimeAssumption DEF Live
    <3>4. CASE row[i].st \notin {"W", "C"}
      BY <2>1, <3>1, <3>4
    <3>5. QED
      BY <3>2, <3>3, <3>4
  <2>3. row' \in Rows
    BY <2>1, <2>2 DEF Rows
  <2>4. Younger(row')
    BY <2>2, <2>3 DEF Younger, Spared, Live
  <2>5. lease' \in [Leases -> [obj : Ids \cup {None}, left : Nat]]
        /\ \A l \in Leases : lease'[l].obj = None
    BY <1>1 DEF RecoverReset, FreeLease
  <2>6. total' \in Int
    <3>1. Stored(row) \subseteq Ids
      BY DEF Stored
    <3>2. Bytes(row, Stored(row)) \in Nat
      BY <1>0, <3>1, BytesType
    <3>3. total' = Bytes(row, Stored(row))
      BY <1>1, Zenon DEF RecoverReset
    <3>4. QED
      BY <3>2, <3>3
  <2>7. phase' \in Recovering /\ lim' \in Limits
        /\ UNCHANGED <<older, file, durable, indexed, failed, wpc>>
    BY <1>1 DEF RecoverReset, Recovering
  <2>8. Types'
    BY <1>0, <2>3, <2>5, <2>6, <2>7 DEF Types, Rows
  <2>9. QED
    BY <2>4, <2>5, <2>7, <2>8, ReclaimSafe DEF Safe
<1>2. ASSUME NEW i \in Ids, RecoverScan(i) PROVE Kept
  <2>1. ~Leased(i) /\ row[i].st # "C"
    BY <1>2, NoneAssumption DEF RecoverScan, Orphans, Live, Safe, LeasedFilesStay,
                                CommittedHasFile, Leased, Placed
  <2>2. \A j \in Ids : file'[j] = file[j] \/ j = i
    BY <1>0, <1>2 DEF RecoverScan, Types
  <2>3. Types'
    BY <1>0, <1>2 DEF RecoverScan, Types, dbVars, ramVars
  <2>4. QED
    BY <1>0, <1>2, <2>1, <2>2, <2>3, ReclaimSafe DEF RecoverScan, Safe, dbVars
<1>3. CASE RecoverSweep
  <2> DEFINE dead == Collectable(Swept, TRUE)
  <2>1. Younger(row') /\ \A i \in dead : ~Leased(i) /\ row'[i] = NoRow
    BY <1>0, <1>3, SweepYounger, EraseFacts DEF RecoverSweep, Collectable, Younger
  <2>2. phase' \in Recovering
    BY <1>3 DEF RecoverSweep, AfterSweep, Recovering
  <2>3. total' \in Int
    BY <1>0, <1>3, RemainingType DEF RecoverSweep, Collectable
  <2>4. file' = Unlink(dead) /\ UNCHANGED <<lease, older, durable, indexed, failed, lim, wpc>>
    BY <1>3 DEF RecoverSweep
  <2>5. Types'
    BY <1>0, <2>1, <2>2, <2>3, <2>4, UpdateTypes DEF Types, Younger, Rows
  <2>6. ASSUME NEW i \in Ids
        PROVE  file'[i] = file[i] \/ (~Leased(i) /\ row'[i].st # "C")
    <3>1. file'[i] = IF i \in dead THEN "absent" ELSE file[i]
      BY <2>4 DEF Unlink
    <3>2. CASE i \in dead
      <4>1. row'[i] = NoRow /\ ~Leased(i)
        BY <2>1, <3>2, Zenon
      <4>2. QED
        BY <4>1 DEF NoRow
    <3>3. QED
      BY <3>1, <3>2
  <2>7. QED
    BY <2>1, <2>4, <2>5, <2>6, ReclaimSafe DEF Safe
<1>4. CASE RecoverVerify \/ RecoverShrink
  <2>1. Younger(row')
    <3>1. CASE RecoverVerify
      <4>1. row' = [i \in Ids |-> IF row[i].st = "C" /\ file[i] \notin RightSize
                                 THEN [row[i] EXCEPT !.st = "T", !.left = 0] ELSE row[i]]
        BY <3>1 DEF RecoverVerify
      <4>2. row' \in Rows
        BY <1>0, <4>1 DEF Rows, Live
      <4>3. \A i \in Ids : /\ row'[i].key = row[i].key /\ row'[i].charge = row[i].charge
                           /\ row'[i].st = row[i].st \/ (row[i].st = "C" /\ row'[i].st = "T")
        BY <1>0, <4>1 DEF Rows
      <4>4. QED
        BY <4>2, <4>3 DEF Younger, Spared, Live
    <3>2. CASE RecoverShrink
      <4>1. \A i \in Ids : i \in MarkDown(row, total, InState(row, "C")) => row[i].st \in Live
        BY DEF MarkDown, InState, Live
      <4>2. QED
        BY <1>0, <3>2, <4>1, RetireYounger DEF RecoverShrink
    <3>3. QED
      BY <1>4, <3>1, <3>2
  <2>2. phase' \in Recovering /\ older' \subseteq Ids \X Ids
        /\ UNCHANGED <<lease, total, file, durable, indexed, failed, lim, wpc>>
    BY <1>0, <1>4, UpdateTypes DEF RecoverVerify, RecoverShrink, Recovering
  <2>3. Types'
    BY <1>0, <2>1, <2>2 DEF Types, Younger, Rows
  <2>4. QED
    BY <2>1, <2>2, <2>3, ReclaimSafe DEF Safe
<1>5. CASE RecoverOpen
  <2>1. indexed' \in BOOLEAN
    BY <1>5, Zenon DEF RecoverOpen
  <2>2. durable' \subseteq Keys
    <3>1. KeysOf(row, InState(row, "C")) \subseteq Keys
      BY DEF KeysOf, InState, Safe, Keyed, Live
    <3>2. QED
      BY <1>5, <3>1 DEF RecoverOpen
  <2>3. phase' = "up" /\ UNCHANGED <<dbVars, file, failed, lim, wpc>>
    BY <1>5 DEF RecoverOpen
  <2>4. Types'
    BY <1>0, <2>1, <2>2, <2>3 DEF Types, dbVars
  <2>5. QED
    BY <1>0, <2>3, <2>4, ReclaimSafe DEF Safe, dbVars
<1>6. QED
  BY <1>1, <1>2, <1>3, <1>4, <1>5

LEMMA StepSafe == Safe /\ [Next]_vars => Safe' /\ NoReturn
<1> SUFFICES ASSUME Safe, [Next]_vars PROVE Safe' /\ NoReturn
  OBVIOUS
<1>1. CASE UNCHANGED vars
  <2>1. UNCHANGED <<row, lease, total, older, file, durable, indexed, failed, lim, phase, wpc>>
    BY <1>1 DEF vars
  <2>2. QED
    BY <2>1 DEF Safe, Types, Keyed, LeasedFilesStay, CommittedHasFile, WriterPrivate, Leased,
                NoReturn
<1>2. CASE Next
  BY <1>2, TickSafe, ReserveWriteSafe, CollectFailsSafe, EvictFailsSafe, WriterSafe,
     ReaderSafe, OtherSafe, RecoverySafe
     DEF Next, Kept
<1>3. QED
  BY <1>1, <1>2

(* The tables keep their types through every operation, failure, crash and *)
(* recovery, and the invariants below hold in every reachable state.       *)
THEOREM StoreSafe == Spec => []Safe
<1>1. QED
  BY InitSafe, StepSafe, PTL DEF Spec


(* No collection, eviction, invalidation, supersession or failure takes a  *)
(* file from a reader whose lease has not ended.                           *)
THEOREM LeasesProtectFiles == Spec => []LeasedFilesStay
<1>1. Safe => LeasedFilesStay
  BY DEF Safe
<1>2. QED
  BY <1>1, StoreSafe, PTL

(* The index never promises an object whose file is not in place, whatever *)
(* the point at which the process died.                                    *)
THEOREM CommitsAreDurable == Spec => []CommittedHasFile
<1>1. Safe => CommittedHasFile
  BY DEF Safe
<1>2. QED
  BY <1>1, StoreSafe, PTL

(* An object that was invalidated, evicted, superseded or abandoned is     *)
(* never served again: no writer, reader or recovery brings it back.       *)
THEOREM RetiredForever == Spec => NoResurrection
<1>1. Safe /\ [Next]_vars => [NoReturn]_vars
  BY StepSafe
<1>2. QED
  BY <1>1, StoreSafe, PTL DEF Spec, NoResurrection, NoReturn

-----------------------------------------------------------------------------
(* Deadlines.  Rows are only ever given a whole period of their own state. *)

Timed(r) == \A i \in Ids : r[i].left <= Period(r[i].st)

LEMMA TableTimed ==
  ASSUME NEW r \in Rows, Timed(r), NEW S
  PROVE  Timed(Retire(r, S)) /\ Timed(Erase(r, S))
BY TimeAssumption DEF Timed, Retire, Erase, Rows, NoRow, Period

LEMMA ReserveTimed ==
  ASSUME row \in Rows, Timed(row), NEW k
  PROVE  /\ \A S : Timed(Erase(Swept, S))
         /\ \A S, D : Timed(Retire(Erase(Swept, S), D))
         /\ Timed(Evicted) /\ Timed(Freed(k))
         /\ Evicted \in Rows /\ Freed(k) \in Rows
<1>1. Swept \in Rows /\ Timed(Swept)
  BY TableTimed, RetireFacts DEF Swept, Expire
<1>2. \A S : Erase(Swept, S) \in Rows /\ Timed(Erase(Swept, S))
  BY <1>1, TableTimed, EraseFacts
<1>3. \A S, D : Timed(Retire(Erase(Swept, S), D)) /\ Retire(Erase(Swept, S), D) \in Rows
  BY <1>2, TableTimed, RetireFacts
<1>4. Evicted \in Rows /\ Timed(Evicted)
  BY <1>3 DEF Evicted, Collected
<1>5. QED
  BY <1>2, <1>3, <1>4, TableTimed, EraseFacts DEF Freed

LEMMA TimelyStep == Safe /\ Timely /\ [Next]_vars => Timely'
<1> SUFFICES ASSUME Safe, Timely, [Next]_vars PROVE Timely'
  OBVIOUS
<1>0. row \in Rows /\ Timed(row) /\ (Timed(row') /\ lease' = lease => Timely')
  BY TypeRows DEF Safe, Timely, Timed
<1>1. ASSUME row' = row, lease' = lease PROVE Timely'
  BY <1>0, <1>1
<1>2. CASE Tick
  <2>0. \A i \in Ids : row'[i] = [row[i] EXCEPT !.left = Down(row[i].left)]
    BY <1>2 DEF Tick
  <2>1. \A i \in Ids : /\ row'[i].left \in Nat /\ row[i].left \in Nat
                       /\ row'[i].left <= row[i].left /\ row'[i].st = row[i].st
    <3>1. \A n \in Nat : Down(n) \in Nat /\ Down(n) <= n
      BY DEF Down
    <3>2. \A i \in Ids : /\ row[i].left \in Nat
                         /\ row'[i].left = Down(row[i].left) /\ row'[i].st = row[i].st
      BY <1>0, <2>0 DEF Rows
    <3>3. QED
      BY <3>1, <3>2
  <2>2. \A l \in Leases : lease'[l].left <= Lease
    <3> SUFFICES ASSUME NEW l \in Leases PROVE lease'[l].left <= Lease
      OBVIOUS
    <3>1. lease[l] \in [obj : Ids \cup {None}, left : Nat] /\ lease[l].left <= Lease
      BY DEF Safe, Types, Timely
    <3>2. lease'[l] = IF lease[l].left <= 1 THEN FreeLease
                      ELSE [lease[l] EXCEPT !.left = lease[l].left - 1]
      BY <1>2 DEF Tick
    <3>3. CASE lease[l].left <= 1
      BY <3>2, <3>3, TimeAssumption DEF FreeLease
    <3>4. CASE ~(lease[l].left <= 1)
      BY <3>1, <3>2, <3>4, TimeAssumption
    <3>5. QED
      BY <3>3, <3>4
  <2>3. \A i \in Ids : row'[i].left <= Period(row'[i].st)
    <3> SUFFICES ASSUME NEW i \in Ids PROVE row'[i].left <= Period(row'[i].st)
      OBVIOUS
    <3>1. row[i].left <= Period(row[i].st) /\ Period(row[i].st) \in Nat
      BY <1>0, TimeAssumption DEF Timed, Period
    <3>2. QED
      BY <2>1, <3>1
  <2>4. QED
    BY <2>2, <2>3 DEF Timely
<1>3. ASSUME NEW k \in Keys,
             \/ ReserveWriteRefused(k) \/ AdmissionFails(k) \/ CrashInSupersede(k)
             \/ \E c \in 1..MaxCharge, i \in Ids : ReserveWrite(k, c, i)
      PROVE  Timely'
  <2>1. CASE ReserveWriteRefused(k) \/ AdmissionFails(k) \/ CrashInSupersede(k)
    BY <1>0, <2>1, ReserveTimed DEF ReserveWriteRefused, AdmissionFails, CrashInSupersede, Dies
  <2>2. ASSUME NEW c \in 1..MaxCharge, NEW i \in Ids, ReserveWrite(k, c, i) PROVE Timely'
    <3>1. /\ row' = [Freed(k) EXCEPT ![i] = [st |-> "W", key |-> k, charge |-> c, left |-> Lease]]
          /\ lease' = lease
      BY <2>2 DEF ReserveWrite
    <3>2. Timed(row')
      BY <1>0, <3>1, ReserveTimed, TimeAssumption DEF Timed, Period, Rows
    <3>3. QED
      BY <1>0, <3>1, <3>2
  <2>3. QED
    BY <1>3, <2>1, <2>2
<1>4. ASSUME NEW done, NEW half,
             CollectFails(done, half) \/ EvictFails(done, half) \/ CrashInCollect(done, half)
      PROVE  Timely'
  BY <1>0, <1>4, ReserveTimed DEF CollectFails, EvictFails, CrashInCollect, Dies
<1>5. ASSUME NEW i, RetireOrLatch(i) PROVE Timely'
  BY <1>0, <1>5, TableTimed DEF RetireOrLatch, dbVars
<1>6. ASSUME NEW i \in Ids,
             \/ WriteStep(i) \/ PayloadFails(i) \/ CommitFails(i)
             \/ ReleaseWrite(i) \/ RenewWrite(i)
             \/ CrashAfterRename(i) \/ Damage(i) \/ RecoverScan(i)
      PROVE  Timely'
  <2>1. CASE \/ BeginWrite(i) \/ OpenPartial(i) \/ DiscardWrite(i)
             \/ CrashAfterRename(i) \/ Damage(i) \/ RecoverScan(i)
    BY <1>1, <2>1 DEF BeginWrite, OpenPartial, DiscardWrite, CrashAfterRename, Dies, Damage,
                      RecoverScan, dbVars
  <2>2. CASE PayloadFails(i) \/ CommitFails(i)
    BY <1>5, <2>2 DEF PayloadFails, CommitFails
  <2>3. CASE CommitWrite(i) \/ ReleaseWrite(i) \/ RenewWrite(i)
    <3>1. /\ lease' = lease
          /\ \/ row' = [row EXCEPT ![i].st = "C", ![i].left = Lease]
             \/ row' = [row EXCEPT ![i].left = 0]
             \/ row' = Retire(row, {i})
             \/ row' = [row EXCEPT ![i].left = Lease] /\ row[i].st \in {"W", "C"}
      BY <2>3 DEF CommitWrite, ReleaseWrite, RenewWrite, Renewed
    <3>2. Timed(row')
      BY <1>0, <3>1, TableTimed, TimeAssumption DEF Timed, Period, Rows
    <3>3. QED
      BY <1>0, <3>1, <3>2
  <2>4. QED
    BY <1>6, <2>1, <2>2, <2>3 DEF WriteStep
<1>7. ASSUME NEW l \in Leases,
             \/ ReadInto(l) \/ ReadFails(l) \/ ReleaseRead(l) \/ RenewRead(l)
             \/ \E i \in Ids : ReserveRead(l, i)
      PROVE  Timely'
  <2>1. CASE ReadInto(l)
    <3>1. /\ lease' = lease /\ lease[l].obj \in Ids
          /\ \/ row' = row
             \/ /\ row[lease[l].obj].st = "C"
                /\ row' = [row EXCEPT ![lease[l].obj].left = Lease]
      BY <2>1 DEF ReadInto, Safe, Types
    <3>2. Timed(row')
      BY <1>0, <3>1, TimeAssumption DEF Timed, Period, Rows
    <3>3. QED
      BY <1>0, <3>1, <3>2
  <2>2. CASE ReadFails(l)
    BY <1>5, <2>2 DEF ReadFails
  <2>3. CASE ReleaseRead(l) \/ RenewRead(l)
    <3>1. \A m \in Leases : lease'[m].left <= Lease
      BY <2>3, TimeAssumption DEF ReleaseRead, RenewRead, Renewed, FreeLease, Safe, Types, Timely
    <3>2. QED
      BY <1>0, <2>3, <3>1 DEF ReleaseRead, RenewRead, Timely
  <2>4. ASSUME NEW i \in Ids, ReserveRead(l, i) PROVE Timely'
    <3>1. Expire(row) \in Rows /\ Timed(Expire(row)) /\ Expire(row)[i].st = "C"
      BY <1>0, <2>4, TableTimed, RetireFacts DEF Expire, Overdue, ReserveRead
    <3>2. Timed(row')
      BY <2>4, <3>1, TimeAssumption DEF ReserveRead, Timed, Period, Rows
    <3>3. \A m \in Leases : lease'[m].left <= Lease
      BY <2>4, TimeAssumption DEF ReserveRead, Safe, Types, Timely
    <3>4. QED
      BY <3>2, <3>3 DEF Timely, Timed
  <2>5. QED
    BY <1>7, <2>1, <2>2, <2>3, <2>4
<1>8. ASSUME NEW k \in Keys, ReserveReadMiss(k) \/ Invalidate(k) PROVE Timely'
  BY <1>0, <1>5, <1>8, TableTimed DEF ReserveReadMiss, Invalidate, Expire
<1>9. CASE ReleaseFails \/ ClearFailure \/ Close \/ Crash \/ RecoverOpen \/ UNCHANGED vars
  BY <1>1, <1>9 DEF ReleaseFails, ClearFailure, Close, Crash, Dies, RecoverOpen, dbVars, vars
<1>10. ASSUME NEW l \in Limits, RecoverReset(l) PROVE Timely'
  <2>1. \A i \in Ids : row'[i].left <= Period(row'[i].st)
    <3> SUFFICES ASSUME NEW i \in Ids PROVE row'[i].left <= Period(row'[i].st)
      OBVIOUS
    <3>1. row' = [j \in Ids |->
                   CASE row[j].st = "W" -> [row[j] EXCEPT !.st = "T", !.left = 0]
                     [] row[j].st = "C" -> [row[j] EXCEPT !.left = Lease]
                     [] OTHER -> row[j]]
      BY <1>10 DEF RecoverReset
    <3>2. /\ row[i].left <= Period(row[i].st)
          /\ row[i] \in [st : Live \cup {"new", "gone"}, key : Keys \cup {None},
                         charge : 0..MaxCharge, left : Nat]
      BY <1>0 DEF Timed, Rows
    <3>3. CASE row[i].st = "W"
      <4>1. row'[i] = [row[i] EXCEPT !.st = "T", !.left = 0]
        BY <3>1, <3>3
      <4>2. row'[i].st = "T" /\ row'[i].left = 0
        BY <3>2, <4>1
      <4>3. QED
        BY <4>2, TimeAssumption DEF Period
    <3>4. CASE row[i].st = "C"
      <4>1. row'[i] = [row[i] EXCEPT !.left = Lease]
        BY <3>1, <3>4
      <4>2. row'[i].st = "C" /\ row'[i].left = Lease
        BY <3>2, <3>4, <4>1
      <4>3. QED
        BY <4>2, TimeAssumption DEF Period
    <3>5. CASE row[i].st \notin {"W", "C"}
      BY <3>1, <3>2, <3>5
    <3>6. QED
      BY <3>3, <3>4, <3>5
  <2>2. \A t \in Leases : lease'[t].left <= Lease
    <3>1. lease' = [t \in Leases |-> FreeLease]
      BY <1>10 DEF RecoverReset
    <3>2. \A t \in Leases : lease'[t].left = 0
      BY <3>1 DEF FreeLease
    <3>3. QED
      BY <3>2, TimeAssumption
  <2>3. QED
    BY <2>1, <2>2 DEF Timely
<1>11. CASE RecoverSweep
  BY <1>0, <1>11, ReserveTimed DEF RecoverSweep
<1>12. CASE RecoverVerify
  <2>1. /\ lease' = lease
        /\ \A i \in Ids : row'[i] = IF row[i].st = "C" /\ file[i] \notin RightSize
                                   THEN [row[i] EXCEPT !.st = "T", !.left = 0] ELSE row[i]
    BY <1>12 DEF RecoverVerify
  <2>2. \A i \in Ids : row'[i] = row[i] \/ (row'[i].st = "T" /\ row'[i].left = 0)
    BY <1>0, <2>1 DEF Rows
  <2>3. Timed(row')
    BY <1>0, <2>2, TimeAssumption DEF Timed, Period
  <2>4. QED
    BY <1>0, <2>1, <2>3
<1>13. CASE RecoverShrink
  BY <1>0, <1>13, TableTimed DEF RecoverShrink
<1>14. QED
  BY <1>2, <1>3, <1>4, <1>6, <1>7, <1>8, <1>9, <1>10, <1>11, <1>12, <1>13 DEF Next

(* Every variable of the store keeps its type, and no lease, reservation,  *)
(* eligibility window or grace ever ends later than one period from now.   *)
THEOREM StoreTypeCorrect == Spec => []TypeOK
<1>1. Init => Timely
  BY TimeAssumption DEF Init, Timely, Period, NewRow, FreeLease
<1>2. Safe /\ Timely => TypeOK
  BY DEF Safe, TypeOK
<1>3. QED
  BY <1>1, <1>2, TimelyStep, StoreSafe, PTL DEF Spec

-----------------------------------------------------------------------------
(* The running total is exact, through failures that stop an operation     *)
(* half way.                                                               *)

Sum(r) == Bytes(r, Stored(r))
Exact  == total = Sum(row) /\ (phase = "up" => total <= lim.quota)
AccountInv == Safe /\ Exact

-----------------------------------------------------------------------------
(* Sums of charges.                                                        *)

LEMMA BytesSame ==
  ASSUME NEW r, NEW q, NEW S, \A i \in S : r[i].charge = q[i].charge
  PROVE  Bytes(r, S) = Bytes(q, S)
<1>1. Units(r, S) = Units(q, S)
  BY DEF Units
<1>2. QED
  BY <1>1 DEF Bytes

LEMMA BytesWithout ==
  ASSUME NEW r \in Rows, NEW S \in SUBSET Ids, NEW D \in SUBSET S
  PROVE  Bytes(r, S \ D) = Bytes(r, S) - Bytes(r, D)
<1>1. /\ IsFiniteSet(Units(r, S \ D)) /\ IsFiniteSet(Units(r, D))
      /\ Bytes(r, S \ D) \in Nat /\ Bytes(r, D) \in Nat
  BY BytesType
<1>2. Units(r, S) = Units(r, S \ D) \cup Units(r, D)
  BY DEF Units
<1>3. Units(r, S \ D) \cap Units(r, D) = {}
  BY DEF Units
<1>4. Cardinality(Units(r, S)) = Cardinality(Units(r, S \ D)) + Cardinality(Units(r, D))
  <2>1. Cardinality(Units(r, S \ D) \cap Units(r, D)) = 0
    BY <1>3, FS_EmptySet
  <2>2. /\ Cardinality(Units(r, S \ D)) \in Nat /\ Cardinality(Units(r, D)) \in Nat
        /\ Cardinality(Units(r, S \ D) \cup Units(r, D)) =
             Cardinality(Units(r, S \ D)) + Cardinality(Units(r, D))
             - Cardinality(Units(r, S \ D) \cap Units(r, D))
    BY <1>1, FS_Union DEF Bytes
  <2>3. QED
    BY <1>2, <2>1, <2>2
<1>5. QED
  BY <1>1, <1>4 DEF Bytes

LEMMA BytesOfOne ==
  ASSUME NEW r \in Rows, NEW i \in Ids
  PROVE  Bytes(r, {i}) = r[i].charge
<1>1. r[i].charge \in 0..MaxCharge /\ MaxCharge \in Nat
  BY ChargeAssumption DEF Rows
<1>2. Units(r, {i}) = {i} \X (1..r[i].charge)
  BY <1>1 DEF Units
<1>3. IsFiniteSet({i}) /\ Cardinality({i}) = 1
  BY FS_Singleton
<1>4. IsFiniteSet(1..r[i].charge) /\ Cardinality(1..r[i].charge) = r[i].charge
  <2>1. \A n \in Nat : IsFiniteSet(1..n) /\ Cardinality(1..n) = IF 1 > n THEN 0 ELSE n - 1 + 1
    BY FS_Interval
  <2>2. \A n \in Nat : IsFiniteSet(1..n) /\ Cardinality(1..n) = n
    BY <2>1
  <2>3. QED
    BY <1>1, <2>2
<1>5. Cardinality({i} \X (1..r[i].charge)) = 1 * r[i].charge
  <2>1. \A S, T : IsFiniteSet(S) /\ IsFiniteSet(T)
                   => Cardinality(S \X T) = Cardinality(S) * Cardinality(T)
    BY FS_Product
  <2>2. Cardinality({i} \X (1..r[i].charge)) = Cardinality({i}) * Cardinality(1..r[i].charge)
    BY <1>3, <1>4, <2>1, Zenon
  <2>3. QED
    BY <1>3, <1>4, <2>2
<1>6. QED
  BY <1>1, <1>2, <1>5 DEF Bytes

LEMMA StoredIds == \A r : Stored(r) \subseteq Ids
BY DEF Stored

LEMMA SumSame ==
  ASSUME NEW r \in Rows, NEW q \in Rows,
         \A i \in Ids : /\ r[i].st \in Live <=> q[i].st \in Live
                        /\ r[i].st \in Live => r[i].charge = q[i].charge
  PROVE  Sum(r) = Sum(q)
<1>1. Stored(r) = Stored(q)
  BY DEF Stored
<1>2. \A i \in Stored(r) : r[i].charge = q[i].charge
  BY DEF Stored
<1>3. QED
  BY <1>1, <1>2, BytesSame DEF Sum

LEMMA RetireSum ==
  ASSUME NEW r \in Rows, NEW S, \A i \in Ids : i \in S => r[i].st \in Live
  PROVE  Retire(r, S) \in Rows /\ Sum(Retire(r, S)) = Sum(r)
<1>1. /\ Retire(r, S) \in Rows
      /\ \A i \in Ids : /\ Retire(r, S)[i].st \in Live <=> r[i].st \in Live
                        /\ Retire(r, S)[i].charge = r[i].charge
  BY RetireFacts DEF Live
<1>2. QED
  BY <1>1, SumSame

LEMMA EraseSum ==
  ASSUME NEW r \in Rows, NEW S \in SUBSET Stored(r)
  PROVE  Erase(r, S) \in Rows /\ Sum(Erase(r, S)) = Sum(r) - Bytes(r, S)
<1>1. Erase(r, S) \in Rows
  BY EraseFacts
<1>2. Stored(Erase(r, S)) = Stored(r) \ S
  BY EraseFacts DEF Stored, NoRow, Live
<1>3. \A i \in Stored(r) \ S : Erase(r, S)[i].charge = r[i].charge
  BY EraseFacts, StoredIds
<1>4. Sum(Erase(r, S)) = Bytes(r, Stored(r) \ S)
  BY <1>2, <1>3, BytesSame DEF Sum
<1>5. QED
  BY <1>1, <1>4, BytesWithout, StoredIds DEF Sum

LEMMA SumType == \A r \in Rows : Sum(r) \in Nat
BY BytesType, StoredIds DEF Sum

-----------------------------------------------------------------------------
(* The states that reserve_write() and collect() pass through.             *)

LEMMA SweptOut ==
  ASSUME Safe, Exact, NEW force, NEW D \in SUBSET Collectable(Swept, force)
  PROVE  /\ Erase(Swept, D) \in Rows
         /\ Sum(Erase(Swept, D)) = total - Bytes(Swept, D)
         /\ Bytes(Swept, D) \in Nat
<1>1. row \in Rows
  BY TypeRows DEF Safe
<1>2. Swept \in Rows /\ Sum(Swept) = Sum(row)
  BY <1>1, RetireSum DEF Swept, Expire, Overdue, Live
<1>3. D \subseteq Stored(Swept)
  BY DEF Collectable, Stored, Live
<1>4. Bytes(Swept, D) \in Nat
  BY <1>2, <1>3, StoredIds, BytesType
<1>5. QED
  BY <1>2, <1>3, <1>4, EraseSum DEF Exact

LEMMA ReserveSums ==
  ASSUME Safe, Exact, NEW k
  PROVE  /\ Evicted \in Rows /\ Freed(k) \in Rows
         /\ Sum(Evicted) = Remaining /\ Sum(Freed(k)) = Used(k)
         /\ Remaining <= total /\ Used(k) <= Remaining
<1>0. total \in Int
  BY DEF Safe, Types
<1>1. /\ Collected \in Rows /\ Sum(Collected) = Remaining /\ Remaining <= total
      /\ Remaining \in Int
  <2>1. Dead \in SUBSET Collectable(Swept, FALSE)
    BY DEF Dead
  <2>2. /\ Collected \in Rows /\ Sum(Collected) = total - Bytes(Swept, Dead)
        /\ Bytes(Swept, Dead) \in Nat
    BY <2>1, SweptOut DEF Collected
  <2>3. QED
    BY <1>0, <2>2 DEF Remaining
<1>2. \A i \in Ids : i \in Reclaimed => Collected[i].st \in Live
  BY DEF Reclaimed, Victims, MarkDown, Live
<1>3. Evicted \in Rows /\ Sum(Evicted) = Remaining
  BY <1>1, <1>2, RetireSum DEF Evicted
<1>4. Superseded(k) \subseteq Stored(Evicted)
  BY DEF Superseded, Holding, Stored
<1>5. Bytes(Evicted, Superseded(k)) \in Nat
  BY <1>3, <1>4, StoredIds, BytesType
<1>6. Freed(k) \in Rows /\ Sum(Freed(k)) = Used(k)
  BY <1>3, <1>4, EraseSum DEF Freed, Used
<1>7. QED
  BY <1>1, <1>3, <1>5, <1>6 DEF Used

LEMMA ReserveExact ==
  ASSUME AccountInv, NEW k \in Keys,
         \/ ReserveWriteRefused(k) \/ AdmissionFails(k) \/ CrashInSupersede(k)
         \/ \E c \in 1..MaxCharge, i \in Ids : ReserveWrite(k, c, i)
  PROVE  Exact'
<1> USE DEF AccountInv
<1>0. /\ Evicted \in Rows /\ Freed(k) \in Rows
      /\ Sum(Evicted) = Remaining /\ Sum(Freed(k)) = Used(k)
      /\ Remaining <= total /\ Used(k) <= Remaining
      /\ total \in Int /\ Used(k) \in Int /\ Remaining \in Int
  BY ReserveSums, RemainingType DEF Safe, Types
<1>q. lim.quota \in Nat
  BY LimitsAssumption DEF Safe, Types
<1>1. CASE ReserveWriteRefused(k)
  BY <1>0, <1>q, <1>1 DEF ReserveWriteRefused, Exact, Serving
<1>2. CASE AdmissionFails(k)
  BY <1>0, <1>q, <1>2 DEF AdmissionFails, Exact, Serving
<1>3. CASE CrashInSupersede(k)
  BY <1>0, <1>3 DEF CrashInSupersede, Exact, Dies
<1>4. CASE \E c \in 1..MaxCharge, i \in Ids : ReserveWrite(k, c, i)
  <2>1. PICK c \in 1..MaxCharge, i \in Ids : ReserveWrite(k, c, i)
    BY <1>4
  <2> DEFINE new == [st |-> "W", key |-> k, charge |-> c, left |-> Lease]
             r == [Freed(k) EXCEPT ![i] = new]
  <2>2. row' = r /\ total' = Used(k) + c /\ total' <= lim.quota /\ lim' = lim
        /\ row[i].st = "new"
    BY <2>1 DEF ReserveWrite
  <2>3. new \in [st : Live \cup {"new", "gone"}, key : Keys \cup {None},
                 charge : 0..MaxCharge, left : Nat] /\ c \in Nat
    BY ChargeAssumption, TimeAssumption DEF Live
  <2>4. /\ r \in Rows /\ r[i] = new
        /\ \A j \in Ids \ {i} : r[j] = Freed(k)[j]
    BY <1>0, <2>3 DEF Rows
  <2>5. Freed(k)[i].st = "new"
    BY <2>2, ReserveYounger, TypeRows DEF Safe, Younger
  <2>6. Stored(r) = Stored(Freed(k)) \cup {i} /\ Stored(r) \ {i} = Stored(Freed(k))
    BY <2>4, <2>5 DEF Stored, Live
  <2>7. Bytes(r, {i}) = c
    <3> HIDE DEF r
    <3>1. Bytes(r, {i}) = r[i].charge
      BY <2>4, BytesOfOne
    <3>2. QED
      BY <2>4, <3>1
  <2>8. Bytes(r, Stored(r) \ {i}) = Sum(Freed(k))
    <3>1. \A j \in Stored(Freed(k)) : r[j].charge = Freed(k)[j].charge
      BY <2>4, <2>5 DEF Stored, Live
    <3> HIDE DEF r
    <3>2. Bytes(r, Stored(Freed(k))) = Bytes(Freed(k), Stored(Freed(k)))
      BY <3>1, BytesSame
    <3>3. QED
      BY <2>6, <3>2 DEF Sum
  <2>9. Bytes(r, Stored(r) \ {i}) = Sum(r) - c
    <3> HIDE DEF r
    <3>1. {i} \in SUBSET Stored(r) /\ Stored(r) \in SUBSET Ids
      BY <2>6, StoredIds
    <3>2. Bytes(r, Stored(r) \ {i}) = Bytes(r, Stored(r)) - Bytes(r, {i})
      BY <2>4, <3>1, BytesWithout
    <3>3. QED
      BY <2>7, <3>2 DEF Sum
  <2>10. Sum(r) \in Nat
    BY <2>4, SumType
  <2>11. Sum(r) = Used(k) + c
    BY <1>0, <2>3, <2>8, <2>9, <2>10
  <2> HIDE DEF r
  <2>12. QED
    BY <2>2, <2>11 DEF Exact
<1>5. QED
  BY <1>1, <1>2, <1>3, <1>4

LEMMA SweepExact ==
  ASSUME AccountInv,
         \/ \E done, half \in SUBSET Ids :
              CollectFails(done, half) \/ EvictFails(done, half) \/ CrashInCollect(done, half)
         \/ RecoverSweep
  PROVE  Exact'
<1> USE DEF AccountInv
<1>0. total \in Int /\ lim.quota \in Nat
  BY LimitsAssumption DEF Safe, Types
<1>1. CASE RecoverSweep
  <2>1. \E D \in SUBSET Collectable(Swept, TRUE) : row' = Erase(Swept, D) /\ total' = total - Bytes(Swept, D)
    BY <1>1 DEF RecoverSweep
  <2>2. phase' # "up"
    BY <1>1 DEF RecoverSweep, AfterSweep
  <2>3. QED
    BY <2>1, <2>2, SweptOut DEF Exact
<1>2. ASSUME NEW done \in SUBSET Ids, NEW half \in SUBSET Ids, CollectFails(done, half)
      PROVE  Exact'
  <2> DEFINE left == Erase(Swept, done)
             marked == Victims(left, total')
  <2>1. /\ row' = Retire(left, marked) /\ total' = total - Bytes(Swept, done)
        /\ done \in SUBSET Collectable(Swept, FALSE)
        /\ lim' = lim /\ phase' = phase /\ phase = "up"
    BY <1>2 DEF CollectFails, PartlyCollected, Dead, Serving
  <2>2. left \in Rows /\ Sum(left) = total' /\ Bytes(Swept, done) \in Nat
    BY <2>1, SweptOut
  <2>3. \A i \in Ids : i \in marked => left[i].st \in Live
    BY DEF Victims, MarkDown, Live
  <2>4. Sum(row') = total'
    BY <2>1, <2>2, <2>3, RetireSum
  <2>5. QED
    BY <1>0, <2>1, <2>2, <2>4 DEF Exact
<1>3. ASSUME NEW done \in SUBSET Ids, NEW half \in SUBSET Ids, EvictFails(done, half)
      PROVE  Exact'
  <2>1. /\ row' = Erase(Swept, done) /\ total' = total - Bytes(Swept, done)
        /\ done \in SUBSET Collectable(Swept, FALSE)
        /\ lim' = lim /\ phase' = phase /\ phase = "up"
    BY <1>3 DEF EvictFails, PartlyCollected, Dead, Serving
  <2>2. Sum(row') = total' /\ Bytes(Swept, done) \in Nat
    BY <2>1, SweptOut
  <2>3. QED
    BY <1>0, <2>1, <2>2 DEF Exact
<1>4. ASSUME NEW done \in SUBSET Ids, NEW half \in SUBSET Ids, CrashInCollect(done, half)
      PROVE  Exact'
  <2>1. /\ row' = Erase(Swept, done) /\ total' = total - Bytes(Swept, done)
        /\ done \in SUBSET Collectable(Swept, ~Serving)
        /\ phase' # "up"
    BY <1>4 DEF CrashInCollect, PartlyCollected, Dies
  <2>2. Sum(row') = total'
    BY <2>1, SweptOut
  <2>3. QED
    BY <2>1, <2>2 DEF Exact
<1>5. QED
  BY <1>1, <1>2, <1>3, <1>4

(* No other step changes which objects are stored, or what one is charged. *)
LEMMA SameStock ==
  ASSUME AccountInv, row' \in Rows, total' = total,
         \A i \in Ids : /\ row'[i].st \in Live <=> row[i].st \in Live
                        /\ row[i].st \in Live => row'[i].charge = row[i].charge,
         phase' = "up" => (phase = "up" /\ lim' = lim) \/ total <= lim'.quota
  PROVE  Exact'
<1>1. row \in Rows
  BY TypeRows DEF AccountInv, Safe
<1>2. Sum(row') = Sum(row)
  BY <1>1, SumSame
<1>3. QED
  BY <1>2 DEF AccountInv, Exact

LEMMA RestExact ==
  ASSUME AccountInv, row' \in Rows,
         \/ Tick
         \/ \E k \in Keys : ReserveReadMiss(k) \/ Invalidate(k)
         \/ \E i \in Ids : \/ WriteStep(i) \/ PayloadFails(i) \/ CommitFails(i)
                           \/ ReleaseWrite(i) \/ RenewWrite(i) \/ CrashAfterRename(i)
                           \/ Damage(i) \/ RecoverScan(i)
         \/ \E l \in Leases : \/ ReadInto(l) \/ ReadFails(l) \/ ReleaseRead(l) \/ RenewRead(l)
                              \/ \E i \in Ids : ReserveRead(l, i)
         \/ ReleaseFails \/ ClearFailure \/ Close \/ Crash
         \/ RecoverVerify \/ RecoverShrink \/ RecoverOpen
  PROVE  Exact'
<1>0. row \in Rows
  BY TypeRows DEF AccountInv, Safe
<1> DEFINE Stock == \A i \in Ids : /\ row'[i].st \in Live <=> row[i].st \in Live
                                   /\ row[i].st \in Live => row'[i].charge = row[i].charge
<1>a. ASSUME NEW S, \A i \in Ids : i \in S => row[i].st \in Live, row' = Retire(row, S)
      PROVE  Stock
  BY <1>0, <1>a, RetireFacts DEF Live
<1>b. ASSUME NEW i \in Ids, RetireOrLatch(i)
      PROVE  Stock /\ total' = total
  <2>1. CASE UNCHANGED dbVars
    BY <2>1 DEF dbVars
  <2>2. CASE row' = Retire(row, {i} \cap Stored(row)) /\ total' = total
    BY <2>2, <1>a DEF Stored
  <2>3. QED
    BY <1>b, <2>1, <2>2 DEF RetireOrLatch
<1>1. CASE Tick
  <2>1. \A i \in Ids : row'[i].st = row[i].st /\ row'[i].charge = row[i].charge
    BY <1>0, <1>1 DEF Tick, Rows
  <2>2. QED
    BY <1>1, <2>1, SameStock DEF Tick, ramVars
<1>2. ASSUME NEW k \in Keys, ReserveReadMiss(k)
      PROVE  Exact'
  <2>1. Stock
    BY <1>2, <1>a DEF ReserveReadMiss, Expire, Overdue, Live
  <2>2. QED
    BY <1>2, <2>1, SameStock DEF ReserveReadMiss, ramVars
<1>3. ASSUME NEW k \in Keys, Invalidate(k)
      PROVE  Exact'
  BY <1>3, <1>b, SameStock DEF Invalidate, Holding
<1>4. ASSUME NEW i \in Ids,
             \/ WriteStep(i) \/ PayloadFails(i) \/ CommitFails(i) \/ CrashAfterRename(i)
             \/ ReleaseWrite(i) \/ RenewWrite(i)
      PROVE  Exact'
  <2>1. CASE PayloadFails(i) \/ CommitFails(i)
    BY <2>1, <1>b, SameStock DEF PayloadFails, CommitFails
  <2>2. CASE BeginWrite(i) \/ OpenPartial(i) \/ DiscardWrite(i) \/ CrashAfterRename(i)
    BY <2>2, SameStock
       DEF BeginWrite, OpenPartial, DiscardWrite, CrashAfterRename, Dies, dbVars, ramVars
  <2>3. CASE ReleaseWrite(i) /\ row' = Retire(row, {i}) /\ row[i].st \in Live
    <3>1. Stock
      <4>1. \A j \in Ids : j \in {i} => row[j].st \in Live
        BY <2>3
      <4>2. QED
        BY <2>3, <4>1, <1>a
    <3>2. QED
      BY <2>3, <3>1, SameStock DEF ReleaseWrite, ramVars
  <2>4. CASE /\ CommitWrite(i) \/ RenewWrite(i) \/ ReleaseWrite(i)
             /\ \E st \in Live : \E n : row' = [row EXCEPT ![i] = [row[i] EXCEPT !.st = st, !.left = n]]
             /\ row[i].st \in Live
    <3>0. PICK st \in Live : \E n : row' = [row EXCEPT ![i] = [row[i] EXCEPT !.st = st, !.left = n]]
      BY <2>4
    <3>1. PICK n : row' = [row EXCEPT ![i] = [row[i] EXCEPT !.st = st, !.left = n]]
      BY <3>0
    <3>2. row'[i].st = st /\ row'[i].charge = row[i].charge
          /\ \A j \in Ids \ {i} : row'[j] = row[j]
      BY <1>0, <3>1 DEF Rows
    <3>3. Stock
      BY <2>4, <3>2
    <3>4. QED
      BY <2>4, <3>3, SameStock DEF CommitWrite, RenewWrite, ReleaseWrite, ramVars
  <2>5. row[i] \in [st : Live \cup {"new", "gone"}, key : Keys \cup {None},
                    charge : 0..MaxCharge, left : Nat]
    BY <1>0 DEF Rows
  <2>6. CASE CommitWrite(i)
    <3>1. row[i].st \in Live /\ row' = [row EXCEPT ![i] = [row[i] EXCEPT !.st = "C", !.left = Lease]]
      BY <1>0, <2>6 DEF CommitWrite, StillReserved, Live, Rows
    <3>2. QED
      BY <2>4, <2>6, <3>1 DEF Live
  <2>7. CASE RenewWrite(i) \/ (ReleaseWrite(i) /\ row' = [row EXCEPT ![i].left = 0] /\ row[i].st \in Live)
    <3>1. row[i].st \in Live /\ \E n : row' = [row EXCEPT ![i].left = n]
      BY <2>7 DEF RenewWrite, Live
    <3>2. PICK n : row' = [row EXCEPT ![i].left = n]
      BY <3>1
    <3>3. [row[i] EXCEPT !.left = n] = [row[i] EXCEPT !.st = row[i].st, !.left = n]
      BY <2>5
    <3>4. row' = [row EXCEPT ![i] = [row[i] EXCEPT !.st = row[i].st, !.left = n]]
      BY <3>2, <3>3
    <3>5. QED
      BY <2>4, <2>7, <3>1, <3>4
  <2>8. QED
    BY <1>4, <2>1, <2>2, <2>3, <2>6, <2>7 DEF WriteStep, ReleaseWrite, Live
<1>5. ASSUME NEW i \in Ids, Damage(i) \/ RecoverScan(i)
      PROVE  Exact'
  BY <1>5, SameStock DEF Damage, RecoverScan, dbVars, ramVars
<1>6. ASSUME NEW l \in Leases, ReadFails(l) \/ ReleaseRead(l) \/ RenewRead(l)
      PROVE  Exact'
  <2>1. CASE ReadFails(l)
    <3>1. lease[l].obj \in Ids
      BY <2>1 DEF ReadFails, AccountInv, Safe, Types
    <3>2. QED
      BY <2>1, <3>1, <1>b, SameStock DEF ReadFails
  <2>2. CASE ReleaseRead(l) \/ RenewRead(l)
    BY <2>2, SameStock DEF ReleaseRead, RenewRead, ramVars
  <2>3. QED
    BY <1>6, <2>1, <2>2
<1>7. ASSUME NEW l \in Leases, ReadInto(l)
      PROVE  Exact'
  <2>1. \A i \in Ids : row'[i].st = row[i].st /\ row'[i].charge = row[i].charge
    BY <1>0, <1>7 DEF ReadInto, Rows
  <2>2. QED
    BY <1>7, <2>1, SameStock DEF ReadInto, ramVars
<1>8. ASSUME NEW l \in Leases, NEW i \in Ids, ReserveRead(l, i)
      PROVE  Exact'
  <2>1. Expire(row) \in Rows /\ \A j \in Ids : /\ Expire(row)[j].st \in Live <=> row[j].st \in Live
                                               /\ Expire(row)[j].charge = row[j].charge
    BY <1>0, RetireFacts DEF Expire, Overdue, Live
  <2>2. \A j \in Ids : row'[j].st = Expire(row)[j].st /\ row'[j].charge = Expire(row)[j].charge
    BY <1>8, <2>1 DEF ReserveRead, Rows
  <2>3. QED
    BY <1>8, <2>1, <2>2, SameStock DEF ReserveRead, ramVars
<1>9. CASE ReleaseFails \/ ClearFailure \/ Close \/ Crash
  BY <1>9, SameStock DEF ReleaseFails, ClearFailure, Close, Crash, Dies, dbVars
<1>10. CASE RecoverVerify
  <2>1. \A i \in Ids : /\ row'[i].st \in Live <=> row[i].st \in Live
                       /\ row'[i].charge = row[i].charge
    BY <1>0, <1>10 DEF RecoverVerify, Rows, Live
  <2>2. QED
    BY <1>10, <2>1, SameStock DEF RecoverVerify
<1>11. CASE RecoverShrink
  <2>1. Stock
    <3>1. CASE row' = row
      BY <3>1
    <3>2. CASE row' = Retire(row, MarkDown(row, total, InState(row, "C")))
      <4>1. \A i \in Ids : i \in MarkDown(row, total, InState(row, "C")) => row[i].st \in Live
        BY DEF MarkDown, InState, Live
      <4>2. QED
        BY <3>2, <4>1, <1>a
    <3>3. QED
      BY <1>11, <3>1, <3>2 DEF RecoverShrink
  <2>2. QED
    BY <1>11, <2>1, SameStock DEF RecoverShrink
<1>12. CASE RecoverOpen
  BY <1>12, SameStock DEF RecoverOpen, dbVars
<1>13. QED
  BY <1>1, <1>2, <1>3, <1>4, <1>5, <1>6, <1>7, <1>8, <1>9, <1>10, <1>11, <1>12

LEMMA AccountStep == AccountInv /\ [Next]_vars => AccountInv'
<1> SUFFICES ASSUME AccountInv, [Next]_vars PROVE AccountInv'
  OBVIOUS
<1>1. Safe' /\ row' \in Rows
  BY StepSafe DEF AccountInv, Safe, Types, Rows
<1>2. CASE UNCHANGED vars
  BY <1>1, <1>2 DEF AccountInv, Exact, vars
<1>3. ASSUME NEW c \in Limits, RecoverReset(c)
      PROVE  Exact'
  <2>1. row \in Rows
    BY TypeRows DEF AccountInv, Safe
  <2>2. \A i \in Ids : /\ row'[i].st \in Live <=> row[i].st \in Live
                       /\ row'[i].charge = row[i].charge
    BY <1>3, <2>1 DEF RecoverReset, Rows, Live
  <2>3. Sum(row') = Sum(row)
    BY <1>1, <2>1, <2>2, SumSame
  <2>4. QED
    BY <1>3, <2>3 DEF RecoverReset, Exact, Sum
<1>4. CASE Next
  BY <1>1, <1>3, <1>4, ReserveExact, SweepExact, RestExact DEF Next, AccountInv
<1>5. QED
  BY <1>2, <1>4

(* In memory and through every rollback, partial collection, crash and     *)
(* recovery the hand-edited total is the sum of the charges of the stored  *)
(* rows; and a store that is up is within its quota.                       *)
THEOREM AccountAlways == Spec => []AccountInv
<1>1. Init => AccountInv
  <2> SUFFICES ASSUME Init PROVE AccountInv
    OBVIOUS
  <2>1. Safe
    BY InitSafe
  <2>2. Stored(row) = {}
    BY DEF Init, Stored, NewRow, Live
  <2>3. Units(row, {}) = {}
    BY DEF Units
  <2>4. Sum(row) = 0
    BY <2>2, <2>3, FS_EmptySet DEF Sum, Bytes
  <2>5. lim.quota \in Nat
    BY LimitsAssumption DEF Init
  <2>6. QED
    BY <2>1, <2>4, <2>5 DEF Init, AccountInv, Exact
<1>2. AccountInv /\ [Next]_vars => AccountInv'
  BY AccountStep
<1>3. QED
  BY <1>1, <1>2, PTL DEF Spec

(* The running total is exact and within the quota while the store is up.  *)
THEOREM TotalIsExact == Spec => []AccountingExact
<1>1. AccountInv => AccountingExact
  BY DEF AccountInv, Exact, AccountingExact, Sum
<1>2. QED
  BY <1>1, AccountAlways, PTL
=============================================================================
