----------------------------- MODULE DiskStore -----------------------------
(***************************************************************************)
(* One rank's object store (recipe_persistence/storage.py, class           *)
(* DiskStore): immutable objects in files, a SQLite index of them, read    *)
(* and write leases, tombstones, quota accounting, eviction, crash and     *)
(* recovery.                                                               *)
(*                                                                         *)
(* Everything done under self._lock is one step.  write() gives the lock   *)
(* up while it copies the payload, so it is four steps, and every other    *)
(* operation can fall between them.  Recovery is one step per sweep or     *)
(* unlinked file, so that a crash can fall between those.                  *)
(*                                                                         *)
(* Time is kept as time left: a row or lease with left = 0 has             *)
(* expiry <= now.  Bytes are counted above the constant metadata reserve   *)
(* of usage(), in filesystem units.                                        *)
(***************************************************************************)
EXTENDS Integers, FiniteSets

CONSTANTS
  Ids,            \* object identifiers (uuid4, never reused); one per reservation
  Keys,           \* (namespace, key) pairs
  Leases,         \* read-lease tokens; there are max_leases of them
  None,           \* no object, no key
  MaxCharge,      \* the largest rounded physical size, in filesystem units
  Limits,         \* the configurations a start may choose
  Lease, Grace,   \* lease_seconds and grace_seconds, in ticks
  Faults,         \* may SQLite, the filesystem or the medium fail?
  Crashes,        \* may the process die?
  OperatorClears  \* does an operator call clear_failure()?

ASSUME NoneAssumption == None \notin Ids \cup Keys
ASSUME IdsAssumption == IsFiniteSet(Ids)
ASSUME ChargeAssumption == MaxCharge \in Nat \ {0}
ASSUME LimitsAssumption ==
  Limits \subseteq {l \in [quota : Nat, high : Nat, low : Nat, objects : Nat \ {0}] :
                      0 < l.low /\ l.low < l.high /\ l.high <= l.quota}
ASSUME TimeAssumption == Lease \in Nat \ {0} /\ Grace \in Nat
ASSUME SwitchAssumption == {Faults, Crashes, OperatorClears} \subseteq BOOLEAN

VARIABLES
  row,      \* table objects: state, key, charge and time left of every id
  lease,    \* table leases: the object and time left of every token
  total,    \* table totals
  older,    \* <<j, i>>: committed object j was touched before committed object i
  file,     \* what the objects directory holds for every id
  durable,  \* self._durable, the in-RAM set of durable keys
  indexed,  \* self._durable is not None
  failed,   \* self.failed
  lim,      \* self.limits
  phase,    \* "up", "closed", "down", or where recovery stands
  wpc       \* where the thread writing an id stands; "stuck": it ended after its
            \* row was collected and could not remove its partial (history)

dbVars  == <<row, lease, total, older>>
ramVars == <<durable, indexed, failed, lim, phase>>
vars    == <<row, lease, total, older, file, durable, indexed, failed, lim, phase, wpc>>

Live       == {"W", "C", "T"}                  \* the states a stored row can have
NewRow     == [st |-> "new",  key |-> None, charge |-> 0, left |-> 0]
NoRow      == [st |-> "gone", key |-> None, charge |-> 0, left |-> 0]
FreeLease  == [obj |-> None, left |-> 0]
Recovering == {"reset", "scan", "verify", "shrink", "marked", "final"}

(* "final" is a good .kv file, "flipped" one whose bytes changed, "short"  *)
(* one that is truncated or was lost.                                      *)
Placed     == {"final", "flipped", "short"}
AnySize    == Placed                 \* mutation: recovery takes a file of any length
RightSize  == {"final", "flipped"}

Types ==
  /\ row \in [Ids -> [st : Live \cup {"new", "gone"}, key : Keys \cup {None},
                      charge : 0..MaxCharge, left : Nat]]
  /\ lease \in [Leases -> [obj : Ids \cup {None}, left : Nat]]
  /\ total \in Int
  /\ older \subseteq Ids \X Ids
  /\ file \in [Ids -> {"absent", "part"} \cup Placed]
  /\ durable \subseteq Keys
  /\ indexed \in BOOLEAN
  /\ failed \in BOOLEAN
  /\ lim \in Limits
  /\ phase \in {"up", "closed", "down"} \cup Recovering
  /\ wpc \in [Ids -> {"idle", "checked", "writing", "done", "stuck"}]

(* No deadline is further ahead than its own period allows, however often  *)
(* it is renewed.                                                          *)
Period(st) == IF st = "T" THEN Grace ELSE Lease
Timely ==
  /\ \A i \in Ids : row[i].left <= Period(row[i].st)
  /\ \A l \in Leases : lease[l].left <= Lease

(* Rows, leases, files and writers keep to their types, and a lease, a     *)
(* reservation or an eligibility window ends at most lease_seconds from    *)
(* now, a tombstone's grace at most grace_seconds: what nobody renews is   *)
(* free after that time.                                                   *)
TypeOK == Types /\ Timely

Init ==
  /\ row = [i \in Ids |-> NewRow]
  /\ lease = [l \in Leases |-> FreeLease]
  /\ total = 0
  /\ older = {}
  /\ file = [i \in Ids |-> "absent"]
  /\ durable = {}
  /\ indexed = TRUE
  /\ failed = FALSE
  /\ lim \in Limits
  /\ phase = "up"
  /\ wpc = [i \in Ids |-> "idle"]

-----------------------------------------------------------------------------
(* What the statements of the class do to the tables and the directory.    *)

Serving     == phase = "up" /\ ~failed
Known(k)    == ~indexed \/ k \in durable
Leased(i)   == \E l \in Leases : lease[l].obj = i
Holding(r, k) == {i \in Ids : r[i].st \in Live /\ r[i].key = k}
Stored(r)   == {i \in Ids : r[i].st \in Live}
InState(r, s) == {i \in Ids : r[i].st = s}

(* SUM(charge) over S, counted as the filesystem units the objects hold.   *)
Units(r, S) == {u \in S \X (1..MaxCharge) : u[2] <= r[u[1]].charge}
Bytes(r, S) == Cardinality(Units(r, S))

Retire(r, S) == [i \in Ids |-> IF i \in S
                               THEN [r[i] EXCEPT !.st = "T", !.left = Grace] ELSE r[i]]
Erase(r, S)  == [i \in Ids |-> IF i \in S THEN NoRow ELSE r[i]]
Unlink(S)    == [i \in Ids |-> IF i \in S THEN "absent" ELSE file[i]]
KeepTemp(i)   == file                \* mutation: the losing writer leaves its partial
UnlinkTemp(i) == IF file[i] = "part" THEN [file EXCEPT ![i] = "absent"] ELSE file

(* A lease row whose time is up is consulted by no query, so Tick frees    *)
(* its token; _expire() is left with the overdue write reservations.       *)
NeverOverdue(r) == {}                \* mutation: no deadline for writers
Overdue(r)  == {i \in Ids : r[i].st = "W" /\ r[i].left = 0}
Expire(r)   == Retire(r, Overdue(r))

(* Mutation: a tombstone is collected whether or not somebody reads it.    *)
CollectableUnderReaders(r, force) ==
  {i \in Ids : r[i].st = "T" /\ (force \/ r[i].left = 0)}

Collectable(r, force) ==
  {i \in Ids : r[i].st = "T" /\ (force \/ r[i].left = 0) /\ ~Leased(i)}

(* Tombstones are marked in LRU order until the bytes that would remain    *)
(* are down to the low watermark or no eligible object is left.            *)
MarkDown(r, used, eligible) ==
  {i \in eligible :
     used - Bytes(r, InState(r, "T")) - Bytes(r, {j \in eligible : <<j, i>> \in older}) > lim.low}
Victims(r, used) ==
  IF used < lim.high THEN {}
  ELSE MarkDown(r, used, {i \in Ids : r[i].st = "C" /\ r[i].left = 0 /\ ~Leased(i)})

KeysOf(r, S) == {r[i].key : i \in S}
Forget(K)    == IF indexed THEN durable \ K ELSE durable
NoNote(k)    == durable              \* mutation: a commit does not enter the index
Note(k)      == IF indexed THEN durable \cup {k} ELSE durable
InOrder(r)   == {p \in older : r[p[1]].st = "C" /\ r[p[2]].st = "C"}
Touched(i)   == {p \in older : p[1] # i /\ p[2] # i}
                  \cup {j \in Ids \ {i} : row[j].st = "C"} \X {i}

-----------------------------------------------------------------------------
(* Time: every expiry comes one tick nearer. *)

Down(n) == IF n = 0 THEN 0 ELSE n - 1

Tick ==
  /\ phase = "up"
  /\ row' = [i \in Ids |-> [row[i] EXCEPT !.left = Down(@)]]
  /\ lease' = [l \in Leases |-> IF lease[l].left <= 1 THEN FreeLease
                                ELSE [lease[l] EXCEPT !.left = @ - 1]]
  /\ UNCHANGED <<total, older, file, ramVars, wpc>>

-----------------------------------------------------------------------------
(* reserve_write(): collect(), evict(), then the admission transaction.    *)
(* The filesystem's own free space may refuse any request.                 *)

Swept     == Expire(row)
Dead      == Collectable(Swept, FALSE)
Collected == Erase(Swept, Dead)
Remaining == total - Bytes(Swept, Dead)
Reclaimed == Victims(Collected, Remaining)
Evicted   == Retire(Collected, Reclaimed)
BlockedByLive(k) ==                  \* mutation: readers do not block a supersession
  \E i \in Holding(Evicted, k) : Evicted[i].st # "T"
Blocked(k) == \E i \in Holding(Evicted, k) : Evicted[i].st # "T" \/ Leased(i)
Superseded(k) == IF Blocked(k) THEN {} ELSE Holding(Evicted, k)
Freed(k)  == Erase(Evicted, Superseded(k))
KeepCharge(k) == Remaining           \* mutation: a superseded object stays charged
Used(k)   == Remaining - Bytes(Evicted, Superseded(k))

ReserveWriteRefused(k) ==
  /\ Serving
  /\ row' = Freed(k)
  /\ total' = Used(k)
  /\ file' = Unlink(Dead \cup Superseded(k))
  /\ durable' = Forget(KeysOf(Collected, Reclaimed))
  /\ older' = InOrder(row')
  /\ UNCHANGED <<lease, indexed, failed, lim, phase, wpc>>

ReserveWrite(k, c, i) ==
  /\ Serving
  /\ ~Blocked(k)
  /\ Used(k) + c <= lim.quota
  /\ Cardinality(InState(Freed(k), "W") \cup InState(Freed(k), "C")) < lim.objects
  /\ row[i].st = "new"
  /\ row' = [Freed(k) EXCEPT ![i] = [st |-> "W", key |-> k, charge |-> c, left |-> Lease]]
  /\ total' = Used(k) + c
  /\ file' = Unlink(Dead \cup Superseded(k))
  /\ durable' = Forget(KeysOf(Collected, Reclaimed))
  /\ older' = InOrder(row')
  /\ UNCHANGED <<lease, indexed, failed, lim, phase, wpc>>

(* collect() gives up half way: some tombstones are gone, one may be       *)
(* unlinked with its row still there, and evict() runs all the same.       *)
PartlyCollected(r, dead, done, half) ==
  /\ done \subseteq dead
  /\ half \subseteq dead \ done
  /\ Cardinality(half) <= 1
  /\ total' = total - Bytes(r, done)
  /\ file' = Unlink(done \cup half)

CollectFails(done, half) ==
  /\ Faults
  /\ Serving
  /\ PartlyCollected(Swept, Dead, done, half)
  /\ LET left == Erase(Swept, done)
         marked == Victims(left, total')
     IN /\ row' = Retire(left, marked)
        /\ durable' = Forget(KeysOf(left, marked))
  /\ failed' = TRUE
  /\ older' = InOrder(row')
  /\ UNCHANGED <<lease, indexed, lim, phase, wpc>>

(* evict() fails, after a collection that went well or not: its            *)
(* transaction is rolled back, but the keys it had already dropped from    *)
(* the index stay dropped.                                                 *)
EvictFails(done, half) ==
  /\ Faults
  /\ Serving
  /\ PartlyCollected(Swept, Dead, done, half)
  /\ row' = Erase(Swept, done)
  /\ \E dropped \in SUBSET Victims(row', total') :
       durable' = Forget(KeysOf(row', dropped))
  /\ failed' = TRUE
  /\ UNCHANGED <<lease, older, indexed, lim, phase, wpc>>

(* The admission transaction fails: rolled back and only counted, with the *)
(* superseded tombstone's files perhaps unlinked already.                  *)
AdmissionFails(k) ==
  /\ Faults
  /\ Serving
  /\ row' = Evicted
  /\ total' = Remaining
  /\ file' \in {Unlink(Dead), Unlink(Dead \cup Superseded(k))}
  /\ durable' = Forget(KeysOf(Collected, Reclaimed))
  /\ older' = InOrder(row')
  /\ UNCHANGED <<lease, indexed, failed, lim, phase, wpc>>

-----------------------------------------------------------------------------
(* write(): check under the lock, copy without it, check again and commit. *)

BeginWrite(i) ==
  /\ Serving
  /\ wpc[i] = "idle"
  /\ row[i].st = "W" /\ row[i].left > 0
  /\ wpc' = [wpc EXCEPT ![i] = "checked"]
  /\ UNCHANGED <<dbVars, file, ramVars>>

OpenPartial(i) ==
  /\ phase \in {"up", "closed"}
  /\ wpc[i] = "checked"
  /\ file[i] = "absent"
  /\ file' = [file EXCEPT ![i] = "part"]
  /\ wpc' = [wpc EXCEPT ![i] = "writing"]
  /\ UNCHANGED <<dbVars, ramVars>>

(* _retire() as the failing writer calls it: the tombstone is recorded, or *)
(* the transaction cannot be had and the store latches failed.             *)
RetireOrLatch(i) ==
  \/ /\ phase = "up"
     /\ row' = Retire(row, {i} \cap Stored(row))
     /\ older' = InOrder(row')
     /\ UNCHANGED <<failed, lease, total>>
  \/ /\ Faults \/ phase = "closed"
     /\ failed' = TRUE
     /\ UNCHANGED dbVars

(* Every way out of write() but success removes the partial, and passes    *)
(* over an OSError.  What stays goes with its row; only when that has been *)
(* collected already does nothing in this process remove it.               *)
EndWrite(i) ==
  \/ /\ file' = UnlinkTemp(i)
     /\ wpc' = [wpc EXCEPT ![i] = "done"]
  \/ /\ Faults
     /\ file[i] = "part"
     /\ wpc' = [wpc EXCEPT ![i] = IF row[i].st \in Live THEN "done" ELSE "stuck"]
     /\ UNCHANGED file

PayloadFails(i) ==
  /\ phase \in {"up", "closed"}
  /\ wpc[i] \in {"checked", "writing"}
  /\ EndWrite(i)
  /\ RetireOrLatch(i)
  /\ UNCHANGED <<durable, indexed, lim, phase>>

StillServing(i) == Serving           \* mutation: no second look at the reservation
StillReserved(i) == Serving /\ row[i].st = "W" /\ row[i].left > 0

DiscardWrite(i) ==
  /\ phase \in {"up", "closed"}
  /\ wpc[i] = "writing"
  /\ ~StillReserved(i)
  /\ EndWrite(i)
  /\ UNCHANGED <<dbVars, ramVars>>

CommitWrite(i) ==
  /\ wpc[i] = "writing"
  /\ StillReserved(i)
  /\ file' = [file EXCEPT ![i] = "final"]
  /\ row' = [row EXCEPT ![i].st = "C", ![i].left = Lease]
  /\ older' = Touched(i)
  /\ durable' = Note(row[i].key)
  /\ wpc' = [wpc EXCEPT ![i] = "done"]
  /\ UNCHANGED <<lease, total, indexed, failed, lim, phase>>

(* The rename or the index commit fails. *)
CommitFails(i) ==
  /\ Faults
  /\ wpc[i] = "writing"
  /\ StillReserved(i)
  /\ \/ EndWrite(i)
     \/ /\ file' = [file EXCEPT ![i] = "final"]
        /\ wpc' = [wpc EXCEPT ![i] = "done"]
  /\ RetireOrLatch(i)
  /\ UNCHANGED <<durable, indexed, lim, phase>>

-----------------------------------------------------------------------------
(* Readers: reserve_read(), read_into(), renew(), release(), invalidate(). *)

ReserveRead(l, i) ==
  /\ Serving
  /\ lease[l] = FreeLease
  /\ row[i].st = "C"
  /\ Known(row[i].key)
  /\ file[i] \in RightSize
  /\ row' = [Expire(row) EXCEPT ![i].left = Lease]
  /\ lease' = [lease EXCEPT ![l] = [obj |-> i, left |-> Lease]]
  /\ UNCHANGED <<total, older, file, ramVars, wpc>>

(* The key is known but not to be had, or no lease token is left. *)
ReserveReadMiss(k) ==
  /\ Serving
  /\ Known(k)
  /\ \/ \A i \in Holding(row, k) : row[i].st # "C"
     \/ \A l \in Leases : lease[l] # FreeLease
  /\ row' = Expire(row)
  /\ UNCHANGED <<lease, total, older, file, ramVars, wpc>>

ReadInto(l) ==
  LET i == lease[l].obj IN
  /\ Serving
  /\ i # None
  /\ row[i].st \in {"C", "T"}
  /\ file[i] = "final"
  /\ IF row[i].st = "C"
     THEN row' = [row EXCEPT ![i].left = Lease] /\ older' = Touched(i)
     ELSE UNCHANGED <<row, older>>
  /\ UNCHANGED <<lease, total, file, ramVars, wpc>>

ReadFails(l) ==
  LET i == lease[l].obj IN
  /\ Serving
  /\ i # None
  /\ row[i].st \in {"C", "T"}
  /\ file[i] # "final" \/ Faults
  /\ RetireOrLatch(i)
  /\ durable' = Forget({row[i].key})
  /\ UNCHANGED <<file, indexed, lim, phase, wpc>>

Invalidate(k) ==
  /\ phase = "up"
  /\ \E i \in Holding(row, k) : RetireOrLatch(i)
  /\ durable' = Forget({k})
  /\ UNCHANGED <<file, indexed, lim, phase, wpc>>

ReleaseRead(l) ==
  /\ phase = "up"
  /\ lease' = [lease EXCEPT ![l] = FreeLease]
  /\ UNCHANGED <<row, total, older, file, ramVars, wpc>>

ReleaseWrite(i) ==
  /\ phase = "up"
  /\ \/ /\ row[i].st = "C"
        /\ row' = [row EXCEPT ![i].left = 0]
     \/ /\ row[i].st = "W"
        /\ row' = Retire(row, {i})
  /\ UNCHANGED <<lease, total, older, file, ramVars, wpc>>

ReleaseFails ==
  /\ Faults
  /\ phase = "up"
  /\ failed' = TRUE
  /\ UNCHANGED <<dbVars, file, durable, indexed, lim, phase, wpc>>

Prolonged(left) == left + Lease      \* mutation: added to the old expiry, not to now
Renewed(left)   == Lease

RenewRead(l) ==
  /\ Serving
  /\ lease[l].left > 0
  /\ lease' = [lease EXCEPT ![l].left = Renewed(@)]
  /\ UNCHANGED <<row, total, older, file, ramVars, wpc>>

RenewWrite(i) ==
  /\ Serving
  /\ row[i].st \in {"W", "C"} /\ row[i].left > 0
  /\ row' = [row EXCEPT ![i].left = Renewed(@)]
  /\ UNCHANGED <<lease, total, older, file, ramVars, wpc>>

ClearFailure ==
  /\ OperatorClears
  /\ phase = "up"
  /\ failed
  /\ failed' = FALSE
  /\ UNCHANGED <<dbVars, file, durable, indexed, lim, phase, wpc>>

-----------------------------------------------------------------------------
(* Close, crash, a damaged medium, and recovery. *)

Close ==
  /\ Crashes
  /\ phase = "up"
  /\ phase' = "closed"
  /\ UNCHANGED <<dbVars, file, durable, indexed, failed, lim, wpc>>

Dies ==
  /\ Crashes
  /\ phase # "down"
  /\ phase' = "down"
  /\ durable' = {}
  /\ indexed' = TRUE
  /\ failed' = FALSE
  /\ wpc' = [i \in Ids |-> IF row[i].st = "new" THEN "idle" ELSE "done"]
  /\ older' = InOrder(row')
  /\ UNCHANGED <<lease, lim>>

(* The process dies between two operations, between the rename and the     *)
(* index commit of a write, part way through a collection, or with a       *)
(* superseded tombstone unlinked and the transaction not committed.        *)
Crash ==
  /\ UNCHANGED <<row, file, total>>
  /\ Dies

CrashAfterRename(i) ==
  /\ wpc[i] = "writing"
  /\ StillReserved(i)
  /\ file' = [file EXCEPT ![i] = "final"]
  /\ UNCHANGED <<row, total>>
  /\ Dies

CrashInCollect(done, half) ==
  /\ Serving \/ phase \in {"reset", "verify", "marked"}
  /\ PartlyCollected(Swept, Collectable(Swept, ~Serving), done, half)
  /\ row' = Erase(Swept, done)
  /\ Dies

CrashInSupersede(k) ==
  /\ Serving
  /\ row' = Evicted
  /\ total' = Remaining
  /\ file' \in {Unlink(Dead), Unlink(Dead \cup Superseded(k))}
  /\ Dies

(* Recovery looks at a file once, so damage during recovery is no          *)
(* different from damage just after it.                                    *)
Damage(i) ==
  /\ Faults
  /\ phase \notin Recovering
  /\ file[i] = "final"
  /\ \E f \in {"flipped", "short"} : file' = [file EXCEPT ![i] = f]
  /\ UNCHANGED <<dbVars, ramVars, wpc>>

RecoverReset(l) ==
  /\ phase = "down"
  /\ lim' = l
  /\ lease' = [t \in Leases |-> FreeLease]
  /\ row' = [i \in Ids |->
               CASE row[i].st = "W" -> [row[i] EXCEPT !.st = "T", !.left = 0]
                 [] row[i].st = "C" -> [row[i] EXCEPT !.left = Lease]
                 [] OTHER -> row[i]]
  /\ total' = Bytes(row, Stored(row))
  /\ phase' = "reset"
  /\ UNCHANGED <<older, file, durable, indexed, failed, wpc>>

AfterSweep == [reset |-> "scan", verify |-> "shrink", marked |-> "final"]

(* collect(force=True), called three times. *)
RecoverSweep ==
  /\ phase \in DOMAIN AfterSweep
  /\ LET dead == Collectable(Swept, TRUE) IN
     /\ row' = Erase(Swept, dead)
     /\ total' = total - Bytes(Swept, dead)
     /\ file' = Unlink(dead)
  /\ phase' = AfterSweep[phase]
  /\ UNCHANGED <<lease, older, durable, indexed, failed, lim, wpc>>

OrphansByName == {i \in Ids : file[i] # "absent"}  \* mutation: the index is not asked
Orphans == {i \in Ids : file[i] = "part" \/ (file[i] # "absent" /\ row[i].st \notin Live)}

RecoverScan(i) ==
  /\ phase = "scan"
  /\ i \in Orphans
  /\ file' = [file EXCEPT ![i] = "absent"]
  /\ UNCHANGED <<dbVars, ramVars, wpc>>

RecoverVerify ==
  /\ phase = "scan"
  /\ Orphans = {}
  /\ row' = [i \in Ids |-> IF row[i].st = "C" /\ file[i] \notin RightSize
                           THEN [row[i] EXCEPT !.st = "T", !.left = 0] ELSE row[i]]
  /\ older' = InOrder(row')
  /\ phase' = "verify"
  /\ UNCHANGED <<lease, total, file, durable, indexed, failed, lim, wpc>>

RecoverShrink ==
  /\ phase = "shrink"
  /\ row' = IF total > lim.high
            THEN Retire(row, MarkDown(row, total, InState(row, "C"))) ELSE row
  /\ older' = InOrder(row')
  /\ phase' = "marked"
  /\ UNCHANGED <<lease, total, file, durable, indexed, failed, lim, wpc>>

(* _rebuild_durable(); without an index every key is tried in SQL. *)
RecoverOpen ==
  /\ phase = "final"
  /\ total <= lim.quota
  /\ \/ indexed' = TRUE /\ durable' = KeysOf(row, InState(row, "C"))
     \/ Faults /\ indexed' = FALSE /\ durable' = {}
  /\ phase' = "up"
  /\ UNCHANGED <<dbVars, file, failed, lim, wpc>>

-----------------------------------------------------------------------------
WriteStep(i) ==
  BeginWrite(i) \/ OpenPartial(i) \/ DiscardWrite(i) \/ CommitWrite(i)

Next ==
  \/ Tick
  \/ \E k \in Keys :
       \/ ReserveWriteRefused(k) \/ AdmissionFails(k) \/ ReserveReadMiss(k)
       \/ Invalidate(k) \/ CrashInSupersede(k)
       \/ \E c \in 1..MaxCharge, i \in Ids : ReserveWrite(k, c, i)
  \/ \E done, half \in SUBSET Ids :
       CollectFails(done, half) \/ EvictFails(done, half) \/ CrashInCollect(done, half)
  \/ \E i \in Ids :
       \/ WriteStep(i) \/ PayloadFails(i) \/ CommitFails(i)
       \/ ReleaseWrite(i) \/ RenewWrite(i)
       \/ CrashAfterRename(i) \/ Damage(i) \/ RecoverScan(i)
  \/ \E l \in Leases :
       \/ ReadInto(l) \/ ReadFails(l) \/ ReleaseRead(l) \/ RenewRead(l)
       \/ \E i \in Ids : ReserveRead(l, i)
  \/ ReleaseFails \/ ClearFailure \/ Close \/ Crash
  \/ \E l \in Limits : RecoverReset(l)
  \/ RecoverSweep \/ RecoverVerify \/ RecoverShrink \/ RecoverOpen

Spec == Init /\ [][Next]_vars

-----------------------------------------------------------------------------
(* A read lease protects its object: until the lease ends, whatever is     *)
(* evicted, invalidated, superseded or collected meanwhile, the row is     *)
(* there and nobody but the medium has touched the file.                   *)
LeasedFilesStay ==
  \A l \in Leases : lease[l].obj # None =>
    /\ row[lease[l].obj].st \in {"C", "T"}
    /\ file[lease[l].obj] \in Placed

(* An object the index calls committed has its file in place, at every     *)
(* point a crash can hit, recovery included.                               *)
CommittedHasFile == \A i \in Ids : row[i].st = "C" => file[i] \in Placed

(* The running total is the sum of the charges of all rows, tombstones and *)
(* reservations included, and never passes the hard quota.                 *)
AccountingExact ==
  phase = "up" => total = Bytes(row, Stored(row)) /\ total <= lim.quota

(* No file outlives its charge, but for a partial whose row was collected  *)
(* under its writer, and that only while the writer has not found out yet  *)
(* or when it found out and the unlink failed.  A payload is never without *)
(* its charge, and no other failed write leaves a partial without one.     *)
NoUnchargedFile ==
  phase = "up" =>
    \A i \in Ids : file[i] # "absent" /\ row[i].st \notin Live =>
      file[i] = "part" /\ wpc[i] \in {"writing", "stuck"}

(* A miss in the in-RAM index is final, so every committed key is in it    *)
(* while the store answers at all.                                         *)
IndexAuthoritative ==
  Serving => \A i \in Ids : row[i].st = "C" => Known(row[i].key)

(* An invalidated, evicted, expired or abandoned object never comes back,  *)
(* not even through its own late writer or through recovery.               *)
NoResurrection ==
  [][\A i \in Ids : row[i].st \in {"T", "gone"} => row'[i].st \in {"T", "gone"}]_vars

(* A store that opens is exact: no lease, reservation or tombstone is      *)
(* left, the directory holds the files of the committed objects and no     *)
(* other, all of the right length, and the index and the total match.      *)
CleanStart ==
  /\ \A l \in Leases : lease[l] = FreeLease
  /\ \A i \in Ids : /\ row[i].st \in {"new", "C", "gone"}
                    /\ IF row[i].st = "C" THEN file[i] \in {"final", "flipped"}
                                          ELSE file[i] = "absent"
  /\ total = Bytes(row, Stored(row))
  /\ total <= lim.quota
  /\ indexed => durable = KeysOf(row, InState(row, "C"))
RecoveryClean == [][phase # "up" /\ phase' = "up" => CleanStart']_vars

(* What a reader, a writer and the manager may rely on: ObjectCache.       *)
Cache == INSTANCE ObjectCache WITH
  visible <- [k \in Keys |->
                IF \E i \in Ids : row[i].st = "C" /\ row[i].key = k
                THEN CHOOSE i \in Ids : row[i].st = "C" /\ row[i].key = k ELSE None],
  stored  <- {i \in Ids : file[i] \in Placed},
  retired <- {i \in Ids : row[i].st \in {"T", "gone"}},
  pin     <- [l \in Leases |-> lease[l].obj]
CacheSpec == Cache!Spec

-----------------------------------------------------------------------------
(* Under continuing write traffic (only reserve_write() collects), with    *)
(* the clock running and invalidations of the same key not repeated for    *)
(* ever (each one restarts the grace period), the charge of an abandoned   *)
(* object comes back.                                                      *)
Traffic ==
  \E k \in Keys : ReserveWriteRefused(k)
                 \/ \E c \in 1..MaxCharge, i \in Ids : ReserveWrite(k, c, i)

LiveSpec ==
  /\ Spec
  /\ WF_vars(Tick)
  /\ WF_vars(Traffic)
  /\ <>[][\A k \in Keys : ~Invalidate(k)]_vars

AbandonedBytesReturn ==
  \A i \in Ids : \/ row[i].st = "W" /\ row[i].left = 0
                 \/ row[i].st = "T" /\ ~Leased(i)
                 ~> row[i].st = "gone"

=============================================================================
