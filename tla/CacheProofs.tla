---------------------------- MODULE CacheProofs -----------------------------
(***************************************************************************)
(* DiskStore implements ObjectCache, and its directory, its in-RAM index   *)
(* and its recovery are right: for every set of objects, keys and leases,  *)
(* every configuration, and through faults, crashes and recovery.          *)
(***************************************************************************)
EXTENDS DiskStoreProofs

-----------------------------------------------------------------------------
(* The inductive invariant.                                                *)

(* Two stored objects never share a key. *)
Alone(r) == \A i, j \in Ids : r[i].st \in Live /\ r[j].st \in Live /\ r[i].key = r[j].key => i = j

(* Where the thread that writes an object stands, and what is in its file. *)
Fresh   == \A i \in Ids : row[i].st = "new" => wpc[i] = "idle"
Partial == \A i \in Ids : /\ wpc[i] \in {"idle", "checked"} => file[i] = "absent"
                          /\ wpc[i] = "writing" => file[i] \in {"absent", "part"}
NoWriters == phase \notin {"up", "closed"} => \A i \in Ids : wpc[i] \in {"idle", "done"}

(* How far recovery has come. *)
Verified  == {"verify", "shrink", "marked", "final"}
Recovered ==
  /\ phase \in Recovering => /\ \A l \in Leases : lease[l] = FreeLease
                             /\ \A i \in Ids : row[i].st # "W"
  /\ phase \in Verified => \A i \in Ids : /\ file[i] # "absent" => row[i].st \in Live
                                          /\ row[i].st = "C" => file[i] \in RightSize
  /\ phase = "final" => \A i \in Ids : row[i].st # "T"

Files == Fresh /\ Partial /\ NoWriters /\ NoUnchargedFile /\ Recovered

(* Without clear_failure(); with it, finding 1. *)
IndexKept == ~OperatorClears => IndexAuthoritative

Whole == Safe /\ Alone(row) /\ Files /\ IndexKept

-----------------------------------------------------------------------------
(* Tables in which objects were only reserved, retired or erased.          *)

Aged(r) ==
  /\ r \in Rows
  /\ \A i \in Ids :
       \/ r[i].st = row[i].st /\ r[i].key = row[i].key
       \/ row[i].st = "new" /\ r[i].st = "W"
       \/ row[i].st \in Live /\ r[i].st = "T" /\ r[i].key = row[i].key
       \/ row[i].st \in Live /\ r[i].st = "gone"
Unreserved(r) == \A i \in Ids : row[i].st = "new" => r[i].st = "new"

LEMMA RetireAged ==
  ASSUME NEW r, Aged(r), Unreserved(r), NEW S, \A i \in Ids : i \in S => r[i].st \in Live
  PROVE  Aged(Retire(r, S)) /\ Unreserved(Retire(r, S))
BY RetireFacts DEF Aged, Unreserved, Live

LEMMA EraseAged ==
  ASSUME NEW r, Aged(r), Unreserved(r), NEW S, \A i \in Ids : i \in S => r[i].st \in Live
  PROVE  Aged(Erase(r, S)) /\ Unreserved(Erase(r, S))
BY EraseFacts DEF Aged, Unreserved, Live, NoRow

LEMMA RowAged ==
  ASSUME row \in Rows
  PROVE  Aged(row) /\ Unreserved(row)
BY DEF Aged, Unreserved

LEMMA AgedAlone ==
  ASSUME Alone(row), NEW r, Aged(r), Unreserved(r)
  PROVE  Alone(r)
BY DEF Alone, Aged, Unreserved, Live

LEMMA SweepAged ==
  ASSUME row \in Rows
  PROVE  /\ Aged(Swept) /\ Unreserved(Swept)
         /\ \A i \in Ids : row[i].st \in Live => Swept[i].st \in Live
         /\ \A force : \A S \in SUBSET Collectable(Swept, force) :
              /\ Aged(Erase(Swept, S)) /\ Unreserved(Erase(Swept, S))
              /\ S \subseteq Ids
              /\ \A i \in S : ~Leased(i) /\ Erase(Swept, S)[i].st = "gone" /\ Swept[i].st = "T"
              /\ \A i \in Ids \ S : Erase(Swept, S)[i] = Swept[i]
<1>1. Aged(row) /\ Unreserved(row)
  BY RowAged
<1>2. \A i \in Ids : i \in Overdue(row) => row[i].st \in Live
  BY DEF Overdue, Live
<1>3. Aged(Swept) /\ Unreserved(Swept)
  BY <1>1, <1>2, RetireAged DEF Swept, Expire
<1>4. \A i \in Ids : row[i].st \in Live => Swept[i].st \in Live
  BY <1>2, RetireFacts DEF Swept, Expire, Live
<1>5. ASSUME NEW force, NEW S \in SUBSET Collectable(Swept, force)
      PROVE  /\ Aged(Erase(Swept, S)) /\ Unreserved(Erase(Swept, S))
             /\ S \subseteq Ids
             /\ \A i \in S : ~Leased(i) /\ Erase(Swept, S)[i].st = "gone" /\ Swept[i].st = "T"
             /\ \A i \in Ids \ S : Erase(Swept, S)[i] = Swept[i]
  <2>1. \A i \in Ids : i \in S => Swept[i].st = "T" /\ ~Leased(i)
    BY DEF Collectable
  <2>2. Swept \in Rows /\ S \subseteq Ids
    BY <1>3 DEF Aged, Collectable
  <2>3. Aged(Erase(Swept, S)) /\ Unreserved(Erase(Swept, S))
    BY <1>3, <2>1, EraseAged DEF Live
  <2>4. QED
    BY <2>1, <2>2, <2>3, EraseFacts DEF NoRow
<1>6. QED
  BY <1>3, <1>4, <1>5

LEMMA ReserveAged ==
  ASSUME row \in Rows, NEW k
  PROVE  /\ Aged(Evicted) /\ Unreserved(Evicted) /\ Aged(Freed(k)) /\ Unreserved(Freed(k))
         /\ Aged(Collected) /\ Unreserved(Collected)
         /\ \A i \in Ids : row[i].st \in Live /\ Evicted[i].st \notin Live => i \in Dead
         /\ \A i \in Ids : row[i].st \in Live /\ Freed(k)[i].st \notin Live => i \in Dead \cup Superseded(k)
         /\ \A i \in Ids : Evicted[i].st = "C" => Collected[i].st = "C" /\ i \notin Reclaimed
         /\ \A i \in Ids : Freed(k)[i].st = "C" => Evicted[i].st = "C"
         /\ Reclaimed \subseteq Ids /\ \A i \in Reclaimed : Collected[i].st = "C"
<1>1. /\ Aged(Collected) /\ Unreserved(Collected)
      /\ \A i \in Ids : row[i].st \in Live /\ i \notin Dead => Collected[i].st \in Live
  <2>1. Dead \in SUBSET Collectable(Swept, FALSE)
    BY DEF Dead
  <2>2. /\ Aged(Collected) /\ Unreserved(Collected)
        /\ \A i \in Ids \ Dead : Collected[i] = Swept[i]
    BY <2>1, SweepAged DEF Collected
  <2>3. QED
    BY <2>2, SweepAged
<1>2. Reclaimed \subseteq Ids /\ \A i \in Reclaimed : Collected[i].st = "C"
  BY DEF Reclaimed, Victims, MarkDown
<1>3. Aged(Evicted) /\ Unreserved(Evicted)
  BY <1>1, <1>2, RetireAged DEF Evicted, Live
<1>4. /\ \A i \in Ids : Collected[i].st \in Live => Evicted[i].st \in Live
      /\ \A i \in Ids : Evicted[i].st = "C" => Collected[i].st = "C" /\ i \notin Reclaimed
  BY <1>1, <1>2, RetireFacts DEF Evicted, Live, Aged
<1>5. \A i \in Ids : i \in Superseded(k) => Evicted[i].st = "T"
  BY DEF Superseded, Blocked
<1>6. Aged(Freed(k)) /\ Unreserved(Freed(k))
  BY <1>3, <1>5, EraseAged DEF Freed, Live
<1>7. \A i \in Ids : i \notin Superseded(k) => Freed(k)[i] = Evicted[i]
  BY <1>3, EraseFacts DEF Freed, Aged
<1>8. \A i \in Ids : i \in Superseded(k) => Freed(k)[i].st = "gone"
  BY <1>3, EraseFacts DEF Freed, Aged, NoRow
<1>9. QED
  BY <1>1, <1>2, <1>3, <1>4, <1>6, <1>7, <1>8

-----------------------------------------------------------------------------
(* The directory and the threads that write.                               *)

LEMMA UpFiles ==   \* a step of an open or closed store
  ASSUME Whole, phase \in {"up", "closed"}, phase' = phase,
         \A i \in Ids : row'[i].st = "new" => row[i].st = "new",
         \A i \in Ids : \/ file'[i] = file[i] \/ file'[i] = "absent"
                        \/ file[i] \in Placed /\ file'[i] \in Placed
                        \/ file'[i] = "part" /\ wpc'[i] = "writing"
                        \/ wpc'[i] = "done" /\ wpc[i] # "done" /\ row'[i].st \in Live,
         \A i \in Ids : row[i].st \in Live /\ row'[i].st \notin Live => file'[i] = "absent",
         \A i \in Ids : \/ wpc'[i] = wpc[i]
                        \/ wpc[i] = "idle" /\ wpc'[i] = "checked" /\ row[i].st # "new"
                        \/ wpc[i] = "checked" /\ wpc'[i] = "writing"
                        \/ /\ wpc'[i] = "done" /\ row[i].st # "new"
                           /\ file'[i] = "absent" \/ row'[i].st \in Live
                        \/ /\ wpc'[i] = "stuck" /\ wpc[i] \in {"checked", "writing"}
                           /\ row[i].st # "new" /\ file'[i] = file[i]
  PROVE  Files'
<1> USE DEF Whole, Files
<1>1. Fresh'
  BY DEF Fresh
<1>2. Partial'
  BY DEF Partial, Placed
<1>3. NoWriters' /\ Recovered'
  BY DEF NoWriters, Recovered, Recovering, Verified
<1>4. NoUnchargedFile'
  BY DEF NoUnchargedFile, Placed
<1>5. QED
  BY <1>1, <1>2, <1>3, <1>4

LEMMA DownFiles ==   \* a crash
  ASSUME Whole, Dies,
         \A i \in Ids : row'[i].st = "new" => row[i].st = "new",
         \A i \in Ids : file'[i] \in {file[i], "absent"} \/ row[i].st # "new"
  PROVE  Files'
<1> USE DEF Whole, Files
<1>1. phase' = "down" /\ wpc' = [i \in Ids |-> IF row[i].st = "new" THEN "idle" ELSE "done"]
  BY DEF Dies
<1>2. Fresh' /\ NoWriters' /\ NoUnchargedFile' /\ Recovered'
  BY <1>1 DEF Fresh, NoWriters, NoUnchargedFile, Recovered, Recovering, Verified
<1>3. Partial'
  BY <1>1 DEF Partial, Fresh
<1>4. QED
  BY <1>2, <1>3

(* The index: what stays committed stays known, unless the store fails.    *)
LEMMA UpIndex ==
  ASSUME Whole, indexed' = indexed, phase' = phase \/ phase' # "up",
         failed' \/ ~failed \/ phase' # "up",
         Serving' => \A i \in Ids : row'[i].st = "C" =>
                       /\ row[i].st = "C" /\ row'[i].key = row[i].key
                       /\ row[i].key \in durable => row[i].key \in durable'
  PROVE  IndexKept'
BY DEF Whole, IndexKept, IndexAuthoritative, Serving, Known

-----------------------------------------------------------------------------
(* The refinement mapping.                                                 *)

Visible(r, k) == IF \E i \in Ids : r[i].st = "C" /\ r[i].key = k
                 THEN CHOOSE i \in Ids : r[i].st = "C" /\ r[i].key = k ELSE None
Retired == {i \in Ids : row[i].st \in {"T", "gone"}}
Present == {i \in Ids : file[i] \in Placed}
Pinning == [l \in Leases |-> lease[l].obj]
Looked  == [k \in Keys |-> Visible(row, k)]

LEMMA VisibleFacts ==
  ASSUME NEW r \in Rows, Alone(r), NEW k \in Keys
  PROVE  /\ Visible(r, k) \in Ids \cup {None}
         /\ \A i \in Ids : Visible(r, k) = i <=> r[i].st = "C" /\ r[i].key = k
<1>1. CASE \E i \in Ids : r[i].st = "C" /\ r[i].key = k
  <2>1. /\ Visible(r, k) \in Ids /\ r[Visible(r, k)].st = "C" /\ r[Visible(r, k)].key = k
    BY <1>1 DEF Visible
  <2>2. QED
    BY <2>1 DEF Alone, Live
<1>2. CASE ~\E i \in Ids : r[i].st = "C" /\ r[i].key = k
  BY <1>2, NoneAssumption DEF Visible
<1>3. QED
  BY <1>1, <1>2

(* The actions of ObjectCache under the mapping.                           *)
LEMMA MappedReclaim ==
  ASSUME NEW R \in SUBSET Ids, NEW P \in SUBSET Ids,
         Retired' = Retired \cup R, P \subseteq Retired' \ {Pinning[l] : l \in Leases},
         Looked' = [k \in Keys |-> IF Looked[k] \in R THEN None ELSE Looked[k]],
         Present' = Present \ P, Pinning' = Pinning
  PROVE  Cache!Next
<1>1. Cache!Reclaim(R, P)
  BY DEF Cache!Reclaim, Cache!Pinned, Looked, Present, Retired, Pinning, Visible
<1>2. QED
  BY <1>1 DEF Cache!Next

LEMMA MappedUnpin ==
  ASSUME NEW S \in SUBSET Leases, NEW R \in SUBSET (Ids \ {Looked[k] : k \in Keys}),
         Pinning' = [l \in Leases |-> IF l \in S THEN None ELSE Pinning[l]],
         Looked' = Looked, Present' = Present, Retired' = Retired \cup R
  PROVE  Cache!Next
<1>1. Cache!Unpin(S)
  BY DEF Cache!Unpin, Cache!Shown, Looked, Present, Retired, Pinning, Visible
<1>2. QED
  BY <1>1 DEF Cache!Next

LEMMA MappedPin ==
  ASSUME NEW l \in Leases, NEW i \in Ids, NEW R \in SUBSET (Ids \ {Looked[k] : k \in Keys}),
         Pinning[l] = None, i \in {Looked[k] : k \in Keys}, Pinning' = [Pinning EXCEPT ![l] = i],
         Looked' = Looked, Present' = Present, Retired' = Retired \cup R
  PROVE  Cache!Next
<1>1. Cache!Pin(l, i)
  BY DEF Cache!Pin, Cache!Shown, Looked, Present, Retired, Pinning, Visible
<1>2. QED
  BY <1>1 DEF Cache!Next

LEMMA MappedPlace ==
  ASSUME NEW i \in Ids, NEW R \in SUBSET (Ids \ {Looked[k] : k \in Keys}),
         i \notin Present, Present' = Present \cup {i}, Pinning' = Pinning,
         Looked' = Looked, Retired' = Retired \cup R
  PROVE  Cache!Next
<1>1. Cache!Place(i)
  BY DEF Cache!Place, Cache!Shown, Looked, Present, Retired, Pinning, Visible
<1>2. QED
  BY <1>1 DEF Cache!Next

LEMMA MappedPublish ==
  ASSUME NEW k \in Keys, NEW i \in Ids,
         Looked[k] = None, i \notin Retired \cup {Looked[h] : h \in Keys},
         Looked' = [Looked EXCEPT ![k] = i], Present' = Present \cup {i},
         Pinning' = Pinning, Retired' = Retired
  PROVE  Cache!Next
<1>1. Cache!Publish(k, i)
  BY DEF Cache!Publish, Cache!Shown, Looked, Present, Retired, Pinning, Visible
<1>2. QED
  BY <1>1 DEF Cache!Next

(* Steps that end the leases of nobody, and show nothing new.              *)
LEMMA ReclaimStep ==
  ASSUME Whole, Alone(row'), Aged(row'),
         \A l \in Leases : lease'[l].obj = lease[l].obj,
         \A i \in Ids : \/ file'[i] \in Placed <=> file[i] \in Placed
                        \/ file'[i] = "absent" /\ row'[i].st \in {"T", "gone"} /\ ~Leased(i)
  PROVE  Cache!Next
<1> DEFINE R == Retired'
           P == {i \in Present : i \notin Present'}
<1>0. row \in Rows /\ row' \in Rows /\ Alone(row)
  BY TypeRows DEF Whole, Safe, Aged
<1>1. R \in SUBSET Ids /\ P \in SUBSET Ids
  BY DEF Retired, Present
<1>2. Retired' = Retired \cup R
  BY DEF Aged, Retired, Live
<1>3. \A i \in P : row'[i].st \in {"T", "gone"} /\ ~Leased(i) /\ i \in Ids
  BY DEF Present
<1>4. P \subseteq Retired' \ {Pinning[l] : l \in Leases}
  BY <1>3 DEF Retired, Pinning, Leased
<1>5. Present' = Present \ P
  <2>1. \A i \in Ids : file'[i] \in Placed => file[i] \in Placed
    BY DEF Placed
  <2>2. QED
    BY <2>1 DEF Present
<1>6. Pinning' = Pinning
  BY DEF Pinning
<1>7. Looked' = [k \in Keys |-> IF Looked[k] \in R THEN None ELSE Looked[k]]
  <2> SUFFICES ASSUME NEW k \in Keys
               PROVE  Visible(row', k) = IF Visible(row, k) \in R THEN None ELSE Visible(row, k)
    BY DEF Looked
  <2>1. /\ Visible(row, k) \in Ids \cup {None} /\ Visible(row', k) \in Ids \cup {None}
        /\ \A i \in Ids : Visible(row, k) = i <=> row[i].st = "C" /\ row[i].key = k
        /\ \A i \in Ids : Visible(row', k) = i <=> row'[i].st = "C" /\ row'[i].key = k
    BY <1>0, VisibleFacts
  <2>2. \A i \in Ids : row'[i].st = "C" /\ row'[i].key = k => row[i].st = "C" /\ row[i].key = k
    BY DEF Aged
  <2>3. \A i \in Ids : row[i].st = "C" /\ row[i].key = k => \/ row'[i].st = "C" /\ row'[i].key = k
                                                            \/ i \in R
    BY DEF Aged, Retired
  <2>4. \A i \in R : row'[i].st # "C" /\ i \in Ids
    BY DEF Retired
  <2>5. None \notin Ids
    BY NoneAssumption
  <2>6. QED
    BY <2>1, <2>2, <2>3, <2>4, <2>5
<1>8. QED
  BY <1>1, <1>2, <1>4, <1>5, <1>6, <1>7, MappedReclaim

(* The committed objects are the same.                                     *)
SameShown == \A i \in Ids : /\ row'[i].st = "C" <=> row[i].st = "C"
                            /\ row[i].st = "C" => row'[i].key = row[i].key
StillRetired == \A i \in Ids : row[i].st \in {"T", "gone"} => row'[i].st \in {"T", "gone"}

LEMMA SameLooked ==
  ASSUME Whole, Alone(row'), row' \in Rows, SameShown, StillRetired
  PROVE  /\ Looked' = Looked
         /\ \E R \in SUBSET (Ids \ {Looked[k] : k \in Keys}) : Retired' = Retired \cup R
         /\ \A k \in Keys, i \in Ids : Looked[k] = i => row[i].st = "C" /\ row[i].key = k
<1>0. row \in Rows /\ Alone(row)
  BY TypeRows DEF Whole, Safe
<1>1. \A k \in Keys : \A i \in Ids : Looked[k] = i <=> row[i].st = "C" /\ row[i].key = k
  BY <1>0, VisibleFacts DEF Looked
<1>2. Looked' = Looked
  <2> SUFFICES ASSUME NEW k \in Keys PROVE Visible(row', k) = Visible(row, k)
    BY DEF Looked
  <2>1. /\ Visible(row, k) \in Ids \cup {None} /\ Visible(row', k) \in Ids \cup {None}
        /\ \A i \in Ids : Visible(row, k) = i <=> row[i].st = "C" /\ row[i].key = k
        /\ \A i \in Ids : Visible(row', k) = i <=> row'[i].st = "C" /\ row'[i].key = k
    BY <1>0, VisibleFacts
  <2>2. QED
    BY <2>1, NoneAssumption DEF SameShown
<1>3. /\ Retired' \ Retired \in SUBSET (Ids \ {Looked[k] : k \in Keys})
      /\ Retired' = Retired \cup (Retired' \ Retired)
  <2>1. \A i \in Retired' : i \in Ids /\ row[i].st # "C"
    BY DEF Retired, SameShown
  <2>2. Retired \subseteq Retired'
    BY DEF Retired, StillRetired
  <2>3. QED
    BY <1>1, <2>1, <2>2
<1>4. QED
  BY <1>1, <1>2, <1>3

LEMMA UnpinStep ==
  ASSUME Whole, Alone(row'), row' \in Rows, SameShown, StillRetired,
         \A i \in Ids : file'[i] \in Placed <=> file[i] \in Placed,
         \A l \in Leases : lease'[l].obj \in {lease[l].obj, None}
  PROVE  Cache!Next
<1> DEFINE S == {l \in Leases : lease'[l].obj = None}
<1>1. S \in SUBSET Leases /\ Pinning' = [l \in Leases |-> IF l \in S THEN None ELSE Pinning[l]]
  BY DEF Pinning
<1>2. Present' = Present
  BY DEF Present
<1>3. QED
  BY <1>1, <1>2, SameLooked, MappedUnpin

LEMMA PlaceStep ==
  ASSUME Whole, Alone(row'), row' \in Rows, SameShown, StillRetired,
         NEW i \in Ids, file[i] \notin Placed, file' = [file EXCEPT ![i] = "final"], lease' = lease
  PROVE  Cache!Next
<1>1. i \notin Present /\ Present' = Present \cup {i} /\ Pinning' = Pinning
  BY DEF Present, Pinning, Placed, Whole, Safe, Types
<1>2. QED
  BY <1>1, SameLooked, MappedPlace

LEMMA PinStep ==
  ASSUME Whole, Alone(row'), row' \in Rows, SameShown, StillRetired, file' = file,
         NEW l \in Leases, NEW i \in Ids, lease[l].obj = None, row[i].st = "C",
         lease' = [lease EXCEPT ![l] = [obj |-> i, left |-> Lease]]
  PROVE  Cache!Next
<1>0. row \in Rows /\ Alone(row) /\ row[i].key \in Keys
  BY TypeRows DEF Whole, Safe, Keyed, Live
<1>1. Visible(row, row[i].key) = i
  BY <1>0, VisibleFacts
<1>2. i \in {Looked[k] : k \in Keys}
  BY <1>0, <1>1 DEF Looked
<1>3. Present' = Present /\ Pinning[l] = None /\ Pinning' = [Pinning EXCEPT ![l] = i]
  BY DEF Present, Pinning, Whole, Safe, Types
<1>4. QED
  BY <1>2, <1>3, SameLooked, MappedPin

LEMMA PublishStep ==
  ASSUME Whole, Alone(row'), row' \in Rows,
         NEW i \in Ids, row[i].st = "W", row' = [row EXCEPT ![i] = [row[i] EXCEPT !.st = "C", !.left = Lease]],
         file' = [file EXCEPT ![i] = "final"], lease' = lease
  PROVE  Cache!Next
<1>0. row \in Rows /\ Alone(row) /\ row[i].key \in Keys
  BY TypeRows DEF Whole, Safe, Keyed, Live
<1> DEFINE k == row[i].key
<1>1. \A h \in Keys : /\ Looked[h] \in Ids \cup {None} /\ Looked'[h] \in Ids \cup {None}
                      /\ \A j \in Ids : Looked[h] = j <=> row[j].st = "C" /\ row[j].key = h
                      /\ \A j \in Ids : Looked'[h] = j <=> row'[j].st = "C" /\ row'[j].key = h
  <2> TAKE h \in Keys
  <2>1. Looked[h] = Visible(row, h) /\ Looked'[h] = Visible(row', h)
    BY DEF Looked
  <2>2. /\ Visible(row, h) \in Ids \cup {None} /\ Visible(row', h) \in Ids \cup {None}
        /\ \A j \in Ids : Visible(row, h) = j <=> row[j].st = "C" /\ row[j].key = h
        /\ \A j \in Ids : Visible(row', h) = j <=> row'[j].st = "C" /\ row'[j].key = h
    BY <1>0, VisibleFacts
  <2>3. QED
    BY <2>1, <2>2
<1>2. /\ row'[i].st = "C" /\ row'[i].key = k
      /\ \A j \in Ids \ {i} : row'[j] = row[j]
  BY <1>0 DEF Rows
<1>3. Looked[k] = None
  BY <1>0, <1>1 DEF Alone, Live
<1>4. i \notin Retired \cup {Looked[h] : h \in Keys}
  BY <1>1 DEF Retired
<1>5. Looked' = [Looked EXCEPT ![k] = i]
  <2>1. \A h \in Keys : Looked'[h] = IF h = k THEN i ELSE Looked[h]
    BY <1>0, <1>1, <1>2, <1>3, NoneAssumption
  <2>2. Looked = [h \in Keys |-> Looked[h]] /\ Looked' = [h \in Keys |-> Looked'[h]]
    BY DEF Looked
  <2>3. QED
    BY <2>1, <2>2
<1>6. Present' = Present \cup {i} /\ Pinning' = Pinning
  BY DEF Present, Pinning, Placed, Whole, Safe, Types
<1>7. Retired' = Retired
  BY <1>2 DEF Retired
<1>8. QED
  BY <1>0, <1>3, <1>4, <1>5, <1>6, <1>7, MappedPublish

-----------------------------------------------------------------------------
(* Every step of the store keeps Whole and is a step of the abstract cache *)
(* (or a stutter of it, which Unpin({}) allows).                           *)

Implemented == Files' /\ Alone(row') /\ IndexKept' /\ Cache!Next

LEMMA KeysAlone ==
  ASSUME Alone(row),
         \A i \in Ids : row'[i].st \in Live => row[i].st \in Live /\ row'[i].key = row[i].key
  PROVE  Alone(row')
BY DEF Alone

(* Only writers that gave up lose their row, and only leases end.          *)
LEMMA CalmStep ==
  ASSUME Whole, Kept,
         \A i \in Ids : /\ row'[i].st = row[i].st \/ (row[i].st = "W" /\ row'[i].st = "T")
                        /\ row[i].st \in Live => row'[i].key = row[i].key,
         \A i \in Ids : file'[i] \in Placed <=> file[i] \in Placed,
         \A l \in Leases : lease'[l].obj \in {lease[l].obj, None}
  PROVE  Alone(row') /\ Cache!Next
<1>1. Alone(row')
  BY KeysAlone DEF Whole, Live
<1>2. row' \in Rows
  BY DEF Kept, Safe, Types, Rows
<1>3. SameShown /\ StillRetired
  BY DEF SameShown, StillRetired, Live
<1>4. QED
  BY <1>1, <1>2, <1>3, UnpinStep

LEMMA AgedStep ==
  ASSUME Whole, Aged(row'), Unreserved(row'),
         \A l \in Leases : lease'[l].obj = lease[l].obj,
         \A i \in Ids : \/ file'[i] \in Placed <=> file[i] \in Placed
                        \/ file'[i] = "absent" /\ row'[i].st \in {"T", "gone"} /\ ~Leased(i)
  PROVE  Alone(row') /\ Cache!Next
BY AgedAlone, ReclaimStep DEF Whole

LEMMA TickStep == Whole /\ Kept /\ Tick => Implemented
<1> SUFFICES ASSUME Whole, Kept, Tick PROVE Implemented
  OBVIOUS
<1>0. row \in Rows
  BY TypeRows DEF Whole, Safe
<1>1. \A i \in Ids : row'[i].st = row[i].st /\ row'[i].key = row[i].key
  BY <1>0 DEF Tick, Rows
<1>2. \A l \in Leases : lease'[l].obj \in {lease[l].obj, None}
  BY DEF Tick, FreeLease, Whole, Safe, Types
<1>3. Alone(row') /\ Cache!Next
  BY <1>1, <1>2, CalmStep DEF Tick
<1>4. Files'
  BY <1>1, UpFiles DEF Tick, ramVars
<1>5. IndexKept'
  BY <1>1, UpIndex DEF Tick, ramVars
<1>6. QED
  BY <1>3, <1>4, <1>5 DEF Implemented

(* reserve_write(), and its failures.                                      *)
LEMMA ReserveIndex ==
  ASSUME Whole, NEW k, NEW r, \A i \in Ids : r[i].st = "C" => Evicted[i].st = "C" /\ r[i].key = row[i].key,
         durable' = Forget(KeysOf(Collected, Reclaimed))
  PROVE  \A i \in Ids : r[i].st = "C" =>
           /\ row[i].st = "C" /\ r[i].key = row[i].key
           /\ row[i].key \in durable => row[i].key \in durable'
<1>0. row \in Rows /\ Alone(row)
  BY TypeRows DEF Whole, Safe
<1>1. Alone(Collected) /\ Aged(Collected)
  BY <1>0, ReserveAged, AgedAlone
<1>2. SUFFICES ASSUME NEW i \in Ids, r[i].st = "C"
               PROVE  /\ row[i].st = "C" /\ r[i].key = row[i].key
                      /\ row[i].key \in durable => row[i].key \in durable'
  OBVIOUS
<1>3. Collected[i].st = "C" /\ i \notin Reclaimed /\ r[i].key = row[i].key
  BY <1>0, <1>2, ReserveAged
<1>4. row[i].st = "C" /\ Collected[i].key = row[i].key
  BY <1>1, <1>3 DEF Aged
<1>5. row[i].key \notin KeysOf(Collected, Reclaimed)
  <2> SUFFICES ASSUME NEW j \in Reclaimed, Collected[j].key = row[i].key PROVE FALSE
    BY DEF KeysOf
  <2>1. j \in Ids /\ Collected[j].st = "C"
    BY <1>0, ReserveAged
  <2>2. QED
    BY <1>1, <1>3, <1>4, <2>1 DEF Alone, Live
<1>6. QED
  BY <1>3, <1>4, <1>5 DEF Forget

LEMMA ReserveStep ==
  ASSUME Whole, Kept, NEW k \in Keys,
         \/ ReserveWriteRefused(k) \/ AdmissionFails(k) \/ CrashInSupersede(k)
         \/ \E c \in 1..MaxCharge, i \in Ids : ReserveWrite(k, c, i)
  PROVE  Implemented
<1>0. row \in Rows /\ row' \in Rows /\ Types
  BY TypeRows DEF Whole, Kept, Safe, Types, Rows
<1>1. CASE ReserveWriteRefused(k)
  <2>1. row' = Freed(k) /\ file' = Unlink(Dead \cup Superseded(k)) /\ lease' = lease
    BY <1>1 DEF ReserveWriteRefused
  <2>2. Alone(row') /\ Cache!Next
    <3>1. Aged(row') /\ Unreserved(row')
      BY <1>0, <2>1, ReserveAged
    <3>2. \A i \in Ids : \/ file'[i] \in Placed <=> file[i] \in Placed
                         \/ file'[i] = "absent" /\ row'[i].st \in {"T", "gone"} /\ ~Leased(i)
      BY <1>0, <2>1, ReserveYounger DEF Unlink
    <3>3. QED
      BY <2>1, <3>1, <3>2, AgedStep
  <2>3. Files'
    <3>1. \A i \in Ids : row'[i].st = "new" => row[i].st = "new"
      BY <1>0, <2>1, ReserveAged DEF Aged
    <3>2. \A i \in Ids : row[i].st \in Live /\ row'[i].st \notin Live => file'[i] = "absent"
      BY <1>0, <2>1, ReserveAged DEF Unlink
    <3>3. \A i \in Ids : file'[i] = file[i] \/ file'[i] = "absent"
      BY <2>1 DEF Unlink
    <3>4. phase \in {"up", "closed"} /\ phase' = phase /\ wpc' = wpc
      BY <1>1 DEF ReserveWriteRefused, Serving
    <3>5. QED
      BY <3>1, <3>2, <3>3, <3>4, UpFiles
  <2>4. IndexKept'
    <3>1. \A i \in Ids : row'[i].st = "C" => Evicted[i].st = "C" /\ row'[i].key = row[i].key
      BY <1>0, <2>1, ReserveAged DEF Aged
    <3>2. durable' = Forget(KeysOf(Collected, Reclaimed)) /\ indexed' = indexed /\ phase' = phase /\ ~failed
      BY <1>1 DEF ReserveWriteRefused, Serving
    <3>3. QED
      BY <3>1, <3>2, ReserveIndex, UpIndex
  <2>5. QED
    BY <2>2, <2>3, <2>4 DEF Implemented
<1>2. CASE AdmissionFails(k) \/ CrashInSupersede(k)
  <2>0. row' = Evicted /\ lease' = lease
    BY <1>2 DEF AdmissionFails, CrashInSupersede, Dies
  <2>1. PICK S \in {Dead, Dead \cup Superseded(k)} : file' = Unlink(S)
    BY <1>2 DEF AdmissionFails, CrashInSupersede
  <2>2. Alone(row') /\ Cache!Next
    <3>1. Aged(row') /\ Unreserved(row')
      BY <1>0, <2>0, ReserveAged
    <3>2. \A i \in Ids : \/ file'[i] \in Placed <=> file[i] \in Placed
                         \/ file'[i] = "absent" /\ row'[i].st \in {"T", "gone"} /\ ~Leased(i)
      BY <1>0, <2>0, <2>1, ReserveYounger DEF Unlink
    <3>3. QED
      BY <2>0, <3>1, <3>2, AgedStep
  <2>3. /\ \A i \in Ids : row'[i].st = "new" => row[i].st = "new"
        /\ \A i \in Ids : row[i].st \in Live /\ row'[i].st \notin Live => file'[i] = "absent"
        /\ \A i \in Ids : file'[i] = file[i] \/ file'[i] = "absent"
    BY <1>0, <2>0, <2>1, ReserveAged DEF Unlink, Aged
  <2>4. CASE AdmissionFails(k)
    <3>1. phase \in {"up", "closed"} /\ phase' = phase /\ wpc' = wpc
      BY <2>4 DEF AdmissionFails, Serving
    <3>2. Files'
      BY <2>3, <3>1, UpFiles
    <3>3. \A i \in Ids : row'[i].st = "C" => Evicted[i].st = "C" /\ row'[i].key = row[i].key
      BY <1>0, <2>0, ReserveAged DEF Aged
    <3>4. durable' = Forget(KeysOf(Collected, Reclaimed)) /\ indexed' = indexed /\ phase' = phase /\ ~failed
      BY <2>4 DEF AdmissionFails, Serving
    <3>5. IndexKept'
      BY <3>3, <3>4, ReserveIndex, UpIndex
    <3>6. QED
      BY <2>2, <3>2, <3>5 DEF Implemented
  <2>5. CASE CrashInSupersede(k)
    <3>1. Files'
      BY <2>3, <2>5, DownFiles DEF CrashInSupersede
    <3>2. IndexKept'
      BY <2>5 DEF CrashInSupersede, Dies, IndexKept, IndexAuthoritative, Serving
    <3>3. QED
      BY <2>2, <3>1, <3>2 DEF Implemented
  <2>6. QED
    BY <1>2, <2>4, <2>5
<1>3. CASE \E c \in 1..MaxCharge, i \in Ids : ReserveWrite(k, c, i)
  <2> PICK c \in 1..MaxCharge, i \in Ids : ReserveWrite(k, c, i)
    BY <1>3
  <2>1. /\ row' = [Freed(k) EXCEPT ![i] = [st |-> "W", key |-> k, charge |-> c, left |-> Lease]]
        /\ file' = Unlink(Dead \cup Superseded(k)) /\ lease' = lease /\ row[i].st = "new" /\ ~Blocked(k)
    BY DEF ReserveWrite
  <2>2. /\ Freed(k) \in Rows /\ Aged(Freed(k)) /\ Unreserved(Freed(k)) /\ Alone(Freed(k)) /\ Evicted \in Rows
    BY <1>0, ReserveAged, AgedAlone DEF Aged, Whole
  <2>3. /\ row'[i].st = "W" /\ row'[i].key = k
        /\ \A j \in Ids \ {i} : row'[j] = Freed(k)[j]
        /\ Freed(k)[i].st = "new"
    BY <2>1, <2>2 DEF Rows, Unreserved
  <2>4. \A j \in Ids : Freed(k)[j].st \in Live => Freed(k)[j].key # k
    <3>1. Superseded(k) = Holding(Evicted, k)
      BY <2>1 DEF Superseded
    <3>2. \A j \in Ids : j \in Superseded(k) => Freed(k)[j].st = "gone"
      BY <2>2, EraseFacts DEF Freed, NoRow
    <3>3. \A j \in Ids : j \notin Superseded(k) => Freed(k)[j] = Evicted[j]
      BY <2>2, EraseFacts DEF Freed
    <3>4. QED
      BY <3>1, <3>2, <3>3 DEF Holding, Live
  <2>5. Alone(row')
    BY <2>2, <2>3, <2>4 DEF Alone, Live
  <2>6. Aged(row')
    BY <1>0, <2>1, <2>2, <2>3 DEF Aged
  <2>7. Cache!Next
    <3>1. \A j \in Ids : \/ file'[j] \in Placed <=> file[j] \in Placed
                         \/ file'[j] = "absent" /\ row'[j].st \in {"T", "gone"} /\ ~Leased(j)
      BY <1>0, <2>1, <2>3, ReserveYounger DEF Unlink
    <3>2. QED
      BY <2>1, <2>5, <2>6, <3>1, ReclaimStep
  <2>8. Files'
    <3>1. \A j \in Ids : row'[j].st = "new" => row[j].st = "new"
      BY <2>6 DEF Aged
    <3>2. \A j \in Ids : row[j].st \in Live /\ row'[j].st \notin Live => file'[j] = "absent"
      BY <1>0, <2>1, <2>3, ReserveAged DEF Unlink, Live
    <3>3. \A j \in Ids : file'[j] = file[j] \/ file'[j] = "absent"
      BY <2>1 DEF Unlink
    <3>4. phase \in {"up", "closed"} /\ phase' = phase /\ wpc' = wpc
      BY DEF ReserveWrite, Serving
    <3>5. QED
      BY <3>1, <3>2, <3>3, <3>4, UpFiles
  <2>9. IndexKept'
    <3>1. \A j \in Ids : row'[j].st = "C" => Evicted[j].st = "C" /\ row'[j].key = row[j].key
      BY <1>0, <2>2, <2>3, ReserveAged DEF Aged
    <3>2. durable' = Forget(KeysOf(Collected, Reclaimed)) /\ indexed' = indexed /\ phase' = phase /\ ~failed
      BY DEF ReserveWrite, Serving
    <3>3. QED
      BY <3>1, <3>2, ReserveIndex, UpIndex
  <2>10. QED
    BY <2>5, <2>7, <2>8, <2>9 DEF Implemented
<1>4. QED
  BY <1>1, <1>2, <1>3

(* collect() or evict() fails, or the process dies collecting.             *)
LEMMA PartlyStep ==
  ASSUME Whole, Kept, NEW done \in SUBSET Ids, NEW half \in SUBSET Ids,
         CollectFails(done, half) \/ EvictFails(done, half) \/ CrashInCollect(done, half)
  PROVE  Implemented
<1>0. row \in Rows
  BY TypeRows DEF Whole, Safe
<1>1. PICK force : PartlyCollected(Swept, Collectable(Swept, force), done, half)
  BY DEF CollectFails, EvictFails, CrashInCollect, Dead
<1> DEFINE left == Erase(Swept, done)
<1>2. /\ done \in SUBSET Collectable(Swept, force) /\ half \subseteq Collectable(Swept, force) \ done
      /\ file' = Unlink(done \cup half)
  BY <1>1 DEF PartlyCollected
<1>3. /\ Aged(left) /\ Unreserved(left) /\ left \in Rows
      /\ \A i \in done : ~Leased(i) /\ left[i].st = "gone"
      /\ \A i \in half : i \in Ids /\ ~Leased(i) /\ left[i].st = "T"
      /\ \A i \in Ids : row[i].st \in Live /\ i \notin done => left[i].st \in Live
  <2>1. /\ Aged(left) /\ Unreserved(left)
        /\ \A i \in done : ~Leased(i) /\ left[i].st = "gone"
        /\ \A i \in Ids \ done : left[i] = Swept[i]
        /\ \A i \in Ids : row[i].st \in Live => Swept[i].st \in Live
    BY <1>0, <1>2, SweepAged
  <2>2. \A i \in half : i \in Ids /\ ~Leased(i) /\ Swept[i].st = "T" /\ i \notin done
    BY <1>2 DEF Collectable
  <2>3. QED
    BY <2>1, <2>2 DEF Aged
<1> HIDE DEF left
<1>4. PICK S : row' = Retire(left, S) /\ \A i \in Ids : i \in S => left[i].st = "C"
  <2>1. CASE CollectFails(done, half)
    <3>1. row' = Retire(left, Victims(left, total'))
      BY <2>1 DEF CollectFails, left
    <3>2. \A i \in Ids : i \in Victims(left, total') => left[i].st = "C"
      BY DEF Victims, MarkDown
    <3>3. QED
      BY <3>1, <3>2
  <2>2. CASE EvictFails(done, half) \/ CrashInCollect(done, half)
    <3>1. row' = left
      BY <2>2 DEF EvictFails, CrashInCollect, left
    <3>2. Retire(left, {}) = left
      BY <1>3 DEF Retire, Rows
    <3>3. QED
      BY <3>1, <3>2
  <2>3. QED
    BY <2>1, <2>2
<1>5. /\ Aged(row') /\ Unreserved(row')
      /\ \A i \in done : ~Leased(i) /\ row'[i].st = "gone"
      /\ \A i \in half : i \in Ids /\ ~Leased(i) /\ row'[i].st = "T"
      /\ \A i \in Ids : row[i].st \in Live /\ i \notin done => row'[i].st \in Live
  BY <1>3, <1>4, RetireAged, RetireFacts DEF Live
<1>6. Alone(row') /\ Cache!Next
  <2>1. lease' = lease
    BY DEF CollectFails, EvictFails, CrashInCollect, Dies
  <2>2. \A i \in Ids : \/ file'[i] \in Placed <=> file[i] \in Placed
                       \/ file'[i] = "absent" /\ row'[i].st \in {"T", "gone"} /\ ~Leased(i)
    BY <1>2, <1>5 DEF Unlink
  <2>3. QED
    BY <1>5, <2>1, <2>2, AgedStep
<1>7. /\ \A i \in Ids : row'[i].st = "new" => row[i].st = "new"
      /\ \A i \in Ids : file'[i] = file[i] \/ file'[i] = "absent"
      /\ \A i \in Ids : row[i].st \in Live /\ row'[i].st \notin Live => file'[i] = "absent"
  BY <1>2, <1>5 DEF Unlink, Aged
<1>8. CASE CollectFails(done, half) \/ EvictFails(done, half)
  <2>1. phase \in {"up", "closed"} /\ phase' = phase /\ wpc' = wpc /\ failed' = TRUE
    BY <1>8 DEF CollectFails, EvictFails, Serving
  <2>2. Files'
    BY <1>7, <2>1, UpFiles
  <2>3. IndexKept'
    BY <2>1 DEF IndexKept, IndexAuthoritative, Serving
  <2>4. QED
    BY <1>6, <2>2, <2>3 DEF Implemented
<1>9. CASE CrashInCollect(done, half)
  <2>1. Dies
    BY <1>9 DEF CrashInCollect
  <2>2. Files'
    BY <1>7, <2>1, DownFiles
  <2>3. IndexKept'
    BY <2>1 DEF Dies, IndexKept, IndexAuthoritative, Serving
  <2>4. QED
    BY <1>6, <2>2, <2>3 DEF Implemented
<1>10. QED
  BY <1>8, <1>9

(* What _retire() leaves when its caller may be let down.                  *)
LEMMA LatchFacts ==
  ASSUME row \in Rows, NEW i \in Ids, RetireOrLatch(i)
  PROVE  /\ Aged(row') /\ Unreserved(row') /\ lease' = lease
         /\ \A j \in Ids : /\ row'[j].key = row[j].key
                           /\ row'[j].st = row[j].st \/ (j = i /\ row[j].st \in Live /\ row'[j].st = "T")
         /\ row[i].st \in Live /\ row'[i].st # "T" => failed'
         /\ failed' = failed \/ failed'
<1>1. CASE row' = Retire(row, {i} \cap Stored(row)) /\ lease' = lease /\ failed' = failed
  <2>1. \A j \in Ids : j \in {i} \cap Stored(row) => row[j].st \in Live
    BY DEF Stored
  <2>2. Aged(row') /\ Unreserved(row')
    BY <1>1, <2>1, RowAged, RetireAged
  <2>3. \A j \in Ids : /\ row'[j].key = row[j].key
                       /\ row'[j].st = row[j].st \/ (j = i /\ row[j].st \in Live /\ row'[j].st = "T")
    BY <1>1, <2>1, RetireFacts
  <2>4. row[i].st \in Live => row'[i].st = "T"
    BY <1>1, RetireFacts DEF Stored
  <2>5. QED
    BY <1>1, <2>2, <2>3, <2>4
<1>2. CASE row' = row /\ lease' = lease /\ failed' = TRUE
  BY <1>2, RowAged
<1>3. QED
  BY <1>1, <1>2 DEF RetireOrLatch, dbVars

(* invalidate(), and a read that fails.                                    *)
LEMMA ForgetStep ==
  ASSUME Whole, Kept, NEW i \in Ids, phase = "up", row[i].st \in Live, RetireOrLatch(i),
         durable' = Forget({row[i].key}), UNCHANGED <<file, indexed, lim, phase, wpc>>
  PROVE  Implemented
<1>0. row \in Rows /\ Alone(row)
  BY TypeRows DEF Whole, Safe
<1>1. /\ Aged(row') /\ Unreserved(row') /\ lease' = lease
      /\ \A j \in Ids : /\ row'[j].key = row[j].key
                        /\ row'[j].st = row[j].st \/ (j = i /\ row[j].st \in Live /\ row'[j].st = "T")
      /\ row[i].st \in Live /\ row'[i].st # "T" => failed'
      /\ failed' = failed \/ failed'
  BY <1>0, LatchFacts
<1>2. Alone(row') /\ Cache!Next
  BY <1>1, AgedStep
<1>3. Files'
  <2>1. \A j \in Ids : row'[j].st = "new" => row[j].st = "new"
    BY <1>1
  <2>2. \A j \in Ids : ~(row[j].st \in Live /\ row'[j].st \notin Live)
    BY <1>1 DEF Live
  <2>3. QED
    BY <2>1, <2>2, UpFiles
<1>4. IndexKept'
  <2>1. ASSUME ~failed', NEW j \in Ids, row'[j].st = "C"
        PROVE  /\ row[j].st = "C" /\ row'[j].key = row[j].key
               /\ row[j].key \in durable => row[j].key \in durable'
    <3>1. row[j].st = "C" /\ row'[j].key = row[j].key /\ j # i
      BY <1>1, <2>1
    <3>2. row[j].key # row[i].key
      BY <1>0, <3>1 DEF Alone, Live
    <3>3. QED
      BY <3>1, <3>2 DEF Forget
  <2>2. failed' \/ ~failed
    BY <1>1
  <2>3. QED
    BY <2>1, <2>2, UpIndex DEF Serving
<1>5. QED
  BY <1>2, <1>3, <1>4 DEF Implemented

(* write(), its failures, and a crash between rename and commit.           *)
LEMMA WriterFacts ==
  ASSUME Whole, NEW i \in Ids, wpc[i] \in {"checked", "writing"}
  PROVE  /\ row[i].st \notin {"new", "C"} /\ file[i] \in {"absent", "part"}
         /\ UnlinkTemp(i)[i] = "absent"
         /\ \A j \in Ids : j # i => UnlinkTemp(i)[j] = file[j]
<1>1. row[i].st \notin {"new", "C"}
  BY DEF Whole, Files, Fresh, Safe, WriterPrivate
<1>2. file[i] \in {"absent", "part"}
  BY DEF Whole, Files, Partial
<1>3. file \in [Ids -> {"absent", "part"} \cup Placed]
  BY DEF Whole, Safe, Types
<1>4. QED
  BY <1>1, <1>2, <1>3 DEF UnlinkTemp

LEMMA EndWriteFacts ==   \* the partial is gone, charged, or its writer stuck
  ASSUME Whole, NEW i \in Ids, wpc[i] \in {"checked", "writing"}, EndWrite(i)
  PROVE  /\ \A j \in Ids : j # i => file'[j] = file[j] /\ wpc'[j] = wpc[j]
         /\ \A j \in Ids : file'[j] \in Placed <=> file[j] \in Placed
         /\ file'[i] \in {file[i], "absent"}
         /\ \/ wpc'[i] = "done" /\ (file'[i] = "absent" \/ row[i].st \in Live)
            \/ wpc'[i] = "stuck" /\ file'[i] = file[i]
<1>1. /\ file[i] \in {"absent", "part"}
      /\ UnlinkTemp(i)[i] = "absent"
      /\ \A j \in Ids : j # i => UnlinkTemp(i)[j] = file[j]
  BY WriterFacts
<1>2. wpc \in [Ids -> {"idle", "checked", "writing", "done", "stuck"}]
  BY DEF Whole, Safe, Types
<1>3. CASE file' = UnlinkTemp(i) /\ wpc' = [wpc EXCEPT ![i] = "done"]
  BY <1>1, <1>2, <1>3 DEF Placed
<1>4. CASE /\ file' = file
           /\ wpc' = [wpc EXCEPT ![i] = IF row[i].st \in Live THEN "done" ELSE "stuck"]
  BY <1>1, <1>2, <1>4
<1>5. QED
  BY <1>3, <1>4 DEF EndWrite

LEMMA WriterFails ==
  ASSUME Whole, Kept, NEW i \in Ids, PayloadFails(i) \/ CommitFails(i)
  PROVE  Implemented
<1>0. row \in Rows /\ row' \in Rows
  BY TypeRows DEF Whole, Kept, Safe, Types, Rows
<1>1. /\ wpc[i] \in {"checked", "writing"}
      /\ RetireOrLatch(i) /\ durable' = durable /\ indexed' = indexed /\ phase' = phase
      /\ phase \in {"up", "closed"}
  BY DEF PayloadFails, CommitFails, StillReserved, Serving
<1>2. /\ Aged(row') /\ Unreserved(row') /\ lease' = lease
      /\ \A j \in Ids : /\ row'[j].key = row[j].key
                        /\ row'[j].st = row[j].st \/ (j = i /\ row[j].st \in Live /\ row'[j].st = "T")
      /\ failed' = failed \/ failed'
  BY <1>0, <1>1, LatchFacts
<1>3. row[i].st \notin {"new", "C"} /\ file[i] \in {"absent", "part"}
  BY <1>1, WriterFacts
<1>4. /\ \A j \in Ids : row'[j].st = "new" => row[j].st = "new"
      /\ \A j \in Ids : ~(row[j].st \in Live /\ row'[j].st \notin Live)
      /\ \A j \in Ids : row'[j].st = "C" => row[j].st = "C" /\ row'[j].key = row[j].key
  BY <1>2 DEF Live
<1>5. IndexKept'
  BY <1>1, <1>2, <1>4, UpIndex
<1>7. CASE EndWrite(i)
  <2>0. /\ \A j \in Ids : j # i => file'[j] = file[j] /\ wpc'[j] = wpc[j]
        /\ \A j \in Ids : file'[j] \in Placed <=> file[j] \in Placed
        /\ file'[i] \in {file[i], "absent"}
        /\ \/ wpc'[i] = "done" /\ (file'[i] = "absent" \/ row[i].st \in Live)
           \/ wpc'[i] = "stuck" /\ file'[i] = file[i]
    BY <1>1, <1>7, EndWriteFacts
  <2>1. Alone(row') /\ Cache!Next
    BY <1>2, <2>0, AgedStep
  <2>2. Files'
    BY <1>1, <1>3, <1>4, <2>0, UpFiles
  <2>3. QED
    BY <1>5, <2>1, <2>2 DEF Implemented
<1>8. CASE /\ CommitFails(i)
           /\ file' = [file EXCEPT ![i] = "final"] /\ wpc' = [wpc EXCEPT ![i] = "done"]
  <2>1. /\ file'[i] = "final" /\ wpc'[i] = "done"
        /\ \A j \in Ids : j # i => file'[j] = file[j] /\ wpc'[j] = wpc[j]
    BY <1>8 DEF Whole, Safe, Types
  <2>2. row[i].st = "W" /\ wpc[i] # "done"
    BY <1>8 DEF CommitFails, StillReserved
  <2>3. Files'
    <3>1. row'[i].st \in Live
      BY <1>2, <2>2 DEF Live
    <3>2. QED
      BY <1>1, <1>3, <1>4, <2>1, <2>2, <3>1, UpFiles
  <2>4. Alone(row')
    BY <1>2, AgedAlone DEF Whole
  <2>5. Cache!Next
    <3>1. SameShown /\ StillRetired
      BY <1>2, <1>3 DEF SameShown, StillRetired, Live
    <3>2. file[i] \notin Placed
      BY <1>3 DEF Placed
    <3>3. QED
      BY <1>0, <1>2, <1>8, <2>4, <3>1, <3>2, PlaceStep
  <2>6. QED
    BY <1>5, <2>3, <2>4, <2>5 DEF Implemented
<1>9. QED
  BY <1>7, <1>8 DEF PayloadFails, CommitFails

LEMMA CommitStep ==
  ASSUME Whole, Kept, NEW i \in Ids, CommitWrite(i)
  PROVE  Implemented
<1>0. row \in Rows /\ row' \in Rows
  BY TypeRows DEF Whole, Kept, Safe, Types, Rows
<1>1. /\ row' = [row EXCEPT ![i] = [row[i] EXCEPT !.st = "C", !.left = Lease]] /\ row[i].st = "W"
      /\ file' = [file EXCEPT ![i] = "final"] /\ lease' = lease
      /\ wpc' = [wpc EXCEPT ![i] = "done"] /\ wpc[i] = "writing" /\ phase = "up" /\ ~failed
      /\ durable' = Note(row[i].key) /\ indexed' = indexed /\ phase' = phase /\ failed' = failed
  BY <1>0 DEF CommitWrite, StillReserved, Serving, Rows
<1>2. /\ row'[i].st = "C" /\ row'[i].key = row[i].key
      /\ \A j \in Ids : j # i => row'[j] = row[j]
  BY <1>0, <1>1 DEF Rows
<1>3. Alone(row')
  <2>1. \A j \in Ids : row'[j].st \in Live => row[j].st \in Live /\ row'[j].key = row[j].key
    BY <1>1, <1>2 DEF Live
  <2>2. QED
    BY <2>1, KeysAlone DEF Whole
<1>4. Cache!Next
  BY <1>0, <1>1, <1>3, PublishStep
<1>5. Files'
  <2>1. /\ file'[i] = "final" /\ wpc'[i] = "done"
        /\ \A j \in Ids : j # i => file'[j] = file[j] /\ wpc'[j] = wpc[j]
    BY <1>1 DEF Whole, Safe, Types
  <2>2. row'[i].st \in Live
    BY <1>2 DEF Live
  <2>3. \A j \in Ids : row'[j].st = "new" => row[j].st = "new"
    BY <1>2
  <2>4. \A j \in Ids : ~(row[j].st \in Live /\ row'[j].st \notin Live)
    BY <1>2, <2>2
  <2>5. row[i].st # "new"
    BY <1>1
  <2>6. QED
    BY <1>1, <2>1, <2>2, <2>3, <2>4, <2>5, UpFiles
<1>6. IndexKept'
  <2> SUFFICES ASSUME ~OperatorClears, NEW j \in Ids, row'[j].st = "C" PROVE ~indexed' \/ row'[j].key \in durable'
    BY DEF IndexKept, IndexAuthoritative, Known
  <2>1. CASE j = i
    BY <1>1, <1>2, <2>1 DEF Note
  <2>2. CASE j # i
    <3>1. row[j].st = "C" /\ row'[j].key = row[j].key
      BY <1>2, <2>2
    <3>2. ~indexed \/ row[j].key \in durable
      BY <1>1, <3>1 DEF Whole, IndexKept, IndexAuthoritative, Serving, Known
    <3>3. QED
      BY <1>1, <3>1, <3>2 DEF Note
  <2>3. QED
    BY <2>1, <2>2
<1>7. QED
  BY <1>3, <1>4, <1>5, <1>6 DEF Implemented

LEMMA WriterStep ==
  ASSUME Whole, Kept, NEW i \in Ids,
         WriteStep(i) \/ PayloadFails(i) \/ CommitFails(i) \/ CrashAfterRename(i)
  PROVE  Implemented
<1>1. CASE BeginWrite(i) \/ OpenPartial(i) \/ DiscardWrite(i)
  <2>1. /\ row' = row /\ lease' = lease /\ durable' = durable /\ indexed' = indexed
        /\ failed' = failed /\ phase' = phase /\ phase \in {"up", "closed"}
    BY <1>1 DEF BeginWrite, OpenPartial, DiscardWrite, dbVars, ramVars, Serving
  <2>2. IndexKept'
    BY <2>1, UpIndex
  <2>3. /\ \A j \in Ids : file'[j] \in Placed <=> file[j] \in Placed
        /\ Files'
    <3>0. /\ file \in [Ids -> {"absent", "part"} \cup Placed]
          /\ wpc \in [Ids -> {"idle", "checked", "writing", "done", "stuck"}]
      BY DEF Whole, Safe, Types
    <3>1. CASE BeginWrite(i)
      BY <2>1, <3>0, <3>1, UpFiles DEF BeginWrite
    <3>2. CASE OpenPartial(i)
      <4>1. /\ file'[i] = "part" /\ file[i] = "absent" /\ wpc[i] = "checked" /\ wpc'[i] = "writing"
            /\ \A j \in Ids : j # i => file'[j] = file[j] /\ wpc'[j] = wpc[j]
        BY <3>0, <3>2 DEF OpenPartial
      <4>2. \A j \in Ids : file'[j] \in Placed <=> file[j] \in Placed
        BY <4>1 DEF Placed
      <4>3. QED
        BY <2>1, <4>1, <4>2, UpFiles
    <3>3. CASE DiscardWrite(i)
      <4>1. /\ wpc[i] = "writing" /\ row[i].st # "new"
            /\ \A j \in Ids : j # i => file'[j] = file[j] /\ wpc'[j] = wpc[j]
            /\ \A j \in Ids : file'[j] \in Placed <=> file[j] \in Placed
            /\ file'[i] \in {file[i], "absent"}
            /\ \/ wpc'[i] = "done" /\ (file'[i] = "absent" \/ row[i].st \in Live)
               \/ wpc'[i] = "stuck" /\ file'[i] = file[i]
        BY <3>3, WriterFacts, EndWriteFacts DEF DiscardWrite
      <4>2. QED
        BY <2>1, <4>1, UpFiles
    <3>4. QED
      BY <1>1, <3>1, <3>2, <3>3
  <2>4. Alone(row') /\ Cache!Next
    BY <2>1, <2>3, CalmStep
  <2>5. QED
    BY <2>2, <2>3, <2>4 DEF Implemented
<1>2. CASE CrashAfterRename(i)
  <2>1. /\ row' = row /\ lease' = lease /\ file' = [file EXCEPT ![i] = "final"]
        /\ row[i].st = "W" /\ wpc[i] = "writing" /\ Dies
    BY <1>2 DEF CrashAfterRename, Dies, StillReserved
  <2>2. Files'
    <3>1. \A j \in Ids : j # i => file'[j] = file[j]
      BY <2>1 DEF Whole, Safe, Types
    <3>2. QED
      BY <2>1, <3>1, DownFiles
  <2>3. IndexKept'
    BY <2>1 DEF Dies, IndexKept, IndexAuthoritative, Serving
  <2>4. Alone(row') /\ row' \in Rows /\ SameShown /\ StillRetired
    BY <2>1, TypeRows DEF Whole, Safe, SameShown, StillRetired
  <2>5. file[i] \notin Placed
    BY <2>1, WriterFacts DEF Placed
  <2>6. QED
    BY <2>1, <2>2, <2>3, <2>4, <2>5, PlaceStep DEF Implemented
<1>3. QED
  BY <1>1, <1>2, WriterFails, CommitStep DEF WriteStep

(* Readers, and the store-wide operations without a sweep.                 *)
LEMMA LookupStep ==
  ASSUME Whole, Kept,
         \/ \E k \in Keys : ReserveReadMiss(k)
         \/ \E l \in Leases, i \in Ids : ReserveRead(l, i)
  PROVE  Implemented
<1>0. row \in Rows /\ row' \in Rows
  BY TypeRows DEF Whole, Kept, Safe, Types, Rows
<1>1. /\ phase = "up" /\ ~failed
      /\ UNCHANGED <<file, durable, indexed, failed, lim, phase, wpc>>
  BY DEF ReserveReadMiss, ReserveRead, Serving, ramVars
<1>2. Expire(row) \in Rows /\ \A j \in Ids : /\ Expire(row)[j].key = row[j].key
                                             /\ \/ Expire(row)[j].st = row[j].st
                                                \/ row[j].st = "W" /\ Expire(row)[j].st = "T"
  BY <1>0, RetireFacts DEF Expire, Overdue
<1>3. \A j \in Ids : /\ row'[j].key = row[j].key
                     /\ row'[j].st = row[j].st \/ (row[j].st = "W" /\ row'[j].st = "T")
  <2>1. ASSUME NEW k \in Keys, ReserveReadMiss(k)
        PROVE  row' = Expire(row)
    BY <2>1 DEF ReserveReadMiss
  <2>2. ASSUME NEW l \in Leases, NEW i \in Ids, ReserveRead(l, i)
        PROVE  \A j \in Ids : row'[j].key = Expire(row)[j].key /\ row'[j].st = Expire(row)[j].st
    BY <1>2, <2>2 DEF ReserveRead, Rows
  <2>3. QED
    BY <1>2, <2>1, <2>2
<1>4. Alone(row')
  BY <1>3, KeysAlone DEF Whole, Live
<1>5. Files'
  BY <1>1, <1>3, UpFiles DEF Live
<1>6. IndexKept'
  BY <1>1, <1>3, UpIndex
<1>7. Cache!Next
  <2>1. ASSUME NEW k \in Keys, ReserveReadMiss(k)
        PROVE  Cache!Next
    BY <1>1, <1>3, <2>1, CalmStep DEF ReserveReadMiss
  <2>2. ASSUME NEW l \in Leases, NEW i \in Ids, ReserveRead(l, i)
        PROVE  Cache!Next
    <3>1. SameShown /\ StillRetired
      BY <1>3 DEF SameShown, StillRetired
    <3>2. lease[l].obj = None /\ row[i].st = "C" /\ lease' = [lease EXCEPT ![l] = [obj |-> i, left |-> Lease]]
      BY <2>2 DEF ReserveRead, FreeLease
    <3>3. QED
      BY <1>0, <1>1, <1>4, <3>1, <3>2, PinStep
  <2>3. QED
    BY <2>1, <2>2
<1>8. QED
  BY <1>4, <1>5, <1>6, <1>7 DEF Implemented

LEMMA ForgetSteps ==
  ASSUME Whole, Kept,
         \/ \E l \in Leases : ReadFails(l)
         \/ \E k \in Keys : Invalidate(k)
  PROVE  Implemented
<1>1. ASSUME NEW l \in Leases, ReadFails(l)
      PROVE  Implemented
  <2>1. lease[l].obj \in Ids /\ row[lease[l].obj].st \in Live
    BY <1>1 DEF ReadFails, Whole, Safe, Types, Live
  <2>2. QED
    BY <1>1, <2>1, ForgetStep DEF ReadFails, Serving
<1>2. ASSUME NEW k \in Keys, Invalidate(k)
      PROVE  Implemented
  <2>1. PICK i \in Holding(row, k) : RetireOrLatch(i)
    BY <1>2 DEF Invalidate
  <2>2. i \in Ids /\ row[i].st \in Live /\ row[i].key = k
    BY DEF Holding
  <2>3. QED
    BY <1>2, <2>1, <2>2, ForgetStep DEF Invalidate
<1>3. QED
  BY <1>1, <1>2

LEMMA PlainStep ==
  ASSUME Whole, Kept,
         \/ \E l \in Leases : ReadInto(l) \/ ReleaseRead(l) \/ RenewRead(l)
         \/ \E i \in Ids : ReleaseWrite(i) \/ RenewWrite(i) \/ Damage(i)
         \/ ReleaseFails \/ ClearFailure \/ Close \/ Crash
  PROVE  Implemented
<1>0. row \in Rows /\ row' \in Rows
  BY TypeRows DEF Whole, Kept, Safe, Types, Rows
<1>1. \A j \in Ids : /\ row'[j].key = row[j].key
                     /\ row'[j].st = row[j].st \/ (row[j].st = "W" /\ row'[j].st = "T")
  <2>1. CASE \E i \in Ids : row' = Retire(row, {i}) /\ row[i].st = "W"
    BY <1>0, <2>1, RetireFacts
  <2>2. CASE \E i \in Ids : \E n : row' = [row EXCEPT ![i].left = n]
    BY <1>0, <2>2 DEF Rows
  <2>3. ASSUME NEW l \in Leases, ReadInto(l)
        PROVE  row' = row \/ \E i \in Ids : \E n : row' = [row EXCEPT ![i].left = n]
    BY <2>3 DEF ReadInto, Whole, Safe, Types
  <2>4. CASE row' = row
    BY <2>4
  <2>5. QED
    BY <2>1, <2>2, <2>3, <2>4
       DEF ReleaseRead, RenewRead, ReleaseWrite, RenewWrite, Damage, ReleaseFails, ClearFailure,
           Close, Crash, dbVars
<1>2. \A j \in Ids : \/ file'[j] = file[j]
                     \/ file[j] \in Placed /\ file'[j] \in Placed
  <2>1. ASSUME NEW i \in Ids, Damage(i)
        PROVE  \A j \in Ids : file'[j] = file[j] \/ (file[j] \in Placed /\ file'[j] \in Placed)
    BY <2>1 DEF Damage, Placed, Whole, Safe, Types
  <2>2. QED
    BY <2>1 DEF ReadInto, ReleaseRead, RenewRead, ReleaseWrite, RenewWrite, ReleaseFails,
                ClearFailure, Close, Crash
<1>3. \A l \in Leases : lease'[l].obj \in {lease[l].obj, None}
  <2>1. ASSUME NEW l \in Leases, ReleaseRead(l) \/ RenewRead(l)
        PROVE  \A m \in Leases : lease'[m].obj \in {lease[m].obj, None}
    BY <2>1 DEF ReleaseRead, RenewRead, Renewed, FreeLease, Whole, Safe, Types
  <2>2. QED
    BY <2>1 DEF ReadInto, ReleaseWrite, RenewWrite, Damage, ReleaseFails, ClearFailure, Close,
                Crash, Dies, dbVars
<1>4. Alone(row') /\ Cache!Next
  BY <1>1, <1>2, <1>3, CalmStep
<1>5. CASE Crash
  <2>1. Files'
    BY <1>5, DownFiles DEF Crash
  <2>2. IndexKept'
    BY <1>5 DEF Crash, Dies, IndexKept, IndexAuthoritative, Serving
  <2>3. QED
    BY <1>4, <2>1, <2>2 DEF Implemented
<1>6. CASE Close
  <2>1. /\ row' = row /\ file' = file /\ wpc' = wpc /\ phase' = "closed" /\ phase = "up"
    BY <1>6 DEF Close, dbVars
  <2>2. Files'
    BY <2>1 DEF Whole, Files, Fresh, Partial, NoWriters, NoUnchargedFile, Recovered, Recovering,
                Verified
  <2>3. IndexKept'
    BY <2>1 DEF IndexKept, IndexAuthoritative, Serving
  <2>4. QED
    BY <1>4, <2>2, <2>3 DEF Implemented
<1>7. CASE \E i \in Ids : Damage(i) /\ phase = "down"
  <2>1. /\ row' = row /\ wpc' = wpc /\ phase' = "down" /\ phase = "down"
    BY <1>7 DEF Damage, dbVars, ramVars
  <2>2. Files'
    BY <1>2, <2>1 DEF Whole, Files, Fresh, Partial, NoWriters, NoUnchargedFile, Recovered,
                      Recovering, Verified, Placed
  <2>3. IndexKept'
    BY <2>1 DEF IndexKept, IndexAuthoritative, Serving
  <2>4. QED
    BY <1>4, <2>2, <2>3 DEF Implemented
<1>8. CASE /\ wpc' = wpc /\ phase' = phase /\ phase \in {"up", "closed"}
           /\ durable' = durable /\ indexed' = indexed /\ (failed' = failed \/ failed' \/ OperatorClears)
  <2>1. Files'
    BY <1>1, <1>2, <1>8, UpFiles DEF Live
  <2>2. IndexKept'
    <3>1. CASE OperatorClears'
      BY <3>1 DEF IndexKept
    <3>2. CASE ~OperatorClears
      BY <1>1, <1>8, <3>2, UpIndex
    <3>3. QED
      BY <3>1, <3>2
  <2>3. QED
    BY <1>4, <2>1, <2>2 DEF Implemented
<1>9. phase \in {"up", "closed", "down"} \cup Recovering
  BY DEF Whole, Safe, Types
<1>10. QED
  BY <1>5, <1>6, <1>7, <1>8, <1>9
     DEF ReadInto, ReleaseRead, RenewRead, ReleaseWrite, RenewWrite, Damage, ReleaseFails,
         ClearFailure, ramVars, Serving

-----------------------------------------------------------------------------
(* Recovery.                                                               *)

NoLeases == \A l \in Leases : lease[l] = FreeLease

LEMMA Unread ==
  ASSUME NoLeases
  PROVE  \A i \in Ids : ~Leased(i)
BY NoneAssumption DEF NoLeases, Leased, FreeLease

LEMMA ResetStep ==
  ASSUME Whole, Kept, NEW c \in Limits, RecoverReset(c)
  PROVE  Implemented
<1>0. row \in Rows
  BY TypeRows DEF Whole, Safe
<1>1. \A i \in Ids : /\ row'[i].key = row[i].key /\ row'[i].st # "W"
                     /\ row'[i].st = row[i].st \/ (row[i].st = "W" /\ row'[i].st = "T")
  BY <1>0 DEF RecoverReset, Rows
<1>2. /\ \A l \in Leases : lease'[l] = FreeLease
      /\ file' = file /\ wpc' = wpc /\ phase = "down" /\ phase' = "reset"
  BY DEF RecoverReset
<1>3. Alone(row') /\ Cache!Next
  BY <1>1, <1>2, CalmStep DEF FreeLease
<1>4. Files'
  BY <1>1, <1>2 DEF Whole, Files, Fresh, Partial, NoWriters, NoUnchargedFile, Recovered,
                    Recovering, Verified
<1>5. IndexKept'
  BY <1>2 DEF IndexKept, IndexAuthoritative, Serving
<1>6. QED
  BY <1>3, <1>4, <1>5 DEF Implemented

LEMMA SweepStep ==
  ASSUME Whole, Kept, RecoverSweep
  PROVE  Implemented
<1>0. row \in Rows
  BY TypeRows DEF Whole, Safe
<1> DEFINE dead == Collectable(Swept, TRUE)
<1>1. /\ row' = Erase(Swept, dead) /\ file' = Unlink(dead)
      /\ lease' = lease /\ wpc' = wpc
      /\ \/ phase = "reset" /\ phase' = "scan"
         \/ phase = "verify" /\ phase' = "shrink"
         \/ phase = "marked" /\ phase' = "final"
  BY DEF RecoverSweep, AfterSweep
<1>2. NoLeases /\ \A i \in Ids : row[i].st # "W" /\ ~Leased(i)
  <2>1. phase \in Recovering
    BY <1>1 DEF Recovering
  <2>2. NoLeases /\ \A i \in Ids : row[i].st # "W"
    BY <2>1 DEF Whole, Files, Recovered, NoLeases
  <2>3. QED
    BY <2>2, Unread
<1>3. \A i \in Ids : Swept[i] = row[i]
  <2>1. \A i \in Ids : i \notin Overdue(row)
    BY <1>2 DEF Overdue
  <2>2. QED
    BY <1>0, <2>1, RetireFacts DEF Swept, Expire
<1>4. \A i \in Ids : i \in dead <=> row[i].st = "T"
  BY <1>2, <1>3 DEF Collectable
<1>5. /\ Aged(row') /\ Unreserved(row')
      /\ \A i \in dead : ~Leased(i) /\ row'[i].st = "gone"
      /\ \A i \in Ids \ dead : row'[i] = row[i]
  <2>1. dead \in SUBSET Collectable(Swept, TRUE)
    OBVIOUS
  <2>2. QED
    BY <1>0, <1>1, <1>3, <2>1, SweepAged
<1>6. \A i \in Ids : /\ i \in dead => file'[i] = "absent"
                     /\ i \notin dead => file'[i] = file[i]
  BY <1>1 DEF Unlink
<1> HIDE DEF dead
<1>7. Alone(row') /\ Cache!Next
  BY <1>1, <1>5, <1>6, AgedStep
<1>8. Files'
  <2>1. Fresh' /\ Partial'
    BY <1>1, <1>4, <1>5, <1>6 DEF Whole, Files, Fresh, Partial
  <2>2. NoWriters' /\ NoUnchargedFile'
    BY <1>1 DEF Whole, Files, NoWriters, NoUnchargedFile
  <2>3. Recovered'
    <3>1. (\A l \in Leases : lease'[l] = FreeLease) /\ \A i \in Ids : row'[i].st # "W"
      BY <1>1, <1>2, <1>4, <1>5 DEF NoLeases
    <3>2. \A i \in Ids : row'[i].st # "T"
      BY <1>4, <1>5
    <3>3. ASSUME phase' \in Verified, NEW i \in Ids
          PROVE  /\ file'[i] # "absent" => row'[i].st \in Live
                 /\ row'[i].st = "C" => file'[i] \in RightSize
      <4>1. phase \in Verified
        BY <1>1, <3>3 DEF Verified
      <4>2. /\ file[i] # "absent" => row[i].st \in Live
            /\ row[i].st = "C" => file[i] \in RightSize
        BY <4>1 DEF Whole, Files, Recovered
      <4>3. QED
        BY <1>4, <1>5, <1>6, <4>2
    <3>4. QED
      BY <3>1, <3>2, <3>3 DEF Recovered
  <2>4. QED
    BY <2>1, <2>2, <2>3 DEF Files
<1>9. IndexKept'
  BY <1>1 DEF IndexKept, IndexAuthoritative, Serving
<1>10. QED
  BY <1>7, <1>8, <1>9 DEF Implemented

LEMMA ScanStep ==
  ASSUME Whole, Kept, NEW i \in Ids, RecoverScan(i)
  PROVE  Implemented
<1>1. /\ row' = row /\ lease' = lease /\ wpc' = wpc /\ phase' = phase /\ phase = "scan"
      /\ file'[i] = "absent" /\ \A j \in Ids : j # i => file'[j] = file[j]
  BY DEF RecoverScan, dbVars, ramVars, Whole, Safe, Types
<1>2. NoLeases /\ ~Leased(i) /\ \A j \in Ids : row[j].st # "W"
  <2>1. phase \in Recovering
    BY <1>1 DEF Recovering
  <2>2. NoLeases /\ \A j \in Ids : row[j].st # "W"
    BY <2>1 DEF Whole, Files, Recovered, NoLeases
  <2>3. QED
    BY <2>2, Unread
<1>3. file[i] = "part" \/ row[i].st = "gone"
  <2>1. file[i] = "part" \/ (file[i] # "absent" /\ row[i].st \notin Live)
    BY DEF RecoverScan, Orphans
  <2>2. row[i].st = "new" => file[i] = "absent"
    BY DEF Whole, Files, Fresh, Partial
  <2>3. row[i].st \in Live \cup {"new", "gone"}
    BY DEF Whole, Safe, Types
  <2>4. QED
    BY <2>1, <2>2, <2>3
<1>4. Alone(row') /\ Cache!Next
  <2>1. Aged(row) /\ Unreserved(row)
    BY RowAged, TypeRows DEF Whole, Safe
  <2>2. Aged(row') /\ Unreserved(row')
    BY <1>1, <2>1
  <2>3. \A j \in Ids : \/ file'[j] \in Placed <=> file[j] \in Placed
                       \/ file'[j] = "absent" /\ row'[j].st \in {"T", "gone"} /\ ~Leased(j)
    BY <1>1, <1>2, <1>3 DEF Placed
  <2>4. QED
    BY <1>1, <2>2, <2>3, AgedStep
<1>5. Files'
  BY <1>1, <1>2 DEF Whole, Files, Fresh, Partial, NoWriters, NoUnchargedFile, Recovered,
                    Recovering, Verified, NoLeases
<1>6. IndexKept'
  BY <1>1 DEF IndexKept, IndexAuthoritative, Serving
<1>7. QED
  BY <1>4, <1>5, <1>6 DEF Implemented

LEMMA VerifyStep ==
  ASSUME Whole, Kept, RecoverVerify \/ RecoverShrink
  PROVE  Implemented
<1>0. row \in Rows /\ row' \in Rows
  BY TypeRows DEF Whole, Kept, Safe, Types, Rows
<1>1. /\ lease' = lease /\ file' = file /\ wpc' = wpc
      /\ phase \in Recovering /\ phase' \in {"verify", "marked"}
  BY DEF RecoverVerify, RecoverShrink, Recovering
<1>2. NoLeases /\ \A i \in Ids : row[i].st # "W"
  BY <1>1 DEF Whole, Files, Recovered, NoLeases
<1>3. \A i \in Ids : /\ row'[i].key = row[i].key
                     /\ row'[i].st = row[i].st \/ (row[i].st = "C" /\ row'[i].st = "T")
                     /\ RecoverVerify /\ row'[i].st = "C" => file[i] \in RightSize
  <2>1. CASE RecoverVerify
    BY <1>0, <2>1 DEF RecoverVerify, Rows
  <2>2. CASE RecoverShrink
    <3>1. CASE row' = row
      BY <2>2, <3>1 DEF RecoverVerify, RecoverShrink
    <3>2. CASE row' = Retire(row, MarkDown(row, total, InState(row, "C")))
      <4>1. \A i \in Ids : i \in MarkDown(row, total, InState(row, "C")) => row[i].st = "C"
        BY DEF MarkDown, InState
      <4>2. ~RecoverVerify
        BY <2>2 DEF RecoverVerify, RecoverShrink
      <4>3. QED
        BY <1>0, <3>2, <4>1, <4>2, RetireFacts
    <3>3. QED
      BY <2>2, <3>1, <3>2 DEF RecoverShrink
  <2>3. QED
    BY <2>1, <2>2
<1>4. Aged(row') /\ Unreserved(row')
  BY <1>0, <1>3 DEF Aged, Unreserved, Live
<1>5. Alone(row') /\ Cache!Next
  BY <1>1, <1>4, AgedStep
<1>6. Files'
  <2>1. Fresh' /\ Partial' /\ NoWriters' /\ NoUnchargedFile'
    <3>1. NoWriters
      BY DEF Whole, Files
    <3>2. phase \notin {"up", "closed"} /\ phase' # "up"
      BY <1>1 DEF Recovering
    <3>3. QED
      BY <1>1, <1>3, <3>1, <3>2 DEF Whole, Files, Fresh, Partial, NoWriters, NoUnchargedFile
  <2>2. Recovered'
    <3>1. (\A l \in Leases : lease'[l] = FreeLease) /\ \A i \in Ids : row'[i].st # "W"
      BY <1>1, <1>2, <1>3 DEF NoLeases
    <3>2. \A i \in Ids : /\ file'[i] # "absent" => row'[i].st \in Live
                         /\ row'[i].st = "C" => file'[i] \in RightSize
      <4>1. CASE RecoverVerify
        <5>1. \A i \in Ids : file[i] # "absent" => row[i].st \in Live
          BY <4>1 DEF RecoverVerify, Orphans
        <5>2. QED
          BY <1>1, <1>3, <4>1, <5>1 DEF Live
      <4>2. CASE RecoverShrink
        <5>1. phase \in Verified
          BY <4>2 DEF RecoverShrink, Verified
        <5>2. \A i \in Ids : /\ file[i] # "absent" => row[i].st \in Live
                             /\ row[i].st = "C" => file[i] \in RightSize
          BY <5>1 DEF Whole, Files, Recovered
        <5>3. QED
          BY <1>1, <1>3, <5>2 DEF Live
      <4>3. QED
        BY <4>1, <4>2
    <3>3. QED
      BY <1>1, <3>1, <3>2 DEF Recovered
  <2>3. QED
    BY <2>1, <2>2 DEF Files
<1>7. IndexKept'
  BY <1>1 DEF IndexKept, IndexAuthoritative, Serving
<1>8. QED
  BY <1>5, <1>6, <1>7 DEF Implemented

LEMMA OpenStep ==
  ASSUME Whole, Kept, RecoverOpen
  PROVE  Implemented
<1>1. /\ row' = row /\ lease' = lease /\ file' = file /\ wpc' = wpc
      /\ phase = "final" /\ phase' = "up"
      /\ indexed' => durable' = KeysOf(row, InState(row, "C"))
  BY DEF RecoverOpen, dbVars
<1>2. Alone(row') /\ Cache!Next
  BY <1>1, CalmStep
<1>3. Files'
  <2>1. \A i \in Ids : file[i] # "absent" => row[i].st \in Live
    BY <1>1 DEF Whole, Files, Recovered, Verified
  <2>2. QED
    BY <1>1, <2>1 DEF Whole, Files, Fresh, Partial, NoWriters, NoUnchargedFile, Recovered,
                      Recovering, Verified
<1>4. IndexKept'
  BY <1>1 DEF IndexKept, IndexAuthoritative, Known, KeysOf, InState
<1>5. QED
  BY <1>2, <1>3, <1>4 DEF Implemented

-----------------------------------------------------------------------------
LEMMA StepImplemented == Whole /\ Next => Whole' /\ Cache!Next
<1> SUFFICES ASSUME Whole, Next PROVE Whole' /\ Cache!Next
  OBVIOUS
<1>1. Kept
  BY StepSafe DEF Whole, Kept
<1>2. Implemented
  BY <1>1, TickStep, ReserveStep, PartlyStep, WriterStep, LookupStep, ForgetSteps, PlainStep,
     ResetStep, SweepStep, ScanStep, VerifyStep, OpenStep DEF Next
<1>3. QED
  BY <1>1, <1>2 DEF Implemented, Whole, Kept

LEMMA StutterImplemented == Whole /\ UNCHANGED vars => Whole' /\ UNCHANGED Cache!vars
<1> SUFFICES ASSUME Whole, UNCHANGED vars PROVE Whole' /\ UNCHANGED Cache!vars
  OBVIOUS
<1>1. UNCHANGED <<row, lease, total, older, file, durable, indexed, failed, lim, phase, wpc>>
  BY DEF vars
<1>2. Safe'
  BY StepSafe DEF Whole
<1>3. Alone(row') /\ Files' /\ IndexKept'
  BY <1>1 DEF Whole, Files, Fresh, Partial, NoWriters, NoUnchargedFile, Recovered, IndexKept,
              IndexAuthoritative, Serving, Known
<1>4. UNCHANGED Cache!vars
  BY <1>1 DEF Cache!vars
<1>5. QED
  BY <1>2, <1>3, <1>4 DEF Whole

LEMMA InitWhole == Init => Whole
<1> SUFFICES ASSUME Init PROVE Whole
  OBVIOUS
<1>1. /\ row = [i \in Ids |-> NewRow] /\ file = [i \in Ids |-> "absent"]
      /\ wpc = [i \in Ids |-> "idle"] /\ phase = "up"
  BY DEF Init
<1>2. Alone(row) /\ Files /\ IndexKept
  BY <1>1 DEF Alone, Files, Fresh, Partial, NoWriters, NoUnchargedFile, Recovered, Recovering,
              Verified, IndexKept, IndexAuthoritative, NewRow, Live
<1>3. QED
  BY <1>2, InitSafe DEF Whole

(* The directory, the index, the writers and the phases of recovery agree  *)
(* in every reachable state.                                               *)
THEOREM StoreWhole == Spec => []Whole
<1>1. Whole /\ [Next]_vars => Whole'
  BY StepImplemented, StutterImplemented
<1>2. QED
  BY <1>1, InitWhole, PTL DEF Spec

(* While the store is up, every file in the objects directory is charged   *)
(* to a row, but for the partials of writers whose row was collected under *)
(* them: those still writing, and those that could not unlink.             *)
THEOREM DirectoryCharged == Spec => []NoUnchargedFile
<1>1. Whole => NoUnchargedFile
  BY DEF Whole, Files
<1>2. QED
  BY <1>1, StoreWhole, PTL

(* A miss in the in-RAM index is final, as long as nobody calls            *)
(* clear_failure().                                                        *)
THEOREM MissIsFinal ==
  ASSUME ~OperatorClears
  PROVE  Spec => []IndexAuthoritative
<1>1. Whole => IndexAuthoritative
  BY DEF Whole, IndexKept
<1>2. QED
  BY <1>1, StoreWhole, PTL

OpensClean == phase # "up" /\ phase' = "up" => CleanStart'

(* Whatever a crash left behind, a store that opens has no lease,          *)
(* reservation, tombstone or stray file, and its total and index match.    *)
THEOREM RecoveryIsClean == Spec => RecoveryClean
<1>1. Whole /\ AccountInv /\ Next => OpensClean
  <2> SUFFICES ASSUME Whole, AccountInv, Next, phase # "up", phase' = "up" PROVE CleanStart'
    BY DEF OpensClean
  <2>1. RecoverOpen
    <3>1. \A k \in Keys : /\ ~ReserveWriteRefused(k) /\ ~AdmissionFails(k) /\ ~ReserveReadMiss(k)
                          /\ ~Invalidate(k) /\ ~CrashInSupersede(k)
                          /\ \A c \in 1..MaxCharge, i \in Ids : ~ReserveWrite(k, c, i)
      BY DEF ReserveWriteRefused, AdmissionFails, ReserveReadMiss, Invalidate, CrashInSupersede,
             ReserveWrite, Serving
    <3>2. \A done, half \in SUBSET Ids : /\ ~CollectFails(done, half) /\ ~EvictFails(done, half)
                                         /\ ~CrashInCollect(done, half)
      BY DEF CollectFails, EvictFails, CrashInCollect, Serving, Dies
    <3>3. \A i \in Ids : /\ ~WriteStep(i) /\ ~PayloadFails(i) /\ ~CommitFails(i)
                         /\ ~ReleaseWrite(i) /\ ~RenewWrite(i)
                         /\ ~CrashAfterRename(i) /\ ~Damage(i) /\ ~RecoverScan(i)
      BY DEF WriteStep, BeginWrite, OpenPartial, DiscardWrite, CommitWrite, PayloadFails,
             CommitFails, StillReserved, ReleaseWrite, RenewWrite, CrashAfterRename, Damage,
             RecoverScan, Serving, Dies, ramVars
    <3>4. \A l \in Leases : /\ ~ReadInto(l) /\ ~ReadFails(l) /\ ~ReleaseRead(l) /\ ~RenewRead(l)
                            /\ \A i \in Ids : ~ReserveRead(l, i)
      BY DEF ReadInto, ReadFails, ReleaseRead, RenewRead, ReserveRead, Serving
    <3>5. ~Tick /\ ~ReleaseFails /\ ~ClearFailure /\ ~Close /\ ~Crash
      BY DEF Tick, ReleaseFails, ClearFailure, Close, Crash, Dies
    <3>6. /\ \A l \in Limits : ~RecoverReset(l)
          /\ ~RecoverVerify /\ ~RecoverShrink
      BY DEF RecoverReset, RecoverVerify, RecoverShrink
    <3>7. ~RecoverSweep
      <4>1. RecoverSweep => phase' \in {"scan", "shrink", "final"}
        BY DEF RecoverSweep, AfterSweep
      <4>2. QED
        BY <4>1
    <3>8. QED
      BY <3>1, <3>2, <3>3, <3>4, <3>5, <3>6, <3>7 DEF Next
  <2>2. /\ UNCHANGED <<row, lease, total, file, lim>> /\ phase = "final" /\ total <= lim.quota
        /\ indexed' => durable' = KeysOf(row, InState(row, "C"))
    BY <2>1 DEF RecoverOpen, dbVars
  <2>3. /\ \A l \in Leases : lease[l] = FreeLease
        /\ \A i \in Ids : /\ row[i].st \notin {"W", "T"}
                          /\ file[i] # "absent" => row[i].st \in Live
                          /\ row[i].st = "C" => file[i] \in RightSize
    BY <2>2 DEF Whole, Files, Recovered, Recovering, Verified
  <2>4. \A i \in Ids : row[i].st \in Live \cup {"new", "gone"}
    BY DEF Whole, Safe, Types
  <2>5. total = Bytes(row, Stored(row))
    BY DEF AccountInv, Exact, Sum
  <2>6. \A i \in Ids : /\ row[i].st \in {"new", "C", "gone"}
                       /\ IF row[i].st = "C" THEN file[i] \in {"final", "flipped"}
                                             ELSE file[i] = "absent"
    BY <2>3, <2>4 DEF Live, RightSize
  <2>7. total' = Bytes(row, Stored(row))' /\ KeysOf(row, InState(row, "C"))' = KeysOf(row, InState(row, "C"))
    BY <2>2, <2>5 DEF Bytes, Units, Stored, KeysOf, InState
  <2>8. QED
    BY <2>2, <2>3, <2>6, <2>7 DEF CleanStart
<1>2. Whole /\ AccountInv /\ [Next]_vars => [OpensClean]_vars
  BY <1>1
<1>3. QED
  BY <1>2, StoreWhole, AccountAlways, PTL DEF Spec, RecoveryClean, OpensClean

(* Every behaviour of the store, failures, crashes and recoveries          *)
(* included, is one that ObjectCache allows.                               *)
THEOREM StoreIsACache == Spec => CacheSpec
<1>1. Init => Cache!Init
  <2> SUFFICES ASSUME Init PROVE Cache!Init
    OBVIOUS
  <2>1. /\ row = [i \in Ids |-> NewRow] /\ file = [i \in Ids |-> "absent"]
        /\ lease = [l \in Leases |-> FreeLease]
    BY DEF Init
  <2>2. QED
    BY <2>1 DEF Cache!Init, NewRow, FreeLease, Placed
<1>2. Whole /\ [Next]_vars => [Cache!Next]_(Cache!vars)
  BY StepImplemented, StutterImplemented
<1>3. QED
  BY <1>1, <1>2, StoreWhole, PTL DEF Spec, CacheSpec, Cache!Spec
=============================================================================
