----------------------------- MODULE PumpProofs -----------------------------
(***************************************************************************)
(* Rows and bytes of TransferPump for every set of jobs and rows, all key  *)
(* sizes and quanta, and any mix of disks, copies, submissions, drains and *)
(* providers that fail.                                                    *)
(***************************************************************************)
EXTENDS TransferPump, FiniteSetTheorems, SequenceTheorems, TLAPS

-----------------------------------------------------------------------------
(* The inductive invariant.  Its parts are about values, not about the     *)
(* variables, so that a step that drains the copies and then ends a job    *)
(* can be followed through the values in between.                          *)

Bytes(j, k) == [job |-> j, key |-> k]
States == {"new", "live", "finished", "taken"}
Places == {"idle", "loop", "getStore", "doStore", "getLoad", "doLoad", "futures", "schedule",
           "launch", "await", "waitStore", "waitLoad", "stop", "close"}
TaskSet == [job : Jobs, key : Nat, row : Rows, end : Ends]
CopySet == [id : Nat, job : Jobs, key : Nat, row : Rows, end : Ends, known : BOOLEAN]

Typed ==
  /\ state \in [Jobs -> States]
  /\ index \in [Jobs -> Nat] /\ \A j \in Jobs : index[j] \in Keys(j)
  /\ row \in [Jobs -> Rows \cup {None}] /\ native \in [Jobs -> Nat \cup {None}]
  /\ cancelled \in [Jobs -> BOOLEAN] /\ outcome \in [Jobs -> BOOLEAN]
  /\ plan \in Plans /\ free \in [Rows -> Nat] /\ ready \in Seq(Jobs)
  /\ closed \in BOOLEAN /\ halted \in BOOLEAN /\ provider \in {"open", "closed"}
  /\ pc \in Places /\ waiting \subseteq Jobs

(* Who owns which row: at most one job, which is live, or nobody.          *)
RowsOwned(st, rw, na) ==
  /\ \A j \in Jobs : rw[j] # None => rw[j] \in plan.rows /\ st[j] = "live"
  /\ \A j, k \in Jobs : rw[j] # None /\ rw[j] = rw[k] => j = k
  /\ \A j \in Jobs : rw[j] = None => na[j] = None
RowsFree(f, rw) ==
  \A r \in Rows : f[r] = IF r \in plan.rows /\ \A j \in Jobs : rw[j] # r THEN 1 ELSE 0
Queued(q, st, rw) ==
  /\ \A i \in 1..Len(q) : st[q[i]] = "live" /\ rw[q[i]] = None
  /\ \A i, k \in 1..Len(q) : q[i] = q[k] => i = k

(* A task or a running copy works for the job that has its row.  A copy    *)
(* that has ended is heard only if the job still waits for it.             *)
Working(T, C, rw, na, ix) ==
  /\ T \subseteq TaskSet /\ C \subseteq CopySet
  /\ \A t \in T : rw[t.job] = t.row /\ na[t.job] = None /\ ix[t.job] = t.key
  /\ \A t, u \in T : t.job = u.job => t = u
  /\ \A c \in C : c.end = "running" => na[c.job] = c.id
  /\ \A c \in C : ~c.known => c.end = "running"
  /\ \A c \in C : na[c.job] = c.id => rw[c.job] = c.row /\ ix[c.job] = c.key
  /\ \A c, d \in C : c.id = d.id => c = d

(* Where the bytes of a key are while it is under way.                     *)
Filled(T, C, S, A, na) ==
  /\ \A t \in T : /\ t.job \in Storing /\ t.end = "running" => S[t.row] = Bytes(t.job, t.key)
                  /\ t.job \in Storing /\ t.end = "ok" => A[t.job][t.key] # Absent
                  /\ t.job \notin Storing /\ t.end = "ok" => S[t.row] = Bytes(t.job, t.key)
  /\ \A c \in C : na[c.job] = c.id =>
       /\ c.job \in Storing /\ c.end = "ok" => S[c.row] = Bytes(c.job, c.key)
       /\ c.job \notin Storing /\ c.end = "running" => S[c.row] = Bytes(c.job, c.key)
       /\ c.job \notin Storing /\ c.end = "ok" => A[c.job][c.key] # Absent

Array(A) == A = [j \in Jobs |-> [k \in Keys(j) |-> A[j][k]]]
Arrived(A, ix) ==
  /\ Array(A)
  /\ \A j \in Jobs : \A k \in Keys(j) : /\ A[j][k] \in {Absent, Bytes(j, k)}
                                        /\ k < ix[j] => A[j][k] # Absent
Complete(oc, A) == \A j \in Jobs : oc[j] => \A k \in Keys(j) : A[j][k] # Absent

InputOutput(T, C, S, A, rw, na, ix) ==
  /\ S = [r \in Rows |-> S[r]]
  /\ Working(T, C, rw, na, ix) /\ Filled(T, C, S, A, na) /\ Arrived(A, ix)

(* Nothing works for the jobs of J.                                        *)
Idle(J, T, C) ==
  (\A t \in T : t.job \notin J) /\ \A c \in C : c.end = "running" => c.job \notin J

(* What the thread has in its hands.                                       *)
Results == IF pc \in {"doStore", "doLoad"} THEN todo ELSE {}
Heard == copies \cup Results
Placed(T, st, rw, na, j) ==
  st[j] = "live" /\ rw[j] # None /\ na[j] = None /\ \A t \in T : t.job # j
Thread ==
  /\ \A c \in Results : c.end # "running"
  /\ pc = "launch" => \E j \in Jobs : todo = {j} /\ Placed(tasks, state, row, native, j)
  /\ call = "shutdown" => closed /\ Live \subseteq waiting
  /\ pc \in {"stop", "close"} => call = "shutdown" /\ waiting = {}
  /\ provider = "closed" => closed /\ Live = {}

Pool == RowsOwned(state, row, native) /\ RowsFree(free, row) /\ Queued(ready, state, row)
PumpInv ==
  /\ Typed /\ Pool /\ IsFiniteSet(copies)
  /\ InputOutput(tasks, Heard, staging, arrived, row, native, index)
  /\ Complete(outcome, arrived)
  /\ Thread

-----------------------------------------------------------------------------
(* Facts about sizes, rows and ids.                                        *)

LEMMA KeyFacts ==
  /\ \A j \in Jobs : Len(Size[j]) \in Nat \ {0} /\ Keys(j) = 1..Len(Size[j]) /\ Keys(j) \subseteq Nat
  /\ \A j, k : k \in Nat \ {0} => Bytes(j, k) # Absent
  /\ None \notin Rows /\ None \notin Nat
<1>1. \A j \in Jobs : Size[j] \in Seq(1..Quantum) /\ Len(Size[j]) > 0
  BY SizeAssumption
<1>2. \A j \in Jobs : Len(Size[j]) \in Nat /\ DOMAIN Size[j] = 1..Len(Size[j])
  BY <1>1, LenProperties
<1>3. QED
  BY <1>1, <1>2, RowAssumption DEF Keys, Bytes, Absent

(* A row that one job of S owns is given back once.                        *)
LEMMA OwnsFacts ==
  ASSUME Typed, RowsOwned(state, row, native), NEW S \in SUBSET Jobs, NEW r \in Rows
  PROVE  Owns(S, r) = IF \E j \in S : row[j] = r THEN 1 ELSE 0
<1> DEFINE O == {j \in S : row[j] = r}
<1>1. CASE \E j \in S : row[j] = r
  <2>1. PICK j \in S : row[j] = r
    BY <1>1
  <2>2. O = {j}
    BY <2>1, KeyFacts DEF RowsOwned
  <2>3. QED
    BY <1>1, <2>2, FS_Singleton DEF Owns
<1>2. CASE ~\E j \in S : row[j] = r
  BY <1>2, FS_EmptySet DEF Owns
<1>3. QED
  BY <1>1, <1>2

LEMMA FreshFacts ==
  ASSUME IsFiniteSet(copies), copies \subseteq CopySet
  PROVE  FreshId \in Nat /\ \A c \in copies : c.id # FreshId
<1> DEFINE ids == {c.id : c \in copies}
           n == Cardinality(copies)
           f == [c \in copies |-> c.id]
<1>1. n \in Nat
  BY FS_CardinalityType
<1>2. f \in Surjection(copies, ids)
  BY DEF Surjection
<1>3. IsFiniteSet(ids) /\ Cardinality(ids) <= n
  BY <1>2, FS_Surjection
<1>4. IsFiniteSet(0..n) /\ Cardinality(0..n) = n + 1
  BY <1>1, FS_Interval
<1>5. \E m \in 0..n : m \notin ids
  <2>1. SUFFICES ASSUME 0..n \in SUBSET ids PROVE FALSE
    OBVIOUS
  <2>2. Cardinality(0..n) <= Cardinality(ids)
    BY <1>3, <2>1, FS_Subset
  <2>3. Cardinality(ids) \in Nat
    BY <1>3, FS_CardinalityType
  <2>4. QED
    BY <1>1, <1>3, <1>4, <2>2, <2>3
<1>6. FreshId \in 0..n /\ FreshId \notin ids
  BY <1>5 DEF FreshId
<1>7. QED
  BY <1>1, <1>6

-----------------------------------------------------------------------------
(* Disks and GPU.  Copies that are running land where only they may write. *)

LEMMA Forgotten ==
  ASSUME NEW T, NEW C, NEW S, NEW A, NEW rw, NEW na, NEW ix, InputOutput(T, C, S, A, rw, na, ix),
         NEW rw2, NEW na2, NEW ix2, NEW J \in SUBSET Jobs,
         \A j \in Jobs \ J : rw2[j] = rw[j] /\ na2[j] = na[j] /\ ix2[j] = ix[j],
         \A j \in J : na2[j] = None,
         Idle(J, T, C), Arrived(A, ix2)
  PROVE  InputOutput(T, C, S, A, rw2, na2, ix2)
<1>1. /\ T \subseteq TaskSet /\ C \subseteq CopySet
      /\ \A t \in T : t.job \in Jobs \ J
      /\ \A c \in C : c.job \in Jobs /\ c.id \in Nat
  BY DEF InputOutput, Working, TaskSet, CopySet, Idle
<1>2. \A c \in C : na2[c.job] = c.id => c.job \in Jobs \ J /\ na[c.job] = c.id
  BY <1>1, KeyFacts
<1>3. Working(T, C, rw2, na2, ix2)
  BY <1>1, <1>2 DEF InputOutput, Working, Idle
<1>4. Filled(T, C, S, A, na2)
  BY <1>1, <1>2 DEF InputOutput, Filled
<1>5. QED
  BY <1>3, <1>4 DEF InputOutput

(* A row is touched by one copy or by one task.                            *)
LEMMA Apart ==
  ASSUME NEW T, NEW C, NEW S, NEW A, NEW st, NEW rw, NEW na, NEW ix,
         RowsOwned(st, rw, na), InputOutput(T, C, S, A, rw, na, ix)
  PROVE  /\ \A c, d \in C :
               na[c.job] = c.id /\ na[d.job] = d.id /\ (d.row = c.row \/ d.job = c.job) => d = c
         /\ \A c \in C : na[c.job] = c.id => \A t \in T : t.row # c.row /\ t.job # c.job
         /\ \A t, u \in T : t.row = u.row => t = u
<1>1. /\ T \subseteq TaskSet /\ C \subseteq CopySet
      /\ \A c \in C : c.job \in Jobs /\ c.row \in Rows /\ c.id \in Nat
      /\ \A t \in T : t.job \in Jobs /\ t.row \in Rows
      /\ Working(T, C, rw, na, ix)
  BY DEF InputOutput, Working, TaskSet, CopySet
<1>2. ASSUME NEW c \in C, NEW d \in C, na[c.job] = c.id, na[d.job] = d.id,
             d.row = c.row \/ d.job = c.job
      PROVE  d = c
  <2>1. rw[d.job] = d.row /\ rw[c.job] = c.row /\ c.row # None /\ d.row # None
    BY <1>1, <1>2, KeyFacts DEF Working
  <2>2. d.job = c.job
    BY <1>1, <1>2, <2>1 DEF RowsOwned
  <2>3. QED
    BY <2>2, <1>1, <1>2 DEF Working
<1>3. ASSUME NEW c \in C, na[c.job] = c.id, NEW t \in T PROVE t.row # c.row /\ t.job # c.job
  <2>1. rw[t.job] = t.row /\ na[t.job] = None /\ rw[c.job] = c.row
    BY <1>1, <1>3 DEF Working
  <2>2. t.job # c.job
    BY <1>1, <1>3, <2>1, KeyFacts
  <2>3. QED
    BY <1>1, <2>1, <2>2, KeyFacts DEF RowsOwned
<1>4. ASSUME NEW t \in T, NEW u \in T, t.row = u.row PROVE t = u
  <2>1. rw[t.job] = t.row /\ rw[u.job] = u.row
    BY <1>1 DEF Working
  <2>2. t.job = u.job
    BY <1>1, <1>4, <2>1, KeyFacts DEF RowsOwned
  <2>3. QED
    BY <1>1, <2>2 DEF Working
<1>5. QED
  BY <1>2, <1>3, <1>4

LEMMA Landing ==
  ASSUME NEW T, NEW C, NEW st, NEW rw, NEW na, NEW ix,
         RowsOwned(st, rw, na), InputOutput(T, C, staging, arrived, rw, na, ix),
         \A j \in Jobs : ix[j] \in Keys(j),
         NEW D \in SUBSET Running(C)
  PROVE  /\ StagingAfter(D) = [r \in Rows |-> StagingAfter(D)[r]]
         /\ \A c \in D : c.job \in Storing => StagingAfter(D)[c.row] = Bytes(c.job, c.key)
         /\ \A t \in T : StagingAfter(D)[t.row] = staging[t.row]
         /\ \A c \in C \ D : na[c.job] = c.id => StagingAfter(D)[c.row] = staging[c.row]
         /\ \A c \in D : c.job \notin Storing => /\ StagingAfter(D)[c.row] = staging[c.row]
                                                 /\ ArrivedAfter(D)[c.job][c.key] = Bytes(c.job, c.key)
         /\ Array(ArrivedAfter(D))
         /\ \A j \in Jobs : \A k \in Keys(j) :
              ArrivedAfter(D)[j][k] \in {arrived[j][k], Bytes(j, k)}
<1>1. /\ T \subseteq TaskSet /\ C \subseteq CopySet
      /\ \A c \in C : c.job \in Jobs /\ c.row \in Rows /\ c.id \in Nat
      /\ \A t \in T : t.job \in Jobs /\ t.row \in Rows
      /\ \A c \in D : c \in C /\ c.end = "running"
  BY DEF InputOutput, Working, TaskSet, CopySet, Running
<1>2. \A c \in D : na[c.job] = c.id /\ rw[c.job] = c.row /\ ix[c.job] = c.key
  BY <1>1 DEF InputOutput, Working
<1>3. /\ \A c \in D : \A d \in C : na[d.job] = d.id /\ (d.row = c.row \/ d.job = c.job) => d = c
      /\ \A c \in D : \A t \in T : t.row # c.row
  BY <1>1, <1>2, Apart
<1>4. \A c \in D : \A t \in T : t.row # c.row
  BY <1>3
<1>5. \A r \in Rows : (\A c \in D : c.row = r => c.job \notin Storing) => StagingAfter(D)[r] = staging[r]
  BY DEF StagingAfter
<1>6. ASSUME NEW c \in D, c.job \in Storing PROVE StagingAfter(D)[c.row] = Bytes(c.job, c.key)
  <2> DEFINE e == CHOOSE e \in D : e.row = c.row /\ e.job \in Storing
  <2>1. e \in D /\ e.row = c.row
    BY <1>6
  <2>2. e = c
    BY <2>1, <1>1, <1>2, <1>3
  <2>3. StagingAfter(D)[c.row] = [job |-> e.job, key |-> e.key]
    BY <1>1, <1>6 DEF StagingAfter
  <2>4. QED
    BY <2>2, <2>3 DEF Bytes
<1>7. ASSUME NEW c \in D, c.job \notin Storing PROVE StagingAfter(D)[c.row] = staging[c.row]
  <2>1. \A d \in D : d.row = c.row => d = c
    BY <1>1, <1>2, <1>3
  <2>2. QED
    BY <2>1, <1>1, <1>5, <1>7
<1>8. ASSUME NEW j \in Jobs, NEW k \in Keys(j), NEW c \in D, c.job = j, c.key = k, j \notin Storing
      PROVE  ArrivedAfter(D)[j][k] = Bytes(j, k)
  <2> DEFINE e == CHOOSE e \in D : e.job = j /\ e.key = k
  <2>1. e \in D /\ e.job = j
    BY <1>8
  <2>2. e = c
    BY <2>1, <1>1, <1>2, <1>3, <1>8
  <2>3. ArrivedAfter(D)[j][k] = staging[e.row]
    BY <1>8 DEF ArrivedAfter
  <2>4. staging[c.row] = Bytes(c.job, c.key)
    BY <1>1, <1>2, <1>8 DEF InputOutput, Filled
  <2>5. QED
    BY <1>8, <2>2, <2>3, <2>4
<1>9. ASSUME NEW j \in Jobs, NEW k \in Keys(j) PROVE ArrivedAfter(D)[j][k] \in {arrived[j][k], Bytes(j, k)}
  <2>1. CASE \E c \in D : c.job = j /\ c.key = k /\ j \notin Storing
    BY <1>8, <2>1
  <2>2. CASE ~\E c \in D : c.job = j /\ c.key = k /\ j \notin Storing
    BY <2>2 DEF ArrivedAfter
  <2>3. QED
    BY <2>1, <2>2
<1>10. \A c \in D : c.key \in Keys(c.job)
  BY <1>1, <1>2
<1>11. StagingAfter(D) = [r \in Rows |-> StagingAfter(D)[r]] /\ Array(ArrivedAfter(D))
  BY DEF StagingAfter, ArrivedAfter, Array
<1>12. \A t \in T : StagingAfter(D)[t.row] = staging[t.row]
  BY <1>1, <1>4, <1>5
<1>13. \A c \in C \ D : na[c.job] = c.id => StagingAfter(D)[c.row] = staging[c.row]
  BY <1>1, <1>3, <1>5
<1>14. QED
  BY <1>1, <1>6, <1>7, <1>8, <1>9, <1>10, <1>11, <1>12, <1>13

(* What has arrived stays.                                                 *)
LEMMA Arriving ==
  ASSUME NEW A, NEW B, NEW ix, Arrived(A, ix), Array(B), \A j \in Jobs : ix[j] \in Keys(j),
         \A j \in Jobs : \A k \in Keys(j) : B[j][k] \in {A[j][k], Bytes(j, k)}
  PROVE  Arrived(B, ix) /\ \A oc : Complete(oc, A) => Complete(oc, B)
<1>1. \A j \in Jobs : \A k \in Keys(j) : Bytes(j, k) # Absent
  BY KeyFacts
<1>2. \A j \in Jobs : \A k \in Keys(j) : A[j][k] # Absent => B[j][k] # Absent
  BY <1>1
<1>3. Arrived(B, ix)
  BY <1>2 DEF Arrived
<1>4. QED
  BY <1>2, <1>3 DEF Complete

(* drain_cuda(): everything has landed, and nobody works on a copy.        *)
LEMMA Draining ==
  ASSUME NEW T, NEW C, NEW st, NEW rw, NEW na, NEW ix,
         RowsOwned(st, rw, na), InputOutput(T, C, staging, arrived, rw, na, ix),
         \A j \in Jobs : ix[j] \in Keys(j), IsFiniteSet(C)
  PROVE  LET S == StagingAfter(Running(C))
             A == ArrivedAfter(Running(C))
         IN  /\ InputOutput(T, Drained(C), S, A, rw, na, ix)
             /\ \A c \in Drained(C) : c.end # "running"
             /\ IsFiniteSet(Drained(C))
             /\ \A oc : Complete(oc, arrived) => Complete(oc, A)
             /\ \A t \in T : S[t.row] = staging[t.row]
<1> DEFINE D == Running(C)
           K == {d \in C : d.known /\ d.end = "running"}
           S == StagingAfter(D)
           A == ArrivedAfter(D)
<1>0. D \in SUBSET Running(C) /\ K \subseteq D /\ Ended(C) = C \ D /\ Ended(C) \subseteq C
  BY DEF Running, Ended
<1>1. /\ S = [r \in Rows |-> S[r]]
      /\ \A c \in D : c.job \in Storing => S[c.row] = Bytes(c.job, c.key)
      /\ \A t \in T : S[t.row] = staging[t.row]
      /\ \A c \in C \ D : na[c.job] = c.id => S[c.row] = staging[c.row]
      /\ \A c \in D : c.job \notin Storing => A[c.job][c.key] = Bytes(c.job, c.key)
      /\ Array(A)
      /\ \A j \in Jobs : \A k \in Keys(j) : A[j][k] \in {arrived[j][k], Bytes(j, k)}
  BY <1>0, Landing
<1>2. Arrived(A, ix) /\ \A oc : Complete(oc, arrived) => Complete(oc, A)
  BY <1>1, Arriving DEF InputOutput
<1>3. /\ Working(T, C, rw, na, ix) /\ Filled(T, C, staging, arrived, na)
      /\ T \subseteq TaskSet /\ C \subseteq CopySet
      /\ \A c \in C : c.job \in Jobs
  BY DEF InputOutput, Working, CopySet
<1> HIDE DEF S, A
<1>4. ASSUME NEW e \in Drained(C)
      PROVE  /\ e \in CopySet /\ e.end # "running" /\ e.known
             /\ \E d \in C : /\ e.id = d.id /\ e.job = d.job /\ e.row = d.row /\ e.key = d.key
                             /\ \/ d \in D /\ e = [d EXCEPT !.end = "ok"]
                                \/ d \in C \ D /\ e = d
  <2>1. CASE e \in Ended(C)
    <3>1. e \in C \ D /\ e.end # "running" /\ e.known
      BY <1>0, <1>3, <2>1 DEF Running, Working
    <3>2. QED
      BY <1>3, <3>1
  <2>2. CASE e \in {[d EXCEPT !.end = "ok"] : d \in K}
    <3>1. PICK d \in K : e = [d EXCEPT !.end = "ok"]
      BY <2>2
    <3>2. d \in C /\ d \in D /\ d \in CopySet /\ d.known
      BY <1>0, <1>3
    <3>3. /\ e \in CopySet /\ e.end = "ok" /\ e.known
          /\ e.id = d.id /\ e.job = d.job /\ e.row = d.row /\ e.key = d.key
      BY <3>1, <3>2 DEF CopySet, Ends
    <3>4. QED
      BY <3>1, <3>2, <3>3
  <2>3. QED
    BY <2>1, <2>2 DEF Drained
<1>5. Working(T, Drained(C), rw, na, ix)
  <2>1. ASSUME NEW e \in Drained(C), NEW f \in Drained(C), e.id = f.id PROVE e = f
    <3>1. PICK d \in C : /\ e.id = d.id
                         /\ \/ d \in D /\ e = [d EXCEPT !.end = "ok"]
                            \/ d \in C \ D /\ e = d
      BY <1>4
    <3>2. PICK g \in C : /\ f.id = g.id
                         /\ \/ g \in D /\ f = [g EXCEPT !.end = "ok"]
                            \/ g \in C \ D /\ f = g
      BY <1>4
    <3>3. d = g
      BY <1>3, <2>1, <3>1, <3>2 DEF Working
    <3>4. QED
      BY <3>1, <3>2, <3>3
  <2>2. ASSUME NEW e \in Drained(C), na[e.job] = e.id PROVE rw[e.job] = e.row /\ ix[e.job] = e.key
    BY <1>3, <1>4, <2>2 DEF Working
  <2>3. Drained(C) \subseteq CopySet /\ \A e \in Drained(C) : e.end # "running" /\ e.known
    BY <1>4
  <2>4. QED
    BY <1>3, <2>1, <2>2, <2>3 DEF Working
<1>6. Filled(T, Drained(C), S, A, na)
  <2>1. ASSUME NEW t \in T, t.job \in Storing, t.end = "ok" PROVE A[t.job][t.key] # Absent
    <3>1. t.job \in Jobs /\ t.key \in Keys(t.job) /\ arrived[t.job][t.key] # Absent
      BY <1>3, <2>1 DEF Working, Filled, TaskSet
    <3>2. Bytes(t.job, t.key) # Absent
      BY <3>1, KeyFacts
    <3>3. QED
      BY <1>1, <3>1, <3>2
  <2>2. ASSUME NEW e \in Drained(C), na[e.job] = e.id
        PROVE  /\ e.job \in Storing /\ e.end = "ok" => S[e.row] = Bytes(e.job, e.key)
               /\ e.job \notin Storing /\ e.end = "ok" => A[e.job][e.key] # Absent
    <3>1. PICK d \in C : /\ e.id = d.id /\ e.job = d.job /\ e.row = d.row /\ e.key = d.key
                         /\ (d \in D /\ e = [d EXCEPT !.end = "ok"]) \/ (d \in C \ D /\ e = d)
      BY <1>4
    <3>2. d.job \in Jobs /\ d.key \in Keys(d.job) /\ Bytes(d.job, d.key) # Absent
      BY <1>3, <2>2, <3>1, KeyFacts DEF Working
    <3>3. CASE d \in D
      BY <1>1, <3>1, <3>2, <3>3
    <3>4. CASE d \in C \ D /\ e = d
      <4>1. e.job \in Storing /\ e.end = "ok" => S[e.row] = Bytes(e.job, e.key)
        BY <1>1, <1>3, <2>2, <3>4 DEF Filled
      <4>2. e.job \notin Storing /\ e.end = "ok" => arrived[e.job][e.key] # Absent
        BY <1>3, <2>2, <3>4 DEF Filled
      <4>3. QED
        BY <1>1, <3>2, <3>4, <4>1, <4>2
    <3>5. QED
      BY <3>1, <3>3, <3>4
  <2>3. \A e \in Drained(C) : e.end # "running"
    BY <1>4
  <2>4. QED
    BY <1>1, <1>3, <2>1, <2>2, <2>3 DEF Filled
<1>7. IsFiniteSet(Drained(C))
  <2> DEFINE f == [d \in K |-> [d EXCEPT !.end = "ok"]]
             I == {[d EXCEPT !.end = "ok"] : d \in K}
  <2>1. IsFiniteSet(K) /\ IsFiniteSet(Ended(C))
    BY <1>0, FS_Subset
  <2>2. f \in Surjection(K, I)
    BY DEF Surjection
  <2>3. IsFiniteSet(I)
    BY <2>1, <2>2, FS_Surjection
  <2>4. QED
    BY <2>1, <2>3, FS_Union DEF Drained
<1>8. QED
  BY <1>1, <1>2, <1>4, <1>5, <1>6, <1>7 DEF InputOutput, S, A

-----------------------------------------------------------------------------
(* The devices. *)

LEMMA Unheard ==
  ASSUME PumpInv, UNCHANGED <<jobVars, poolVars, control>>, IsFiniteSet(copies'),
         InputOutput(tasks', copies' \cup Results, staging', arrived', row, native, index),
         Complete(outcome, arrived'),
         \A t \in tasks' : \E u \in tasks : u.job = t.job
  PROVE  PumpInv'
<1>1. /\ state' = state /\ index' = index /\ row' = row /\ native' = native /\ outcome' = outcome
      /\ cancelled' = cancelled /\ free' = free /\ ready' = ready /\ closed' = closed
      /\ provider' = provider /\ pc' = pc /\ todo' = todo /\ call' = call /\ waiting' = waiting
      /\ halted' = halted /\ plan' = plan
  BY DEF jobVars, poolVars, control
<1>2. Results' = Results /\ Live' = Live
  BY <1>1 DEF Results, Live
<1>3. Typed' /\ Pool'
  BY <1>1 DEF PumpInv, Typed, Pool, RowsOwned, RowsFree, Queued
<1>4. Thread'
  <2>1. pc = "launch" => \E j \in Jobs : todo = {j} /\ Placed(tasks', state, row, native, j)
    BY DEF PumpInv, Thread, Placed
  <2>2. QED
    BY <1>1, <1>2, <2>1 DEF PumpInv, Thread, Placed
<1>5. QED
  BY <1>1, <1>2, <1>3, <1>4 DEF PumpInv, Heard

LEMMA CopySteps ==
  ASSUME PumpInv, NEW c \in copies, NEW ok \in BOOLEAN, CopyEnds(c, ok)
  PROVE  PumpInv'
<1> DEFINE new == IF c.known THEN {[c EXCEPT !.end = IF ok THEN "ok" ELSE "failed"]} ELSE {}
           H == (Heard \ {c}) \cup new
<1>1. /\ RowsOwned(state, row, native)
      /\ InputOutput(tasks, Heard, staging, arrived, row, native, index)
      /\ Working(tasks, Heard, row, native, index) /\ Filled(tasks, Heard, staging, arrived, native)
      /\ Arrived(arrived, index) /\ Complete(outcome, arrived) /\ IsFiniteSet(copies)
      /\ \A j \in Jobs : index[j] \in Keys(j)
      /\ tasks \subseteq TaskSet /\ Heard \subseteq CopySet
      /\ staging = [r \in Rows |-> staging[r]]
  BY DEF PumpInv, Pool, Typed, InputOutput, Working
<1>2. /\ c \in Heard /\ c.end = "running" /\ c \notin Results /\ c \in CopySet
      /\ c.job \in Jobs /\ c.row \in Rows /\ c.id \in Nat
      /\ {c} \in SUBSET Running(Heard)
  BY <1>1 DEF CopyEnds, Running, Heard, PumpInv, Thread, CopySet
<1>3. native[c.job] = c.id /\ row[c.job] = c.row /\ index[c.job] = c.key /\ c.key \in Keys(c.job)
  BY <1>1, <1>2 DEF Working
<1>4. /\ copies' = (copies \ {c}) \cup new /\ tasks' = tasks
      /\ copies' \cup Results = H
  BY <1>2 DEF CopyEnds, ioVars, Heard
<1>5. IsFiniteSet(copies')
  <2>1. IsFiniteSet(copies \ {c}) /\ IsFiniteSet(new)
    BY <1>1, FS_RemoveElement, FS_Singleton, FS_EmptySet
  <2>2. QED
    BY <1>4, <2>1, FS_Union
<1>6. \A e \in new : /\ e \in CopySet /\ e.id = c.id /\ e.job = c.job /\ e.row = c.row /\ e.key = c.key
                     /\ e.end = (IF ok THEN "ok" ELSE "failed") /\ e.known
  BY <1>2 DEF CopySet, Ends
<1>7. \A e, f \in new : e = f
  OBVIOUS
<1> HIDE DEF new
<1>8. Working(tasks, H, row, native, index)
  <2>1. \A e, f \in H : e.id = f.id => e = f
    BY <1>1, <1>2, <1>6, <1>7 DEF Working
  <2>2. H \subseteq CopySet
    BY <1>1, <1>6
  <2>3. \A e \in H : /\ e.end = "running" => native[e.job] = e.id
                     /\ ~e.known => e.end = "running"
                     /\ native[e.job] = e.id => row[e.job] = e.row /\ index[e.job] = e.key
    BY <1>1, <1>3, <1>6 DEF Working
  <2>4. QED
    BY <1>1, <2>1, <2>2, <2>3 DEF Working
<1>9. /\ \A d \in Heard \ {c} : native[d.job] = d.id => d.row # c.row /\ d.job # c.job
      /\ \A t \in tasks : t.row # c.row /\ t.job # c.job
      /\ \A t \in tasks : t.row \in Rows /\ t.job \in Jobs
      /\ \A d \in Heard : d.row \in Rows /\ d.job \in Jobs
  BY <1>1, <1>2, <1>3, Apart DEF TaskSet, CopySet
<1>10. CASE ok
  <2>1. staging' = StagingAfter({c}) /\ arrived' = ArrivedAfter({c})
    BY <1>10 DEF CopyEnds
  <2> DEFINE S == StagingAfter({c})
             A == ArrivedAfter({c})
  <2>9. /\ S = [r \in Rows |-> S[r]]
        /\ \A d \in {c} : d.job \in Storing => S[d.row] = Bytes(d.job, d.key)
        /\ \A t \in tasks : S[t.row] = staging[t.row]
        /\ \A d \in Heard \ {c} : native[d.job] = d.id => S[d.row] = staging[d.row]
        /\ \A d \in {c} : d.job \notin Storing => A[d.job][d.key] = Bytes(d.job, d.key)
        /\ Array(A)
        /\ \A j \in Jobs : \A k \in Keys(j) : A[j][k] \in {arrived[j][k], Bytes(j, k)}
    <3> DEFINE D == {c}
    <3>1. D \in SUBSET Running(Heard)
      BY <1>2
    <3> HIDE DEF D
    <3>2. /\ StagingAfter(D) = [r \in Rows |-> StagingAfter(D)[r]]
          /\ \A d \in D : d.job \in Storing => StagingAfter(D)[d.row] = Bytes(d.job, d.key)
          /\ \A t \in tasks : StagingAfter(D)[t.row] = staging[t.row]
          /\ \A d \in Heard \ D : native[d.job] = d.id => StagingAfter(D)[d.row] = staging[d.row]
          /\ \A d \in D : d.job \notin Storing => ArrivedAfter(D)[d.job][d.key] = Bytes(d.job, d.key)
          /\ Array(ArrivedAfter(D))
          /\ \A j \in Jobs : \A k \in Keys(j) :
               ArrivedAfter(D)[j][k] \in {arrived[j][k], Bytes(j, k)}
      BY <1>1, <3>1, Landing
    <3>3. QED
      BY <3>2 DEF D
  <2> HIDE DEF S, A
  <2>2. /\ staging' = [r \in Rows |-> staging'[r]]
        /\ c.job \in Storing => staging'[c.row] = Bytes(c.job, c.key)
        /\ \A t \in tasks : staging'[t.row] = staging[t.row]
        /\ \A d \in Heard \ {c} : native[d.job] = d.id => staging'[d.row] = staging[d.row]
        /\ c.job \notin Storing => arrived'[c.job][c.key] = Bytes(c.job, c.key)
        /\ Array(arrived')
        /\ \A j \in Jobs : \A k \in Keys(j) : arrived'[j][k] \in {arrived[j][k], Bytes(j, k)}
    BY <2>1, <2>9 DEF S, A
  <2>3. Arrived(arrived', index) /\ Complete(outcome, arrived')
    BY <1>1, <2>2, Arriving
  <2>4. \A j \in Jobs : \A k \in Keys(j) : Bytes(j, k) # Absent
    BY KeyFacts
  <2>5. Filled(tasks, H, staging', arrived', native)
    <3>1. \A t \in tasks : t.key \in Keys(t.job)
      BY <1>1, <1>9 DEF Working
    <3>2. ASSUME NEW e \in H, native[e.job] = e.id
          PROVE  /\ e.job \in Storing /\ e.end = "ok" => staging'[e.row] = Bytes(e.job, e.key)
                 /\ e.job \notin Storing /\ e.end = "running" => staging'[e.row] = Bytes(e.job, e.key)
                 /\ e.job \notin Storing /\ e.end = "ok" => arrived'[e.job][e.key] # Absent
      <4>1. CASE e \in new
        BY <1>2, <1>3, <1>6, <1>10, <2>2, <2>4, <4>1
      <4>2. CASE e \in Heard \ {c}
        <5>1. e.key \in Keys(e.job)
          BY <1>1, <1>9, <3>2, <4>2 DEF Working
        <5>2. QED
          BY <1>1, <1>9, <2>2, <2>4, <3>2, <4>2, <5>1 DEF Filled
      <4>3. QED
        BY <4>1, <4>2
    <3>3. QED
      BY <1>1, <1>9, <2>2, <2>4, <3>1, <3>2 DEF Filled
  <2>6. QED
    BY <1>4, <1>5, <1>8, <2>2, <2>3, <2>5, Unheard DEF CopyEnds, InputOutput
<1>11. CASE ~ok
  <2>1. /\ arrived' = arrived
        /\ staging' = IF c.job \in Storing THEN [staging EXCEPT ![c.row] = Junk] ELSE staging
    BY <1>11 DEF CopyEnds
  <2>2. \A r \in Rows \ {c.row} : staging'[r] = staging[r]
    BY <1>1, <2>1
  <2>3. staging' = [r \in Rows |-> staging'[r]]
    BY <1>1, <2>1
  <2>4. Filled(tasks, H, staging', arrived, native)
    BY <1>1, <1>6, <1>9, <1>11, <2>2 DEF Filled
  <2>5. InputOutput(tasks, H, staging', arrived, row, native, index)
    BY <1>1, <1>8, <2>3, <2>4 DEF InputOutput
  <2>6. QED
    BY <1>1, <1>4, <1>5, <2>1, <2>5, Unheard DEF CopyEnds
<1>12. QED
  BY <1>10, <1>11

LEMMA DiskSteps ==
  ASSUME PumpInv, NEW t \in tasks, NEW ok \in BOOLEAN, DiskEnds(t, ok)
  PROVE  PumpInv'
<1> DEFINE u == [t EXCEPT !.end = IF ok THEN "ok" ELSE "failed"]
           U == (tasks \ {t}) \cup {u}
<1>1. /\ RowsOwned(state, row, native)
      /\ InputOutput(tasks, Heard, staging, arrived, row, native, index)
      /\ Working(tasks, Heard, row, native, index) /\ Filled(tasks, Heard, staging, arrived, native)
      /\ Arrived(arrived, index) /\ Complete(outcome, arrived) /\ IsFiniteSet(copies)
      /\ \A j \in Jobs : index[j] \in Keys(j)
      /\ tasks \subseteq TaskSet /\ Heard \subseteq CopySet
      /\ staging = [r \in Rows |-> staging[r]] /\ Array(arrived)
  BY DEF PumpInv, Pool, Typed, InputOutput, Working, Arrived
<1>2. /\ t \in TaskSet /\ t.job \in Jobs /\ t.row \in Rows /\ t.end = "running"
      /\ row[t.job] = t.row /\ native[t.job] = None /\ index[t.job] = t.key /\ t.key \in Keys(t.job)
  BY <1>1 DEF DiskEnds, Running, Working, TaskSet
<1>3. /\ u \in TaskSet /\ u.job = t.job /\ u.row = t.row /\ u.key = t.key
      /\ u.end = (IF ok THEN "ok" ELSE "failed")
  BY <1>2 DEF TaskSet, Ends
<1>4. tasks' = U /\ copies' = copies
  BY DEF DiskEnds
<1> HIDE DEF u
<1>5. /\ \A d \in Heard : native[d.job] = d.id => d.row # t.row /\ d.job # t.job
      /\ \A v \in tasks \ {t} : v.row # t.row /\ v.job # t.job
      /\ \A v \in tasks : v.row \in Rows /\ v.job \in Jobs /\ v.key \in Keys(v.job)
      /\ \A d \in Heard : d.row \in Rows /\ d.job \in Jobs
  <2>1. \A v \in tasks \ {t} : v.row # t.row /\ v.job # t.job
    BY <1>1, Apart DEF Working
  <2>2. \A d \in Heard : native[d.job] = d.id => d.row # t.row /\ d.job # t.job
    BY <1>1, Apart
  <2>3. QED
    BY <1>1, <2>1, <2>2 DEF TaskSet, CopySet, Working
<1>6. Working(U, Heard, row, native, index)
  BY <1>1, <1>2, <1>3, <1>5 DEF Working
<1>7. \A j \in Jobs : \A k \in Keys(j) : Bytes(j, k) # Absent
  BY KeyFacts
<1>8. CASE t.job \in Storing
  <2>1. staging' = staging /\ staging[t.row] = Bytes(t.job, t.key)
        /\ arrived' = IF ok THEN [arrived EXCEPT ![t.job][t.key] = staging[t.row]] ELSE arrived
    BY <1>1, <1>2, <1>8 DEF DiskEnds, Filled
  <2>2. /\ Array(arrived')
        /\ \A j \in Jobs : \A k \in Keys(j) :
             arrived'[j][k] = IF ok /\ j = t.job /\ k = t.key THEN Bytes(j, k) ELSE arrived[j][k]
    BY <1>1, <1>2, <2>1 DEF Array
  <2>3. Arrived(arrived', index) /\ Complete(outcome, arrived')
    BY <1>1, <2>2, Arriving
  <2>4. Filled(U, Heard, staging, arrived', native)
    <3>1. ASSUME NEW d \in Heard, native[d.job] = d.id, d.job \notin Storing, d.end = "ok"
          PROVE  arrived'[d.job][d.key] # Absent
      <4>1. d.job \in Jobs /\ d.key \in Keys(d.job) /\ d.job # t.job
        BY <1>1, <1>5, <3>1 DEF Working
      <4>2. QED
        BY <1>1, <2>2, <3>1, <4>1 DEF Filled
    <3>2. ASSUME NEW v \in U, v.job \in Storing, v.end = "ok" PROVE arrived'[v.job][v.key] # Absent
      <4>1. CASE v = u
        BY <1>2, <1>3, <1>7, <2>2, <3>2, <4>1
      <4>2. CASE v \in tasks \ {t}
        BY <1>1, <1>5, <2>2, <3>2, <4>2 DEF Filled
      <4>3. QED
        BY <4>1, <4>2
    <3>3. ASSUME NEW v \in U, v.end = (IF v.job \in Storing THEN "running" ELSE "ok")
          PROVE  staging[v.row] = Bytes(v.job, v.key)
      BY <1>1, <1>3, <1>8, <3>3 DEF Filled
    <3>4. \A d \in Heard : native[d.job] = d.id =>
            /\ d.job \in Storing /\ d.end = "ok" => staging[d.row] = Bytes(d.job, d.key)
            /\ d.job \notin Storing /\ d.end = "running" => staging[d.row] = Bytes(d.job, d.key)
      BY <1>1 DEF Filled
    <3>5. QED
      BY <3>1, <3>2, <3>3, <3>4 DEF Filled
  <2>5. InputOutput(tasks', copies' \cup Results, staging', arrived', row, native, index)
    BY <1>1, <1>4, <1>6, <2>1, <2>3, <2>4 DEF InputOutput, Heard
  <2>6. QED
    BY <1>1, <1>3, <1>4, <2>3, <2>5, Unheard DEF DiskEnds
<1>9. CASE t.job \notin Storing
  <2>1. /\ arrived' = arrived
        /\ staging' = [staging EXCEPT ![t.row] = IF ok THEN Bytes(t.job, t.key) ELSE Junk]
    BY <1>9 DEF DiskEnds, Bytes
  <2>2. /\ \A r \in Rows \ {t.row} : staging'[r] = staging[r]
        /\ ok => staging'[t.row] = Bytes(t.job, t.key)
        /\ staging' = [r \in Rows |-> staging'[r]]
    BY <1>1, <1>2, <2>1
  <2>3. Filled(U, Heard, staging', arrived, native)
    <3>1. ASSUME NEW d \in Heard, native[d.job] = d.id PROVE staging'[d.row] = staging[d.row]
      BY <1>5, <2>2, <3>1
    <3>2. ASSUME NEW v \in tasks \ {t} PROVE staging'[v.row] = staging[v.row]
      BY <1>5, <2>2
    <3>3. QED
      BY <1>1, <1>3, <1>9, <2>2, <3>1, <3>2 DEF Filled
  <2>4. InputOutput(tasks', copies' \cup Results, staging', arrived', row, native, index)
    BY <1>1, <1>4, <1>6, <2>1, <2>2, <2>3 DEF InputOutput, Heard
  <2>5. QED
    BY <1>1, <1>3, <1>4, <2>1, <2>4, Unheard DEF DiskEnds
<1>10. QED
  BY <1>8, <1>9

-----------------------------------------------------------------------------
(* Jobs that give their row back: _row_done() and _finish().               *)

Leave(S, ok) ==
  /\ \A j \in S : row'[j] = None /\ native'[j] = None
  /\ \A j \in S : \/ /\ state'[j] = "finished" /\ index'[j] = index[j]
                     /\ outcome'[j] => ok /\ index[j] = Len(Size[j])
                  \/ /\ state'[j] = state[j] /\ ok /\ index'[j] = index[j] + 1
                     /\ outcome'[j] = outcome[j]
  /\ \A j \in Jobs \ S : /\ row'[j] = row[j] /\ native'[j] = native[j] /\ index'[j] = index[j]
                         /\ state'[j] = state[j] /\ outcome'[j] = outcome[j]
Frame ==
  UNCHANGED <<cancelled, closed, provider, waiting, call, plan>> /\ pc' \in Places /\ halted' \in BOOLEAN

LEMMA Finishing ==
  ASSUME Typed, Pool, NEW S \in SUBSET Jobs, NEW ok \in BOOLEAN, Finish(S, ok), Frame,
         NEW good \in BOOLEAN, \A j \in S : row[j] # None /\ (ok /\ ~cancelled[j] => good),
         good => \A j \in S : index[j] = Len(Size[j])
  PROVE  Typed' /\ Pool' /\ Leave(S, good) /\ Live' \subseteq Live
<1>1. /\ state' = [j \in Jobs |-> IF j \in S THEN "finished" ELSE state[j]]
      /\ outcome' = [j \in Jobs |-> IF j \in S THEN ok /\ ~cancelled[j] ELSE outcome[j]]
      /\ free' = [r \in Rows |-> free[r] + Owns(S, r)]
      /\ row' = [j \in Jobs |-> IF j \in S THEN None ELSE row[j]]
      /\ native' = [j \in Jobs |-> IF j \in S THEN None ELSE native[j]]
      /\ index' = index /\ ready' = ready
      /\ cancelled' = cancelled /\ closed' = closed /\ provider' = provider /\ waiting' = waiting
      /\ plan' = plan
  BY DEF Finish, Success, Frame
<1>2. \A r \in Rows : Owns(S, r) = IF \E j \in S : row[j] = r THEN 1 ELSE 0
  BY OwnsFacts DEF Pool
<1>3. Leave(S, good) /\ Live' \subseteq Live
  BY <1>1 DEF Leave, Live
<1>4. Typed'
  <2>1. free' \in [Rows -> Nat]
    <3>1. \A r \in Rows : Owns(S, r) = 0 \/ Owns(S, r) = 1
      BY <1>2
    <3>2. \A r \in Rows : free[r] \in Nat
      BY DEF Typed
    <3>3. \A r \in Rows : free[r] + Owns(S, r) \in Nat
      BY <3>1, <3>2
    <3>4. QED
      BY <1>1, <3>3
  <2>2. state' \in [Jobs -> States] /\ row' \in [Jobs -> Rows \cup {None}] /\ native' \in [Jobs -> Nat \cup {None}]
    BY <1>1 DEF Typed, States
  <2>3. outcome' \in [Jobs -> BOOLEAN]
    BY <1>1 DEF Typed
  <2>4. QED
    BY <1>1, <2>1, <2>2, <2>3 DEF Typed, Frame
<1>5. RowsOwned(state, row, native)' /\ Queued(ready, state, row)'
  <2>1. RowsOwned(state', row', native')
    BY <1>1 DEF Pool, RowsOwned
  <2>2. ready \in Seq(Jobs) /\ \A i \in 1..Len(ready) : ready[i] \in Jobs
    BY DEF Typed
  <2>3. Queued(ready', state', row')
    BY <1>1, <2>2 DEF Pool, Queued
  <2>4. QED
    BY <1>1, <2>1, <2>3 DEF RowsOwned
<1>6. RowsFree(free, row)'
  <2>1. ASSUME NEW r \in Rows
        PROVE  free'[r] = IF r \in plan.rows /\ \A j \in Jobs : row'[j] # r THEN 1 ELSE 0
    <3>1. CASE \E j \in S : row[j] = r
      <4>1. PICK j \in S : row[j] = r
        BY <3>1
      <4>2. r \in plan.rows /\ free[r] = 0 /\ free'[r] = 1
        BY <1>1, <1>2, <4>1 DEF Pool, RowsFree, RowsOwned
      <4>3. \A k \in Jobs : row'[k] # r
        BY <1>1, <4>1, KeyFacts DEF Pool, RowsOwned
      <4>4. QED
        BY <4>2, <4>3
    <3>2. CASE ~\E j \in S : row[j] = r
      <4>1. free'[r] = free[r]
        <5>1. free[r] \in Nat /\ Owns(S, r) = 0
          BY <1>2, <3>2 DEF Typed
        <5>2. QED
          BY <1>1, <5>1
      <4>2. \A k \in Jobs : row'[k] = r <=> row[k] = r
        BY <1>1, <3>2, KeyFacts
      <4>3. QED
        BY <4>1, <4>2 DEF Pool, RowsFree
    <3>3. QED
      BY <3>1, <3>2
  <2>2. QED
    BY <1>1, <2>1 DEF RowsFree
<1>7. QED
  BY <1>3, <1>4, <1>5, <1>6 DEF Pool

LEMMA Requeued ==
  ASSUME NEW q \in Seq(Jobs), NEW st, NEW rw, Queued(q, st, rw), NEW j \in Jobs, rw[j] # None,
         st[j] = "live", NEW rw2, rw2[j] = None, \A i \in Jobs \ {j} : rw2[i] = rw[i],
         NEW q2, q2 = Append(q, j) \/ q2 = <<j>> \o q
  PROVE  q2 \in Seq(Jobs) /\ Queued(q2, st, rw2)
<1>1. /\ Len(q) \in Nat /\ \A i \in 1..Len(q) : q[i] \in Jobs /\ q[i] # j
  BY LenProperties, ElementOfSeq DEF Queued
<1>2. CASE q2 = Append(q, j)
  <2>1. q2 \in Seq(Jobs) /\ Len(q2) = Len(q) + 1 /\ q2[Len(q) + 1] = j /\ \A i \in 1..Len(q) : q2[i] = q[i]
    BY <1>1, <1>2, AppendProperties
  <2>2. \A i \in 1..Len(q2) : i = Len(q) + 1 \/ i \in 1..Len(q)
    BY <1>1, <2>1
  <2>3. QED
    BY <1>1, <2>1, <2>2 DEF Queued
<1>3. CASE q2 = <<j>> \o q
  <2>1. <<j>> \in Seq(Jobs) /\ Len(<<j>>) = 1 /\ <<j>>[1] = j
    OBVIOUS
  <2>2. q2 \in Seq(Jobs) /\ Len(q2) = Len(q) + 1 /\ q2[1] = j
        /\ \A i \in 2..Len(q2) : q2[i] = q[i - 1]
    BY <1>1, <1>3, <2>1, ConcatProperties
  <2>3. \A i \in 1..Len(q2) : i = 1 \/ (i \in 2..Len(q2) /\ i - 1 \in 1..Len(q))
    BY <1>1, <2>2
  <2>4. \A i \in 1..Len(q2) : st[q2[i]] = "live" /\ rw2[q2[i]] = None
    <3>1. \A i \in 1..Len(q) : st[q[i]] = "live" /\ rw2[q[i]] = None
      BY <1>1 DEF Queued
    <3>2. ASSUME NEW i \in 1..Len(q2) PROVE st[q2[i]] = "live" /\ rw2[q2[i]] = None
      <4>1. CASE i = 1
        BY <2>2, <4>1
      <4>2. CASE i \in 2..Len(q2) /\ i - 1 \in 1..Len(q)
        <5>1. q2[i] = q[i - 1]
          BY <2>2, <4>2
        <5>2. QED
          BY <3>1, <4>2, <5>1
      <4>3. QED
        BY <2>3, <4>1, <4>2
    <3>3. QED
      BY <3>2
  <2>5. \A i, k \in 1..Len(q2) : q2[i] = q2[k] => i = k
    <3>1. \A i, k \in 1..Len(q) : q[i] = q[k] => i = k
      BY DEF Queued
    <3>2. ASSUME NEW i \in 1..Len(q2), NEW k \in 1..Len(q2), q2[i] = q2[k] PROVE i = k
      <4>1. CASE i = 1
        BY <1>1, <2>2, <2>3, <3>2, <4>1
      <4>2. CASE k = 1
        BY <1>1, <2>2, <2>3, <3>2, <4>2
      <4>3. CASE i \in 2..Len(q2) /\ k \in 2..Len(q2)
        <5>1. q[i - 1] = q[k - 1] /\ i - 1 \in 1..Len(q) /\ k - 1 \in 1..Len(q)
          BY <1>1, <2>2, <3>2, <4>3
        <5>2. i - 1 = k - 1
          BY <3>1, <5>1
        <5>3. QED
          BY <4>3, <5>2
      <4>4. QED
        BY <2>3, <4>1, <4>2, <4>3
    <3>3. QED
      BY <3>2
  <2>6. QED
    BY <2>2, <2>4, <2>5 DEF Queued
<1>4. QED
  BY <1>2, <1>3

LEMMA RowDoneLeaves ==
  ASSUME Typed, Pool, NEW j \in Jobs, NEW ok \in BOOLEAN, RowDone(j, ok), Frame, row[j] # None
  PROVE  Typed' /\ Pool' /\ Leave({j}, ok /\ ~cancelled[j]) /\ Live' \subseteq Live
<1> DEFINE good == ok /\ ~cancelled[j]
<1>1. CASE ~ok \/ cancelled[j] \/ index[j] = Len(Size[j])
  <2>1. Finish({j}, ok)
    BY <1>1 DEF RowDone
  <2>2. {j} \in SUBSET Jobs /\ \A i \in {j} : row[i] # None /\ (ok /\ ~cancelled[i] => good)
    OBVIOUS
  <2>3. good \in BOOLEAN /\ (good => \A i \in {j} : index[i] = Len(Size[i]))
    BY <1>1
  <2> HIDE DEF good
  <2>4. Typed' /\ Pool' /\ Leave({j}, good) /\ Live' \subseteq Live
    BY <2>1, <2>2, <2>3, Finishing
  <2>5. QED
    BY <2>4 DEF good
<1>2. CASE ok /\ ~cancelled[j] /\ index[j] # Len(Size[j])
  <2>1. /\ index' = [index EXCEPT ![j] = @ + 1]
        /\ free' = [free EXCEPT ![row[j]] = @ + 1]
        /\ row' = [row EXCEPT ![j] = None]
        /\ native' = [native EXCEPT ![j] = None]
        /\ ready' = <<j>> \o ready \/ ready' = Append(ready, j)
        /\ state' = state /\ outcome' = outcome
        /\ cancelled' = cancelled /\ closed' = closed /\ provider' = provider /\ waiting' = waiting
        /\ plan' = plan
    BY <1>2 DEF RowDone, Frame
  <2>2. /\ row[j] \in Rows /\ row[j] \in plan.rows /\ state[j] = "live"
        /\ index[j] \in Nat /\ index[j] \in 1..Len(Size[j]) /\ Len(Size[j]) \in Nat
    BY KeyFacts DEF Typed, Pool, RowsOwned
  <2>3. /\ row'[j] = None /\ \A i \in Jobs \ {j} : row'[i] = row[i]
        /\ native'[j] = None /\ \A i \in Jobs \ {j} : native'[i] = native[i]
        /\ index'[j] = index[j] + 1 /\ \A i \in Jobs \ {j} : index'[i] = index[i]
    BY <2>1 DEF Typed
  <2>4. Leave({j}, ok /\ ~cancelled[j]) /\ Live' = Live
    BY <1>2, <2>1, <2>3 DEF Leave, Live
  <2>5. ready' \in Seq(Jobs) /\ Queued(ready', state, row')
    <3>1. ready \in Seq(Jobs) /\ Queued(ready, state, row)
      BY DEF Typed, Pool
    <3> DEFINE q2 == ready'
               rw2 == row'
    <3>2. rw2[j] = None /\ \A i \in Jobs \ {j} : rw2[i] = row[i]
      BY <2>3
    <3>3. q2 = Append(ready, j) \/ q2 = <<j>> \o ready
      BY <2>1
    <3> HIDE DEF q2, rw2
    <3>4. q2 \in Seq(Jobs) /\ Queued(q2, state, rw2)
      BY <2>2, <3>1, <3>2, <3>3, Requeued
    <3>5. QED
      BY <3>4 DEF q2, rw2
  <2>6. free[row[j]] = 0 /\ free'[row[j]] = 1 /\ \A r \in Rows \ {row[j]} : free'[r] = free[r]
    BY <2>1, <2>2 DEF Typed, Pool, RowsFree
  <2>7. Typed'
    <3>1. free' \in [Rows -> Nat]
      BY <2>1, <2>2, <2>6 DEF Typed
    <3>2. index' \in [Jobs -> Nat] /\ \A i \in Jobs : index'[i] \in Keys(i)
      <4>1. index[j] + 1 \in Keys(j)
        BY <1>2, <2>2, KeyFacts
      <4>2. QED
        BY <2>1, <2>2, <2>3, <4>1 DEF Typed
    <3>3. row' \in [Jobs -> Rows \cup {None}] /\ native' \in [Jobs -> Nat \cup {None}]
      BY <2>1 DEF Typed
    <3>4. QED
      BY <2>1, <2>5, <3>1, <3>2, <3>3 DEF Typed, Frame
  <2>8. RowsOwned(state', row', native')
    BY <2>1, <2>3 DEF Pool, RowsOwned
  <2>9. RowsFree(free, row)'
    <3>1. ASSUME NEW r \in Rows
          PROVE  free'[r] = IF r \in plan.rows /\ \A i \in Jobs : row'[i] # r THEN 1 ELSE 0
      <4>1. CASE r = row[j]
        <5>1. \A i \in Jobs : row'[i] # r
          BY <2>2, <2>3, <4>1, KeyFacts DEF Pool, RowsOwned
        <5>2. QED
          BY <2>2, <2>6, <4>1, <5>1
      <4>2. CASE r # row[j]
        <5>1. \A i \in Jobs : row'[i] = r <=> row[i] = r
          BY <2>3, <4>2, KeyFacts
        <5>2. QED
          BY <2>6, <4>2, <5>1 DEF Pool, RowsFree
      <4>3. QED
        BY <4>1, <4>2
    <3>2. QED
      BY <2>1, <3>1 DEF RowsFree
  <2>10. QED
    BY <2>1, <2>4, <2>5, <2>7, <2>8, <2>9 DEF Pool, RowsOwned, Queued
<1>3. QED
  BY <1>1, <1>2

(* The jobs that leave have no task and no running copy, so what the       *)
(* others have under way does not change.                                  *)
LEMMA Leaving ==
  ASSUME NEW S \in SUBSET Jobs, NEW ok \in BOOLEAN, Leave(S, ok), NEW T, NEW C, NEW G, NEW A, NEW na,
         InputOutput(T, C, G, A, row, na, index), Complete(outcome, A),
         \A j \in Jobs : index[j] \in Keys(j),
         \A j \in Jobs \ S : na[j] = native[j],
         Idle(S, T, C), ok => \A j \in S : A[j][index[j]] # Absent
  PROVE  InputOutput(T, C, G, A, row', native', index') /\ Complete(outcome', A)
<1>1. /\ \A j \in S : native'[j] = None
      /\ \A j \in Jobs \ S : row'[j] = row[j] /\ native'[j] = na[j] /\ index'[j] = index[j]
  BY DEF Leave
<1>2. Arrived(A, index)
  BY DEF InputOutput
<1>3. Arrived(A, index')
  <2>1. ASSUME NEW j \in Jobs, NEW k \in Keys(j), k < index'[j] PROVE A[j][k] # Absent
    <3>1. k \in Nat /\ index[j] \in Nat
      BY KeyFacts
    <3>2. CASE index'[j] = index[j]
      BY <1>2, <2>1, <3>2 DEF Arrived
    <3>3. CASE j \in S /\ ok /\ index'[j] = index[j] + 1
      <4>1. k < index[j] \/ k = index[j]
        BY <2>1, <3>1, <3>3
      <4>2. QED
        BY <1>2, <3>3, <4>1 DEF Arrived
    <3>4. QED
      BY <1>1, <3>2, <3>3 DEF Leave
  <2>2. QED
    BY <1>2, <2>1 DEF Arrived
<1>4. Complete(outcome', A)
  <2>1. ASSUME NEW j \in S, outcome'[j], NEW k \in Keys(j) PROVE A[j][k] # Absent
    <3>1. CASE ok /\ index[j] = Len(Size[j])
      <4>1. k \in Nat /\ index[j] \in Nat /\ k <= index[j]
        BY <3>1, KeyFacts
      <4>2. k < index[j] \/ k = index[j]
        BY <4>1
      <4>3. QED
        BY <1>2, <3>1, <4>2 DEF Arrived
    <3>2. CASE outcome'[j] = outcome[j]
      BY <2>1, <3>2 DEF Complete
    <3>3. QED
      BY <2>1, <3>1, <3>2 DEF Leave
  <2>2. ASSUME NEW j \in Jobs \ S PROVE outcome'[j] = outcome[j]
    BY DEF Leave
  <2>3. QED
    BY <2>1, <2>2 DEF Complete
<1>5. InputOutput(T, C, G, A, row', native', index')
  <2> DEFINE rw2 == row'
             na2 == native'
             ix2 == index'
  <2>1. /\ \A j \in Jobs \ S : rw2[j] = row[j] /\ na2[j] = na[j] /\ ix2[j] = index[j]
        /\ \A j \in S : na2[j] = None
        /\ Arrived(A, ix2)
    BY <1>1, <1>3
  <2> HIDE DEF rw2, na2, ix2
  <2>2. InputOutput(T, C, G, A, rw2, na2, ix2)
    BY <2>1, Forgotten
  <2>3. QED
    BY <2>2 DEF rw2, na2, ix2
<1>6. QED
  BY <1>4, <1>5

-----------------------------------------------------------------------------
(* Work handed to the disk threads and to the GPU. *)

LEMMA DiskSubmitted ==
  ASSUME Typed, Pool, NEW j \in Jobs, NEW T, NEW C, SubmitDisk(j, T), Frame, row[j] # None,
         InputOutput(T, C, staging, arrived, row, native, index), Complete(outcome, arrived),
         Idle({j}, T, C), j \in Storing => staging[row[j]] = Bytes(j, index[j])
  PROVE  /\ Typed' /\ Pool' /\ Live' \subseteq Live
         /\ InputOutput(tasks', C, staging, arrived, row', native', index')
         /\ Complete(outcome', arrived)
<1> DEFINE u == [job |-> j, key |-> index[j], row |-> row[j], end |-> "running"]
<1>1. \A i \in Jobs : index[i] \in Keys(i)
  BY DEF Typed
<1>2. CASE tasks' = T \cup {u} /\ native' = [native EXCEPT ![j] = None] /\ Steady
  <2>1. /\ state' = state /\ row' = row /\ index' = index /\ outcome' = outcome /\ free' = free
        /\ ready' = ready /\ plan' = plan /\ cancelled' = cancelled /\ closed' = closed
        /\ provider' = provider /\ waiting' = waiting
        /\ native'[j] = None /\ \A i \in Jobs \ {j} : native'[i] = native[i]
    BY <1>2 DEF Steady, Frame, Typed
  <2>2. Typed'
    BY <1>2, <2>1 DEF Typed, Frame
  <2>3. Pool' /\ Live' = Live
    BY <2>1 DEF Pool, RowsOwned, RowsFree, Queued, Live
  <2>4. u \in TaskSet /\ u.job = j /\ u.key = index[j] /\ u.row = row[j] /\ u.end = "running"
    BY DEF TaskSet, Ends, Typed
  <2> DEFINE n2 == native'
  <2>5. /\ \A i \in Jobs \ {j} : row[i] = row[i] /\ n2[i] = native[i] /\ index[i] = index[i]
        /\ \A i \in {j} : n2[i] = None
        /\ {j} \in SUBSET Jobs /\ Arrived(arrived, index)
    BY <2>1 DEF InputOutput
  <2> HIDE DEF n2, u
  <2>6. InputOutput(T, C, staging, arrived, row, n2, index)
    BY <2>5, Forgotten
  <2>7. Working(T \cup {u}, C, row, n2, index)
    BY <2>4, <2>5, <2>6 DEF InputOutput, Working, Idle
  <2>8. Filled(T \cup {u}, C, staging, arrived, n2)
    BY <2>4, <2>6 DEF InputOutput, Filled
  <2>9. InputOutput(T \cup {u}, C, staging, arrived, row, n2, index)
    BY <2>6, <2>7, <2>8 DEF InputOutput
  <2>10. QED
    BY <1>2, <2>1, <2>2, <2>3, <2>9 DEF n2
<1>3. CASE tasks' = T /\ RowDone(j, FALSE)
  <2>1. Typed' /\ Pool' /\ Leave({j}, FALSE) /\ Live' \subseteq Live
    <3>1. Typed' /\ Pool' /\ Leave({j}, FALSE /\ ~cancelled[j]) /\ Live' \subseteq Live
      BY <1>3, RowDoneLeaves
    <3>2. QED
      BY <3>1 DEF Leave
  <2>2. {j} \in SUBSET Jobs /\ \A i \in Jobs \ {j} : native[i] = native[i]
    OBVIOUS
  <2>3. InputOutput(T, C, staging, arrived, row', native', index') /\ Complete(outcome', arrived)
    BY <1>1, <2>1, <2>2, Leaving
  <2>4. QED
    BY <1>3, <2>1, <2>3
<1>4. QED
  BY <1>2, <1>3 DEF SubmitDisk

(* The id of a copy that is being submitted is entered before the driver   *)
(* is asked; nobody else has it.                                           *)
Told(j) == [native EXCEPT ![j] = FreshId]

LEMMA Telling ==
  ASSUME Typed, Pool, NEW j \in Jobs, NEW T, row[j] # None, native[j] = None, \A t \in T : t.job # j,
         InputOutput(T, copies, staging, arrived, row, native, index), IsFiniteSet(copies),
         j \notin Storing => staging[row[j]] = Bytes(j, index[j]),
         NEW X, X \subseteq CopySet, \A x, y \in X : x = y,
         \A x \in X : /\ x.id = FreshId /\ x.job = j /\ x.key = index[j] /\ x.row = row[j]
                      /\ x.end = "running"
  PROVE  /\ InputOutput(T, copies \cup X, staging, arrived, row, Told(j), index)
         /\ Told(j) \in [Jobs -> Nat \cup {None}] /\ RowsOwned(state, row, Told(j))
<1>1. copies \subseteq CopySet /\ \A c \in copies : c.job \in Jobs /\ c.id \in Nat
  BY DEF InputOutput, Working, CopySet
<1>2. FreshId \in Nat /\ \A c \in copies : c.id # FreshId
  BY <1>1, FreshFacts
<1>3. Told(j)[j] = FreshId /\ \A i \in Jobs \ {j} : Told(j)[i] = native[i]
  BY DEF Told, Typed
<1>4. Told(j) \in [Jobs -> Nat \cup {None}]
  BY <1>2 DEF Told, Typed
<1>5. RowsOwned(state, row, Told(j))
  BY <1>3 DEF Pool, RowsOwned
<1>6. Working(T, copies, row, native, index) /\ Filled(T, copies, staging, arrived, native)
  BY DEF InputOutput
<1>7. \A c \in copies : Told(j)[c.job] = c.id => c.job # j /\ native[c.job] = c.id
  BY <1>1, <1>2, <1>3
<1>8. \A c \in copies : c.end = "running" => c.job # j
  BY <1>1, <1>6, KeyFacts DEF Working
<1>9. Working(T, copies \cup X, row, Told(j), index)
  <2>1. \A c, d \in copies \cup X : c.id = d.id => c = d
    BY <1>2, <1>6 DEF Working
  <2>2. \A t \in T : row[t.job] = t.row /\ Told(j)[t.job] = None /\ index[t.job] = t.key
    BY <1>3, <1>6 DEF Working, TaskSet
  <2>3. \A c \in copies : /\ c.end = "running" => Told(j)[c.job] = c.id
                          /\ ~c.known => c.end = "running"
                          /\ Told(j)[c.job] = c.id => row[c.job] = c.row /\ index[c.job] = c.key
    BY <1>1, <1>3, <1>6, <1>7, <1>8 DEF Working
  <2>4. \A c \in X : /\ c.end = "running" /\ Told(j)[c.job] = c.id
                     /\ row[c.job] = c.row /\ index[c.job] = c.key
    BY <1>3
  <2>5. QED
    BY <1>1, <1>6, <2>1, <2>2, <2>3, <2>4 DEF Working
<1>10. Filled(T, copies \cup X, staging, arrived, Told(j))
  BY <1>6, <1>7 DEF Filled
<1>11. QED
  BY <1>4, <1>5, <1>9, <1>10 DEF InputOutput

LEMMA NativeSubmitted ==
  ASSUME Typed, Pool, NEW j \in Jobs, NEW T, SubmitNative(j), Frame,
         row[j] # None, native[j] = None, \A t \in T : t.job # j,
         InputOutput(T, copies, staging, arrived, row, native, index), IsFiniteSet(copies),
         Complete(outcome, arrived),
         j \notin Storing => staging[row[j]] = Bytes(j, index[j])
  PROVE  /\ Typed' /\ Pool' /\ Live' \subseteq Live /\ IsFiniteSet(copies')
         /\ InputOutput(T, copies', staging', arrived', row', native', index')
         /\ Complete(outcome', arrived')
<1> DEFINE c == [id |-> FreshId, job |-> j, key |-> index[j], row |-> row[j],
                 end |-> "running", known |-> TRUE]
           unknown == [c EXCEPT !.known = FALSE]
<1>1. /\ copies \subseteq CopySet /\ \A i \in Jobs : index[i] \in Keys(i)
      /\ RowsOwned(state, row, native)
  BY DEF InputOutput, Working, Typed, Pool
<1>2. FreshId \in Nat
  BY <1>1, FreshFacts
<1>3. \A X \in {{}, {c}, {unknown}} :
        /\ X \subseteq CopySet /\ \A x, y \in X : x = y
        /\ \A x \in X : /\ x.id = FreshId /\ x.job = j /\ x.key = index[j] /\ x.row = row[j]
                        /\ x.end = "running"
  <2>1. /\ c \in CopySet /\ c.id = FreshId /\ c.job = j /\ c.key = index[j] /\ c.row = row[j]
        /\ c.end = "running" /\ c.known = TRUE
    BY <1>2 DEF CopySet, Ends, Typed
  <2> HIDE DEF c
  <2>2. /\ unknown \in CopySet /\ unknown.id = FreshId /\ unknown.job = j
        /\ unknown.key = index[j] /\ unknown.row = row[j] /\ unknown.end = "running"
    BY <2>1 DEF CopySet
  <2> HIDE DEF unknown
  <2>3. QED
    BY <2>1, <2>2
<1>4. Told(j) = [native EXCEPT ![j] = FreshId]
  BY DEF Told
<1> HIDE DEF c, unknown
<1>5. \A X \in {{}, {c}, {unknown}} :
        /\ InputOutput(T, copies \cup X, staging, arrived, row, Told(j), index)
        /\ Told(j) \in [Jobs -> Nat \cup {None}] /\ RowsOwned(state, row, Told(j))
        /\ IsFiniteSet(copies \cup X)
  <2>1. TAKE X \in {{}, {c}, {unknown}}
  <2>2. IsFiniteSet(X)
    <3>1. X = {} \/ X = {c} \/ X = {unknown}
      BY <2>1
    <3>2. IsFiniteSet({})
      BY FS_EmptySet
    <3>3. IsFiniteSet({c}) /\ IsFiniteSet({unknown})
      BY FS_Singleton
    <3>4. QED
      BY <3>1, <3>2, <3>3
  <2>3. IsFiniteSet(copies \cup X)
    BY <2>2, FS_Union
  <2>4. QED
    BY <1>3, <2>1, <2>3, Telling
<1>6. ASSUME NEW X \in {{}, {c}, {unknown}}, copies' = copies \cup X, native' = Told(j), Steady,
             UNCHANGED <<staging, arrived>>
      PROVE  /\ Typed' /\ Pool' /\ Live' \subseteq Live /\ IsFiniteSet(copies')
             /\ InputOutput(T, copies', staging', arrived', row', native', index')
             /\ Complete(outcome', arrived')
  <2>1. /\ state' = state /\ row' = row /\ index' = index /\ outcome' = outcome /\ free' = free
        /\ ready' = ready /\ plan' = plan /\ cancelled' = cancelled /\ closed' = closed
        /\ provider' = provider /\ waiting' = waiting
    BY <1>6 DEF Steady, Frame
  <2>2. Typed'
    BY <1>5, <1>6, <2>1 DEF Typed, Frame
  <2>3. Pool' /\ Live' = Live
    BY <1>5, <1>6, <2>1 DEF Pool, RowsOwned, RowsFree, Queued, Live
  <2>4. QED
    BY <1>5, <1>6, <2>1, <2>2, <2>3
<1>7. ASSUME NEW X \in {{}, {unknown}}, Drain(copies \cup X), RowDone(j, FALSE)
      PROVE  /\ Typed' /\ Pool' /\ Live' \subseteq Live /\ IsFiniteSet(copies')
             /\ InputOutput(T, copies', staging', arrived', row', native', index')
             /\ Complete(outcome', arrived')
  <2> DEFINE C == copies \cup X
             G == StagingAfter(Running(C))
             A == ArrivedAfter(Running(C))
  <2>1. copies' = Drained(C) /\ staging' = G /\ arrived' = A
    BY <1>7 DEF Drain
  <2>2. /\ InputOutput(T, C, staging, arrived, row, Told(j), index) /\ IsFiniteSet(C)
        /\ RowsOwned(state, row, Told(j))
    BY <1>5, <1>7
  <2> HIDE DEF C
  <2>3. /\ InputOutput(T, Drained(C), G, A, row, Told(j), index)
        /\ \A x \in Drained(C) : x.end # "running"
        /\ IsFiniteSet(Drained(C)) /\ Complete(outcome, A)
    BY <1>1, <2>2, Draining
  <2>4. Typed' /\ Pool' /\ Leave({j}, FALSE) /\ Live' \subseteq Live
    <3>1. Typed' /\ Pool' /\ Leave({j}, FALSE /\ ~cancelled[j]) /\ Live' \subseteq Live
      BY <1>7, RowDoneLeaves
    <3>2. QED
      BY <3>1 DEF Leave
  <2>5. Idle({j}, T, Drained(C)) /\ {j} \in SUBSET Jobs
    BY <2>3 DEF Idle
  <2>6. \A i \in Jobs \ {j} : Told(j)[i] = native[i]
    BY DEF Told, Typed
  <2> HIDE DEF G, A
  <2>7. InputOutput(T, Drained(C), G, A, row', native', index') /\ Complete(outcome', A)
    BY <1>1, <2>3, <2>4, <2>5, <2>6, Leaving
  <2>8. QED
    BY <2>1, <2>3, <2>4, <2>7
<1>8. QED
  BY <1>4, <1>6, <1>7 DEF SubmitNative, c, unknown

-----------------------------------------------------------------------------
(* The steps of the calling thread that touch no job. *)

LEMMA Assembling ==
  ASSUME Typed', Pool', IsFiniteSet(copies'), Complete(outcome', arrived'), Thread',
         InputOutput(tasks', copies' \cup Results', staging', arrived', row', native', index')
  PROVE  PumpInv'
BY DEF PumpInv, Heard

LEMMA Moving ==
  ASSUME PumpInv, UNCHANGED <<state, index, row, outcome, native, ioVars, free, ready, plan, halted>>,
         cancelled' \in [Jobs -> BOOLEAN], closed' \in BOOLEAN, provider' \in {"open", "closed"},
         Results = {}, Results' = {}, pc' \in Places, waiting' \subseteq Jobs, Thread'
  PROVE  PumpInv'
<1>1. /\ state' = state /\ index' = index /\ row' = row /\ native' = native /\ outcome' = outcome
      /\ tasks' = tasks /\ copies' = copies /\ staging' = staging /\ arrived' = arrived
      /\ free' = free /\ ready' = ready /\ plan' = plan /\ halted' = halted
  BY DEF ioVars
<1>2. Typed'
  BY <1>1 DEF PumpInv, Typed
<1>3. Pool'
  BY <1>1 DEF PumpInv, Pool, RowsOwned, RowsFree, Queued
<1>4. Heard' = Heard
  BY <1>1 DEF Heard
<1>5. QED
  BY <1>1, <1>2, <1>3, <1>4 DEF PumpInv

LEMMA ControlSteps ==
  ASSUME PumpInv,
         \/ GetFinished \/ WaitLoop \/ VisitsOver \/ AwaitFuture \/ AwaitCopies \/ StopThreads
         \/ CloseProvider \/ Shutdown \/ \E S \in Batches : Wait(S) \/ Cancel(S)
  PROVE  PumpInv'
<1> USE DEF Go, At, Results, Places, Live, jobVars, poolVars
<1>1. /\ Typed /\ Thread
  BY DEF PumpInv
<1>2. CASE GetFinished
  <2>1. Thread'
    BY <1>1, <1>2 DEF GetFinished, Thread
  <2>2. QED
    BY <1>1, <1>2, <2>1, Moving DEF GetFinished, Typed
<1>3. CASE WaitLoop
  <2>1. /\ UNCHANGED <<state, closed, provider>>
        /\ pc' \in {"getStore", "stop", "idle"} /\ waiting' \subseteq Jobs
    BY <1>1, <1>3 DEF WaitLoop, Typed
  <2>2. CASE waiting \cap Live # {}
    <3>1. pc' = "getStore" /\ call' = call /\ waiting' = waiting
      BY <1>3, <2>2 DEF WaitLoop, Outstanding
    <3>2. Thread'
      BY <1>1, <2>1, <3>1 DEF Thread
    <3>3. QED
      BY <1>1, <1>3, <2>1, <3>2, Moving DEF WaitLoop, Typed
  <2>3. CASE waiting \cap Live = {}
    <3>1. waiting' = {} /\ (call = "shutdown" => pc' = "stop" /\ call' = call)
          /\ (call # "shutdown" => pc' = "idle" /\ call' = "none")
      BY <1>3, <2>3 DEF WaitLoop, Outstanding
    <3>2. call = "shutdown" => Live = {}
      BY <1>1, <2>3 DEF Thread
    <3>3. Thread'
      BY <1>1, <2>1, <3>1, <3>2 DEF Thread
    <3>4. QED
      BY <1>1, <1>3, <2>1, <3>3, Moving DEF WaitLoop, Typed
  <2>4. QED
    BY <2>2, <2>3
<1>4. CASE VisitsOver
  <2>1. Thread'
    BY <1>1, <1>4 DEF VisitsOver, Thread
  <2>2. QED
    BY <1>1, <1>4, <2>1, Moving DEF VisitsOver, Typed
<1>5. CASE AwaitFuture
  <2>1. Thread'
    BY <1>1, <1>5 DEF AwaitFuture, Thread
  <2>2. QED
    BY <1>1, <1>5, <2>1, Moving DEF AwaitFuture, Typed
<1>6. CASE AwaitCopies
  <2>1. Thread'
    BY <1>1, <1>6 DEF AwaitCopies, Thread
  <2>2. QED
    BY <1>1, <1>6, <2>1, Moving DEF AwaitCopies, Typed
<1>7. CASE StopThreads
  <2>1. Thread'
    BY <1>1, <1>7 DEF StopThreads, Thread
  <2>2. QED
    BY <1>1, <1>7, <2>1, Moving DEF StopThreads, Typed
<1>8. CASE CloseProvider
  <2>1. closed /\ {j \in Jobs : state[j] = "live"} = {}
    BY <1>1, <1>8 DEF CloseProvider, Thread
  <2>2. Thread'
    BY <1>1, <1>8, <2>1 DEF CloseProvider, Thread
  <2>3. QED
    BY <1>1, <1>8, <2>2, Moving DEF CloseProvider, Typed
<1>9. CASE Shutdown
  <2>1. Thread'
    BY <1>1, <1>9 DEF Shutdown, Cancelling, Thread
  <2>2. cancelled' \in [Jobs -> BOOLEAN]
    BY <1>1, <1>9 DEF Shutdown, Cancelling, Typed
  <2>3. QED
    BY <1>1, <1>9, <2>1, <2>2, Moving DEF Shutdown, Cancelling, Typed
<1>10. CASE \E S \in Batches : Wait(S) \/ Cancel(S)
  <2>1. PICK S \in Batches : Wait(S) \/ Cancel(S)
    BY <1>10
  <2>2. S \subseteq Jobs
    BY PendingAssumption
  <2>3. Thread'
    BY <1>1, <2>1 DEF Wait, Cancel, Cancelling, Thread
  <2>4. cancelled' \in [Jobs -> BOOLEAN]
    BY <1>1, <2>1 DEF Wait, Cancel, Cancelling, Typed
  <2>5. QED
    BY <1>1, <2>1, <2>2, <2>3, <2>4, Moving DEF Wait, Cancel, Cancelling, Typed
<1>11. QED
  BY <1>2, <1>3, <1>4, <1>5, <1>6, <1>7, <1>8, <1>9, <1>10

-----------------------------------------------------------------------------
(* The steps that change the queue, and the collection of results. *)

LEMMA SubmitStep ==
  ASSUME PumpInv, NEW j \in Jobs, Submit(j)
  PROVE  PumpInv'
<1>1. /\ state[j] = "new" /\ ~closed /\ pc = "idle"
      /\ state' = [state EXCEPT ![j] = "live"] /\ ready' = Append(ready, j)
      /\ index' = index /\ row' = row /\ native' = native /\ outcome' = outcome
      /\ cancelled' = cancelled /\ free' = free /\ closed' = closed /\ provider' = provider
      /\ tasks' = tasks /\ copies' = copies /\ staging' = staging /\ arrived' = arrived
      /\ pc' = pc /\ todo' = todo /\ call' = call /\ waiting' = waiting /\ halted' = halted /\ plan' = plan
  BY DEF Submit, At, ioVars, control
<1>2. Typed /\ Thread /\ RowsOwned(state, row, native) /\ RowsFree(free, row) /\ Queued(ready, state, row)
  BY DEF PumpInv, Pool
<1>3. row[j] = None /\ \A i \in 1..Len(ready) : ready[i] # j
  BY <1>1, <1>2 DEF RowsOwned, Queued
<1>4. state' \in [Jobs -> States] /\ state'[j] = "live" /\ \A i \in Jobs \ {j} : state'[i] = state[i]
  BY <1>1, <1>2 DEF Typed, States
<1>5. /\ Len(ready) \in Nat /\ \A i \in 1..Len(ready) : ready[i] \in Jobs
      /\ ready' \in Seq(Jobs) /\ Len(ready') = Len(ready) + 1 /\ ready'[Len(ready) + 1] = j
      /\ \A i \in 1..Len(ready) : ready'[i] = ready[i]
  BY <1>1, <1>2, LenProperties, ElementOfSeq, AppendProperties DEF Typed
<1>6. \A i \in 1..Len(ready') : i = Len(ready) + 1 \/ i \in 1..Len(ready)
  BY <1>5
<1>7. Queued(ready', state', row')
  BY <1>1, <1>2, <1>3, <1>4, <1>5, <1>6 DEF Queued
<1>8. Pool'
  BY <1>1, <1>2, <1>4, <1>7 DEF Pool, RowsOwned, RowsFree, Queued
<1>9. Typed'
  BY <1>1, <1>2, <1>4, <1>5 DEF Typed
<1>10. Thread'
  BY <1>1, <1>2 DEF Thread, Results
<1>11. Heard' = Heard
  BY <1>1 DEF Heard, Results
<1>12. QED
  BY <1>1, <1>8, <1>9, <1>10, <1>11 DEF PumpInv

LEMMA PollOverStep ==
  ASSUME PumpInv, PollOver
  PROVE  PumpInv'
<1>1. /\ pc = "schedule" /\ pc' \in {"idle", "await"} /\ call' \in {call, "none"}
      /\ index' = index /\ row' = row /\ native' = native /\ outcome' = outcome
      /\ cancelled' = cancelled /\ free' = free /\ closed' = closed /\ provider' = provider
      /\ ready' = ready
      /\ tasks' = tasks /\ copies' = copies /\ staging' = staging /\ arrived' = arrived
      /\ todo' = todo /\ waiting' = waiting /\ halted' = halted /\ plan' = plan
  BY DEF PollOver, At, Go, ioVars, poolVars
<1>2. Typed /\ Thread /\ RowsOwned(state, row, native) /\ RowsFree(free, row) /\ Queued(ready, state, row)
  BY DEF PumpInv, Pool
<1>3. state' \in [Jobs -> States] /\ \A i \in Jobs : state'[i] = "live" <=> state[i] = "live"
  BY <1>2 DEF PollOver, Typed, States
<1>4. Live' = Live
  BY <1>3 DEF Live
<1>5. ready \in Seq(Jobs) /\ \A i \in 1..Len(ready) : ready[i] \in Jobs
  BY <1>2 DEF Typed
<1>6. Pool'
  BY <1>1, <1>2, <1>3, <1>5 DEF Pool, RowsOwned, RowsFree, Queued
<1>7. Typed'
  BY <1>1, <1>2, <1>3 DEF Typed, Places
<1>8. Thread'
  BY <1>1, <1>2, <1>4 DEF Thread, Results
<1>9. Heard' = Heard
  BY <1>1 DEF Heard, Results
<1>10. QED
  BY <1>1, <1>6, <1>7, <1>8, <1>9 DEF PumpInv

(* The head of the queue leaves it.                                        *)
LEMMA Headed ==
  ASSUME Typed, Queued(ready, state, row), ready # <<>>
  PROVE  /\ Head(ready) \in Jobs /\ state[Head(ready)] = "live" /\ row[Head(ready)] = None
         /\ Tail(ready) \in Seq(Jobs)
         /\ \A i \in 1..Len(Tail(ready)) : /\ Tail(ready)[i] \in Jobs /\ Tail(ready)[i] # Head(ready)
                                           /\ state[Tail(ready)[i]] = "live" /\ row[Tail(ready)[i]] = None
         /\ \A i, k \in 1..Len(Tail(ready)) : Tail(ready)[i] = Tail(ready)[k] => i = k
<1>1. /\ ready \in Seq(Jobs) /\ Len(ready) \in Nat \ {0}
      /\ \A i \in 1..Len(ready) : ready[i] \in Jobs
  BY LenProperties, EmptySeq DEF Typed
<1>2. Head(ready) = ready[1] /\ 1 \in 1..Len(ready)
  BY <1>1
<1>3. /\ Tail(ready) \in Seq(Jobs) /\ Len(Tail(ready)) = Len(ready) - 1
      /\ \A i \in 1..Len(Tail(ready)) : Tail(ready)[i] = ready[i + 1]
  BY <1>1, HeadTailProperties
<1>4. \A i \in 1..Len(Tail(ready)) : i + 1 \in 1..Len(ready) /\ i + 1 # 1
  BY <1>1, <1>3
<1>5. ASSUME NEW i \in 1..Len(Tail(ready)), NEW k \in 1..Len(Tail(ready)), Tail(ready)[i] = Tail(ready)[k]
      PROVE  i = k
  <2>1. i + 1 = k + 1
    BY <1>3, <1>4, <1>5 DEF Queued
  <2>2. QED
    BY <2>1
<1>6. QED
  BY <1>1, <1>2, <1>3, <1>4, <1>5 DEF Queued

LEMMA DropStep ==
  ASSUME PumpInv, DropCancelled
  PROVE  PumpInv'
<1> DEFINE j == Head(ready)
<1>1. /\ pc = "schedule" /\ ready # <<>>
      /\ state' = [state EXCEPT ![j] = "finished"] /\ ready' = Tail(ready)
      /\ index' = index /\ row' = row /\ native' = native /\ outcome' = outcome
      /\ cancelled' = cancelled /\ free' = free /\ closed' = closed /\ provider' = provider
      /\ tasks' = tasks /\ copies' = copies /\ staging' = staging /\ arrived' = arrived
      /\ pc' = pc /\ todo' = todo /\ call' = call /\ waiting' = waiting /\ halted' = halted /\ plan' = plan
  BY DEF DropCancelled, Dequeue, At, ioVars, control
<1>2. Typed /\ Thread /\ RowsOwned(state, row, native) /\ RowsFree(free, row) /\ Queued(ready, state, row)
  BY DEF PumpInv, Pool
<1>3. /\ j \in Jobs /\ row[j] = None /\ Tail(ready) \in Seq(Jobs)
      /\ \A i \in 1..Len(Tail(ready)) : /\ Tail(ready)[i] \in Jobs /\ Tail(ready)[i] # j
                                        /\ state[Tail(ready)[i]] = "live" /\ row[Tail(ready)[i]] = None
      /\ \A i, k \in 1..Len(Tail(ready)) : Tail(ready)[i] = Tail(ready)[k] => i = k
  BY <1>1, <1>2, Headed
<1> HIDE DEF j
<1>4. state' \in [Jobs -> States] /\ \A i \in Jobs \ {j} : state'[i] = state[i]
  BY <1>1, <1>2 DEF Typed, States
<1>5. Live' \subseteq Live
  BY <1>1, <1>2, <1>3 DEF Live, Typed
<1>6. Queued(ready', state', row')
  BY <1>1, <1>3, <1>4 DEF Queued
<1>7. Pool'
  BY <1>1, <1>2, <1>3, <1>4, <1>6 DEF Pool, RowsOwned, RowsFree, Queued
<1>8. Typed'
  BY <1>1, <1>2, <1>3, <1>4 DEF Typed
<1>9. Thread'
  BY <1>1, <1>2, <1>5 DEF Thread, Results
<1>10. Heard' = Heard
  BY <1>1 DEF Heard, Results
<1>11. QED
  BY <1>1, <1>7, <1>8, <1>9, <1>10 DEF PumpInv

LEMMA TakeStep ==
  ASSUME PumpInv, NEW r \in Rows, TakeRow(r)
  PROVE  PumpInv'
<1> DEFINE j == Head(ready)
<1>1. /\ pc = "schedule" /\ ready # <<>> /\ free[r] > 0
      /\ free' = [free EXCEPT ![r] = @ - 1] /\ row' = [row EXCEPT ![j] = r] /\ ready' = Tail(ready)
      /\ state' = state /\ index' = index /\ native' = native /\ outcome' = outcome
      /\ cancelled' = cancelled /\ closed' = closed /\ provider' = provider
      /\ tasks' = tasks /\ copies' = copies /\ staging' = staging /\ arrived' = arrived
      /\ pc' = "launch" /\ todo' = {j} /\ call' = call /\ waiting' = waiting /\ halted' = halted
      /\ plan' = plan
  BY DEF TakeRow, FreeRows, Dequeue, At, Go, ioVars
<1>2. /\ Typed /\ Thread /\ RowsOwned(state, row, native) /\ RowsFree(free, row)
      /\ Queued(ready, state, row) /\ IsFiniteSet(copies) /\ Complete(outcome, arrived)
      /\ InputOutput(tasks, Heard, staging, arrived, row, native, index)
  BY DEF PumpInv, Pool
<1>3. /\ j \in Jobs /\ row[j] = None /\ state[j] = "live" /\ Tail(ready) \in Seq(Jobs)
      /\ \A i \in 1..Len(Tail(ready)) : /\ Tail(ready)[i] \in Jobs /\ Tail(ready)[i] # j
                                        /\ state[Tail(ready)[i]] = "live" /\ row[Tail(ready)[i]] = None
      /\ \A i, k \in 1..Len(Tail(ready)) : Tail(ready)[i] = Tail(ready)[k] => i = k
  BY <1>1, <1>2, Headed
<1> HIDE DEF j
<1>4. /\ row'[j] = r /\ \A i \in Jobs \ {j} : row'[i] = row[i]
      /\ row' \in [Jobs -> Rows \cup {None}]
  BY <1>1, <1>2, <1>3 DEF Typed
<1>5. r \in plan.rows /\ free[r] = 1 /\ \A i \in Jobs : row[i] # r
  BY <1>1, <1>2 DEF RowsFree
<1>6. free' \in [Rows -> Nat] /\ free'[r] = 0 /\ \A x \in Rows \ {r} : free'[x] = free[x]
  BY <1>1, <1>2, <1>5 DEF Typed
<1>7. Queued(ready', state', row')
  BY <1>1, <1>3, <1>4 DEF Queued
<1>8. RowsOwned(state', row', native')
  BY <1>1, <1>2, <1>3, <1>4, <1>5 DEF RowsOwned
<1>9. \A x \in Rows : free'[x] = IF x \in plan.rows /\ \A i \in Jobs : row'[i] # x THEN 1 ELSE 0
  <2>1. ASSUME NEW x \in Rows, x # r PROVE \A i \in Jobs : row'[i] = x <=> row[i] = x
    BY <1>3, <1>4, <2>1, KeyFacts
  <2>2. QED
    BY <1>2, <1>3, <1>4, <1>6, <2>1 DEF RowsFree
<1>10. Pool'
  BY <1>1, <1>7, <1>8, <1>9 DEF Pool, RowsOwned, RowsFree, Queued
<1>11. Typed'
  BY <1>1, <1>2, <1>3, <1>4, <1>6 DEF Typed, Places
<1>12. Results = {} /\ Results' = {} /\ Live' = Live
  BY <1>1 DEF Results, Live
<1>13. native[j] = None
  BY <1>2, <1>3 DEF RowsOwned
<1>14. Idle({j}, tasks, Heard)
  <2>1. \A t \in tasks : row[t.job] = t.row /\ t.row # None
    BY <1>2, KeyFacts DEF InputOutput, Working, TaskSet
  <2>2. \A c \in Heard : c.end = "running" => native[c.job] = c.id /\ c.id # None
    BY <1>2, KeyFacts DEF InputOutput, Working, CopySet
  <2>3. QED
    BY <1>3, <1>13, <2>1, <2>2 DEF Idle
<1>15. Thread'
  <2>1. Placed(tasks, state, row', native, j)
    BY <1>3, <1>4, <1>13, <1>14, KeyFacts DEF Placed, Idle
  <2>2. QED
    BY <1>1, <1>2, <1>3, <1>12, <2>1 DEF Thread, Placed
<1>16. InputOutput(tasks, Heard, staging, arrived, row', native, index)
  <2> DEFINE rw2 == row'
  <2>1. /\ {j} \in SUBSET Jobs /\ \A i \in Jobs \ {j} : rw2[i] = row[i] /\ native[i] = native[i] /\ index[i] = index[i]
        /\ \A i \in {j} : native[i] = None
        /\ Arrived(arrived, index)
    BY <1>2, <1>3, <1>4, <1>13 DEF InputOutput
  <2> HIDE DEF rw2
  <2>2. InputOutput(tasks, Heard, staging, arrived, rw2, native, index)
    BY <1>2, <1>14, <2>1, Forgotten
  <2>3. QED
    BY <2>2 DEF rw2
<1>17. QED
  BY <1>1, <1>2, <1>10, <1>11, <1>12, <1>15, <1>16, Assembling DEF Heard

LEMMA Proceeding ==
  ASSUME NEW from \in {"store", "load"}, NEW rest, Proceed(from, rest)
  PROVE  pc' \in {"doStore", "doLoad", "getLoad", "futures"} /\ Results' = rest
BY DEF Proceed, Results

LEMMA Returning ==
  ASSUME Thread, Frame, Live' \subseteq Live, pc' \notin {"launch", "stop", "close"},
         \A c \in Results' : c.end # "running"
  PROVE  Thread'
BY DEF Thread, Frame

LEMMA Fewer ==
  ASSUME NEW T, NEW C, NEW G, NEW A, NEW rw, NEW na, NEW ix, InputOutput(T, C, G, A, rw, na, ix),
         NEW D, D \subseteq C, NEW U, U \subseteq T
  PROVE  InputOutput(U, D, G, A, rw, na, ix)
<1>1. Working(U, D, rw, na, ix)
  BY DEF InputOutput, Working
<1>2. Filled(U, D, G, A, na)
  BY DEF InputOutput, Filled
<1>3. QED
  BY <1>1, <1>2 DEF InputOutput

LEMMA CollectStep ==
  ASSUME PumpInv, Collect
  PROVE  PumpInv'
<1> DEFINE results == {c \in Ended(copies) : c.job \in Handled(pc)}
<1>1. /\ state' = state /\ index' = index /\ row' = row /\ native' = native /\ outcome' = outcome
      /\ cancelled' = cancelled /\ free' = free /\ ready' = ready /\ closed' = closed
      /\ provider' = provider /\ tasks' = tasks /\ staging' = staging /\ arrived' = arrived
      /\ call' = call /\ waiting' = waiting /\ halted' = halted /\ plan' = plan
      /\ copies' = copies \ results /\ pc \in {"getStore", "getLoad"}
  BY DEF Collect, jobVars, poolVars
<1>2. Proceed(From(pc), results) /\ From(pc) \in {"store", "load"}
  BY DEF Collect, From
<1>3. pc' \in {"doStore", "doLoad", "getLoad", "futures"} /\ Results' = results
  BY <1>2, Proceeding
<1>4. Results = {} /\ results \subseteq copies /\ \A c \in results : c.end # "running"
  BY <1>1 DEF Results, Ended, Running
<1> HIDE DEF results
<1>5. copies' \cup Results' = Heard
  BY <1>1, <1>3, <1>4 DEF Heard
<1>6. Typed' /\ Frame
  BY <1>1, <1>3 DEF PumpInv, Typed, Frame, Places
<1>7. Pool' /\ Live' = Live
  BY <1>1 DEF PumpInv, Pool, RowsOwned, RowsFree, Queued, Live
<1>8. Thread'
  BY <1>3, <1>4, <1>6, <1>7, Returning DEF PumpInv
<1>9. IsFiniteSet(copies')
  BY <1>1, FS_Subset DEF PumpInv
<1>10. QED
  BY <1>1, <1>5, <1>6, <1>7, <1>8, <1>9, Assembling DEF PumpInv

(* A handler raises: everything is drained and its jobs fail; or the drain *)
(* fails too, and nothing is recycled.                                     *)
LEMMA HandlerFails ==
  ASSUME PumpInv, Frame, UNCHANGED tasks, Results = {}, Results' = {},
         pc' \notin {"launch", "stop", "close"}, NEW H \in SUBSET Jobs,
         \/ Drain(copies) /\ Finish(Affected(H), FALSE)
         \/ Steady /\ UNCHANGED <<native, copies, staging, arrived>>
  PROVE  PumpInv'
<1> DEFINE S == Affected(H)
<1>1. /\ Typed /\ Pool /\ Thread /\ IsFiniteSet(copies) /\ Complete(outcome, arrived)
      /\ RowsOwned(state, row, native) /\ \A j \in Jobs : index[j] \in Keys(j)
      /\ InputOutput(tasks, copies, staging, arrived, row, native, index)
  BY DEF PumpInv, Heard, Pool, Typed
<1>2. CASE Drain(copies) /\ Finish(S, FALSE)
  <2> DEFINE G == StagingAfter(Running(copies))
             A == ArrivedAfter(Running(copies))
             C == Drained(copies)
  <2>1. copies' = C /\ staging' = G /\ arrived' = A
    BY <1>2 DEF Drain
  <2>2. /\ InputOutput(tasks, C, G, A, row, native, index)
        /\ \A c \in C : c.end # "running"
        /\ IsFiniteSet(C) /\ Complete(outcome, A)
    BY <1>1, Draining
  <2>3. /\ S \in SUBSET Jobs
        /\ \A j \in S : row[j] # None /\ native[j] # None
    BY <1>1 DEF Affected, RowsOwned
  <2>4. Typed' /\ Pool' /\ Leave(S, FALSE) /\ Live' \subseteq Live
    <3> HIDE DEF S
    <3>1. \A j \in S : row[j] # None /\ (FALSE /\ ~cancelled[j] => FALSE)
      BY <2>3
    <3>2. QED
      BY <1>1, <1>2, <2>3, <3>1, Finishing
  <2>5. Idle(S, tasks, C)
    BY <2>2, <2>3 DEF Idle, InputOutput, Working
  <2> HIDE DEF G, A, C, S
  <2>6. \A j \in Jobs \ S : native[j] = native[j]
    OBVIOUS
  <2>7. InputOutput(tasks, C, G, A, row', native', index') /\ Complete(outcome', A)
    BY <1>1, <2>2, <2>3, <2>4, <2>5, <2>6, Leaving
  <2>8. Thread'
    BY <1>1, <2>4, Returning
  <2>9. QED
    BY <2>1, <2>2, <2>4, <2>7, <2>8, Assembling
<1>3. CASE Steady /\ UNCHANGED <<native, copies, staging, arrived>>
  <2>1. /\ state' = state /\ row' = row /\ index' = index /\ outcome' = outcome /\ free' = free
        /\ ready' = ready /\ plan' = plan /\ cancelled' = cancelled /\ closed' = closed
        /\ provider' = provider /\ waiting' = waiting /\ native' = native /\ tasks' = tasks
        /\ copies' = copies /\ staging' = staging /\ arrived' = arrived
    BY <1>3 DEF Steady, Frame
  <2>2. Typed'
    BY <1>1, <2>1 DEF Typed, Frame
  <2>3. Pool' /\ Live' = Live
    BY <1>1, <2>1 DEF Pool, RowsOwned, RowsFree, Queued, Live
  <2>4. Thread'
    BY <1>1, <2>3, Returning
  <2>5. QED
    BY <1>1, <2>1, <2>2, <2>3, <2>4, Assembling
<1>4. QED
  BY <1>2, <1>3

LEMMA FailSteps ==
  ASSUME PumpInv, CollectFails \/ AwaitFails
  PROVE  PumpInv'
<1>1. CASE CollectFails
  <2>1. /\ pc \in {"getStore", "getLoad"} /\ halted' \in BOOLEAN
        /\ UNCHANGED <<cancelled, closed, provider, waiting, call, plan, tasks>>
        /\ \/ Drain(copies) /\ Finish(Affected(Handled(pc)), FALSE)
           \/ Steady /\ UNCHANGED <<native, copies, staging, arrived>>
        /\ \/ Proceed(From(pc), {})
           \/ UNCHANGED pc
    BY <1>1 DEF CollectFails, DrainFails, PumpInv, Typed
  <2>2. From(pc) \in {"store", "load"} /\ Handled(pc) \in SUBSET Jobs
    BY JobAssumption DEF From, Handled
  <2>3. pc' \in {"doStore", "doLoad", "getStore", "getLoad", "futures"} /\ Results' = {}
    <3>1. CASE Proceed(From(pc), {})
      BY <2>2, <3>1, Proceeding
    <3>2. CASE UNCHANGED pc
      BY <2>1, <3>2 DEF Results
    <3>3. QED
      BY <2>1, <3>1, <3>2
  <2>4. Results = {} /\ Frame
    BY <2>1, <2>3 DEF Results, Frame, Places
  <2>5. QED
    BY <2>1, <2>2, <2>3, <2>4, HandlerFails
<1>2. CASE AwaitFails
  <2>1. /\ pc \in {"waitStore", "waitLoad"} /\ halted' \in BOOLEAN
        /\ UNCHANGED <<cancelled, closed, provider, waiting, call, plan, tasks>>
        /\ \/ Drain(copies) /\ Finish(Affected(Waiter(pc)), FALSE)
           \/ Steady /\ UNCHANGED <<native, copies, staging, arrived>>
        /\ pc' \in {"waitStore", "waitLoad", "loop"}
    BY <1>2 DEF AwaitFails, DrainFails, Go, PumpInv, Typed
  <2>2. Waiter(pc) \in SUBSET Jobs
    BY JobAssumption DEF Waiter
  <2>3. Results = {} /\ Results' = {} /\ Frame
    BY <2>1 DEF Results, Frame, Places
  <2>4. QED
    BY <2>1, <2>2, <2>3, HandlerFails
<1>3. QED
  BY <1>1, <1>2

-----------------------------------------------------------------------------
(* The steps that submit, and those that end a row. *)

LEMMA ResultStep ==
  ASSUME PumpInv, NEW c \in todo, pc \in {"doStore", "doLoad"}, Result(c)
  PROVE  PumpInv'
<1> DEFINE j == c.job
           rest == todo \ {c}
           D == copies \cup rest
<1>1. /\ Typed /\ Pool /\ Thread /\ IsFiniteSet(copies) /\ Complete(outcome, arrived)
      /\ RowsOwned(state, row, native) /\ \A i \in Jobs : index[i] \in Keys(i)
      /\ InputOutput(tasks, Heard, staging, arrived, row, native, index)
  BY DEF PumpInv, Pool, Typed
<1>2. Results = todo /\ c \in Heard /\ c.end # "running" /\ D \subseteq Heard
  BY <1>1 DEF Results, Heard, Thread
<1>3. From(pc) \in {"store", "load"} /\ Proceed(From(pc), rest)
  BY DEF Result, From
<1>4. pc' \in {"doStore", "doLoad", "getLoad", "futures"} /\ Results' = rest
  <2> HIDE DEF rest
  <2>1. QED
    BY <1>3, Proceeding
<1>5. /\ UNCHANGED <<cancelled, closed, provider, copies, staging, arrived, call, waiting, halted, plan>>
      /\ Frame
  BY <1>1, <1>4 DEF Result, Frame, Typed, Places
<1>6. /\ Working(tasks, Heard, row, native, index) /\ Filled(tasks, Heard, staging, arrived, native)
      /\ j \in Jobs /\ c.id \in Nat /\ c.row \in Rows
  BY <1>1, <1>2 DEF InputOutput, Working, CopySet
<1>7. InputOutput(tasks, D, staging, arrived, row, native, index)
  <2> HIDE DEF D
  <2>1. QED
    BY <1>1, <1>2, Fewer
<1>8. CASE native[j] # c.id
  <2>1. Steady /\ UNCHANGED <<native, tasks>>
    BY <1>8 DEF Result
  <2>2. /\ state' = state /\ row' = row /\ index' = index /\ outcome' = outcome /\ free' = free
        /\ ready' = ready /\ plan' = plan /\ cancelled' = cancelled /\ closed' = closed
        /\ provider' = provider /\ waiting' = waiting /\ native' = native /\ tasks' = tasks
        /\ copies' = copies /\ staging' = staging /\ arrived' = arrived
    BY <1>5, <2>1 DEF Steady
  <2>3. Typed'
    BY <1>1, <1>5, <2>2 DEF Typed, Frame
  <2>4. Pool' /\ Live' = Live
    BY <1>1, <2>2 DEF Pool, RowsOwned, RowsFree, Queued, Live
  <2>5. Thread'
    BY <1>1, <1>2, <1>4, <1>5, <2>4, Returning DEF Thread
  <2>6. QED
    BY <1>1, <1>4, <1>7, <2>2, <2>3, <2>4, <2>5, Assembling
<1>9. CASE native[j] = c.id
  <2>1. row[j] = c.row /\ row[j] # None /\ index[j] = c.key
    BY <1>2, <1>6, <1>9, KeyFacts DEF Working
  <2>2. Idle({j}, tasks, D)
    <3>1. \A t \in tasks : t.job # j
      BY <1>6, <1>9, KeyFacts DEF Working
    <3>2. ASSUME NEW d \in D, d.end = "running" PROVE d.job # j
      <4>1. d \in Heard /\ native[d.job] = d.id
        BY <1>2, <1>6, <3>2 DEF Working
      <4>2. d.job = j => d = c
        BY <1>2, <1>6, <1>9, <4>1 DEF Working
      <4>3. QED
        BY <1>2, <3>2, <4>2
    <3>3. QED
      BY <3>1, <3>2 DEF Idle
  <2> HIDE DEF D
  <2>3. /\ Typed' /\ Pool' /\ Live' \subseteq Live
        /\ InputOutput(tasks', D, staging, arrived, row', native', index')
        /\ Complete(outcome', arrived)
    <3>1. CASE c.end = "ok" /\ j \in Storing /\ ~cancelled[j]
      <4>1. SubmitDisk(j, tasks)
        BY <1>9, <3>1 DEF Result
      <4>2. staging[row[j]] = Bytes(j, index[j])
        BY <1>2, <1>6, <1>9, <2>1, <3>1 DEF Filled
      <4>3. QED
        BY <1>1, <1>5, <1>6, <1>7, <2>1, <2>2, <4>1, <4>2, DiskSubmitted
    <3>2. CASE ~(c.end = "ok" /\ j \in Storing /\ ~cancelled[j])
      <4> DEFINE ok == c.end = "ok"
                 good == ok /\ ~cancelled[j]
      <4>1. RowDone(j, ok) /\ tasks' = tasks
        BY <1>9, <3>2 DEF Result
      <4>2. ok \in BOOLEAN /\ good \in BOOLEAN
        BY <1>1, <1>6 DEF Typed
      <4>3. good => \A i \in {j} : arrived[i][index[i]] # Absent
        BY <1>2, <1>6, <1>9, <2>1, <3>2 DEF Filled
      <4> HIDE DEF ok
      <4>4. Typed' /\ Pool' /\ Leave({j}, good) /\ Live' \subseteq Live
        BY <1>1, <1>5, <1>6, <2>1, <4>1, <4>2, RowDoneLeaves
      <4> HIDE DEF good
      <4>5. {j} \in SUBSET Jobs /\ \A i \in Jobs \ {j} : native[i] = native[i]
        BY <1>6
      <4>6. InputOutput(tasks, D, staging, arrived, row', native', index') /\ Complete(outcome', arrived)
        BY <1>1, <1>7, <2>2, <4>2, <4>3, <4>4, <4>5, Leaving
      <4>7. QED
        BY <4>1, <4>4, <4>6
    <3>3. QED
      BY <3>1, <3>2
  <2>4. Thread'
    BY <1>1, <1>2, <1>4, <1>5, <2>3, Returning DEF Thread
  <2>5. QED
    BY <1>1, <1>4, <1>5, <2>3, <2>4, Assembling DEF D
<1>10. QED
  BY <1>8, <1>9

LEMMA VisitStep ==
  ASSUME PumpInv, NEW j \in Jobs, Visit(j)
  PROVE  PumpInv'
<1> DEFINE t == CHOOSE t \in TaskOf(j) : TRUE
           T == tasks \ {t}
<1>1. /\ Typed /\ Pool /\ Thread /\ IsFiniteSet(copies) /\ Complete(outcome, arrived)
      /\ RowsOwned(state, row, native) /\ \A i \in Jobs : index[i] \in Keys(i)
      /\ InputOutput(tasks, Heard, staging, arrived, row, native, index)
  BY DEF PumpInv, Pool, Typed
<1>2. Results = {} /\ Results' = {} /\ pc = "futures" /\ pc' = pc /\ Heard = copies
  BY DEF Visit, At, Results, Heard
<1>3. /\ Working(tasks, copies, row, native, index) /\ Filled(tasks, copies, staging, arrived, native)
  BY <1>1, <1>2 DEF InputOutput
<1>4. t \in tasks /\ t.job = j /\ t.end # "running" /\ \A u \in tasks : u.job = j => u = t
  <2>1. PICK u \in TaskOf(j) : u \in Ended(tasks)
    BY DEF Visit, Done
  <2>2. u \in tasks /\ u.job = j /\ u.end # "running" /\ \A v \in tasks : v.job = j => v = u
    BY <1>3, <2>1 DEF TaskOf, Ended, Running, Working
  <2>3. t \in TaskOf(j)
    BY <2>1
  <2>4. QED
    BY <2>2, <2>3 DEF TaskOf
<1>5. /\ CopyTo(t) /\ ~cancelled[j] =>
           SubmitNative(j) /\ tasks' = T
      /\ ~(CopyTo(t) /\ ~cancelled[j]) =>
           /\ UNCHANGED <<copies, staging, arrived, halted>>
           /\ \/ SubmitDisk(j, T) /\ j \notin Storing
              \/ RowDone(j, t.end = "ok") /\ tasks' = T
      /\ UNCHANGED <<cancelled, closed, provider, pc, call, waiting, plan>>
  BY DEF Visit
<1>6. t.row \in Rows /\ row[j] = t.row /\ row[j] # None /\ index[j] = t.key /\ native[j] = None
  BY <1>3, <1>4, KeyFacts DEF Working, TaskSet
<1>7. InputOutput(T, copies, staging, arrived, row, native, index) /\ \A u \in T : u.job # j
  <2>1. T \subseteq tasks /\ copies \subseteq copies /\ \A u \in T : u.job # j
    BY <1>4
  <2> HIDE DEF T
  <2>2. QED
    BY <1>1, <1>2, <2>1, Fewer
<1>8. Idle({j}, T, copies)
  BY <1>3, <1>6, <1>7, KeyFacts DEF Idle, Working, CopySet
<1>9. j \notin Storing /\ t.end = "ok" => staging[row[j]] = Bytes(j, index[j])
  BY <1>3, <1>4, <1>6 DEF Filled
<1>10. j \in Storing /\ t.end = "ok" => arrived[j][index[j]] # Absent
  BY <1>3, <1>4, <1>6 DEF Filled
<1> HIDE DEF T, t
<1>11. CASE CopyTo(t) /\ ~cancelled[j]
  <2>1. SubmitNative(j) /\ tasks' = T /\ Frame
    <3>1. halted' \in BOOLEAN
      BY <1>1, <1>5, <1>11 DEF SubmitNative, DrainFails, Typed
    <3>2. QED
      BY <1>2, <1>5, <1>11, <3>1 DEF Frame, Places
  <2>2. j \notin Storing => staging[row[j]] = Bytes(j, index[j])
    BY <1>9, <1>11 DEF CopyTo
  <2>3. /\ Typed' /\ Pool' /\ Live' \subseteq Live /\ IsFiniteSet(copies')
        /\ InputOutput(T, copies', staging', arrived', row', native', index')
        /\ Complete(outcome', arrived')
    BY <1>1, <1>6, <1>7, <2>1, <2>2, NativeSubmitted
  <2>4. Thread'
    BY <1>1, <1>2, <2>1, <2>3, Returning
  <2>5. QED
    BY <1>2, <2>1, <2>3, <2>4, Assembling
<1>12. CASE ~(CopyTo(t) /\ ~cancelled[j])
  <2>1. copies' = copies /\ staging' = staging /\ arrived' = arrived /\ Frame
    BY <1>1, <1>2, <1>5, <1>12 DEF Frame, Typed, Places
  <2>2. /\ Typed' /\ Pool' /\ Live' \subseteq Live
        /\ InputOutput(tasks', copies, staging, arrived, row', native', index')
        /\ Complete(outcome', arrived)
    <3>1. CASE SubmitDisk(j, T) /\ j \notin Storing
      BY <1>1, <1>6, <1>7, <1>8, <2>1, <3>1, DiskSubmitted
    <3>2. CASE RowDone(j, t.end = "ok") /\ tasks' = T
      <4> DEFINE ok == t.end = "ok"
                 good == ok /\ ~cancelled[j]
      <4>1. RowDone(j, ok) /\ ok \in BOOLEAN /\ good \in BOOLEAN
        BY <1>1, <3>2 DEF Typed
      <4>2. good => \A i \in {j} : arrived[i][index[i]] # Absent
        BY <1>4, <1>10, <1>12 DEF CopyTo
      <4> HIDE DEF ok
      <4>3. Typed' /\ Pool' /\ Leave({j}, good) /\ Live' \subseteq Live
        BY <1>1, <1>6, <2>1, <4>1, RowDoneLeaves
      <4> HIDE DEF good
      <4>4. {j} \in SUBSET Jobs /\ \A i \in Jobs \ {j} : native[i] = native[i]
        OBVIOUS
      <4>5. InputOutput(T, copies, staging, arrived, row', native', index') /\ Complete(outcome', arrived)
        BY <1>1, <1>7, <1>8, <4>1, <4>2, <4>3, <4>4, Leaving
      <4>6. QED
        BY <3>2, <4>3, <4>5
    <3>3. QED
      BY <1>5, <1>12, <3>1, <3>2
  <2>3. Thread'
    BY <1>1, <1>2, <2>1, <2>2, Returning
  <2>4. QED
    BY <1>1, <1>2, <2>1, <2>2, <2>3, Assembling
<1>13. QED
  BY <1>11, <1>12

LEMMA LaunchStep ==
  ASSUME PumpInv, NEW j \in Jobs, Launch(j)
  PROVE  PumpInv'
<1>1. /\ Typed /\ Pool /\ Thread /\ IsFiniteSet(copies) /\ Complete(outcome, arrived)
      /\ RowsOwned(state, row, native) /\ \A i \in Jobs : index[i] \in Keys(i)
      /\ InputOutput(tasks, Heard, staging, arrived, row, native, index)
  BY DEF PumpInv, Pool, Typed
<1>2. /\ Results = {} /\ Results' = {} /\ pc = "launch" /\ pc' = "schedule" /\ Heard = copies
      /\ todo = {j} /\ UNCHANGED <<cancelled, closed, provider, call, waiting, plan>>
  BY DEF Launch, At, Go, Results, Heard
<1>3. row[j] # None /\ native[j] = None /\ \A t \in tasks : t.job # j
  BY <1>1, <1>2 DEF Thread, Placed
<1>4. InputOutput(tasks, copies, staging, arrived, row, native, index)
  BY <1>1, <1>2
<1>5. CASE j \in Storing
  <2>1. SubmitNative(j) /\ tasks' = tasks
    BY <1>5 DEF Launch
  <2>2. Frame
    <3>1. halted' \in BOOLEAN
      BY <1>1, <2>1 DEF SubmitNative, DrainFails, Typed
    <3>2. QED
      BY <1>2, <3>1 DEF Frame, Places
  <2>3. /\ Typed' /\ Pool' /\ Live' \subseteq Live /\ IsFiniteSet(copies')
        /\ InputOutput(tasks, copies', staging', arrived', row', native', index')
        /\ Complete(outcome', arrived')
    BY <1>1, <1>3, <1>4, <1>5, <2>1, <2>2, NativeSubmitted
  <2>4. Thread'
    BY <1>1, <1>2, <2>2, <2>3, Returning
  <2>5. QED
    BY <1>2, <2>1, <2>3, <2>4, Assembling
<1>6. CASE j \notin Storing
  <2>1. SubmitDisk(j, tasks) /\ copies' = copies /\ staging' = staging /\ arrived' = arrived /\ halted' = halted
    BY <1>6 DEF Launch
  <2>2. Frame
    BY <1>1, <1>2, <2>1 DEF Frame, Typed, Places
  <2>3. Idle({j}, tasks, copies)
    BY <1>3, <1>4, KeyFacts DEF Idle, InputOutput, Working, CopySet
  <2>4. /\ Typed' /\ Pool' /\ Live' \subseteq Live
        /\ InputOutput(tasks', copies, staging, arrived, row', native', index')
        /\ Complete(outcome', arrived)
    BY <1>1, <1>3, <1>4, <1>6, <2>1, <2>2, <2>3, DiskSubmitted
  <2>5. Thread'
    BY <1>1, <1>2, <2>2, <2>4, Returning
  <2>6. QED
    BY <1>1, <1>2, <2>1, <2>4, <2>5, Assembling
<1>7. QED
  BY <1>5, <1>6

-----------------------------------------------------------------------------
LEMMA PumpStart == Init => PumpInv
<1> SUFFICES ASSUME Init PROVE PumpInv
  OBVIOUS
<1>1. \A j \in Jobs : 1 \in Keys(j) /\ \A k \in Keys(j) : k \in Nat \ {0}
  <2>1. \A n \in Nat \ {0} : 1 \in 1..n /\ \A k \in 1..n : k \in Nat \ {0}
    OBVIOUS
  <2>2. QED
    BY <2>1, KeyFacts
<1> USE DEF Init
<1>2. Typed
  <2>1. index \in [Jobs -> Nat] /\ \A j \in Jobs : index[j] \in Keys(j)
    BY <1>1
  <2>2. plan \in Plans /\ free \in [Rows -> Nat] /\ ready \in Seq(Jobs)
    OBVIOUS
  <2>3. QED
    BY <2>1, <2>2 DEF Typed, States, Places
<1>3. Pool
  <2>1. \A j \in Jobs : row[j] = None /\ native[j] = None
    OBVIOUS
  <2>2. RowsFree(free, row)
    BY <2>1, KeyFacts DEF RowsFree
  <2>3. RowsOwned(state, row, native)
    BY <2>1 DEF RowsOwned
  <2>4. QED
    BY <2>2, <2>3 DEF Pool, Queued
<1>4. Results = {} /\ Heard = {}
  BY DEF Results, Heard
<1>5. Arrived(arrived, index) /\ Complete(outcome, arrived)
  <2>1. Array(arrived)
    BY DEF Array
  <2>2. \A j \in Jobs : \A k \in Keys(j) : arrived[j][k] = Absent /\ ~(k < index[j])
    BY <1>1
  <2>3. QED
    BY <2>1, <2>2 DEF Arrived, Complete
<1>6. InputOutput(tasks, Heard, staging, arrived, row, native, index)
  BY <1>4, <1>5 DEF InputOutput, Working, Filled
<1>7. Thread
  BY <1>4 DEF Thread, Live
<1>8. QED
  BY <1>2, <1>3, <1>5, <1>6, <1>7, FS_EmptySet DEF PumpInv

LEMMA PumpStep == PumpInv /\ [Next]_vars => PumpInv'
<1> SUFFICES ASSUME PumpInv, [Next]_vars PROVE PumpInv'
  OBVIOUS
<1>1. CASE UNCHANGED vars
  <2>1. /\ UNCHANGED <<state, index, row, outcome, native, ioVars, free, ready, plan, halted>>
        /\ UNCHANGED <<cancelled, closed, provider, pc, todo, call, waiting>>
    BY <1>1 DEF vars, jobVars, poolVars, control
  <2>2. Results' = Results /\ Live' = Live /\ Heard' = Heard
    BY <2>1 DEF Results, Live, Heard, ioVars
  <2>3. Typed' /\ Pool' /\ Thread'
    BY <2>1, <2>2 DEF PumpInv, Typed, Pool, RowsOwned, RowsFree, Queued, Thread, Placed, ioVars
  <2>4. QED
    BY <2>1, <2>2, <2>3 DEF PumpInv, ioVars
<1>2. CASE Caller
  <2>1. CASE \E c \in todo : pc \in {"doStore", "doLoad"} /\ Result(c)
    BY <2>1, ResultStep
  <2>2. CASE \E j \in Jobs : Visit(j) \/ Launch(j)
    BY <2>2, VisitStep, LaunchStep
  <2>3. CASE \E r \in Rows : TakeRow(r)
    BY <2>3, TakeStep
  <2>4. QED
    BY <1>2, <2>1, <2>2, <2>3, ControlSteps, CollectStep, FailSteps, DropStep, PollOverStep DEF Caller
<1>3. CASE Calls
  BY <1>3, SubmitStep, ControlSteps DEF Calls
<1>4. CASE Devices
  BY <1>4, CopySteps, DiskSteps DEF Devices
<1>5. QED
  BY <1>1, <1>2, <1>3, <1>4 DEF Next

(* Every reachable state of the pump satisfies the inductive invariant.    *)
THEOREM PumpSafe == Spec => []PumpInv
<1>1. QED
  BY PumpStart, PumpStep, PTL DEF Spec

(* A staging row is free once or belongs to one job; what a disk thread or *)
(* a copy still touches is the row of its own live job; nothing touches a  *)
(* row after close_provider: _finish(), _row_done() and the failure paths  *)
(* of handlers.py never lose, leak or share a row.                         *)
THEOREM RowsArePrivate == Spec => []RowsPrivate
<1>1. PumpInv => RowsPrivate
  <2> SUFFICES ASSUME PumpInv PROVE RowsPrivate
    OBVIOUS
  <2>1. /\ Typed /\ RowsOwned(state, row, native) /\ RowsFree(free, row)
        /\ Working(tasks, Heard, row, native, index) /\ Thread
        /\ tasks \subseteq TaskSet /\ Heard \subseteq CopySet
    BY DEF PumpInv, Pool, InputOutput, Working
  <2>2. ASSUME NEW r \in Rows
        PROVE  free[r] + Cardinality({j \in Jobs : row[j] = r}) = IF r \in plan.rows THEN 1 ELSE 0
    <3>1. Cardinality({j \in Jobs : row[j] = r}) = Owns(Jobs, r)
      BY DEF Owns
    <3>2. Owns(Jobs, r) = IF \E j \in Jobs : row[j] = r THEN 1 ELSE 0
      BY <2>1, OwnsFacts
    <3>3. (\E j \in Jobs : row[j] = r) => r \in plan.rows
      BY <2>1, KeyFacts DEF RowsOwned
    <3>4. free[r] = IF r \in plan.rows /\ \A j \in Jobs : row[j] # r THEN 1 ELSE 0
      BY <2>1 DEF RowsFree
    <3>5. QED
      BY <3>1, <3>2, <3>3, <3>4
  <2>3. ASSUME NEW x \in Touching PROVE x.job \in Jobs /\ row[x.job] = x.row /\ state[x.job] = "live"
    <3>1. x.job \in Jobs /\ x.row \in Rows /\ row[x.job] = x.row
      BY <2>1 DEF Touching, Running, Heard, Working, TaskSet, CopySet
    <3>2. QED
      BY <2>1, <3>1, KeyFacts DEF RowsOwned
  <2>4. provider = "closed" => Touching = {} /\ Live = {}
    BY <2>1, <2>3 DEF Thread, Live
  <2>5. QED
    BY <2>2, <2>3, <2>4 DEF RowsPrivate
<1>2. QED
  BY <1>1, PumpSafe, PTL

(* What arrives in the place of a key, on the disk or in its GPU block, is *)
(* that key's bytes, and a job that reports success has moved every key,   *)
(* whatever failed, was cancelled, read again or drained on the way.       *)
THEOREM BytesStayTheirs == Spec => []OnlyOwnBytes
<1>1. PumpInv => OnlyOwnBytes
  BY DEF PumpInv, InputOutput, Arrived, Complete, OnlyOwnBytes, Bytes
<1>2. QED
  BY <1>1, PumpSafe, PTL

-----------------------------------------------------------------------------
(* Credits, turns and the budget of pending keys.  InLine and Before say   *)
(* where a job queues, and Chance(k, j) how many bytes k may still start   *)
(* before j does: all its credit if it queues before j; what the key in    *)
(* its row leaves of it, for then k may come back to the front; otherwise  *)
(* nothing.                                                                *)

InLine(q, j) == \E i \in 1..Len(q) : q[i] = j
Before(q, k, j) == \E a, b \in 1..Len(q) : a < b /\ q[a] = k /\ q[b] = j
Due(j) == Size[j][index[j]]
Chance(k, j) ==
  IF Before(ready, k, j) THEN credit[k] ELSE IF row[k] # None THEN credit[k] - Due(k) ELSE 0

Accounts ==
  /\ credit \in [Jobs -> 0..(2 * Quantum - 1)]
  /\ \A j \in Live : Due(j) <= credit[j]
  /\ pending = Total(Live) /\ pending <= MaxPending
Turns ==
  /\ passed \in [Jobs -> [Jobs -> Nat]]
  /\ \A j, k \in Jobs : passed[j][k] # 0 => InLine(ready, j) /\ j # k
  /\ \A j, k \in Jobs : InLine(ready, j) /\ j # k => passed[j][k] + Chance(k, j) < 2 * Quantum

LEMMA SizeFacts ==
  /\ Quantum \in Nat \ {0}
  /\ \A j \in Jobs : \A k \in Keys(j) : Size[j][k] \in Nat \ {0} /\ Size[j][k] <= Quantum
<1>1. \A j \in Jobs : Size[j] \in Seq(1..Quantum)
  BY SizeAssumption
<1>2. \A j \in Jobs : \A k \in Keys(j) : Size[j][k] \in 1..Quantum
  BY <1>1, KeyFacts, ElementOfSeq
<1>3. QED
  BY <1>2, QuantumAssumption

(* The keys of several jobs.                                               *)
LEMMA TotalFacts ==
  /\ \A S \in SUBSET Jobs : Total(S) \in Nat
  /\ \A S, R \in SUBSET Jobs : S \cap R = {} => Total(S \cup R) = Total(S) + Total(R)
  /\ \A j \in Jobs : Total({j}) = Len(Size[j])
<1> DEFINE Of(S) == UNION {{j} \X Keys(j) : j \in S}
<1>1. \A j \in Jobs : IsFiniteSet({j} \X Keys(j)) /\ Cardinality({j} \X Keys(j)) = Len(Size[j])
  <2>1. TAKE j \in Jobs
  <2>2. Len(Size[j]) \in Nat /\ Keys(j) = 1..Len(Size[j])
    BY KeyFacts
  <2>3. IsFiniteSet(Keys(j)) /\ Cardinality(Keys(j)) = Len(Size[j])
    BY <2>2, FS_Interval
  <2>4. IsFiniteSet({j}) /\ Cardinality({j}) = 1
    BY FS_Singleton
  <2>5. IsFiniteSet({j} \X Keys(j)) /\ Cardinality({j} \X Keys(j)) = 1 * Cardinality(Keys(j))
    BY <2>3, <2>4, FS_Product
  <2>6. QED
    BY <2>2, <2>3, <2>5
<1>2. ASSUME NEW S \in SUBSET Jobs PROVE IsFiniteSet(Of(S))
  <2> DEFINE parts == {{j} \X Keys(j) : j \in S}
             f == [j \in S |-> {j} \X Keys(j)]
  <2>1. IsFiniteSet(S)
    BY JobAssumption, FS_Subset
  <2>2. f \in Surjection(S, parts)
    BY DEF Surjection
  <2>3. IsFiniteSet(parts)
    BY <2>1, <2>2, FS_Surjection
  <2>4. \A X \in parts : IsFiniteSet(X)
    BY <1>1
  <2> HIDE DEF parts
  <2>5. IsFiniteSet(UNION parts)
    BY <2>3, <2>4, FS_UNION
  <2>6. QED
    BY <2>5 DEF parts
<1>3. \A S : Total(S) = Cardinality(Of(S))
  BY DEF Total
<1>4. ASSUME NEW S \in SUBSET Jobs PROVE Total(S) \in Nat
  BY <1>2, <1>3, FS_CardinalityType
<1>5. ASSUME NEW S \in SUBSET Jobs, NEW R \in SUBSET Jobs, S \cap R = {}
      PROVE  Total(S \cup R) = Total(S) + Total(R)
  <2>1. Of(S \cup R) = Of(S) \cup Of(R) /\ Of(S) \cap Of(R) = {}
    BY <1>5
  <2>2. IsFiniteSet(Of(S)) /\ IsFiniteSet(Of(R))
    BY <1>2
  <2>3. S \cup R \in SUBSET Jobs
    OBVIOUS
  <2> HIDE DEF Of
  <2>4. Cardinality(Of(S) \cup Of(R)) = Cardinality(Of(S)) + Cardinality(Of(R)) - Cardinality({})
    BY <2>1, <2>2, FS_Union
  <2>5. Cardinality({}) = 0 /\ Cardinality(Of(S)) \in Nat /\ Cardinality(Of(R)) \in Nat
    BY <2>2, FS_EmptySet, FS_CardinalityType
  <2>6. /\ Total(S) = Cardinality(Of(S)) /\ Total(R) = Cardinality(Of(R))
        /\ Total(S \cup R) = Cardinality(Of(S) \cup Of(R))
    BY <1>3, <2>1
  <2>7. QED
    BY <2>4, <2>5, <2>6
<1>6. ASSUME NEW j \in Jobs PROVE Total({j}) = Len(Size[j])
  <2>1. Of({j}) = {j} \X Keys(j)
    OBVIOUS
  <2>2. QED
    BY <1>1, <1>3, <2>1
<1>7. QED
  BY <1>4, <1>5, <1>6

(* A job that comes to the front of a line, and one that joins its end.    *)
LEMMA FrontLine ==
  ASSUME NEW q \in Seq(Jobs), NEW p \in Seq(Jobs), NEW j, Len(p) = Len(q) + 1, p[1] = j,
         \A i \in 1..Len(q) : p[i + 1] = q[i], ~InLine(q, j)
  PROVE  /\ \A i : InLine(p, i) <=> i = j \/ InLine(q, i)
         /\ \A i, k : i # j /\ k # j => (Before(p, k, i) <=> Before(q, k, i))
         /\ \A i : InLine(q, i) => Before(p, j, i)
         /\ \A k : ~Before(p, k, j) /\ ~Before(q, k, j) /\ ~Before(q, j, k)
<1>1. Len(q) \in Nat /\ Len(p) \in Nat /\ 1 \in 1..Len(p)
  OBVIOUS
<1>2. \A i \in 1..Len(q) : i + 1 \in 1..Len(p) /\ i + 1 > 1
  BY <1>1
<1>3. \A i \in 1..Len(p) : i = 1 \/ (i - 1 \in 1..Len(q) /\ p[i] = q[i - 1])
  <2>1. TAKE i \in 1..Len(p)
  <2>2. CASE i # 1
    <3>1. i - 1 \in 1..Len(q) /\ (i - 1) + 1 = i
      BY <1>1, <2>2
    <3>2. QED
      BY <3>1
  <2>3. QED
    BY <2>2
<1>4. \A i : InLine(p, i) <=> i = j \/ InLine(q, i)
  <2>1. ASSUME NEW i, InLine(p, i) PROVE i = j \/ InLine(q, i)
    BY <1>3, <2>1 DEF InLine
  <2>2. ASSUME NEW i, InLine(q, i) PROVE InLine(p, i)
    BY <1>2, <2>2 DEF InLine
  <2>3. InLine(p, j)
    BY <1>1 DEF InLine
  <2>4. QED
    BY <2>1, <2>2, <2>3
<1>5. ASSUME NEW i, NEW k, Before(q, k, i) PROVE Before(p, k, i)
  <2>1. PICK a \in 1..Len(q), b \in 1..Len(q) : a < b /\ q[a] = k /\ q[b] = i
    BY <1>5 DEF Before
  <2>2. a + 1 \in 1..Len(p) /\ b + 1 \in 1..Len(p) /\ a + 1 < b + 1 /\ p[a + 1] = k /\ p[b + 1] = i
    BY <1>1, <1>2, <2>1
  <2>3. QED
    BY <2>2 DEF Before
<1>6. ASSUME NEW i, NEW k, i # j, k # j, Before(p, k, i) PROVE Before(q, k, i)
  <2>1. PICK a \in 1..Len(p), b \in 1..Len(p) : a < b /\ p[a] = k /\ p[b] = i
    BY <1>6 DEF Before
  <2>2. /\ a - 1 \in 1..Len(q) /\ q[a - 1] = k
        /\ b - 1 \in 1..Len(q) /\ q[b - 1] = i
    BY <1>3, <1>6, <2>1
  <2>3. a - 1 < b - 1
    BY <2>1
  <2>4. QED
    BY <2>2, <2>3 DEF Before
<1>7. ASSUME NEW i, InLine(q, i) PROVE Before(p, j, i)
  BY <1>1, <1>2, <1>7 DEF Before, InLine
<1>8. ASSUME NEW k PROVE ~Before(p, k, j) /\ ~Before(q, k, j) /\ ~Before(q, j, k)
  <2>1. \A i \in 1..Len(q) : q[i] # j
    BY DEF InLine
  <2>2. \A b \in 1..Len(p) : p[b] = j => b = 1
    BY <1>3, <2>1
  <2>3. QED
    BY <1>1, <2>1, <2>2 DEF Before
<1>9. QED
  BY <1>4, <1>5, <1>6, <1>7, <1>8

LEMMA BackLine ==
  ASSUME NEW q \in Seq(Jobs), NEW j \in Jobs, ~InLine(q, j), NEW p, p = Append(q, j)
  PROVE  /\ \A i : InLine(p, i) <=> i = j \/ InLine(q, i)
         /\ \A i, k : i # j /\ k # j => (Before(p, k, i) <=> Before(q, k, i))
         /\ \A k : ~Before(p, j, k) /\ ~Before(q, k, j) /\ ~Before(q, j, k)
         /\ \A k : Before(p, k, j) => InLine(q, k)
<1>1. /\ Len(q) \in Nat /\ Len(p) = Len(q) + 1 /\ p[Len(q) + 1] = j
      /\ \A i \in 1..Len(q) : p[i] = q[i]
  BY AppendProperties
<1>2. Len(q) + 1 \in 1..Len(p) /\ \A i \in 1..Len(q) : i \in 1..Len(p)
  BY <1>1
<1>3. \A i \in 1..Len(p) : i = Len(q) + 1 \/ i \in 1..Len(q)
  BY <1>1
<1>4. \A i \in 1..Len(q) : q[i] # j
  BY DEF InLine
<1>5. \A i : InLine(p, i) <=> i = j \/ InLine(q, i)
  BY <1>1, <1>2, <1>3 DEF InLine
<1>6. \A i, k : Before(q, k, i) => Before(p, k, i)
  BY <1>1, <1>2 DEF Before
<1>7. ASSUME NEW i, NEW k, i # j, k # j, Before(p, k, i) PROVE Before(q, k, i)
  <2>1. PICK a \in 1..Len(p), b \in 1..Len(p) : a < b /\ p[a] = k /\ p[b] = i
    BY <1>7 DEF Before
  <2>2. a \in 1..Len(q) /\ b \in 1..Len(q)
    BY <1>1, <1>3, <1>7, <2>1
  <2>3. QED
    BY <1>1, <2>1, <2>2 DEF Before
<1>8. ASSUME NEW k PROVE ~Before(p, j, k) /\ ~Before(q, k, j) /\ ~Before(q, j, k)
  <2>1. \A a \in 1..Len(p) : p[a] = j => a = Len(q) + 1
    BY <1>1, <1>3, <1>4
  <2>2. QED
    BY <1>1, <1>4, <2>1 DEF Before
<1>9. ASSUME NEW k, Before(p, k, j) PROVE InLine(q, k)
  <2>1. PICK a \in 1..Len(p), b \in 1..Len(p) : a < b /\ p[a] = k /\ p[b] = j
    BY <1>9 DEF Before
  <2>2. a \in 1..Len(q)
    BY <1>1, <1>3, <2>1
  <2>3. QED
    BY <1>1, <2>1, <2>2 DEF InLine
<1>10. QED
  BY <1>5, <1>6, <1>7, <1>8, <1>9

(* What a step may do to queue, rows and credits.                          *)
Quiet == UNCHANGED <<credit, index, row, ready, passed, pending>> /\ Live' = Live
Ending(S, ok) == Finish(S, ok) /\ UNCHANGED passed /\ \A j \in S : row[j] # None
Requeue(j) ==
  /\ index[j] # Len(Size[j]) /\ row[j] # None
  /\ index' = [index EXCEPT ![j] = @ + 1]
  /\ row' = [row EXCEPT ![j] = None]
  /\ IF Left(j) >= Size[j][index[j] + 1]
     THEN ready' = <<j>> \o ready /\ credit' = [credit EXCEPT ![j] = Left(j)]
     ELSE ready' = Append(ready, j) /\ credit' = [credit EXCEPT ![j] = Left(j) + Quantum]
  /\ UNCHANGED <<passed, pending>> /\ Live' = Live
Effect ==
  \/ Quiet \/ DropCancelled
  \/ \E S \in SUBSET Jobs, ok \in BOOLEAN : Ending(S, ok)
  \/ \E j \in Jobs : Requeue(j) \/ Submit(j)
  \/ \E r \in Rows : TakeRow(r)

LEMMA RowEffect ==
  ASSUME NEW j \in Jobs, NEW ok \in BOOLEAN, RowDone(j, ok), row[j] # None, UNCHANGED passed
  PROVE  Effect
<1>1. CASE ~ok \/ cancelled[j] \/ index[j] = Len(Size[j])
  BY <1>1 DEF RowDone, Effect, Ending
<1>2. CASE ~(~ok \/ cancelled[j] \/ index[j] = Len(Size[j]))
  BY <1>2 DEF RowDone, Effect, Requeue, Live
<1>3. QED
  BY <1>1, <1>2

LEMMA Effects == ASSUME PumpInv, [Next]_vars PROVE Effect
<1> USE DEF jobVars, poolVars, ioVars, control
<1>1. /\ Typed /\ RowsOwned(state, row, native) /\ Thread
      /\ Working(tasks, Heard, row, native, index)
      /\ \A t \in tasks : t.job \in Jobs /\ row[t.job] # None
      /\ \A c \in Heard : c.job \in Jobs /\ (native[c.job] = c.id => row[c.job] # None)
  <2>1. Working(tasks, Heard, row, native, index)
    BY DEF PumpInv, InputOutput
  <2>2. /\ \A t \in tasks : t.job \in Jobs /\ t.row \in Rows
        /\ \A c \in Heard : c.job \in Jobs /\ c.row \in Rows
    BY <2>1 DEF Working, TaskSet, CopySet
  <2>3. QED
    BY <2>1, <2>2, KeyFacts DEF PumpInv, Pool, Working
<1>2. Steady /\ UNCHANGED passed => Quiet
  BY DEF Steady, Quiet, Live
<1>3. CASE UNCHANGED vars
  BY <1>3 DEF vars, Effect, Quiet, Live
<1>4. CASE GetFinished \/ WaitLoop \/ VisitsOver \/ AwaitFuture \/ AwaitCopies \/ StopThreads
           \/ CloseProvider \/ Collect \/ Shutdown \/ \E S \in Batches : Wait(S) \/ Cancel(S)
  BY <1>4 DEF GetFinished, WaitLoop, VisitsOver, AwaitFuture, AwaitCopies, StopThreads, CloseProvider,
              Collect, Shutdown, Wait, Cancel, Cancelling, Effect, Quiet, Live
<1>5. CASE PollOver
  BY <1>5 DEF PollOver, Effect, Quiet, Live
<1>6. CASE CollectFails \/ AwaitFails
  <2>1. UNCHANGED passed
    BY <1>6 DEF CollectFails, AwaitFails
  <2>2. CASE Steady
    BY <1>2, <2>1, <2>2 DEF Effect
  <2>3. ASSUME NEW H, H \subseteq Jobs, Finish(Affected(H), FALSE) PROVE Effect
    <3>1. Affected(H) \in SUBSET Jobs /\ \A j \in Affected(H) : row[j] # None
      BY <1>1, <2>3 DEF Affected, RowsOwned
    <3>2. QED
      BY <2>1, <2>3, <3>1 DEF Effect, Ending
  <2>4. Handled(pc) \subseteq Jobs /\ Waiter(pc) \subseteq Jobs
    BY JobAssumption DEF Handled, Waiter
  <2>5. QED
    BY <1>6, <2>2, <2>3, <2>4 DEF CollectFails, AwaitFails
<1>7. ASSUME NEW c \in todo, pc \in {"doStore", "doLoad"}, Result(c) PROVE Effect
  <2> DEFINE ok == c.end = "ok"
  <2>1. c \in Heard /\ UNCHANGED passed
    BY <1>7 DEF Heard, Results, Result
  <2>2. CASE native[c.job] # c.id
    BY <1>2, <1>7, <2>1, <2>2 DEF Result, Effect
  <2>3. CASE native[c.job] = c.id
    <3>1. c.job \in Jobs /\ row[c.job] # None
      BY <1>1, <2>1, <2>3
    <3>2. SubmitDisk(c.job, tasks) \/ RowDone(c.job, ok)
      BY <1>7, <2>3 DEF Result
    <3>3. ok \in BOOLEAN
      OBVIOUS
    <3> HIDE DEF ok
    <3>4. QED
      BY <1>2, <2>1, <3>1, <3>2, <3>3, RowEffect DEF SubmitDisk, Effect
  <2>4. QED
    BY <2>2, <2>3
<1>8. ASSUME NEW j \in Jobs, row[j] # None, UNCHANGED passed, SubmitNative(j) PROVE Effect
  BY <1>2, <1>8, RowEffect DEF SubmitNative, Effect
<1>9. ASSUME NEW j \in Jobs, row[j] # None, UNCHANGED passed, NEW T, SubmitDisk(j, T) PROVE Effect
  BY <1>2, <1>9, RowEffect DEF SubmitDisk, Effect
<1>10. ASSUME NEW j \in Jobs, Visit(j) PROVE Effect
  <2> DEFINE t == CHOOSE t \in TaskOf(j) : TRUE
             ok == t.end = "ok"
  <2>1. row[j] # None /\ UNCHANGED passed
    BY <1>1, <1>10 DEF Visit, Done, TaskOf
  <2>2. SubmitNative(j) \/ SubmitDisk(j, tasks \ {t}) \/ RowDone(j, ok)
    BY <1>10 DEF Visit
  <2>3. ok \in BOOLEAN
    OBVIOUS
  <2> HIDE DEF ok, t
  <2>4. QED
    BY <1>8, <1>9, <2>1, <2>2, <2>3, RowEffect
<1>11. ASSUME NEW j \in Jobs, Launch(j) PROVE Effect
  <2>1. row[j] # None /\ UNCHANGED passed
    BY <1>1, <1>11 DEF Launch, At, Thread, Placed
  <2>2. SubmitNative(j) \/ SubmitDisk(j, tasks)
    BY <1>11 DEF Launch
  <2>3. QED
    BY <1>8, <1>9, <2>1, <2>2
<1>12. CASE Devices
  BY <1>12 DEF Devices, CopyEnds, DiskEnds, Effect, Quiet, Live
<1>13. CASE Caller
  BY <1>4, <1>5, <1>6, <1>7, <1>10, <1>11, <1>13 DEF Caller, Effect
<1>14. CASE Calls
  BY <1>4, <1>14 DEF Calls, Effect
<1>15. QED
  BY <1>3, <1>12, <1>13, <1>14 DEF Next

LEMMA ShareFacts ==
  ASSUME PumpInv, Accounts
  PROVE  /\ Quantum \in Nat \ {0} /\ MaxPending \in Nat /\ pending \in Nat
         /\ \A k \in Jobs : /\ credit[k] \in Nat /\ credit[k] < 2 * Quantum
                            /\ Due(k) \in Nat \ {0} /\ Due(k) <= Quantum
                            /\ k \in Live => Due(k) <= credit[k]
                            /\ row[k] # None => k \in Live /\ ~InLine(ready, k)
                            /\ InLine(ready, k) => k \in Live
         /\ \A k, j : Before(ready, k, j) => InLine(ready, k) /\ InLine(ready, j)
         /\ \A k, j \in Jobs : Chance(k, j) \in Nat /\ Chance(k, j) <= credit[k]
<1>1. Quantum \in Nat \ {0} /\ MaxPending \in Nat
  BY SizeFacts, PendingAssumption
<1>2. Live \subseteq Jobs /\ pending \in Nat
  BY TotalFacts DEF Accounts, Live
<1>3. \A k \in Jobs : /\ Due(k) \in Nat \ {0} /\ Due(k) <= Quantum
                      /\ credit[k] \in Nat /\ credit[k] < 2 * Quantum
                      /\ k \in Live => Due(k) <= credit[k]
  <2>1. \A k \in Jobs : index[k] \in Keys(k)
    BY DEF PumpInv, Typed
  <2>2. \A k \in Jobs : credit[k] \in 0..(2 * Quantum - 1)
    BY DEF Accounts
  <2>3. \A k \in Jobs : credit[k] \in Nat /\ credit[k] < 2 * Quantum
    BY <1>1, <2>2
  <2>4. QED
    BY <2>1, <2>3, SizeFacts DEF Due, Accounts
<1>4. /\ RowsOwned(state, row, native) /\ Queued(ready, state, row)
      /\ ready \in Seq(Jobs) /\ \A i \in 1..Len(ready) : ready[i] \in Jobs
  BY DEF PumpInv, Pool, Typed
<1>5. \A k \in Jobs : /\ row[k] # None => k \in Live /\ ~InLine(ready, k)
                      /\ InLine(ready, k) => k \in Live
  BY <1>4 DEF RowsOwned, Queued, InLine, Live
<1>6. \A k, j : Before(ready, k, j) => InLine(ready, k) /\ InLine(ready, j)
  BY DEF Before, InLine
<1>7. ASSUME NEW k \in Jobs, NEW j \in Jobs PROVE Chance(k, j) \in Nat /\ Chance(k, j) <= credit[k]
  <2>1. CASE Before(ready, k, j)
    BY <1>3, <2>1 DEF Chance
  <2>2. CASE ~Before(ready, k, j) /\ row[k] # None
    <3>1. Chance(k, j) = credit[k] - Due(k) /\ Due(k) <= credit[k]
      BY <1>3, <1>5, <2>2 DEF Chance
    <3>2. QED
      BY <1>3, <3>1
  <2>3. CASE ~Before(ready, k, j) /\ row[k] = None
    BY <1>3, <2>3 DEF Chance
  <2>4. QED
    BY <2>1, <2>2, <2>3
<1>8. QED
  BY <1>1, <1>2, <1>3, <1>5, <1>6, <1>7

LEMMA QuietKeeps ==
  ASSUME Accounts, Turns, Quiet
  PROVE  Accounts' /\ Turns'
<1>1. /\ credit' = credit /\ index' = index /\ row' = row /\ ready' = ready /\ passed' = passed
      /\ pending' = pending /\ Live' = Live
  BY DEF Quiet
<1>2. QED
  BY <1>1 DEF Accounts, Turns, Chance, Due

LEMMA EndingKeeps ==
  ASSUME PumpInv, Accounts, Turns, NEW S \in SUBSET Jobs, NEW ok \in BOOLEAN, Ending(S, ok)
  PROVE  Accounts' /\ Turns'
<1>1. /\ credit' = credit /\ index' = index /\ ready' = ready /\ passed' = passed
      /\ pending' = pending - Total(S)
      /\ row' = [j \in Jobs |-> IF j \in S THEN None ELSE row[j]]
      /\ state' = [j \in Jobs |-> IF j \in S THEN "finished" ELSE state[j]]
      /\ \A j \in S : row[j] # None
  BY DEF Ending, Finish
<1>2. S \subseteq Live /\ Live \subseteq Jobs /\ Live' = Live \ S
  BY <1>1, ShareFacts DEF Live
<1>3. pending' = Total(Live') /\ pending' <= MaxPending
  <2>1. Live = (Live \ S) \cup S /\ Live \ S \in SUBSET Jobs /\ (Live \ S) \cap S = {}
    BY <1>2
  <2>2. Total(Live) = Total(Live \ S) + Total(S) /\ Total(Live \ S) \in Nat /\ Total(S) \in Nat
    BY <2>1, TotalFacts
  <2>3. pending = Total(Live) /\ pending <= MaxPending /\ MaxPending \in Nat
    BY ShareFacts DEF Accounts
  <2>4. pending' = Total(Live \ S) /\ pending' <= MaxPending
    BY <1>1, <2>2, <2>3
  <2>5. QED
    BY <1>2, <2>4
<1>4. Accounts'
  BY <1>1, <1>2, <1>3 DEF Accounts, Due
<1>5. ASSUME NEW k \in Jobs, NEW j \in Jobs PROVE Chance(k, j)' <= Chance(k, j) /\ Chance(k, j)' \in Nat
  <2>1. CASE k \in S
    <3>1. ~Before(ready, k, j) /\ row'[k] = None
      BY <1>1, <2>1, ShareFacts
    <3>2. Chance(k, j)' = 0
      BY <1>1, <3>1 DEF Chance
    <3>3. QED
      BY <3>2, ShareFacts
  <2>2. CASE k \notin S
    <3>1. Chance(k, j)' = Chance(k, j)
      BY <1>1, <2>2 DEF Chance, Due
    <3>2. QED
      BY <3>1, ShareFacts
  <2>3. QED
    BY <2>1, <2>2
<1>6. Turns'
  <2>1. \A j, k \in Jobs : passed[j][k] \in Nat
    BY DEF Turns
  <2>2. ASSUME NEW j \in Jobs, NEW k \in Jobs, InLine(ready, j), j # k
        PROVE  passed[j][k] + Chance(k, j)' < 2 * Quantum
    BY <1>5, <2>1, <2>2, ShareFacts DEF Turns
  <2>3. QED
    BY <1>1, <2>2 DEF Turns
<1>7. QED
  BY <1>4, <1>6

LEMMA RequeueKeeps ==
  ASSUME PumpInv, Accounts, Turns, NEW j \in Jobs, Requeue(j)
  PROVE  Accounts' /\ Turns'
<1> DEFINE left == credit[j] - Due(j)
           next == Size[j][index[j] + 1]
<1>1. /\ index' = [index EXCEPT ![j] = @ + 1] /\ row' = [row EXCEPT ![j] = None]
      /\ passed' = passed /\ pending' = pending /\ Live' = Live
      /\ row[j] # None /\ j \in Live /\ ~InLine(ready, j) /\ index[j] # Len(Size[j])
      /\ ready \in Seq(Jobs)
      /\ credit \in [Jobs -> 0..(2 * Quantum - 1)] /\ index \in [Jobs -> Nat]
      /\ row \in [Jobs -> Rows \cup {None}]
  BY ShareFacts DEF Requeue, Accounts, PumpInv, Typed
<1>2. \/ left >= next /\ ready' = <<j>> \o ready /\ credit' = [credit EXCEPT ![j] = left]
      \/ ~(left >= next) /\ ready' = Append(ready, j) /\ credit' = [credit EXCEPT ![j] = left + Quantum]
  BY DEF Requeue, Left, Due
<1>3. index[j] + 1 \in Keys(j) /\ next \in Nat \ {0} /\ next <= Quantum
  <2>1. index[j] \in 1..Len(Size[j]) /\ Len(Size[j]) \in Nat /\ Keys(j) = 1..Len(Size[j])
    BY KeyFacts DEF PumpInv, Typed
  <2>2. index[j] + 1 \in Keys(j)
    BY <1>1, <2>1
  <2>3. QED
    BY <2>2, SizeFacts
<1>4. /\ left \in Nat /\ left < 2 * Quantum /\ Quantum \in Nat \ {0}
      /\ \A k \in Jobs : credit[k] \in Nat /\ Due(k) \in Nat \ {0} /\ credit[k] < 2 * Quantum
  BY <1>1, ShareFacts
<1>5. /\ Due(j)' = next /\ row'[j] = None
      /\ \A k \in Jobs \ {j} : Due(k)' = Due(k) /\ credit'[k] = credit[k] /\ row'[k] = row[k]
  BY <1>1, <1>2 DEF Due
<1>6. /\ credit' \in [Jobs -> 0..(2 * Quantum - 1)] /\ next <= credit'[j]
      /\ left >= next => credit'[j] = left
  <2> HIDE DEF left, next
  <2>1. CASE left >= next
    <3>1. left \in 0..(2 * Quantum - 1) /\ credit' = [credit EXCEPT ![j] = left]
      BY <1>2, <1>4, <2>1
    <3>2. QED
      BY <1>1, <2>1, <3>1
  <2>2. CASE ~(left >= next)
    <3>1. /\ left + Quantum \in 0..(2 * Quantum - 1) /\ next <= left + Quantum
          /\ credit' = [credit EXCEPT ![j] = left + Quantum]
      BY <1>2, <1>3, <1>4, <2>2
    <3>2. QED
      BY <1>1, <2>2, <3>1
  <2>3. QED
    BY <2>1, <2>2
<1>7. Accounts'
  BY <1>1, <1>5, <1>6 DEF Accounts, Live
<1>8. \A i \in Jobs : passed[j][i] = 0
  BY <1>1 DEF Turns
<1>9. /\ \A i : InLine(ready', i) <=> i = j \/ InLine(ready, i)
      /\ \A i, k : i # j /\ k # j => (Before(ready', k, i) <=> Before(ready, k, i))
      /\ \A i : ~Before(ready, j, i)
      /\ left >= next => \A i \in Jobs : InLine(ready, i) => Before(ready', j, i)
      /\ ~(left >= next) => \A i : ~Before(ready', j, i)
  <2> HIDE DEF left, next
  <2>1. CASE left >= next
    <3> DEFINE p == ready'
    <3>1. <<j>> \in Seq(Jobs) /\ Len(<<j>>) = 1 /\ <<j>>[1] = j /\ Len(ready) \in Nat
      BY <1>1, LenProperties
    <3>2. p = <<j>> \o ready
      BY <1>2, <2>1
    <3>3. /\ p \in Seq(Jobs) /\ Len(p) = Len(ready) + 1 /\ p[1] = j
          /\ \A i \in 1..Len(p) : i > 1 => p[i] = ready[i - 1]
      BY <1>1, <3>1, <3>2, ConcatProperties
    <3> HIDE DEF p
    <3>4. \A i \in 1..Len(ready) : p[i + 1] = ready[i]
      <4>1. TAKE i \in 1..Len(ready)
      <4>2. i + 1 \in 1..Len(p) /\ i + 1 > 1 /\ (i + 1) - 1 = i
        BY <3>1, <3>3
      <4>3. QED
        BY <3>3, <4>2
    <3>5. /\ \A i : InLine(p, i) <=> i = j \/ InLine(ready, i)
          /\ \A i, k : i # j /\ k # j => (Before(p, k, i) <=> Before(ready, k, i))
          /\ \A i : InLine(ready, i) => Before(p, j, i)
          /\ \A k : ~Before(ready, j, k)
      BY <1>1, <3>3, <3>4, FrontLine
    <3>6. QED
      BY <2>1, <3>5 DEF p
  <2>2. CASE ~(left >= next)
    <3> DEFINE p == ready'
    <3>1. p = Append(ready, j)
      BY <1>2, <2>2
    <3> HIDE DEF p
    <3>2. /\ \A i : InLine(p, i) <=> i = j \/ InLine(ready, i)
          /\ \A i, k : i # j /\ k # j => (Before(p, k, i) <=> Before(ready, k, i))
          /\ \A k : ~Before(p, j, k) /\ ~Before(ready, j, k)
      BY <1>1, <3>1, BackLine
    <3>3. QED
      BY <2>2, <3>2 DEF p
  <2>3. QED
    BY <2>1, <2>2
<1> HIDE DEF left, next
<1>10. ASSUME NEW i \in Jobs, NEW k \in Jobs, InLine(ready', i), i # k
       PROVE  passed[i][k] + Chance(k, i)' < 2 * Quantum
  <2>1. passed[i][k] \in Nat
    BY DEF Turns
  <2>2. CASE i = j
    <3>1. Chance(k, j)' \in Nat /\ Chance(k, j)' < 2 * Quantum
      <4>1. credit'[k] = credit[k] /\ row'[k] = row[k] /\ Due(k)' = Due(k)
        BY <1>5, <1>10, <2>2
      <4>2. row[k] # None => Due(k) <= credit[k]
        BY ShareFacts
      <4>3. QED
        BY <1>4, <4>1, <4>2 DEF Chance
    <3>2. QED
      BY <1>8, <2>2, <3>1
  <2>3. CASE i # j /\ k = j
    <3>1. InLine(ready, i)
      BY <1>9, <1>10, <2>3
    <3>2. Chance(j, i) = left /\ passed[i][j] + left < 2 * Quantum
      BY <1>1, <1>9, <2>3, <3>1 DEF Chance, Turns, left
    <3>3. Chance(j, i)' = left \/ Chance(j, i)' = 0
      BY <1>5, <1>6, <1>9, <2>3, <3>1 DEF Chance
    <3>4. QED
      BY <1>4, <2>1, <2>3, <3>2, <3>3
  <2>4. CASE i # j /\ k # j
    <3>1. InLine(ready, i) /\ Chance(k, i)' = Chance(k, i)
      BY <1>5, <1>9, <1>10, <2>4 DEF Chance
    <3>2. QED
      BY <1>10, <3>1 DEF Turns
  <2>5. QED
    BY <2>2, <2>3, <2>4
<1>11. Turns'
  BY <1>1, <1>9, <1>10 DEF Turns
<1>12. QED
  BY <1>7, <1>11

LEMMA SubmitKeeps ==
  ASSUME PumpInv, Accounts, Turns, NEW j \in Jobs, Submit(j)
  PROVE  Accounts' /\ Turns'
<1>1. /\ state[j] = "new" /\ state' = [state EXCEPT ![j] = "live"] /\ ready' = Append(ready, j)
      /\ credit' = [credit EXCEPT ![j] = Quantum] /\ pending' = pending + Len(Size[j])
      /\ index' = index /\ row' = row /\ passed' = passed
      /\ pending + Cardinality(Finished) + Len(Size[j]) <= MaxPending
  BY DEF Submit
<1>2. /\ ready \in Seq(Jobs) /\ state \in [Jobs -> States]
      /\ credit \in [Jobs -> 0..(2 * Quantum - 1)]
  BY DEF PumpInv, Typed, Accounts
<1>3. j \notin Live /\ ~InLine(ready, j) /\ row[j] = None
  BY <1>1, ShareFacts DEF Live
<1>4. Live' = Live \cup {j} /\ Live \subseteq Jobs
  BY <1>1, <1>2 DEF Live
<1>5. /\ Quantum \in Nat \ {0}
      /\ \A k \in Jobs : /\ credit[k] \in Nat /\ credit[k] < 2 * Quantum
                         /\ Due(k) \in Nat \ {0} /\ Due(k) <= Quantum
  BY ShareFacts
<1>6. /\ credit' \in [Jobs -> 0..(2 * Quantum - 1)] /\ credit'[j] = Quantum
      /\ \A k \in Jobs \ {j} : credit'[k] = credit[k]
  <2>1. Quantum \in 0..(2 * Quantum - 1)
    BY <1>5
  <2>2. QED
    BY <1>1, <1>2, <2>1
<1>7. pending' = Total(Live') /\ pending' <= MaxPending
  <2>1. Total(Live \cup {j}) = Total(Live) + Len(Size[j]) /\ Total(Live) \in Nat
    <3>1. Live \cap {j} = {} /\ {j} \in SUBSET Jobs
      BY <1>3
    <3>2. Total(Live \cup {j}) = Total(Live) + Total({j})
      BY <1>4, <3>1, TotalFacts
    <3>3. QED
      BY <1>4, <3>2, TotalFacts
  <2>2. Cardinality(Finished) \in Nat
    <3>1. IsFiniteSet(Finished)
      BY JobAssumption, FS_Subset DEF Finished
    <3>2. QED
      BY <3>1, FS_CardinalityType
  <2>3. Len(Size[j]) \in Nat /\ MaxPending \in Nat
    BY KeyFacts, ShareFacts
  <2>4. pending = Total(Live)
    BY DEF Accounts
  <2>5. pending' <= MaxPending
    BY <1>1, <2>1, <2>2, <2>3, <2>4
  <2>6. QED
    BY <1>1, <1>4, <2>1, <2>4, <2>5
<1>8. Accounts'
  <2>1. \A k \in Live' : Due(k) <= credit'[k]
    BY <1>4, <1>5, <1>6 DEF Accounts
  <2>2. QED
    BY <1>1, <1>6, <1>7, <2>1 DEF Accounts, Due
<1>9. \A i \in Jobs : passed[j][i] = 0
  BY <1>3 DEF Turns
<1>10. /\ \A i : InLine(ready', i) <=> i = j \/ InLine(ready, i)
       /\ \A i, k : i # j /\ k # j => (Before(ready', k, i) <=> Before(ready, k, i))
       /\ \A k : ~Before(ready', j, k) /\ ~Before(ready, j, k)
  <2> DEFINE p == ready'
  <2>1. p = Append(ready, j)
    BY <1>1
  <2> HIDE DEF p
  <2>2. /\ \A i : InLine(p, i) <=> i = j \/ InLine(ready, i)
        /\ \A i, k : i # j /\ k # j => (Before(p, k, i) <=> Before(ready, k, i))
        /\ \A k : ~Before(p, j, k) /\ ~Before(ready, j, k)
    BY <1>2, <1>3, <2>1, BackLine
  <2>3. QED
    BY <2>2 DEF p
<1>11. ASSUME NEW i \in Jobs, NEW k \in Jobs, InLine(ready', i), i # k
       PROVE  passed[i][k] + Chance(k, i)' < 2 * Quantum
  <2>1. passed[i][k] \in Nat
    BY DEF Turns
  <2>2. CASE i = j
    <3>1. Chance(k, j)' \in Nat /\ Chance(k, j)' < 2 * Quantum
      <4>1. credit'[k] = credit[k] /\ row'[k] = row[k] /\ Due(k)' = Due(k)
        BY <1>1, <1>6, <1>11, <2>2 DEF Due
      <4>2. row[k] # None => Due(k) <= credit[k]
        BY ShareFacts
      <4>3. QED
        BY <1>5, <4>1, <4>2 DEF Chance
    <3>2. QED
      BY <1>9, <2>2, <3>1
  <2>3. CASE i # j /\ k = j
    <3>1. InLine(ready, i) /\ Chance(j, i)' = 0 /\ Chance(j, i) \in Nat
      BY <1>1, <1>3, <1>10, <1>11, <2>3, ShareFacts DEF Chance
    <3>2. passed[i][j] + Chance(j, i) < 2 * Quantum
      BY <1>11, <2>3, <3>1 DEF Turns
    <3>3. QED
      BY <1>5, <2>1, <2>3, <3>1, <3>2
  <2>4. CASE i # j /\ k # j
    <3>1. InLine(ready, i) /\ Chance(k, i)' = Chance(k, i)
      BY <1>1, <1>6, <1>10, <1>11, <2>4 DEF Chance, Due
    <3>2. QED
      BY <1>11, <3>1 DEF Turns
  <2>5. QED
    BY <2>2, <2>3, <2>4
<1>12. Turns'
  BY <1>1, <1>10, <1>11 DEF Turns
<1>13. QED
  BY <1>8, <1>12

(* The head leaves the line of the others as it was.                       *)
LEMMA TailLine ==
  ASSUME PumpInv, ready # <<>>
  PROVE  /\ Head(ready) \in Jobs /\ Head(ready) \in Live /\ row[Head(ready)] = None
         /\ \A i : InLine(Tail(ready), i) <=> i # Head(ready) /\ InLine(ready, i)
         /\ \A i, k : i # Head(ready) /\ k # Head(ready) =>
                        (Before(Tail(ready), k, i) <=> Before(ready, k, i))
         /\ \A i : InLine(Tail(ready), i) => Before(ready, Head(ready), i)
         /\ \A k : ~Before(Tail(ready), Head(ready), k)
         /\ \A i : InLine(Tail(ready), i) <=> i \in Range(Tail(ready))
<1> DEFINE j == Head(ready)
           q == Tail(ready)
<1>1. /\ Typed /\ Queued(ready, state, row)
  BY DEF PumpInv, Pool
<1>2. /\ j \in Jobs /\ state[j] = "live" /\ row[j] = None /\ q \in Seq(Jobs)
      /\ \A i \in 1..Len(q) : q[i] # j
  BY <1>1, Headed
<1>3. /\ ready \in Seq(Jobs) /\ Len(ready) = Len(q) + 1 /\ ready[1] = j
      /\ \A i \in 1..Len(q) : ready[i + 1] = q[i]
  BY <1>1, HeadTailProperties, LenProperties DEF Typed
<1>4. \A i : InLine(q, i) <=> i \in Range(q)
  <2>1. DOMAIN q = 1..Len(q)
    BY <1>2, LenProperties
  <2>2. QED
    BY <2>1 DEF InLine, Range
<1> HIDE DEF j, q
<1>5. ~InLine(q, j)
  BY <1>2 DEF InLine
<1>6. /\ \A i : InLine(ready, i) <=> i = j \/ InLine(q, i)
      /\ \A i, k : i # j /\ k # j => (Before(ready, k, i) <=> Before(q, k, i))
      /\ \A i : InLine(q, i) => Before(ready, j, i)
      /\ \A k : ~Before(q, j, k)
  BY <1>2, <1>3, <1>5, FrontLine
<1>7. QED
  BY <1>2, <1>4, <1>5, <1>6 DEF j, q, Live

LEMMA DropKeeps ==
  ASSUME PumpInv, Accounts, Turns, DropCancelled
  PROVE  Accounts' /\ Turns'
<1>1. PICK j : j = Head(ready)
  OBVIOUS
<1>2. /\ ready # <<>> /\ cancelled[j] /\ ready' = Tail(ready)
      /\ passed' = [k \in Jobs |-> IF k = j THEN [i \in Jobs |-> 0] ELSE passed[k]]
      /\ state' = [state EXCEPT ![j] = "finished"] /\ pending' = pending - Len(Size[j])
      /\ index' = index /\ row' = row /\ credit' = credit
  BY <1>1 DEF DropCancelled, Dequeue
<1>3. /\ j \in Jobs /\ j \in Live /\ row[j] = None
      /\ \A i : InLine(ready', i) <=> i # j /\ InLine(ready, i)
      /\ \A i, k : i # j /\ k # j => (Before(ready', k, i) <=> Before(ready, k, i))
      /\ \A k : ~Before(ready', j, k)
  BY <1>2, <1>1, TailLine
<1>4. Live' = Live \ {j} /\ Live \subseteq Jobs
  BY <1>2, <1>3 DEF Live, PumpInv, Typed
<1>5. pending' = Total(Live') /\ pending' <= MaxPending
  <2>1. Live = (Live \ {j}) \cup {j} /\ Live \ {j} \in SUBSET Jobs /\ {j} \in SUBSET Jobs
        /\ (Live \ {j}) \cap {j} = {}
    BY <1>3, <1>4
  <2>2. /\ Total(Live) = Total(Live \ {j}) + Total({j}) /\ Total(Live \ {j}) \in Nat
        /\ Total({j}) = Len(Size[j]) /\ Total({j}) \in Nat
    BY <1>3, <2>1, TotalFacts
  <2>3. pending = Total(Live) /\ pending <= MaxPending /\ MaxPending \in Nat
    BY ShareFacts DEF Accounts
  <2>4. pending' = Total(Live \ {j}) /\ pending' <= MaxPending
    BY <1>2, <2>2, <2>3
  <2>5. QED
    BY <1>4, <2>4
<1>6. Accounts'
  BY <1>2, <1>4, <1>5 DEF Accounts, Due
<1>7. /\ passed' \in [Jobs -> [Jobs -> Nat]] /\ \A k \in Jobs \ {j} : passed'[k] = passed[k]
      /\ \A i \in Jobs : passed'[j][i] = 0
  BY <1>2, <1>3 DEF Turns
<1>8. \A i, k \in Jobs : passed'[i][k] # 0 => InLine(ready', i) /\ i # k
  BY <1>3, <1>7 DEF Turns
<1>9. ASSUME NEW i \in Jobs, NEW k \in Jobs, InLine(ready', i), i # k
      PROVE  passed'[i][k] + Chance(k, i)' < 2 * Quantum
  <2>1. i # j /\ InLine(ready, i) /\ passed'[i][k] = passed[i][k] /\ passed[i][k] \in Nat
    BY <1>3, <1>7, <1>9 DEF Turns
  <2>2. passed[i][k] + Chance(k, i) < 2 * Quantum
    BY <1>9, <2>1 DEF Turns
  <2>3. CASE k = j
    <3>1. Chance(j, i)' = 0 /\ Chance(j, i) \in Nat
      BY <1>2, <1>3, ShareFacts DEF Chance
    <3>2. QED
      BY <2>1, <2>2, <2>3, <3>1, ShareFacts
  <2>4. CASE k # j
    <3>1. Chance(k, i)' = Chance(k, i)
      BY <1>2, <1>3, <2>1, <2>4 DEF Chance, Due
    <3>2. QED
      BY <2>1, <2>2, <3>1
  <2>5. QED
    BY <2>3, <2>4
<1>10. QED
  BY <1>6, <1>7, <1>8, <1>9 DEF Turns

LEMMA TakeKeeps ==
  ASSUME PumpInv, Accounts, Turns, NEW r \in Rows, TakeRow(r)
  PROVE  Accounts' /\ Turns'
<1>1. PICK j : j = Head(ready)
  OBVIOUS
<1>2. /\ ready # <<>> /\ ~cancelled[j] /\ ready' = Tail(ready)
      /\ passed' = [k \in Jobs |-> IF k = j THEN [i \in Jobs |-> 0]
                                   ELSE IF k \in Range(Tail(ready))
                                        THEN [passed[k] EXCEPT ![j] = @ + Due(j)] ELSE passed[k]]
      /\ row' = [row EXCEPT ![j] = r]
      /\ state' = state /\ pending' = pending /\ index' = index /\ credit' = credit
  BY <1>1 DEF TakeRow, Dequeue, Due
<1>3. /\ j \in Jobs /\ j \in Live /\ row[j] = None
      /\ \A i : InLine(ready', i) <=> i # j /\ InLine(ready, i)
      /\ \A i, k : i # j /\ k # j => (Before(ready', k, i) <=> Before(ready, k, i))
      /\ \A k : ~Before(ready', j, k)
      /\ \A i : InLine(ready', i) => Before(ready, j, i)
      /\ \A i : InLine(ready', i) <=> i \in Range(Tail(ready))
  BY <1>2, <1>1, TailLine
<1>4. Accounts'
  BY <1>2 DEF Accounts, Due, Live
<1>5. /\ row'[j] = r /\ r # None /\ \A k \in Jobs \ {j} : row'[k] = row[k]
  BY <1>2, <1>3, KeyFacts DEF PumpInv, Typed
<1>6. Due(j) \in Nat \ {0} /\ Due(j) <= credit[j] /\ credit[j] \in Nat /\ Quantum \in Nat
  BY <1>3, ShareFacts
<1>7. /\ passed' \in [Jobs -> [Jobs -> Nat]]
      /\ \A i \in Jobs : passed'[j][i] = 0
      /\ \A k \in Jobs \ {j} : \A i \in Jobs :
           passed'[k][i] = IF i = j /\ InLine(ready', k) THEN passed[k][i] + Due(j) ELSE passed[k][i]
  <2>1. passed \in [Jobs -> [Jobs -> Nat]]
    BY DEF Turns
  <2>2. \A k \in Jobs : [passed[k] EXCEPT ![j] = @ + Due(j)] \in [Jobs -> Nat]
    BY <1>3, <1>6, <2>1
  <2>3. QED
    BY <1>2, <1>3, <2>1, <2>2
<1>8. \A i, k \in Jobs : passed'[i][k] # 0 => InLine(ready', i) /\ i # k
  BY <1>3, <1>7 DEF Turns
<1>9. ASSUME NEW i \in Jobs, NEW k \in Jobs, InLine(ready', i), i # k
      PROVE  passed'[i][k] + Chance(k, i)' < 2 * Quantum
  <2>1. i # j /\ InLine(ready, i) /\ passed[i][k] \in Nat
    BY <1>3, <1>9 DEF Turns
  <2>2. passed[i][k] + Chance(k, i) < 2 * Quantum
    BY <1>9, <2>1 DEF Turns
  <2>3. CASE k = j
    <3>1. Chance(j, i) = credit[j]
      BY <1>3, <1>9 DEF Chance
    <3>2. Chance(j, i)' = credit[j] - Due(j)
      BY <1>2, <1>3, <1>5 DEF Chance, Due
    <3>3. passed'[i][j] = passed[i][j] + Due(j)
      BY <1>3, <1>7, <1>9, <2>1
    <3>4. QED
      BY <1>6, <2>1, <2>2, <2>3, <3>1, <3>2, <3>3
  <2>4. CASE k # j
    <3>1. Chance(k, i)' = Chance(k, i)
      BY <1>2, <1>3, <1>5, <2>1, <2>4 DEF Chance, Due
    <3>2. passed'[i][k] = passed[i][k]
      BY <1>7, <2>1, <2>4
    <3>3. QED
      BY <2>2, <3>1, <3>2
  <2>5. QED
    BY <2>3, <2>4
<1>10. QED
  BY <1>4, <1>7, <1>8, <1>9 DEF Turns

LEMMA ShareStart == Init => Accounts /\ Turns
<1> SUFFICES ASSUME Init PROVE Accounts /\ Turns
  OBVIOUS
<1>1. /\ Live = {} /\ pending = 0 /\ credit = [j \in Jobs |-> 0]
      /\ ready = <<>> /\ passed = [j \in Jobs |-> [k \in Jobs |-> 0]]
  BY DEF Init, Live
<1>2. Quantum \in Nat \ {0} /\ MaxPending \in Nat
  BY QuantumAssumption, PendingAssumption
<1>3. Total({}) = 0
  <2>1. {} \in SUBSET Jobs /\ {} \cup {} = {} /\ {} \cap {} = {}
    OBVIOUS
  <2>2. Total({}) \in Nat /\ Total({}) = Total({}) + Total({})
    BY <2>1, TotalFacts
  <2>3. \A n \in Nat : n = n + n => n = 0
    OBVIOUS
  <2>4. QED
    BY <2>2, <2>3
<1>4. Accounts
  BY <1>1, <1>2, <1>3 DEF Accounts
<1>5. \A j \in Jobs : ~InLine(ready, j)
  BY <1>1 DEF InLine
<1>6. Turns
  BY <1>1, <1>5 DEF Turns
<1>7. QED
  BY <1>4, <1>6

LEMMA ShareStep ==
  ASSUME PumpInv, Accounts, Turns, [Next]_vars
  PROVE  Accounts' /\ Turns'
<1>1. Effect
  BY Effects
<1>2. QED
  BY <1>1, QuietKeeps, EndingKeeps, RequeueKeeps, SubmitKeeps, DropKeeps, TakeKeeps DEF Effect

LEMMA Sharing == Spec => [](Accounts /\ Turns)
<1>1. Init => Accounts /\ Turns
  BY ShareStart
<1>2. PumpInv /\ (Accounts /\ Turns) /\ [Next]_vars => (Accounts /\ Turns)'
  BY ShareStep
<1>3. QED
  BY <1>1, <1>2, PumpSafe, PTL DEF Spec

(* Byte-deficit round robin (ready, _Job.credit and quantum in             *)
(* handlers.py): while a job queues, no other job starts two quanta.       *)
THEOREM NobodyIsPassedOver == Spec => []FairShare
<1>1. PumpInv /\ Accounts /\ Turns => FairShare
  <2> SUFFICES ASSUME PumpInv, Accounts, Turns, NEW j \in Jobs, NEW k \in Jobs
               PROVE  passed[j][k] < 2 * Quantum
    BY DEF FairShare
  <2>1. passed[j][k] \in Nat /\ Chance(k, j) \in Nat /\ Quantum \in Nat \ {0}
    BY ShareFacts DEF Turns
  <2>2. CASE passed[j][k] = 0
    BY <2>1, <2>2
  <2>3. CASE passed[j][k] # 0
    <3>1. passed[j][k] + Chance(k, j) < 2 * Quantum
      BY <2>3 DEF Turns
    <3>2. QED
      BY <2>1, <3>1
  <2>4. QED
    BY <2>2, <2>3
<1>2. QED
  BY <1>1, PumpSafe, Sharing, PTL

-----------------------------------------------------------------------------
(* The types of the rest. *)

Loose ==
  /\ staging \in [Rows -> Held] /\ rereads \in [Jobs -> 0..1]
  /\ call \in {"none", "get", "wait", "shutdown"}
Lands(C) == \A c \in C : c.job \in Jobs /\ c.key \in Nat

LEMMA StagingTyped ==
  ASSUME staging \in [Rows -> Held], NEW C, Lands(C)
  PROVE  StagingAfter(C) \in [Rows -> Held] /\ (Drain(C) => staging' \in [Rows -> Held])
<1>1. ASSUME NEW D, Lands(D) PROVE StagingAfter(D) \in [Rows -> Held]
  <2>1. ASSUME NEW r \in Rows PROVE StagingAfter(D)[r] \in Held
    <3>1. CASE \E c \in D : c.row = r /\ c.job \in Storing
      <4> DEFINE c == CHOOSE c \in D : c.row = r /\ c.job \in Storing
      <4>1. c \in D /\ c.job \in Jobs /\ c.key \in Nat
        BY <1>1, <3>1 DEF Lands
      <4>2. StagingAfter(D)[r] = [job |-> c.job, key |-> c.key]
        BY <3>1 DEF StagingAfter
      <4> HIDE DEF c
      <4>3. QED
        BY <4>1, <4>2 DEF Held
    <3>2. CASE ~\E c \in D : c.row = r /\ c.job \in Storing
      BY <3>2 DEF StagingAfter
    <3>3. QED
      BY <3>1, <3>2
  <2>2. StagingAfter(D) = [r \in Rows |-> StagingAfter(D)[r]]
    BY DEF StagingAfter
  <2>3. QED
    BY <2>1, <2>2
<1>2. Lands(Running(C))
  BY DEF Lands, Running
<1>3. QED
  BY <1>1, <1>2 DEF Drain

LEMMA LooseStep ==
  ASSUME PumpInv, Loose, [Next]_vars
  PROVE  Loose'
<1> USE DEF jobVars, poolVars, ioVars, control
<1>1. /\ tasks \subseteq TaskSet /\ Lands(copies) /\ \A j \in Jobs : index[j] \in Nat
      /\ staging \in [Rows -> Held]
  BY DEF PumpInv, Typed, InputOutput, Working, Heard, CopySet, Lands, Loose
<1>2. call' \in {"none", "get", "wait", "shutdown"}
  BY DEF Loose, Next, Caller, Calls, Devices, vars, WaitLoop, Collect, CollectFails, VisitsOver,
         DropCancelled, PollOver, AwaitFuture, AwaitCopies, AwaitFails, StopThreads, CloseProvider,
         Result, Visit, Launch, TakeRow, Submit, Wait, Cancel, Cancelling, GetFinished, Shutdown,
         CopyEnds, DiskEnds
<1>3. rereads' \in [Jobs -> 0..1]
  <2>1. ASSUME NEW j \in Jobs, Visit(j) PROVE rereads' \in [Jobs -> 0..1]
    <3>1. UNCHANGED rereads \/ (rereads[j] < 1 /\ rereads' = [rereads EXCEPT ![j] = @ + 1])
      BY <2>1 DEF Visit
    <3>2. QED
      BY <3>1 DEF Loose
  <2>2. ASSUME ~\E j \in Jobs : Visit(j) PROVE UNCHANGED rereads
    BY <2>2 DEF Next, Caller, Calls, Devices, vars, WaitLoop, Collect, CollectFails, VisitsOver,
         DropCancelled, PollOver, AwaitFuture, AwaitCopies, AwaitFails, StopThreads, CloseProvider,
         Result, Launch, TakeRow, Submit, Wait, Cancel, Cancelling, GetFinished, Shutdown,
         CopyEnds, DiskEnds
  <2>3. QED
    BY <2>1, <2>2 DEF Loose
<1>4. ASSUME NEW j \in Jobs, SubmitNative(j) PROVE staging' \in [Rows -> Held]
  <2> DEFINE c == [id |-> FreshId, job |-> j, key |-> index[j], row |-> row[j],
                   end |-> "running", known |-> TRUE]
             unknown == [c EXCEPT !.known = FALSE]
  <2>1. unknown.job = j /\ unknown.key = index[j]
    OBVIOUS
  <2> HIDE DEF c, unknown
  <2>2. \A launched \in {{}, {unknown}} : Lands(copies \cup launched)
    BY <1>1, <2>1 DEF Lands
  <2>3. UNCHANGED staging \/ \E launched \in {{}, {unknown}} : Drain(copies \cup launched)
    BY <1>4 DEF SubmitNative, c, unknown
  <2>4. QED
    BY <1>1, <2>2, <2>3, StagingTyped
<1>5. CASE Devices
  <2>1. ASSUME NEW c \in copies, NEW ok \in BOOLEAN, CopyEnds(c, ok) PROVE staging' \in [Rows -> Held]
    <3> DEFINE one == {c}
    <3>1. Lands(one)
      BY <1>1 DEF Lands
    <3>2. staging' = StagingAfter(one) \/ staging' = [staging EXCEPT ![c.row] = Junk] \/ staging' = staging
      BY <2>1 DEF CopyEnds
    <3>3. Junk \in Held
      BY DEF Junk, Held
    <3> HIDE DEF one
    <3>4. QED
      BY <1>1, <3>1, <3>2, <3>3, StagingTyped
  <2>2. ASSUME NEW t \in tasks, NEW ok \in BOOLEAN, DiskEnds(t, ok) PROVE staging' \in [Rows -> Held]
    <3>1. [job |-> t.job, key |-> t.key] \in Held /\ Junk \in Held
      BY <1>1 DEF TaskSet, Held, Junk
    <3>2. QED
      BY <1>1, <2>2, <3>1 DEF DiskEnds
  <2>3. QED
    BY <1>2, <1>3, <1>5, <2>1, <2>2 DEF Devices, Loose
<1>6. CASE CollectFails \/ AwaitFails
  <2>1. UNCHANGED staging \/ Drain(copies)
    BY <1>6 DEF CollectFails, AwaitFails
  <2>2. staging' \in [Rows -> Held]
    BY <1>1, <2>1, StagingTyped
  <2>3. QED
    BY <1>2, <1>3, <2>2 DEF Loose
<1>7. CASE \E j \in Jobs : Visit(j) \/ Launch(j)
  <2>1. PICK j \in Jobs : Visit(j) \/ Launch(j)
    BY <1>7
  <2>2. UNCHANGED staging \/ SubmitNative(j)
    BY <2>1 DEF Visit, Launch
  <2>3. staging' \in [Rows -> Held]
    BY <1>1, <1>4, <2>2
  <2>4. QED
    BY <1>2, <1>3, <2>3 DEF Loose
<1>8. CASE ~(Devices \/ CollectFails \/ AwaitFails \/ \E j \in Jobs : Visit(j) \/ Launch(j))
  <2>1. UNCHANGED staging
    BY <1>8 DEF Next, Caller, Calls, vars, WaitLoop, Collect, VisitsOver,
         DropCancelled, PollOver, AwaitFuture, AwaitCopies, StopThreads, CloseProvider,
         Result, TakeRow, Submit, Wait, Cancel, Cancelling, GetFinished, Shutdown
  <2>2. QED
    BY <1>1, <1>2, <1>3, <2>1 DEF Loose
<1>9. QED
  BY <1>5, <1>6, <1>7, <1>8

(* Every variable of the pump keeps its type; pending keys, credits and    *)
(* repeated reads their bounds; and a job's index stays among its keys.    *)
THEOREM PumpTypes == Spec => []TypeOK
<1>1. Init => Loose
  BY DEF Init, Loose, Held, Junk
<1>2. Spec => []Loose
  <2>1. PumpInv /\ Loose /\ [Next]_vars => Loose'
    BY LooseStep
  <2>2. QED
    BY <1>1, <2>1, PumpSafe, PTL DEF Spec
<1>3. PumpInv /\ Accounts /\ Turns /\ Loose => TypeOK
  <2> SUFFICES ASSUME PumpInv, Accounts, Turns, Loose PROVE TypeOK
    OBVIOUS
  <2>1. /\ Typed /\ tasks \subseteq TaskSet /\ copies \subseteq CopySet
        /\ Array(arrived)
        /\ \A j \in Jobs : \A k \in Keys(j) : arrived[j][k] \in {Absent, Bytes(j, k)}
    BY DEF PumpInv, InputOutput, Working, Arrived, Heard
  <2>2. arrived \in [Jobs -> Seq(Held)]
    <3>1. ASSUME NEW j \in Jobs PROVE arrived[j] \in Seq(Held)
      <4>1. Len(Size[j]) \in Nat /\ Keys(j) = 1..Len(Size[j]) /\ Keys(j) \subseteq Nat
        BY KeyFacts
      <4>2. arrived[j] = [k \in Keys(j) |-> arrived[j][k]]
        BY <2>1 DEF Array
      <4>3. \A k \in Keys(j) : arrived[j][k] \in Held
        BY <2>1, <4>1 DEF Held, Bytes, Absent
      <4>4. arrived[j] \in [1..Len(Size[j]) -> Held]
        BY <4>1, <4>2, <4>3
      <4>5. QED
        BY <4>1, <4>4, SeqDef
    <3>2. QED
      BY <2>1, <3>1 DEF Array
  <2>3. credit \in [Jobs -> 0..(2 * Quantum)] /\ pending \in 0..MaxPending
    <3>1. /\ credit \in [Jobs -> 0..(2 * Quantum - 1)] /\ Quantum \in Nat
          /\ pending \in Nat /\ MaxPending \in Nat /\ pending <= MaxPending
      BY ShareFacts DEF Accounts
    <3>2. 0..(2 * Quantum - 1) \subseteq 0..(2 * Quantum)
      BY <3>1
    <3>3. QED
      BY <3>1, <3>2
  <2>4. QED
    BY <2>1, <2>2, <2>3 DEF TypeOK, Typed, States, Places, TaskSet, CopySet, Turns, Loose
<1>4. QED
  BY <1>2, <1>3, PumpSafe, Sharing, PTL
=============================================================================
