-------------------------- MODULE RpcClientProofs --------------------------
(***************************************************************************)
(* Credits, watchdogs and wake-ups of RpcClient for every set of           *)
(* operations and threads and all bounds.                                  *)
(***************************************************************************)
EXTENDS RpcClient, FiniteSetTheorems, SequenceTheorems, TLAPS

-----------------------------------------------------------------------------
(* The inductive invariant.                                                *)
Held(o) == \E t \in Runners : Holding(t) /\ run[t].op = o
Queued(o) == \E i \in 1..Len(queue) : queue[i] = o

(* max_pending_ops.                                                        *)
Bounded == Cardinality(operations) <= MaxPending[plan]

(* Who has the operation of a credit is told by its future: fanout()       *)
(* before there is one, the queue, a worker; a caller has its own.         *)
Credits ==
  /\ \A o \in operations \cap Callers : Held(o)
  /\ \A o \in operations \cap Ranks :
       \/ future[o] = "none" /\ fan.at = "queue" /\ fan.op = o
       \/ future[o] = "pending" /\ Queued(o)
       \/ future[o] = "running" /\ Held(o)
  /\ \A c \in Callers : future[c] \in {"none", "done"} /\ run[c].op \in {c, None}
  /\ \A t \in Runners : Holding(t) => run[t].op \in operations
  /\ \A t \in Runners : ~Holding(t) => run[t].op = None
  /\ \A w \in Workers : Holding(w) => run[w].op \in Ranks /\ future[run[w].op] = "running"
  /\ \A t, u \in Runners : Holding(t) /\ Holding(u) /\ run[t].op = run[u].op => t = u
  /\ \A i \in 1..Len(queue) : queue[i] \in operations /\ future[queue[i]] = "pending"
  /\ \A i, k \in 1..Len(queue) : queue[i] = queue[k] => i = k
  /\ Bounded

(* What fanout() and shutdown() have in hand.                              *)
Hands ==
  /\ fan.at = "queue" => fan.op \in operations \ fan.todo /\ fan.op \in Ranks /\ future[fan.op] = "none"
  /\ fan.at \in {"idle", "admit", "queue"} =>
       fan.todo \subseteq plan /\ \A r \in fan.todo : future[r] = "none" /\ r \notin operations
  /\ fan.at = "cancel" => fan.op \in Ranks
  /\ closer.at = "cancel" => closer.op \in Ops

(* A watchdog is out while its thread is between Arm and Join.             *)
Watchdogs ==
  \A o \in Ops : Watched(o) =>
    \E t \in Runners : run[t].at \in {"send", "again", "join"} /\ run[t].op = o

Slots == active = Cardinality({t \in Runners : Inside(t)})

(* Who sleeps, and on what: a worker on work, an operation on a slot, the  *)
(* closer on the credits.                                                  *)
Sleepers ==
  /\ \A t \in asleep \cap Runners :
       \/ run[t].at = "idle" /\ t \in Workers /\ ~closed
       \/ run[t].at = "enter" /\ Full /\ ~closed
  /\ Closer \in asleep => closed

Ready == {w \in Workers : run[w].at = "idle" /\ Awake(w)}
(* While a slot is free, a worker sleeps only if the others suffice for    *)
(* the queue.                                                              *)
Staffed ==
  Full \/ (\A w \in Workers : run[w].at = "idle" => Awake(w)) \/ Len(queue) <= Cardinality(Ready)

Closing ==
  /\ closer.at # "idle" => closed
  /\ closed => pool = 0
  /\ closer.at = "join" => operations = {}
  /\ stopped => closed /\ operations = {} /\ \A w \in Workers : run[w].at = "out"

ClientInv ==
  TypeOK /\ Credits /\ Hands /\ Watchdogs /\ Slots /\ Sleepers /\ Staffed /\ Closing

-----------------------------------------------------------------------------
LEMMA Finite ==
  /\ IsFiniteSet(Runners) /\ IsFiniteSet(Ops) /\ IsFiniteSet(Workers)
  /\ \A S \in SUBSET Runners : IsFiniteSet(S) /\ Cardinality(S) \in Nat
  /\ \A S \in SUBSET Workers : IsFiniteSet(S) /\ Cardinality(S) \in Nat
  /\ \A S \in SUBSET Ops : IsFiniteSet(S) /\ Cardinality(S) \in Nat
<1>1. IsFiniteSet(Ops) /\ IsFiniteSet(Workers) /\ Callers \subseteq Ops
  BY ThreadAssumption DEF Ops
<1>2. IsFiniteSet(Runners)
  BY <1>1, FS_Subset, FS_Union DEF Runners
<1>3. QED
  BY <1>1, <1>2, FS_Subset, FS_CardinalityType

LEMMA CreditLimit ==
  ASSUME TypeOK
  PROVE  MaxPending[plan] \in Nat
BY BoundAssumption DEF TypeOK

LEMMA FewerBounded ==
  ASSUME TypeOK, Bounded, operations' \subseteq operations, plan' = plan
  PROVE  Bounded'
<1>1. operations \in SUBSET Ops
  BY BoundAssumption DEF TypeOK
<1>2. Cardinality(operations) \in Nat /\ IsFiniteSet(operations)
  BY <1>1, Finite
<1>3. Cardinality(operations') <= Cardinality(operations) /\ Cardinality(operations') \in Nat
  BY <1>2, FS_Subset, FS_CardinalityType
<1>4. Cardinality(operations') <= MaxPending[plan]
  BY <1>2, <1>3, CreditLimit DEF Bounded
<1>5. QED
  BY <1>4 DEF Bounded

LEMMA Start == Init => ClientInv
<1> SUFFICES ASSUME Init PROVE ClientInv
  OBVIOUS
<1>a. queue = <<>> /\ queue \in Seq(Ranks) /\ Len(queue) = 0 /\ 1..Len(queue) = {}
  BY EmptySeq DEF Init
<1>1. TypeOK
  <2>1. plan \in Plans /\ plan \subseteq Ops
    BY BoundAssumption DEF Init
  <2>2. run \in [Runners -> [at : {"idle", "enter", "arm", "send", "again", "join", "give", "report", "out"},
                          op : Ops \cup {None}, keep : BOOLEAN]]
    BY DEF Init
  <2>3. fan \in [at : {"idle", "admit", "queue", "collect", "cancel", "out"}, todo : SUBSET Ranks,
              op : Ranks \cup {None}]
    BY DEF Init
  <2>4. closer \in [at : {"idle", "abort", "cancel", "wait", "join", "out"}, todo : SUBSET Ops,
                 op : Ops \cup {None}]
    BY DEF Init
  <2>5. /\ future \in [Ops -> {"none", "pending", "running", "cancelled", "done"}]
        /\ timer \in [Ops -> {"none", "armed", "firing"}]
    BY DEF Init
  <2>6. active \in 0..MaxActive /\ pool \in 0..PoolSize
    BY BoundAssumption DEF Init
  <2>7. /\ operations \subseteq plan /\ cancelled \subseteq Ops /\ late \subseteq Ops
        /\ closed \in BOOLEAN /\ stopped \in BOOLEAN /\ asleep \subseteq Runners \cup {Closer}
    BY DEF Init
  <2>8. QED
    BY <1>a, <2>1, <2>2, <2>3, <2>4, <2>5, <2>6, <2>7 DEF TypeOK
<1>2. {t \in Runners : Inside(t)} = {}
  BY DEF Init, Inside
<1>3. Slots
  BY <1>2, FS_EmptySet DEF Slots, Init
<1>4. Credits
  <2>1. operations = {} /\ Cardinality(operations) = 0 /\ \A t \in Runners : run[t].at = "idle" /\ run[t].op = None
    BY FS_EmptySet DEF Init
  <2>2. \A t \in Runners : ~Holding(t)
    BY <2>1 DEF Holding, Inside
  <2>3. \A c \in Callers : c \in Runners /\ c \in Ops
    BY DEF Runners, Ops
  <2>4. \A w \in Workers : w \in Runners
    BY DEF Runners
  <2>5. \A o \in Ops : future[o] = "none"
    BY DEF Init
  <2>6. Bounded
    BY <1>1, <2>1, CreditLimit DEF Bounded
  <2>7. QED
    BY <1>a, <2>1, <2>2, <2>3, <2>4, <2>5, <2>6 DEF Credits
<1>5. Hands /\ Watchdogs /\ Sleepers /\ Staffed /\ Closing
  BY DEF Hands, Watchdogs, Sleepers, Staffed, Closing, Init, Watched, Awake, Ops
<1>6. QED
  BY <1>1, <1>3, <1>4, <1>5 DEF ClientInv

(* deque.remove(): one operation less, the others in their order.          *)
LEMMA RemovedFacts ==
  ASSUME NEW o \in Ranks, queue \in Seq(Ranks),
         \A i, k \in 1..Len(queue) : queue[i] = queue[k] => i = k,
         NEW n \in 1..Len(queue), queue[n] = o
  PROVE  /\ Removed(o) \in Seq(Ranks) /\ Len(Removed(o)) = Len(queue) - 1
         /\ \A i \in 1..(Len(queue) - 1) : Removed(o)[i] = queue[IF i < n THEN i ELSE i + 1]
<1>1. {i \in 1..Len(queue) : queue[i] = o} = {n}
  OBVIOUS
<1>2. SelectInSeq(queue, LAMBDA v : v = o) = n
  BY <1>1 DEF SelectInSeq, Min
<1>3. Removed(o) = SubSeq(queue, 1, n - 1) \o SubSeq(queue, n + 1, Len(queue))
  BY <1>2 DEF Removed, RemoveFirst, RemoveAt
<1>4. Len(queue) \in Nat
  BY LenProperties
<1>5. /\ SubSeq(queue, 1, n - 1) \in Seq(Ranks) /\ Len(SubSeq(queue, 1, n - 1)) = n - 1
      /\ \A i \in 1..(n - 1) : SubSeq(queue, 1, n - 1)[i] = queue[i]
  BY <1>4, SubSeqProperties
<1>6. /\ SubSeq(queue, n + 1, Len(queue)) \in Seq(Ranks)
      /\ Len(SubSeq(queue, n + 1, Len(queue))) = Len(queue) - n
      /\ \A i \in 1..(Len(queue) - n) : SubSeq(queue, n + 1, Len(queue))[i] = queue[n + i]
  BY <1>4, SubSeqProperties
<1> DEFINE f == SubSeq(queue, 1, n - 1)
           b == SubSeq(queue, n + 1, Len(queue))
<1>a. f \in Seq(Ranks) /\ b \in Seq(Ranks)
  BY <1>5, <1>6
<1>8. /\ Len(f) = n - 1 /\ Len(b) = Len(queue) - n
      /\ \A i \in 1..(n - 1) : f[i] = queue[i]
      /\ \A i \in 1..(Len(queue) - n) : b[i] = queue[n + i]
  BY <1>5, <1>6
<1>10. Removed(o) = f \o b
  BY <1>3
<1> HIDE DEF f, b
<1>7. /\ f \o b \in Seq(Ranks) /\ Len(f \o b) = Len(f) + Len(b)
      /\ \A i \in 1..(Len(f) + Len(b)) : (f \o b)[i] = IF i <= Len(f) THEN f[i] ELSE b[i - Len(f)]
  BY <1>a, ConcatProperties
<1>9. ASSUME NEW i \in 1..(Len(queue) - 1)
      PROVE  (f \o b)[i] = queue[IF i < n THEN i ELSE i + 1]
  <2>1. CASE i < n
    BY <1>4, <1>7, <1>8, <2>1
  <2>2. CASE ~(i < n)
    <3>1. i - (n - 1) \in 1..(Len(queue) - n) /\ n + (i - (n - 1)) = i + 1
      BY <1>4, <2>2
    <3>2. i \in 1..(Len(f) + Len(b)) /\ ~(i <= Len(f)) /\ i - Len(f) = i - (n - 1)
      BY <1>4, <1>8, <2>2
    <3>3. (f \o b)[i] = b[i - Len(f)]
      BY <1>7, <3>2
    <3>4. QED
      BY <1>8, <2>2, <3>1, <3>2, <3>3
  <2>3. QED
    BY <2>1, <2>2
<1>11. Len(f) + Len(b) = Len(queue) - 1
  BY <1>4, <1>8
<1>12. QED
  BY <1>7, <1>9, <1>10, <1>11

-----------------------------------------------------------------------------
(* What the other steps may do to the parts of the invariant.              *)
Typing(t) ==
  /\ run[t].at \in {"idle", "enter", "arm", "send", "again", "join", "give", "report", "out"}
  /\ run[t].op \in Ops \cup {None}

(* The threads are as they were, but t goes on with its operation.         *)
GoesOn(t) ==
  /\ \A u \in Runners : u # t => run'[u].at = run[u].at
  /\ \A u \in Runners : run'[u].op = run[u].op

LEMMA Threads ==
  ASSUME TypeOK
  PROVE  /\ \A t \in Runners : Typing(t)
         /\ \A c \in Callers : c \in Runners /\ c \in Ops /\ c \notin Ranks /\ c \notin Workers
         /\ \A w \in Workers : w \in Runners
         /\ \A t \in Runners : t \in Workers \/ t \in Callers
         /\ \A o \in Ops : o # None /\ (o \in Ranks \/ o \in Callers)
         /\ plan \subseteq Ops
BY ThreadAssumption, BoundAssumption DEF TypeOK, Typing, Runners, Ops

(* Credits and Hands are kept by a step of a thread that holds on to its   *)
(* operation.                                                              *)
LEMMA CreditsStay ==
  ASSUME TypeOK, Credits, Hands, NEW t \in Runners, GoesOn(t), Holding(t), Holding(t)',
         UNCHANGED <<operations, queue, future, plan, fan, closer>>
  PROVE  Credits' /\ Hands'
<1>1. \A u \in Runners : Holding(u)' <=> Holding(u)
  BY DEF GoesOn, Holding, Inside
<1>2. \A o : Held(o)' <=> Held(o)
  BY <1>1 DEF GoesOn, Held
<1>3. \A o : Queued(o)' <=> Queued(o)
  BY DEF Queued
<1>4. Credits'
  BY <1>1, <1>2, <1>3, Threads DEF Credits, Bounded, GoesOn
<1>5. Hands'
  BY DEF Hands
<1>6. QED
  BY <1>4, <1>5

(* Slots, watchdogs, sleepers.                                             *)
Insiders == {t \in Runners : Inside(t)}

LEMMA SlotsFollow ==
  ASSUME NEW t \in Runners, GoesOn(t)
  PROVE  /\ (Inside(t)' <=> Inside(t)) => Insiders' = Insiders
         /\ Inside(t)' /\ ~Inside(t) => Cardinality(Insiders') = Cardinality(Insiders) + 1
         /\ Inside(t) /\ ~Inside(t)' => Cardinality(Insiders') = Cardinality(Insiders) - 1
<1>1. \A u \in Runners : u # t => (Inside(u)' <=> Inside(u))
  BY DEF GoesOn, Inside
<1>2. IsFiniteSet(Insiders) /\ IsFiniteSet(Insiders') /\ Cardinality(Insiders) \in Nat /\ Cardinality(Insiders') \in Nat
  <2>1. Insiders \in SUBSET Runners /\ Insiders' \in SUBSET Runners
    BY DEF Insiders
  <2>2. QED
    BY <2>1, Finite
<1>3. ASSUME Inside(t)' <=> Inside(t) PROVE Insiders' = Insiders
  BY <1>1, <1>3 DEF Insiders
<1>4. ASSUME Inside(t)', ~Inside(t) PROVE Cardinality(Insiders') = Cardinality(Insiders) + 1
  <2>1. Insiders' = Insiders \cup {t} /\ t \notin Insiders
    BY <1>1, <1>4 DEF Insiders
  <2>2. QED
    BY <1>2, <2>1, FS_AddElement
<1>5. ASSUME Inside(t), ~Inside(t)' PROVE Cardinality(Insiders') = Cardinality(Insiders) - 1
  <2>1. Insiders' = Insiders \ {t} /\ t \in Insiders
    BY <1>1, <1>5 DEF Insiders
  <2>2. QED
    BY <1>2, <2>1, FS_RemoveElement
<1>6. QED
  BY <1>3, <1>4, <1>5

LEMMA WatchdogsStay ==
  ASSUME Watchdogs, NEW t \in Runners, GoesOn(t), UNCHANGED timer,
         run[t].at \in {"send", "again", "join"} => run'[t].at \in {"send", "again", "join"}
  PROVE  Watchdogs'
<1>1. ASSUME NEW o \in Ops, Watched(o)'
      PROVE  \E u \in Runners : run'[u].at \in {"send", "again", "join"} /\ run'[u].op = o
  <2>1. PICK u \in Runners : run[u].at \in {"send", "again", "join"} /\ run[u].op = o
    BY <1>1 DEF Watchdogs, Watched
  <2>2. run'[u].at \in {"send", "again", "join"} /\ run'[u].op = o
    BY <2>1 DEF GoesOn
  <2>3. QED
    BY <2>2
<1>2. QED
  BY <1>1 DEF Watchdogs

(* notify_all() settles both.                                              *)
LEMMA AllAwake == ASSUME asleep' = {} PROVE Sleepers' /\ Staffed'
  BY DEF Sleepers, Staffed, Awake

LEMMA StaffedStays ==
  ASSUME TypeOK, Staffed, Full => Full', Ready \subseteq Ready',
         Len(queue') \in Nat, Len(queue') <= Len(queue),
         \A w \in Workers : run'[w].at = "idle" /\ ~Awake(w)' => run[w].at = "idle" /\ ~Awake(w)
  PROVE  Staffed'
<1>1. Cardinality(Ready) <= Cardinality(Ready')
  <2>1. IsFiniteSet(Ready')
    BY Finite, FS_Subset DEF Ready
  <2>2. QED
    BY <2>1, FS_Subset
<1>2. Cardinality(Ready) \in Nat /\ Cardinality(Ready') \in Nat
  <2>1. Ready \in SUBSET Workers /\ Ready' \in SUBSET Workers
    BY DEF Ready
  <2>2. QED
    BY <2>1, Finite
<1>3. Len(queue) \in Nat
  BY LenProperties DEF TypeOK
<1>4. CASE Full
  BY <1>4 DEF Staffed
<1>5. CASE \A w \in Workers : run[w].at = "idle" => Awake(w)
  BY <1>5 DEF Staffed
<1>6. CASE Len(queue) <= Cardinality(Ready)
  <2>1. Len(queue') <= Cardinality(Ready')
    BY <1>1, <1>2, <1>3, <1>6
  <2>2. QED
    BY <2>1 DEF Staffed
<1>7. QED
  BY <1>4, <1>5, <1>6 DEF Staffed

(* A thread that is awake goes on, and wakes nobody.                       *)
LEMMA QuietStep ==
  ASSUME TypeOK, Sleepers, Staffed, NEW t \in Runners, GoesOn(t), Awake(t), run[t].at # "idle",
         run'[t].at # "idle", UNCHANGED <<asleep, queue, closed>>, Full => Full'
  PROVE  Sleepers' /\ Staffed'
<1>1. Sleepers'
  BY ThreadAssumption DEF Sleepers, GoesOn, Awake
<1>2. Ready \subseteq Ready'
  BY DEF Ready, GoesOn, Awake, Runners
<1>3. \A w \in Workers : run'[w].at = "idle" /\ ~Awake(w)' => run[w].at = "idle" /\ ~Awake(w)
  BY DEF GoesOn, Awake, Runners
<1>4. Len(queue) \in Nat
  BY LenProperties DEF TypeOK
<1>5. QED
  BY <1>1, <1>2, <1>3, <1>4, StaffedStays

-----------------------------------------------------------------------------
(* A thread with its operation: from Enter to Report.                      *)
ThreadType == [at : {"idle", "enter", "arm", "send", "again", "join", "give", "report", "out"},
               op : Ops \cup {None}, keep : BOOLEAN]

Became(t, p, o) ==
  /\ run' \in [Runners -> ThreadType]
  /\ run'[t].at = p /\ run'[t].op = o
  /\ \A u \in Runners : u # t => run'[u] = run[u]

LEMMA ThreadMoves ==
  ASSUME TypeOK, NEW t \in Runners,
         NEW p \in {"idle", "enter", "arm", "send", "again", "join", "give", "report", "out"},
         NEW o \in Ops \cup {None}, NEW k \in BOOLEAN
  PROVE  /\ run[t] \in ThreadType
         /\ run' = [run EXCEPT ![t].at = p] => Became(t, p, run[t].op)
         /\ run' = [run EXCEPT ![t] = [@ EXCEPT !.at = p, !.op = o]] => Became(t, p, o)
         /\ run' = [run EXCEPT ![t] = [@ EXCEPT !.at = p, !.keep = k]] => Became(t, p, run[t].op)
<1>1. run[t] \in ThreadType /\ run \in [Runners -> ThreadType]
  BY DEF TypeOK, ThreadType
<1>2. ASSUME run' = [run EXCEPT ![t].at = p] PROVE Became(t, p, run[t].op)
  BY <1>1, <1>2 DEF Became, ThreadType
<1>3. ASSUME run' = [run EXCEPT ![t] = [@ EXCEPT !.at = p, !.op = o]] PROVE Became(t, p, o)
  BY <1>1, <1>3 DEF Became, ThreadType
<1>4. ASSUME run' = [run EXCEPT ![t] = [@ EXCEPT !.at = p, !.keep = k]] PROVE Became(t, p, run[t].op)
  BY <1>1, <1>4 DEF Became, ThreadType
<1>5. QED
  BY <1>1, <1>2, <1>3, <1>4

LEMMA Onwards == ASSUME NEW t \in Runners, NEW p, Became(t, p, run[t].op) PROVE GoesOn(t)
  BY DEF Became, GoesOn

LEMMA ClosingStays ==
  ASSUME TypeOK, Closing, NEW t \in Runners, GoesOn(t), run[t].at # "out" \/ run'[t].at = "out",
         UNCHANGED <<closer, closed, stopped>>,
         operations' \subseteq operations, closed => pool' = 0
  PROVE  Closing'
<1>1. ASSUME NEW u \in Workers, run[u].at = "out" PROVE run'[u].at = "out"
  BY <1>1 DEF GoesOn, Runners
<1>2. QED
  BY <1>1 DEF Closing

(* _execute(): waiting for a slot.                                         *)
LEMMA EnterStep ==
  ASSUME ClientInv, NEW t \in Runners, Enter(t)
  PROVE  ClientInv'
<1> USE DEF ClientInv
<1>1. run[t].at = "enter" /\ Awake(t) /\ Holding(t) /\ ~Inside(t)
  BY DEF Enter, At, Holding, Inside
<1>2. UNCHANGED <<operations, queue, future, cancelled, timer, plan, late, closed, stopped, pool, fan, closer>>
  BY DEF Enter, work, life
<1>3. active \in Nat /\ MaxActive \in Nat /\ active <= MaxActive /\ run[t].op \in Ops \cup {None}
  BY BoundAssumption DEF TypeOK
<1>4. CASE run' = run
  <2>1. active' = active /\ asleep' = asleep \cup {t} /\ Full /\ ~closed
    BY <1>1, <1>3, <1>4, ThreadMoves DEF Enter, Go, Sleep, Became, ThreadType
  <2>2. TypeOK' /\ Credits' /\ Hands' /\ Watchdogs' /\ Slots' /\ Closing'
    BY <1>2, <1>4, <2>1 DEF TypeOK, Credits, Bounded, Hands, Watchdogs, Slots, Closing, Holding, Inside, Held, Queued, Watched
  <2>3. Sleepers'
    BY <1>1, <1>2, <1>4, <2>1, ThreadAssumption DEF Sleepers, Full
  <2>4. Staffed'
    BY <2>1 DEF Staffed, Full
  <2>5. QED
    BY <2>2, <2>3, <2>4
<1>5. ASSUME Go(t, "report"), UNCHANGED <<active, asleep>> PROVE ClientInv'
  <2>1. Became(t, "report", run[t].op) /\ GoesOn(t) /\ Holding(t)' /\ ~Inside(t)'
    BY <1>3, <1>5, ThreadMoves, Onwards DEF Go, Became, Holding, Inside
  <2>2. TypeOK'
    BY <1>2, <1>5, <2>1 DEF TypeOK, Became, ThreadType
  <2>3. Credits' /\ Hands'
    BY <1>1, <1>2, <2>1, CreditsStay
  <2>4. Watchdogs'
    BY <1>1, <1>2, <2>1, WatchdogsStay
  <2>5. Slots'
    BY <1>1, <1>5, <2>1, SlotsFollow DEF Slots, Insiders
  <2>6. Sleepers' /\ Staffed'
    BY <1>1, <1>2, <1>5, <2>1, QuietStep DEF Full, Became
  <2>7. Closing'
    BY <1>1, <1>2, <2>1, ClosingStays DEF Closing
  <2>8. QED
    BY <2>2, <2>3, <2>4, <2>5, <2>6, <2>7
<1>6. ASSUME Go(t, "arm"), active' = active + 1, ~Full, UNCHANGED asleep PROVE ClientInv'
  <2>1. Became(t, "arm", run[t].op) /\ GoesOn(t) /\ Holding(t)' /\ Inside(t)'
    BY <1>3, <1>6, ThreadMoves, Onwards DEF Go, Became, Holding, Inside
  <2>2. TypeOK'
    BY <1>2, <1>3, <1>6, <2>1 DEF TypeOK, Became, ThreadType, Full
  <2>3. Credits' /\ Hands'
    BY <1>1, <1>2, <2>1, CreditsStay
  <2>4. Watchdogs'
    BY <1>1, <1>2, <2>1, WatchdogsStay
  <2>5. Slots'
    BY <1>1, <1>6, <2>1, SlotsFollow DEF Slots, Insiders
  <2>6. Sleepers' /\ Staffed'
    BY <1>1, <1>2, <1>6, <2>1, QuietStep DEF Full, Became
  <2>7. Closing'
    BY <1>1, <1>2, <2>1, ClosingStays DEF Closing
  <2>8. QED
    BY <2>2, <2>3, <2>4, <2>5, <2>6, <2>7
<1>7. \/ run' = run
      \/ Go(t, "report") /\ UNCHANGED <<active, asleep>>
      \/ Go(t, "arm") /\ active' = active + 1 /\ ~Full /\ UNCHANGED asleep
  BY DEF Enter
<1>8. QED
  BY <1>4, <1>5, <1>6, <1>7

(* A step of a thread inside _execute() that neither takes nor gives a     *)
(* slot; whose watchdog, if it has one before or after, is its own.        *)
LEMMA InsideStep ==
  ASSUME ClientInv, NEW t \in Runners, NEW p, p # "enter",
         Became(t, p, run[t].op), Inside(t), Inside(t)', Awake(t),
         UNCHANGED <<operations, queue, future, cancelled, plan, late, closed, stopped, active, fan, closer, asleep>>,
         pool' \in 0..PoolSize, pool' <= pool,
         timer' \in [Ops -> {"none", "armed", "firing"}],
         \A o \in Ops : o # run[t].op => timer'[o] = timer[o],
         timer'[run[t].op] # "none" => run'[t].at \in {"send", "again", "join"}
  PROVE  ClientInv'
<1> USE DEF ClientInv
<1>1. GoesOn(t) /\ Holding(t) /\ Holding(t)' /\ run[t].at \notin {"idle", "out"} /\ run'[t].at # "idle"
  BY Onwards DEF Holding, Inside
<1>2. TypeOK'
  BY DEF TypeOK, Became, ThreadType
<1>3. Credits' /\ Hands'
  BY <1>1, CreditsStay
<1>4. Watchdogs'
  <2>1. ASSUME NEW o \in Ops, Watched(o)'
        PROVE  \E u \in Runners : run'[u].at \in {"send", "again", "join"} /\ run'[u].op = o
    <3>1. CASE o = run[t].op
      BY <2>1, <3>1 DEF Watched, Became
    <3>2. CASE o # run[t].op
      <4>1. PICK u \in Runners : run[u].at \in {"send", "again", "join"} /\ run[u].op = o
        BY <2>1, <3>2 DEF Watchdogs, Watched
      <4>2. u # t /\ run'[u] = run[u]
        BY <3>2, <4>1 DEF Became
      <4>3. QED
        BY <4>1, <4>2
    <3>3. QED
      BY <3>1, <3>2
  <2>2. QED
    BY <2>1 DEF Watchdogs
<1>5. Slots'
  BY <1>1, SlotsFollow DEF Slots, Insiders
<1>6. Sleepers' /\ Staffed'
  BY <1>1, QuietStep DEF Full
<1>7. Closing'
  <2>1. closed => pool' = 0
    BY BoundAssumption DEF Closing, TypeOK
  <2>2. QED
    BY <1>1, <2>1, ClosingStays
<1>8. QED
  BY <1>2, <1>3, <1>4, <1>5, <1>6, <1>7

(* The watchdog is armed when the operation goes on the wire; the last     *)
(* attempt and an operation that is over lead to its join; what is joined  *)
(* has no watchdog.                                                        *)
LEMMA WireSteps ==
  ASSUME ClientInv, NEW t \in Runners, Arm(t) \/ Answered(t) \/ Interrupted(t) \/ Join(t)
  PROVE  ClientInv'
<1> USE DEF ClientInv
<1>1. active \in Nat /\ pool \in 0..PoolSize /\ PoolSize \in Nat /\ run[t].op \in Ops \cup {None} /\ run[t].keep \in BOOLEAN
  BY BoundAssumption DEF TypeOK
<1>2. ASSUME Inside(t), NEW o \in Ops, Watched(o), o = run[t].op PROVE run[t].at \in {"send", "again", "join"}
  <2>1. PICK u \in Runners : run[u].at \in {"send", "again", "join"} /\ run[u].op = o
    BY <1>2 DEF Watchdogs
  <2>2. u = t
    BY <1>2, <2>1 DEF Credits, Holding, Inside
  <2>3. QED
    BY <2>1, <2>2
<1>3. ASSUME Inside(t) PROVE run[t].op \in Ops
  <2>1. run[t].op \in operations
    BY <1>3 DEF Credits, Holding
  <2>2. QED
    BY <2>1, Threads DEF TypeOK
<1>4. timer \in [Ops -> {"none", "armed", "firing"}]
  BY DEF TypeOK
<1>5. CASE Arm(t)
  <2>1. Inside(t) /\ Awake(t) /\ run[t].at = "arm"
    BY <1>5 DEF Arm, At, Inside
  <2>2. UNCHANGED <<operations, queue, future, cancelled, plan, late, closed, stopped, active, pool, fan, closer, asleep>>
    BY <1>5 DEF Arm, life, wire
  <2>3. \/ Became(t, "join", run[t].op) /\ UNCHANGED timer
        \/ Became(t, "send", run[t].op) /\ timer' = [timer EXCEPT ![run[t].op] = "armed"]
    BY <1>5, <1>1, ThreadMoves DEF Arm, Go, Watch
  <2>4. CASE Became(t, "join", run[t].op) /\ UNCHANGED timer
    <3>1. Inside(t)' /\ run'[t].at = "join"
      BY <2>4 DEF Became, Inside
    <3>2. QED
      BY <1>1, <1>4, <2>1, <2>2, <2>4, <3>1, InsideStep
  <2>5. CASE Became(t, "send", run[t].op) /\ timer' = [timer EXCEPT ![run[t].op] = "armed"]
    <3>1. Inside(t)' /\ run'[t].at = "send"
      BY <2>5 DEF Became, Inside
    <3>2. timer' \in [Ops -> {"none", "armed", "firing"}] /\ \A o \in Ops : o # run[t].op => timer'[o] = timer[o]
      BY <1>4, <2>5
    <3>3. QED
      BY <1>1, <2>1, <2>2, <2>5, <3>1, <3>2, InsideStep
  <2>6. QED
    BY <2>3, <2>4, <2>5
<1>6. ASSUME NEW keep \in BOOLEAN, NEW again \in BOOLEAN, AttemptEnds(t, keep, again)
      PROVE  ClientInv'
  <2> DEFINE p == IF again THEN "again" ELSE "join"
  <2>1. Inside(t) /\ Awake(t) /\ run[t].at \in {"send", "again"}
    BY <1>6 DEF AttemptEnds, At, Inside
  <2>2. UNCHANGED <<operations, queue, future, cancelled, timer, plan, late, closed, stopped, active, fan, closer, asleep>>
    BY <1>6 DEF AttemptEnds, work, life
  <2>3. pool' \in 0..PoolSize /\ pool' <= pool
    BY <1>1, <1>6 DEF AttemptEnds, TakeConnection
  <2>4. p \in {"again", "join"}
    OBVIOUS
  <2>5. run' = [run EXCEPT ![t] = [@ EXCEPT !.at = p, !.keep = keep]]
    BY <1>6 DEF AttemptEnds
  <2> HIDE DEF p
  <2>6. Became(t, p, run[t].op)
    BY <1>1, <2>4, <2>5, ThreadMoves
  <2>7. Inside(t)' /\ run'[t].at \in {"send", "again", "join"} /\ p # "enter"
    BY <2>4, <2>6 DEF Became, Inside
  <2>8. QED
    BY <1>4, <2>1, <2>2, <2>3, <2>6, <2>7, InsideStep
<1>7. CASE Join(t)
  <2>1. Inside(t) /\ Awake(t) /\ run[t].at = "join" /\ run[t].op \in Ops
    BY <1>3, <1>7 DEF Join, At, Inside
  <2>2. UNCHANGED <<operations, queue, future, cancelled, plan, late, closed, stopped, active, pool, fan, closer, asleep>>
    BY <1>7 DEF Join, life, wire
  <2>3. Became(t, "give", run[t].op)
    <3>1. run[t] \in ThreadType /\ run \in [Runners -> ThreadType]
      BY DEF TypeOK, ThreadType
    <3>2. QED
      BY <1>7, <3>1 DEF Join, Became, ThreadType
  <2>4. Inside(t)'
    BY <2>3 DEF Became, Inside
  <2>5. timer' \in [Ops -> {"none", "armed", "firing"}] /\ \A o \in Ops : o # run[t].op => timer'[o] = timer[o]
    BY <1>4, <1>7, <2>1 DEF Join
  <2>6. timer'[run[t].op] = "none"
    BY <1>4, <1>7, <2>1 DEF Join, Joined
  <2>7. QED
    BY <1>1, <2>1, <2>2, <2>3, <2>4, <2>5, <2>6, InsideStep
<1>8. QED
  BY <1>5, <1>6, <1>7 DEF Answered, Interrupted

(* The slot is given back, everybody is told.                              *)
LEMMA GiveStep ==
  ASSUME ClientInv, NEW t \in Runners, Give(t)
  PROVE  ClientInv'
<1> USE DEF ClientInv
<1>1. run[t].at = "give" /\ Holding(t) /\ Inside(t)
  BY DEF Give, At, Holding, Inside
<1>2. UNCHANGED <<operations, queue, future, cancelled, timer, plan, late, closed, stopped, fan, closer>> /\ asleep' = {}
  BY DEF Give, work, life, AllRoused, NotifyAll
<1>3. active \in 0..MaxActive /\ MaxActive \in Nat /\ pool \in 0..PoolSize /\ PoolSize \in Nat /\ run[t].op \in Ops \cup {None}
  BY BoundAssumption DEF TypeOK
<1>4. Became(t, "report", run[t].op) /\ GoesOn(t) /\ Holding(t)' /\ ~Inside(t)'
  <2>1. run' = [run EXCEPT ![t] = [@ EXCEPT !.at = "report", !.keep = FALSE]]
    BY DEF Give
  <2>2. QED
    BY <1>3, <2>1, ThreadMoves, Onwards DEF Became, Holding, Inside
<1>5. Cardinality(Insiders) = active /\ Cardinality(Insiders') = active - 1 /\ active' = active - 1
  BY <1>1, <1>4, SlotsFollow DEF Slots, Insiders, Give
<1>6. Cardinality(Insiders') \in Nat
  <2>1. Insiders' \in SUBSET Runners
    BY DEF Insiders
  <2>2. QED
    BY <2>1, Finite
<1>7. Slots' /\ active' \in 0..MaxActive
  BY <1>3, <1>5, <1>6 DEF Slots, Insiders
<1>8. pool' \in 0..PoolSize /\ (closed => pool' = pool)
  BY <1>3 DEF Give, Pooled
<1>9. TypeOK'
  BY <1>2, <1>4, <1>7, <1>8 DEF TypeOK, Became, ThreadType
<1>10. Credits' /\ Hands'
  BY <1>1, <1>2, <1>4, CreditsStay
<1>11. Watchdogs'
  BY <1>1, <1>2, <1>4, WatchdogsStay
<1>12. Sleepers' /\ Staffed'
  BY <1>2, AllAwake
<1>13. Closing'
  BY <1>1, <1>2, <1>4, <1>8, ClosingStays DEF Closing
<1>14. QED
  BY <1>7, <1>9, <1>10, <1>11, <1>12, <1>13

(* An operation that ends gives its credit back, and only its own.         *)
LEMMA ReportStep ==
  ASSUME ClientInv, NEW t \in Runners, Report(t)
  PROVE  ClientInv'
<1> USE DEF ClientInv
<1> DEFINE o == run[t].op
           p == IF t \in Workers THEN "idle" ELSE "out"
<1>1. run[t].at = "report" /\ Holding(t) /\ ~Inside(t) /\ o \in operations /\ o \in Ops
  <2>1. run[t].at = "report" /\ Holding(t) /\ ~Inside(t)
    BY DEF Report, At, Holding, Inside
  <2>2. QED
    BY <2>1, Threads DEF Credits, TypeOK
<1>2. /\ UNCHANGED <<queue, timer, plan, late, closed, stopped, active, pool, fan, closer>>
      /\ asleep' = {} /\ operations' = operations \ {o} /\ cancelled' = cancelled \ {o}
      /\ future' = [future EXCEPT ![o] = "done"]
  BY DEF Report, life, wire, NotifyAll, Ended
<1>3. Became(t, p, None)
  <2>1. p \in {"idle", "out"}
    OBVIOUS
  <2>2. run' = [run EXCEPT ![t] = [@ EXCEPT !.at = p, !.op = None]]
    BY DEF Report
  <2> HIDE DEF p
  <2>3. QED
    BY <2>1, <2>2, ThreadMoves DEF Became
<1>4. ~Holding(t)' /\ ~Inside(t)' /\ run'[t].at \in {"idle", "out"} /\ run'[t].op = None
      /\ \A u \in Runners : u # t => run'[u] = run[u] /\ (Holding(u)' <=> Holding(u)) /\ (Inside(u)' <=> Inside(u))
  BY <1>3 DEF Became, Holding, Inside
<1> HIDE DEF p
<1>5. /\ future' \in [Ops -> {"none", "pending", "running", "cancelled", "done"}]
      /\ future'[o] = "done" /\ \A q \in Ops : q # o => future'[q] = future[q]
  BY <1>1, <1>2 DEF TypeOK
<1>6. TypeOK'
  BY <1>2, <1>3, <1>5 DEF TypeOK, Became, ThreadType
<1>7. Insiders' = Insiders
  BY <1>1, <1>4 DEF Insiders
<1>8. Slots'
  BY <1>2, <1>7 DEF Slots, Insiders
<1>9. \A q \in operations' : Held(q) => Held(q)'
  BY <1>2, <1>4 DEF Held
<1>10. Bounded'
  BY <1>2, FewerBounded DEF Credits
<1>11. \A i \in 1..Len(queue) : queue[i] # o
  <2>1. CASE t \in Workers
    BY <1>1, <2>1 DEF Credits
  <2>2. CASE t \in Callers
    <3>1. o \in Callers
      BY <1>1, <2>2, Threads DEF Credits
    <3>2. QED
      BY <3>1 DEF Credits
  <2>3. QED
    BY <2>1, <2>2, Threads
<1>12. Credits'
  <2>1. \A q \in operations' \cap Callers : Held(q)'
    BY <1>2, <1>9 DEF Credits
  <2>2. \A q \in operations' \cap Ranks :
          \/ future'[q] = "none" /\ fan'.at = "queue" /\ fan'.op = q
          \/ future'[q] = "pending" /\ Queued(q)'
          \/ future'[q] = "running" /\ Held(q)'
    BY <1>2, <1>5, <1>9, Threads DEF Credits, Queued
  <2>3. \A c \in Callers : future'[c] \in {"none", "done"} /\ run'[c].op \in {c, None}
    BY <1>4, <1>5, Threads DEF Credits
  <2>4. /\ \A u \in Runners : Holding(u)' => run'[u].op \in operations'
        /\ \A u \in Runners : ~Holding(u)' => run'[u].op = None
    BY <1>1, <1>2, <1>4 DEF Credits
  <2>5. \A w \in Workers : Holding(w)' => run'[w].op \in Ranks /\ future'[run'[w].op] = "running"
    <3>1. ASSUME NEW w \in Workers, Holding(w)'
          PROVE  run'[w].op \in Ranks /\ future'[run'[w].op] = "running"
      <4>1. w # t /\ w \in Runners /\ run'[w] = run[w] /\ Holding(w)
        BY <1>4, <3>1, Threads
      <4>2. run[w].op # o /\ run[w].op \in Ranks /\ future[run[w].op] = "running"
        BY <1>1, <4>1 DEF Credits
      <4>3. QED
        BY <1>5, <4>1, <4>2 DEF Ops
    <3>2. QED
      BY <3>1
  <2>6. \A u, v \in Runners : Holding(u)' /\ Holding(v)' /\ run'[u].op = run'[v].op => u = v
    BY <1>4 DEF Credits
  <2>7. /\ \A i \in 1..Len(queue') : queue'[i] \in operations' /\ future'[queue'[i]] = "pending"
        /\ \A i, k \in 1..Len(queue') : queue'[i] = queue'[k] => i = k
    BY <1>2, <1>5, <1>11, Threads DEF Credits, TypeOK
  <2>8. QED
    BY <1>10, <2>1, <2>2, <2>3, <2>4, <2>5, <2>6, <2>7 DEF Credits
<1>13. Hands'
  <2>1. fan.at = "queue" => fan.op # o
    BY <1>1, Threads DEF Hands, Credits
  <2>2. fan.at \in {"idle", "admit", "queue"} => o \notin fan.todo
    BY <1>1 DEF Hands
  <2>3. fan.at \in {"idle", "admit", "queue"} => fan.todo \subseteq Ops
    BY Threads DEF Hands
  <2>4. QED
    BY <1>2, <1>5, <2>1, <2>2, <2>3, Threads DEF Hands
<1>14. Watchdogs'
  BY <1>1, <1>2, <1>4 DEF Watchdogs, Watched
<1>15. Sleepers' /\ Staffed'
  BY <1>2, AllAwake
<1>16. Closing'
  <2>1. \A w \in Workers : run[w].at = "out" => run'[w].at = "out"
    BY <1>1, <1>4, Threads
  <2>2. QED
    BY <1>2, <2>1 DEF Closing
<1>17. QED
  BY <1>6, <1>8, <1>12, <1>13, <1>14, <1>15, <1>16

-----------------------------------------------------------------------------
(* Deadlines and timers; callers and workers between operations.           *)
LEMMA FewerAsleep ==
  ASSUME TypeOK, Sleepers, Staffed, UNCHANGED <<run, active, queue, closed>>, asleep' \subseteq asleep
  PROVE  Sleepers' /\ Staffed'
<1>1. Sleepers'
  BY DEF Sleepers, Full
<1>2. Ready \subseteq Ready'
  BY DEF Ready, Awake
<1>3. Len(queue) \in Nat
  BY LenProperties DEF TypeOK
<1>4. QED
  BY <1>1, <1>2, <1>3, StaffedStays DEF Full, Awake

LEMMA TimerSteps ==
  ASSUME ClientInv, NEW o \in Ops, Deadline(o) \/ TimerFires(o) \/ TimerAborts(o)
  PROVE  ClientInv'
<1> USE DEF ClientInv
<1>1. UNCHANGED <<operations, queue, future, plan, closed, stopped, active, pool, run, fan, closer>>
  BY DEF Deadline, TimerFires, TimerAborts, life, wire, work
<1>2. /\ asleep' \subseteq asleep /\ late' \subseteq Ops /\ cancelled' \subseteq Ops
      /\ timer' \in [Ops -> {"none", "armed", "firing"}]
      /\ \A q \in Ops : Watched(q)' => Watched(q)
  <2>1. Ranks \subseteq Ops /\ late \subseteq Ops /\ cancelled \subseteq Ops
        /\ timer \in [Ops -> {"none", "armed", "firing"}]
    BY DEF Ops, TypeOK
  <2>2. QED
    BY <2>1 DEF Deadline, TimerFires, TimerAborts, work, life, Watched
<1>3. TypeOK'
  BY <1>1, <1>2 DEF TypeOK
<1>4. Credits' /\ Hands' /\ Slots' /\ Closing'
  BY <1>1 DEF Credits, Bounded, Hands, Slots, Closing, Held, Queued, Holding, Inside
<1>5. Watchdogs'
  BY <1>1, <1>2 DEF Watchdogs
<1>6. QED
  BY <1>1, <1>2, <1>3, <1>4, <1>5, FewerAsleep

LEMMA RoomFacts ==
  ASSUME TypeOK, Room, NEW o \in plan
  PROVE  /\ operations \cup {o} \subseteq plan
         /\ Cardinality(operations \cup {o}) <= MaxPending[plan]
<1>1. operations \in SUBSET Ops
  BY Threads DEF TypeOK
<1>2. IsFiniteSet(operations) /\ Cardinality(operations) \in Nat
  BY <1>1, Finite
<1>3. Cardinality(operations \cup {o}) \in {Cardinality(operations), Cardinality(operations) + 1}
  BY <1>2, FS_AddElement
<1>4. QED
  BY <1>2, <1>3, CreditLimit DEF Room, TypeOK

LEMMA CallSteps ==
  ASSUME ClientInv, NEW c \in Callers, CallAdmit(c) \/ CallRefused(c)
  PROVE  ClientInv'
<1> USE DEF ClientInv
<1>1. /\ run[c].at = "idle" /\ Awake(c) /\ c \in plan /\ ~Holding(c) /\ ~Inside(c)
      /\ c \in Runners /\ c \in Ops /\ c \notin Ranks /\ c \notin Workers
  BY Threads DEF CallAdmit, CallRefused, At, Holding, Inside
<1>2. UNCHANGED <<queue, future, cancelled, timer, plan, late, closed, stopped, active, pool, fan, closer, asleep>>
  BY DEF CallAdmit, CallRefused, work, life, wire
<1>3. \/ operations' = operations /\ Became(c, "out", run[c].op)
      \/ operations' = operations \cup {c} /\ Became(c, "enter", c) /\ Room
  BY <1>1, ThreadMoves DEF CallAdmit, CallRefused, Go, work
<1>4. /\ operations' \subseteq plan /\ Bounded'
      /\ operations' \subseteq operations \cup {c} /\ operations \subseteq operations'
      /\ closed => operations' = operations
  BY <1>1, <1>2, <1>3, RoomFacts DEF TypeOK, Credits, Room, Bounded
<1>5. /\ \A u \in Runners : u # c => run'[u] = run[u] /\ (Holding(u)' <=> Holding(u)) /\ (Inside(u)' <=> Inside(u))
      /\ ~Inside(c)' /\ run'[c].at \in {"enter", "out"} /\ run'[c].op \in {c, None}
      /\ run' \in [Runners -> ThreadType]
      /\ (Holding(c)' /\ run'[c].op = c /\ c \in operations') \/ (~Holding(c)' /\ run'[c].op = None /\ operations' = operations)
  BY <1>1, <1>3 DEF Became, Holding, Inside, Credits
<1>6. TypeOK'
  BY <1>2, <1>4, <1>5 DEF TypeOK, ThreadType
<1>7. Insiders' = Insiders
  BY <1>1, <1>5 DEF Insiders
<1>8. \A o : Held(o) => Held(o)'
  BY <1>1, <1>5 DEF Held
<1>9. Credits'
  <2>1. \A o \in operations' \cap Callers : Held(o)'
    BY <1>1, <1>4, <1>5, <1>8 DEF Credits, Held
  <2>2. \A o \in operations' \cap Ranks :
          \/ future'[o] = "none" /\ fan'.at = "queue" /\ fan'.op = o
          \/ future'[o] = "pending" /\ Queued(o)'
          \/ future'[o] = "running" /\ Held(o)'
    BY <1>1, <1>2, <1>4, <1>8 DEF Credits, Queued
  <2>3. \A d \in Callers : future'[d] \in {"none", "done"} /\ run'[d].op \in {d, None}
    BY <1>2, <1>5, Threads DEF Credits
  <2>4. /\ \A u \in Runners : Holding(u)' => run'[u].op \in operations'
        /\ \A u \in Runners : ~Holding(u)' => run'[u].op = None
    BY <1>4, <1>5 DEF Credits
  <2>5. \A w \in Workers : Holding(w)' => run'[w].op \in Ranks /\ future'[run'[w].op] = "running"
    BY <1>1, <1>2, <1>5, Threads DEF Credits
  <2>6. \A u, v \in Runners : Holding(u)' /\ Holding(v)' /\ run'[u].op = run'[v].op => u = v
    <3>1. ASSUME NEW u \in Runners, u # c, Holding(u) PROVE run[u].op # c
      BY <1>1, <3>1, Threads DEF Credits
    <3>2. QED
      BY <1>5, <3>1 DEF Credits
  <2>7. /\ \A i \in 1..Len(queue') : queue'[i] \in operations' /\ future'[queue'[i]] = "pending"
        /\ \A i, k \in 1..Len(queue') : queue'[i] = queue'[k] => i = k
    BY <1>2, <1>4 DEF Credits
  <2>8. QED
    BY <1>4, <2>1, <2>2, <2>3, <2>4, <2>5, <2>6, <2>7 DEF Credits
<1>10. Hands'
  <2>1. fan.todo \subseteq Ranks
    BY DEF TypeOK
  <2>2. QED
    BY <1>1, <1>2, <1>4, <2>1 DEF Hands
<1>11. Watchdogs'
  BY <1>1, <1>2, <1>5 DEF Watchdogs, Watched
<1>12. Sleepers'
  BY <1>1, <1>2, <1>5 DEF Sleepers, Full, Awake
<1>13. Staffed'
  <2>1. Ready' = Ready
    BY <1>1, <1>2, <1>5, Threads DEF Ready, Awake
  <2>2. QED
    BY <1>1, <1>2, <1>5, <2>1, Threads DEF Staffed, Full, Awake
<1>14. Slots' /\ Closing'
  BY <1>1, <1>2, <1>4, <1>5, <1>7, Threads DEF Slots, Insiders, Closing
<1>15. QED
  BY <1>6, <1>9, <1>10, <1>11, <1>12, <1>13, <1>14

LEMMA TakeStep ==
  ASSUME ClientInv, NEW w \in Workers, WorkerTakes(w)
  PROVE  ClientInv'
<1> USE DEF ClientInv
<1>0. PICK o : o = Head(queue)
  OBVIOUS
<1>1. /\ run[w].at = "idle" /\ Awake(w) /\ ~Holding(w) /\ ~Inside(w) /\ w \in Runners /\ queue # <<>>
      /\ UNCHANGED <<operations, cancelled, timer, plan, late, closed, stopped, active, pool, fan, closer, asleep>>
      /\ queue' = Tail(queue) /\ future' = [future EXCEPT ![o] = "running"]
  BY <1>0, Threads DEF WorkerTakes, At, Holding, Inside, life, wire
<1>2. /\ Len(queue) \in Nat \ {0} /\ Len(queue') = Len(queue) - 1 /\ queue' \in Seq(Ranks)
      /\ o \in Ranks /\ o = queue[1]
      /\ \A i \in 1..Len(queue') : queue'[i] = queue[i + 1]
  <2>1. queue \in Seq(Ranks)
    BY DEF TypeOK
  <2>2. QED
    BY <1>0, <1>1, <2>1, HeadTailProperties, LenProperties
<1>3. o \in Ops /\ o \in operations /\ future[o] = "pending" /\ 1 \in 1..Len(queue)
  BY <1>2 DEF Credits, Ops
<1>4. Became(w, "enter", o)
  BY <1>0, <1>1, <1>3, ThreadMoves DEF WorkerTakes
<1>5. /\ \A u \in Runners : u # w => run'[u] = run[u] /\ (Holding(u)' <=> Holding(u)) /\ (Inside(u)' <=> Inside(u))
      /\ ~Inside(w)' /\ Holding(w)' /\ run'[w].at = "enter" /\ run'[w].op = o
      /\ run' \in [Runners -> ThreadType]
  BY <1>1, <1>4 DEF Became, Holding, Inside
<1>6. /\ future' \in [Ops -> {"none", "pending", "running", "cancelled", "done"}]
      /\ future'[o] = "running" /\ \A q \in Ops : q # o => future'[q] = future[q]
  BY <1>1, <1>3 DEF TypeOK
<1>7. TypeOK'
  BY <1>1, <1>2, <1>5, <1>6 DEF TypeOK, ThreadType
<1>8. Insiders' = Insiders
  BY <1>1, <1>5 DEF Insiders
<1>9. \A q : Held(q) => Held(q)'
  BY <1>1, <1>5 DEF Held
<1>10. \A i \in 1..Len(queue') : i + 1 \in 1..Len(queue) /\ queue'[i] = queue[i + 1] /\ queue'[i] # o
  BY <1>2 DEF Credits
<1>11. \A q : q # o /\ Queued(q) => Queued(q)'
  <2>1. ASSUME NEW q, q # o, NEW i \in 1..Len(queue), queue[i] = q PROVE Queued(q)'
    <3>1. i - 1 \in 1..Len(queue') /\ (i - 1) + 1 = i
      BY <1>2, <2>1
    <3>2. queue'[i - 1] = q
      BY <1>2, <2>1, <3>1
    <3>3. QED
      BY <3>1, <3>2 DEF Queued
  <2>2. QED
    BY <2>1 DEF Queued
<1>12. \A u \in Runners : Holding(u) => run[u].op # o
  <2>1. ASSUME NEW u \in Runners, Holding(u), run[u].op = o PROVE FALSE
    <3>1. u \in Workers
      BY <1>2, <1>3, <2>1, Threads DEF Credits
    <3>2. QED
      BY <1>3, <2>1, <3>1 DEF Credits
  <2>2. QED
    BY <2>1
<1>13. Credits'
  <2>1. \A q \in operations' \cap Callers : Held(q)'
    BY <1>1, <1>9 DEF Credits
  <2>2. \A q \in operations' \cap Ranks :
          \/ future'[q] = "none" /\ fan'.at = "queue" /\ fan'.op = q
          \/ future'[q] = "pending" /\ Queued(q)'
          \/ future'[q] = "running" /\ Held(q)'
    <3>1. TAKE q \in operations' \cap Ranks
    <3>2. CASE q = o
      BY <1>1, <1>5, <1>6, <3>2 DEF Held
    <3>3. CASE q # o
      BY <1>1, <1>6, <1>9, <1>11, <3>3 DEF Credits, Ops
    <3>4. QED
      BY <3>2, <3>3
  <2>3. \A d \in Callers : future'[d] \in {"none", "done"} /\ run'[d].op \in {d, None}
    BY <1>2, <1>5, <1>6, Threads DEF Credits
  <2>4. /\ \A u \in Runners : Holding(u)' => run'[u].op \in operations'
        /\ \A u \in Runners : ~Holding(u)' => run'[u].op = None
    BY <1>1, <1>3, <1>5 DEF Credits
  <2>5. \A v \in Workers : Holding(v)' => run'[v].op \in Ranks /\ future'[run'[v].op] = "running"
    <3>1. TAKE v \in Workers
    <3>2. CASE v = w
      BY <1>2, <1>5, <1>6, <3>2
    <3>3. CASE v # w
      BY <1>5, <1>6, <1>12, <3>3, Threads DEF Credits, Ops
    <3>4. QED
      BY <3>2, <3>3
  <2>6. \A u, v \in Runners : Holding(u)' /\ Holding(v)' /\ run'[u].op = run'[v].op => u = v
    BY <1>5, <1>12 DEF Credits
  <2>7. /\ \A i \in 1..Len(queue') : queue'[i] \in operations' /\ future'[queue'[i]] = "pending"
        /\ \A i, k \in 1..Len(queue') : queue'[i] = queue'[k] => i = k
    <3>1. \A i \in 1..Len(queue) : queue[i] \in Ops
      BY Threads DEF Credits, TypeOK
    <3>2. \A i \in 1..Len(queue') : queue'[i] \in operations' /\ future'[queue'[i]] = "pending"
      BY <1>1, <1>6, <1>10, <3>1 DEF Credits
    <3>3. ASSUME NEW i \in 1..Len(queue'), NEW k \in 1..Len(queue'), queue'[i] = queue'[k] PROVE i = k
      <4>1. i + 1 = k + 1
        BY <1>10, <3>3 DEF Credits
      <4>2. QED
        BY <1>2, <4>1
    <3>4. QED
      BY <3>2, <3>3
  <2>8. QED
    BY <1>1, <2>1, <2>2, <2>3, <2>4, <2>5, <2>6, <2>7 DEF Credits, Bounded
<1>14. Hands'
  <2>1. fan.at = "queue" => fan.op # o
    BY <1>3 DEF Hands
  <2>2. fan.at \in {"idle", "admit", "queue"} => o \notin fan.todo
    BY <1>3 DEF Hands
  <2>3. fan.todo \subseteq Ops /\ Ranks \subseteq Ops
    BY DEF TypeOK, Ops
  <2>4. QED
    BY <1>1, <1>6, <2>1, <2>2, <2>3 DEF Hands
<1>15. Watchdogs'
  BY <1>1, <1>5 DEF Watchdogs, Watched
<1>16. Sleepers'
  BY <1>1, <1>5 DEF Sleepers, Full, Awake
<1>17. Staffed'
  <2>1. Ready' = Ready \ {w} /\ w \in Ready
    BY <1>1, <1>5, Threads DEF Ready, Awake
  <2>2. IsFiniteSet(Ready) /\ Cardinality(Ready) \in Nat
    <3>1. Ready \in SUBSET Workers
      BY DEF Ready
    <3>2. QED
      BY <3>1, Finite
  <2>3. Cardinality(Ready') = Cardinality(Ready) - 1
    BY <2>1, <2>2, FS_RemoveElement
  <2>4. (\A v \in Workers : run[v].at = "idle" => Awake(v)) => \A v \in Workers : run'[v].at = "idle" => Awake(v)'
    BY <1>1, <1>5, Threads DEF Awake
  <2>5. Len(queue) <= Cardinality(Ready) => Len(queue') <= Cardinality(Ready')
    BY <1>2, <2>2, <2>3
  <2>6. Full' <=> Full
    BY <1>1 DEF Full
  <2>7. QED
    BY <2>4, <2>5, <2>6 DEF Staffed
<1>18. Slots' /\ Closing'
  BY <1>1, <1>5, <1>8, Threads DEF Slots, Insiders, Closing
<1>19. QED
  BY <1>7, <1>13, <1>14, <1>15, <1>16, <1>17, <1>18

(* A worker without work sleeps, or ends when the client is closed.        *)
LEMMA RestSteps ==
  ASSUME ClientInv, NEW w \in Workers, WorkerSleeps(w) \/ WorkerEnds(w)
  PROVE  ClientInv'
<1> USE DEF ClientInv
<1>1. /\ run[w].at = "idle" /\ Awake(w) /\ ~Holding(w) /\ ~Inside(w) /\ w \in Runners /\ queue = <<>>
      /\ UNCHANGED <<operations, queue, future, cancelled, timer, plan, late, closed, stopped, active, pool, fan, closer>>
  BY Threads DEF WorkerSleeps, WorkerEnds, At, Holding, Inside, work, life, wire
<1>2. CASE WorkerSleeps(w)
  <2>1. run' = run /\ asleep' = asleep \cup {w} /\ ~closed
    BY <1>2 DEF WorkerSleeps, Sleep
  <2>2. TypeOK' /\ Credits' /\ Hands' /\ Watchdogs' /\ Slots' /\ Closing'
    BY <1>1, <2>1 DEF TypeOK, Credits, Bounded, Hands, Watchdogs, Slots, Closing, Holding, Inside, Held, Queued, Watched
  <2>3. Sleepers'
    BY <1>1, <2>1, ThreadAssumption DEF Sleepers, Full
  <2>4. Staffed'
    <3>1. Ready' \in SUBSET Workers /\ Len(queue') = 0
      BY <1>1 DEF Ready
    <3>2. Cardinality(Ready') \in Nat
      BY <3>1, Finite
    <3>3. QED
      BY <3>1, <3>2 DEF Staffed
  <2>5. QED
    BY <2>2, <2>3, <2>4
<1>3. CASE WorkerEnds(w)
  <2>1. Became(w, "out", run[w].op) /\ asleep' = asleep /\ closed
    <3>1. run[w].op \in Ops \cup {None}
      BY <1>1 DEF TypeOK
    <3>2. QED
      BY <1>1, <1>3, <3>1, ThreadMoves DEF WorkerEnds, Go
  <2>2. /\ \A u \in Runners : (Holding(u)' <=> Holding(u)) /\ (Inside(u)' <=> Inside(u)) /\ run'[u].op = run[u].op
        /\ \A u \in Runners : u # w => run'[u] = run[u]
        /\ run'[w].at = "out" /\ run' \in [Runners -> ThreadType]
    BY <1>1, <2>1 DEF Became, Holding, Inside
  <2>3. TypeOK'
    BY <1>1, <2>1, <2>2 DEF TypeOK, ThreadType
  <2>4. \A q : Held(q)' <=> Held(q)
    BY <2>2 DEF Held
  <2>5. Credits'
    BY <1>1, <2>2, <2>4, Threads DEF Credits, Bounded, Queued
  <2>6. Insiders' = Insiders
    BY <2>2 DEF Insiders
  <2>7. Hands' /\ Slots' /\ Closing'
    BY <1>1, <2>2, <2>6, Threads DEF Hands, Slots, Insiders, Closing
  <2>8. Watchdogs'
    BY <1>1, <2>2 DEF Watchdogs, Watched
  <2>9. Sleepers' /\ Staffed'
    BY <1>1, <2>1, <2>2, Threads DEF Sleepers, Staffed, Awake, Full
  <2>10. QED
    BY <2>3, <2>5, <2>7, <2>8, <2>9
<1>4. QED
  BY <1>2, <1>3

-----------------------------------------------------------------------------
(* _cancel(): what is queued is taken out and its credit given back.       *)
FutureType == [Ops -> {"none", "pending", "running", "cancelled", "done"}]

LEMMA CreditsSame ==
  ASSUME Credits, UNCHANGED <<operations, queue, future, run, plan>>, fan.at = "queue" => fan' = fan
  PROVE  Credits'
<1>1. \A o \in operations \cap Ranks :
        \/ future[o] = "none" /\ fan'.at = "queue" /\ fan'.op = o
        \/ future[o] = "pending" /\ Queued(o)
        \/ future[o] = "running" /\ Held(o)
  BY DEF Credits
<1>2. \A o : (Held(o)' <=> Held(o)) /\ (Queued(o)' <=> Queued(o))
  BY DEF Held, Queued, Holding, Inside
<1>3. \A t : Holding(t)' <=> Holding(t)
  BY DEF Holding, Inside
<1>4. \A o \in operations' \cap Ranks :
        \/ future'[o] = "none" /\ fan'.at = "queue" /\ fan'.op = o
        \/ future'[o] = "pending" /\ Queued(o)'
        \/ future'[o] = "running" /\ Held(o)'
  BY <1>1, <1>2
<1>5. \A o \in operations' \cap Callers : Held(o)'
  BY <1>2 DEF Credits
<1>6. /\ \A t \in Runners : Holding(t)' => run'[t].op \in operations'
      /\ \A t \in Runners : ~Holding(t)' => run'[t].op = None
      /\ \A w \in Workers : Holding(w)' => run'[w].op \in Ranks /\ future'[run'[w].op] = "running"
      /\ \A t, u \in Runners : Holding(t)' /\ Holding(u)' /\ run'[t].op = run'[u].op => t = u
  BY <1>3 DEF Credits
<1>7. QED
  BY <1>4, <1>5, <1>6 DEF Credits, Bounded

LEMMA Dequeued ==
  ASSUME ClientInv, NEW o \in Ops, Dequeue(o),
         UNCHANGED <<timer, plan, late, closed, stopped, active, pool, run>>,
         fan' = fan \/ fan.at = "cancel"
  PROVE  /\ operations' \subseteq operations /\ cancelled' \subseteq cancelled /\ asleep' = {}
         /\ queue' \in Seq(Ranks) /\ future' \in FutureType
         /\ \A q \in Ops : future[q] = "none" => future'[q] = "none"
         /\ Credits' /\ Watchdogs' /\ Slots' /\ Sleepers' /\ Staffed'
<1> USE DEF ClientInv
<1>1. /\ queue \in Seq(Ranks) /\ Len(queue) \in Nat /\ future \in FutureType
      /\ operations \in SUBSET Ops /\ IsFiniteSet(operations) /\ Cardinality(operations) \in Nat
  <2>1. queue \in Seq(Ranks) /\ future \in FutureType /\ operations \in SUBSET Ops
    BY Threads DEF TypeOK, FutureType
  <2>2. QED
    BY <2>1, LenProperties, Finite
<1>2. asleep' = {} /\ Sleepers' /\ Staffed' /\ Watchdogs' /\ Slots'
  <2>1. asleep' = {}
    BY DEF Dequeue, Completed, NotifyAll
  <2>2. QED
    BY <2>1, AllAwake DEF Watchdogs, Watched, Slots, Inside
<1>3. \A u \in Runners : (Holding(u)' <=> Holding(u)) /\ run'[u] = run[u]
  BY DEF Holding, Inside
<1>4. \A q : Held(q)' <=> Held(q)
  BY <1>3 DEF Held
<1>5. CASE future[o] # "pending"
  <2>1. UNCHANGED <<future, queue, operations, cancelled>>
    BY <1>5 DEF Dequeue
  <2>2. Credits'
    BY <2>1, CreditsSame
  <2>3. QED
    BY <1>1, <1>2, <2>1, <2>2
<1>6. CASE future[o] = "pending"
  <2>1. /\ future' = [future EXCEPT ![o] = "cancelled"] /\ queue' = Removed(o)
        /\ operations' = operations \ {o} /\ cancelled' = cancelled \ {o}
    BY <1>6 DEF Dequeue, Completed, Ended
  <2>2. o \in Ranks /\ o \notin Callers
    BY <1>6, Threads DEF Credits
  <2> DEFINE Shorter ==
        /\ queue' \in Seq(Ranks) /\ Len(queue') \in Nat /\ Len(queue') <= Len(queue)
        /\ \A i \in 1..Len(queue') : \E k \in 1..Len(queue) : queue'[i] = queue[k] /\ queue[k] # o
        /\ \A i, k \in 1..Len(queue') : queue'[i] = queue'[k] => i = k
        /\ \A q : q # o /\ Queued(q) => Queued(q)'
  <2>3. Shorter
    <3>1. CASE \A i \in 1..Len(queue) : queue[i] # o
      <4>1. queue' = queue
        BY <2>1, <3>1 DEF Removed, RemoveFirst
      <4>2. QED
        BY <1>1, <3>1, <4>1 DEF Credits, Queued
    <3>2. ASSUME NEW n \in 1..Len(queue), queue[n] = o PROVE Shorter
      <4>1. /\ queue' \in Seq(Ranks) /\ Len(queue') = Len(queue) - 1
            /\ \A i \in 1..Len(queue') : queue'[i] = queue[IF i < n THEN i ELSE i + 1]
        BY <1>1, <2>1, <2>2, <3>2, RemovedFacts DEF Credits
      <4>2. \A i \in 1..Len(queue') :
              (IF i < n THEN i ELSE i + 1) \in 1..Len(queue) /\ (IF i < n THEN i ELSE i + 1) # n
        BY <1>1, <4>1
      <4>3. ASSUME NEW i \in 1..Len(queue')
            PROVE  \E k \in 1..Len(queue) : queue'[i] = queue[k] /\ queue[k] # o
        BY <3>2, <4>1, <4>2 DEF Credits
      <4>4. ASSUME NEW i \in 1..Len(queue'), NEW k \in 1..Len(queue'), queue'[i] = queue'[k] PROVE i = k
        <5>1. (IF i < n THEN i ELSE i + 1) = (IF k < n THEN k ELSE k + 1)
          BY <4>1, <4>2, <4>4 DEF Credits
        <5>2. QED
          BY <5>1
      <4>5. ASSUME NEW q, q # o, Queued(q) PROVE Queued(q)'
        <5>1. PICK i \in 1..Len(queue) : queue[i] = q
          BY <4>5 DEF Queued
        <5>2. i # n
          BY <3>2, <4>5, <5>1
        <5>3. CASE i < n
          <6>1. i \in 1..Len(queue') /\ queue'[i] = q
            BY <1>1, <4>1, <5>1, <5>3
          <6>2. QED
            BY <6>1 DEF Queued
        <5>4. CASE i > n
          <6>1. i - 1 \in 1..Len(queue') /\ ~(i - 1 < n) /\ (i - 1) + 1 = i
            BY <1>1, <4>1, <5>1, <5>4
          <6>2. queue'[i - 1] = q
            BY <4>1, <5>1, <6>1
          <6>3. QED
            BY <6>1, <6>2 DEF Queued
        <5>5. QED
          BY <5>2, <5>3, <5>4
      <4>6. QED
        BY <1>1, <4>1, <4>3, <4>4, <4>5
    <3>3. QED
      BY <3>1, <3>2
  <2>4. /\ future' \in FutureType /\ future'[o] = "cancelled"
        /\ \A q \in Ops : q # o => future'[q] = future[q]
    BY <1>1, <2>1 DEF FutureType
  <2>5. Bounded'
    BY <2>1, FewerBounded DEF Credits
  <2>6. \A u \in Runners : Holding(u) => run[u].op # o
    <3>1. ASSUME NEW u \in Runners, Holding(u), run[u].op = o PROVE FALSE
      <4>1. u \in Workers
        BY <2>2, <3>1, Threads DEF Credits
      <4>2. QED
        BY <1>6, <3>1, <4>1 DEF Credits
    <3>2. QED
      BY <3>1
  <2>7. Credits'
    <3>1. \A q \in operations' \cap Callers : Held(q)'
      BY <1>4, <2>1 DEF Credits
    <3>2. \A q \in operations' \cap Ranks :
            \/ future'[q] = "none" /\ fan'.at = "queue" /\ fan'.op = q
            \/ future'[q] = "pending" /\ Queued(q)'
            \/ future'[q] = "running" /\ Held(q)'
      BY <1>4, <2>1, <2>3, <2>4 DEF Credits, Ops
    <3>3. \A c \in Callers : future'[c] \in {"none", "done"} /\ run'[c].op \in {c, None}
      BY <2>2, <2>4, Threads DEF Credits
    <3>4. /\ \A u \in Runners : Holding(u)' => run'[u].op \in operations'
          /\ \A u \in Runners : ~Holding(u)' => run'[u].op = None
      BY <1>3, <2>1, <2>6 DEF Credits
    <3>5. \A w \in Workers : Holding(w)' => run'[w].op \in Ranks /\ future'[run'[w].op] = "running"
      BY <1>3, <2>4, <2>6, Threads DEF Credits, Ops
    <3>6. \A u, v \in Runners : Holding(u)' /\ Holding(v)' /\ run'[u].op = run'[v].op => u = v
      BY <1>3 DEF Credits
    <3>7. \A i \in 1..Len(queue') : queue'[i] \in operations' /\ future'[queue'[i]] = "pending"
      <4>1. ASSUME NEW i \in 1..Len(queue') PROVE queue'[i] \in operations' /\ future'[queue'[i]] = "pending"
        <5>1. PICK k \in 1..Len(queue) : queue'[i] = queue[k] /\ queue[k] # o
          BY <2>3, <4>1
        <5>2. queue[k] \in operations /\ future[queue[k]] = "pending" /\ queue[k] \in Ops
          BY <1>1 DEF Credits
        <5>3. QED
          BY <2>1, <2>4, <5>1, <5>2
      <4>2. QED
        BY <4>1
    <3>8. QED
      BY <2>3, <2>5, <3>1, <3>2, <3>3, <3>4, <3>5, <3>6, <3>7 DEF Credits
  <2>8. QED
    BY <1>2, <1>6, <2>1, <2>3, <2>4, <2>7
<1>7. QED
  BY <1>5, <1>6

(* A step of fanout() or shutdown() that leaves the books alone.           *)
LEMMA BooksAlone ==
  ASSUME ClientInv, TypeOK', Hands', Closing',
         UNCHANGED <<operations, queue, future, timer, plan, closed, active, run, asleep>>,
         fan.at = "queue" => fan' = fan
  PROVE  ClientInv'
<1> USE DEF ClientInv
<1>1. \A u \in Runners : (Holding(u)' <=> Holding(u)) /\ (Inside(u)' <=> Inside(u)) /\ run'[u] = run[u]
  BY DEF Holding, Inside
<1>3. Credits'
  BY CreditsSame
<1>4. Watchdogs' /\ Slots'
  BY <1>1 DEF Watchdogs, Watched, Slots, Inside
<1>5. Sleepers' /\ Staffed'
  BY FewerAsleep
<1>6. QED
  BY <1>3, <1>4, <1>5

-----------------------------------------------------------------------------
(* fanout().                                                               *)
FanType == [at : {"idle", "admit", "queue", "collect", "cancel", "out"}, todo : SUBSET Ranks,
            op : Ranks \cup {None}]

LEMMA FanMoves ==
  ASSUME ClientInv,
         FanStarts \/ FanAllQueued \/ FanReturns
           \/ (\E r \in Ranks : FanRefused(r) \/ FanCollects(r) \/ FanTimesOut(r))
  PROVE  ClientInv'
<1> USE DEF ClientInv
<1>1. /\ UNCHANGED <<operations, queue, future, timer, plan, late, closed, stopped, active, pool, run, closer, asleep>>
      /\ fan.at # "queue"
  BY DEF FanStarts, FanAllQueued, FanReturns, FanRefused, FanCollects, FanTimesOut, work, life, wire
<1>2. fan \in FanType
  BY DEF TypeOK, FanType
<1>3. /\ fan' \in FanType /\ cancelled' \subseteq Ops /\ fan'.at # "queue"
      /\ fan'.at \in {"idle", "admit"} => fan.at \in {"idle", "admit"} /\ fan'.todo \subseteq fan.todo
      /\ fan'.at = "cancel" => fan'.op \in Ranks
  <2>1. CASE FanStarts
    BY <1>2, <2>1 DEF FanStarts, FanType, work, TypeOK
  <2>2. CASE FanAllQueued
    BY <1>2, <2>2 DEF FanAllQueued, FanType, work, TypeOK
  <2>3. CASE FanReturns
    BY <1>2, <2>3 DEF FanReturns, FanType, work, TypeOK
  <2>4. CASE \E r \in Ranks : FanRefused(r) \/ FanCollects(r)
    BY <1>2, <2>4 DEF FanRefused, FanCollects, FanType, work, TypeOK
  <2>5. CASE \E r \in Ranks : FanTimesOut(r)
    BY <1>2, <2>5 DEF FanTimesOut, Abort, FanType, TypeOK, Ops
  <2>6. QED
    BY <2>1, <2>2, <2>3, <2>4, <2>5
<1>4. TypeOK'
  BY <1>1, <1>3 DEF TypeOK, FanType
<1>5. Hands' /\ Closing'
  BY <1>1, <1>3 DEF Hands, Closing
<1>6. QED
  BY <1>1, <1>4, <1>5, BooksAlone

LEMMA FanAdmitStep ==
  ASSUME ClientInv, NEW r \in Ranks, FanAdmits(r)
  PROVE  ClientInv'
<1> USE DEF ClientInv
<1>1. /\ fan.at = "admit" /\ r \in fan.todo /\ ~closed /\ Room
      /\ operations' = operations \cup {r}
      /\ fan' = [at |-> "queue", todo |-> fan.todo \ {r}, op |-> r]
      /\ UNCHANGED <<queue, future, cancelled, timer, plan, late, closed, stopped, active, pool, run, closer, asleep>>
  BY DEF FanAdmits, Room, life, wire
<1>2. r \in plan /\ future[r] = "none" /\ r \notin operations /\ r \notin Callers
  BY <1>1, ThreadAssumption DEF Hands
<1>3. operations' \subseteq plan /\ Bounded'
  BY <1>1, <1>2, RoomFacts DEF TypeOK, Bounded
<1>4. fan \in FanType /\ fan' \in FanType
  BY <1>1 DEF TypeOK, FanType
<1>5. TypeOK'
  BY <1>1, <1>3, <1>4 DEF TypeOK, FanType
<1>6. \A t \in Runners : (Holding(t)' <=> Holding(t)) /\ (Inside(t)' <=> Inside(t)) /\ run'[t] = run[t]
  BY <1>1 DEF Holding, Inside
<1>7. \A o : (Held(o)' <=> Held(o)) /\ (Queued(o)' <=> Queued(o))
  BY <1>1, <1>6 DEF Held, Queued
<1>8. Credits'
  <2>1. \A o \in operations' \cap Callers : Held(o)'
    BY <1>1, <1>2, <1>7 DEF Credits
  <2>2. \A o \in operations' \cap Ranks :
          \/ future'[o] = "none" /\ fan'.at = "queue" /\ fan'.op = o
          \/ future'[o] = "pending" /\ Queued(o)'
          \/ future'[o] = "running" /\ Held(o)'
    BY <1>1, <1>2, <1>7 DEF Credits
  <2>3. /\ \A t \in Runners : Holding(t)' => run'[t].op \in operations'
        /\ \A t \in Runners : ~Holding(t)' => run'[t].op = None
        /\ \A w \in Workers : Holding(w)' => run'[w].op \in Ranks /\ future'[run'[w].op] = "running"
        /\ \A t, u \in Runners : Holding(t)' /\ Holding(u)' /\ run'[t].op = run'[u].op => t = u
    BY <1>1, <1>6, Threads DEF Credits
  <2>4. /\ \A c \in Callers : future'[c] \in {"none", "done"} /\ run'[c].op \in {c, None}
        /\ \A i \in 1..Len(queue') : queue'[i] \in operations' /\ future'[queue'[i]] = "pending"
        /\ \A i, k \in 1..Len(queue') : queue'[i] = queue'[k] => i = k
    BY <1>1 DEF Credits
  <2>5. QED
    BY <1>3, <2>1, <2>2, <2>3, <2>4 DEF Credits
<1>9. Hands'
  BY <1>1, <1>2 DEF Hands
<1>10. Watchdogs' /\ Slots' /\ Closing'
  BY <1>1, <1>6 DEF Watchdogs, Watched, Slots, Inside, Closing
<1>11. Sleepers' /\ Staffed'
  BY <1>1, FewerAsleep
<1>12. QED
  BY <1>5, <1>8, <1>9, <1>10, <1>11

(* notify(): when a slot is free, the one who wakes is a worker.           *)
LEMMA QueueStep ==
  ASSUME ClientInv, FanQueues
  PROVE  ClientInv'
<1> USE DEF ClientInv
<1>0. PICK r : r = fan.op
  OBVIOUS
<1>1. /\ fan.at = "queue" /\ r \in operations /\ r \in Ranks /\ r \in Ops /\ r \notin fan.todo /\ future[r] = "none" /\ r \notin Callers
      /\ UNCHANGED <<timer, plan, late, closed, stopped, active, pool, run, closer>>
      /\ fan' = [fan EXCEPT !.at = "admit", !.op = None]
  BY <1>0, ThreadAssumption DEF FanQueues, Hands, life, wire, Ops
<1>2. fan' \in FanType /\ fan'.at = "admit" /\ fan'.todo = fan.todo /\ fan.todo \subseteq Ops /\ fan.todo \subseteq plan
  <2>1. fan \in FanType
    BY DEF TypeOK, FanType
  <2>2. QED
    BY <1>1, <2>1 DEF FanType, Hands, Ops
<1>3. /\ queue \in Seq(Ranks) /\ Len(queue) \in Nat /\ future \in FutureType
      /\ operations \in SUBSET Ops /\ IsFiniteSet(operations) /\ Cardinality(operations) \in Nat
  <2>1. queue \in Seq(Ranks) /\ future \in FutureType /\ operations \in SUBSET Ops
    BY Threads DEF TypeOK, FutureType
  <2>2. QED
    BY <2>1, LenProperties, Finite
<1>4. \A t \in Runners : (Holding(t)' <=> Holding(t)) /\ (Inside(t)' <=> Inside(t)) /\ run'[t] = run[t]
  BY <1>1 DEF Holding, Inside
<1>5. \A o : Held(o)' <=> Held(o)
  BY <1>4 DEF Held
<1>6. Watchdogs' /\ Slots'
  BY <1>1, <1>4 DEF Watchdogs, Watched, Slots, Inside
<1>7. \A t \in Runners : Holding(t) => run[t].op # r
  <2>1. ASSUME NEW t \in Runners, Holding(t), run[t].op = r PROVE FALSE
    <3>1. t \in Workers
      BY <1>1, <2>1, Threads DEF Credits
    <3>2. QED
      BY <1>1, <2>1, <3>1 DEF Credits
  <2>2. QED
    BY <2>1
<1>8. \A i \in 1..Len(queue) : queue[i] # r /\ queue[i] \in Ops
  BY <1>1, <1>3 DEF Credits
<1>9. CASE closed
  <2>1. /\ future' = [future EXCEPT ![r] = "cancelled"] /\ queue' = queue
        /\ operations' = operations \ {r} /\ cancelled' = cancelled \ {r} /\ asleep' = {}
    BY <1>0, <1>9 DEF FanQueues, Completed, Ended, NotifyAll
  <2>2. /\ future' \in FutureType /\ future'[r] = "cancelled"
        /\ \A o \in Ops : o # r => future'[o] = future[o]
    BY <1>1, <1>3, <2>1 DEF FutureType
  <2>3. TypeOK'
    BY <1>1, <1>2, <2>1, <2>2 DEF TypeOK, FanType, FutureType
  <2>4. Bounded'
    BY <1>1, <2>1, FewerBounded DEF Credits
  <2>5. Credits'
    <3>1. \A o \in operations' \cap Callers : Held(o)'
      BY <1>5, <2>1 DEF Credits
    <3>2. \A o \in operations' \cap Ranks :
            \/ future'[o] = "none" /\ fan'.at = "queue" /\ fan'.op = o
            \/ future'[o] = "pending" /\ Queued(o)'
            \/ future'[o] = "running" /\ Held(o)'
      BY <1>0, <1>5, <2>1, <2>2 DEF Credits, Ops, Queued
    <3>3. \A c \in Callers : future'[c] \in {"none", "done"} /\ run'[c].op \in {c, None}
      BY <1>1, <2>2, Threads DEF Credits
    <3>4. /\ \A u \in Runners : Holding(u)' => run'[u].op \in operations'
          /\ \A u \in Runners : ~Holding(u)' => run'[u].op = None
      BY <1>4, <1>7, <2>1 DEF Credits
    <3>5. \A w \in Workers : Holding(w)' => run'[w].op \in Ranks /\ future'[run'[w].op] = "running"
      BY <1>4, <1>7, <2>2, Threads DEF Credits, Ops
    <3>6. \A u, v \in Runners : Holding(u)' /\ Holding(v)' /\ run'[u].op = run'[v].op => u = v
      BY <1>4 DEF Credits
    <3>7. /\ \A i \in 1..Len(queue') : queue'[i] \in operations' /\ future'[queue'[i]] = "pending"
          /\ \A i, k \in 1..Len(queue') : queue'[i] = queue'[k] => i = k
      BY <1>8, <2>1, <2>2 DEF Credits
    <3>8. QED
      BY <2>4, <3>1, <3>2, <3>3, <3>4, <3>5, <3>6, <3>7 DEF Credits
  <2>6. Hands'
    BY <1>1, <1>2, <2>1, <2>2 DEF Hands
  <2>7. Closing'
    BY <1>1, <2>1 DEF Closing
  <2>8. Sleepers' /\ Staffed'
    BY <2>1, AllAwake
  <2>9. QED
    BY <1>6, <2>3, <2>5, <2>6, <2>7, <2>8
<1>10. CASE ~closed
  <2>1. /\ future' = [future EXCEPT ![r] = "pending"] /\ queue' = Append(queue, r)
        /\ UNCHANGED <<operations, cancelled>> /\ Notify
    BY <1>0, <1>10 DEF FanQueues
  <2>2. /\ future' \in FutureType /\ future'[r] = "pending"
        /\ \A o \in Ops : o # r => future'[o] = future[o]
    BY <1>1, <1>3, <2>1 DEF FutureType
  <2>3. /\ queue' \in Seq(Ranks) /\ Len(queue') = Len(queue) + 1
        /\ \A i \in 1..Len(queue) : queue'[i] = queue[i]
        /\ queue'[Len(queue) + 1] = r
    BY <1>1, <1>3, <2>1, AppendProperties
  <2>4. asleep' = asleep \/ \E t \in asleep : asleep' = asleep \ {t}
    BY <2>1 DEF Notify
  <2>5. TypeOK'
    BY <1>1, <1>2, <2>1, <2>2, <2>3, <2>4 DEF TypeOK, FanType, FutureType
  <2>6. \A i \in 1..Len(queue') : i \in 1..Len(queue) \/ (i = Len(queue) + 1 /\ queue'[i] = r)
    BY <1>3, <2>3
  <2>7. \A o : Queued(o) \/ o = r => Queued(o)'
    <3>1. 1..Len(queue) \subseteq 1..Len(queue') /\ Len(queue) + 1 \in 1..Len(queue')
      BY <1>3, <2>3
    <3>2. QED
      BY <2>3, <3>1 DEF Queued
  <2>8. Credits'
    <3>1. \A o \in operations' \cap Callers : Held(o)'
      BY <1>5, <2>1 DEF Credits
    <3>2. \A o \in operations' \cap Ranks :
            \/ future'[o] = "none" /\ fan'.at = "queue" /\ fan'.op = o
            \/ future'[o] = "pending" /\ Queued(o)'
            \/ future'[o] = "running" /\ Held(o)'
      BY <1>0, <1>5, <2>1, <2>2, <2>7 DEF Credits, Ops
    <3>3. \A c \in Callers : future'[c] \in {"none", "done"} /\ run'[c].op \in {c, None}
      BY <1>1, <2>2, Threads DEF Credits
    <3>4. /\ \A u \in Runners : Holding(u)' => run'[u].op \in operations'
          /\ \A u \in Runners : ~Holding(u)' => run'[u].op = None
      BY <1>4, <2>1 DEF Credits
    <3>5. \A w \in Workers : Holding(w)' => run'[w].op \in Ranks /\ future'[run'[w].op] = "running"
      BY <1>4, <1>7, <2>2, Threads DEF Credits, Ops
    <3>6. \A u, v \in Runners : Holding(u)' /\ Holding(v)' /\ run'[u].op = run'[v].op => u = v
      BY <1>4 DEF Credits
    <3>7. \A i \in 1..Len(queue') : queue'[i] \in operations' /\ future'[queue'[i]] = "pending"
      BY <1>1, <1>8, <2>1, <2>2, <2>3, <2>6 DEF Credits
    <3>8. \A i, k \in 1..Len(queue') : queue'[i] = queue'[k] => i = k
      BY <1>8, <2>3, <2>6 DEF Credits
    <3>9. Bounded'
      BY <1>1, <2>1 DEF Credits, Bounded
    <3>10. QED
      BY <3>1, <3>2, <3>3, <3>4, <3>5, <3>6, <3>7, <3>8, <3>9 DEF Credits
  <2>9. Hands'
    BY <1>1, <1>2, <2>1, <2>2 DEF Hands
  <2>10. Closing'
    BY <1>1, <2>1 DEF Closing
  <2>11. Sleepers'
    BY <1>1, <2>4 DEF Sleepers, Full
  <2>12. Staffed'
    <3>1. Full' <=> Full
      BY <1>1 DEF Full
    <3>2. CASE Full
      BY <3>1, <3>2 DEF Staffed
    <3>3. CASE \A w \in Workers : run[w].at = "idle" => Awake(w)
      BY <1>1, <2>4, <3>3 DEF Staffed, Awake
    <3>4. CASE ~Full /\ Len(queue) <= Cardinality(Ready) /\ asleep # {}
      <4>1. PICK t \in asleep : asleep' = asleep \ {t}
        BY <2>1, <3>4 DEF Notify
      <4>2. t \in Workers /\ run[t].at = "idle"
        BY <1>10, <3>4, <4>1 DEF Sleepers, TypeOK
      <4>3. Ready' = Ready \cup {t} /\ t \notin Ready
        BY <1>1, <4>1, <4>2 DEF Ready, Awake
      <4>4. IsFiniteSet(Ready) /\ Cardinality(Ready) \in Nat
        <5>1. Ready \in SUBSET Workers
          BY DEF Ready
        <5>2. QED
          BY <5>1, Finite
      <4>5. Cardinality(Ready') = Cardinality(Ready) + 1
        BY <4>3, <4>4, FS_AddElement
      <4>6. Len(queue') <= Cardinality(Ready')
        BY <1>3, <2>3, <3>4, <4>4, <4>5
      <4>7. QED
        BY <4>6 DEF Staffed
    <3>5. asleep = {} => \A w \in Workers : run[w].at = "idle" => Awake(w)
      BY DEF Awake
    <3>6. QED
      BY <3>2, <3>3, <3>4, <3>5 DEF Staffed
  <2>13. QED
    BY <1>6, <2>5, <2>8, <2>9, <2>10, <2>11, <2>12
<1>11. QED
  BY <1>9, <1>10

LEMMA FanCancelStep ==
  ASSUME ClientInv, FanCancels
  PROVE  ClientInv'
<1> USE DEF ClientInv
<1>1. /\ fan.at = "cancel" /\ fan.op \in Ops /\ Dequeue(fan.op)
      /\ UNCHANGED <<timer, plan, late, closed, stopped, active, pool, run, closer>>
      /\ fan' = [fan EXCEPT !.at = "collect", !.op = None]
  BY DEF FanCancels, Hands, life, wire, Ops
<1>2. /\ operations' \subseteq operations /\ cancelled' \subseteq cancelled /\ asleep' = {}
      /\ queue' \in Seq(Ranks) /\ future' \in FutureType
      /\ Credits' /\ Watchdogs' /\ Slots' /\ Sleepers' /\ Staffed'
  BY <1>1, Dequeued
<1>3. fan' \in FanType /\ fan'.at = "collect"
  <2>1. fan \in FanType
    BY DEF TypeOK, FanType
  <2>2. QED
    BY <1>1, <2>1 DEF FanType
<1>4. TypeOK'
  BY <1>1, <1>2, <1>3 DEF TypeOK, FanType, FutureType
<1>5. Hands' /\ Closing'
  BY <1>1, <1>2, <1>3 DEF Hands, Closing
<1>6. QED
  BY <1>2, <1>4, <1>5

-----------------------------------------------------------------------------
(* shutdown().                                                             *)
CloserType == [at : {"idle", "abort", "cancel", "wait", "join", "out"}, todo : SUBSET Ops, op : Ops \cup {None}]

LEMMA ShutBeginStep ==
  ASSUME ClientInv, ShutBegins
  PROVE  ClientInv'
<1> USE DEF ClientInv
<1>1. /\ UNCHANGED <<operations, queue, future, cancelled, timer, plan, late, stopped, active, run, fan>>
      /\ closed' = TRUE /\ pool' = 0 /\ asleep' = {} /\ ~stopped
      /\ closer' = [at |-> "abort", todo |-> operations, op |-> None]
  BY DEF ShutBegins, work, NotifyAll
<1>2. closer' \in CloserType /\ pool' \in 0..PoolSize
  BY <1>1, Threads, BoundAssumption DEF CloserType, TypeOK
<1>3. TypeOK'
  BY <1>1, <1>2 DEF TypeOK, CloserType
<1>4. Credits'
  BY <1>1, CreditsSame
<1>5. Hands' /\ Watchdogs' /\ Slots' /\ Closing'
  BY <1>1 DEF Hands, Watchdogs, Watched, Slots, Inside, Closing
<1>6. Sleepers' /\ Staffed'
  BY <1>1, AllAwake
<1>7. QED
  BY <1>3, <1>4, <1>5, <1>6

LEMMA ShutCancelStep ==
  ASSUME ClientInv, ShutCancels
  PROVE  ClientInv'
<1> USE DEF ClientInv
<1>1. /\ closer.at = "cancel" /\ closer.op \in Ops /\ Dequeue(closer.op)
      /\ UNCHANGED <<timer, plan, late, closed, stopped, active, pool, run, fan>>
      /\ closer' = [closer EXCEPT !.at = "abort", !.op = None]
  BY DEF ShutCancels, Hands, life, wire
<1>2. /\ operations' \subseteq operations /\ cancelled' \subseteq cancelled /\ asleep' = {}
      /\ queue' \in Seq(Ranks) /\ future' \in FutureType
      /\ \A q \in Ops : future[q] = "none" => future'[q] = "none"
      /\ Credits' /\ Watchdogs' /\ Slots' /\ Sleepers' /\ Staffed'
  BY <1>1, Dequeued
<1>3. closer' \in CloserType /\ closer'.at = "abort"
  <2>1. closer \in CloserType
    BY DEF TypeOK, CloserType
  <2>2. QED
    BY <1>1, <2>1 DEF CloserType
<1>4. TypeOK'
  BY <1>1, <1>2, <1>3 DEF TypeOK, CloserType, FutureType
<1>5. Closing'
  BY <1>1, <1>2, <1>3 DEF Closing
<1>6. Hands'
  <2>1. fan.todo \subseteq Ops /\ Ranks \subseteq Ops
    BY DEF TypeOK, Ops
  <2>2. fan.at = "queue" => fan.op \in operations'
    <3>1. ASSUME fan.at = "queue" PROVE fan.op \in operations'
      <4>1. fan.op \in operations /\ future[fan.op] = "none" /\ fan.op \in Ranks
        BY <3>1 DEF Hands
      <4>2. QED
        BY <1>1, <4>1 DEF Dequeue, Completed, Ended
    <3>2. QED
      BY <3>1
  <2>3. QED
    BY <1>1, <1>2, <1>3, <2>1, <2>2 DEF Hands
<1>7. QED
  BY <1>2, <1>4, <1>5, <1>6

LEMMA ShutMoves ==
  ASSUME ClientInv, ShutWaits \/ ShutRaises \/ ShutEnds \/ \E o \in Ops : ShutAborts(o)
  PROVE  ClientInv'
<1> USE DEF ClientInv
<1>1. closer \in CloserType
  BY DEF TypeOK, CloserType
<1>2. CASE \E o \in Ops : ShutAborts(o)
  <2>1. PICK o \in Ops : ShutAborts(o)
    BY <1>2
  <2>2. /\ UNCHANGED <<operations, queue, future, timer, plan, late, closed, stopped, active, pool, run, fan, asleep>>
        /\ cancelled' \subseteq Ops /\ closer.at = "abort"
        /\ closer' = [at |-> "cancel", todo |-> closer.todo \ {o}, op |-> o]
    BY <2>1 DEF ShutAborts, Abort, life, wire, TypeOK
  <2>3. closer' \in CloserType
    BY <1>1, <2>2 DEF CloserType
  <2>4. TypeOK' /\ Hands' /\ Closing'
    BY <2>2, <2>3 DEF TypeOK, CloserType, Hands, Closing
  <2>5. QED
    BY <2>2, <2>4, BooksAlone
<1>3. CASE ShutEnds
  <2>1. /\ UNCHANGED <<operations, queue, future, cancelled, timer, plan, late, closed, active, pool, run, fan, asleep>>
        /\ stopped' = TRUE /\ closer.at = "join" /\ closer' = [closer EXCEPT !.at = "out"]
        /\ \A w \in Workers : run[w].at = "out"
    BY <1>3 DEF ShutEnds, work, wire
  <2>2. closer' \in CloserType /\ closer'.at = "out"
    BY <1>1, <2>1 DEF CloserType
  <2>3. TypeOK' /\ Hands' /\ Closing'
    BY <2>1, <2>2 DEF TypeOK, CloserType, Hands, Closing
  <2>4. QED
    BY <2>1, <2>3, BooksAlone
<1>4. ASSUME UNCHANGED <<operations, queue, future, cancelled, timer, plan, late, closed, stopped, active, pool, run, fan>>,
             closer' \in CloserType, closer'.at # "cancel",
             closer'.at = "idle" \/ closer.at # "idle", closer'.at = "join" => operations = {},
             asleep' \subseteq asleep \/ (asleep' = asleep \cup {Closer} /\ closer.at # "idle")
      PROVE  ClientInv'
  <2>1. TypeOK'
    BY <1>4 DEF TypeOK, CloserType
  <2>2. Credits'
    BY <1>4, CreditsSame
  <2>3. Hands' /\ Closing' /\ Watchdogs' /\ Slots'
    BY <1>4 DEF Hands, Closing, Watchdogs, Watched, Slots, Inside
  <2>4. CASE asleep' \subseteq asleep
    BY <1>4, <2>1, <2>2, <2>3, <2>4, FewerAsleep
  <2>5. CASE asleep' = asleep \cup {Closer} /\ closer.at # "idle"
    <3>1. closed
      BY <2>5 DEF Closing
    <3>2. Sleepers'
      BY <1>4, <2>5, <3>1, ThreadAssumption DEF Sleepers, Full
    <3>3. \A w \in Workers : Awake(w)' <=> Awake(w)
      BY <2>5, Threads, ThreadAssumption DEF Awake
    <3>4. Ready' = Ready
      BY <1>4, <3>3 DEF Ready
    <3>5. Staffed'
      BY <1>4, <3>3, <3>4 DEF Staffed, Full
    <3>6. QED
      BY <2>1, <2>2, <2>3, <3>2, <3>5
  <2>6. QED
    BY <1>4, <2>4, <2>5
<1>5. CASE ShutWaits
  BY <1>1, <1>4, <1>5 DEF ShutWaits, Sleep, CloserType, work, life, wire
<1>6. CASE ShutRaises
  BY <1>1, <1>4, <1>6 DEF ShutRaises, CloserType, work, life, wire
<1>7. QED
  BY <1>2, <1>3, <1>5, <1>6

-----------------------------------------------------------------------------
LEMMA ClientStep == ClientInv /\ [Next]_vars => ClientInv'
<1> SUFFICES ASSUME ClientInv, [Next]_vars PROVE ClientInv'
  OBVIOUS
<1>1. CASE FanStarts \/ Fanout
  BY <1>1, FanMoves, FanAdmitStep, QueueStep, FanCancelStep DEF Fanout
<1>2. CASE ShutBegins \/ Shutdown \/ ShutRaises
  BY <1>2, ShutBeginStep, ShutCancelStep, ShutMoves DEF Shutdown
<1>3. CASE \E o \in Ops : Deadline(o) \/ TimerFires(o) \/ TimerAborts(o)
  BY <1>3, TimerSteps
<1>4. CASE \E t \in Runners : Execute(t) \/ Answered(t) \/ Interrupted(t)
  BY <1>4, EnterStep, WireSteps, GiveStep, ReportStep DEF Execute
<1>5. CASE \E w \in Workers : WorkerTakes(w) \/ WorkerSleeps(w) \/ WorkerEnds(w)
  BY <1>5, TakeStep, RestSteps
<1>6. CASE \E c \in Callers : CallAdmit(c) \/ CallRefused(c)
  BY <1>6, CallSteps
<1>7. CASE UNCHANGED vars
  <2>1. UNCHANGED <<operations, queue, future, cancelled, timer, plan, late, closed, stopped, active, pool, run, fan, closer, asleep>>
    BY <1>7 DEF vars, work, life, wire
  <2>2. TypeOK' /\ Hands' /\ Closing'
    BY <2>1 DEF ClientInv, TypeOK, Hands, Closing
  <2>3. QED
    BY <2>1, <2>2, BooksAlone
<1>8. QED
  BY <1>1, <1>2, <1>3, <1>4, <1>5, <1>6, <1>7 DEF Next

(* Every reachable state of the client satisfies the inductive invariant.  *)
THEOREM ClientSafe == Spec => []ClientInv
<1>1. QED
  BY Start, ClientStep, PTL DEF Spec

(* Every variable of the client keeps its type, and active and the pool    *)
(* their bounds.                                                           *)
THEOREM ClientTypeCorrect == Spec => []TypeOK
<1>1. ClientInv => TypeOK
  BY DEF ClientInv
<1>2. QED
  BY <1>1, ClientSafe, PTL

(* self._operations of http_rpc.py: an operation holds its credit as long  *)
(* as the queue, a thread or fanout() has it, and once; its watchdog never *)
(* outlives the credit; max_active and max_pending hold.                   *)
THEOREM CreditsAreHeld == Spec => []CreditsHeld
<1>1. ClientInv => CreditsHeld
  <2> SUFFICES ASSUME ClientInv PROVE CreditsHeld
    OBVIOUS
  <2> USE DEF ClientInv
  <2>1. \A x : IsFiniteSet({x}) /\ Cardinality({x}) = 1
    BY FS_Singleton
  <2>2. Cardinality({}) = 0
    BY FS_EmptySet
  <2>3. DOMAIN queue = 1..Len(queue)
    BY LenProperties DEF TypeOK
  <2>4. ASSUME NEW o \in Ops PROVE Places(o) = IF o \in operations THEN 1 ELSE 0
    <3> DEFINE Q == {i \in DOMAIN queue : queue[i] = o}
               T == {t \in Runners : Holding(t) /\ run[t].op = o}
               f == fan.at = "queue" /\ fan.op = o
    <3>1. IF Queued(o) THEN Cardinality(Q) = 1 ELSE Cardinality(Q) = 0
      <4>1. CASE Queued(o)
        <5>1. PICK n \in 1..Len(queue) : queue[n] = o
          BY <4>1 DEF Queued
        <5>2. Q = {n}
          BY <2>3, <5>1 DEF Credits
        <5>3. QED
          BY <2>1, <4>1, <5>2
      <4>2. CASE ~Queued(o)
        <5>1. Q = {}
          BY <2>3, <4>2 DEF Queued
        <5>2. QED
          BY <2>2, <4>2, <5>1
      <4>3. QED
        BY <4>1, <4>2
    <3>2. IF Held(o) THEN Cardinality(T) = 1 ELSE Cardinality(T) = 0
      <4>1. CASE Held(o)
        <5>1. PICK t \in Runners : Holding(t) /\ run[t].op = o
          BY <4>1 DEF Held
        <5>2. T = {t}
          BY <5>1 DEF Credits
        <5>3. QED
          BY <2>1, <4>1, <5>2
      <4>2. CASE ~Held(o)
        <5>1. T = {}
          BY <4>2 DEF Held
        <5>2. QED
          BY <2>2, <4>2, <5>1
      <4>3. QED
        BY <4>1, <4>2
    <3>3. Places(o) = Cardinality(Q) + Cardinality(T) + (IF f THEN 1 ELSE 0)
      BY DEF Places
    <3> HIDE DEF Q, T
    <3>4. /\ Queued(o) => future[o] = "pending" /\ o \in operations
          /\ f => future[o] = "none" /\ o \in operations /\ o \in Ranks
          /\ Held(o) => o \in operations /\ (o \in Ranks => future[o] = "running")
          /\ o \in Callers => ~Queued(o) /\ ~f
      <4>1. Queued(o) => future[o] = "pending" /\ o \in operations
        BY DEF Queued, Credits
      <4>2. f => future[o] = "none" /\ o \in operations /\ o \in Ranks
        BY DEF Hands
      <4>3. ASSUME NEW t \in Runners, Holding(t), run[t].op = o, o \in Ranks PROVE future[o] = "running"
        <5>1. t \in Workers
          BY <4>3, Threads DEF Credits
        <5>2. QED
          BY <4>3, <5>1 DEF Credits
      <4>4. Held(o) => o \in operations /\ (o \in Ranks => future[o] = "running")
        BY <4>3 DEF Held, Credits
      <4>5. o \in Callers => ~Queued(o) /\ ~f
        BY <4>1, <4>2, Threads DEF Credits
      <4>6. QED
        BY <4>1, <4>2, <4>4, <4>5
    <3>5. o \in operations => Queued(o) \/ Held(o) \/ f
      BY Threads DEF Credits
    <3>6. ~(Queued(o) /\ Held(o)) /\ ~(Queued(o) /\ f) /\ ~(Held(o) /\ f)
      BY <3>4, Threads
    <3> HIDE DEF f
    <3>7. QED
      BY <3>1, <3>2, <3>3, <3>4, <3>5, <3>6
  <2>5. ASSUME NEW o \in Ops, Watched(o) PROVE o \in operations
    <3>1. PICK t \in Runners : run[t].at \in {"send", "again", "join"} /\ run[t].op = o
      BY <2>5 DEF Watchdogs
    <3>2. QED
      BY <3>1 DEF Credits, Holding, Inside
  <2>6. active <= MaxActive
    BY BoundAssumption DEF TypeOK
  <2>7. QED
    BY <2>4, <2>5, <2>6 DEF CreditsHeld, Credits, Bounded, Slots
<1>2. QED
  BY <1>1, ClientSafe, PTL

(* self._condition of http_rpc.py: although notify() may wake any waiter,  *)
(* no worker sleeps while work is queued that could run.                   *)
THEOREM WorkersWakeForWork == Spec => []NoSleepOnWork
<1>1. ClientInv => NoSleepOnWork
  <2> SUFFICES ASSUME ClientInv, queue # <<>>, NEW w \in Workers, run[w].at = "idle", ~Full
               PROVE  \E v \in Workers : run[v].at = "idle" /\ Awake(v)
    BY DEF NoSleepOnWork
  <2>1. queue \in Seq(Ranks) /\ Len(queue) \in Nat /\ Len(queue) # 0
    BY LenProperties, EmptySeq DEF ClientInv, TypeOK
  <2>2. Ready # {}
    <3>1. CASE \A v \in Workers : run[v].at = "idle" => Awake(v)
      BY <3>1 DEF Ready
    <3>2. CASE Len(queue) <= Cardinality(Ready)
      <4>1. Cardinality({}) = 0
        BY FS_EmptySet
      <4>2. ASSUME Ready = {} PROVE FALSE
        <5>1. Cardinality(Ready) = 0
          BY <4>1, <4>2
        <5>2. QED
          BY <2>1, <3>2, <5>1
      <4>3. QED
        BY <4>2
    <3>3. QED
      BY <3>1, <3>2 DEF ClientInv, Staffed
  <2>3. QED
    BY <2>2 DEF Ready
<1>2. QED
  BY <1>1, ClientSafe, PTL

(* shutdown() of http_rpc.py: once it has returned without raising, there  *)
(* is no operation, watchdog, worker or connection left.                   *)
THEOREM NothingLeftBehind == Spec => []StoppedQuiet
<1>1. ClientInv => StoppedQuiet
  <2> SUFFICES ASSUME ClientInv, stopped PROVE StoppedQuiet
    BY DEF StoppedQuiet
  <2> USE DEF ClientInv
  <2>1. operations = {} /\ closed /\ pool = 0 /\ \A w \in Workers : run[w].at = "out"
    BY DEF Closing
  <2>2. queue = <<>>
    <3>1. queue \in Seq(Ranks) /\ Len(queue) \in Nat
      BY LenProperties DEF TypeOK
    <3>2. Len(queue) = 0
      BY <2>1, <3>1 DEF Credits
    <3>3. QED
      BY <3>1, <3>2, EmptySeq
  <2>3. \A t \in Runners : ~Inside(t)
    BY <2>1 DEF Credits, Holding
  <2>4. active = 0
    <3>1. {t \in Runners : Inside(t)} = {}
      BY <2>3
    <3>2. QED
      BY <3>1, FS_EmptySet DEF Slots
  <2>5. \A o \in Ops : ~Watched(o)
    BY <2>3 DEF Watchdogs, Inside
  <2>6. QED
    BY <2>1, <2>2, <2>4, <2>5 DEF StoppedQuiet
<1>2. QED
  BY <1>1, ClientSafe, PTL
=============================================================================
