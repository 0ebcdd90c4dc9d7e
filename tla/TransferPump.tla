---------------------------- MODULE TransferPump ----------------------------
(***************************************************************************)
(* The rank-local transfer pump (recipe_persistence/handlers.py, classes   *)
(* DiskTransferPump and _CloseOnce): jobs of several keys move between GPU *)
(* and disk through a few staging rows.                                    *)
(*                                                                         *)
(* One thread calls the pump, and runs _poll(): pc is where that thread    *)
(* stands, one step per result, future or row.  Beside it the disk threads *)
(* (tasks) and the GPU (copies) work on the rows.  A copy whose submission *)
(* was refused may have been launched all the same; nobody is told when it *)
(* ends, and only drain_cuda() waits for it.                               *)
(***************************************************************************)
EXTENDS Integers, FiniteSets, Sequences, SequencesExt

CONSTANTS
  Jobs,
  Storing,     \* the jobs that go from GPU to disk; the others come back
  Size,        \* the bytes of every key of a job, in transfer order
  Rows, None,
  Plans,       \* the staging rows that a pump may be built with, and the jobs it is then given
  Quantum,     \* bytes a job may move before it queues again
  MaxPending,  \* max_pending_keys
  Batches,     \* the sets of jobs that callers wait for or cancel
  Faults       \* who may fail: "disk", "native", "submit", "drain", "provider"

ASSUME JobAssumption == IsFiniteSet(Jobs) /\ Storing \subseteq Jobs
ASSUME RowAssumption ==
  IsFiniteSet(Rows) /\ None \notin Rows \cup Nat /\ Plans \subseteq [rows : SUBSET Rows, jobs : SUBSET Jobs]
ASSUME QuantumAssumption == Quantum \in Nat \ {0}
ASSUME SizeAssumption ==
  Size \in [Jobs -> Seq(1..Quantum)] /\ \A j \in Jobs : Len(Size[j]) > 0
ASSUME PendingAssumption == MaxPending \in Nat /\ Batches \subseteq SUBSET Jobs
ASSUME FaultAssumption == Faults \subseteq {"disk", "native", "submit", "drain", "provider"}

VARIABLES
  state,       \* "live": in self.jobs; "finished": its result waits in self.finished
  index, row, credit, cancelled, rereads, outcome,  \* the fields of _Job
  native,      \* job.native_id, which is also how self.native_jobs knows the job
  plan, free, ready, pending, closed,
  provider,    \* has close_provider succeeded?
  tasks,       \* reads and writes handed to the disk threads, and not yet collected
  copies,      \* copies handed to the GPU, and not yet collected
  staging,     \* whose key a row holds
  arrived,     \* what has arrived where every key of a job was to go
  pc, todo, call, waiting,   \* the calling thread: place, rest of a loop, method, jobs it waits for
  halted,      \* a failed drain: nothing is recycled any more
  passed       \* history: bytes of other jobs started while a job was queued

jobVars  == <<state, index, row, credit, cancelled, rereads, outcome, native>>
poolVars == <<free, ready, pending, closed, provider, passed>>
ioVars   == <<tasks, copies, staging, arrived>>
control  == <<pc, todo, call, waiting, halted, plan>>
vars     == <<jobVars, poolVars, ioVars, control>>

Keys(j)   == DOMAIN Size[j]
Live      == {j \in Jobs : state[j] = "live"}
Finished  == {j \in Jobs : state[j] = "finished"}
Total(S)  == Cardinality(UNION {{j} \X Keys(j) : j \in S})    \* len(keys) of every job of S
Running(X) == {x \in X : x.end = "running"}
Ended(X)   == X \ Running(X)
TaskOf(j) == {t \in tasks : t.job = j}

Absent == [job |-> None, key |-> 0]
Junk == [job |-> None, key |-> 1]     \* a row that was never filled, or only in part
Held == [job : Jobs \cup {None}, key : Nat]
Ends == {"running", "ok", "failed"}

TypeOK ==
  /\ state \in [Jobs -> {"new", "live", "finished", "taken"}]
  /\ index \in [Jobs -> Nat] /\ \A j \in Jobs : index[j] \in Keys(j)
  /\ row \in [Jobs -> Rows \cup {None}]
  /\ credit \in [Jobs -> 0..(2 * Quantum)]
  /\ cancelled \in [Jobs -> BOOLEAN] /\ outcome \in [Jobs -> BOOLEAN]
  /\ rereads \in [Jobs -> 0..1]
  /\ native \in [Jobs -> Nat \cup {None}]
  /\ plan \in Plans /\ free \in [Rows -> Nat]
  /\ ready \in Seq(Jobs) /\ pending \in 0..MaxPending
  /\ closed \in BOOLEAN /\ provider \in {"open", "closed"} /\ halted \in BOOLEAN
  /\ tasks \subseteq [job : Jobs, key : Nat, row : Rows, end : Ends]
  /\ copies \subseteq [id : Nat, job : Jobs, key : Nat, row : Rows, end : Ends, known : BOOLEAN]
  /\ staging \in [Rows -> Held]
  /\ arrived \in [Jobs -> Seq(Held)]
  /\ pc \in {"idle", "loop", "getStore", "doStore", "getLoad", "doLoad", "futures", "schedule",
             "launch", "await", "waitStore", "waitLoad", "stop", "close"}
  /\ call \in {"none", "get", "wait", "shutdown"}
  /\ waiting \subseteq Jobs
  /\ passed \in [Jobs -> [Jobs -> Nat]]

Init ==
  /\ state = [j \in Jobs |-> "new"]
  /\ index = [j \in Jobs |-> 1]
  /\ row = [j \in Jobs |-> None]
  /\ credit = [j \in Jobs |-> 0]
  /\ cancelled = [j \in Jobs |-> FALSE]
  /\ rereads = [j \in Jobs |-> 0]
  /\ outcome = [j \in Jobs |-> FALSE]
  /\ native = [j \in Jobs |-> None]
  /\ plan \in Plans
  /\ free = [r \in Rows |-> IF r \in plan.rows THEN 1 ELSE 0]
  /\ ready = <<>> /\ pending = 0 /\ closed = FALSE /\ provider = "open"
  /\ tasks = {} /\ copies = {}
  /\ staging = [r \in Rows |-> Junk]
  /\ arrived = [j \in Jobs |-> [k \in Keys(j) |-> Absent]]
  /\ pc = "idle" /\ todo = {} /\ call = "none" /\ waiting = {} /\ halted = FALSE
  /\ passed = [j \in Jobs |-> [k \in Jobs |-> 0]]

-----------------------------------------------------------------------------
(* The disk threads and the GPU. *)

StagingAfter(C) ==
  [r \in Rows |-> IF \E c \in C : c.row = r /\ c.job \in Storing
                  THEN LET c == CHOOSE c \in C : c.row = r /\ c.job \in Storing
                       IN [job |-> c.job, key |-> c.key]
                  ELSE staging[r]]
ArrivedAfter(C) ==
  [j \in Jobs |-> [k \in Keys(j) |->
     IF \E c \in C : c.job = j /\ c.key = k /\ j \notin Storing
     THEN staging[(CHOOSE c \in C : c.job = j /\ c.key = k).row]
     ELSE arrived[j][k]]]

(* A copy ends; if nobody knows of it, nobody collects it. *)
CopyEnds(c, ok) ==
  /\ c \in Running(copies) /\ (ok \/ "native" \in Faults)
  /\ copies' = (copies \ {c}) \cup
       (IF c.known THEN {[c EXCEPT !.end = IF ok THEN "ok" ELSE "failed"]} ELSE {})
  /\ staging' = IF ok THEN StagingAfter({c})
                ELSE IF c.job \in Storing THEN [staging EXCEPT ![c.row] = Junk] ELSE staging
  /\ arrived' = IF ok THEN ArrivedAfter({c}) ELSE arrived
  /\ UNCHANGED <<jobVars, poolVars, control, tasks>>

(* store.write() and store.read_into(): a read that fails leaves a torn row. *)
DiskEnds(t, ok) ==
  LET j == t.job IN
  /\ t \in Running(tasks) /\ (ok \/ "disk" \in Faults)
  /\ tasks' = (tasks \ {t}) \cup {[t EXCEPT !.end = IF ok THEN "ok" ELSE "failed"]}
  /\ staging' = IF j \in Storing THEN staging
                ELSE [staging EXCEPT ![t.row] = IF ok THEN [job |-> j, key |-> t.key] ELSE Junk]
  /\ arrived' = IF j \in Storing /\ ok
                THEN [arrived EXCEPT ![j][t.key] = staging[t.row]] ELSE arrived
  /\ UNCHANGED <<jobVars, poolVars, control, copies>>

(* drain_cuda(): every copy that was launched has ended. *)
Undrained(C) == C                    \* mutation: nobody waits for launched copies
Drained(C) == {[c EXCEPT !.end = "ok"] : c \in {d \in C : d.known /\ d.end = "running"}} \cup Ended(C)
Drain(C) ==
  /\ copies' = Drained(C)
  /\ staging' = StagingAfter(Running(C))
  /\ arrived' = ArrivedAfter(Running(C))
DrainFails == "drain" \in Faults /\ halted' = TRUE

-----------------------------------------------------------------------------
(* What the methods do to the jobs. *)

(* _finish(), for jobs that have ended; _row_done() frees their rows first. *)
RowsKept(S, r) == 0                  \* mutation: a failed job takes its row with it
Owns(S, r) == Cardinality({j \in S : row[j] = r})
Success(j, ok) == ok /\ ~cancelled[j]
Finish(S, ok) ==
  /\ state' = [j \in Jobs |-> IF j \in S THEN "finished" ELSE state[j]]
  /\ outcome' = [j \in Jobs |-> IF j \in S THEN Success(j, ok) ELSE outcome[j]]
  /\ pending' = pending - Total(S)
  /\ free' = [r \in Rows |-> free[r] + Owns(S, r)]
  /\ row' = [j \in Jobs |-> IF j \in S THEN None ELSE row[j]]
  /\ native' = [j \in Jobs |-> IF j \in S THEN None ELSE native[j]]
  /\ UNCHANGED <<index, credit, ready>>

Unspent(j) == credit[j]                              \* mutation: bytes are not charged
Overpaid(j) == Quantum + credit[j] - Size[j][index[j]]   \* mutation: a quantum per row
Left(j) == credit[j] - Size[j][index[j]]

(* _row_done(): the next key of the job at once if its credit allows, or   *)
(* else after the jobs that queue.                                         *)
RowDone(j, ok) ==
  IF ~ok \/ cancelled[j] \/ index[j] = Len(Size[j])
  THEN Finish({j}, ok)
  ELSE /\ index' = [index EXCEPT ![j] = @ + 1]
       /\ free' = [free EXCEPT ![row[j]] = @ + 1]
       /\ row' = [row EXCEPT ![j] = None]
       /\ native' = [native EXCEPT ![j] = None]
       /\ IF Left(j) >= Size[j][index[j] + 1]
          THEN ready' = <<j>> \o ready /\ credit' = [credit EXCEPT ![j] = Left(j)]
          ELSE ready' = Append(ready, j) /\ credit' = [credit EXCEPT ![j] = Left(j) + Quantum]
       /\ UNCHANGED <<state, outcome, pending>>

Steady == UNCHANGED <<state, index, row, credit, outcome, free, ready, pending>>

(* _submit_disk(): the future, or a row that failed at once. *)
SubmitDisk(j, others) ==
  \/ /\ tasks' = others \cup {[job |-> j, key |-> index[j], row |-> row[j], end |-> "running"]}
     /\ native' = [native EXCEPT ![j] = None]
     /\ Steady
  \/ /\ "submit" \in Faults
     /\ tasks' = others
     /\ RowDone(j, FALSE)

(* self.next_native_id counts; what matters is that no copy that somebody   *)
(* may still hear of has the same.                                         *)
FreshId == CHOOSE n \in 0..Cardinality(copies) : n \notin {c.id : c \in copies}

(* _submit_native(): accepted; or refused, launched or not, and drained;   *)
(* or refused and the drain failed too.                                    *)
SubmitNative(j) ==
  LET c == [id |-> FreshId, job |-> j, key |-> index[j], row |-> row[j],
            end |-> "running", known |-> TRUE]
      unknown == [c EXCEPT !.known = FALSE]
  IN
  /\ \/ /\ copies' = copies \cup {c}
        /\ native' = [native EXCEPT ![j] = FreshId]
        /\ Steady
        /\ UNCHANGED <<staging, arrived, halted>>
     \/ /\ "submit" \in Faults
        /\ \E launched \in {{}, {unknown}} :
             \/ Drain(copies \cup launched) /\ RowDone(j, FALSE) /\ UNCHANGED halted
             \/ /\ DrainFails
                /\ copies' = copies \cup launched
                /\ native' = [native EXCEPT ![j] = FreshId]
                /\ Steady
                /\ UNCHANGED <<staging, arrived>>

-----------------------------------------------------------------------------
(* The calling thread. *)

At(p) == pc = p /\ ~halted
Go(p) == pc' = p

Submit(j) ==
  /\ At("idle") /\ ~closed /\ state[j] = "new" /\ j \in plan.jobs
  /\ pending + Cardinality(Finished) + Len(Size[j]) <= MaxPending
  /\ state' = [state EXCEPT ![j] = "live"]
  /\ credit' = [credit EXCEPT ![j] = Quantum]
  /\ pending' = pending + Len(Size[j])
  /\ ready' = Append(ready, j)
  /\ UNCHANGED <<index, row, cancelled, rereads, outcome, native, free, closed, provider,
                 passed, ioVars, control>>

GetFinished ==
  /\ At("idle")
  /\ Go("getStore") /\ call' = "get"
  /\ UNCHANGED <<jobVars, poolVars, ioVars, todo, waiting, halted, plan>>

(* wait(), cancel() and shutdown(), which cancels what is there. *)
Wait(S) ==
  /\ At("idle") /\ S \cap Live # {}
  /\ Go("loop") /\ call' = "wait" /\ waiting' = S
  /\ UNCHANGED <<jobVars, poolVars, ioVars, todo, halted, plan>>
Cancelling(S, method) ==
  /\ Go("loop") /\ call' = method /\ waiting' = S
  /\ cancelled' = [j \in Jobs |-> cancelled[j] \/ j \in S \cap Live]
  /\ UNCHANGED <<state, index, row, credit, rereads, outcome, native, free, ready, pending,
                 provider, passed, ioVars, todo, halted, plan>>
Cancel(S) ==
  /\ At("idle") /\ S \cap Live # {}
  /\ Cancelling(S, "wait")
  /\ UNCHANGED closed
Shutdown ==
  /\ At("idle") /\ provider = "open"
  /\ closed' = TRUE
  /\ Cancelling(Live, "shutdown")

Outstanding(S) == S \cap Live
WaitLoop ==
  /\ At("loop")
  /\ IF Outstanding(waiting) # {}
     THEN Go("getStore") /\ UNCHANGED <<call, waiting, plan>>
     ELSE /\ waiting' = {}
          /\ IF call = "shutdown" THEN Go("stop") /\ UNCHANGED call ELSE Go("idle") /\ call' = "none"
  /\ UNCHANGED <<jobVars, poolVars, ioVars, todo, halted, plan>>

(* _poll(): what the store handler has finished, then the load handler. *)
Handled(get) == IF get = "getStore" THEN Storing ELSE Jobs \ Storing
From(p) == IF p \in {"getStore", "doStore"} THEN "store" ELSE "load"
Proceed(from, rest) ==
  /\ pc' = IF rest # {} THEN (IF from = "store" THEN "doStore" ELSE "doLoad")
           ELSE IF from = "store" THEN "getLoad" ELSE "futures"
  /\ todo' = IF rest = {} /\ from = "load" THEN {j \in Jobs : state'[j] = "live"} ELSE rest

Collect ==
  LET results == {c \in Ended(copies) : c.job \in Handled(pc)} IN
  /\ pc \in {"getStore", "getLoad"} /\ ~halted
  /\ UNCHANGED <<jobVars, poolVars, tasks, staging, arrived, call, waiting, halted, plan>>
  /\ copies' = copies \ results
  /\ Proceed(From(pc), results)

(* The handler raises: its copies are drained and their jobs fail.  Later  *)
(* it may still report what it had finished; nobody waits for that.        *)
Affected(handler) == {j \in handler : native[j] # None}
CollectFails ==
  /\ pc \in {"getStore", "getLoad"} /\ ~halted /\ "native" \in Faults
  /\ UNCHANGED <<cancelled, rereads, closed, provider, passed, tasks, call, waiting, plan>>
  /\ \/ /\ Drain(copies)
        /\ Finish(Affected(Handled(pc)), FALSE)
        /\ Proceed(From(pc), {})
        /\ UNCHANGED halted
     \/ /\ DrainFails
        /\ Steady
        /\ UNCHANGED <<native, copies, staging, arrived, pc, todo, plan>>

Result(c) ==
  LET j == c.job IN
  /\ pc \in {"doStore", "doLoad"} /\ ~halted /\ c \in todo
  /\ IF native[j] # c.id
     THEN Steady /\ UNCHANGED <<native, tasks>>
     ELSE IF c.end = "ok" /\ j \in Storing /\ ~cancelled[j]
          THEN SubmitDisk(j, tasks)
          ELSE RowDone(j, c.end = "ok") /\ UNCHANGED tasks
  /\ Proceed(From(pc), todo \ {c})
  /\ UNCHANGED <<cancelled, rereads, closed, provider, passed, copies, staging, arrived,
                 call, waiting, halted, plan>>

(* Then the futures, one visit per job that has one that is done.  A read that failed is repeated    *)
(* once, into the same row; a copy to the GPU follows a read that did not. *)
Done(j) == TaskOf(j) \cap Ended(tasks) # {}
UnverifiedTo(t) == t.job \notin Storing                    \* mutation: a failed read is copied as well
CopyTo(t) == t.end = "ok" /\ t.job \notin Storing
Visit(j) ==
  LET t == CHOOSE t \in TaskOf(j) : TRUE IN
  /\ At("futures") /\ j \in todo /\ Done(j)
  /\ todo' = todo \ {j}
  /\ IF CopyTo(t) /\ ~cancelled[j]
     THEN /\ SubmitNative(j)
          /\ tasks' = tasks \ {t}
          /\ UNCHANGED rereads
     ELSE /\ UNCHANGED <<copies, staging, arrived, halted>>
          /\ IF t.end = "failed" /\ j \notin Storing /\ ~cancelled[j] /\ rereads[j] < 1
             THEN SubmitDisk(j, tasks \ {t}) /\ rereads' = [rereads EXCEPT ![j] = @ + 1]
             ELSE RowDone(j, t.end = "ok") /\ tasks' = tasks \ {t} /\ UNCHANGED rereads
  /\ UNCHANGED <<cancelled, closed, provider, passed, pc, call, waiting, plan>>

VisitsOver ==
  /\ At("futures") /\ \A j \in todo : ~Done(j)
  /\ Go("schedule") /\ todo' = {}
  /\ UNCHANGED <<jobVars, poolVars, ioVars, call, waiting, halted, plan>>

(* Then free rows go to the jobs that queue; a cancelled job needs none. *)
FreeRows == {r \in Rows : free[r] > 0}
Dequeue(j) ==
  /\ ready' = Tail(ready)
  /\ passed' = [k \in Jobs |-> IF k = j THEN [i \in Jobs |-> 0]
                ELSE IF k \in Range(Tail(ready)) /\ ~cancelled[j]
                     THEN [passed[k] EXCEPT ![j] = @ + Size[j][index[j]]] ELSE passed[k]]

DropCancelled ==
  LET j == Head(ready) IN
  /\ At("schedule") /\ FreeRows # {} /\ ready # <<>> /\ cancelled[j]
  /\ Dequeue(j)
  /\ state' = [state EXCEPT ![j] = "finished"]
  /\ pending' = pending - Len(Size[j])
  /\ UNCHANGED <<index, row, credit, cancelled, rereads, outcome, native, free, closed,
                 provider, ioVars, control>>

TakeRow(r) ==
  LET j == Head(ready) IN
  /\ At("schedule") /\ r \in FreeRows /\ ready # <<>> /\ ~cancelled[j]
  /\ Dequeue(j)
  /\ free' = [free EXCEPT ![r] = @ - 1]
  /\ row' = [row EXCEPT ![j] = r]
  /\ Go("launch") /\ todo' = {j}
  /\ UNCHANGED <<state, index, credit, cancelled, rereads, outcome, native, pending, closed,
                 provider, ioVars, call, waiting, halted, plan>>

Launch(j) ==
  /\ At("launch") /\ todo = {j}
  /\ Go("schedule") /\ todo' = {}
  /\ IF j \in Storing
     THEN SubmitNative(j) /\ UNCHANGED tasks
     ELSE SubmitDisk(j, tasks) /\ UNCHANGED <<copies, staging, arrived, halted>>
  /\ UNCHANGED <<cancelled, rereads, closed, provider, passed, call, waiting, plan>>

(* get_finished() hands the results over; wait() goes on to block. *)
PollOver ==
  /\ At("schedule") /\ (FreeRows = {} \/ ready = <<>>)
  /\ IF call = "get"
     THEN /\ state' = [j \in Jobs |-> IF state[j] = "finished" THEN "taken" ELSE state[j]]
          /\ Go("idle") /\ call' = "none"
     ELSE Go("await") /\ UNCHANGED <<state, call>>
  /\ UNCHANGED <<index, row, credit, cancelled, rereads, outcome, native, poolVars, ioVars, todo, waiting,
                 halted, plan>>

(* FIRST_COMPLETED of the futures, then both handlers' copies. *)
FirstCompleted == tasks = {} \/ Ended(tasks) # {}
AwaitFuture ==
  /\ At("await")
  /\ FirstCompleted
  /\ Go("waitStore")
  /\ UNCHANGED <<jobVars, poolVars, ioVars, todo, call, waiting, halted, plan>>

Waiter(p) == IF p = "waitStore" THEN Storing ELSE Jobs \ Storing
AwaitCopies ==
  /\ pc \in {"waitStore", "waitLoad"} /\ ~halted
  /\ \A c \in Running(copies) : c.job \notin Waiter(pc) \/ native[c.job] # c.id
  /\ Go(IF pc = "waitStore" THEN "waitLoad" ELSE "loop")
  /\ UNCHANGED <<jobVars, poolVars, ioVars, todo, call, waiting, halted, plan>>

AwaitFails ==
  /\ pc \in {"waitStore", "waitLoad"} /\ ~halted /\ "native" \in Faults
  /\ Affected(Waiter(pc)) # {}
  /\ UNCHANGED <<cancelled, rereads, closed, provider, passed, tasks, todo, call, waiting, plan>>
  /\ \/ /\ Drain(copies)
        /\ Finish(Affected(Waiter(pc)), FALSE)
        /\ Go(IF pc = "waitStore" THEN "waitLoad" ELSE "loop")
        /\ UNCHANGED halted
     \/ /\ DrainFails
        /\ Steady
        /\ UNCHANGED <<native, copies, staging, arrived, pc>>

(* The rest of shutdown(): executor.shutdown(wait), then the native worker *)
(* and the provider (_CloseOnce), whose failure leaves it to be retried.   *)
StopThreads ==
  /\ At("stop")
  /\ Running(tasks) = {}
  /\ Go("close")
  /\ UNCHANGED <<jobVars, poolVars, ioVars, todo, call, waiting, halted, plan>>

CloseProvider ==
  /\ At("close")
  /\ \/ provider' = "closed"
     \/ "provider" \in Faults /\ UNCHANGED provider
  /\ Go("idle") /\ call' = "none"
  /\ UNCHANGED <<jobVars, free, ready, pending, closed, passed, ioVars, todo, waiting, halted, plan>>

-----------------------------------------------------------------------------
Caller ==
  \/ WaitLoop \/ Collect \/ CollectFails \/ VisitsOver \/ DropCancelled \/ PollOver
  \/ AwaitFuture \/ AwaitCopies \/ AwaitFails \/ StopThreads \/ CloseProvider
  \/ \E c \in todo : pc \in {"doStore", "doLoad"} /\ Result(c)
  \/ \E j \in Jobs : Visit(j) \/ Launch(j)
  \/ \E r \in Rows : TakeRow(r)

Calls ==
  \/ \E j \in Jobs : Submit(j)
  \/ \E S \in Batches : Wait(S) \/ Cancel(S)
  \/ GetFinished \/ Shutdown

Devices ==
  \E ok \in BOOLEAN : \/ \E c \in copies : CopyEnds(c, ok)
                      \/ \E t \in tasks : DiskEnds(t, ok)

Next == Caller \/ Calls \/ Devices

Spec == Init /\ [][Next]_vars

-----------------------------------------------------------------------------
(* A row is free once or belongs to one job, and a disk thread or a copy   *)
(* that touches it works for that job, whatever failed or was cancelled.   *)
(* Once the provider, and with it the store, is closed nothing touches one.*)
Touching == Running(tasks) \cup Running(copies)
RowsPrivate ==
  /\ \A r \in Rows : free[r] + Cardinality({j \in Jobs : row[j] = r}) = IF r \in plan.rows THEN 1 ELSE 0
  /\ \A x \in Touching : row[x.job] = x.row /\ state[x.job] = "live"
  /\ provider = "closed" => Touching = {} /\ Live = {}

(* Nothing but the verified bytes of a key arrives in its GPU block, or is *)
(* stored under it, and a success is reported only when every key arrived. *)
OnlyOwnBytes ==
  \A j \in Jobs :
    /\ \A k \in Keys(j) : arrived[j][k] \in {Absent, [job |-> j, key |-> k]}
    /\ outcome[j] => \A k \in Keys(j) : arrived[j][k] # Absent

(* Byte-deficit round robin: while a job is queued, no other job starts    *)
(* two quanta.                                                             *)
FairShare == \A j, k \in Jobs : passed[j][k] < 2 * Quantum

-----------------------------------------------------------------------------
(* The worker polls, the devices end what they were given, and the thread  *)
(* that called the pump runs.                                              *)
LiveSpec ==
  /\ Spec
  /\ WF_vars(GetFinished) /\ WF_vars(Caller)
  /\ WF_vars(\E c \in copies, ok \in BOOLEAN : CopyEnds(c, ok))
  /\ WF_vars(\E t \in tasks, ok \in BOOLEAN : DiskEnds(t, ok))

(* Every accepted job ends in a result, and wait() and shutdown() return.  *)
JobsEnd ==
  /\ \A j \in Jobs : state[j] = "live" ~> state[j] # "live" \/ halted
  /\ call \in {"wait", "shutdown"} ~> call = "none" \/ halted
=============================================================================
