----------------------------- MODULE RpcClient -----------------------------
(***************************************************************************)
(* The bounded RPC client (recipe_persistence/http_rpc.py, RpcClient).     *)
(*                                                                         *)
(* call() runs its operation in the thread of the caller, fanout() queues  *)
(* one operation per rank for the worker threads; both pass _execute(),    *)
(* which lets MaxActive operations at a time on the wire.  An operation    *)
(* holds a credit from admission until its thread and its watchdog timer   *)
(* are done with it.  Workers, operations that wait for their turn and     *)
(* shutdown() all sleep on one condition variable.                         *)
(*                                                                         *)
(* A peer may never answer: then the watchdog shuts the socket down when   *)
(* the deadline of the operation has passed.                               *)
(***************************************************************************)
EXTENDS Integers, FiniteSets, Sequences, SequencesExt

CONSTANTS
  Ranks,        \* the operations of one fanout()
  Callers,      \* threads that run call(), each with its operation
  Workers, Closer, None,
  MaxActive,
  PoolSize,     \* idle connections kept
  Plans,        \* which operations there are in one behaviour
  MaxPending    \* and the credits that the client was configured with for it

Ops     == Ranks \cup Callers
Runners == Workers \cup Callers

ASSUME ThreadAssumption ==
  /\ IsFiniteSet(Ops) /\ IsFiniteSet(Workers)
  /\ Ranks \cap Callers = {} /\ Workers \cap Callers = {}
  /\ None \notin Ops /\ Closer \notin Runners
ASSUME BoundAssumption ==
  /\ MaxActive \in Nat \ {0} /\ PoolSize \in Nat
  /\ Plans \subseteq SUBSET Ops
  /\ MaxPending \in [Plans -> Nat] /\ \A p \in Plans : MaxPending[p] >= MaxActive

VARIABLES
  plan,         \* the operations of this behaviour
  operations,   \* who holds a credit (self._operations)
  queue, future,
  cancelled,    \* operations whose abort() has run
  late,         \* operations whose deadline has passed
  timer,        \* the watchdog: "none", "armed" or "firing"
  active, pool, closed, stopped,
  run,          \* the threads that execute: place, operation, connection to keep
  fan,          \* the thread in fanout(): place, ranks to do, operation in hand
  closer,       \* the thread in shutdown(): place, operations to cancel, operation in hand
  asleep        \* who waits on the condition variable

life == <<plan, late, closed, stopped>>
work == <<operations, queue, future, cancelled, timer>>
wire == <<active, pool>>
vars == <<work, life, wire, run, fan, closer, asleep>>

Inside(t) == run[t].at \in {"arm", "send", "again", "join", "give"}
Holding(t) == Inside(t) \/ run[t].at \in {"enter", "report"}
Watched(o) == timer[o] \in {"armed", "firing"}
Over(o) == o \in cancelled \/ o \in late      \* remaining() raises

TypeOK ==
  /\ plan \in Plans /\ operations \subseteq plan /\ cancelled \subseteq Ops /\ late \subseteq Ops
  /\ queue \in Seq(Ranks)
  /\ future \in [Ops -> {"none", "pending", "running", "cancelled", "done"}]
  /\ timer \in [Ops -> {"none", "armed", "firing"}]
  /\ active \in 0..MaxActive /\ pool \in 0..PoolSize
  /\ closed \in BOOLEAN /\ stopped \in BOOLEAN
  /\ run \in [Runners -> [at : {"idle", "enter", "arm", "send", "again", "join", "give", "report", "out"},
                          op : Ops \cup {None}, keep : BOOLEAN]]
  /\ fan \in [at : {"idle", "admit", "queue", "collect", "cancel", "out"}, todo : SUBSET Ranks,
              op : Ranks \cup {None}]
  /\ closer \in [at : {"idle", "abort", "cancel", "wait", "join", "out"}, todo : SUBSET Ops,
                 op : Ops \cup {None}]
  /\ asleep \subseteq Runners \cup {Closer}

Init ==
  /\ plan \in Plans
  /\ operations = {} /\ queue = <<>> /\ cancelled = {} /\ late = {}
  /\ future = [o \in Ops |-> "none"] /\ timer = [o \in Ops |-> "none"]
  /\ active = 0 /\ pool = 0 /\ closed = FALSE /\ stopped = FALSE
  /\ run = [t \in Runners |-> [at |-> "idle", op |-> None, keep |-> FALSE]]
  /\ fan = [at |-> "idle", todo |-> Ranks \cap plan, op |-> None]
  /\ closer = [at |-> "idle", todo |-> {}, op |-> None]
  /\ asleep = {}

-----------------------------------------------------------------------------
(* The condition variable.                                                 *)
NotifyAll == asleep' = {}
Notify == IF asleep = {} THEN UNCHANGED asleep ELSE \E t \in asleep : asleep' = asleep \ {t}
Sleep(t) == asleep' = asleep \cup {t}
Awake(t) == t \notin asleep

At(t, p) == run[t].at = p /\ Awake(t)
Go(t, p) == run' = [run EXCEPT ![t].at = p]
Room == ~closed /\ Cardinality(operations) < MaxPending[plan]

(* The deadline of an operation passes; whoever sleeps until then wakes.   *)
Deadline(o) ==
  /\ o \in operations \ late
  /\ late' = late \cup (IF o \in Ranks THEN Ranks ELSE {o})
  /\ asleep' = asleep \ {t \in Runners : run[t].op \in late'}
  /\ UNCHANGED <<plan, work, wire, closed, stopped, run, fan, closer>>

(* threading.Timer: abort() runs in a thread of its own.                   *)
TimerFires(o) ==
  /\ timer[o] = "armed" /\ o \in late
  /\ timer' = [timer EXCEPT ![o] = "firing"]
  /\ UNCHANGED <<operations, queue, future, cancelled, life, wire, run, fan, closer, asleep>>
TimerAborts(o) ==
  /\ timer[o] = "firing"
  /\ timer' = [timer EXCEPT ![o] = "none"] /\ cancelled' = cancelled \cup {o}
  /\ UNCHANGED <<operations, queue, future, life, wire, run, fan, closer, asleep>>

-----------------------------------------------------------------------------
(* _execute(), in a worker or in the caller's own thread.                  *)
(* call(): admitted, or refused after four attempts.                       *)
CallAdmit(c) ==
  /\ c \in plan /\ At(c, "idle") /\ Room
  /\ operations' = operations \cup {c}
  /\ run' = [run EXCEPT ![c] = [@ EXCEPT !.at = "enter", !.op = c]]
  /\ UNCHANGED <<queue, future, cancelled, timer, life, wire, fan, closer, asleep>>
CallRefused(c) ==
  /\ c \in plan /\ At(c, "idle") /\ ~Room
  /\ Go(c, "out")
  /\ UNCHANGED <<work, life, wire, fan, closer, asleep>>

(* _worker(): takes an operation, sleeps, or ends when there is no more.   *)
WorkerTakes(w) ==
  LET o == Head(queue) IN
  /\ At(w, "idle") /\ queue # <<>>
  /\ queue' = Tail(queue)
  /\ future' = [future EXCEPT ![o] = "running"]
  /\ run' = [run EXCEPT ![w] = [@ EXCEPT !.at = "enter", !.op = o]]
  /\ UNCHANGED <<operations, cancelled, timer, life, wire, fan, closer, asleep>>
WorkerSleeps(w) ==
  /\ At(w, "idle") /\ queue = <<>> /\ ~closed
  /\ Sleep(w)
  /\ UNCHANGED <<work, life, wire, run, fan, closer>>
WorkerEnds(w) ==
  /\ At(w, "idle") /\ queue = <<>> /\ closed
  /\ Go(w, "out")
  /\ UNCHANGED <<work, life, wire, fan, closer, asleep>>

Crowded == active > MaxActive        \* mutation: off by one
Full == active >= MaxActive
Enter(t) ==
  LET o == run[t].op IN
  /\ At(t, "enter")
  /\ IF Full /\ ~closed
     THEN IF Over(o) THEN Go(t, "report") /\ UNCHANGED <<active, asleep>>
                     ELSE Sleep(t) /\ UNCHANGED <<run, active>>
     ELSE /\ UNCHANGED asleep
          /\ IF closed \/ o \in cancelled
             THEN Go(t, "report") /\ UNCHANGED active
             ELSE Go(t, "arm") /\ active' = active + 1
  /\ UNCHANGED <<work, life, pool, fan, closer>>

Unwatched(o) == UNCHANGED timer      \* mutation: the watchdog is never started
Watch(o) == timer' = [timer EXCEPT ![o] = "armed"]
Arm(t) ==
  LET o == run[t].op IN
  /\ At(t, "arm")
  /\ IF Over(o) THEN Go(t, "join") /\ UNCHANGED timer
     ELSE Go(t, "send") /\ Watch(o)
  /\ UNCHANGED <<operations, queue, future, cancelled, life, wire, fan, closer, asleep>>

(* An attempt ends: answered (the connection may be kept or not), refused  *)
(* for good, or failed, and then there is a second.  A connection comes    *)
(* from the pool when there is one.  An attempt ends by itself or because  *)
(* the watchdog or a cancellation shut its socket down.                    *)
TakeConnection == pool' = IF pool > 0 THEN pool - 1 ELSE 0
AttemptEnds(t, keep, again) ==
  /\ At(t, "send") \/ At(t, "again")
  /\ again => At(t, "send") /\ ~keep
  /\ run' = [run EXCEPT ![t] = [@ EXCEPT !.at = IF again THEN "again" ELSE "join", !.keep = keep]]
  /\ TakeConnection
  /\ UNCHANGED <<work, life, active, fan, closer, asleep>>
Answered(t) == \E keep, again \in BOOLEAN : AttemptEnds(t, keep, again)
Interrupted(t) == run[t].op \in cancelled /\ AttemptEnds(t, FALSE, FALSE)

(* The finally clause: timer.cancel() and join(), then the connection.     *)
Unjoined(o) == TRUE                  \* mutation: the watchdog is cancelled, not joined
Joined(o) == timer[o] # "firing"
Join(t) ==
  LET o == run[t].op IN
  /\ At(t, "join") /\ Joined(o)
  /\ timer' = [timer EXCEPT ![o] = IF @ = "armed" THEN "none" ELSE @]
  /\ run' = [run EXCEPT ![t] = [@ EXCEPT !.at = "give", !.keep = @ /\ ~Over(o)]]
  /\ UNCHANGED <<operations, queue, future, cancelled, life, wire, fan, closer, asleep>>

PooledAnyway(t) == run[t].keep /\ pool < PoolSize    \* mutation: a closed client keeps connections
Pooled(t) == run[t].keep /\ pool < PoolSize /\ ~closed
OneRoused == Notify                  \* mutation: the next waiter is told, of whatever kind
AllRoused == NotifyAll
Give(t) ==
  /\ At(t, "give")
  /\ pool' = IF Pooled(t) THEN pool + 1 ELSE pool
  /\ active' = active - 1
  /\ AllRoused
  /\ run' = [run EXCEPT ![t] = [@ EXCEPT !.at = "report", !.keep = FALSE]]
  /\ UNCHANGED <<work, life, fan, closer>>

Ended(o) == operations' = operations \ {o} /\ cancelled' = cancelled \ {o}
Report(t) ==
  LET o == run[t].op IN
  /\ At(t, "report")
  /\ future' = [future EXCEPT ![o] = "done"]
  /\ Ended(o)
  /\ NotifyAll
  /\ run' = [run EXCEPT ![t] = [@ EXCEPT !.at = IF t \in Workers THEN "idle" ELSE "out", !.op = None]]
  /\ UNCHANGED <<queue, timer, life, wire, fan, closer>>

Execute(t) == Enter(t) \/ Arm(t) \/ Join(t) \/ Give(t) \/ Report(t)

-----------------------------------------------------------------------------
(* _cancel(): abort() first, then, under the lock, what is still queued is *)
(* taken out; what a worker has keeps its credit until the worker is done. *)
Abort(o) == cancelled' = cancelled \cup ({o} \cap operations)  \* nobody looks once it is over
Removed(o) == RemoveFirst(queue, o)
Completed(o) == Ended(o) /\ NotifyAll
Dequeue(o) ==
  IF future[o] = "pending"
  THEN /\ future' = [future EXCEPT ![o] = "cancelled"]
       /\ queue' = Removed(o)
       /\ Completed(o)
  ELSE NotifyAll /\ UNCHANGED <<future, queue, operations, cancelled>>

-----------------------------------------------------------------------------
(* fanout().                                                               *)
FanStarts ==
  /\ fan.at = "idle"
  /\ fan' = [fan EXCEPT !.at = "admit"]
  /\ UNCHANGED <<work, life, wire, run, closer, asleep>>

FanAdmits(r) ==
  /\ fan.at = "admit" /\ r \in fan.todo /\ Room
  /\ operations' = operations \cup {r}
  /\ fan' = [at |-> "queue", todo |-> fan.todo \ {r}, op |-> r]
  /\ UNCHANGED <<queue, future, cancelled, timer, life, wire, run, closer, asleep>>
FanRefused(r) ==
  /\ fan.at = "admit" /\ r \in fan.todo /\ ~Room
  /\ fan' = [fan EXCEPT !.todo = @ \ {r}]
  /\ UNCHANGED <<work, life, wire, run, closer, asleep>>

FanQueues ==
  LET r == fan.op IN
  /\ fan.at = "queue"
  /\ fan' = [fan EXCEPT !.at = "admit", !.op = None]
  /\ IF closed
     THEN /\ future' = [future EXCEPT ![r] = "cancelled"]
          /\ Completed(r)
          /\ UNCHANGED queue
     ELSE /\ future' = [future EXCEPT ![r] = "pending"]
          /\ queue' = Append(queue, r)
          /\ Notify
          /\ UNCHANGED <<operations, cancelled>>
  /\ UNCHANGED <<timer, life, wire, run, closer>>
FanAllQueued ==
  /\ fan.at = "admit" /\ fan.todo = {}
  /\ fan' = [fan EXCEPT !.at = "collect", !.todo = {r \in Ranks : future[r] # "none"}]
  /\ UNCHANGED <<work, life, wire, run, closer, asleep>>

FanCollects(r) ==
  /\ fan.at = "collect" /\ r \in fan.todo /\ future[r] \in {"done", "cancelled"}
  /\ fan' = [fan EXCEPT !.todo = @ \ {r}]
  /\ UNCHANGED <<work, life, wire, run, closer, asleep>>
FanTimesOut(r) ==
  /\ fan.at = "collect" /\ r \in fan.todo \cap late /\ future[r] \in {"pending", "running"}
  /\ fan' = [at |-> "cancel", todo |-> fan.todo \ {r}, op |-> r]
  /\ Abort(r)
  /\ UNCHANGED <<operations, queue, future, timer, life, wire, run, closer, asleep>>
FanCancels ==
  /\ fan.at = "cancel"
  /\ Dequeue(fan.op)
  /\ fan' = [fan EXCEPT !.at = "collect", !.op = None]
  /\ UNCHANGED <<timer, life, wire, run, closer>>
FanReturns ==
  /\ fan.at = "collect" /\ fan.todo = {}
  /\ fan' = [fan EXCEPT !.at = "out"]
  /\ UNCHANGED <<work, life, wire, run, closer, asleep>>

Fanout ==
  \/ FanQueues \/ FanAllQueued \/ FanCancels \/ FanReturns
  \/ \E r \in Ranks : FanAdmits(r) \/ FanRefused(r) \/ FanCollects(r) \/ FanTimesOut(r)

-----------------------------------------------------------------------------
(* shutdown(): it raises when its own deadline passes, and may be repeated.*)
ShutBegins ==
  /\ closer.at = "idle" /\ ~stopped
  /\ closed' = TRUE /\ pool' = 0
  /\ closer' = [at |-> "abort", todo |-> operations, op |-> None]
  /\ NotifyAll
  /\ UNCHANGED <<plan, work, late, stopped, active, run, fan>>
ShutAborts(o) ==
  /\ closer.at = "abort" /\ o \in closer.todo
  /\ Abort(o)
  /\ closer' = [at |-> "cancel", todo |-> closer.todo \ {o}, op |-> o]
  /\ UNCHANGED <<operations, queue, future, timer, life, wire, run, fan, asleep>>
ShutCancels ==
  /\ closer.at = "cancel"
  /\ Dequeue(closer.op)
  /\ closer' = [closer EXCEPT !.at = "abort", !.op = None]
  /\ UNCHANGED <<timer, life, wire, run, fan>>

ShutWaits ==
  /\ Awake(Closer)
  /\ \/ /\ closer.at = "abort" /\ closer.todo = {}
        /\ closer' = [closer EXCEPT !.at = "wait"] /\ UNCHANGED asleep
     \/ /\ closer.at = "wait" /\ operations # {}
        /\ Sleep(Closer) /\ UNCHANGED closer
     \/ /\ closer.at = "wait" /\ operations = {}
        /\ closer' = [closer EXCEPT !.at = "join"] /\ UNCHANGED asleep
  /\ UNCHANGED <<work, life, wire, run, fan>>
ShutRaises ==
  /\ closer.at \in {"wait", "join"}
  /\ \/ closer.at = "wait" /\ operations # {}
     \/ closer.at = "join" /\ \E w \in Workers : run[w].at # "out"
  /\ closer' = [closer EXCEPT !.at = "idle"]
  /\ asleep' = asleep \ {Closer}
  /\ UNCHANGED <<work, life, wire, run, fan>>
ShutEnds ==
  /\ closer.at = "join" /\ \A w \in Workers : run[w].at = "out"
  /\ stopped' = TRUE
  /\ closer' = [closer EXCEPT !.at = "out"]
  /\ UNCHANGED <<plan, work, late, closed, wire, run, fan, asleep>>

Shutdown ==
  ShutCancels \/ ShutWaits \/ ShutEnds \/ \E o \in Ops : ShutAborts(o)

-----------------------------------------------------------------------------
Next ==
  \/ FanStarts \/ Fanout \/ ShutBegins \/ Shutdown \/ ShutRaises
  \/ \E o \in Ops : Deadline(o) \/ TimerFires(o) \/ TimerAborts(o)
  \/ \E t \in Runners : Execute(t) \/ Answered(t) \/ Interrupted(t)
  \/ \E w \in Workers : WorkerTakes(w) \/ WorkerSleeps(w) \/ WorkerEnds(w)
  \/ \E c \in Callers : CallAdmit(c) \/ CallRefused(c)

Spec == Init /\ [][Next]_vars

-----------------------------------------------------------------------------
(* README-coordinator-http.md: "cancelled queued work is physically        *)
(* removed.  Active credits remain held until the real callable and its    *)
(* watchdog finish."  A credit is held for exactly the operations that     *)
(* somebody still has: the queue, a thread, fanout() between two steps; no *)
(* watchdog outlives its operation's credit; both limits hold.             *)
Places(o) ==
  Cardinality({i \in DOMAIN queue : queue[i] = o}) + Cardinality({t \in Runners : Holding(t) /\ run[t].op = o})
    + (IF fan.at = "queue" /\ fan.op = o THEN 1 ELSE 0)
CreditsHeld ==
  /\ \A o \in Ops : Places(o) = IF o \in operations THEN 1 ELSE 0
  /\ \A o \in Ops : Watched(o) => o \in operations
  /\ Cardinality(operations) <= MaxPending[plan]
  /\ active = Cardinality({t \in Runners : Inside(t)}) /\ active <= MaxActive

(* One condition variable serves waiters of three kinds, and notify()      *)
(* wakes any one of them: still no worker sleeps while work is queued that *)
(* could run.                                                              *)
NoSleepOnWork ==
  queue # <<>> /\ (\E w \in Workers : run[w].at = "idle") =>
    Full \/ \E w \in Workers : run[w].at = "idle" /\ Awake(w)

(* "prove all work/watchdogs/workers drained": after a shutdown that did   *)
(* not raise, nothing of the client is left.                               *)
StoppedQuiet ==
  stopped => /\ operations = {} /\ queue = <<>> /\ pool = 0 /\ active = 0
             /\ \A o \in Ops : ~Watched(o)
             /\ \A w \in Workers : run[w].at = "out"

-----------------------------------------------------------------------------
(* Some thread of the client runs while one can, deadlines pass, timers    *)
(* fire, a failed shutdown is repeated in time; peers need not answer.     *)
Proceeds ==
  \/ Fanout
  \/ \E o \in Ops : Deadline(o) \/ TimerFires(o) \/ TimerAborts(o)
  \/ \E t \in Runners : Execute(t) \/ Interrupted(t)
  \/ \E w \in Workers : WorkerTakes(w) \/ WorkerSleeps(w) \/ WorkerEnds(w)
LiveSpec ==
  /\ Spec
  /\ WF_vars(Shutdown \/ (closed /\ ShutBegins))
  /\ WF_vars(Proceeds)

(* However often the peers do not answer, the client comes to rest: every  *)
(* credit is given back, fanout() has returned, and a shutdown that was    *)
(* begun (and repeated, when it raised) has ended.                         *)
OperationsEnd ==
  []<>(operations = {} /\ fan.at \in {"idle", "out"} /\ closed = stopped)
=============================================================================
