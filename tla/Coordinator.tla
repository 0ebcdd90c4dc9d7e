---------------------------- MODULE Coordinator ----------------------------
(***************************************************************************)
(* The scheduler-side coordinator (recipe_persistence/coordinator_http.py, *)
(* class RemoteCoordinator): a reservation holds a lease on every rank or  *)
(* on none, credits are held until every rank has acknowledged the         *)
(* cleanup, and an invalidated key is vetoed until it is gone everywhere.  *)
(*                                                                         *)
(* Its methods are called by the scheduler thread and by the metadata      *)
(* workers at the same time.  A section under self._lock is one step, and  *)
(* so is one call to one rank; a thread is where its pc says between them. *)
(* A call that gets no answer stays on the wire until its rank executes it *)
(* after all, or it is lost.                                               *)
(*                                                                         *)
(* A rank is its object store seen through _MetadataRPC, as DiskStore has  *)
(* it.  A lease token is named by the reservation that asked for it, and   *)
(* an object by the reservation that wrote it; the object of a key that    *)
(* was on disk when the coordinator started is named by the key.           *)
(***************************************************************************)
EXTENDS Integers, FiniteSets, Sequences, Functions

CONSTANTS
  Ranks, Keys,
  Scheduler, Workers,  \* the thread that reserves; those that do the rest
  Identities,    \* (key, owner, writing): what callers ask for
  Attempts,      \* reservations: request ids, and the tickets they become
  None,
  Charge,        \* bytes of a key: the largest payload of any rank
  MaxKeys, MaxBytes,   \* max_pending_keys, max_pending_bytes
  RetryMax,      \* bound of the cleanup replay log
  Ttl, Margin,   \* lease seconds and renewal margin, in ticks
  Uses           \* what the coordinator may be used for: the identities asked for, the methods
                 \* called, the workers at once, the unanswered calls under way at once,
                 \* whether time passes, and whether a rank may reject for good or the coordinator
                 \* shut down

Window == Ttl - Margin
Threads == Workers \cup {Scheduler}

Commands ==
  [kind : {"release", "renew", "reserve"}, rank : Ranks, arg : Attempts]
    \cup [kind : {"invalidate"}, rank : Ranks, arg : Keys]

ASSUME IdentityAssumption ==
  Identities \subseteq [key : Keys, owner : STRING, writing : BOOLEAN]
ASSUME NoneAssumption == None \notin Attempts \cup Keys \cup Identities \cup Ranks \cup Commands
ASSUME ObjectAssumption == Attempts \cap Keys = {}
ASSUME ThreadAssumption == Scheduler \notin Workers
ASSUME FiniteAssumption == IsFiniteSet(Attempts) /\ IsFiniteSet(Identities)
ASSUME ChargeAssumption == Charge \in [Keys -> Nat \ {0}]
ASSUME BoundAssumption == {MaxKeys, MaxBytes, RetryMax, Ttl, Margin} \subseteq Nat \ {0} /\ Margin < Ttl
Methods == {"reserve", "release", "invalidate", "renew", "complete"}
ASSUME UseAssumption ==
  Uses \subseteq [asks : SUBSET Identities, calls : SUBSET Methods, workers : Nat,
              losses : Nat, clock : BOOLEAN, closes : BOOLEAN]

VARIABLES
  use,         \* the use of this behaviour
  ask,         \* the identity every attempt is for
  stage,       \* "ticket" and "retiring" attempts are in self._tickets
  leases,      \* the ranks whose lease token the coordinator was given
  identities, valid, pending, bytes,
  invalid, invalidateAcked,
  retry, cleanupLost, closed,
  job,         \* where every thread stands
  rank,        \* every rank's objects, read leases and time left
  wire,        \* calls that got no answer and may yet be executed
  condemned    \* history: the objects some invalidate() was called about

bookkeeping == <<ask, stage, leases, identities, valid, pending, bytes>>
vetoes == <<invalid, invalidateAcked, condemned>>
log    == <<retry, cleanupLost>>
remote == <<rank, wire>>
vars   == <<use, bookkeeping, vetoes, log, closed, job, remote>>

Objects == Attempts \cup Keys
Tickets == {a \in Attempts : stage[a] \in {"ticket", "retiring"}}

Idle == [op |-> "none", pc |-> "idle", id |-> None, att |-> None, key |-> None, todo |-> {},
         ok |-> TRUE, win |-> 0, cmd |-> None, drop |-> TRUE, proved |-> FALSE]
Stop == [kind |-> "stop", rank |-> None, arg |-> None]  \* the replay of a cleanup failed, and with it the drain

Queued == Range(retry)

TypeOK ==
  /\ use \in Uses
  /\ ask \in [Attempts -> Identities \cup {None}]
  /\ stage \in [Attempts -> {"new", "asked", "ticket", "retiring", "dropped", "failed"}]
  /\ leases \in [Attempts -> SUBSET Ranks]
  /\ identities \in [Identities -> Attempts \cup {None}]
  /\ valid \in [Attempts -> 0..Window]
  /\ pending \subseteq Identities
  /\ bytes \in Int
  /\ invalid \subseteq Keys /\ invalidateAcked \subseteq Keys
  /\ Queued \subseteq Commands /\ Len(retry) <= RetryMax
  /\ cleanupLost \in BOOLEAN /\ closed \in BOOLEAN
  /\ job \in [Threads ->
       [op : Methods \cup {"none"},
        pc : {"idle", "admit", "fanout", "rollback", "vouch", "renew", "renewed", "recheck",
              "retire", "release", "veto", "invalidate", "exists"},
        id : Identities \cup {None}, att : Attempts \cup {None}, key : Keys \cup {None},
        todo : SUBSET Ranks, ok : BOOLEAN, win : 0..Window,
        cmd : Commands \cup {None, Stop}, drop : BOOLEAN, proved : BOOLEAN]]
  /\ rank \in [Ranks -> [obj  : [Objects -> {"none", "W", "C", "T"}],
                         hold : [Attempts -> Objects \cup {None}],
                         left : [Attempts -> 0..Ttl]]]
  /\ wire \subseteq Commands
  /\ condemned \subseteq Ranks \X Objects

(* At start-up the ranks hold whatever their disks held. *)
Init ==
  /\ use \in Uses
  /\ ask = [a \in Attempts |-> None]
  /\ stage = [a \in Attempts |-> "new"]
  /\ leases = [a \in Attempts |-> {}]
  /\ identities = [i \in Identities |-> None]
  /\ valid = [a \in Attempts |-> 0]
  /\ pending = {} /\ bytes = 0
  /\ invalid = {} /\ invalidateAcked = {} /\ condemned = {}
  /\ retry = <<>> /\ cleanupLost = FALSE /\ closed = FALSE
  /\ job = [t \in Threads |-> Idle]
  /\ \E disk \in [Ranks -> SUBSET Keys] :
       rank = [r \in Ranks |-> [obj  |-> [o \in Objects |-> IF o \in disk[r] THEN "C" ELSE "none"],
                                hold |-> [a \in Attempts |-> None],
                                left |-> [a \in Attempts |-> 0]]]
  /\ wire = {}

-----------------------------------------------------------------------------
(* One rank's store, R, executing a call. *)

KeyOf(o) == IF o \in Keys THEN o ELSE ask[o].key
Of(R, k, states) == {o \in Objects : R.obj[o] \in states /\ KeyOf(o) = k}
Alive(R, a) == R.left[a] > 0 /\ (R.hold[a] # None \/ R.obj[a] \in {"W", "C"})

(* The store may always refuse: quota, lease table, SQLite. *)
Grantable(R, a) ==
  IF ask[a].writing
  THEN \A o \in Of(R, ask[a].key, {"W", "C", "T"}) :
         R.obj[o] = "T" /\ \A b \in Attempts : R.hold[b] # o
  ELSE Of(R, ask[a].key, {"C"}) # {}
Granted(R, a) ==
  [R EXCEPT !.left[a] = Ttl,
            !.obj[a]  = IF ask[a].writing THEN "W" ELSE @,
            !.hold[a] = IF ask[a].writing THEN None ELSE CHOOSE o \in Of(R, ask[a].key, {"C"}) : TRUE]
Renewed(R, a) == IF Alive(R, a) THEN [R EXCEPT !.left[a] = Ttl] ELSE R
Released(R, a) ==
  [R EXCEPT !.left[a] = 0, !.hold[a] = None, !.obj[a] = IF @ = "W" THEN "T" ELSE @]
Invalidated(R, k) ==
  [R EXCEPT !.obj = [o \in Objects |-> IF o \in Of(R, k, {"W", "C"}) THEN "T" ELSE @[o]]]

After(c) ==
  [rank EXCEPT ![c.rank] =
     CASE c.kind = "release"    -> Released(@, c.arg)
       [] c.kind = "renew"      -> Renewed(@, c.arg)
       [] c.kind = "invalidate" -> Invalidated(@, c.arg)
       [] c.kind = "reserve"    -> Granted(@, c.arg)]

(* The rank executes a call whose caller has given up on it, or never gets *)
(* it.                                                                     *)
Late(c) ==
  /\ c \in wire
  /\ wire' = wire \ {c}
  /\ \/ /\ c.kind = "reserve" => Grantable(rank[c.rank], c.arg)
        /\ rank' = After(c)
     \/ UNCHANGED rank
  /\ UNCHANGED <<use, bookkeeping, vetoes, log, closed, job>>

(* A worker commits the object of a write ticket.  The manager completes   *)
(* a store only when no worker has any of its writes in progress.          *)
Commit(r, a) ==
  /\ stage[a] = "ticket"
  /\ \A t \in Threads : ~(job[t].op = "complete" /\ job[t].att = a)
  /\ rank[r].obj[a] = "W" /\ rank[r].left[a] > 0
  /\ rank' = [rank EXCEPT ![r].obj[a] = "C", ![r].left[a] = Ttl]
  /\ UNCHANGED <<use, bookkeeping, vetoes, log, closed, job, wire>>

Evict(r, o) ==
  /\ rank[r].obj[o] = "C"
  /\ o \in Attempts => rank[r].left[o] = 0
  /\ \A a \in Attempts : rank[r].hold[a] # o
  /\ rank' = [rank EXCEPT ![r].obj[o] = "T"]
  /\ UNCHANGED <<use, bookkeeping, vetoes, log, closed, job, wire>>

Less(n) == IF n = 0 THEN 0 ELSE n - 1
Ticked(R) ==
  [obj  |-> [o \in Objects |-> IF o \in Attempts /\ R.obj[o] = "W" /\ R.left[o] = 1 THEN "T" ELSE R.obj[o]],
   hold |-> [a \in Attempts |-> IF R.left[a] <= 1 THEN None ELSE R.hold[a]],
   left |-> [a \in Attempts |-> Less(R.left[a])]]
Tick ==
  /\ use.clock
  /\ rank' = [r \in Ranks |-> Ticked(rank[r])]
  /\ valid' = [a \in Attempts |-> Less(valid[a])]
  /\ job' = [t \in Threads |-> [job[t] EXCEPT !.win = Less(@)]]
  /\ UNCHANGED <<use, ask, stage, leases, identities, pending, bytes, vetoes, log, closed, wire>>

-----------------------------------------------------------------------------
(* Calls, and the replay log of cleanups that were not acknowledged. *)

At(t, pc) == job[t].pc = pc
Goto(t, j) == job' = [job EXCEPT ![t] = j] /\ UNCHANGED use
Called(t, r, ok) == [job[t] EXCEPT !.todo = @ \ {r}, !.ok = @ /\ ok]

Call(kind, r, arg) == [kind |-> kind, rank |-> r, arg |-> arg]
Answered(c) == rank' = After(c) /\ UNCHANGED wire
Unanswered(c) == Cardinality(wire) < use.losses /\ wire' = wire \cup {c} /\ UNCHANGED rank
(* A rejection for good closes the coordinator (_record_failure). *)
Recorded == closed' \in IF use.closes THEN {closed, TRUE} ELSE {closed}

KeptAll == retry              \* mutation: a deque without its maxlen
Shifted == Tail(retry)
OverflowIgnored == closed     \* mutation: the log overflows and nobody is told
Overflowed == TRUE
Replay(c) ==
  \/ /\ c \in Queued
     /\ UNCHANGED <<retry, cleanupLost>>
     /\ Recorded
  \/ /\ c \notin Queued /\ Len(retry) < RetryMax
     /\ retry' = Append(retry, c)
     /\ UNCHANGED cleanupLost
     /\ Recorded
  \/ /\ c \notin Queued /\ Len(retry) = RetryMax
     /\ retry' = Append(Shifted, c)
     /\ cleanupLost' = TRUE
     /\ closed' = Overflowed

(* _retry_cleanup(), with which four procedures end: pop an entry, replay  *)
(* it, and so on until the log is empty, a replay fails or the limit (here *)
(* any number) is reached.                                                 *)
Draining(t) == job[t].pc \in {"rollback", "release", "invalidate", "renewed"} /\ job[t].todo = {}
DrainOver(t) == Draining(t) /\ job[t].cmd \in {None, Stop}
Drained(t) == job[t].cmd = None /\ retry = <<>> /\ ~cleanupLost

DrainPop(t) ==
  /\ Draining(t) /\ job[t].cmd = None
  /\ retry # <<>>
  /\ retry' = Tail(retry)
  /\ Goto(t, [job[t] EXCEPT !.cmd = Head(retry)])
  /\ UNCHANGED <<bookkeeping, vetoes, cleanupLost, closed, remote>>

DrainCall(t) ==
  LET c == job[t].cmd IN
  /\ Draining(t) /\ c \in Commands
  /\ \/ /\ Answered(c)
        /\ Goto(t, [job[t] EXCEPT !.cmd = None])
        /\ UNCHANGED <<log, closed>>
     \/ /\ Unanswered(c)
        /\ Replay(c)
        /\ Goto(t, [job[t] EXCEPT !.cmd = Stop])
  /\ UNCHANGED <<bookkeeping, vetoes>>

(* _clear_veto_if_drained(), given what is left to ask for the key. *)
UnvetoedOnAck(k, acked, tickets, asked) == k \in acked   \* mutation: tickets are not waited for
UnvetoedUnacked(k, acked, tickets, asked) ==   \* mutation: the ranks need not have answered
  (\A a \in tickets : ask[a].key # k) /\ (\A i \in asked : i.key # k)
Unvetoed(k, acked, tickets, asked) ==
  k \in acked /\ (\A a \in tickets : ask[a].key # k) /\ (\A i \in asked : i.key # k)
ClearVeto(k, acked, tickets, asked) ==
  LET over == IF Unvetoed(k, acked, tickets, asked) THEN {k} ELSE {} IN
  /\ invalid' = invalid \ over
  /\ invalidateAcked' = acked \ over

-----------------------------------------------------------------------------
(* _reserve(): reserve_load() and reserve_store(). *)

(* The manager asks for nothing it is invalidating, for no store that it   *)
(* has, and for a load that it has only when the lease is over.            *)
Wanted(i) ==
  /\ i \in use.asks
  /\ \A u \in Workers : ~(job[u].op = "invalidate" /\ job[u].key = i.key)
  /\ identities[i] # None => ~i.writing /\ valid[identities[i]] = 0

BeginReserve(t, i) ==
  /\ t = Scheduler /\ At(t, "idle") /\ "reserve" \in use.calls /\ Wanted(i)
  /\ ~closed /\ i.key \notin invalid
  /\ LET a == identities[i]
         j == [Idle EXCEPT !.op = "reserve", !.id = i, !.key = i.key]
     IN IF a = None
        THEN Goto(t, [j EXCEPT !.pc = "admit"])
        ELSE stage[a] = "ticket" /\ Goto(t, [j EXCEPT !.pc = "vouch", !.att = a])
  /\ UNCHANGED <<bookkeeping, vetoes, log, closed, remote>>

(* The ticket was renewed: is it still the identity's?  Then it is         *)
(* returned; else a fresh reservation is made.                             *)
StillCurrent(t) ==
  /\ identities[job[t].id] = job[t].att
  /\ stage[job[t].att] # "retiring"
  /\ job[t].key \notin invalid
  /\ ~closed
Recheck(t) ==
  /\ At(t, "recheck")
  /\ Goto(t, IF StillCurrent(t) THEN Idle ELSE [job[t] EXCEPT !.pc = "admit", !.att = None])
  /\ UNCHANGED <<bookkeeping, vetoes, log, closed, remote>>

Pressure(i) ==
  \/ i \in pending
  \/ Cardinality(Tickets) + Cardinality(pending) >= MaxKeys
  \/ bytes + Charge[i.key] > MaxBytes

Refuse(t) ==
  /\ At(t, "admit")
  /\ closed \/ job[t].key \in invalid \/ Pressure(job[t].id)
  /\ Goto(t, Idle)
  /\ UNCHANGED <<bookkeeping, vetoes, log, closed, remote>>

(* Credits are taken before any rank is asked. *)
Admit(t, a) ==
  LET i == job[t].id IN
  /\ At(t, "admit")
  /\ ~closed /\ i.key \notin invalid /\ ~Pressure(i)
  /\ stage[a] = "new"
  /\ ask' = [ask EXCEPT ![a] = i]
  /\ stage' = [stage EXCEPT ![a] = "asked"]
  /\ pending' = pending \cup {i}
  /\ bytes' = bytes + Charge[i.key]
  /\ Goto(t, [job[t] EXCEPT !.pc = "fanout", !.att = a, !.todo = Ranks, !.win = Window])
  /\ UNCHANGED <<leases, identities, valid, vetoes, log, closed, remote>>

ReserveRank(t, r) ==
  LET a == job[t].att
      c == Call("reserve", r, a)
  IN
  /\ At(t, "fanout") /\ r \in job[t].todo
  /\ \/ /\ Grantable(rank[r], a)
        /\ Answered(c)
        /\ leases' = [leases EXCEPT ![a] = @ \cup {r}]
        /\ Goto(t, Called(t, r, TRUE))
        /\ UNCHANGED closed
     \/ /\ Goto(t, Called(t, r, FALSE))
        /\ UNCHANGED <<leases, remote, closed>>
     \/ /\ Unanswered(c)
        /\ Goto(t, Called(t, r, FALSE))
        /\ Recorded
        /\ UNCHANGED leases
  /\ UNCHANGED <<ask, stage, identities, valid, pending, bytes, vetoes, log>>

Window0(t) == Window                 \* mutation: the window starts with the last answer
WindowOf(t) == job[t].win
AcceptableBlind(t) == job[t].ok /\ WindowOf(t) > 0   \* mutation: nothing is looked at again
Acceptable(t) ==
  job[t].ok /\ ~closed /\ job[t].key \notin invalid /\ WindowOf(t) > 0

Accept(t) ==
  LET a == job[t].att IN
  /\ At(t, "fanout") /\ job[t].todo = {}
  /\ Acceptable(t)
  /\ stage' = [stage EXCEPT ![a] = "ticket"]
  /\ identities' = [identities EXCEPT ![ask[a]] = a]
  /\ valid' = [valid EXCEPT ![a] = WindowOf(t)]
  /\ pending' = pending \ {ask[a]}
  /\ Goto(t, Idle)
  /\ UNCHANGED <<ask, leases, bytes, vetoes, log, closed, remote>>

Reject(t) ==
  /\ At(t, "fanout") /\ job[t].todo = {}
  /\ ~Acceptable(t)
  /\ Goto(t, [job[t] EXCEPT !.pc = "rollback", !.todo = leases[job[t].att], !.ok = TRUE, !.win = 0])
  /\ UNCHANGED <<bookkeeping, vetoes, log, closed, remote>>

(* The finally clause: acknowledged or not, the credits go back. *)
RollbackEnd(t) ==
  LET a == job[t].att IN
  /\ At(t, "rollback") /\ DrainOver(t)
  /\ stage' = [stage EXCEPT ![a] = "failed"]
  /\ pending' = pending \ {ask[a]}
  /\ bytes' = bytes - Charge[job[t].key]
  /\ ClearVeto(job[t].key, invalidateAcked, Tickets, pending')
  /\ Goto(t, Idle)
  /\ UNCHANGED <<ask, leases, identities, valid, condemned, log, closed, remote>>

-----------------------------------------------------------------------------
(* The manager gives a worker no ticket, and no key to invalidate, that    *)
(* another worker still has (tokens and work_id of _dispatch_metadata).    *)
Busy == {t \in Workers : ~At(t, "idle")}
Worker(t) == t \in Workers \ Busy /\ Cardinality(Busy) < use.workers
Undispatched(a) == \A t \in Workers : job[t].att # a

(* renew(), called on its own and by _reserve(). *)

BeginRenew(t, a) ==
  /\ Worker(t) /\ "renew" \in use.calls
  /\ a \in Tickets /\ Undispatched(a)
  /\ Goto(t, [Idle EXCEPT !.op = "renew", !.pc = "vouch", !.att = a, !.key = ask[a].key])
  /\ UNCHANGED <<bookkeeping, vetoes, log, closed, remote>>

Current(a) == ~closed /\ stage[a] = "ticket" /\ ask[a].key \notin invalid

(* Where its caller goes on when renew() has returned. *)
Returned(t, renewed) ==
  IF job[t].op = "renew" THEN Idle
  ELSE [job[t] EXCEPT !.pc = IF renewed THEN "recheck" ELSE "retire",
                      !.ok = TRUE, !.cmd = None, !.win = 0]

RenewNow(t) ==
  LET a == job[t].att IN
  /\ At(t, "vouch")
  /\ Goto(t, IF Current(a) /\ valid[a] = 0
             THEN [job[t] EXCEPT !.pc = "renew", !.todo = Ranks, !.win = Window]
             ELSE Returned(t, Current(a)))
  /\ UNCHANGED <<bookkeeping, vetoes, log, closed, remote>>

RenewRank(t, r) ==
  LET c == Call("renew", r, job[t].att) IN
  /\ At(t, "renew") /\ r \in job[t].todo
  /\ \/ /\ Answered(c)
        /\ Goto(t, Called(t, r, Alive(rank[r], c.arg)))
     \/ /\ Unanswered(c)
        /\ Goto(t, Called(t, r, FALSE))
  /\ UNCHANGED <<bookkeeping, vetoes, log, closed>>

RenewAnswered(t) ==
  LET a == job[t].att
      renewed == job[t].ok /\ Current(a) /\ WindowOf(t) > 0
  IN
  /\ At(t, "renew") /\ job[t].todo = {}
  /\ valid' = [valid EXCEPT ![a] = IF renewed THEN WindowOf(t) ELSE @]
  /\ Goto(t, [job[t] EXCEPT !.pc = "renewed", !.ok = renewed, !.win = 0])
  /\ UNCHANGED <<ask, stage, leases, identities, pending, bytes, vetoes, log, closed, remote>>

RenewEnd(t) ==
  /\ At(t, "renewed") /\ DrainOver(t)
  /\ Goto(t, Returned(t, job[t].ok))
  /\ UNCHANGED <<bookkeeping, vetoes, log, closed, remote>>

-----------------------------------------------------------------------------
(* _release(), called by release(), _reserve() and complete_store(). *)

BeginRelease(t, a) ==
  /\ Worker(t) /\ "release" \in use.calls
  /\ a \in Tickets /\ ~ask[a].writing /\ Undispatched(a)
  /\ Goto(t, [Idle EXCEPT !.op = "release", !.pc = "retire", !.att = a, !.key = ask[a].key])
  /\ UNCHANGED <<bookkeeping, vetoes, log, closed, remote>>

Retire(t) ==
  LET a == job[t].att IN
  /\ At(t, "retire")
  /\ IF a \in Tickets
     THEN /\ stage' = [stage EXCEPT ![a] = "retiring"]
          /\ valid' = [valid EXCEPT ![a] = 0]
     ELSE UNCHANGED <<stage, valid>>
  /\ Goto(t, [job[t] EXCEPT !.pc = "release", !.todo = Ranks, !.ok = TRUE])
  /\ UNCHANGED <<ask, leases, identities, pending, bytes, vetoes, log, closed, remote>>

(* _rollback(), for a ticket that is let go or an attempt that failed. *)
ReleaseRank(t, r) ==
  LET c == Call("release", r, job[t].att) IN
  /\ job[t].pc \in {"release", "rollback"} /\ r \in job[t].todo
  /\ \/ /\ Answered(c)
        /\ Goto(t, Called(t, r, TRUE))
        /\ UNCHANGED <<log, closed>>
     \/ /\ Unanswered(c)
        /\ Replay(c)
        /\ Goto(t, Called(t, r, FALSE))
  /\ UNCHANGED <<bookkeeping, vetoes>>

Acknowledged(t) == job[t].ok /\ Drained(t)

DroppingAgain(t) == Acknowledged(t) /\ job[t].drop   \* mutation: not looked up again
Dropping(t) == Acknowledged(t) /\ job[t].drop /\ job[t].att \in Tickets

ReleaseEnd(t) ==
  LET a == job[t].att IN
  /\ At(t, "release") /\ DrainOver(t)
  /\ IF Dropping(t)
     THEN /\ stage' = [stage EXCEPT ![a] = "dropped"]
          /\ identities' = [identities EXCEPT ![ask[a]] = None]
          /\ bytes' = bytes - Charge[ask[a].key]
          /\ ClearVeto(ask[a].key, invalidateAcked, Tickets \ {a}, pending)
     ELSE UNCHANGED <<stage, identities, bytes, invalid, invalidateAcked>>
  /\ Goto(t, Idle)
  /\ UNCHANGED <<ask, leases, valid, pending, condemned, log, closed, remote>>

-----------------------------------------------------------------------------
(* invalidate() and complete_store(). *)

(* on_load_failure() runs in the scheduler's thread and notes the key in    *)
(* _invalidations, where lookup() and prepare_store() see it until a reset; *)
(* so the job it queues never meets a reservation of its key.               *)
BeginInvalidate(t, k) ==
  /\ Worker(t) /\ "invalidate" \in use.calls
  /\ \A u \in Threads : ~(job[u].op \in {"invalidate", "reserve"} /\ job[u].key = k)
  /\ Goto(t, [Idle EXCEPT !.op = "invalidate", !.pc = "veto", !.key = k])
  /\ UNCHANGED <<bookkeeping, vetoes, log, closed, remote>>

(* Where its caller goes on when invalidate() has returned. *)
Vetoed(t, acked) ==
  IF job[t].op = "invalidate" THEN Idle
  ELSE [job[t] EXCEPT !.pc = "retire", !.drop = acked, !.cmd = None, !.ok = TRUE]

Veto(t) ==
  LET k == job[t].key IN
  /\ At(t, "veto")
  /\ IF k \notin invalid /\ Cardinality(invalid) >= MaxKeys
     THEN /\ closed' = TRUE
          /\ Goto(t, Vetoed(t, FALSE))
          /\ UNCHANGED <<invalid, condemned>>
     ELSE /\ invalid' = invalid \cup {k}
          /\ condemned' = condemned \cup
               UNION {{r} \X Of(rank[r], k, {"C"}) : r \in Ranks}
          /\ Goto(t, [job[t] EXCEPT !.pc = "invalidate", !.todo = Ranks, !.ok = TRUE])
          /\ UNCHANGED closed
  /\ UNCHANGED <<bookkeeping, invalidateAcked, log, remote>>

InvalidateRank(t, r) ==
  LET c == Call("invalidate", r, job[t].key) IN
  /\ At(t, "invalidate") /\ r \in job[t].todo
  /\ \/ /\ Answered(c)
        /\ Goto(t, Called(t, r, TRUE))
        /\ UNCHANGED <<log, closed>>
     \/ /\ Unanswered(c)
        /\ Replay(c)
        /\ Goto(t, Called(t, r, FALSE))
  /\ UNCHANGED <<bookkeeping, vetoes>>

InvalidateEnd(t) ==
  /\ At(t, "invalidate") /\ DrainOver(t)
  /\ IF Acknowledged(t)
     THEN ClearVeto(job[t].key, invalidateAcked \cup {job[t].key}, Tickets, pending)
     ELSE UNCHANGED <<invalid, invalidateAcked>>
  /\ Goto(t, Vetoed(t, Acknowledged(t)))
  /\ UNCHANGED <<bookkeeping, condemned, log, closed, remote>>

(* The workers report success or failure; success is not taken on trust. *)
BeginComplete(t, a, success) ==
  /\ Worker(t) /\ "complete" \in use.calls
  /\ a \in Tickets /\ ask[a].writing /\ Undispatched(a)
  /\ Goto(t, [Idle EXCEPT !.op = "complete", !.att = a, !.key = ask[a].key,
                          !.pc = IF success THEN "exists" ELSE "veto",
                          !.todo = IF success THEN Ranks ELSE {}])
  /\ UNCHANGED <<bookkeeping, vetoes, log, closed, remote>>

ExistsRank(t, r) ==
  /\ At(t, "exists") /\ r \in job[t].todo
  /\ \/ Goto(t, Called(t, r, Of(rank[r], job[t].key, {"C"}) # {}))
     \/ use.losses > 0 /\ Goto(t, Called(t, r, FALSE))
  /\ UNCHANGED <<bookkeeping, vetoes, log, closed, remote>>

ProvedByAny(t) == TRUE               \* mutation: the workers' report is taken on trust
Proved(t) == job[t].ok
ExistsEnd(t) ==
  /\ At(t, "exists") /\ job[t].todo = {}
  /\ Goto(t, [job[t] EXCEPT !.pc = IF Proved(t) THEN "retire" ELSE "veto",
                            !.ok = TRUE, !.proved = job[t].ok])
  /\ UNCHANGED <<bookkeeping, vetoes, log, closed, remote>>

Shutdown ==
  /\ use.closes /\ ~closed
  /\ closed' = TRUE
  /\ UNCHANGED <<use, bookkeeping, vetoes, log, job, remote>>

-----------------------------------------------------------------------------
RankCall(t) ==
  \E r \in Ranks : \/ ReserveRank(t, r) \/ RenewRank(t, r) \/ ReleaseRank(t, r)
                   \/ InvalidateRank(t, r) \/ ExistsRank(t, r)

Proceed(t) ==
  \/ Recheck(t) \/ Refuse(t) \/ (\E a \in Attempts : Admit(t, a)) \/ Accept(t) \/ Reject(t)
  \/ RenewNow(t) \/ RenewAnswered(t) \/ Retire(t) \/ Veto(t) \/ ExistsEnd(t)
  \/ DrainPop(t) \/ DrainCall(t)
  \/ RollbackEnd(t) \/ RenewEnd(t) \/ ReleaseEnd(t) \/ InvalidateEnd(t)

Begin(t) ==
  \/ \E i \in Identities : BeginReserve(t, i)
  \/ \E k \in Keys : BeginInvalidate(t, k)
  \/ \E a \in Attempts : \/ BeginRenew(t, a) \/ BeginRelease(t, a)
                         \/ \E success \in BOOLEAN : BeginComplete(t, a, success)

Next ==
  \/ \E t \in Threads : Begin(t) \/ Proceed(t) \/ RankCall(t)
  \/ \E c \in Commands : Late(c)
  \/ \E r \in Ranks : \/ \E a \in Attempts : Commit(r, a)
                      \/ \E o \in Objects : Evict(r, o)
  \/ Tick \/ Shutdown

Spec == Init /\ [][Next]_vars

-----------------------------------------------------------------------------
(* lease_deadline(): is the ticket vouched for? *)
Vouched(a) == Current(a) /\ valid[a] > 0

(* A ticket the coordinator vouches for has time left on every rank, and a *)
(* load ticket has its lease there, however slow or lost the answers were. *)
VouchedLeasesLive ==
  \A a \in Attempts : Vouched(a) =>
    \A r \in Ranks : /\ rank[r].left[a] > 0
                     /\ ~ask[a].writing => rank[r].hold[a] # None

(* A lease whose token the coordinator was given is never forgotten: a     *)
(* ticket or a running reservation has it, its release is being called,    *)
(* replayed or queued, or the coordinator has closed; and a ticket leaves  *)
(* the books, with its credits, only when every rank has let go.           *)
Holds(r, a) == rank[r].hold[a] # None \/ rank[r].obj[a] = "W"
NoForgottenLease ==
  \A a \in Attempts :
    /\ \A r \in leases[a] : Holds(r, a) =>
         \/ closed
         \/ stage[a] \in {"asked", "ticket", "retiring"}
         \/ Call("release", r, a) \in Queued \cup {job[t].cmd : t \in Threads}
    /\ stage[a] = "dropped" => \A r \in Ranks : ~Holds(r, a)

(* The books balance: every ticket and every running reservation is        *)
(* charged once, and the bounds hold whatever the interleaving.            *)
Charged == {a \in Attempts : stage[a] \in {"asked", "ticket", "retiring"}}
Credits(q, S) == UNION {{a} \X (1..Charge[q[a].key]) : a \in S}   \* a member for every byte
CreditsExact ==
  /\ bytes = Cardinality(Credits(ask, Charged))
  /\ bytes <= MaxBytes
  /\ Cardinality(Tickets) + Cardinality(pending) <= MaxKeys

(* An object that was there when invalidate() was called for its key is    *)
(* never behind a load ticket that the coordinator vouches for.            *)
CondemnedNeverVouched ==
  \A a \in Attempts : Vouched(a) =>
    \A r \in Ranks : <<r, rank[r].hold[a]>> \notin condemned

(* README-coordinator-http.md: "Unknown cleanup is never acknowledgement." *)
(* A key stays vetoed as long as a rank still serves an object that        *)
(* invalidate() was called about, whatever was lost, replayed or popped.   *)
VetoUntilGone ==
  \A c \in condemned : rank[c[1]].obj[c[2]] = "C" => KeyOf(c[2]) \in invalid \/ closed

(* What the manager relies on: TicketService.                              *)
Standing(a) ==
  \A r \in Ranks : rank[r].left[a] > 0 /\ (~ask[a].writing => rank[r].hold[a] # None)
LeaseOf     == [a \in Attempts |-> IF stage[a] \in {"ticket", "retiring", "dropped"} THEN stage[a] ELSE "none"]
InUse       == [a \in Attempts |-> IF a \in Tickets THEN ask[a].key ELSE None]
ToldOf      == {a \in Attempts : Vouched(a)}
InForce     == {a \in Attempts : Standing(a)}
Holding     == {a \in Attempts : \E r \in Ranks : Holds(r, a)}
StillServed == {KeyOf(c[2]) : c \in {d \in condemned : rank[d[1]].obj[d[2]] = "C"}}
Service == INSTANCE TicketService WITH
  Tickets <- Attempts, lease <- LeaseOf, key <- InUse, vouched <- ToldOf,
  standing <- InForce, kept <- Holding, vetoed <- invalid, served <- StillServed
ServiceSpec == Service!Spec

(* complete_store() ends with the object proved on every rank, or with it  *)
(* servable on none.                                                       *)
AllOrNothing ==
  [][\A t \in Threads : LET j == job[t] IN
       j.op = "complete" /\ job'[t] = Idle /\ stage[j.att] = "retiring" /\ stage'[j.att] = "dropped"
         => j.proved \/ \A r \in Ranks : rank[r].obj[j.att] \notin {"W", "C"}]_vars

(* The comment in _reserve(): looking again under the lock "keeps the      *)
(* identity semantics exact".  Then a ticket is the one its identity names.*)
IdentityIndexed ==
  \A a \in Attempts : stage[a] = "ticket" => identities[ask[a]] = a
=============================================================================
