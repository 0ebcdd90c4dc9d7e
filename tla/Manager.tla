------------------------------ MODULE Manager ------------------------------
(***************************************************************************)
(* The manager of the disk tier in the scheduler process                   *)
(* (recipe_persistence/native.py, class _Manager) with background          *)
(* metadata workers: what it answers to lookup(), which tickets it owns,   *)
(* and how it gives them back.                                             *)
(*                                                                         *)
(* Only the scheduler thread calls the manager and changes its maps (m).   *)
(* Cleanups run in an executor: a future is queued, runs, and is done when *)
(* the coordinator answered; the manager learns of it when it polls.       *)
(* reserve_load() and reserve_store() are called in the scheduler thread,  *)
(* while futures go on.  The coordinator (c) is seen as in Coordinator: a  *)
(* ticket is held, retiring from the start of its release until all ranks  *)
(* have acknowledged it, then gone.                                        *)
(*                                                                         *)
(* The scheduler works in passes: in each it looks up every request that   *)
(* was deferred, prepares the loads that were promised, then stores, and   *)
(* ends with on_schedule_end() if there is a batch.                        *)
(***************************************************************************)
EXTENDS Integers, FiniteSets, Sequences

CONSTANTS
  Owners, Keys, Tickets, None,
  Submitted,     \* metadata_max_submitted: futures at a time
  StaleMax,      \* _STALE_LEASE_MAX_RETRY
  AttemptsMax,   \* _METADATA_MAX_ATTEMPTS
  Setups         \* identities asked for, methods called, capacity, lookup_keys_per_step (0: none)

Ids   == Owners \X Keys
Works == ({"load", "store"} \X Ids) \cup ({"invalidate"} \X Keys)
Methods == {"load", "fail", "store", "finish", "reset", "shutdown"}
Events  == {"expiry", "renewal", "doubt"}   \* leases expire, are renewed early, a store fails somewhere

ASSUME NoneAssumption == None \notin Owners \cup Keys \cup Tickets \cup Ids
ASSUME FiniteAssumption == IsFiniteSet(Ids) /\ IsFiniteSet(Tickets)
ASSUME BoundAssumption == {Submitted, StaleMax, AttemptsMax} \subseteq Nat \ {0}
ASSUME SetupAssumption ==
  Setups \subseteq [ids : SUBSET Ids, calls : SUBSET (Methods \cup Events), capacity : Nat \ {0}, budget : Nat]

VARIABLES
  setup,
  m,           \* the maps of the manager
  c,           \* the coordinator: leases, deadlines passed, identities, vetoed keys
  call,        \* the scheduler thread: idle, in a reservation, after a failed load, shut down
  answer,      \* what the last lookup answered: "no", "wait" (None) or "yes"
  seen,        \* identities looked up in this pass
  late,        \* the wall-clock time of the lookup turn is over
  finished,    \* requests that are finished
  overlapped,  \* history: identities reserved while an older ticket of theirs was being released
  marked,      \* history: identities prepared while marked as retiring
  tainted      \* history: tickets the manager had of a key when its load failed

history == <<finished, overlapped, marked, tainted>>
vars == <<setup, m, c, call, answer, seen, late, history>>

Idle == [at |-> "idle", id |-> None, for |-> "none", old |-> None]
Future == [kind : {"load", "store", "invalidate", "renew"}, on : Ids \cup Keys \cup Tickets,
           ticket : Tickets \cup {None}, at : {"queued", "running", "done"}, ack : BOOLEAN]

Owned(x, map) == {i \in Ids : x[map][i] # None}
Vetoed(x) == {k \in Keys : x.veto[k] # "none"}

TypeOK ==
  /\ setup \in Setups
  /\ m.loads \in [Ids -> Tickets \cup {None}] /\ m.stores \in [Ids -> Tickets \cup {None}]
  /\ m.retiring \subseteq Ids /\ m.retiringStores \subseteq Ids /\ m.prepared \subseteq Ids
  /\ m.renewals \subseteq Tickets
  /\ m.stale \in [Ids -> 0..StaleMax]
  /\ m.veto \in [Keys -> {"none", "asked", "acked"}]
  /\ {m.reset, m.closed, m.quarantined} \subseteq BOOLEAN
  /\ m.futures \subseteq Future /\ Cardinality(m.futures) <= Submitted
  /\ \A f, g \in m.futures : <<f.kind, f.on>> = <<g.kind, g.on>> \/ (f.ticket = g.ticket /\ f.ticket # None) => f = g
  /\ m.attempts \in [Works -> 0..(AttemptsMax + 1)] /\ m.backoff \subseteq Works
  /\ m.owners \in Seq(Owners) /\ Len(m.owners) <= setup.capacity
  /\ m.turn \in Owners \cup {None} /\ m.left \in 0..setup.budget
  /\ Cardinality(Owned(m, "loads")) + Cardinality(Owned(m, "stores")) <= setup.capacity
  /\ Cardinality(Vetoed(m)) <= setup.capacity
  /\ c.lease \in [Tickets -> {"none", "held", "retiring"}]
  /\ c.of \in [Tickets -> (Ids \X {"load", "store"}) \cup {None}]
  /\ c.over \subseteq Tickets /\ c.acked \subseteq c.vetoed /\ c.vetoed \subseteq Keys
  /\ c.index \in [Ids \X {"load", "store"} -> Tickets \cup {None}]
  /\ call \in [at : {"idle", "ask", "vouch", "fanout", "failure", "drain", "down"}, id : Ids \cup {None},
               for : {"load", "probe", "store", "none"}, old : Tickets \cup {None}]
  /\ answer \in [Ids -> {"no", "wait", "yes"}] /\ seen \subseteq Ids /\ late \in BOOLEAN
  /\ finished \subseteq Owners /\ overlapped \subseteq Ids /\ marked \subseteq Ids /\ tainted \subseteq Tickets

Init ==
  /\ setup \in Setups
  /\ m = [loads |-> [i \in Ids |-> None], stores |-> [i \in Ids |-> None],
          retiring |-> {}, retiringStores |-> {}, prepared |-> {}, renewals |-> {},
          stale |-> [i \in Ids |-> 0], veto |-> [k \in Keys |-> "none"],
          reset |-> FALSE, closed |-> FALSE, quarantined |-> FALSE,
          futures |-> {}, attempts |-> [w \in Works |-> 0], backoff |-> {},
          owners |-> <<>>, turn |-> None, left |-> setup.budget]
  /\ c = [lease |-> [t \in Tickets |-> "none"], of |-> [t \in Tickets |-> None], over |-> {},
          index |-> [w \in Ids \X {"load", "store"} |-> None], vetoed |-> {}, acked |-> {}]
  /\ call = Idle /\ answer = [i \in Ids |-> "no"] /\ seen = {} /\ late = TRUE
  /\ finished = {} /\ overlapped = {} /\ marked = {} /\ tainted = {}

-----------------------------------------------------------------------------
Used(method) == method \in setup.calls
At(p) == call.at = p

(* The coordinator.  A deadline is known while the ticket is vouched for.  *)
KeyOf(t) == c.of[t][1][2]
Live(t) == c.lease[t] # "none"
Known(t) == c.lease[t] = "held" /\ KeyOf(t) \notin c.vetoed
Expired(t) == Known(t) /\ t \in c.over
Valid(t) == Known(t) /\ t \notin c.over

Retired(x, t) == [x EXCEPT !.lease[t] = IF @ = "held" THEN "retiring" ELSE @]
(* A veto ends when all ranks have acknowledged it and the key has no      *)
(* ticket and no pending reservation.                                      *)
Pends(k) == At("fanout") /\ call.id[2] = k
Drained(x, k, pends) ==
  LET used == pends \/ \E t \in Tickets : x.lease[t] # "none" /\ x.of[t][1][2] = k
  IN IF k \in x.acked /\ ~used THEN [x EXCEPT !.vetoed = @ \ {k}, !.acked = @ \ {k}] ELSE x
Gone(x, t) ==
  Drained([x EXCEPT !.lease[t] = "none", !.of[t] = None, !.over = @ \ {t}, !.index[x.of[t]] = None],
          x.of[t][1][2], Pends(x.of[t][1][2]))
(* A release ends with all acknowledgements, or the ticket stays retiring. *)
Release(t) == IF Live(t) THEN {Gone(c, t), Retired(c, t)} ELSE {c}

(* The owner's lease window passes. *)
Expires(t) ==
  /\ Used("expiry") /\ c.lease[t] = "held" /\ t \notin c.over
  /\ c' = [c EXCEPT !.over = @ \cup {t}]
  /\ UNCHANGED <<setup, m, call, answer, seen, late, history>>

-----------------------------------------------------------------------------
(* Futures.                                                                *)
Became(f, g) == m' = [m EXCEPT !.futures = (@ \ {f}) \cup {g}]
Done(f, ack) == [f EXCEPT !.at = "done", !.ack = ack]
Surviving == tainted' = {t \in tainted : c'.lease[t] # "none"}

(* release() marks the ticket before it calls a rank, complete_store()      *)
(* after it has asked the ranks for the object.                            *)
ReleaseBegins(f) ==
  /\ f.at = "queued" /\ f.kind \in {"load", "store"}
  /\ Became(f, [f EXCEPT !.at = "running"])
  /\ c' = IF f.kind = "load" THEN Retired(c, f.ticket) ELSE c
  /\ UNCHANGED <<setup, call, answer, seen, late, history>>
(* A store that did not succeed everywhere invalidates its key.            *)
Invalid(x, k, ack) == [x EXCEPT !.vetoed = @ \cup {k}, !.acked = IF ack THEN @ \cup {k} ELSE @]
Doubts(x, f) ==
  IF f.kind = "store" /\ Used("doubt") /\ x.lease[f.ticket] # "none"
  THEN {x} \cup {Invalid(x, f.on[2], acked) : acked \in {TRUE, f.ack}} ELSE {x}
ReleaseEnds(f, ack) ==
  /\ f.at = "running"
  /\ Became(f, Done(f, ack))
  /\ \E x \in Doubts(c, Done(f, ack)) :
       IF ack THEN c' = IF x.lease[f.ticket] # "none" THEN Gone(x, f.ticket) ELSE x
              ELSE c' \in {x, Retired(x, f.ticket)}
  /\ Surviving
  /\ UNCHANGED <<setup, call, answer, seen, late, finished, overlapped, marked>>
RenewEnds(f, ack) ==
  /\ f.at = "queued" /\ f.kind = "renew"
  /\ ack => Known(f.ticket)
  /\ Became(f, Done(f, ack))
  /\ c' = IF ack THEN [c EXCEPT !.over = @ \ {f.ticket}] ELSE c
  /\ UNCHANGED <<setup, call, answer, seen, late, history>>
InvalidateEnds(f, ack) ==
  /\ f.at = "queued" /\ f.kind = "invalidate"
  /\ Became(f, Done(f, ack))
  /\ c' = Drained(Invalid(c, f.on, ack), f.on, Pends(f.on))
  /\ UNCHANGED <<setup, call, answer, seen, late, history>>
Executor ==
  \E f \in m.futures : \/ ReleaseBegins(f)
                       \/ \E ack \in BOOLEAN : ReleaseEnds(f, ack) \/ RenewEnds(f, ack) \/ InvalidateEnds(f, ack)

-----------------------------------------------------------------------------
(* _metadata_pending(), _degrade(), _poll_metadata(), _dispatch_metadata() *)
(* as functions of the manager's maps.                                     *)
Pending(x) ==
  \/ x.quarantined \/ x.futures # {} \/ x.retiring # {} \/ x.retiringStores # {}
  \/ x.renewals # {} \/ \E k \in Keys : x.veto[k] = "asked"

GateCleared(x) == [x EXCEPT !.owners = <<>>, !.turn = None, !.left = setup.budget]
Degraded(x) == GateCleared([x EXCEPT !.closed = TRUE])
(* The requests that wait, a dict in the order of their arrival, less S.   *)
Without(q, S) ==
  LET kept == {n \in 1..Len(q) : q[n] \notin S}
      place(n) == Cardinality({p \in kept : p <= n})
  IN [r \in 1..Cardinality(kept) |-> q[CHOOSE n \in kept : place(n) = r]]
Forget(x, o) == [x EXCEPT !.owners = Without(@, {o})]

DroppedOnError(f) == TRUE            \* mutation: a cleanup that failed drops the ticket too
Dropped(f) == f.ack
Reconciled(x) ==
  LET done    == {f \in x.futures : f.at = "done"}
      over    == {f \in done : f.kind # "renew" /\ Dropped(f)}
      acked   == {<<f.kind, f.on>> : f \in over}
      nacked  == {<<f.kind, f.on>> : f \in {g \in done : g.kind # "renew"} \ over}
      lost    == {f.ticket : f \in {g \in done : g.kind = "renew" /\ ~g.ack}}
      given(kind, i, t) == \E f \in over : f.kind = kind /\ f.on = i /\ f.ticket = t
  IN [x EXCEPT
        !.futures = @ \ done,
        !.loads = [i \in Ids |-> IF given("load", i, @[i]) THEN None ELSE @[i]],
        !.stores = [i \in Ids |-> IF given("store", i, @[i]) THEN None ELSE @[i]],
        !.retiring = {i \in @ : <<"load", i>> \notin acked} \cup {i \in Ids : x.loads[i] \in lost},
        !.retiringStores = {i \in @ : <<"store", i>> \notin acked},
        !.renewals = @ \ {f.ticket : f \in over \cup {g \in done : g.kind = "renew"}},
        !.veto = [k \in Keys |-> IF <<"invalidate", k>> \in acked THEN "acked" ELSE @[k]],
        !.attempts = [w \in Works |-> IF w \in acked THEN 0
                                      ELSE IF w \in nacked /\ @[w] <= AttemptsMax THEN @[w] + 1 ELSE @[w]],
        !.backoff = (@ \ acked) \cup {w \in nacked : x.attempts[w] < AttemptsMax}]
Rejected(x) == \E f \in x.futures :
  f.at = "done" /\ f.kind # "renew" /\ ~f.ack /\ x.attempts[<<f.kind, f.on>>] >= AttemptsMax

Invalidated(x) == \A k \in Keys : x.veto[k] # "asked"   \* mutation: the tickets are not waited for
SafeReset(x) == Owned(x, "loads") = {} /\ Owned(x, "stores") = {} /\ ~Pending(x)
Polled(x) ==
  LET y == IF Rejected(x) THEN Degraded(Reconciled(x)) ELSE Reconciled(x)
  IN IF y.reset /\ SafeReset(y)
     THEN [y EXCEPT !.veto = [k \in Keys |-> "none"], !.reset = FALSE]
     ELSE y

Job(kind, on, t) == [kind |-> kind, on |-> on, ticket |-> t, at |-> "queued", ack |-> FALSE]
Jobs(x) ==
  LET renewable == {x.loads[i] : i \in Ids \ x.retiring} \cup {x.stores[i] : i \in Ids \ x.retiringStores}
  IN {Job("invalidate", k, None) : k \in {l \in Keys : x.veto[l] = "asked"}}
       \cup {Job("load", i, x.loads[i]) : i \in (x.retiring \cap Owned(x, "loads")) \ x.prepared}
       \cup {Job("store", i, x.stores[i]) : i \in x.retiringStores \cap Owned(x, "stores")}
       \cup {Job("renew", t, t) : t \in x.renewals \cap renewable}
Submittable(x, j) ==
  /\ <<j.kind, j.on>> \notin x.backoff
  /\ \A f \in x.futures : <<f.kind, f.on>> # <<j.kind, j.on>> /\ (j.ticket = None \/ f.ticket # j.ticket)

(* Up to the limit, invalidations first; of the rest, in some order.       *)
Dispatched(x) ==
  LET ready  == {j \in Jobs(x) : Submittable(x, j)}
      urgent == {j \in ready : j.kind = "invalidate"}
      room   == Submitted - Cardinality(x.futures)
      number == IF Cardinality(ready) < room THEN Cardinality(ready) ELSE room
  IN IF x.quarantined \/ room <= 0 THEN {x}
     ELSE {[x EXCEPT !.futures = @ \cup S] :
             S \in {T \in SUBSET ready : Cardinality(T) = number /\ (urgent \subseteq T \/ T \subseteq urgent)}}

BackoffEnds ==
  /\ m.backoff # {}
  /\ m' = [m EXCEPT !.backoff = {}]
  /\ UNCHANGED <<setup, c, call, answer, seen, late, history>>

-----------------------------------------------------------------------------
(* The lookup gate.                                                        *)
Rotated(x) ==
  LET mine == \E n \in DOMAIN x.owners : x.owners[n] = x.turn
      queue == IF mine THEN Append(Without(x.owners, {x.turn}), x.turn) ELSE x.owners
  IN [x EXCEPT !.owners = queue, !.turn = IF queue = <<>> THEN None ELSE Head(queue), !.left = setup.budget]

Clockless(x) == x                    \* mutation: only on_schedule_end() gives the turn away
Turned(x) == IF late THEN Rotated(x) ELSE x
Queued(x, o) ==
  LET y == Turned(x)
      z == IF \E n \in DOMAIN y.owners : y.owners[n] = o THEN y ELSE [y EXCEPT !.owners = Append(@, o)]
  IN [z EXCEPT !.turn = IF @ = None THEN Head(z.owners) ELSE @]
Crowded(x, o) ==
  LET y == Turned(x) IN (\A n \in DOMAIN y.owners : y.owners[n] # o) /\ Len(y.owners) >= setup.capacity

-----------------------------------------------------------------------------
(* lookup().                                                               *)
Answered(i, a) == answer' = [answer EXCEPT ![i] = a]
Marked(x, I) == [x EXCEPT !.retiring = @ \cup I, !.renewals = @ \ {x.loads[i] : i \in I}]
Requested(x, t) == [x EXCEPT !.renewals = @ \cup {t}]
Vouched(x, t) == IF Used("renewal") THEN {x, Requested(x, t)} ELSE {x}   \* less than 30 s are left, or not
Asked == {i \in Ids : answer[i] = "wait"} \subseteq seen   \* the deferred ones, in this pass
StepOver == answer' = [i \in Ids |-> IF answer[i] = "yes" THEN "no" ELSE answer[i]]

AtCapacity(x) == Cardinality(Owned(x, "loads")) + Cardinality(Owned(x, "stores")) + Cardinality(Vetoed(x)) > setup.capacity
Full(x) == Cardinality(Owned(x, "loads")) + Cardinality(Owned(x, "stores")) + Cardinality(Vetoed(x)) >= setup.capacity

(* On to reserve_load(), if there is room and it is the owner's turn.      *)
Admission(x, i) ==
  IF Full(x)
  THEN m' = Forget(x, i[1]) /\ Answered(i, "no") /\ UNCHANGED <<call, late>>
  ELSE IF setup.budget = 0
  THEN m' = x /\ call' = [at |-> "ask", id |-> i, for |-> "load", old |-> None] /\ UNCHANGED <<answer, late>>
  ELSE /\ late' = FALSE
       /\ IF Crowded(x, i[1]) THEN m' = Turned(x) /\ Answered(i, "no") /\ UNCHANGED call
          ELSE LET y == Queued(x, i[1]) IN
               IF y.turn # i[1] \/ y.left = 0
               THEN m' = y /\ Answered(i, "wait") /\ UNCHANGED call
               ELSE /\ m' = [y EXCEPT !.left = @ - 1]
                    /\ call' = [at |-> "ask", id |-> i, for |-> "load", old |-> None]
                    /\ UNCHANGED answer

Exhausted(x, i) == x.stale[i] >= StaleMax
(* _release_stale_reservation(), and _stale_lease_lookup() without an      *)
(* expired deadline.                                                       *)
Stale(x, i) == Dispatched([Marked(x, {i}) EXCEPT !.stale[i] = 0])
Uncertain(x, i) ==
  IF Exhausted(x, i)
  THEN m' \in Stale(x, i) /\ Answered(i, "no")
  ELSE m' \in Dispatched([Requested(x, x.loads[i]) EXCEPT !.stale[i] = @ + 1]) /\ Answered(i, "wait")

LookupRefused(i) ==
  /\ m.closed \/ m.veto[i[2]] # "none" \/ i \in m.retiring
  /\ Answered(i, "no")
  /\ UNCHANGED <<m, call, late>>
LookupCached(i) ==
  LET t == m.loads[i] IN
  /\ ~m.closed /\ m.veto[i[2]] = "none" /\ i \notin m.retiring /\ t # None
  /\ \/ /\ Valid(t)
        /\ m' \in Vouched(m, t)
        /\ Answered(i, "yes")
        /\ UNCHANGED <<call, late>>
     \/ /\ ~Known(t)
        /\ Uncertain(m, i)
        /\ UNCHANGED <<call, late>>
     \/ /\ Expired(t)
        /\ \E x \in Stale(m, i) : Admission(x, i)
LookupFresh(i) ==
  /\ ~m.closed /\ m.veto[i[2]] = "none" /\ i \notin m.retiring /\ m.loads[i] = None
  /\ Admission(m, i)

(* A request is not looked up while it is loading, or finished.            *)
Lookup(i) ==
  /\ At("idle") /\ Used("load") /\ i \in setup.ids \ seen
  /\ i[1] \notin finished /\ \A j \in m.prepared : j[1] # i[1]
  /\ seen' = seen \cup {i}
  /\ LookupRefused(i) \/ LookupCached(i) \/ LookupFresh(i)
  /\ UNCHANGED <<setup, c, history>>

-----------------------------------------------------------------------------
(* reserve_load() and reserve_store(), up to the place where the manager   *)
(* has the result.                                                         *)
Wanted == <<call.id, IF call.for = "store" THEN "store" ELSE "load">>

Overlapping(i) == m.loads[i] # None \/ \E f \in m.futures : f.kind = "load" /\ f.on = i
Loaded(t) == [m EXCEPT !.loads[call.id] = t]

(* lookup() goes on with the ticket; the lease may be over by now.         *)
LoadReserved(t) ==
  /\ overlapped' = IF Overlapping(call.id) THEN overlapped \cup {call.id} ELSE overlapped
  /\ call' = Idle
  /\ \/ /\ m' \in Vouched(Loaded(t), t) /\ Answered(call.id, "yes")
     \/ /\ Used("expiry") /\ m' \in Stale(Loaded(t), call.id) /\ Answered(call.id, "no")
     \/ /\ Used("doubt") /\ Uncertain(Loaded(t), call.id)
  /\ UNCHANGED seen
(* prepare_store(): the readable object is skipped, its ticket retired.    *)
ProbeReserved(t) ==
  /\ m' \in Dispatched([Loaded(t) EXCEPT !.retiring = @ \cup {call.id}])
  /\ call' = Idle
  /\ overlapped' = IF Overlapping(call.id) THEN overlapped \cup {call.id} ELSE overlapped
  /\ UNCHANGED <<answer, seen>>
StoreReserved(t) ==
  /\ m' \in Dispatched([m EXCEPT !.stores[call.id] = t])
  /\ call' = Idle
  /\ UNCHANGED <<answer, seen, overlapped>>
Reserved(t) ==
  \/ call.for = "load" /\ LoadReserved(t)
  \/ call.for = "probe" /\ ProbeReserved(t)
  \/ call.for = "store" /\ StoreReserved(t)
Unreserved ==
  /\ \/ /\ call.for = "load"
        /\ m' = Forget(m, call.id[1]) /\ call' = Idle /\ Answered(call.id, "no")
     \/ /\ call.for = "probe" /\ UNCHANGED <<m, answer>>
        /\ call' = [call EXCEPT !.at = "ask", !.for = "store"]
     \/ /\ call.for = "store"
        /\ m' \in Dispatched(m) /\ call' = Idle /\ UNCHANGED answer
  /\ UNCHANGED <<seen, overlapped>>

(* _reserve(): the identity's ticket is looked at ...                      *)
Ask ==
  LET t == c.index[Wanted] IN
  /\ At("ask")
  /\ UNCHANGED c
  /\ \/ Unreserved
     \/ /\ call.id[2] \notin c.vetoed
        /\ t # None => c.lease[t] = "held"
        /\ call' = [call EXCEPT !.at = IF t = None THEN "fanout" ELSE "vouch", !.old = t]
        /\ UNCHANGED <<m, answer, seen, overlapped>>
(* ... renewed on all ranks and looked at again ...                        *)
Vouch ==
  LET t == call.old IN
  /\ At("vouch")
  /\ \/ /\ Known(t) /\ c.index[Wanted] = t
        /\ c' = [c EXCEPT !.over = @ \ {t}]
        /\ Reserved(t)
     \/ /\ ~(Known(t) /\ c.index[Wanted] = t) /\ call.id[2] \notin c.vetoed
        /\ call' = [call EXCEPT !.at = "fanout", !.old = None]
        /\ UNCHANGED <<c, m, answer, seen, overlapped>>
     \/ /\ ~Valid(t)
        /\ c' \in Release(t)
        /\ Unreserved
(* ... or every rank is asked for a lease.                                 *)
Spare == {t \in Tickets : ~Live(t) /\ t \notin m.renewals
            /\ (\A i \in Ids : t \notin {m.loads[i], m.stores[i]}) /\ \A f \in m.futures : f.ticket # t}
Fanout ==
  /\ At("fanout")
  /\ \/ Unreserved /\ c' = Drained(c, call.id[2], FALSE)
     \/ /\ Spare # {} /\ call.id[2] \notin c.vetoed
        /\ LET t == CHOOSE s \in Spare : TRUE IN
           /\ c' = [c EXCEPT !.lease[t] = "held", !.of[t] = Wanted, !.index[Wanted] = t]
           /\ Reserved(t)

Reserve ==
  /\ Ask \/ Vouch \/ Fanout
  /\ Surviving
  /\ UNCHANGED <<setup, late, finished, marked>>

-----------------------------------------------------------------------------
(* prepare_load(), complete_load() and on_load_failure().                  *)
PrepareLoad(o) ==
  LET I == {i \in Ids : i[1] = o /\ answer[i] = "yes"} IN
  /\ At("idle") /\ I # {} /\ \A i \in Ids : i[1] = o => answer[i] # "wait"
  /\ \A i \in I : m.loads[i] # None /\ m.veto[i[2]] = "none" /\ i \notin m.prepared
  /\ m' = Forget([m EXCEPT !.prepared = @ \cup I], o)
  /\ marked' = marked \cup (I \cap m.retiring)
  /\ answer' = [i \in Ids |-> IF i \in I THEN "no" ELSE answer[i]]
  /\ UNCHANGED <<setup, c, call, seen, late, finished, overlapped, tainted>>

CompleteLoad(i, ok) ==
  /\ At("idle") /\ i \in m.prepared /\ (ok \/ Used("fail"))
  /\ m' \in Dispatched([Marked(m, {i} \cap Owned(m, "loads")) EXCEPT !.stale[i] = 0, !.prepared = @ \ {i}])
  /\ call' = IF ok THEN Idle ELSE [Idle EXCEPT !.at = "failure", !.id = i]
  /\ marked' = marked \ {i}
  /\ StepOver
  /\ UNCHANGED <<setup, c, seen, late, finished, overlapped, tainted>>

Readers(k) == {i \in Owned(m, "loads") : i[2] = k}
VetoedNow(x, k) ==
  LET y == [Marked(x, Readers(k)) EXCEPT !.veto[k] = "asked"]
  IN [y EXCEPT !.owners = Without(@, {i[1] : i \in Readers(k)})]
OnLoadFailure ==
  LET k == call.id[2]
      full == m.veto[k] = "none" /\ Cardinality(Vetoed(m)) >= setup.capacity
      acked == {l \in Keys : m.veto[l] = "acked"}
  IN
  /\ At("failure")
  /\ \/ ~full /\ m' \in Dispatched(VetoedNow(m, k))
     \/ /\ full /\ \E l \in acked : m' \in Dispatched(VetoedNow([Degraded(m) EXCEPT !.veto[l] = "none"], k))
     \/ /\ full /\ acked = {}
        /\ m' = [Degraded(m) EXCEPT !.quarantined = TRUE]
  /\ tainted' = tainted \cup {t \in {m.loads[i] : i \in Readers(k)} : Live(t)}
  /\ call' = Idle
  /\ StepOver
  /\ UNCHANGED <<setup, c, seen, late, finished, overlapped, marked>>

-----------------------------------------------------------------------------
(* prepare_store() and complete_store().                                   *)
PrepareStore(i) ==
  LET t == m.loads[i]
      usable == i \notin m.retiring /\ t # None /\ Valid(t)
  IN
  /\ At("idle") /\ Used("store") /\ i \in setup.ids /\ i[1] \notin finished /\ Asked
  /\ ~m.closed /\ m.stores[i] = None /\ m.veto[i[2]] = "none" /\ ~Full(m)
  /\ \/ /\ usable
        /\ \E x \in Vouched(m, t) : m' \in Dispatched(x)
        /\ UNCHANGED call
     \/ /\ ~usable
        /\ m' = IF t = None THEN m ELSE Requested(m, t)
        /\ call' = [at |-> "ask", id |-> i, for |-> IF t = None THEN "probe" ELSE "store", old |-> None]
  /\ StepOver
  /\ UNCHANGED <<setup, c, seen, late, history>>

CompleteStore(i) ==
  /\ At("idle") /\ m.stores[i] # None /\ i \notin m.retiringStores
  /\ m' \in Dispatched([m EXCEPT !.retiringStores = @ \cup {i}, !.renewals = @ \ {m.stores[i]}])
  /\ StepOver
  /\ UNCHANGED <<setup, c, call, seen, late, history>>

-----------------------------------------------------------------------------
(* The other calls of the core.                                            *)
RequestFinished(o) ==
  LET I == {i \in Ids : i[1] = o} IN
  /\ At("idle") /\ Used("finish") /\ o \notin finished
  /\ I \cap m.prepared = {} /\ I \cap Owned(m, "stores") \subseteq m.retiringStores
  /\ m' \in Dispatched(Forget([Marked(m, I \cap Owned(m, "loads")) EXCEPT
               !.stale = [i \in Ids |-> IF i \in I /\ m.loads[i] # None THEN 0 ELSE @[i]]], o))
  /\ finished' = finished \cup {o}
  /\ answer' = [i \in Ids |-> IF i \in I \/ answer[i] = "yes" THEN "no" ELSE answer[i]]
  /\ UNCHANGED <<setup, c, call, seen, late, overlapped, marked, tainted>>

(* has_pending_work(), and the poll with which the other methods begin     *)
(* when one is due.                                                        *)
Poll ==
  /\ At("idle")
  /\ m' = Polled(m)
  /\ UNCHANGED <<setup, c, call, answer, seen, late, history>>

(* A pass ends with or without on_schedule_end(); the next may be soon.    *)
Swept(x, S) ==
  LET held == {x.loads[i] : i \in Owned(x, "loads") \ (x.retiring \cup x.retiringStores)}
                \cup {x.stores[i] : i \in Owned(x, "stores") \ (x.retiring \cup x.retiringStores)}
  IN [x EXCEPT !.renewals = @ \cup {t \in held : ~Valid(t)} \cup (held \cap S)]
PassEnds(hook, later) ==
  /\ At("idle")
  /\ Asked
  /\ seen' = {} /\ late' = (later \/ (late /\ ~hook))
  /\ IF hook
     THEN \E S \in IF Used("renewal") THEN {{}, Tickets} ELSE {{}} : \E x \in Dispatched(Swept(Polled(m), S)) :
            m' = IF setup.budget = 0 THEN x ELSE Rotated(x)
     ELSE UNCHANGED m
  /\ StepOver
  /\ UNCHANGED <<setup, c, call, history>>

Reset(x) == GateCleared([x EXCEPT !.retiring = @ \cup Owned(x, "loads"), !.renewals = {}, !.reset = TRUE])
Resettable == ~m.quarantined /\ m.prepared = {} /\ Owned(m, "stores") \subseteq m.retiringStores
ResetCache ==
  /\ At("idle") /\ Used("reset") /\ Resettable
  /\ m' \in {GateCleared(x) : x \in Dispatched(Reset(m))}
  /\ StepOver
  /\ UNCHANGED <<setup, c, call, seen, late, history>>

(* shutdown(): a reset, closed for good, and polled until nothing is       *)
(* pending; or the deadline passes, and it may be called again.            *)
Shutdown ==
  /\ At("idle") /\ Used("shutdown") /\ Resettable
  /\ \E x \in Dispatched(Reset(m)) : m' = [GateCleared(x) EXCEPT !.closed = TRUE]
  /\ call' = [Idle EXCEPT !.at = "drain"]
  /\ answer' = [i \in Ids |-> "no"]
  /\ UNCHANGED <<setup, c, seen, late, history>>
Drain ==
  /\ At("drain")
  /\ \E x \in Dispatched(Polled(m)) :
       /\ m' = x
       /\ call' = IF Pending(x) THEN call ELSE [Idle EXCEPT !.at = "down"]
  /\ UNCHANGED <<setup, c, answer, seen, late, history>>
DrainTimesOut ==
  /\ At("drain") /\ Pending(m)
  /\ call' = Idle
  /\ UNCHANGED <<setup, m, c, answer, seen, late, history>>

-----------------------------------------------------------------------------
Next ==
  \/ Executor \/ BackoffEnds \/ Reserve \/ Poll \/ ResetCache \/ OnLoadFailure
  \/ Shutdown \/ Drain \/ DrainTimesOut
  \/ \E t \in Tickets : Expires(t)
  \/ \E i \in Ids : Lookup(i) \/ PrepareStore(i) \/ CompleteStore(i)
  \/ \E i \in Ids, ok \in BOOLEAN : CompleteLoad(i, ok)
  \/ \E o \in Owners : PrepareLoad(o) \/ RequestFinished(o)
  \/ \E hook, later \in BOOLEAN : PassEnds(hook, later)

Spec == Init /\ [][Next]_vars

-----------------------------------------------------------------------------
(* "Prepared GPU/media leases are never released before their own physical *)
(* drain" (README-coordinator-http.md).                                    *)
PreparedHeld == \A i \in m.prepared : m.loads[i] # None /\ c.lease[m.loads[i]] = "held"

(* "Ownership is never discarded unacknowledged": every ticket that the    *)
(* coordinator has is in the manager's maps or in a future, except where   *)
(* the identity was reserved again during a release; nothing is left after *)
(* shutdown(); and what was prepared while it was not being released keeps *)
(* its leases until it is drained.                                         *)
TicketsOwned ==
  /\ \A t \in Tickets :
       Live(t) /\ c.of[t][1] \notin overlapped =>
         /\ call.at # "down"
         /\ \/ \E i \in Ids : t \in {m.loads[i], m.stores[i]}
            \/ \E f \in m.futures : f.ticket = t
  /\ \A i \in m.prepared \ (marked \cup overlapped) : m.loads[i] # None /\ c.lease[m.loads[i]] = "held"

(* A failed load: its key is vetoed, or the tier closed, as long as a      *)
(* ticket that the manager had of it then is live, and no such ticket is   *)
(* promised to a load.                                                     *)
VetoHolds ==
  /\ \A t \in tainted : m.veto[KeyOf(t)] # "none" \/ m.closed
  /\ \A i \in Ids : answer[i] = "yes" => m.loads[i] \notin tainted

-----------------------------------------------------------------------------
(* Deferred requests are looked up in every pass, passes come, and some of *)
(* them late; calls to the coordinator return, futures need not end.       *)
LiveSpec ==
  /\ Spec
  /\ WF_vars(Reserve) /\ WF_vars(OnLoadFailure)
  /\ WF_vars(\E i \in Ids : answer[i] = "wait" /\ Lookup(i))
  /\ SF_vars(PassEnds(FALSE, TRUE))

(* "An unbounded RETRY is a livelock": a lookup that was deferred, by the  *)
(* gate or for its lease, is answered.                                     *)
LookupSettles == \A i \in Ids : answer[i] = "wait" ~> answer[i] # "wait"
=============================================================================
