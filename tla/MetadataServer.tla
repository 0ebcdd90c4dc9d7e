--------------------------- MODULE MetadataServer ---------------------------
(***************************************************************************)
(* The metadata endpoint of one rank (recipe_persistence/                  *)
(* coordinator_http.py: _BoundedHTTPServer, _MetadataHandler, _MetadataRPC,*)
(* MetadataServer.shutdown and the worker's HTTPProvider.shutdown).        *)
(*                                                                         *)
(* Clients retry a reservation under the same request id, on another       *)
(* connection, while the handler of the first attempt may still run; the   *)
(* receipts of _MetadataRPC make that one reservation.  Every connection   *)
(* has a handler thread, and every thread a permit; the store is closed    *)
(* when all permits are back.                                              *)
(*                                                                         *)
(* The store (DiskStore) grants, ends and forgets leases; what it does     *)
(* with the objects is not looked at here.                                 *)
(***************************************************************************)
EXTENDS Integers, FiniteSets, Sequences, SequencesExt

CONSTANTS
  Calls,        \* reservations: a method with its parameters
  Reads,        \* those that are reserve_read; the others are reserve_write
  Names,        \* request ids
  Setups,       \* servers that are tried: handler threads, receipts (idem_entries), request ids of calls,
                \* and what clients do with a lease
  Conns, Leases, None,
  Ttl,          \* lease_seconds, in ticks
  Patience      \* how long a duplicate waits, in ticks

ASSUME CallAssumption == Reads \subseteq Calls
ASSUME SetupAssumption == Setups \subseteq [threads : Nat \ {0}, entries : Nat \ {0}, names : [Calls -> Names],
                                             uses : SUBSET {"release", "renew"}]
ASSUME NoneAssumption == None \notin Calls \cup Leases \cup Conns \cup Names
ASSUME BoundAssumption ==
  /\ {Ttl, Patience} \subseteq Nat \ {0} /\ Patience <= Ttl
  /\ IsFiniteSet(Conns) /\ IsFiniteSet(Names)

VARIABLES
  setup,
  conn,         \* connections, with the handler thread that serves them
  taking,       \* the connection that the acceptor has seen the flag unset for
  permits, held,   \* free permits, permits that a drain has taken
  flag, acceptor, closing,
  idem,         \* receipts, oldest first (self._idem)
  pending,      \* the call that computes for a request id (self._pending)
  store,        \* "open", "failed" or "closed"
  lease,        \* the leases of the store
  told          \* the live leases that an answer to a call named

web  == <<setup, flag, acceptor, closing, held>>
rpc  == <<idem, pending>>
disk == <<store, lease>>
vars == <<web, conn, taking, permits, rpc, disk, told>>

Free == [at |-> "free", op |-> None, call |-> None, lease |-> None, left |-> 0]
Served(c) == conn[c].at # "free"
Usable(l) == store = "open" /\ lease[l].left > 0
name  == setup.names
bound == setup.threads
Cap   == setup.entries
Named(n)  == {i \in DOMAIN idem : idem[i].name = n}

TypeOK ==
  /\ setup \in Setups
  /\ conn \in [Conns -> [at : {"free", "idle", "flag", "check", "lookup", "wait", "replay", "reserve",
                                "remember", "forget", "serve", "answer"},
                         op : {None, "reserve", "release", "renew"}, call : Calls \cup {None},
                         lease : Leases \cup {None}, left : 0..Patience]]
  /\ taking \in Conns \cup {None}
  /\ permits \in 0..bound /\ held \in 0..bound
  /\ permits + held + Cardinality({c \in Conns : Served(c)}) = bound
  /\ flag \in BOOLEAN /\ acceptor \in BOOLEAN
  /\ closing \in {"none", "stop", "drain", "store", "done"}
  /\ idem \in Seq([name : Names, call : Calls, lease : Leases \cup {None}, left : 0..Ttl])
  /\ pending \in [Names -> Calls \cup {None}]
  /\ store \in {"open", "failed", "closed"}
  /\ lease \in [Leases -> [call : Calls \cup {None}, left : 0..Ttl, renewed : BOOLEAN]]
  /\ told \in [Calls -> SUBSET Leases]

Init ==
  /\ setup \in Setups
  /\ conn = [c \in Conns |-> Free]
  /\ taking = None /\ permits = bound /\ held = 0
  /\ flag = FALSE /\ acceptor = TRUE /\ closing = "none"
  /\ idem = <<>> /\ pending = [n \in Names |-> None]
  /\ store = "open"
  /\ lease = [l \in Leases |-> [call |-> None, left |-> 0, renewed |-> FALSE]]
  /\ told = [x \in Calls |-> {}]

-----------------------------------------------------------------------------
(* Clients: the coordinators of the ranks' processes.                      *)
Send(c, op, x, l) ==
  /\ conn[c].at = "idle"
  /\ op = "reserve" \/ l \in told[x]
  /\ conn' = [conn EXCEPT ![c] = [@ EXCEPT !.at = "flag", !.op = op, !.call = x, !.lease = l]]
  /\ UNCHANGED <<web, taking, permits, rpc, disk, told>>

(* The acceptor: process_request(), for a connection that it does not      *)
(* reject at once.                                                         *)
Accept(c) ==
  /\ acceptor /\ taking = None /\ conn[c] = Free
  /\ ~flag
  /\ taking' = c
  /\ UNCHANGED <<web, conn, permits, rpc, disk, told>>

LeakedBy(n) == n - 1                 \* mutation: a thread that cannot start keeps its permit
ReturnedBy(n) == n
StartThread(c) ==
  /\ taking = c /\ taking' = None
  /\ \/ /\ permits > 0
        /\ permits' = permits - 1
        /\ conn' = [conn EXCEPT ![c].at = "idle"]
     \/ /\ permits > 0                       \* the thread cannot be started
        /\ permits' = ReturnedBy(permits)
        /\ UNCHANGED conn
     \/ /\ permits = 0                       \* rejected
        /\ UNCHANGED <<conn, permits>>
  /\ UNCHANGED <<web, rpc, disk, told>>

-----------------------------------------------------------------------------
(* A handler thread.                                                       *)
To(c, at) == conn' = [conn EXCEPT ![c].at = at] /\ UNCHANGED permits
Yielding(c, at, l) == conn' = [conn EXCEPT ![c] = [@ EXCEPT !.at = at, !.lease = l]] /\ UNCHANGED permits
Leave(c) == conn' = [conn EXCEPT ![c] = Free] /\ permits' = permits + 1   \* _fail() closes the connection

(* A connection that is closed or aborted, or io_timeout.                  *)
IdleEnds(c) ==
  /\ conn[c].at = "idle"
  /\ Leave(c)
  /\ UNCHANGED <<web, taking, rpc, disk, told>>

CheckFlag(c) ==
  /\ conn[c].at = "flag"
  /\ IF flag THEN Leave(c) ELSE To(c, "check")
  /\ UNCHANGED <<web, taking, rpc, disk, told>>

(* A key that is not durable needs neither receipt nor reservation; keys   *)
(* come and go.                                                            *)
CheckStore(c) ==
  LET h == conn[c] IN
  /\ h.at = "check"
  /\ \/ store # "open" /\ h.op # "release" /\ Leave(c)
     \/ store = "open" /\ h.op = "reserve" /\ h.call \in Reads /\ To(c, "answer")
     \/ /\ store = "open" /\ h.op = "reserve"
        /\ conn' = [conn EXCEPT ![c] = [h EXCEPT !.at = "lookup", !.left = Patience]]
        /\ UNCHANGED permits
     \/ (h.op = "release" \/ (store = "open" /\ h.op = "renew")) /\ To(c, "serve")
  /\ UNCHANGED <<web, taking, rpc, disk, told>>

(* _idempotent(): one turn of its loop, under _idem_lock.                  *)
Evicting(r) == IF Len(r) + Cardinality({n \in Names : pending[n] # None}) >= Cap /\ r # <<>>
               THEN Tail(r) ELSE r   \* mutation: the oldest receipt makes room
Current(r) == r
(* Expired receipts are taken off the front; those behind a live one live. *)
FirstLive == CHOOSE i \in 1..Len(idem)+1 : /\ \A j \in 1..i-1 : idem[j].left = 0
                                           /\ i <= Len(idem) => idem[i].left > 0
Unexpired == SubSeq(idem, FirstLive, Len(idem))
Computing == {n \in Names : pending[n] # None}
AnyCall(x, y) == TRUE                \* mutation: the parameters are not compared
Matches(x, y) == x = y
Unregistered(n) == TRUE              \* mutation: a duplicate computes as well
Vacant(n) == pending[n] = None

Lookup(c) ==
  LET h == conn[c]
      n == name[h.call]
      kept == Current(Unexpired)
      hits == {i \in DOMAIN kept : kept[i].name = n}
  IN
  /\ h.at = "lookup"
  /\ idem' = kept
  /\ \/ /\ hits # {}
        /\ LET r == kept[CHOOSE i \in hits : TRUE] IN
             IF Matches(r.call, h.call) THEN Yielding(c, "replay", r.lease) ELSE Leave(c)
        /\ UNCHANGED pending
     \/ /\ hits = {} /\ Vacant(n)
        /\ IF Cardinality(Computing) + Len(kept) >= Cap
           THEN Leave(c) /\ UNCHANGED pending
           ELSE To(c, "reserve") /\ pending' = [pending EXCEPT ![n] = h.call]
     \/ /\ hits = {} /\ ~Vacant(n)
        /\ IF Matches(pending[n], h.call) /\ h.left > 0 THEN To(c, "wait") ELSE Leave(c)
        /\ UNCHANGED pending
  /\ UNCHANGED <<web, taking, disk, told>>

WaitEnds(c) ==
  /\ conn[c].at = "wait" /\ conn[c].left = 0
  /\ Leave(c)
  /\ UNCHANGED <<web, taking, rpc, disk, told>>

(* store.reserve_read() and reserve_write(): a lease, a refusal, an error. *)
Granted(l, x) == lease' = [lease EXCEPT ![l] = [call |-> x, left |-> Ttl, renewed |-> FALSE]]
Reserve(c) ==
  LET x == conn[c].call IN
  /\ conn[c].at = "reserve"
  /\ \/ \E l \in Leases :
          /\ store = "open" /\ lease[l].call = None
          /\ Granted(l, x) /\ Yielding(c, "remember", l)
     \/ Yielding(c, "remember", None) /\ UNCHANGED lease
     \/ Yielding(c, "forget", None) /\ UNCHANGED lease
  /\ UNCHANGED <<web, taking, rpc, store, told>>

(* The event wakes whoever waits for this request id.                      *)
Woken(n) ==
  [d \in Conns |-> IF conn[d].at = "wait" /\ name[conn[d].call] = n
                   THEN [conn[d] EXCEPT !.at = "lookup"] ELSE conn[d]]
Remember(c) ==
  LET h == conn[c]
      n == name[h.call]
  IN
  /\ h.at = "remember"
  /\ idem' = Append(idem, [name |-> n, call |-> h.call, lease |-> h.lease, left |-> Ttl])
  /\ pending' = [pending EXCEPT ![n] = None]
  /\ conn' = [Woken(n) EXCEPT ![c].at = "answer"]
  /\ UNCHANGED <<web, taking, permits, disk, told>>

Forget(c) ==
  LET n == name[conn[c].call] IN
  /\ conn[c].at = "forget"
  /\ pending' = [pending EXCEPT ![n] = None]
  /\ conn' = [Woken(n) EXCEPT ![c] = Free] /\ permits' = permits + 1
  /\ UNCHANGED <<web, taking, idem, disk, told>>

Ending(L) ==
  /\ lease' = L
  /\ told' = [x \in Calls |-> {l \in told[x] : L[l].left > 0}]
(* release() and renew().                                                  *)
Serve(c) ==
  LET h == conn[c] IN
  /\ h.at = "serve"
  /\ IF h.op = "release" THEN Ending([lease EXCEPT ![h.lease].left = 0])
     ELSE /\ lease' = IF Usable(h.lease)
                      THEN [lease EXCEPT ![h.lease] = [@ EXCEPT !.left = Ttl, !.renewed = TRUE]] ELSE lease
          /\ UNCHANGED told
  /\ Yielding(c, "answer", None)
  /\ UNCHANGED <<web, taking, rpc, store>>

(* A receipt does not vouch for a lease that is over (lease_valid());      *)
(* dispatch() looks at the store once more; then the answer goes out, or   *)
(* finds nobody and ends the connection.                                   *)
Answer(c) ==
  LET h == conn[c]
      l == IF h.at = "replay" /\ h.lease # None /\ ~Usable(h.lease) THEN None ELSE h.lease
  IN
  /\ h.at \in {"answer", "replay"}
  /\ \/ Leave(c) /\ UNCHANGED told
     \/ /\ store = "open"
        /\ conn' = [conn EXCEPT ![c] = [Free EXCEPT !.at = "idle"]]
        /\ told' = [told EXCEPT ![h.call] = @ \cup {k \in {l} \ {None} : lease[k].left > 0}]
        /\ UNCHANGED permits
  /\ UNCHANGED <<web, taking, rpc, disk>>

Handler(c) ==
  \/ CheckFlag(c) \/ CheckStore(c) \/ Lookup(c) \/ WaitEnds(c)
  \/ Reserve(c) \/ Remember(c) \/ Forget(c) \/ Serve(c) \/ Answer(c) \/ IdleEnds(c)

-----------------------------------------------------------------------------
(* HTTPProvider.shutdown() and MetadataServer.shutdown().                  *)
Quiet == UNCHANGED <<rpc, lease, told, setup>>

Close ==
  /\ closing = "none"
  /\ flag' = TRUE
  /\ closing' = IF flag THEN "drain" ELSE "stop"
  /\ UNCHANGED <<conn, taking, permits, held, acceptor, store>> /\ Quiet

StopAcceptor ==
  /\ closing = "stop" /\ taking = None
  /\ acceptor' = FALSE /\ closing' = "drain"
  /\ UNCHANGED <<conn, taking, permits, held, flag, store>> /\ Quiet

(* abort_connections() ends what is idle and loses what is being answered. *)
TakePermit ==
  /\ closing = "drain" /\ permits > 0 /\ held < bound
  /\ held' = held + 1 /\ permits' = permits - 1
  /\ UNCHANGED <<conn, taking, flag, acceptor, closing, store>> /\ Quiet

KeptBack == permits                  \* mutation: a failed drain keeps what it took
GivenBack == permits + held
(* The deadline counts only when there is no permit to be had.             *)
DrainFails ==
  /\ closing = "drain" /\ permits = 0 /\ held < bound
  /\ permits' = GivenBack /\ held' = 0 /\ closing' = "none"
  /\ UNCHANGED <<conn, taking, flag, acceptor, store>> /\ Quiet

AllButOne == held + 1 >= bound       \* mutation: off by one
AllHeld == held = bound
Drained ==
  /\ closing = "drain" /\ AllHeld
  /\ permits' = permits + held /\ held' = 0 /\ closing' = "store"
  /\ UNCHANGED <<conn, taking, flag, acceptor, store>> /\ Quiet

CloseStore ==
  /\ closing = "store"
  /\ store' = "closed" /\ closing' = "done"
  /\ UNCHANGED <<conn, taking, permits, held, flag, acceptor>> /\ Quiet

Closer == Close \/ StopAcceptor \/ TakePermit \/ DrainFails \/ Drained \/ CloseStore

-----------------------------------------------------------------------------
(* The rest of the process and time.                                       *)
StoreFails ==
  /\ store = "open" /\ store' = "failed"
  /\ UNCHANGED <<web, conn, taking, permits, rpc, lease, told>>

Less(n) == IF n > 0 THEN n - 1 ELSE 0
Tick ==
  /\ conn' = [c \in Conns |-> [conn[c] EXCEPT !.left = Less(@)]]
  /\ idem' = [i \in DOMAIN idem |-> [idem[i] EXCEPT !.left = Less(@)]]
  /\ Ending([l \in Leases |-> [lease[l] EXCEPT !.left = Less(@)]])
  /\ <<conn, idem, lease>>' # <<conn, idem, lease>>
  /\ UNCHANGED <<web, taking, permits, pending, store>>

Clients ==
  \E c \in Conns, x \in Calls :
    \/ Send(c, "reserve", x, None)
    \/ \E l \in Leases, op \in setup.uses : Send(c, op, x, l)

Next ==
  \/ Clients
  \/ \E c \in Conns : Accept(c) \/ StartThread(c) \/ Handler(c)
  \/ Closer \/ StoreFails \/ Tick

Spec == Init /\ [][Next]_vars

-----------------------------------------------------------------------------
(* README-coordinator-http.md: "This prevents duplicate leases within the  *)
(* retained retry window and prevents one request from borrowing another   *)
(* request's result."  A lease that a client has renewed may outlive its   *)
(* receipt; any other is, while it lives, the only one of its request id.  *)
OneLease ==
  /\ \A l, m \in Leases :
       (/\ l # m /\ lease[l].left > 0 /\ lease[m].left > 0
        /\ name[lease[l].call] = name[lease[m].call]) => lease[l].renewed \/ lease[m].renewed
  /\ \A x \in Calls : \A l \in told[x] : lease[l].call = x

(* Ibid.: "Unexpired retry receipts are never evicted to make room".  As   *)
(* long as a lease lives that was not renewed, a retry finds its receipt   *)
(* or the handler that computes it; all of them fit, oldest first.         *)
ReceiptsKept ==
  /\ \A l \in Leases :
       lease[l].left > 0 /\ ~lease[l].renewed =>
         LET n == name[lease[l].call] IN
           pending[n] # None \/ \E i \in Named(n) : idem[i].lease = l /\ idem[i].left >= lease[l].left
  /\ Cardinality(Computing) + Len(idem) <= Cap
  /\ \A i, k \in DOMAIN idem : i < k => idem[i].left <= idem[k].left

(* "The caller must NOT close the shared DiskStore" while handlers are     *)
(* active: once it is closed, no thread serves a connection.               *)
ClosedQuiet == store = "closed" => \A c \in Conns : ~Served(c)

-----------------------------------------------------------------------------
(* Threads run, sockets time out, close is retried, time passes.           *)
LiveSpec ==
  /\ Spec
  /\ WF_vars(\E c \in Conns : Accept(c) \/ StartThread(c))
  /\ \A c \in Conns : WF_vars(Handler(c))
  /\ WF_vars(Closer) /\ WF_vars(Tick)

(* A shutdown comes to an end, whatever the handlers were doing.           *)
ServerStops == flag ~> store = "closed"
=============================================================================
