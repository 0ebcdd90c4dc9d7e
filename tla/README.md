# The KV persistence tier in TLA+

The repository serves a large model on four machines and keeps the KV cache of
finished prompts on their disks.  The code with a protocol of its own is
`src/exl3-persistence/persistence/recipe_persistence/`: an object store on every
rank, a coordinator that leases an object on all ranks or on none, a manager that
answers the scheduler of vLLM, and the pump that moves bytes between disk and GPU.
This directory specifies that code, and the scripts that start the engine on the four
machines and bring it back.  The rest of the repository is kernels, text patches of
vLLM, build scripts and benchmarks; section 7 says why it is not modelled.

Paths without a directory are relative to `recipe_persistence/`.

## 1. The system

| component | state | operations | what makes it hard |
|---|---|---|---|
| object store, `storage.py` `DiskStore` | SQLite tables `objects`, `leases`, `totals`; one file per object; in RAM: durable index, `failed`, `closed` | `reserve_write`, `write`, `reserve_read`, `read_into`, `release`, `renew`, `invalidate`, `evict`, `collect`, `clear_failure`, `close`, `_recover` | `write` drops the lock while it copies; files and index cannot change together; crash in every gap; leases that expire |
| coordinator, `coordinator_http.py` `RemoteCoordinator` | `_tickets`, `_identities`, `_valid`, `_retiring`, `_pending`, `_bytes`, `_invalid`, `_invalidate_acked`, `_retry`, `_cleanup_lost`, `_closed` | `reserve_load`, `reserve_store`, `renew`, `release`, `invalidate`, `complete_store`, `lease_deadline`, `shutdown` | scheduler and metadata workers inside it at once; calls whose answer is lost; cleanup that is replayed; lease windows |
| metadata RPC, `_MetadataRPC`, `MetadataServer` | `_idem` receipts, `_pending` events, permits | one handler per method, `shutdown` | a repeated request while the first still runs; receipts at capacity; handlers that outlive the store |
| RPC client, `http_rpc.py` `RpcClient` | `_operations`, `_queue`, `_active`, connections, watchdogs | `call`, `fanout`, `_cancel`, `shutdown` | credits, one retry, timers against answers |
| transfer pump, `handlers.py` | staging rows, jobs, ready queue, native jobs, finished | submit, `_poll`, `_row_done`, `cancel`, `wait`, `shutdown` | a row shared by disk and GPU steps; one result per job |
| manager, `native.py` `_Manager` | `loads`, `stores`, `prepared`, `_retiring_*`, `_invalidations`, `_metadata_futures`, lookup gate | `lookup`, `prepare_*`, `complete_*`, failures, `reset_cache`, `shutdown` | background acknowledgements applied by a later poll; the order is vLLM's |
| start-up, `coordinator_http.py` `factory`, `_census`; `native.py` `_provider`, `create_worker`, `get_manager` | how far each process has come; the answers of a census | open the store, serve, census, build, clean up | ranks that are asked one by one while others start, fail and are replaced |
| fleet launcher, `src/exl3-persistence/configs/launch/start-tp4.sh` | none of its own: the containers | `up`, `down` | `set -e` in the middle of a fleet; two sessions at once |
| fleet watchdog, `src/fleet_watchdog.sh` | failure count | probe, teardown, relaunch | teardown that fails silently |

The manager calls the coordinator from the scheduler thread (reservations,
`lease_deadline`) and, through a bounded pool, from metadata workers (release,
renewal, invalidation, completion of stores).  The coordinator calls every rank
through the RPC client; a rank's RPC handler calls its store.  The transfer workers
of the rank read and write the same store with the lease tokens they were handed.
Nothing is shared between ranks: they agree only as far as the coordinator makes
them.

What must hold: a leased object can be read until its lease is over; a committed
object has its file, across crashes; an invalidated object never comes back; the
quota accounts for every byte; a ticket the coordinator vouches for has a lease on
every rank; credits return once, after every rank has let go; a store ends on all
ranks or is servable on none; space comes back in the end.  `PROJECT.json` lists
every component and, at its source line, every hazard with the properties that
watch it.

## 2. The modules

| module | models | checked by |
|---|---|---|
| `DiskStore` | one rank's store | `MCDiskStore`, runs `store_*` |
| `ObjectCache` | what a store promises its users | property `CacheSpec` of `DiskStore` |
| `DiskStoreProofs` | theorems about the files, rows, leases and running total of `DiskStore` | TLAPS |
| `CacheProofs` | `DiskStore` implements `ObjectCache`; its directory, index and recovery | TLAPS |
| `Coordinator` | `RemoteCoordinator` over its ranks | `MCCoordinator`, runs `coord_*` |
| `TicketService` | what the coordinator promises the manager | property `ServiceSpec` of `Coordinator` |
| `CoordinatorProofs` | theorems about the leases, credits, vetoes and completed stores of `Coordinator`; it implements `TicketService` | TLAPS |
| `MetadataServer` | a rank's metadata endpoint: handler threads, receipts, shutdown | `MCMetadataServer`, run `server` |
| `MetadataServerProofs` | theorems about `MetadataServer` | TLAPS |
| `RpcClient` | the client through which the coordinator calls the ranks | `MCRpcClient`, run `client` |
| `RpcClientProofs` | theorems about `RpcClient` | TLAPS |
| `TransferPump` | a rank's transfer pump | `MCTransferPump`, run `pump` |
| `PumpProofs` | theorems about `TransferPump` | TLAPS |
| `Manager` | `_Manager` against an abstract coordinator | `MCManager`, runs `manager*` |
| `ManagerProofs` | theorems about `Manager` | TLAPS |
| `Startup` | containers and processes of one engine, up to the census of the scheduler | by `Fleet` |
| `Watchdog` | `fleet_watchdog.sh` over the engine of `Startup` | by `Fleet` |
| `Launcher` | sessions of `start-tp4.sh` over the same engine | by `Fleet` |
| `Fleet` | the composition: an engine and one of its two supervisors | `MCFleet`, run `fleet` |
| `FleetProofs` | theorems about `Fleet` | TLAPS |

### DiskStore

An object is an identifier, as in the code (a uuid, never used twice), so an
instance bounds the number of reservations of a behaviour.  `row`, `lease`, `total`
are the tables; `older` is the order of `touched`; `file` is what the directory
holds for an id; `durable` and `indexed` are the in-RAM index; `phase` says whether
the store is up, closed, down or how far its recovery is; `wpc` is where the thread
that writes an id stands.

Everything under `self._lock` is one action, with the sweeps it ends in:
`reserve_write` expires, collects, evicts, supersedes and inserts in one step, and
its refusals keep what it did before it refused.  `write` is four actions, since it
drops the lock: `BeginWrite` (the first check), `OpenPartial`, then `CommitWrite` or
`DiscardWrite` (the second check), with `PayloadFails` and `CommitFails` for its
`except` path.  Every way out but the commit goes through `EndWrite`, which may, with
`Faults`, leave the partial behind, since `_unlink_temp` passes over an `OSError`: with a
row it is collected with that row, without one `wpc` records it as "stuck" (a history
value).  Recovery is one action per unlinked file and per sweep, so it can be
cut short anywhere.  Crashes may fall between the rename and the commit, between the
unlink and the `DELETE`, and between the unlink and the commit of a supersession.

Abstracted: time is time left, in ticks (it only moves forward); sizes are
filesystem units above the constant reserve; a checksum error is a file that is
`flipped` or `short`; the shared connection of `_retire` outside the lock is a
retirement that may fail and latch.  Not covered: power loss that undoes a commit,
the lock file on the root, namespaces apart from keys.

### ObjectCache

The abstract specification: an object is published once under its key, may be
dropped at any time, is never visible again once dropped, and its data stays while
a reader has it pinned.  `DiskStore!CacheSpec` is its `Spec` under the mapping
visible = the committed row of a key, stored = a file in place, retired = tombstones
and removed rows, pin = the lease table.

### Coordinator

A lease token and a ticket are named by the attempt (the request id) that asked for
them.  `stage` replaces membership: "asked" is a running reservation, "ticket" is
in `_tickets`, "retiring" also in `_retiring`; `identities`, `valid`, `pending`,
`bytes`, `invalid`, `invalidateAcked`, `retry`, `cleanupLost`, `closed` are the
fields of these names.  `valid[a]` is the time left until `_valid`, and
`job[t].win` the time left until the `valid_until` that a running fan-out is anchored
at.  `job` is where each thread stands in the method it runs; procedures that call
others (`_reserve` calls `renew` and `release`, `complete_store` calls `invalidate`
and `_release`) go through the same actions and `Returned`, `Vetoed` say where the
caller goes on.

A section under the lock is one action and one call to one rank is one action.  A
call that is not answered goes on the `wire`: its rank may still execute it, at any
later point, or it is lost.  A negative or unknown answer is the same to the code,
and to the model.  `_retry_cleanup` is `DrainPop` and `DrainCall`: between the two
the entry is in nobody's log, which is where another thread may take an empty log
for acknowledgement.  Its limit of 32 entries is abstracted to any number.

A rank is its store, with what `DiskStore` promises: a reservation may be refused at
any time; a write is granted only when every object of the key is a tombstone without
readers; a read is granted on a committed object; `release`, `renew` and
`invalidate` do what the handlers do.  Receipts for repeated request ids are in
`MetadataServer`.

What the callers do is taken from `native.py` (background metadata): only the
scheduler reserves (`Wanted`: nothing the manager is invalidating, no store it
already has, a load it already has only after its deadline); one worker at a time has
a ticket, and one the invalidation of a key (`Worker`, `Undispatched`); and the
invalidation of a key is not dispatched while the key is being reserved, since
`on_load_failure` runs between two reservations and `_invalidations` then keeps the key
from `lookup` and `prepare_store` until a reset (`BeginInvalidate`).  This
matters.  Without it, two overlapping invalidations of one key leave the key in
`_invalidate_acked` after the veto was lifted, and a later invalidation that some rank
did not acknowledge can then be taken for acknowledged.  `invalidate()` does not
protect itself against it; its only caller does.

`condemned` is a history variable: the objects that were committed when an
invalidation of their key began.  `job[t].proved` is another: what the ranks
answered to `exists`.

### TicketService

The abstract specification of the coordinator: no ranks, calls, threads or log.  A ticket is one
lease.  It is granted whole and for a key that is not vetoed; its owner is told a deadline only
while it stands; it is retired once and never vouched for again; it is dropped when no disk keeps
anything for it.  A lease that lapsed or was let go is never revived, and a veto outlasts the
tickets of its key and whatever was still served of it.  `Coordinator!ServiceSpec` is its `Spec`
under the mapping lease = `stage` once granted, vouched = `Vouched`, standing = the lease has time
left on every rank, kept = some rank holds it, vetoed = `invalid`, served = a rank serves an object
that an invalidation condemned.  `Fade` stands for everything below: the disks may lose what was
granted, and nothing else.

### MetadataServer

A call is a reservation with its parameters; clients send it again, on another
connection, under the same request id, as often as they like.  `conn[c].at` is where
the handler thread of a connection stands: the permit and the shutdown flag, then in
`_MetadataRPC` the look at `_idem` and `_pending`, the wait for a handler that is
computing the same id, the reservation, and the receipt.  `idem` is the list of
receipts in their order, `pending` the table of ids being computed, `told` (history)
the leases an answer named.  `acceptor`, `flag`, `closing` and `held` are the listening
thread, the flag that `shutdown` sets, and the permits the drain has taken.  What the
store does with objects is left to `DiskStore`; here it grants leases, may fail,
and is closed by the provider.  The setups: two handler threads and a client that
uses an id twice, and one thread with one receipt and two ids.

### RpcClient

`run[t]` is the place of every thread that executes an operation, `fan` that of the
thread in `fanout()`, `closer` that of the thread in `shutdown()`; `asleep` is who
waits on the one condition variable, so that `notify()` (any one of the waiters) and
`notify_all()` are told apart.  `timer[o]` is the watchdog, which may fire at any
point after the deadline, also after the answer has come.  A peer answers, fails, or
never answers; a failed attempt is repeated once.  The in-process leg to the own
rank and the framing of messages are not modelled.  One thing the model passes over:
a cancellation between the computation of `expired` and `detach()` may return a
connection to the pool whose socket has been shut down; the next user fails on it
once and opens another.

### TransferPump

`pc` is where the one thread that calls the pump stands in `_poll` and the loops
around it: one step per native result, future, launched row.  `tasks` are the reads and
writes of the disk threads, `copies` those of the GPU, `staging` says whose bytes a
row holds, `arrived` what has come to every destination of a job.  A submission that
is refused may have been launched: then its copy goes on without a native id, and only
`drain_cuda` waits for it.  A drain that fails halts the pump (`halted`), as the
exception does in the code.  `passed` (history) counts the bytes of other jobs started
while a job was queued.

### Manager

`m` is the record of the manager's maps, with the names of the code; `c` is the
coordinator as the manager can see it (a ticket is held, retiring from the first
step of its release, then gone; `index` is `_identities`).  A call of the scheduler is
one action except for the two that reach the ranks: a reservation is `Ask`, `Vouch`,
`Fanout`, as in `_reserve`, and the futures of the metadata workers run between
them.  A future is queued, running, done; the manager sees it done only in
`Polled`, with which `has_pending_work`, `on_schedule_end` and the drain begin.
`Dispatched` gives the sets of jobs that one dispatch may submit: invalidations
first, then any of the others, which covers every position of the rotation.

The order of calls is vLLM's and is modelled from how `native.py` is called: a
scheduling pass looks every deferred request up, prepares the loads that were
promised, offers stores, and ends, with `on_schedule_end` if there is a batch; a
load that failed is reported right after it was completed.

`setup` says what a behaviour is about, so that one run has several instances: which
identities are asked for, which methods are called, whether leases expire, are
renewed early, or a store fails somewhere, and the two bounds `capacity` and
`lookup_keys_per_step` (0 is none).

Not in it: the synchronous mode, an executor that refuses a job, the capability
check of `can_store`, the store budget of a pass, and the counters.  The branch of
`on_load_failure` for a full veto table is modelled, and no behaviour of these
instances gets there: it needs a failed load that is no longer in `loads`.

What the model shows beyond its properties: the acknowledgement of a release removes
the identity's retirement mark without looking which ticket it was for
(`native.py:356`).  If the identity was reserved again meanwhile, and the new ticket's
own retirement was noted before the poll, that note is lost; the ticket stays in
`loads` until something retires it again, and `shutdown` may end with it there.
This is why `TicketsOwned` speaks of identities that were not reserved during a release
(`overlapped`).

### Startup, Watchdog, Launcher, Fleet

`box[r]` is the container of rank r, and whether it runs since the latest launch
("fresh") or an earlier one ("stale"); `at[p]` is how far a process has come, from
"boot" over the rendezvous and the factory to "ready"; `joined[r]` is the head that
worker r has joined; `profile[p]` is the configuration a process was launched with
(what `fingerprint`, `group_refs` and `profile` of the census can tell apart, and
`Plain` for an engine without persistence); `heard[p][q]` is what rank q answered to
the census that p is taking.  One question of a census is one action, so ranks come,
go and change between two of them.

The rendezvous before the factory, the head that notices a dead worker, and workers
that exit when their head dies are vLLM's; they are modelled from the comments of
`fleet_watchdog.sh` and marked external.  The rest of the engine's life (requests) is
in the other modules.

`Watchdog` and `Launcher` never work on the same engine: `start-tp4.sh` runs without the
watchdog, and the watchdog relaunches through a script that has no persistence.
`FleetInit` chooses one.  A command of either script on one node is one action.  The
watchdog goes on after a command that fails, and so its `docker rm -f` may leave any
container in place, the head's too (`|| true` on the node, line 76); the history variable
`headLeft` says that it left the head's in the latest round.  The launcher stops at a
command that fails (`set -e`) and leaves the fleet as it is, with two exceptions:
`stop_all` passes over a docker that fails on a node it reaches (line 607) and goes on, and
in `preflight` a `docker ps` that fails, being the condition of an `if`, counts as a
container that does not run (line 591).  A session of the launcher has read the
configuration when it begins (`env`); `Reconfigure` edits the file at any time.

Timeouts (`READY_TIMEOUT`, `coordinator_startup_timeout`) are taken to be long enough for
an engine that can come up; one that fires all the same costs a fault, as do a
crash, an unreachable node, a step of the factory that raises, an answer that is lost, an
edit of the configuration and each command of a second operator.  The memory ritual
before a launch and the checks of `preflight` other than the running container change
nothing here: they may fail, which is a fault.

## 3. What is checked

Every property has, in `PROJECT.json`, a mutation of a definition (also in the
module, marked `mutation`) under which TLC finds it violated.

| run | properties | instance |
|---|---|---|
| `store_concurrent` | `TypeOK`, `LeasedFilesStay`, `IndexAuthoritative`, `NoResurrection`, `CacheSpec` | 3 objects, 2 keys, 2 leases, no faults |
| `store_crash` | `CommittedHasFile`, `AccountingExact`, `NoUnchargedFile`, `RecoveryClean` | 3 objects of 1 unit, 2 keys, 1 lease, faults, crashes, `clear_failure`, a restart may shrink the quota |
| `store_drain` | `AbandonedBytesReturn` | 2 objects, 2 keys, fairness |
| `coord_tickets` | `TypeOK`, `VouchedLeasesLive`, `CreditsExact`, `CondemnedNeverVouched`, `VetoUntilGone`, `NoForgottenLease`, `AllOrNothing`, `ServiceSpec` | 2 ranks, the scheduler and up to 2 workers, 2 attempts, six uses (below) |
| `server` | `TypeOK`, `OneLease`, `ReceiptsKept`, `ClosedQuiet`, `ServerStops` | 2 reservations, 2 connections, 2 leases, two setups |
| `client` | `TypeOK`, `CreditsHeld`, `NoSleepOnWork`, `StoppedQuiet`, `OperationsEnd` | `fanout` to 2 ranks beside 1 `call` with 2 credits, and to 1 rank beside 2 with 3; 1 worker, 1 on the wire |
| `pump` | `TypeOK`, `RowsPrivate`, `OnlyOwnBytes`, `FairShare`, `JobsEnd` | 2 jobs on 1 row, or on 2; all faults |
| `manager` | `TypeOK`, `TicketsOwned`, `VetoHolds`, `LookupSettles` | 1 or 2 identities, 3 tickets, 2 futures at a time, six setups |
| `fleet` | `OneConfiguration`, `NoStaleJoin`, `Recovers` | 2 ranks, 2 sessions of the launcher, 2 configurations with persistence, 3 faults |
| `store_clear_failure` | `IndexAuthoritative` violated | finding 1 |
| `coord_identity` | `IdentityIndexed` violated | finding 2 |
| `manager_prepared` | `PreparedHeld` violated | finding 3 |

In words.  `TypeOK` of the store says, besides the types, that no deadline is further
ahead than its own period, however often it was renewed: what nobody renews is free
after `lease_seconds`, a tombstone after `grace_seconds`.  `LeasedFilesStay`: a leased object keeps its row and its file through
eviction, supersession and collection.  `NoResurrection`: a tombstone never becomes
committed, whatever the writer that lost the lock does.  `CommittedHasFile`: a crash
never leaves a committed row without a file (damage of the medium is apart).
`AccountingExact`: the running total equals the sum of the charges after every
hand-edited update.  `NoUnchargedFile`: while the store is up, a file in the directory
has a charged row, unless it is the partial of a writer whose row was collected under it
and that has yet to see so, or saw it and could not unlink.  `RecoveryClean`: a store
that opens after a crash has only committed rows with files of the right size, no
leases, an exact total within the quota.  `IndexAuthoritative`: a committed key is
never missing from the index.  `AbandonedBytesReturn`: see fairness.

`VouchedLeasesLive`: as long as `lease_deadline` is in the future every rank still
holds the lease, since the window starts before the fan-out.  `CreditsExact`: bytes
and keys are charged once per ticket or running reservation, in all overlaps of
release, reservation and rollback.  `CondemnedNeverVouched` and `VetoUntilGone`: an
object that was there when its key was invalidated is behind no vouched ticket, and
the veto stands while any rank still serves it.  `NoForgottenLease`: a lease whose token
was received is held by a ticket, a reservation, or the cleanup log, or the coordinator
has closed; so a ticket that leaves the books has no lease anywhere, though answers
were lost and calls executed late.  `AllOrNothing`:
when `complete_store` gives up its ticket the object was proved on every rank or is
servable on none.  `ServiceSpec`: whatever the ranks, threads, logs and lost calls do, the
manager sees one `TicketService`.

`OneLease`: however often a reservation is sent, and whoever computes it, the store
grants one lease for it while its receipt lives.  `ReceiptsKept`: the receipt of a
lease that a client was told of is not forgotten while the lease lives.
`ClosedQuiet` (server): no handler is in the store once the provider has closed it.

`CreditsHeld`: exactly the operations that somebody still has (queue, thread, `fanout`
between two steps) hold a credit, no watchdog outlives it, both limits hold.
`NoSleepOnWork`: the single `notify()` of `fanout` may be lost on another kind of
waiter, but no worker is left asleep beside work it could do.  `StoppedQuiet`: a shutdown
that did not raise leaves nothing.

`RowsPrivate`: a staging row is free once or of one job, no disk thread or copy
touches it for another, and when the provider is closed nothing touches any.
`OnlyOwnBytes`: nothing but a key's verified bytes arrives in its block or its object,
and a success means that all arrived.  `FairShare`: while a job is queued no other starts
two quanta.  `JobsEnd`: every job that was submitted gets its one result, and every
call that blocks returns, unless a drain has failed.

`TicketsOwned`: every ticket of the coordinator is in the manager's maps or in a
future, nothing is left after `shutdown`, and a load that was not being retired
when it was prepared keeps its leases until it is drained.  `VetoHolds`: after a
failed load its key is vetoed as long as a ticket the manager had of it lives, and no
such ticket is promised.  `LookupSettles`: no request is deferred for ever.

`OneConfiguration`: two processes that have come up run one configuration, though two
sessions of the launcher may have started their ranks and a census hears its ranks at
different times.  `NoStaleJoin`: no worker that the watchdog launches joins the head of
before, unless docker failed to remove that head in the same round; the script does not
ensure more (section 5).  `Recovers`: when faults end, the engine is healthy again and again, whatever
containers, half-launched fleets and processes the faults have left.

### Bounds

Object and attempt names are used once, so their number bounds a behaviour.  Three
objects on two keys are enough for a supersession beside an eviction; two leases,
for a reader on each side of an invalidation; a charge of one or two (one in `store_crash`) against a quota
of three or four, for both watermarks; a lease of two ticks, for a renewal in
the middle.  Two ranks give "one acknowledged, the other not"; two attempts, a new
reservation beside the one that is being let go; a replay log of one entry, its
overflow by any second one.  The bounds are `Ids`, `Leases`,
`MaxCharge`, `Limits`, `Lease`, `Grace` and `Attempts`, `MaxKeys`, `MaxBytes`,
`RetryMax`, `Ttl`, `Margin`, `Uses`.

`coord_tickets` unites six uses of the coordinator (`Uses`): renewal beside
reservation under a clock with a lossy transport; the same with release and two
workers, once with a clock and once with lost answers; release and invalidation by
two workers with lost answers; stores, with permanent failures and shutdown;
a store that fails while its key is looked up.  `losses`
bounds only how many unanswered calls are outstanding together, not how often calls are
lost.  The uses without a clock are for properties that must hold however long a
lease lasts; expiry only ends leases.  The run stops when its attempts are used up, and
for that reason alone does not check for deadlock.  No instance has enough keys to
fill the veto set, so the branch of `invalidate` that closes the coordinator there is
modelled and not exercised.

`server`: `Conns`, `Leases`, `Ttl`, `Patience`, `Setups`; a client retries without
bound, but over two connections at a time.  One receipt in the table makes "at
capacity" the normal case.  `client`: `Plans`, `MaxActive`, `MaxPending`, `PoolSize`;
every operation is used once, so a behaviour ends when they are done (no deadlock
check).  One worker and one place on the wire make everybody wait for everybody.  With two
credits beside three operations calls are refused; with three, one caller holds the wire,
the other sleeps until it is free and takes the `notify()` of a queued operation while
the worker sleeps: the case that `NoSleepOnWork` is about, and that its mutant, which lets
the end of a call wake one waiter instead of all, needs.
`pump`: `Plans`, `Quantum`, `MaxPending`, `Batches`; a long job of four keys beside one
of two is enough for the deficit to run out and be filled again; two jobs on two rows,
for a row that changes hands while a copy of the other is out.  `manager`:
`Submitted`, `StaleMax`, `AttemptsMax`, `Tickets`, `Setups`; a ticket's name is used
again when nothing mentions it, so a behaviour is not bounded.  The second retry
is refused, two futures fill the window, and capacity one makes two identities meet
it.

`fleet`: `N`, `MaxFaults`, `FAIL_THRESHOLD`, `Sessions`, `Profiles`.  Two ranks are a head
and a worker, the only kinds there are; the loops over three workers differ in how many
of them are left behind, which a third rank would show and TLC does not reach (the two
safety properties are proved for any number, section 4).  Three
faults leave a container behind, lose the command that would remove it, and crash what
took its place.  An engine that stays healthy under the launcher has nothing to do, so
the run does not check for deadlock.

### Fairness

Safety runs assume none.  `store_drain` uses `LiveSpec`: time goes on, and admission
requests keep coming (weak fairness of `Tick` and of `reserve_write`, refused or
not), because only `reserve_write` expires and collects; and invalidations do not
go on for ever, because `_retire` restarts the grace period of a tombstone.  A store
that nobody writes to really does not give the space back.

`server`: the acceptor, every handler and the closing thread run, and time goes on
(operating system threads; a handler's reads and waits have timeouts, and a watchdog ends
its connection).  `ServerStops` needs no client to behave.  `client`: threads run, deadlines
pass and watchdogs fire (they are timers), and a shutdown that raised is repeated, as
`_CloseOnce` does; peers need not answer.  One weak fairness for all threads but the
closing one is enough, so no thread is favoured.  `pump`: the worker polls, the calling thread
runs, and disk and GPU end what they were given; `halted` is the one excuse.
`manager`: calls to the coordinator return (the client's deadlines), a deferred request
is looked up in every pass (vLLM keeps it in its waiting queue), and passes keep coming, infinitely many
of them later than the turn's time (strong fairness, since a pass is not always
possible).  Neither the batch hook nor any future is assumed to run: that was the
deadlock the gate's comment describes.  `fleet`: the watchdog's loop does not stop, or
the operator on duty repeats `down` and `up` as long as the engine is not healthy (the
script itself tries once); processes run; dead workers are noticed.  The container of a
dead head need not exit.

## 4. What is proved

`DiskStoreProofs` proves, for every value of the constants, from the assumptions
named in `DiskStore` (ids finite and distinct from `None`, limits ordered, positive
lease, Boolean switches) and including faults, crashes and recovery:

- `StoreSafe`: `Safe` is invariant, where
  `Safe == Types /\ Keyed /\ LeasedFilesStay /\ CommittedHasFile /\ WriterPrivate`;
- `LeasesProtectFiles`, `CommitsAreDurable`: its parts that the runs check;
- `StoreTypeCorrect`: `TypeOK`, that is `Types` with the bounds of the deadlines
  (`Timely`), which `TimelyStep` shows of every step on top of `Safe`;
- `RetiredForever`: `NoResurrection`, an action property.

Why the strengthening: `LeasedFilesStay` and `CommittedHasFile` are not inductive.
A writer changes the file of its id, which is harmless only while nobody
depends on it: `WriterPrivate` says that an id whose writer is not done is neither
committed nor leased.  `Keyed` says that a stored row has a key, which the effects of
retirement and supersession on the index need.

The argument: `Younger(r)` says of an edited table that its committed rows were
committed before and leased ones keep their rows; `RetireYounger`,
`EraseYounger`, `SweepYounger` and `ReserveYounger` show it for the operators the
actions are built from; `ReclaimSafe` shows once that a step that only retires,
erases and unlinks on those terms preserves the invariant.  Then there is one lemma
per group of actions (`TickSafe`, `ReserveWriteSafe`, `WriterSafe`, `ReaderSafe`,
`RecoverySafe` and so on), which `StepSafe` puts together.

The second half proves `TotalIsExact` (`AccountingExact`), from the same assumptions.
`AccountInv` adds to `Safe` that `total` is the sum over the stored rows in every phase,
also while recovery runs; only the comparison with the quota waits until the store is up,
since a restart may come with a smaller one.  Sums are cardinalities of sets of units:
`BytesWithout` splits them, `RetireSum` and `EraseSum` say that retirement keeps a sum
and erasure takes off what it erased, and `SweptOut` and `ReserveSums` follow the total
through the sweeps of an operation to the point where it stops or fails.

`CacheProofs` proves, from the same assumptions:

- `StoreWhole`: `Whole == Safe /\ Alone(row) /\ Files /\ IndexKept` is invariant;
- `DirectoryCharged` (`NoUnchargedFile`), `RecoveryIsClean` (`RecoveryClean`, which
  also uses `AccountInv`);
- `MissIsFinal`: `IndexAuthoritative` if `clear_failure` is never called; with it, the
  property is false (finding 1);
- `StoreIsACache`: `CacheSpec`, the refinement of `ObjectCache`.

`Alone` (no two stored objects share a key, tombstones included) makes the mapping a
function: a lookup has one answer, and an eviction or invalidation that drops a key
from the index drops nobody else's.  `Files` says what is in the file of a
writer that is not done (`Partial`), that no thread writes while the store is down or
recovering, and what each phase of recovery has established for the next
(`Recovered`): no leases and reservations after the reset, no orphan and no
committed file of the wrong length after the scan, no tombstone after the last
sweep.  `Aged(r)` says of an edited table that objects were only reserved,
retired or erased; `ReclaimStep` maps every such step to `Reclaim`, `UnpinStep`,
`PinStep`, `PlaceStep` and `PublishStep` map the rest, and there is again one lemma
per group of actions, put together in `StepImplemented`.

`FleetProofs` proves, for every number of ranks, of sessions of the launcher, of faults,
every set of configurations and every threshold of the watchdog:

- `FleetSafe`: `FleetInv == EngineInv /\ SupervisorType /\ DogInv` is invariant;
- `FleetTypeCorrect`, `CensusAgrees` (`OneConfiguration`) and `WorkersJoinTheNewHead`
  (`NoStaleJoin`); the last two are the safety properties of the run `fleet`, the first is
  only proved.

A census hears its ranks one after the other, and a rank may be replaced after it was
heard; so `OneConfiguration` needs to know why an old answer still counts.
`AnswersTrue` says it: a rank that was heard, and is past the rendezvous, still has
the configuration it told, because a process that replaces it gets past the rendezvous
only together with all ranks, and this ends the census that heard the old one
(`AnswersKept`).  The scheduler is not asked; `OneLaunch` and `HeadsAnswer` give it the
answer of the head, whose container it lives in.  For `NoStaleJoin`, `DogInv` says
which containers of the engine before are left in each phase of a watchdog round: none
that is fresh during the teardown, and from the first launch on the old head only with
`headLeft`.

`MetadataServerProofs` proves, for every set of reservations, request ids, connections
and leases, every number of handler threads and receipts and every lease time:

- `ServerSafe`: `ServerInv == PermitInv /\ ReceiptInv` is invariant;
- `ServerTypeCorrect`, `OneLeasePerRequest` (`OneLease`), `LiveReceiptsStay`
  (`ReceiptsKept`) and `NoHandlerAfterClose` (`ClosedQuiet`), all the safety
  properties of the run `server`.

`PermitInv`: the free permits, those that a drain holds and the threads that serve are
always `threads` together (`PermitsBalance`), and nobody is served anew after the
acceptor has stopped (`NobodyNew`); so a drain that holds them all has nobody left.
`ReceiptInv`: a handler that computes owns the entry of its id in `_pending`, alone
(`OneOwner`); an id with an owner has no receipt, and no id has two (`OneReceipt`); a
lease that lives and was not renewed has a receipt that lives as long, or the handler
that is about to write it (`Covered`).  From these two live leases of one id coincide.
Since all receipts get the same time, they expire in their order (`ReceiptsSorted`),
without which taking expired ones off the front (`UnexpiredFacts`, `LookupKeeps`) would
lose live ones.

`CoordinatorProofs` proves, for every set of ranks, keys, threads and attempts, every
lease time and margin and every length of the replay log (`Attempts` and `Keys` are
disjoint, and `None` is in neither; both only name things):

- `CoordinatorSafe`: `LeaseInv` is invariant;
- `CoordinatorTypeCorrect`, `TicketsAreLeased` (`VouchedLeasesLive`) and
  `NothingForgotten` (`NoForgottenLease`).

`LeaseInv` has seven parts.  `Typed` is `TypeOK` with the log as a sequence.  `Jobs` says
who is where and about what: only the scheduler reserves, the attempt of a fan-out is
"asked", that of every other method was a ticket once.  `Asked`: only an attempt that
asked to write has an object.  `Sent` is about what may still be executed, on the wire,
in the log or in the hands of a drain: a late release is of no ticket and of no fan-out
that runs, and a late reservation is of an attempt that can no longer become a
ticket, since its fan-out has failed.  `Windows` is `VouchedLeasesLive` while the answers
come in: every rank that answered so far has more time left than the window that runs
(`Backed`), because the window is anchored before the first call.  `LetGo` and `Owed` are
the two halves of `NoForgottenLease` while calls are out: a rank that answered the
release holds nothing, and what a failed reservation still holds is being released, is
in the log, or the log has overflowed and the coordinator is closed.  `JobOnly`,
`RankSteps` and `BookSteps` say when a step that touches only a job, only a rank or only the
books keeps all seven; the lemmas on the actions (`Begins`, `Inwards`, `Calls`,
`Reservations`, `Bookings`, `DrainPops`, `DrainCalls`, `Strays`, `Ownwards`, `Ticks`) use
them, and `Step` puts them together.

The last parts add, when there are finitely many attempts and identities:

- `CreditsAreExact` (`CreditsExact`): the credits are a set with a member for every byte,
  and `Credited` and `Refunded` say what one attempt adds and takes; `Single` (the
  identity of a running reservation is pending, and no two have the same) is why
  the reservation that ends gives back exactly what it took;
- `StoredEverywhereOrNowhere` (`AllOrNothing`): `Undone` says that a rank which answered
  the invalidation of a failed store does not serve its object, and `GoneStays` that
  nothing brings it back, as only a reservation of the attempt itself could (by `Sent`
  there is none left);
- `CondemnedStaysOut` (`CondemnedNeverVouched`) and `VetoedUntilGone` (`VetoUntilGone`), from the
  invariant `VetoInv` (`VetoSafe`).

What the two say of a condemned object is not inductive: a veto may go as soon as its key is
acknowledged and nobody has it, so the proof has to know what an acknowledgement is worth.
`Acked` says it: an acknowledged key is vetoed, and every rank is `Clean` of it, which means that no object
of it is served and no ticket of it can still commit one.  `Vetoing` is the same while
the ranks are being asked, for those that have answered; a veto may be lifted under a running
invalidation (another one was acknowledged), but then the key has nobody left (`Unused`).
A rank stays clean through every step, because what is written is an attempt's own object and a
reservation is executed once (`Unspent`: who may still reserve finds nothing there yet), so a
retried or delayed call cannot bring back what an invalidation took.  `Condemned` and
`HeldCondemned` then say that a condemned object is never written again, and that while a rank
serves it or a reservation holds it its key is vetoed.  `Owned` and `Apart` are what the manager
guarantees: a thread that completes a store has its ticket to itself, so the key of a failing
store never loses its last user while it is being invalidated, and no key is reserved while it is
invalidated on the manager's behalf.  `Lifted` is the step where a veto goes, `VetoStep` puts the
parts together.

Last, `OneTicketService`: `Coordinator` implements `TicketService` (`ServiceSpec`), from the same
assumptions and from `LeaseInv`, `BooksInv` and `VetoInv` (`BooksSafe`, `VetoSafe`).  `Roles` sorts
the steps by what the manager could see of them.  Most are `Fade`: a job moves, a rank answers or
executes what was late, time passes.  For these the proof has to say that nothing granted comes
back, which is the point of the refinement: `LeftMoves` (a lease that ran out or was let go is
renewed only while it lives, and reserved only by an attempt that is not granted yet) and `Fades`
on the ranks, `ToldStands` for what the owner is told.  The steps that edit the books have a
lemma each (`AcceptImplemented` is `Grant`, `RenewImplemented` is `Vouch`, and so on).
`LiftedFacts` says for each way in which a veto goes that the key has no user and no rank serves
what was condemned of it.  `ServiceStep` puts them together.  `ServiceKeepsPromise` then takes
`Promise`, an invariant of `TicketService` that follows from its actions alone, over to the
coordinator: the abstract specification is strong enough for what its callers rely on.

`PumpProofs` proves, for all finite sets of jobs and rows, every quantum, all sizes of
keys that fit it, every bound on pending keys and any mix of faults (`None` is neither a
row nor a number):

- `PumpSafe`: `PumpInv` is invariant;
- `RowsArePrivate` (`RowsPrivate`), `BytesStayTheirs` (`OnlyOwnBytes`),
  `NobodyIsPassedOver` (`FairShare`) and `PumpTypes` (`TypeOK`), all the invariants of
  the run `pump`.

`Pool` says who owns a row: at most one live job, or nobody and then it is free once.
`Working` and `Filled` tie what runs to that: a task, or a copy that runs, is of the job
that owns its row, at the key the job is at, and its bytes are where its step should
have put them.  A copy that has ended is heard only if its job still waits for that
native id; the ones left over from a refused submission match nobody (`Unheard`).
`Thread` is what the thread holds between two steps.  The parts take values instead of
the variables, because several steps first drain the copies and then end a job or hand
its row on: such a step goes through values that no state has (`Draining`, then `Leaving`
or `Requeued`).  For `FairShare` the bound on what passed a job is not inductive, as
it forgets what the others may still start before its turn.  `Turns` adds it: `Chance(k, j)`
is k's credit if it queues before j, what its current key leaves of the credit if it has
a row, and 0 if it queues behind, where a new quantum is granted only after j's turn.
What passed plus the chance stays under two quanta.  `Effects` sorts the steps by what
they do to the queue (`Quiet`, `Ending`, `Requeue`, `Submit`, `DropCancelled`,
`TakeRow`), and each kind keeps the bound.

`RpcClientProofs` proves, for all sets of callers, finite sets of operations and workers,
and every bound on credits, active calls and pooled connections:

- `ClientSafe`: `ClientInv` is invariant;
- `CreditsAreHeld` (`CreditsHeld`), `WorkersWakeForWork` (`NoSleepOnWork`),
  `NothingLeftBehind` (`StoppedQuiet`) and `ClientTypeCorrect` (`TypeOK`), all the
  invariants of the run `client`.

`CreditsHeld` alone does not say who has an operation, so a step cannot show that it
leaves exactly one owner.  `Credits` does, by the operation's future: none yet while
`fanout` is about to queue it, pending in the queue (once), running in the hands of one
worker; a caller has its own.  `Watchdogs` says that a timer runs only for a thread
between its arming and its joining, `Slots` that the count of active calls is the number
of threads inside.  The wake-ups are the difficult part, since a queued operation wakes one
sleeper with `notify()`, and that may be the wrong one: a thread that waits for a slot, or
a worker that finds every slot taken.  "Somebody is awake for the queue" is not inductive.
`Staffed` is: while a slot is free, every idle worker is awake or the idle workers that are
awake are at least as many as the operations queued.  With a slot free only idle workers
sleep among the runners (`Sleepers`), so the `notify()` of a queued operation wakes one of
them.

`ManagerProofs` proves, for all finite sets of identities and tickets, every set of requests,
every setup and every bound on futures, attempts and stale lookups:

- `ManagerSafe`: `ManagerInv` is invariant;
- `TicketsStayOwned` (`TicketsOwned`), `VetoIsKept` (`VetoHolds`) and `ManagerTypeCorrect`
  (`TypeOK`), all the invariants of the run `manager`.

`TicketsOwned` says that a live ticket is somewhere in the maps.  That is not inductive: the poll
of an acknowledged release takes the identity's ticket out without looking at which one it is.
The invariant adds that a ticket is in one place only (`Distinct`), under the identity and kind
it was reserved for (`Named`, `Kept`), and that a cleanup is of the ticket the maps have until it
is polled (`FutureOK`), which of a load is true only if its identity was not reserved during a
release (`overlapped`, see 2).  `Fits` carries the capacities and `Calling` what a reservation in
progress may still count on, since the futures run between its parts.  For `VetoHolds`, `Tainted`
says that what was read with a failed load stays in the maps and vetoed; it survives
`reset_cache` and a degradation because a veto goes only with all the loads, or from a tier that
is closed.  `Promised` and `Prepared` keep the leases of a load from the lookup to the transfer,
and `Draining` is what a drain has marked.

A call of the scheduler is many small edits of the maps in a row, so the parts of the invariant
take the maps and the coordinator as values.  `Onward` and `Calm` are what any of these edits may
do, and they compose (`OnwardChain`, `CalmChain`); `Edited` are those that touch marks, counters
and the queue; `Polling` and `Dispatching` are the two ends of a call.  The other side moves by
`WorldStep`: a future runs or a lease fades (`Fades`), and the maps stay.  A reservation is
followed from what it finds through what it is granted (`Grants`) to where the manager puts it.

One fact is an induction over data, that a queue without a key is a shorter queue
(`WithoutFacts`).  It is proved in first-order form, from the well-founded order of the naturals
(`Least`).

Every safety property that the runs check of these modules is proved.  Out of the prover's
reach: the liveness properties `AbandonedBytesReturn`, `ServerStops`, `OperationsEnd`, `JobsEnd`,
`LookupSettles` and `Recovers`.

## 5. Findings

1. `store_clear_failure`.  `storage.py:333` promises that the index is
   "authoritative for negatives".  A retirement that fails drops the key from the
   index and keeps the row; `clear_failure` reopens the store without rebuilding the
   index, and the key can then be neither found nor written again until a restart.
2. `coord_identity`.  `_release` removes the identity without looking whether it
   still names the ticket it releases.  With the release of an expired load in a
   worker and its new reservation in the scheduler, the new ticket ends up live,
   charged, and under no identity; the next reservation makes a second ticket.
3. `manager_prepared`.  `lookup` of a reservation whose deadline has passed queues the
   release of its ticket and reserves again in the same scan.  If the release has not
   begun, the coordinator renews and returns the same ticket, and `prepare_load` takes
   it; the queued release then takes the leases from under the prepared load, which the
   documentation says never happens.  The transfer is refused by the ranks (a read
   without a lease fails), so the request recomputes; the bytes stay right.

Beside these, `persistence/README.md:108` says that partials "stay charged until unlink
and directory fsync complete", and `NoUnchargedFile` had to admit two exceptions.  A
writer that stalls between its check and its `open` creates the partial after its
reservation was collected, so for a moment nobody is charged for it.  And when the
writer's second check then fails, `_unlink_temp` passes over an `OSError`
(`storage.py:531`): the partial stays, uncharged and unreported, until the next start
scans the directory.  While its row is still there the same failure is harmless, for
the partial is charged and goes with the row.

And `fleet_watchdog.sh:71` says "A worker must never start while the old head is dying"
and `src/README.md:348` "Tear down **all** ranks before relaunching **any**", but the
`docker rm -f` of line 76 ends in `|| true`, on the watchdog's own node too: with an old
head that docker does not remove, the workers are launched all the same and may join it.
`NoStaleJoin` had to admit that case, `headLeft`.  It heals: the launcher of the head
removes the container again before its `docker run`, or a later round does (`Recovers`).
`start-tp4.sh` passes over a failing docker in the same way in `stop_all` (line 607, whose
log then says "all four ranks stopped") and in `preflight` (line 591); there the next
`docker run` fails on the name and ends the script.

## 6. What could follow

- `Manager` composed with `TicketService` instead of its own abstraction of the
  coordinator; with the real `Coordinator`, at two ranks, the product is beyond TLC.
- `StoreConnection`: the retirement outside the lock (`storage.py:524`).
- The pure algorithms in the vLLM patches (adaptive k, decode floor, slot map).
- `Recovers` with three ranks.

## 7. Not modelled, and why

The geometry helpers are sequential comparisons; the vLLM adapters delegate; the
in-process coordinator is a test fixture of the same protocol; kernels, quantised
layers, the draft model and the ablation runtime are numeric code; patches and their
verifiers rewrite text at build time; the build, distribution and host scripts and the
benchmarks keep no protocol state.  These are most of the repository's lines (several
overlay directories are copies of one another), so the modules above, which cover the
parts with a protocol, map only a small share of them.

One thing seen on the way, in code that is not modelled: the docstring of
`patch_glm5_drafter_group.py` describes a "STANDALONE" layout for drafter groups, but
the branch that would keep a group's own page size always pads it to the page of the
MLA group, and the layout check gives up where drafter layers outnumber MLA tensors; so
that mode is not reached.
