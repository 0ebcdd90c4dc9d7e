------------------------------ MODULE Startup -------------------------------
(***************************************************************************)
(* How the processes of one tensor-parallel engine come up: every rank's   *)
(* worker opens its store, serves its registration and takes the all-rank  *)
(* census; the scheduler, in the head's container, takes it after them     *)
(* (coordinator_http.py: factory, _census; native.py: _provider,           *)
(* create_worker, get_manager).                                            *)
(*                                                                         *)
(* A census asks the ranks one by one while they start, fail, exit and are *)
(* replaced by processes with another configuration.                       *)
(*                                                                         *)
(* The rendezvous before it and the detection of dead processes are vLLM's *)
(* and are modelled from what fleet_watchdog.sh says of them.  Containers  *)
(* are started and removed by the modules Watchdog and Launcher.           *)
(***************************************************************************)
EXTENDS Integers

CONSTANTS
  N,            \* ranks; rank 0 is the head
  Scheduler,
  Profiles,     \* configurations: what fingerprint, group_refs and profile tell apart
  Plain,        \* the configuration without persistence
  None, Lost,   \* a rank that was not asked yet; one that did not answer
  MaxFaults     \* bound: crashes, unreachable nodes, lost answers, refused steps

ASSUME RankAssumption == N \in Nat \ {0}
ASSUME NameAssumption == Scheduler \notin 0..N-1 /\ None # Lost /\ Plain \notin Profiles
                         /\ {None, Lost} \cap (Profiles \cup {Plain}) = {}
ASSUME FaultAssumption == MaxFaults \in Nat

Ranks == 0..N-1
Head  == 0
Processes == Ranks \cup {Scheduler}
Configurations == Profiles \cup {Plain}

VARIABLES
  box,          \* containers: "none", "exited", or running since an earlier launch
                \* ("stale") or since the latest ("fresh")
  at,           \* how far a process has come
  joined,       \* the head whose rendezvous a worker has joined
  profile,      \* the configuration a process was launched with
  heard,        \* the answers of the census it is taking
  config,       \* the configuration that a launch finds on the nodes
  faults        \* faults that may still happen

vars == <<box, at, joined, profile, heard, config, faults>>

Unasked == [q \in Ranks |-> None]

Running(c) ==
  /\ box = [r \in Ranks |-> "fresh"] /\ at = [p \in Processes |-> "boot"]
  /\ config = c
Stopped(c) ==
  /\ box = [r \in Ranks |-> "none"] /\ at = [p \in Processes |-> "off"]
  /\ config = c
StartupInit ==
  /\ joined = [r \in Ranks |-> "none"]
  /\ profile = [p \in Processes |-> config]
  /\ heard = [p \in Processes |-> Unasked]
  /\ faults = MaxFaults

Serving(r) == at[r] \in {"census", "provided", "ready", "failing"} /\ profile[r] # Plain
Runs(r)    == box[r] \in {"stale", "fresh"}
Healthy    == at[Scheduler] = "ready"              \* what /health answers
Absent(r)  == at[r] \in {"off", "boot", "joined"}

Fault == faults > 0 /\ faults' = faults - 1
Safe  == UNCHANGED faults
Moves(p, to) == at' = [at EXCEPT ![p] = to]
Forgets(p)   == heard' = [heard EXCEPT ![p] = Unasked]

(* A worker's container ends with its process; the head's need not.        *)
Exits(p) ==
  /\ at' = [at EXCEPT ![p] = "off"]
  /\ box' = [r \in Ranks |-> IF r = p /\ r # Head THEN "exited" ELSE box[r]]
  /\ Forgets(p)
  /\ UNCHANGED <<joined, profile, config>>

-----------------------------------------------------------------------------
(* The rendezvous.                                                         *)
Join(r) ==
  /\ at[r] = "boot" /\ Runs(Head)
  /\ Moves(r, "joined")
  /\ joined' = [joined EXCEPT ![r] = box[Head]]
  /\ UNCHANGED <<box, profile, heard, config, faults>>

Meet ==
  /\ \A r \in Ranks : at[r] = "joined" /\ joined[r] = box[Head]
  /\ at[Scheduler] = "boot"
  /\ at' = [p \in Processes |-> "loaded"]
  /\ UNCHANGED <<box, joined, profile, heard, config, faults>>

(* Headless workers exit when the head they joined dies.                   *)
LosesHead(r) ==
  /\ joined[r] = "gone" /\ at[r] \notin {"off", "boot"}
  /\ Exits(r) /\ Safe

(* The engine core finds a worker of its group dead.                       *)
Notice ==
  /\ at[Scheduler] \notin {"off", "boot"}
  /\ \E r \in Ranks : Absent(r)
  /\ Exits(Scheduler) /\ Safe

HeadLost == [r \in Ranks |-> IF joined[r] = "none" THEN "none" ELSE "gone"]
HeadExits ==
  /\ at[Scheduler] = "off" /\ Runs(Head)
  /\ box' = [box EXCEPT ![Head] = "exited"]
  /\ at' = [at EXCEPT ![Head] = "off"]
  /\ joined' = HeadLost
  /\ UNCHANGED <<profile, heard, config, faults>>

Crash(p) ==
  /\ at[p] # "off"
  /\ Fault /\ Exits(p)

-----------------------------------------------------------------------------
(* The factory of a worker: store, server, census; each step may raise.    *)
OpenStore(r) ==
  /\ at[r] = "loaded" /\ profile[r] # Plain
  /\ \/ Moves(r, "opened") /\ Safe
     \/ Moves(r, "failing") /\ Fault
  /\ UNCHANGED <<box, joined, profile, heard, config>>

Serve(r) ==
  /\ at[r] = "opened"
  /\ \/ Moves(r, "census") /\ Safe
     \/ Moves(r, "failing") /\ Fault
  /\ UNCHANGED <<box, joined, profile, heard, config>>

NoStore(r) ==
  /\ at[r] = "loaded" /\ profile[r] = Plain
  /\ Moves(r, "ready")
  /\ UNCHANGED <<box, joined, profile, heard, config, faults>>

(* The scheduler's manager is built when all workers have initialised.     *)
StartScheduler ==
  /\ at[Scheduler] = "loaded"
  /\ \A r \in Ranks : at[r] = "ready"
  /\ Moves(Scheduler, IF profile[Scheduler] = Plain THEN "ready" ELSE "census")
  /\ UNCHANGED <<box, joined, profile, heard, config, faults>>

-----------------------------------------------------------------------------
(* The census.                                                             *)
Answer(q) == IF Serving(q) THEN profile[q] ELSE Lost
Ask(p, q) ==
  /\ at[p] = "census" /\ heard[p][q] = None
  /\ \/ heard' = [heard EXCEPT ![p][q] = Answer(q)] /\ Safe
     \/ heard' = [heard EXCEPT ![p][q] = Lost] /\ Fault
  /\ UNCHANGED <<box, at, joined, profile, config>>

Answered(p) == None \notin {heard[p][q] : q \in Ranks}
Complete(p) == Answered(p) /\ Lost \notin {heard[p][q] : q \in Ranks}

Retry(p) ==
  /\ at[p] = "census" /\ Answered(p) /\ ~Complete(p)
  /\ Forgets(p)
  /\ UNCHANGED <<box, at, joined, profile, config, faults>>

AnyAnswers(p) == TRUE                \* mutation: the answers are not compared
Same(p) == \A q \in Ranks : heard[p][q] = heard[p][Head] /\ heard[p][q] = profile[p]

Accept(p) ==
  /\ at[p] = "census" /\ Complete(p) /\ Same(p)
  /\ Moves(p, IF p = Scheduler THEN "ready" ELSE "provided")
  /\ Forgets(p)
  /\ UNCHANGED <<box, joined, profile, config, faults>>

Reject(p) ==
  /\ at[p] = "census" /\ Complete(p) /\ ~Same(p)
  /\ Moves(p, "failing") /\ Forgets(p)
  /\ UNCHANGED <<box, joined, profile, config, faults>>

(* coordinator_startup_timeout, which is long enough for ranks that start. *)
Expire(p) ==
  /\ at[p] = "census"
  /\ IF \E q \in Ranks : Absent(q) \/ profile[q] = Plain THEN Safe ELSE Fault
  /\ Moves(p, "failing") /\ Forgets(p)
  /\ UNCHANGED <<box, joined, profile, config>>

(* The native worker and its pump over the provider.                       *)
Build(r) ==
  /\ at[r] = "provided"
  /\ \/ Moves(r, "ready") /\ Safe
     \/ Moves(r, "failing") /\ Fault
  /\ UNCHANGED <<box, joined, profile, heard, config>>

(* What the factory or the spec owns is shut down; the exception ends the  *)
(* process, drained or not.                                                *)
CleanUp(p) ==
  /\ at[p] = "failing"
  /\ Exits(p) /\ Safe

StepOf(p) ==
  \/ \E q \in Ranks : Ask(p, q)
  \/ Retry(p) \/ Accept(p) \/ Reject(p) \/ Expire(p) \/ CleanUp(p)
StepOfRank(r) == Join(r) \/ LosesHead(r) \/ OpenStore(r) \/ NoStore(r) \/ Serve(r) \/ Build(r)

Engine ==
  \/ \E p \in Processes : StepOf(p) \/ Crash(p)
  \/ \E r \in Ranks : StepOfRank(r)
  \/ Meet \/ Notice \/ HeadExits \/ StartScheduler

-----------------------------------------------------------------------------
(* What docker rm -f and docker run do to the engine, whoever calls them.  *)
Removed(r) ==
  IF r = Head
  THEN /\ box' = [box EXCEPT ![Head] = "none"]
       /\ at' = [at EXCEPT ![Head] = "off", ![Scheduler] = "off"]
       /\ joined' = HeadLost
       /\ heard' = [heard EXCEPT ![Head] = Unasked, ![Scheduler] = Unasked]
  ELSE /\ box' = [box EXCEPT ![r] = "none"]
       /\ at' = [at EXCEPT ![r] = "off"]
       /\ joined' = [joined EXCEPT ![r] = "none"]
       /\ Forgets(r)

Launched(r, c) ==
  LET started == IF r = Head THEN {Head, Scheduler} ELSE {r} IN
  /\ box' = [box EXCEPT ![r] = "fresh"]
  /\ at' = [p \in Processes |-> IF p \in started THEN "boot" ELSE at[p]]
  /\ profile' = [p \in Processes |-> IF p \in started THEN c ELSE profile[p]]
  /\ joined' = [(IF r = Head THEN HeadLost ELSE joined) EXCEPT ![r] = "none"]
  /\ heard' = [p \in Processes |-> IF p \in started THEN Unasked ELSE heard[p]]

Untouched == UNCHANGED <<box, at, joined, heard>>

(* READY_TIMEOUT is long enough for an engine that can come up.            *)
Patience == IF \E p \in Processes : at[p] = "off" THEN Safe ELSE Fault
=============================================================================
