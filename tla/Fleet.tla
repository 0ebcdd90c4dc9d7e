------------------------------- MODULE Fleet --------------------------------
(***************************************************************************)
(* The engine of module Startup under one of its two supervisors: the      *)
(* watchdog, or operators with the launcher of the persistence engine.     *)
(***************************************************************************)
EXTENDS Watchdog, Launcher

all == <<vars, watch, sessions>>

Watched == dog # "off"

FleetInit ==
  /\ \/ Running(Plain) /\ WatchdogInit /\ NoLauncher
     \/ \E c \in Profiles : Stopped(c) /\ NoWatchdog /\ LauncherInit
  /\ StartupInit

EngineSteps(A) == A /\ UNCHANGED <<watch, sessions>>

Next ==
  \/ EngineSteps(Engine)
  \/ Watched /\ Dog /\ UNCHANGED sessions
  \/ ~Watched /\ UNCHANGED watch
              /\ \/ \E s \in Sessions : Session(s)
                 \/ Reconfigure /\ UNCHANGED sessions

Spec == FleetInit /\ [][Next]_all

(* The watchdog's loop does not stop, the operator on duty repeats `down'  *)
(* and `up' while the engine is not healthy, processes run, dead workers   *)
(* are noticed; a dead head's container need never exit.                   *)
Fair ==
  /\ WF_all(Watched /\ Dog /\ UNCHANGED sessions)
  /\ WF_all(~Watched /\ Session(Main) /\ UNCHANGED watch)
  /\ \A p \in Processes : WF_all(EngineSteps(StepOf(p))) /\ WF_all(EngineSteps(Expire(p)))
  /\ \A r \in Ranks : WF_all(EngineSteps(StepOfRank(r)))
  /\ WF_all(EngineSteps(Meet))
  /\ WF_all(EngineSteps(Notice))
  /\ WF_all(EngineSteps(StartScheduler))
LiveSpec == Spec /\ Fair

-----------------------------------------------------------------------------
(* Types; a container that does not run has no process, and a worker's     *)
(* container ends with its process.                                        *)
TypeOK ==
  /\ box \in [Ranks -> {"none", "exited", "stale", "fresh"}]
  /\ at \in [Processes -> {"off", "boot", "joined", "loaded", "opened", "census", "provided", "ready", "failing"}]
  /\ joined \in [Ranks -> {"none", "stale", "fresh", "gone"}]
  /\ profile \in [Processes -> Configurations] /\ config \in Configurations
  /\ heard \in [Processes -> [Ranks -> Profiles \cup {None, Lost}]]
  /\ faults \in 0..MaxFaults
  /\ dog \in {"off", "probe", "teardown", "launch", "wait"}
  /\ turn \in Ranks /\ fails \in 0..FAIL_THRESHOLD-1 /\ headLeft \in BOOLEAN
  /\ step \in [Sessions -> {"off", "stopped", "up", "died", "down", "preflight", "stop", "launch", "wait", "check"}]
  /\ rank \in [Sessions -> Ranks] /\ fine \in [Sessions -> BOOLEAN]
  /\ env \in [Sessions -> Configurations]
  /\ \A r \in Ranks : ~Runs(r) => at[r] = "off"
  /\ \A r \in Ranks \ {Head} : at[r] = "off" => ~Runs(r)

(* Processes that have come up run one configuration, though two sessions  *)
(* of the launcher may have started their ranks, each with its own.        *)
OneConfiguration ==
  \A p, q \in Processes :
    {at[p], at[q]} \subseteq {"provided", "ready"} => profile[p] = profile[q]

(* "A worker must never start while the old head is dying: it joins the    *)
(* stale TCPStore rendezvous": a worker that the watchdog launches joins   *)
(* the head of before only when docker failed to remove that head in the   *)
(* same round, which the script passes over.                               *)
NoStaleJoin ==
  \A r \in Ranks : box[r] = "fresh" /\ joined[r] = "stale" => headLeft

(* Whatever fails, as long as faults do not go on, the fleet serves again. *)
Recovers == []<>Healthy
=============================================================================
