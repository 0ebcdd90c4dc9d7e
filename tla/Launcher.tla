------------------------------ MODULE Launcher ------------------------------
(***************************************************************************)
(* configs/launch/start-tp4.sh, over an engine with or without             *)
(* persistence.  `up' refuses to start when a container runs on any node,  *)
(* removes what is left, launches the ranks from the last to the head,     *)
(* waits for /health and looks for the coordinator of every rank; `down'   *)
(* removes the containers.  The first command that fails ends the script.  *)
(*                                                                         *)
(* Nothing keeps two sessions of the script apart, and the file with the   *)
(* configuration may be edited between their starts.                       *)
(***************************************************************************)
EXTENDS Startup

CONSTANTS Sessions, Main        \* who runs the script; the operator on duty
ASSUME MainAssumption == Main \in Sessions

VARIABLES
  step,         \* "off", or "stopped", "up" or "died" after a run of the script;
                \* "down", "preflight", "stop", "launch", "wait" or "check" in one
  rank,         \* the rank its loop has come to
  fine,         \* preflight's verdict so far
  env           \* the configuration that it has read, Plain between two runs

sessions == <<step, rank, fine, env>>
LauncherInit ==
  /\ step = [s \in Sessions |-> "stopped"] /\ rank = [s \in Sessions |-> Head]
  /\ fine = [s \in Sessions |-> TRUE] /\ env = [s \in Sessions |-> Plain]
NoLauncher ==
  /\ step = [s \in Sessions |-> "off"] /\ rank = [s \in Sessions |-> Head]
  /\ fine = [s \in Sessions |-> TRUE] /\ env = [s \in Sessions |-> Plain]

Goes(s, to, at_rank) ==
  step' = [step EXCEPT ![s] = to] /\ rank' = [rank EXCEPT ![s] = at_rank]
GoesOn == UNCHANGED <<fine, env>>
Ends(s, how) ==
  /\ Goes(s, how, Head)
  /\ fine' = [fine EXCEPT ![s] = TRUE] /\ env' = [env EXCEPT ![s] = Plain]

-----------------------------------------------------------------------------
(* The operator on duty restores an engine that is not healthy; the        *)
(* commands of others are counted as faults.                               *)
Reads(s) == env' = [env EXCEPT ![s] = config]
Begins(s) == IF s = Main THEN ~Healthy /\ Safe ELSE Fault

Rests == {"stopped", "up", "died"}

BeginDown(s) ==
  /\ step[s] \in Rests /\ (s = Main => step[s] # "stopped") /\ Begins(s)
  /\ Goes(s, "down", Head)
  /\ UNCHANGED <<box, at, joined, profile, heard, config, fine, env>>

BeginUp(s) ==
  /\ step[s] \in Rests /\ (s = Main => step[s] = "stopped") /\ Begins(s)
  /\ Goes(s, "preflight", Head) /\ Reads(s)
  /\ UNCHANGED <<box, at, joined, profile, heard, config, fine>>

-----------------------------------------------------------------------------
(* preflight(): looks at every node before it gives its verdict, which may *)
(* be false either way: what else it inspects may be missing, and a docker *)
(* ps that fails, in the condition of an if, means that nothing runs.      *)
Inspects(s, good) ==
  /\ step[s] = "preflight"
  /\ IF good = Runs(rank[s]) THEN Fault ELSE Safe
  /\ UNCHANGED <<box, at, joined, profile, heard, config>>

Preflight(s) ==
  \E good \in BOOLEAN :
    /\ Inspects(s, good)
    /\ IF rank[s] < N-1
       THEN /\ Goes(s, "preflight", rank[s] + 1)
            /\ fine' = [fine EXCEPT ![s] = @ /\ good] /\ UNCHANGED env
       ELSE IF fine[s] /\ good THEN Goes(s, "stop", Head) /\ GoesOn
       ELSE Ends(s, "died")

(* stop_all(): docker rm -f on every node, the head first.  A docker that  *)
(* fails is passed over, a node that cannot be reached ends the script.    *)
Stop(s) ==
  /\ step[s] \in {"down", "stop"}
  /\ \/ /\ (Removed(rank[s]) /\ Safe) \/ (Untouched /\ Fault)
        /\ IF rank[s] < N-1 THEN Goes(s, step[s], rank[s] + 1) /\ GoesOn
           ELSE IF step[s] = "stop" THEN Goes(s, "launch", N-1) /\ GoesOn
           ELSE Ends(s, "stopped")
     \/ Ends(s, "died") /\ Untouched /\ Fault
  /\ UNCHANGED <<profile, config>>

(* launch_rank(): docker run fails if there is a container of the name.    *)
LaunchRank(s) ==
  /\ step[s] = "launch" /\ box[rank[s]] = "none"
  /\ Launched(rank[s], env[s]) /\ Safe
  /\ IF rank[s] = Head THEN Goes(s, "wait", Head) ELSE Goes(s, "launch", rank[s] - 1)
  /\ GoesOn /\ UNCHANGED config

LaunchFails(s) ==
  /\ step[s] = "launch"
  /\ IF box[rank[s]] = "none" THEN Fault ELSE Safe
  /\ Ends(s, "died")
  /\ UNCHANGED <<box, at, joined, profile, heard, config>>

-----------------------------------------------------------------------------
(* wait_for_health(), coordinator_check().                                 *)
Came(s) ==
  /\ step[s] = "wait" /\ Healthy
  /\ IF env[s] = Plain THEN Ends(s, "up") ELSE Goes(s, "check", Head) /\ GoesOn
  /\ UNCHANGED vars

NeverCame(s) ==
  /\ step[s] = "wait" /\ ~Healthy
  /\ IF Runs(Head) THEN Patience ELSE Safe
  /\ Ends(s, "died")
  /\ UNCHANGED <<box, at, joined, profile, heard, config>>

Listens(s) ==
  /\ step[s] = "check" /\ Serving(rank[s])
  /\ IF rank[s] < N-1 THEN Goes(s, "check", rank[s] + 1) /\ GoesOn ELSE Ends(s, "up")
  /\ UNCHANGED vars

Silent(s) ==
  /\ step[s] = "check"
  /\ IF Serving(rank[s]) THEN Fault ELSE Safe
  /\ Ends(s, "died")
  /\ UNCHANGED <<box, at, joined, profile, heard, config>>

Session(s) ==
  \/ BeginDown(s) \/ BeginUp(s) \/ Preflight(s) \/ Stop(s)
  \/ LaunchRank(s) \/ LaunchFails(s) \/ Came(s) \/ NeverCame(s)
  \/ Listens(s) \/ Silent(s)

(* The file env.tp4.fleet is edited.                                       *)
Reconfigure ==
  /\ Fault
  /\ config' \in Configurations \ {config}
  /\ UNCHANGED <<box, at, joined, profile, heard>>
=============================================================================
