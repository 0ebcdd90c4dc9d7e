------------------------------ MODULE Watchdog ------------------------------
(***************************************************************************)
(* fleet_watchdog.sh on the head, over an engine that is launched without  *)
(* persistence (launch-glm53-tp4-24g.sh): it probes /health, and after     *)
(* FAIL_THRESHOLD failures in a row removes every container, launches the  *)
(* workers and then the head, and waits.  A node may be unreachable for    *)
(* any command, a launch may fail, and the script goes on.                 *)
(***************************************************************************)
EXTENDS Startup

CONSTANT FAIL_THRESHOLD
ASSUME ThresholdAssumption == FAIL_THRESHOLD \in Nat \ {0}

VARIABLES
  dog,          \* "off", "probe", "teardown", "launch" or "wait"
  turn,         \* the rank that teardown or launch has come to
  fails,        \* failed probes in a row
  headLeft      \* the latest teardown did not remove the head (history)

watch == <<dog, turn, fails, headLeft>>
WatchdogInit == dog = "probe" /\ turn = N-1 /\ fails = 0 /\ headLeft = FALSE
NoWatchdog   == dog = "off"   /\ turn = N-1 /\ fails = 0 /\ headLeft = FALSE

(* The main loop.                                                          *)
ProbeOk ==
  /\ dog = "probe" /\ Healthy
  /\ fails' = 0
  /\ UNCHANGED <<vars, dog, turn, headLeft>>

Enough(n) == n + 1 >= FAIL_THRESHOLD
TimedOut == Healthy /\ Fault         \* curl -m CURL_TIMEOUT
Older(s) == [r \in Ranks |-> IF s[r] = "fresh" THEN "stale" ELSE s[r]]
ProbeFails ==
  /\ dog = "probe"
  /\ (~Healthy /\ Safe) \/ TimedOut
  /\ IF Enough(fails)
     THEN /\ dog' = "teardown" /\ turn' = N-1 /\ fails' = 0 /\ headLeft' = FALSE
          /\ box' = Older(box) /\ joined' = Older(joined)
     ELSE fails' = fails + 1 /\ UNCHANGED <<box, joined, dog, turn, headLeft>>
  /\ UNCHANGED <<at, profile, heard, config>>

(* recover(): docker rm -f on every rank, the head last; a docker that     *)
(* fails and a node that cannot be reached are passed over.                *)
WorkersDown(r) == r <= 1             \* mutation: the head is not torn down
TornDown(r) == r = Head
Teardown ==
  /\ dog = "teardown"
  /\ \/ Removed(turn) /\ Safe /\ UNCHANGED headLeft
     \/ Untouched /\ Fault /\ headLeft' = (headLeft \/ turn = Head)
  /\ IF TornDown(turn) THEN dog' = "launch" /\ turn' = N-1
                       ELSE turn' = turn - 1 /\ UNCHANGED dog
  /\ UNCHANGED <<profile, config, fails>>

(* Workers first, the head last; the launcher of a node removes a container *)
(* of the same name before docker run.  A failed launch is passed over.    *)
WorkersUp(r) == r <= 1               \* mutation: no head is launched
LaunchedAll(r) == r = Head
Launch ==
  /\ dog = "launch"
  /\ \/ Launched(turn, Plain) /\ Safe
     \/ Removed(turn) /\ Fault /\ UNCHANGED profile      \* after its docker rm
     \/ Untouched /\ Fault /\ UNCHANGED profile
  /\ IF LaunchedAll(turn) THEN dog' = "wait" /\ turn' = N-1
                             ELSE turn' = turn - 1 /\ UNCHANGED dog
  /\ UNCHANGED <<config, fails, headLeft>>

WaitEnds ==
  /\ dog = "wait" /\ Healthy
  /\ dog' = "probe"
  /\ UNCHANGED <<vars, turn, fails, headLeft>>

GiveUp ==
  /\ dog = "wait" /\ ~Healthy
  /\ Patience
  /\ dog' = "probe"
  /\ UNCHANGED <<box, at, joined, profile, heard, config, turn, fails, headLeft>>

Dog == ProbeOk \/ ProbeFails \/ Teardown \/ Launch \/ WaitEnds \/ GiveUp
=============================================================================
