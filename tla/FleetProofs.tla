---------------------------- MODULE FleetProofs -----------------------------
(***************************************************************************)
(* Theorems about Fleet for every number of ranks, of sessions and of      *)
(* faults, every set of configurations and every threshold.                *)
(***************************************************************************)
EXTENDS Fleet, TLAPS

Boxes  == {"none", "exited", "stale", "fresh"}
Stages == {"off", "boot", "joined", "loaded", "opened", "census", "provided", "ready", "failing"}
Heads  == {"none", "stale", "fresh", "gone"}
Dogs   == {"off", "probe", "teardown", "launch", "wait"}
Steps  == {"off", "stopped", "up", "died", "down", "preflight", "stop", "launch", "wait", "check"}

EngineType ==
  /\ box \in [Ranks -> Boxes] /\ at \in [Processes -> Stages] /\ joined \in [Ranks -> Heads]
  /\ profile \in [Processes -> Configurations] /\ config \in Configurations
  /\ heard \in [Processes -> [Ranks -> Profiles \cup {None, Lost}]]
  /\ \A r \in Ranks : ~Runs(r) => at[r] = "off"
  /\ \A r \in Ranks \ {Head} : at[r] = "off" => ~Runs(r)

SupervisorType ==
  /\ faults \in 0..MaxFaults
  /\ dog \in Dogs /\ turn \in Ranks /\ fails \in 0..FAIL_THRESHOLD-1 /\ headLeft \in BOOLEAN
  /\ step \in [Sessions -> Steps] /\ rank \in [Sessions -> Ranks]
  /\ fine \in [Sessions -> BOOLEAN] /\ env \in [Sessions -> Configurations]

-----------------------------------------------------------------------------
(* What a census has heard stays true: a process that is past the          *)
(* rendezvous can be replaced, but its successor only gets there in a      *)
(* rendezvous of all ranks, before which everybody is replaced.            *)

Past(p)     == at[p] \notin {"off", "boot", "joined"}
Accepted(p) == at[p] \in {"provided", "ready"}
Told(p, q)  == heard[p][q] \in Profiles

OneLaunch    == profile[Scheduler] = profile[Head]
AnswersKept  == \A p \in Processes, q \in Ranks : heard[p][q] # None => at[p] \in {"census", "off"}
AnswersTrue  == \A p \in Processes, q \in Ranks : Told(p, q) /\ Past(q) => profile[q] = heard[p][q]
HeadsAnswer  == \A p \in Processes : Told(p, Head) /\ Past(Scheduler) => profile[Scheduler] = heard[p][Head]
AcceptedAgree ==
  \A p, q \in Processes :
    Accepted(p) /\ profile[p] # Plain /\ Past(q) => profile[q] = profile[p]

EngineInv ==
  EngineType /\ OneLaunch /\ AnswersKept /\ AnswersTrue /\ HeadsAnswer /\ AcceptedAgree

(* The containers of an earlier launch while the watchdog tears down; the  *)
(* head is one of them afterwards only when docker failed to remove it.    *)
DogInv ==
  /\ ~Watched => \A r \in Ranks : box[r] # "stale"
  /\ dog = "teardown" => \A r \in Ranks : box[r] # "fresh"
  /\ dog \in {"probe", "launch", "wait"} /\ ~headLeft => box[Head] # "stale"
  /\ NoStaleJoin

FleetInv == EngineInv /\ SupervisorType /\ DogInv

LEMMA Names == Head \in Ranks /\ Scheduler \in Processes /\ Scheduler \notin Ranks
               /\ Ranks \subseteq Processes /\ Profiles \subseteq Configurations
               /\ Plain \in Configurations
BY RankAssumption, NameAssumption DEF Ranks, Head, Processes, Configurations

LEMMA InitSafe == FleetInit => FleetInv
<1> SUFFICES ASSUME FleetInit PROVE FleetInv
  OBVIOUS
<1>1. config \in Configurations
  BY Names DEF FleetInit, Running, Stopped
<1>2. EngineInv
  BY <1>1, Names DEF FleetInit, Running, Stopped, StartupInit, Unasked, EngineInv, EngineType,
        Boxes, Stages, Heads, OneLaunch, AnswersKept, AnswersTrue, HeadsAnswer, AcceptedAgree,
        Told, Past, Accepted, Runs
<1>3. SupervisorType
  <2>1. faults \in 0..MaxFaults
    BY FaultAssumption DEF FleetInit, StartupInit
  <2>2. dog \in Dogs /\ turn = N-1 /\ fails = 0 /\ headLeft = FALSE
    BY DEF FleetInit, WatchdogInit, NoWatchdog, Dogs
  <2>3. turn \in Ranks /\ fails \in 0..FAIL_THRESHOLD-1
    BY <2>2, RankAssumption, ThresholdAssumption DEF Ranks
  <2>4. /\ step \in [Sessions -> Steps] /\ rank \in [Sessions -> Ranks]
        /\ fine \in [Sessions -> BOOLEAN] /\ env \in [Sessions -> Configurations]
    BY Names DEF FleetInit, LauncherInit, NoLauncher, Steps
  <2>5. QED
    BY <2>1, <2>2, <2>3, <2>4 DEF SupervisorType
<1>4. DogInv
  BY Names DEF FleetInit, Running, Stopped, StartupInit, WatchdogInit, NoWatchdog, DogInv,
        NoStaleJoin, Watched
<1>5. QED
  BY <1>2, <1>3, <1>4 DEF FleetInv

-----------------------------------------------------------------------------
(* What the engine, docker rm and docker run do to EngineInv.              *)

LEMMA Fades ==
  ASSUME EngineType, DogInv, dog' = dog, headLeft' = headLeft,
         \A r \in Ranks : box'[r] = box[r] \/ box'[r] \in {"none", "exited"},
         \A r \in Ranks : joined'[r] = joined[r] \/ joined'[r] \in {"none", "gone"}
  PROVE  DogInv'
BY Names DEF DogInv, NoStaleJoin, Watched

LEMMA UnaskedType == Unasked \in [Ranks -> Profiles \cup {None, Lost}]
                     /\ \A q \in Ranks : Unasked[q] = None
BY DEF Unasked

LEMMA ExitsSafe ==
  ASSUME EngineInv, NEW p \in Processes, Exits(p)
  PROVE  EngineInv'
<1> USE Names, UnaskedType, NameAssumption DEF EngineInv, Exits, Forgets
<1>1. EngineType'
  BY DEF EngineType, Boxes, Stages, Heads, Runs, Processes
<1>2. \A x \in Processes : at'[x] = at[x] \/ at'[x] = "off"
  BY DEF EngineType
<1>3. \A x \in Processes, q \in Ranks : heard'[x][q] = heard[x][q] \/ heard'[x][q] = None
  BY DEF EngineType
<1>4. OneLaunch' /\ AnswersKept' /\ AnswersTrue' /\ HeadsAnswer' /\ AcceptedAgree'
  BY <1>2, <1>3 DEF OneLaunch, AnswersKept, AnswersTrue, HeadsAnswer, AcceptedAgree, Told, Past,
     Accepted
<1>5. QED
  BY <1>1, <1>4

LEMMA RemovedSafe ==
  ASSUME EngineInv, NEW r \in Ranks, Removed(r), UNCHANGED <<profile, config>>
  PROVE  EngineInv'
<1> USE Names, UnaskedType, NameAssumption DEF EngineInv, Removed, Forgets
<1>1. EngineType'
  <2>1. box' \in [Ranks -> Boxes] /\ joined' \in [Ranks -> Heads]
    BY DEF EngineType, Boxes, Heads, HeadLost
  <2>2. at' \in [Processes -> Stages]
    BY DEF EngineType, Stages
  <2>3. heard' \in [Processes -> [Ranks -> Profiles \cup {None, Lost}]]
    BY DEF EngineType
  <2>4. \A q \in Ranks : IF q = r THEN box'[q] = "none" /\ at'[q] = "off"
                                   ELSE box'[q] = box[q] /\ at'[q] = at[q]
    BY DEF EngineType
  <2>5. QED
    BY <2>1, <2>2, <2>3, <2>4 DEF EngineType, Runs
<1>2. \A x \in Processes : at'[x] = at[x] \/ at'[x] = "off"
  BY DEF EngineType
<1>3. \A x \in Processes, q \in Ranks : heard'[x][q] = heard[x][q] \/ heard'[x][q] = None
  BY DEF EngineType
<1>4. OneLaunch' /\ AnswersKept' /\ AnswersTrue' /\ HeadsAnswer' /\ AcceptedAgree'
  BY <1>2, <1>3 DEF OneLaunch, AnswersKept, AnswersTrue, HeadsAnswer, AcceptedAgree, Told, Past,
     Accepted
<1>5. QED
  BY <1>1, <1>4

LEMMA LaunchedSafe ==
  ASSUME EngineInv, NEW r \in Ranks, NEW c \in Configurations, Launched(r, c),
         UNCHANGED config
  PROVE  EngineInv'
<1> DEFINE started == IF r = Head THEN {Head, Scheduler} ELSE {r}
<1> USE Names, UnaskedType, NameAssumption DEF EngineInv, Launched
<1>1. \A x \in Processes :
        IF x \in started THEN at'[x] = "boot" /\ profile'[x] = c /\ heard'[x] = Unasked
        ELSE at'[x] = at[x] /\ profile'[x] = profile[x] /\ heard'[x] = heard[x]
  BY DEF EngineType
<1>2. EngineType'
  BY DEF EngineType, Boxes, Stages, Heads, Runs, Processes, HeadLost
<1>3. OneLaunch' /\ AnswersKept' /\ AnswersTrue' /\ HeadsAnswer' /\ AcceptedAgree'
  BY <1>1 DEF OneLaunch, AnswersKept, AnswersTrue, HeadsAnswer, AcceptedAgree, Told, Past,
     Accepted
<1>4. QED
  BY <1>2, <1>3

-----------------------------------------------------------------------------
(* The processes.                                                          *)

LEMMA MovesSafe ==
  ASSUME EngineInv, NEW p \in Processes, NEW to \in Stages, Moves(p, to),
         to # "off", at[p] # "off", Past(p),
         at[p] # "census" \/ (\A q \in Ranks : heard'[p][q] = None),
         heard' = heard \/ Forgets(p),
         to \in {"provided", "ready"} =>
           \/ profile[p] = Plain \/ Accepted(p)
           \/ \A q \in Processes : Past(q) => profile[q] = profile[p],
         UNCHANGED <<box, joined, profile, config>>
  PROVE  EngineInv'
<1> USE Names, UnaskedType, NameAssumption DEF EngineInv, Moves, Forgets
<1>1. \A x \in Processes : at'[x] = IF x = p THEN to ELSE at[x]
  BY DEF EngineType
<1>2. \A x \in Processes, q \in Ranks :
        heard'[x][q] = heard[x][q] \/ (x = p /\ heard'[x][q] = None)
  BY DEF EngineType
<1>3. EngineType'
  <2>1. at' \in [Processes -> Stages]
    BY DEF EngineType
  <2>2. heard' \in [Processes -> [Ranks -> Profiles \cup {None, Lost}]]
    BY DEF EngineType
  <2>3. QED
    BY <1>1, <2>1, <2>2 DEF EngineType, Runs
<1>4. OneLaunch' /\ AnswersKept'
  BY <1>1, <1>2 DEF OneLaunch, AnswersKept
<1>5. \A x \in Processes : Past(x)' => Past(x)
  BY <1>1 DEF Past
<1>6. AnswersTrue' /\ HeadsAnswer'
  BY <1>2, <1>5 DEF AnswersTrue, HeadsAnswer, Told
<1>7. AcceptedAgree'
  BY <1>1, <1>5 DEF AcceptedAgree, Accepted
<1>8. QED
  BY <1>3, <1>4, <1>6, <1>7

LEMMA AskSafe ==
  ASSUME EngineInv, NEW p \in Processes, NEW q \in Ranks, Ask(p, q)
  PROVE  EngineInv'
<1> USE Names, NameAssumption DEF EngineInv, Ask
<1>1. PICK a \in Profiles \cup {Lost} :
        /\ heard' = [heard EXCEPT ![p][q] = a]
        /\ a \in Profiles => Serving(q) /\ a = profile[q]
  BY DEF Answer, Serving, EngineType, Configurations
<1>2. \A x \in Processes, r \in Ranks :
        heard'[x][r] = IF x = p /\ r = q THEN a ELSE heard[x][r]
  BY <1>1 DEF EngineType
<1>3. EngineType'
  <2>1. heard' \in [Processes -> [Ranks -> Profiles \cup {None, Lost}]]
    BY <1>1 DEF EngineType
  <2>2. QED
    BY <2>1 DEF EngineType, Runs
<1>4. OneLaunch' /\ AnswersKept' /\ AcceptedAgree'
  BY <1>2 DEF OneLaunch, AnswersKept, AcceptedAgree, Accepted, Past
<1>5. AnswersTrue' /\ HeadsAnswer'
  BY <1>1, <1>2 DEF AnswersTrue, HeadsAnswer, OneLaunch, Told, Past
<1>6. QED
  BY <1>3, <1>4, <1>5

LEMMA ProcessSafe ==
  ASSUME EngineInv, NEW p \in Processes, StepOf(p) \/ Crash(p)
  PROVE  EngineInv'
<1> USE Names, UnaskedType DEF Stages
<1>0. heard \in [Processes -> [Ranks -> Profiles \cup {None, Lost}]]
  BY DEF EngineInv, EngineType
<1>1. CASE \E q \in Ranks : Ask(p, q)
  BY <1>1, AskSafe
<1>2. CASE Retry(p)
  <2>1. \A x \in Processes, q \in Ranks : heard'[x][q] = heard[x][q] \/ heard'[x][q] = None
    BY <1>0, <1>2 DEF Retry, Forgets
  <2>2. heard' \in [Processes -> [Ranks -> Profiles \cup {None, Lost}]]
    BY <1>0, <1>2 DEF Retry, Forgets
  <2>3. QED
    BY <1>2, <2>1, <2>2, NameAssumption DEF Retry, EngineInv, EngineType, OneLaunch, AnswersKept,
       AnswersTrue, HeadsAnswer, AcceptedAgree, Accepted, Told, Past, Runs
<1>3. CASE Accept(p)
  <2>1. \A q \in Ranks : heard[p][q] = profile[p] /\ Told(p, q)
    BY <1>0, <1>3, NameAssumption DEF Accept, Complete, Answered, Same, Told
  <2>2. \A q \in Processes : Past(q) => profile[q] = profile[p]
    BY <2>1 DEF EngineInv, AnswersTrue, HeadsAnswer, Processes
  <2>3. \A q \in Ranks : heard'[p][q] = None
    BY <1>0, <1>3 DEF Accept, Forgets
  <2>4. QED
    BY <1>3, <2>2, <2>3, MovesSafe DEF Accept, Past
<1>4. CASE Reject(p) \/ Expire(p)
  <2>1. \A q \in Ranks : heard'[p][q] = None
    BY <1>0, <1>4 DEF Reject, Expire, Forgets
  <2>2. QED
    BY <1>4, <2>1, MovesSafe DEF Reject, Expire, Past
<1>5. CASE CleanUp(p) \/ Crash(p)
  BY <1>5, ExitsSafe DEF CleanUp, Crash
<1>6. QED
  BY <1>1, <1>2, <1>3, <1>4, <1>5 DEF StepOf

LEMMA RankSafe ==
  ASSUME EngineInv, NEW r \in Ranks, StepOfRank(r)
  PROVE  EngineInv'
<1> USE Names DEF Stages
<1>1. CASE Join(r)
  <2>1. \A x \in Processes : at'[x] = IF x = r THEN "joined" ELSE at[x]
    BY <1>1 DEF Join, Moves, EngineInv, EngineType
  <2>2. joined' \in [Ranks -> Heads]
    BY <1>1 DEF Join, EngineInv, EngineType, Runs, Heads
  <2>3. at' \in [Processes -> Stages]
    BY <1>1 DEF Join, Moves, EngineInv, EngineType
  <2>4. EngineType'
    BY <1>1, <2>1, <2>2, <2>3 DEF Join, EngineInv, EngineType, Runs
  <2>5. QED
    BY <1>1, <2>1, <2>4 DEF Join, EngineInv, OneLaunch, AnswersKept, AnswersTrue,
       HeadsAnswer, AcceptedAgree, Accepted, Told, Past
<1>2. CASE LosesHead(r)
  BY <1>2, ExitsSafe DEF LosesHead
<1>3. CASE OpenStore(r) \/ Serve(r)
  BY <1>3, MovesSafe DEF OpenStore, Serve, Past
<1>4. CASE NoStore(r)
  BY <1>4, MovesSafe DEF NoStore, Past
<1>5. CASE Build(r)
  BY <1>5, MovesSafe DEF Build, Past, Accepted
<1>6. QED
  BY <1>1, <1>2, <1>3, <1>4, <1>5 DEF StepOfRank

LEMMA GroupSafe ==
  ASSUME EngineInv, Meet \/ Notice \/ HeadExits \/ StartScheduler
  PROVE  EngineInv'
<1> USE Names DEF Stages
<1>1. CASE Meet
  <2>1. \A p \in Processes : at[p] \in {"boot", "joined"}
    BY <1>1 DEF Meet, Processes
  <2>2. \A p \in Processes, q \in Ranks : heard[p][q] = None
    BY <2>1 DEF EngineInv, AnswersKept
  <2>3. EngineType'
    BY <1>1, <2>1 DEF Meet, EngineInv, EngineType, Runs
  <2>4. QED
    BY <1>1, <2>2, <2>3, NameAssumption DEF Meet, EngineInv, OneLaunch, AnswersKept, AnswersTrue,
       HeadsAnswer, AcceptedAgree, Accepted, Told
<1>2. CASE Notice
  BY <1>2, ExitsSafe DEF Notice
<1>3. CASE HeadExits
  <2>1. \A x \in Processes : at'[x] = IF x = Head THEN "off" ELSE at[x]
    BY <1>3 DEF HeadExits, EngineInv, EngineType
  <2>2. EngineType'
    BY <1>3, <2>1 DEF HeadExits, HeadLost, EngineInv, EngineType, Boxes, Heads, Runs
  <2>3. QED
    BY <1>3, <2>1, <2>2 DEF HeadExits, EngineInv, OneLaunch, AnswersKept, AnswersTrue,
       HeadsAnswer, AcceptedAgree, Accepted, Told, Past
<1>4. CASE StartScheduler
  BY <1>4, MovesSafe DEF StartScheduler, Past
<1>5. QED
  BY <1>1, <1>2, <1>3, <1>4

LEMMA EngineBoxes ==   \* what the engine itself does to containers and rendezvous
  ASSUME EngineType, DogInv, dog \in Dogs, dog' = dog, headLeft' = headLeft, Engine
  PROVE  DogInv'
<1> USE Names
<1>1. CASE \E r \in Ranks : Join(r)
  <2>1. PICK r \in Ranks : Join(r)
    BY <1>1
  <2>2. box' = box /\ \A q \in Ranks : joined'[q] = IF q = r THEN box[Head] ELSE joined[q]
    BY <2>1 DEF Join, EngineType
  <2>3. box[Head] = "stale" => dog = "teardown" \/ headLeft
    BY DEF DogInv, Watched, Dogs
  <2>4. QED
    BY <2>2, <2>3 DEF DogInv, NoStaleJoin, Watched
<1>2. CASE \E p \in Processes : Exits(p)
  <2>1. /\ \A r \in Ranks : box'[r] = box[r] \/ box'[r] = "exited"
        /\ joined' = joined
    BY <1>2 DEF Exits, EngineType
  <2>2. QED
    BY <2>1, Fades
<1>3. CASE HeadExits
  <2>1. /\ \A r \in Ranks : box'[r] = box[r] \/ box'[r] = "exited"
        /\ \A r \in Ranks : joined'[r] = joined[r] \/ joined'[r] = "gone"
    BY <1>3 DEF HeadExits, HeadLost, EngineType
  <2>2. QED
    BY <2>1, Fades
<1>4. CASE UNCHANGED <<box, joined>>
  BY <1>4, Fades
<1>5. QED
  BY <1>1, <1>2, <1>3, <1>4 DEF Engine, StepOf, StepOfRank, Crash, CleanUp, LosesHead, Notice,
     Ask, Retry, Accept, Reject, Expire, OpenStore, Serve, NoStore, Build, Meet, StartScheduler

LEMMA EngineFaults ==
  ASSUME faults \in 0..MaxFaults, Engine
  PROVE  faults' \in 0..MaxFaults
<1>1. Fault \/ Safe
  BY DEF Engine, StepOf, StepOfRank, Crash, CleanUp, LosesHead, Notice, Ask, Retry, Accept,
     Reject, Expire, OpenStore, Serve, NoStore, Build, Meet, StartScheduler, Join, HeadExits, Safe
<1>2. QED
  BY <1>1, FaultAssumption DEF Fault, Safe

LEMMA EngineSafe ==
  ASSUME FleetInv, EngineSteps(Engine)
  PROVE  FleetInv'
<1>1. EngineInv'
  BY ProcessSafe, RankSafe, GroupSafe DEF FleetInv, EngineSteps, Engine
<1>2. DogInv'
  BY EngineBoxes DEF FleetInv, EngineInv, SupervisorType, EngineSteps, watch
<1>3. SupervisorType'
  BY EngineFaults DEF FleetInv, SupervisorType, EngineSteps, watch, sessions
<1>4. QED
  BY <1>1, <1>2, <1>3 DEF FleetInv

-----------------------------------------------------------------------------
(* The supervisors.                                                        *)

LEMMA RemovedBoxes ==
  ASSUME EngineType, NEW r \in Ranks, Removed(r)
  PROVE  /\ box'[r] = "none"
         /\ \A q \in Ranks : box'[q] = box[q] \/ box'[q] = "none"
         /\ \A q \in Ranks : joined'[q] = joined[q] \/ joined'[q] \in {"none", "gone"}
BY Names DEF Removed, HeadLost, EngineType

LEMMA LaunchedBoxes ==
  ASSUME EngineType, NEW r \in Ranks, NEW c, Launched(r, c)
  PROVE  /\ box'[r] = "fresh" /\ joined'[r] = "none"
         /\ \A q \in Ranks : q # r => box'[q] = box[q]
         /\ \A q \in Ranks : joined'[q] = joined[q] \/ joined'[q] \in {"none", "gone"}
BY Names DEF Launched, HeadLost, EngineType

LEMMA FaultType ==
  ASSUME faults \in 0..MaxFaults, Fault \/ Safe
  PROVE  faults' \in 0..MaxFaults
BY FaultAssumption DEF Fault, Safe

LEMMA EngineSame ==
  ASSUME EngineInv, UNCHANGED <<box, at, joined, profile, heard, config>>
  PROVE  EngineInv'
BY DEF EngineInv, EngineType, OneLaunch, AnswersKept, AnswersTrue, HeadsAnswer, AcceptedAgree,
   Told, Past, Accepted, Runs

LEMMA TurnType ==
  /\ N-1 \in Ranks /\ Head \in Ranks
  /\ \A r \in Ranks : r # Head => r-1 \in Ranks
  /\ \A r \in Ranks : r < N-1 => r+1 \in Ranks
BY RankAssumption DEF Ranks, Head

LEMMA ProbeFailsSafe ==
  ASSUME FleetInv, ProbeFails, UNCHANGED sessions
  PROVE  FleetInv'
<1> USE Names, TurnType DEF FleetInv, ProbeFails, TimedOut
<1>1. faults' \in 0..MaxFaults
  BY FaultType DEF SupervisorType
<1>2. CASE Enough(fails)
  <2>1. /\ \A r \in Ranks : box'[r] = IF box[r] = "fresh" THEN "stale" ELSE box[r]
        /\ \A r \in Ranks : joined'[r] = IF joined[r] = "fresh" THEN "stale" ELSE joined[r]
    BY <1>2 DEF Older
  <2>2. EngineType'
    <3>1. box' \in [Ranks -> Boxes] /\ joined' \in [Ranks -> Heads]
      BY <1>2 DEF Older, EngineInv, EngineType, Boxes, Heads
    <3>2. QED
      BY <2>1, <3>1 DEF EngineInv, EngineType, Runs
  <2>3. EngineInv'
    BY <2>2 DEF EngineInv, OneLaunch, AnswersKept, AnswersTrue, HeadsAnswer, AcceptedAgree,
       Told, Past, Accepted
  <2>4. DogInv'
    BY <1>2, <2>1 DEF DogInv, NoStaleJoin, Watched
  <2>5. dog' \in Dogs /\ turn' \in Ranks /\ fails' \in 0..FAIL_THRESHOLD-1
    BY <1>2, ThresholdAssumption DEF Dogs
  <2>6. SupervisorType'
    BY <1>1, <1>2, <2>5 DEF SupervisorType, sessions
  <2>7. QED
    BY <2>3, <2>4, <2>6
<1>3. CASE ~Enough(fails)
  <2>1. EngineInv'
    BY <1>3, EngineSame
  <2>2. DogInv'
    BY <1>3 DEF DogInv, NoStaleJoin, Watched
  <2>3. fails' \in 0..FAIL_THRESHOLD-1
    BY <1>3, ThresholdAssumption DEF Enough, SupervisorType
  <2>4. SupervisorType'
    BY <1>1, <1>3, <2>3 DEF SupervisorType, sessions
  <2>5. QED
    BY <2>1, <2>2, <2>4
<1>4. QED
  BY <1>2, <1>3

LEMMA TeardownSafe ==
  ASSUME FleetInv, Teardown, UNCHANGED sessions
  PROVE  FleetInv'
<1> USE Names, TurnType DEF FleetInv, Teardown
<1>0. turn \in Ranks /\ EngineType
  BY DEF SupervisorType, EngineInv
<1>1. EngineInv'
  BY <1>0, RemovedSafe, EngineSame DEF Untouched
<1>2. /\ \A q \in Ranks : box'[q] = box[q] \/ box'[q] = "none"
      /\ turn = Head /\ ~headLeft' => box'[Head] = "none"
  BY <1>0, RemovedBoxes DEF Untouched
<1>3. DogInv'
  <2>1. \A q \in Ranks : box'[q] # "fresh"
    BY <1>2 DEF DogInv
  <2>2. QED
    BY <1>2, <2>1 DEF DogInv, NoStaleJoin, Watched, TornDown
<1>4. SupervisorType'
  BY FaultType DEF SupervisorType, TornDown, Dogs, sessions
<1>5. QED
  BY <1>1, <1>3, <1>4

LEMMA LaunchSafe ==
  ASSUME FleetInv, Launch, UNCHANGED sessions
  PROVE  FleetInv'
<1> USE Names, TurnType DEF FleetInv, Launch
<1>0. turn \in Ranks /\ EngineType
  BY DEF SupervisorType, EngineInv
<1>1. EngineInv'
  BY <1>0, LaunchedSafe, RemovedSafe, EngineSame DEF Untouched
<1>2. DogInv'
  <2>1. dog' \in {"launch", "wait"}
    OBVIOUS
  <2>2. CASE Launched(turn, Plain)
    BY <1>0, <2>1, <2>2, LaunchedBoxes DEF DogInv, NoStaleJoin, Watched
  <2>3. CASE Removed(turn)
    BY <1>0, <2>1, <2>3, RemovedBoxes DEF DogInv, NoStaleJoin, Watched
  <2>4. CASE Untouched
    BY <2>1, <2>4 DEF Untouched, DogInv, NoStaleJoin, Watched
  <2>5. QED
    BY <2>2, <2>3, <2>4
<1>3. SupervisorType'
  BY FaultType DEF SupervisorType, LaunchedAll, Dogs, sessions
<1>4. QED
  BY <1>1, <1>2, <1>3

LEMMA WatchdogSafe ==
  ASSUME FleetInv, Dog, UNCHANGED sessions
  PROVE  FleetInv'
<1>1. CASE ProbeOk \/ WaitEnds \/ GiveUp
  <2>1. EngineInv'
    BY <1>1, EngineSame DEF ProbeOk, WaitEnds, GiveUp, FleetInv, vars
  <2>2. DogInv'
    BY <1>1 DEF ProbeOk, WaitEnds, GiveUp, FleetInv, vars, DogInv, NoStaleJoin, Watched
  <2>3. SupervisorType'
    <3>1. faults' \in 0..MaxFaults
      BY <1>1, FaultType DEF ProbeOk, WaitEnds, GiveUp, FleetInv, vars, SupervisorType, Patience
    <3>2. QED
      BY <1>1, <3>1, ThresholdAssumption DEF ProbeOk, WaitEnds, GiveUp, FleetInv,
         SupervisorType, Dogs, sessions
  <2>4. QED
    BY <2>1, <2>2, <2>3 DEF FleetInv
<1>2. QED
  BY <1>1, ProbeFailsSafe, TeardownSafe, LaunchSafe DEF Dog

LEMMA UnwatchedBoxes ==
  ASSUME DogInv, ~Watched, UNCHANGED watch,
         \A r \in Ranks : box'[r] # "stale",
         \A r \in Ranks : joined'[r] = joined[r] \/ joined'[r] \in {"none", "gone"},
         \A r \in Ranks : box'[r] = "fresh" => box[r] = "fresh" \/ joined'[r] = "none"
  PROVE  DogInv'
BY DEF DogInv, NoStaleJoin, Watched, watch

LEMMA SessionTypes ==
  ASSUME SupervisorType, NEW s \in Sessions,
         step' = step \/ \E to \in Steps, q \in Ranks : Goes(s, to, q),
         rank' = rank \/ \E to \in Steps, q \in Ranks : Goes(s, to, q),
         fine' = fine \/ \E b \in BOOLEAN : fine' = [fine EXCEPT ![s] = b],
         env' = env \/ \E c \in Configurations : env' = [env EXCEPT ![s] = c],
         faults' \in 0..MaxFaults, UNCHANGED watch
  PROVE  SupervisorType'
<1>1. step' \in [Sessions -> Steps] /\ rank' \in [Sessions -> Ranks]
  BY DEF SupervisorType, Goes
<1>2. fine' \in [Sessions -> BOOLEAN]
  BY DEF SupervisorType
<1>3. env' \in [Sessions -> Configurations]
  BY DEF SupervisorType
<1>4. QED
  BY <1>1, <1>2, <1>3 DEF SupervisorType, watch

LEMMA EndsTypes ==
  ASSUME NEW s \in Sessions, NEW how \in Steps, Ends(s, how)
  PROVE  /\ \E to \in Steps, q \in Ranks : Goes(s, to, q)
         /\ \E b \in BOOLEAN : fine' = [fine EXCEPT ![s] = b]
         /\ \E c \in Configurations : env' = [env EXCEPT ![s] = c]
BY Names DEF Ends

LEMMA SessionEngine ==
  ASSUME FleetInv, ~Watched, UNCHANGED watch, NEW s \in Sessions, Session(s)
  PROVE  EngineInv' /\ DogInv'
<1> USE Names DEF FleetInv
<1>0. rank[s] \in Ranks /\ env[s] \in Configurations /\ EngineType
  BY DEF SupervisorType, EngineInv
<1>1. CASE UNCHANGED <<box, at, joined, profile, heard, config>>
  BY <1>1, EngineSame, UnwatchedBoxes DEF DogInv
<1>2. CASE Stop(s)
  <2>1. CASE Removed(rank[s])
    <3>1. EngineInv'
      BY <1>0, <1>2, <2>1, RemovedSafe DEF Stop
    <3>2. DogInv'
      BY <1>0, <2>1, RemovedBoxes, UnwatchedBoxes DEF DogInv
    <3>3. QED
      BY <3>1, <3>2
  <2>2. CASE Untouched
    BY <1>1, <1>2, <2>2 DEF Stop, Untouched
  <2>3. QED
    BY <1>2, <2>1, <2>2 DEF Stop
<1>3. CASE LaunchRank(s)
  <2>1. EngineInv'
    BY <1>0, <1>3, LaunchedSafe DEF LaunchRank
  <2>2. DogInv'
    BY <1>0, <1>3, LaunchedBoxes, UnwatchedBoxes DEF LaunchRank, DogInv
  <2>3. QED
    BY <2>1, <2>2
<1>4. QED
  BY <1>1, <1>2, <1>3 DEF Session, BeginDown, BeginUp, Preflight, Inspects, LaunchFails, Came,
     NeverCame, Listens, Silent, vars

LEMMA SessionSafe ==
  ASSUME FleetInv, ~Watched, UNCHANGED watch, NEW s \in Sessions, Session(s)
  PROVE  FleetInv'
<1> USE Names, TurnType DEF Steps
<1>0. /\ SupervisorType /\ rank[s] \in Ranks /\ step[s] \in Steps /\ fine[s] \in BOOLEAN
      /\ config \in Configurations
  BY DEF FleetInv, SupervisorType, EngineInv, EngineType
<1>1. faults' \in 0..MaxFaults
  BY <1>0, FaultType DEF Session, BeginDown, BeginUp, Begins, Preflight, Inspects, Stop,
     LaunchRank, LaunchFails, Came, NeverCame, Patience, Listens, Silent, vars, SupervisorType, Safe
<1>2. SupervisorType'
  <2>1. CASE BeginDown(s) \/ BeginUp(s)
    BY <1>0, <1>1, <2>1, SessionTypes DEF BeginDown, BeginUp, Reads
  <2>2. CASE Preflight(s)
    <3>1. CASE rank[s] < N-1
      <4>1. PICK good \in BOOLEAN : fine' = [fine EXCEPT ![s] = fine[s] /\ good]
        BY <2>2, <3>1 DEF Preflight
      <4>2. \E b \in BOOLEAN : fine' = [fine EXCEPT ![s] = b]
        BY <1>0, <4>1
      <4>3. QED
        BY <1>0, <1>1, <2>2, <3>1, <4>2, SessionTypes DEF Preflight
    <3>2. CASE ~(rank[s] < N-1)
      BY <1>0, <1>1, <2>2, <3>2, SessionTypes, EndsTypes DEF Preflight, GoesOn
    <3>3. QED
      BY <3>1, <3>2
  <2>3. CASE Stop(s)
    BY <1>0, <1>1, <2>3, SessionTypes, EndsTypes DEF Stop, GoesOn
  <2>4. CASE LaunchRank(s)
    BY <1>0, <1>1, <2>4, SessionTypes DEF LaunchRank, GoesOn
  <2>5. CASE LaunchFails(s) \/ NeverCame(s) \/ Silent(s)
    BY <1>0, <1>1, <2>5, SessionTypes, EndsTypes DEF LaunchFails, NeverCame, Silent
  <2>6. CASE Came(s) \/ Listens(s)
    BY <1>0, <1>1, <2>6, SessionTypes, EndsTypes DEF Came, Listens, GoesOn
  <2>7. QED
    BY <2>1, <2>2, <2>3, <2>4, <2>5, <2>6 DEF Session
<1>3. QED
  BY <1>2, SessionEngine DEF FleetInv

LEMMA ReconfigureSafe ==
  ASSUME FleetInv, Reconfigure, UNCHANGED <<watch, sessions>>
  PROVE  FleetInv'
<1>1. EngineInv'
  BY DEF FleetInv, Reconfigure, EngineInv, EngineType, OneLaunch, AnswersKept, AnswersTrue,
     HeadsAnswer, AcceptedAgree, Told, Past, Accepted, Runs
<1>2. DogInv'
  BY DEF FleetInv, Reconfigure, watch, DogInv, NoStaleJoin, Watched
<1>3. SupervisorType'
  BY FaultType DEF FleetInv, Reconfigure, watch, sessions, SupervisorType
<1>4. QED
  BY <1>1, <1>2, <1>3 DEF FleetInv

LEMMA FleetStep == FleetInv /\ [Next]_all => FleetInv'
<1> SUFFICES ASSUME FleetInv, [Next]_all PROVE FleetInv'
  OBVIOUS
<1>1. CASE UNCHANGED all
  <2>1. UNCHANGED <<box, at, joined, profile, heard, config>> /\ UNCHANGED faults
        /\ UNCHANGED watch /\ UNCHANGED sessions
    BY <1>1 DEF all, vars
  <2>2. EngineInv'
    BY <2>1, EngineSame DEF FleetInv
  <2>3. DogInv' /\ SupervisorType'
    BY <2>1 DEF FleetInv, watch, sessions, DogInv, NoStaleJoin, Watched, SupervisorType
  <2>4. QED
    BY <2>2, <2>3 DEF FleetInv
<1>2. CASE Next
  BY <1>2, EngineSafe, WatchdogSafe, SessionSafe, ReconfigureSafe DEF Next, sessions
<1>3. QED
  BY <1>1, <1>2

-----------------------------------------------------------------------------
(* The inductive invariant, through faults, relaunches by the watchdog and *)
(* sessions of the launcher that run at once.                              *)
THEOREM FleetSafe == Spec => []FleetInv
<1>1. QED
  BY InitSafe, FleetStep, PTL DEF Spec

(* Every variable keeps its type; no process without its container.        *)
THEOREM FleetTypeCorrect == Spec => []TypeOK
<1>1. FleetInv => TypeOK
  BY DEF FleetInv, EngineInv, EngineType, SupervisorType, TypeOK, Boxes, Stages, Heads, Dogs, Steps
<1>2. QED
  BY <1>1, FleetSafe, PTL

(* The census admits one configuration, whoever launched which rank when.  *)
THEOREM CensusAgrees == Spec => []OneConfiguration
<1>1. FleetInv => OneConfiguration
  BY DEF FleetInv, EngineInv, AcceptedAgree, Accepted, Past, OneConfiguration
<1>2. QED
  BY <1>1, FleetSafe, PTL

(* The order of teardown and launch keeps new workers from the old head,   *)
(* in every round in which docker removed that head.                       *)
THEOREM WorkersJoinTheNewHead == Spec => []NoStaleJoin
<1>1. FleetInv => NoStaleJoin
  BY DEF FleetInv, DogInv
<1>2. QED
  BY <1>1, FleetSafe, PTL
=============================================================================
