------------------------- MODULE CoordinatorProofs --------------------------
(***************************************************************************)
(* Leases, credits and completed stores of Coordinator for every set of    *)
(* ranks, threads, attempts and keys, every lease time and margin, every   *)
(* length of the replay log, and calls that are lost or executed late.     *)
(***************************************************************************)
EXTENDS Coordinator, FiniteSetTheorems, SequenceTheorems, TLAPS

-----------------------------------------------------------------------------
(* The inductive invariant.                                                *)

Issued == {"ticket", "retiring", "dropped"}   \* all ranks granted a lease once

Pcs == {"idle", "admit", "fanout", "rollback", "vouch", "renew", "renewed", "recheck",
        "retire", "release", "veto", "invalidate", "exists"}
Job == [op : Methods \cup {"none"}, pc : Pcs,
        id : Identities \cup {None}, att : Attempts \cup {None}, key : Keys \cup {None},
        todo : SUBSET Ranks, ok : BOOLEAN, win : 0..Window,
        cmd : Commands \cup {None, Stop}, drop : BOOLEAN, proved : BOOLEAN]
Stores == [obj  : [Objects -> {"none", "W", "C", "T"}],
           hold : [Attempts -> Objects \cup {None}],
           left : [Attempts -> 0..Ttl]]

(* TypeOK by parts; the replay log is a sequence of commands. *)
BooksTyped ==
  /\ ask \in [Attempts -> Identities \cup {None}]
  /\ stage \in [Attempts -> {"new", "asked", "ticket", "retiring", "dropped", "failed"}]
  /\ leases \in [Attempts -> SUBSET Ranks]
  /\ identities \in [Identities -> Attempts \cup {None}]
  /\ valid \in [Attempts -> 0..Window]
  /\ pending \subseteq Identities
  /\ bytes \in Int
VetoesTyped ==
  /\ invalid \subseteq Keys /\ invalidateAcked \subseteq Keys /\ condemned \subseteq Ranks \X Objects
LogTyped ==
  /\ retry \in Seq(Commands) /\ Queued \subseteq Commands /\ Len(retry) <= RetryMax
  /\ cleanupLost \in BOOLEAN /\ closed \in BOOLEAN
Typed ==
  /\ use \in Uses /\ BooksTyped /\ VetoesTyped /\ LogTyped
  /\ job \in [Threads -> Job]
  /\ rank \in [Ranks -> Stores] /\ wire \subseteq Commands

(* Who is where, and about what. *)
JobOK(t) ==
  /\ job[t].pc \in {"admit", "fanout", "rollback", "recheck"} => t = Scheduler /\ job[t].op = "reserve"
  /\ job[t].pc \in {"vouch", "renew", "renewed"} => \/ t = Scheduler /\ job[t].op = "reserve"
                                                    \/ job[t].op = "renew"
  /\ job[t].pc \in {"veto", "invalidate"} => job[t].op \in {"invalidate", "complete"}
  /\ job[t].pc = "exists" => job[t].op = "complete"
  /\ job[t].pc # "idle" => job[t].key \in Keys
  /\ job[t].op = "reserve" => job[t].id \in Identities /\ job[t].key = job[t].id.key
  /\ job[t].pc \in {"fanout", "rollback"} => job[t].att \in Attempts /\ stage[job[t].att] = "asked"
  /\ job[t].pc = "fanout" => leases[job[t].att] \cap job[t].todo = {}
  /\ \/ job[t].pc \in {"vouch", "renew", "renewed", "recheck", "retire", "release"}
     \/ job[t].op = "complete"
     => job[t].att \in Attempts /\ stage[job[t].att] \in Issued
  /\ job[t].pc \in {"fanout", "rollback"} \/ job[t].op = "complete" => ask[job[t].att].key = job[t].key
  /\ job[t].pc = "release" => stage[job[t].att] \in {"retiring", "dropped"}
  /\ job[t].cmd \in Commands => Draining(t) /\ job[t].cmd.kind \in {"release", "invalidate"}
Jobs == \A t \in Threads : JobOK(t)

(* Only an attempt that asked to write has an object. *)
Asked == \A a \in Attempts :
  /\ stage[a] = "new" => leases[a] = {}
  /\ stage[a] # "new" => ask[a] \in Identities
  /\ \A r \in Ranks : rank[r].obj[a] # "none" => stage[a] # "new" /\ ask[a].writing

(* A release that may yet be executed is of no ticket, nor of a fan-out;   *)
(* a late reservation is of an attempt that cannot become a ticket.        *)
Replayed == Queued \cup {job[t].cmd : t \in Threads}
Sent ==
  /\ \A c \in Queued : c.kind \in {"release", "invalidate"}
  /\ \A c \in wire \cup Replayed : c \in Commands /\ c.kind = "release" =>
       /\ stage[c.arg] \notin {"new", "ticket"}
       /\ \A t \in Threads : ~(job[t].pc = "fanout" /\ job[t].att = c.arg)
  /\ \A c \in wire : c.kind = "reserve" =>
       /\ stage[c.arg] \in {"asked", "failed"}
       /\ c.rank \notin leases[c.arg]
       /\ \A t \in Threads : job[t].pc = "fanout" /\ job[t].att = c.arg =>
                               ~job[t].ok /\ c.rank \notin job[t].todo

(* A window that is open closes before the lease it was anchored in.       *)
Backed(r, a, n) == n > 0 => rank[r].left[a] > n /\ (~ask[a].writing => rank[r].hold[a] # None)
WindowBy(t) ==
  job[t].ok /\ job[t].pc \in {"fanout", "renew"} /\ stage[job[t].att] \in {"asked", "ticket"}
    => \A r \in Ranks \ job[t].todo : Backed(r, job[t].att, job[t].win)
Windows ==
  /\ \A a \in Attempts : stage[a] = "ticket" => \A r \in Ranks : Backed(r, a, valid[a])
  /\ \A t \in Threads : WindowBy(t)

(* Every rank that answered a release has let go. *)
LetGoBy(t) ==
  job[t].pc = "release" /\ job[t].ok => \A r \in Ranks \ job[t].todo : ~Holds(r, job[t].att)
LetGo ==
  /\ \A t \in Threads : LetGoBy(t)
  /\ \A a \in Attempts : stage[a] = "dropped" => \A r \in Ranks : ~Holds(r, a)

(* What a failed reservation still has is going to be released.            *)
Owing(r, a) == Holds(r, a) => closed \/ Call("release", r, a) \in Replayed
OwedBy(t) ==
  job[t].pc = "rollback" => \A r \in leases[job[t].att] \ job[t].todo : Owing(r, job[t].att)
Owed ==
  /\ \A t \in Threads : OwedBy(t)
  /\ \A a \in Attempts : stage[a] = "failed" => \A r \in leases[a] : Owing(r, a)

LeaseInv == Typed /\ Jobs /\ Asked /\ Sent /\ Windows /\ LetGo /\ Owed

-----------------------------------------------------------------------------
(* What a call does to a rank.                                             *)

LEMMA Bounds ==
  /\ Ttl \in Nat /\ Margin \in Nat /\ Window \in Nat /\ 0 < Window /\ Window < Ttl
  /\ RetryMax \in Nat \ {0} /\ MaxKeys \in Nat /\ MaxBytes \in Nat
BY BoundAssumption DEF Window

LEMMA GrantedFacts ==
  ASSUME NEW R \in Stores, NEW a \in Attempts, Grantable(R, a)
  PROVE  /\ Granted(R, a) \in Stores
         /\ Granted(R, a).left[a] = Ttl
         /\ ~ask[a].writing => Granted(R, a).hold[a] # None /\ Granted(R, a).obj[a] = R.obj[a]
         /\ \A b \in Attempts \ {a} : /\ Granted(R, a).obj[b] = R.obj[b]
                                      /\ Granted(R, a).hold[b] = R.hold[b]
                                      /\ Granted(R, a).left[b] = R.left[b]
<1> DEFINE o == CHOOSE o \in Of(R, ask[a].key, {"C"}) : TRUE
<1>1. a \in Objects /\ None \notin Objects
  BY NoneAssumption DEF Objects
<1>2. ~ask[a].writing => o \in Objects
  BY DEF Grantable, Of
<1>3. Granted(R, a) = [R EXCEPT !.left = [R.left EXCEPT ![a] = Ttl],
                                !.obj = [R.obj EXCEPT ![a] = IF ask[a].writing THEN "W" ELSE R.obj[a]],
                                !.hold = [R.hold EXCEPT ![a] = IF ask[a].writing THEN None ELSE o]]
  BY DEF Granted, Stores
<1> HIDE DEF o
<1>4. /\ Granted(R, a).left = [R.left EXCEPT ![a] = Ttl]
      /\ Granted(R, a).obj = [R.obj EXCEPT ![a] = IF ask[a].writing THEN "W" ELSE R.obj[a]]
      /\ Granted(R, a).hold = [R.hold EXCEPT ![a] = IF ask[a].writing THEN None ELSE o]
  BY <1>3 DEF Stores
<1>5. /\ R.obj \in [Objects -> {"none", "W", "C", "T"}]
      /\ R.hold \in [Attempts -> Objects \cup {None}]
      /\ R.left \in [Attempts -> 0..Ttl]
  BY DEF Stores
<1>6. Granted(R, a) \in Stores
  <2>1. Ttl \in 0..Ttl
    BY Bounds
  <2>2. /\ [R.left EXCEPT ![a] = Ttl] \in [Attempts -> 0..Ttl]
        /\ [R.obj EXCEPT ![a] = IF ask[a].writing THEN "W" ELSE R.obj[a]]
             \in [Objects -> {"none", "W", "C", "T"}]
        /\ [R.hold EXCEPT ![a] = IF ask[a].writing THEN None ELSE o]
             \in [Attempts -> Objects \cup {None}]
    BY <1>1, <1>2, <1>5, <2>1
  <2>3. QED
    BY <1>3, <2>2 DEF Stores
<1>7. QED
  BY <1>1, <1>2, <1>4, <1>5, <1>6

LEMMA RenewedFacts ==
  ASSUME NEW R \in Stores, NEW a \in Attempts
  PROVE  /\ Renewed(R, a) \in Stores
         /\ Renewed(R, a).obj = R.obj /\ Renewed(R, a).hold = R.hold
         /\ Alive(R, a) => Renewed(R, a).left[a] = Ttl
         /\ \A b \in Attempts : Renewed(R, a).left[b] >= R.left[b]
BY Bounds DEF Renewed, Stores

LEMMA ReleasedFacts ==
  ASSUME NEW R \in Stores, NEW a \in Attempts
  PROVE  /\ Released(R, a) \in Stores
         /\ Released(R, a).hold[a] = None /\ Released(R, a).obj[a] # "W"
         /\ Released(R, a).obj[a] = "none" <=> R.obj[a] = "none"
         /\ \A b \in Attempts \ {a} : /\ Released(R, a).obj[b] = R.obj[b]
                                      /\ Released(R, a).hold[b] = R.hold[b]
                                      /\ Released(R, a).left[b] = R.left[b]
<1>1. a \in Objects
  BY DEF Objects
<1>2. /\ R.obj \in [Objects -> {"none", "W", "C", "T"}]
      /\ R.hold \in [Attempts -> Objects \cup {None}]
      /\ R.left \in [Attempts -> 0..Ttl]
  BY DEF Stores
<1>3. Released(R, a) = [R EXCEPT !.left = [R.left EXCEPT ![a] = 0],
                                 !.hold = [R.hold EXCEPT ![a] = None],
                                 !.obj = [R.obj EXCEPT ![a] = IF R.obj[a] = "W" THEN "T" ELSE R.obj[a]]]
  BY DEF Released, Stores
<1>4. /\ Released(R, a).left = [R.left EXCEPT ![a] = 0]
      /\ Released(R, a).hold = [R.hold EXCEPT ![a] = None]
      /\ Released(R, a).obj = [R.obj EXCEPT ![a] = IF R.obj[a] = "W" THEN "T" ELSE R.obj[a]]
  BY <1>3 DEF Stores
<1>5. Released(R, a) \in Stores
  <2>1. 0 \in 0..Ttl
    BY Bounds
  <2>2. /\ [R.left EXCEPT ![a] = 0] \in [Attempts -> 0..Ttl]
        /\ [R.hold EXCEPT ![a] = None] \in [Attempts -> Objects \cup {None}]
        /\ [R.obj EXCEPT ![a] = IF R.obj[a] = "W" THEN "T" ELSE R.obj[a]]
             \in [Objects -> {"none", "W", "C", "T"}]
    BY <1>1, <1>2, <2>1
  <2>3. QED
    BY <1>3, <2>2 DEF Stores
<1>6. QED
  BY <1>1, <1>2, <1>4, <1>5

LEMMA InvalidatedFacts ==
  ASSUME NEW R \in Stores, NEW k
  PROVE  /\ Invalidated(R, k) \in Stores
         /\ Invalidated(R, k).hold = R.hold /\ Invalidated(R, k).left = R.left
         /\ \A o \in Objects : \/ Invalidated(R, k).obj[o] = R.obj[o]
                               \/ R.obj[o] \in {"W", "C"} /\ Invalidated(R, k).obj[o] = "T"
BY DEF Invalidated, Stores, Of

Spared(r, a) == rank'[r].left[a] >= rank[r].left[a] /\ rank'[r].hold[a] = rank[r].hold[a]
Undisturbed(r, a) == /\ rank'[r].obj[a] = "none" <=> rank[r].obj[a] = "none"
                     /\ Holds(r, a)' => Holds(r, a)

(* A rank executes a call: nobody's lease is touched but the one it names. *)
LEMMA AfterFacts ==
  ASSUME rank \in [Ranks -> Stores], NEW c \in Commands, rank' = After(c),
         c.kind = "reserve" => Grantable(rank[c.rank], c.arg)
  PROVE  /\ rank' \in [Ranks -> Stores]
         /\ \A r \in Ranks, a \in Attempts :
              /\ c # Call("reserve", r, a) => Undisturbed(r, a)
              /\ c \notin {Call("reserve", r, a), Call("release", r, a)} => Spared(r, a)
              /\ c = Call("release", r, a) => ~Holds(r, a)'
              /\ c = Call("renew", r, a) /\ Alive(rank[r], a) => rank'[r].left[a] = Ttl
              /\ c = Call("reserve", r, a) =>
                   /\ rank'[r].left[a] = Ttl
                   /\ ~ask[a].writing => /\ rank'[r].hold[a] # None
                                         /\ rank'[r].obj[a] = rank[r].obj[a]
<1> DEFINE R == rank[c.rank]
           Q == CASE c.kind = "release"    -> Released(R, c.arg)
                  [] c.kind = "renew"      -> Renewed(R, c.arg)
                  [] c.kind = "invalidate" -> Invalidated(R, c.arg)
                  [] c.kind = "reserve"    -> Granted(R, c.arg)
<1>1. /\ c.rank \in Ranks /\ R \in Stores
      /\ c.kind \in {"release", "renew", "reserve"} => c.arg \in Attempts
      /\ c.kind \in {"release", "renew", "reserve", "invalidate"}
  BY DEF Commands
<1>2. rank' = [rank EXCEPT ![c.rank] = Q]
  BY DEF After
<1>3. Q \in Stores
  BY <1>1, GrantedFacts, RenewedFacts, ReleasedFacts, InvalidatedFacts
<1> HIDE DEF Q
<1>4. rank' \in [Ranks -> Stores] /\ rank'[c.rank] = Q /\ \A r \in Ranks \ {c.rank} : rank'[r] = rank[r]
  BY <1>1, <1>2, <1>3
<1>5. ASSUME NEW r \in Ranks, NEW a \in Attempts
      PROVE  /\ c # Call("reserve", r, a) => Undisturbed(r, a)
             /\ c \notin {Call("reserve", r, a), Call("release", r, a)} => Spared(r, a)
             /\ c = Call("release", r, a) => ~Holds(r, a)'
             /\ c = Call("renew", r, a) /\ Alive(rank[r], a) => rank'[r].left[a] = Ttl
             /\ c = Call("reserve", r, a) =>
                  /\ rank'[r].left[a] = Ttl
                  /\ ~ask[a].writing => /\ rank'[r].hold[a] # None
                                        /\ rank'[r].obj[a] = rank[r].obj[a]
  <2>0. a \in Objects /\ rank[r].left[a] \in Nat
    BY Bounds DEF Objects, Stores
  <2>1. CASE r # c.rank
    BY <1>1, <1>4, <2>0, <2>1 DEF Call, Undisturbed, Spared, Holds
  <2>2. CASE r = c.rank
    <3>0. /\ rank[r] = R /\ rank'[r] = Q
          /\ c.kind # "invalidate" => c = Call(c.kind, r, c.arg)
      BY <1>1, <1>4, <2>2 DEF Call, Commands
    <3>1. CASE c.kind = "release"
      <4>1. Q = Released(R, c.arg)
        BY <3>1 DEF Q
      <4>2. CASE a = c.arg
        <5>1. Q.hold[a] = None /\ Q.obj[a] # "W" /\ (Q.obj[a] = "none" <=> R.obj[a] = "none")
          BY <1>1, <4>1, <4>2, <3>1, ReleasedFacts
        <5>2. QED
          BY <5>1, <3>0, <3>1, <4>2 DEF Call, Undisturbed, Holds
      <4>3. CASE a # c.arg
        <5>1. Q.hold[a] = R.hold[a] /\ Q.obj[a] = R.obj[a] /\ Q.left[a] = R.left[a]
          BY <1>1, <4>1, <4>3, <3>1, ReleasedFacts
        <5>2. QED
          BY <5>1, <3>0, <3>1, <4>3, <2>0 DEF Call, Undisturbed, Holds, Spared
      <4>4. QED
        BY <4>2, <4>3
    <3>2. CASE c.kind = "renew"
      <4>1. Q = Renewed(R, c.arg)
        BY <3>2 DEF Q
      <4>2. /\ Q.obj = R.obj /\ Q.hold = R.hold /\ Q.left[a] >= R.left[a]
            /\ Alive(R, c.arg) => Q.left[c.arg] = Ttl
        BY <1>1, <4>1, <3>2, RenewedFacts
      <4>3. QED
        BY <4>2, <3>0, <3>2 DEF Call, Undisturbed, Holds, Spared
    <3>3. CASE c.kind = "invalidate"
      <4>1. Q = Invalidated(R, c.arg)
        BY <3>3 DEF Q
      <4>2. /\ Q.hold = R.hold /\ Q.left = R.left
            /\ Q.obj[a] = R.obj[a] \/ (R.obj[a] \in {"W", "C"} /\ Q.obj[a] = "T")
        BY <1>1, <4>1, <3>3, <2>0, InvalidatedFacts
      <4>3. QED
        BY <4>2, <3>0, <3>3, <2>0 DEF Call, Undisturbed, Holds, Spared
    <3>4. CASE c.kind = "reserve"
      <4>1. Q = Granted(R, c.arg) /\ Grantable(R, c.arg)
        BY <3>4 DEF Q
      <4>2. CASE a = c.arg
        <5>1. Q.left[a] = Ttl /\ (~ask[a].writing => Q.hold[a] # None /\ Q.obj[a] = R.obj[a])
          BY <1>1, <4>1, <4>2, <3>4, GrantedFacts
        <5>2. QED
          BY <5>1, <3>0, <3>4, <4>2 DEF Call
      <4>3. CASE a # c.arg
        <5>1. Q.hold[a] = R.hold[a] /\ Q.obj[a] = R.obj[a] /\ Q.left[a] = R.left[a]
          BY <1>1, <4>1, <4>3, <3>4, GrantedFacts
        <5>2. QED
          BY <5>1, <3>0, <3>4, <4>3, <2>0 DEF Call, Undisturbed, Holds, Spared
      <4>4. QED
        BY <4>2, <4>3
    <3>5. QED
      BY <1>1, <3>1, <3>2, <3>3, <3>4
  <2>3. QED
    BY <2>1, <2>2
<1>6. QED
  BY <1>4, <1>5

-----------------------------------------------------------------------------
(* What a step does to a thread and to the replay log.                     *)

LEMMA TypedIsTypeOK == Typed => TypeOK
BY DEF Typed, BooksTyped, VetoesTyped, LogTyped, TypeOK, Job, Pcs, Stores

LEMMA CommandFacts ==
  /\ None \notin Commands /\ Stop \notin Commands
  /\ \A r \in Ranks, a \in Attempts, kind \in {"release", "renew", "reserve"} :
       Call(kind, r, a) \in Commands
  /\ \A r \in Ranks, k \in Keys : Call("invalidate", r, k) \in Commands
BY NoneAssumption DEF Commands, Stop, Call

LEMMA CalledFacts ==
  ASSUME NEW t \in Threads, job[t] \in Job, NEW r \in Ranks, NEW ok \in BOOLEAN
  PROVE  LET j == Called(t, r, ok) IN
         /\ j \in Job
         /\ j.op = job[t].op /\ j.pc = job[t].pc /\ j.id = job[t].id /\ j.att = job[t].att
         /\ j.key = job[t].key /\ j.win = job[t].win /\ j.cmd = job[t].cmd
         /\ j.todo = job[t].todo \ {r} /\ j.ok = (job[t].ok /\ ok)
BY DEF Called, Job

LEMMA RangeFacts ==
  ASSUME NEW s \in Seq(Commands)
  PROVE  \A x : x \in Range(s) <=> \E i \in 1..Len(s) : x = s[i]
BY DEF Range

LEMMA TailFacts ==
  ASSUME NEW s \in Seq(Commands), s # <<>>
  PROVE  /\ Tail(s) \in Seq(Commands) /\ Len(Tail(s)) = Len(s) - 1
         /\ Head(s) \in Commands /\ Range(s) \subseteq Commands
         /\ Range(s) = {Head(s)} \cup Range(Tail(s))
<1> DEFINE q == Tail(s)
           n == Len(s)
<1>1. /\ q \in Seq(Commands) /\ Len(q) = n - 1 /\ Head(s) \in Commands
      /\ \A i \in 1..Len(q) : q[i] = s[i + 1]
      /\ Head(s) = s[1] /\ n \in Nat \ {0}
  BY HeadTailProperties
<1>2. /\ \A x : x \in Range(s) <=> \E i \in 1..n : x = s[i]
      /\ \A x : x \in Range(q) <=> \E i \in 1..Len(q) : x = q[i]
  BY <1>1, RangeFacts
<1> HIDE DEF q, n
<1>3. ASSUME NEW x PROVE x \in Range(s) <=> x = Head(s) \/ x \in Range(q)
  <2>1. ASSUME NEW i \in 1..n, x = s[i] PROVE x = Head(s) \/ x \in Range(q)
    <3>1. CASE i = 1
      BY <1>1, <2>1, <3>1
    <3>2. CASE i # 1
      <4>1. i - 1 \in 1..Len(q) /\ q[i - 1] = s[(i - 1) + 1] /\ (i - 1) + 1 = i
        BY <1>1, <3>2
      <4>2. QED
        BY <4>1, <2>1, <1>2
    <3>3. QED
      BY <3>1, <3>2
  <2>2. ASSUME NEW i \in 1..Len(q), x = q[i] PROVE x \in Range(s)
    <3>1. i + 1 \in 1..n /\ x = s[i + 1]
      BY <1>1, <2>2
    <3>2. QED
      BY <3>1, <1>2
  <2>3. x = Head(s) => x \in Range(s)
    <3>1. 1 \in 1..n
      BY <1>1
    <3>2. QED
      BY <3>1, <1>1, <1>2
  <2>4. QED
    BY <1>2, <2>1, <2>2, <2>3
<1>4. Range(s) = {Head(s)} \cup Range(q)
  BY <1>3
<1>5. Range(s) \subseteq Commands
  BY DEF Range
<1>6. QED
  BY <1>1, <1>4, <1>5 DEF q, n

(* What is not acknowledged is queued, or the coordinator is closed.       *)
LEMMA ReplayFacts ==
  ASSUME Typed, NEW c \in Commands, Replay(c)
  PROVE  /\ LogTyped'
         /\ closed => closed'
         /\ Queued' \subseteq Queued \cup {c}
         /\ closed' \/ Queued' = Queued \cup {c}
<1>1. /\ retry \in Seq(Commands) /\ Len(retry) <= RetryMax /\ RetryMax \in Nat \ {0}
      /\ cleanupLost \in BOOLEAN /\ closed \in BOOLEAN /\ Queued \subseteq Commands
  BY Bounds DEF Typed, LogTyped
<1>2. ASSUME Recorded PROVE closed' \in BOOLEAN /\ (closed => closed')
  BY <1>1, <1>2 DEF Recorded
<1>5. ASSUME NEW s \in Seq(Commands)
      PROVE  /\ Append(s, c) \in Seq(Commands) /\ Len(Append(s, c)) = Len(s) + 1
             /\ Range(Append(s, c)) = Range(s) \cup {c}
  <2>1. /\ Append(s, c) \in Seq(Commands) /\ Len(Append(s, c)) = Len(s) + 1 /\ Len(s) \in Nat
        /\ Append(s, c)[Len(s) + 1] = c
        /\ \A i \in 1..Len(s) : Append(s, c)[i] = s[i]
    OBVIOUS
  <2>2. /\ \A x : x \in Range(s) <=> \E i \in 1..Len(s) : x = s[i]
        /\ \A x : x \in Range(Append(s, c)) <=> \E i \in 1..Len(s) + 1 : x = Append(s, c)[i]
    <3> DEFINE q == Append(s, c)
    <3>1. q \in Seq(Commands) /\ Len(q) = Len(s) + 1
      BY <2>1
    <3> HIDE DEF q
    <3>2. \A x : x \in Range(q) <=> \E i \in 1..Len(q) : x = q[i]
      BY <3>1, RangeFacts
    <3>3. QED
      BY <3>1, <3>2, RangeFacts DEF q
  <2>3. \A i : i \in 1..Len(s) + 1 <=> i \in 1..Len(s) \/ i = Len(s) + 1
    BY <2>1
  <2>4. ASSUME NEW x PROVE x \in Range(Append(s, c)) <=> x \in Range(s) \/ x = c
    <3>1. ASSUME NEW i \in 1..Len(s), x = s[i] PROVE x \in Range(Append(s, c))
      BY <2>1, <2>2, <2>3, <3>1
    <3>2. x = c => x \in Range(Append(s, c))
      BY <2>1, <2>2, <2>3
    <3>3. ASSUME NEW i \in 1..Len(s) + 1, x = Append(s, c)[i] PROVE x \in Range(s) \/ x = c
      BY <2>1, <2>2, <2>3, <3>3
    <3>4. QED
      BY <2>2, <3>1, <3>2, <3>3
  <2>5. QED
    BY <2>1, <2>4
<1>6. CASE c \in Queued /\ UNCHANGED <<retry, cleanupLost>> /\ Recorded
  BY <1>1, <1>2, <1>6 DEF Queued, LogTyped
<1>7. CASE Len(retry) < RetryMax /\ retry' = Append(retry, c) /\ UNCHANGED cleanupLost /\ Recorded
  <2>1. Len(retry') <= RetryMax
    BY <1>1, <1>5, <1>7
  <2>2. Queued' = Queued \cup {c} /\ retry' \in Seq(Commands)
    BY <1>1, <1>5, <1>7 DEF Queued, LogTyped
  <2>3. QED
    BY <1>1, <1>2, <1>7, <2>1, <2>2 DEF LogTyped
<1>8. CASE Len(retry) = RetryMax /\ retry' = Append(Shifted, c) /\ cleanupLost' = TRUE /\ closed' = Overflowed
  <2>1. retry # <<>>
    BY <1>1, <1>8
  <2>2. /\ Tail(retry) \in Seq(Commands) /\ Len(Tail(retry)) = Len(retry) - 1
        /\ Range(Tail(retry)) \subseteq Queued
    BY <1>1, <2>1, TailFacts DEF Queued, LogTyped
  <2>3. /\ retry' \in Seq(Commands) /\ Len(retry') = Len(retry)
        /\ Range(retry') = Range(Tail(retry)) \cup {c}
    <3>1. retry' = Append(Tail(retry), c)
      BY <1>8 DEF Shifted
    <3>2. Len(retry) \in Nat /\ (Len(retry) - 1) + 1 = Len(retry)
      BY <1>1
    <3>3. QED
      BY <1>5, <2>2, <3>1, <3>2
  <2>4. Queued' = Range(Tail(retry)) \cup {c} /\ Len(retry') <= RetryMax
    BY <1>8, <1>1, <2>3 DEF Queued, LogTyped
  <2>5. closed' = TRUE
    BY <1>8 DEF Overflowed
  <2>6. QED
    BY <1>1, <1>8, <2>2, <2>3, <2>4, <2>5 DEF LogTyped
<1>9. QED
  BY <1>6, <1>7, <1>8 DEF Replay

-----------------------------------------------------------------------------
(* The steps of a thread that neither call a rank nor change the books.    *)

LEMMA JobOnly ==
  ASSUME LeaseInv, NEW t \in Threads, NEW j \in Job,
         job' = [job EXCEPT ![t] = j], use' = use,
         UNCHANGED <<bookkeeping, log, remote>>,
         closed' \in BOOLEAN, closed => closed',
         invalid' \subseteq Keys, invalidateAcked' \subseteq Keys, condemned' \subseteq Ranks \X Objects,
         JobOK(t)',
         job[t].cmd \notin Commands, j.cmd \notin Commands,
         j.pc \notin {"fanout", "release"},
         j.pc = "renew" => j.todo = Ranks,
         j.pc = "rollback" => j.todo = leases[j.att]
  PROVE  LeaseInv'
<1>1. /\ ask' = ask /\ stage' = stage /\ leases' = leases /\ identities' = identities
      /\ valid' = valid /\ pending' = pending /\ bytes' = bytes
      /\ retry' = retry /\ cleanupLost' = cleanupLost /\ Queued' = Queued
      /\ rank' = rank /\ wire' = wire
  BY DEF bookkeeping, log, remote, Queued
<1>2. job \in [Threads -> Job] /\ Typed /\ Jobs /\ Asked /\ Sent /\ Windows /\ LetGo /\ Owed
  BY DEF LeaseInv, Typed
<1>3. job' \in [Threads -> Job] /\ job'[t] = j /\ \A u \in Threads \ {t} : job'[u] = job[u]
  BY <1>2
<1>4. Typed'
  <2>1. BooksTyped' /\ VetoesTyped' /\ LogTyped'
    BY <1>1, <1>2 DEF Typed, BooksTyped, VetoesTyped, LogTyped
  <2>2. QED
    BY <1>1, <1>2, <1>3, <2>1 DEF Typed
<1>5. Jobs'
  <2>1. ASSUME NEW u \in Threads \ {t} PROVE JobOK(u)'
    BY <1>1, <1>2, <1>3 DEF Jobs, JobOK, Draining
  <2>2. QED
    BY <2>1 DEF Jobs
<1>6. Asked'
  BY <1>1, <1>2 DEF Asked
<1>7. /\ Replayed' \cap Commands \subseteq Replayed
      /\ Replayed \cap Commands \subseteq Replayed'
  BY <1>1, <1>3 DEF Replayed
<1>8. Sent'
  BY <1>1, <1>2, <1>3, <1>7 DEF Sent
<1>9. Windows'
  BY <1>1, <1>2, <1>3 DEF Windows, WindowBy, Backed
<1>10. LetGo'
  BY <1>1, <1>2, <1>3 DEF LetGo, LetGoBy, Holds
<1>11. ASSUME NEW r \in Ranks, NEW a \in Attempts, Owing(r, a) PROVE Owing(r, a)'
  BY <1>1, <1>7, <1>11, CommandFacts DEF Owing, Holds
<1>12. Owed'
  <2>1. \A a \in Attempts : leases[a] \subseteq Ranks
    BY <1>2 DEF Typed, BooksTyped
  <2>2. ASSUME NEW u \in Threads, job'[u].pc = "rollback"
        PROVE  \A r \in leases'[job'[u].att] \ job'[u].todo : Owing(r, job[u].att)' /\ job'[u] = job[u]
    <3>1. CASE u = t
      BY <2>2, <3>1, <1>1, <1>3
    <3>2. CASE u # t
      BY <2>1, <2>2, <3>2, <1>1, <1>2, <1>3, <1>11 DEF Owed, OwedBy, Jobs, JobOK
    <3>3. QED
      BY <3>1, <3>2
  <2>3. ASSUME NEW a \in Attempts, stage'[a] = "failed", NEW r \in leases'[a] PROVE Owing(r, a)'
    BY <1>1, <1>2, <1>11, <2>1, <2>3 DEF Owed
  <2>4. QED
    BY <2>2, <2>3 DEF Owed, OwedBy, Owing, Holds
<1>13. QED
  BY <1>4, <1>5, <1>6, <1>8, <1>9, <1>10, <1>12 DEF LeaseInv

LEMMA IdleFacts ==
  /\ Idle \in Job
  /\ Idle.op = "none" /\ Idle.pc = "idle" /\ Idle.id = None /\ Idle.att = None /\ Idle.key = None
  /\ Idle.todo = {} /\ Idle.ok = TRUE /\ Idle.win = 0 /\ Idle.cmd = None
BY Bounds DEF Job, Pcs, Idle, Methods

(* The job with which a method about a ticket starts.                      *)
Started(op, pc, a, k, todo) == [Idle EXCEPT !.op = op, !.pc = pc, !.att = a, !.key = k, !.todo = todo]

LEMMA StartFacts ==
  ASSUME NEW op \in Methods, NEW pc \in Pcs, NEW a \in Attempts, NEW k \in Keys, NEW todo \in SUBSET Ranks
  PROVE  LET j == Started(op, pc, a, k, todo) IN
         j \in Job /\ j.pc = pc /\ j.op = op /\ j.key = k /\ j.cmd = None /\ j.att = a
BY IdleFacts DEF Job, Started

LEMMA Begins ==
  ASSUME LeaseInv, NEW t \in Threads, Begin(t)
  PROVE  LeaseInv'
<1>1. /\ Typed /\ JobOK(t) /\ job \in [Threads -> Job] /\ closed \in BOOLEAN /\ Asked
      /\ ask \in [Attempts -> Identities \cup {None}]
      /\ identities \in [Identities -> Attempts \cup {None}]
      /\ invalid \subseteq Keys /\ invalidateAcked \subseteq Keys /\ condemned \subseteq Ranks \X Objects
  BY DEF LeaseInv, Jobs, Typed, LogTyped, BooksTyped, VetoesTyped
<1>2. ASSUME At(t, "idle"), NEW j \in Job, Goto(t, j), JobOK(t)', j.cmd = None,
             j.pc \notin {"fanout", "release", "renew", "rollback"},
             UNCHANGED <<bookkeeping, vetoes, log, closed, remote>>
      PROVE  LeaseInv'
  <2>1. job[t].cmd \notin Commands /\ j.cmd \notin Commands
    BY <1>1, <1>2, CommandFacts DEF At, JobOK, Draining
  <2>2. job' = [job EXCEPT ![t] = j] /\ use' = use
    BY <1>2 DEF Goto
  <2>3. QED
    BY <1>1, <1>2, <2>1, <2>2, JobOnly DEF vetoes
<1>3. ASSUME At(t, "idle"), NEW j \in Job, Goto(t, j),
             UNCHANGED <<bookkeeping, vetoes, log, closed, remote>>
      PROVE  job'[t] = j /\ stage' = stage /\ ask' = ask
  BY <1>1, <1>3 DEF Goto, bookkeeping
<1>4. \A a \in Attempts : stage[a] # "new" => ask[a] \in Identities
  BY <1>1 DEF Asked
<1>5. \A i \in Identities : i.key \in Keys
  BY IdentityAssumption
<1>6. ASSUME NEW i \in Identities, BeginReserve(t, i) PROVE LeaseInv'
  <2> DEFINE j == [Idle EXCEPT !.op = "reserve", !.id = i, !.key = i.key]
             j1 == [j EXCEPT !.pc = "admit"]
             j2 == [j EXCEPT !.pc = "vouch", !.att = identities[i]]
  <2>1. CASE identities[i] = None
    <3>1. /\ j1 \in Job /\ j1.pc = "admit" /\ j1.op = "reserve" /\ j1.id = i /\ j1.key = i.key /\ j1.cmd = None
      BY <1>5, IdleFacts DEF Job, Pcs, Methods
    <3>2. Goto(t, j1) /\ At(t, "idle") /\ t = Scheduler /\ UNCHANGED <<bookkeeping, vetoes, log, closed, remote>>
      BY <1>6, <2>1 DEF BeginReserve
    <3> HIDE DEF j1, j
    <3>3. JobOK(t)'
      BY <1>3, <1>5, <3>1, <3>2, CommandFacts DEF JobOK
    <3>4. QED
      BY <1>2, <3>1, <3>2, <3>3
  <2>2. CASE identities[i] # None
    <3>0. identities[i] \in Attempts
      BY <1>1, <2>2
    <3>1. /\ j2 \in Job /\ j2.pc = "vouch" /\ j2.op = "reserve" /\ j2.id = i /\ j2.key = i.key /\ j2.cmd = None
          /\ j2.att = identities[i]
      BY <1>5, <3>0, IdleFacts DEF Job, Pcs, Methods
    <3>2. /\ Goto(t, j2) /\ At(t, "idle") /\ t = Scheduler /\ UNCHANGED <<bookkeeping, vetoes, log, closed, remote>>
          /\ stage[identities[i]] = "ticket"
      BY <1>6, <2>2 DEF BeginReserve
    <3> HIDE DEF j2, j
    <3>3. JobOK(t)'
      BY <1>3, <1>5, <3>0, <3>1, <3>2, CommandFacts DEF JobOK, Issued
    <3>4. QED
      BY <1>2, <3>1, <3>2, <3>3
  <2>3. QED
    BY <2>1, <2>2
<1>7. ASSUME NEW k \in Keys, BeginInvalidate(t, k) PROVE LeaseInv'
  <2> DEFINE j == [Idle EXCEPT !.op = "invalidate", !.pc = "veto", !.key = k]
  <2>1. j \in Job /\ j.pc = "veto" /\ j.op = "invalidate" /\ j.key = k /\ j.cmd = None
    BY IdleFacts DEF Job, Pcs, Methods
  <2>2. Goto(t, j) /\ At(t, "idle") /\ UNCHANGED <<bookkeeping, vetoes, log, closed, remote>>
    BY <1>7 DEF BeginInvalidate, Worker, Busy
  <2> HIDE DEF j
  <2>3. JobOK(t)'
    BY <1>3, <2>1, <2>2, CommandFacts DEF JobOK
  <2>4. QED
    BY <1>2, <2>1, <2>2, <2>3
<1>8. ASSUME NEW a \in Tickets, NEW op \in {"renew", "release", "complete"},
             NEW pc \in {"vouch", "retire", "exists", "veto"}, NEW todo \in SUBSET Ranks,
             pc = "vouch" => op = "renew", pc \in {"exists", "veto"} => op = "complete",
             Goto(t, Started(op, pc, a, ask[a].key, todo)),
             At(t, "idle"), UNCHANGED <<bookkeeping, vetoes, log, closed, remote>>
      PROVE  LeaseInv'
  <2> DEFINE j == Started(op, pc, a, ask[a].key, todo)
  <2>1. a \in Attempts /\ stage[a] \in Issued /\ ask[a].key \in Keys
    BY <1>4, <1>5 DEF Tickets, Issued
  <2>2. j \in Job /\ j.pc = pc /\ j.op = op /\ j.key = ask[a].key /\ j.cmd = None /\ j.att = a
    BY <2>1, StartFacts DEF Pcs, Methods
  <2>3. Goto(t, j)
    BY <1>8
  <2> HIDE DEF j
  <2>4. JobOK(t)'
    BY <1>3, <1>8, <2>1, <2>2, <2>3, CommandFacts DEF JobOK
  <2>5. QED
    BY <1>2, <1>8, <2>2, <2>3, <2>4
<1>9. ASSUME NEW a \in Attempts, BeginRenew(t, a) PROVE LeaseInv'
  <2>1. a \in Tickets /\ ask[a].key \in Keys
    BY <1>4, <1>5, <1>9 DEF BeginRenew, Tickets
  <2>2. [Idle EXCEPT !.op = "renew", !.pc = "vouch", !.att = a, !.key = ask[a].key]
        = Started("renew", "vouch", a, ask[a].key, {})
    BY IdleFacts DEF Started, Job
  <2>3. Goto(t, Started("renew", "vouch", a, ask[a].key, {}))
    BY <1>9, <2>2 DEF BeginRenew
  <2>4. At(t, "idle") /\ UNCHANGED <<bookkeeping, vetoes, log, closed, remote>>
    BY <1>9 DEF BeginRenew, Worker, Busy
  <2>5. QED
    BY <1>8, <2>1, <2>3, <2>4
<1>10. ASSUME NEW a \in Attempts, BeginRelease(t, a) PROVE LeaseInv'
  <2>1. a \in Tickets /\ ask[a].key \in Keys
    BY <1>4, <1>5, <1>10 DEF BeginRelease, Tickets
  <2>2. [Idle EXCEPT !.op = "release", !.pc = "retire", !.att = a, !.key = ask[a].key]
        = Started("release", "retire", a, ask[a].key, {})
    BY IdleFacts DEF Started, Job
  <2>3. Goto(t, Started("release", "retire", a, ask[a].key, {}))
    BY <1>10, <2>2 DEF BeginRelease
  <2>4. At(t, "idle") /\ UNCHANGED <<bookkeeping, vetoes, log, closed, remote>>
    BY <1>10 DEF BeginRelease, Worker, Busy
  <2>5. QED
    BY <1>8, <2>1, <2>3, <2>4
<1>11. ASSUME NEW a \in Attempts, NEW success \in BOOLEAN, BeginComplete(t, a, success) PROVE LeaseInv'
  <2> DEFINE pc == IF success THEN "exists" ELSE "veto"
             todo == IF success THEN Ranks ELSE {}
  <2>1. a \in Tickets /\ ask[a].key \in Keys
    BY <1>4, <1>5, <1>11 DEF BeginComplete, Tickets
  <2>2. Goto(t, [Idle EXCEPT !.op = "complete", !.att = a, !.key = ask[a].key, !.pc = pc, !.todo = todo])
    BY <1>11 DEF BeginComplete
  <2>3. pc \in {"exists", "veto"} /\ todo \in SUBSET Ranks
    OBVIOUS
  <2> HIDE DEF pc, todo
  <2>4. [Idle EXCEPT !.op = "complete", !.att = a, !.key = ask[a].key, !.pc = pc, !.todo = todo]
        = Started("complete", pc, a, ask[a].key, todo)
    BY IdleFacts DEF Started, Job
  <2>5. Goto(t, Started("complete", pc, a, ask[a].key, todo))
    BY <2>2, <2>4
  <2>6. At(t, "idle") /\ UNCHANGED <<bookkeeping, vetoes, log, closed, remote>>
    BY <1>11 DEF BeginComplete, Worker, Busy
  <2>7. QED
    BY <1>8, <2>1, <2>3, <2>5, <2>6
<1>12. QED
  BY <1>6, <1>7, <1>9, <1>10, <1>11 DEF Begin

LEMMA WindowFacts == 0 \in 0..Window /\ Window \in 0..Window
BY Bounds

LEMMA ReturnedFacts ==
  ASSUME NEW t \in Threads, job[t] \in Job, NEW renewed \in BOOLEAN
  PROVE  LET j == Returned(t, renewed) IN
         /\ j \in Job /\ j.cmd = None
         /\ job[t].op = "renew" => j = Idle
         /\ job[t].op # "renew" => /\ j.pc = IF renewed THEN "recheck" ELSE "retire"
                                   /\ j.op = job[t].op /\ j.id = job[t].id /\ j.att = job[t].att
                                   /\ j.key = job[t].key
<1>1. CASE job[t].op = "renew"
  BY <1>1, IdleFacts DEF Returned
<1>2. CASE job[t].op # "renew"
  BY <1>2, WindowFacts DEF Returned, Job, Pcs
<1>3. QED
  BY <1>1, <1>2

LEMMA VetoedFacts ==
  ASSUME NEW t \in Threads, job[t] \in Job, NEW acked \in BOOLEAN
  PROVE  LET j == Vetoed(t, acked) IN
         /\ j \in Job /\ j.cmd = None
         /\ job[t].op = "invalidate" => j = Idle
         /\ job[t].op # "invalidate" => /\ j.pc = "retire" /\ j.op = job[t].op /\ j.id = job[t].id
                                        /\ j.att = job[t].att /\ j.key = job[t].key
<1>1. CASE job[t].op = "invalidate"
  BY <1>1, IdleFacts DEF Vetoed
<1>2. CASE job[t].op # "invalidate"
  BY <1>2 DEF Vetoed, Job, Pcs
<1>3. QED
  BY <1>1, <1>2

Inward(t) ==
  \/ Recheck(t) \/ Refuse(t) \/ Reject(t) \/ RenewNow(t) \/ RenewEnd(t) \/ ExistsEnd(t)
  \/ Veto(t) \/ InvalidateEnd(t) \/ \E r \in Ranks : ExistsRank(t, r)

LEMMA Inwards ==
  ASSUME LeaseInv, NEW t \in Threads, Inward(t)
  PROVE  LeaseInv'
<1>1. /\ Typed /\ JobOK(t) /\ job \in [Threads -> Job] /\ job[t] \in Job /\ closed \in BOOLEAN
      /\ leases \in [Attempts -> SUBSET Ranks]
      /\ invalid \subseteq Keys /\ invalidateAcked \subseteq Keys /\ condemned \subseteq Ranks \X Objects
  BY DEF LeaseInv, Jobs, Typed, LogTyped, BooksTyped, VetoesTyped
<1>2. ASSUME NEW j \in Job, Goto(t, j), JobOK(t)', j.cmd \notin Commands, job[t].cmd \notin Commands,
             j.pc \notin {"fanout", "release"},
             j.pc = "renew" => j.todo = Ranks,
             j.pc = "rollback" => j.todo = leases[j.att],
             UNCHANGED <<bookkeeping, vetoes, log, closed, remote>>
      PROVE  LeaseInv'
  <2>1. job' = [job EXCEPT ![t] = j] /\ use' = use
    BY <1>2 DEF Goto
  <2>2. QED
    BY <1>1, <1>2, <2>1, JobOnly DEF vetoes
<1>3. ASSUME NEW j \in Job, Goto(t, j), UNCHANGED bookkeeping
      PROVE  job'[t] = j /\ stage' = stage /\ ask' = ask
  BY <1>1, <1>3 DEF Goto, bookkeeping
<1>4. ASSUME NEW j, j = Idle, Goto(t, j), UNCHANGED bookkeeping
      PROVE  JobOK(t)' /\ j \in Job /\ j.pc = "idle" /\ j.cmd \notin Commands
  BY <1>3, <1>4, IdleFacts, CommandFacts DEF JobOK
<1>6. job[t].pc \notin {"rollback", "release", "invalidate", "renewed"} => job[t].cmd \notin Commands
  BY <1>1 DEF JobOK, Draining
<1>7. DrainOver(t) => job[t].cmd \notin Commands
  BY CommandFacts DEF DrainOver
<1>8. CASE Refuse(t)
  BY <1>2, <1>4, <1>6, <1>8 DEF Refuse, At
<1>9. CASE Recheck(t)
  <2>0. job[t].pc = "recheck" /\ t = Scheduler /\ job[t].op = "reserve" /\ job[t].key \in Keys
        /\ job[t].id \in Identities /\ job[t].key = job[t].id.key /\ job[t].cmd \notin Commands
    BY <1>1, <1>6, <1>9 DEF Recheck, At, JobOK
  <2>1. CASE StillCurrent(t)
    BY <1>2, <1>4, <2>0, <2>1, <1>9 DEF Recheck
  <2>2. CASE ~StillCurrent(t)
    <3> DEFINE j == [job[t] EXCEPT !.pc = "admit", !.att = None]
    <3>1. /\ j \in Job /\ j.pc = "admit" /\ j.op = "reserve" /\ j.id = job[t].id /\ j.key = job[t].key
          /\ j.cmd = job[t].cmd
      BY <1>1, <2>0 DEF Job, Pcs
    <3>2. Goto(t, j) /\ UNCHANGED <<bookkeeping, vetoes, log, closed, remote>>
      BY <1>9, <2>2 DEF Recheck
    <3> HIDE DEF j
    <3>3. JobOK(t)'
      BY <1>3, <2>0, <3>1, <3>2 DEF JobOK
    <3>4. QED
      BY <1>2, <2>0, <3>1, <3>2, <3>3
  <2>3. QED
    BY <2>1, <2>2
<1>10. CASE Reject(t)
  <2> DEFINE j == [job[t] EXCEPT !.pc = "rollback", !.todo = leases[job[t].att], !.ok = TRUE, !.win = 0]
  <2>0. /\ job[t].pc = "fanout" /\ t = Scheduler /\ job[t].op = "reserve" /\ job[t].key \in Keys
        /\ job[t].id \in Identities /\ job[t].key = job[t].id.key /\ job[t].cmd \notin Commands
        /\ job[t].att \in Attempts /\ stage[job[t].att] = "asked"
    BY <1>1, <1>6, <1>10 DEF Reject, At, JobOK
  <2>1. /\ j \in Job /\ j.pc = "rollback" /\ j.op = "reserve" /\ j.id = job[t].id /\ j.key = job[t].key
        /\ j.cmd = job[t].cmd /\ j.att = job[t].att /\ j.todo = leases[job[t].att]
    BY <1>1, <2>0, WindowFacts DEF Job, Pcs
  <2>2. Goto(t, j) /\ UNCHANGED <<bookkeeping, vetoes, log, closed, remote>>
    BY <1>10 DEF Reject
  <2> HIDE DEF j
  <2>3. JobOK(t)'
    BY <1>1, <1>3, <2>0, <2>1, <2>2 DEF JobOK
  <2>4. QED
    BY <1>2, <2>0, <2>1, <2>2, <2>3
<1>11. ASSUME NEW renewed \in BOOLEAN, job[t].pc \in {"vouch", "renewed"}, job[t].cmd \notin Commands,
              Goto(t, Returned(t, renewed)), UNCHANGED <<bookkeeping, vetoes, log, closed, remote>>
       PROVE  LeaseInv'
  <2>1. CASE job[t].op = "renew"
    BY <1>1, <1>2, <1>4, <1>11, <2>1, ReturnedFacts
  <2>2. CASE job[t].op # "renew"
    <3> DEFINE j == Returned(t, renewed)
    <3>1. /\ j \in Job /\ j.cmd = None /\ j.pc \in {"recheck", "retire"}
          /\ j.op = job[t].op /\ j.id = job[t].id /\ j.att = job[t].att /\ j.key = job[t].key
      BY <1>1, <2>2, ReturnedFacts
    <3> HIDE DEF j
    <3>2. job'[t] = j /\ stage' = stage /\ ask' = ask
      BY <1>3, <1>11, <3>1 DEF j
    <3>3. JobOK(t)'
      BY <1>1, <1>11, <2>2, <3>1, <3>2, CommandFacts DEF JobOK
    <3>4. QED
      BY <1>2, <1>11, <3>1, <3>3, CommandFacts DEF j
  <2>3. QED
    BY <2>1, <2>2
<1>12. CASE RenewNow(t)
  <2> DEFINE a == job[t].att
  <2>0. job[t].pc = "vouch" /\ job[t].cmd \notin Commands /\ Current(a) \in BOOLEAN
    BY <1>6, <1>12 DEF RenewNow, At, Current
  <2>1. CASE Current(a) /\ valid[a] = 0
    <3> DEFINE j == [job[t] EXCEPT !.pc = "renew", !.todo = Ranks, !.win = Window]
    <3>1. /\ j \in Job /\ j.pc = "renew" /\ j.op = job[t].op /\ j.id = job[t].id /\ j.key = job[t].key
          /\ j.cmd = job[t].cmd /\ j.att = job[t].att /\ j.todo = Ranks
      BY <1>1, <2>0, WindowFacts DEF Job, Pcs
    <3>2. Goto(t, j) /\ UNCHANGED <<bookkeeping, vetoes, log, closed, remote>>
      BY <1>12, <2>1 DEF RenewNow
    <3> HIDE DEF j
    <3>3. JobOK(t)'
      BY <1>1, <1>3, <2>0, <3>1, <3>2 DEF JobOK
    <3>4. QED
      BY <1>2, <2>0, <3>1, <3>2, <3>3
  <2>2. CASE ~(Current(a) /\ valid[a] = 0)
    <3>1. Goto(t, Returned(t, Current(a))) /\ UNCHANGED <<bookkeeping, vetoes, log, closed, remote>>
      BY <1>12, <2>2 DEF RenewNow
    <3>2. QED
      BY <1>11, <2>0, <3>1
  <2>3. QED
    BY <2>1, <2>2
<1>13. CASE RenewEnd(t)
  <2>1. job[t].ok \in BOOLEAN /\ job[t].pc = "renewed" /\ job[t].cmd \notin Commands
    BY <1>1, <1>7, <1>13 DEF RenewEnd, At, Job
  <2>2. QED
    BY <1>11, <1>13, <2>1 DEF RenewEnd
<1>14. CASE ExistsEnd(t)
  <2> DEFINE j == [job[t] EXCEPT !.pc = IF Proved(t) THEN "retire" ELSE "veto",
                                 !.ok = TRUE, !.proved = job[t].ok]
  <2>0. job[t].pc = "exists" /\ job[t].cmd \notin Commands
    BY <1>6, <1>14 DEF ExistsEnd, At
  <2>1. /\ j \in Job /\ j.pc \in {"retire", "veto"} /\ j.op = job[t].op /\ j.id = job[t].id
        /\ j.cmd = job[t].cmd /\ j.att = job[t].att /\ j.key = job[t].key
        /\ j.pc = "retire" => Proved(t)
    BY <1>1, <2>0 DEF Job, Pcs
  <2>2. Goto(t, j) /\ UNCHANGED <<bookkeeping, vetoes, log, closed, remote>>
    BY <1>14 DEF ExistsEnd
  <2> HIDE DEF j
  <2>3. job'[t] = j /\ stage' = stage /\ ask' = ask
    BY <1>3, <2>1, <2>2
  <2>4. job[t].op = "complete"
    BY <1>1, <2>0 DEF JobOK
  <2>5. JobOK(t)'
    BY <1>1, <2>0, <2>1, <2>3, <2>4 DEF JobOK
  <2>6. QED
    BY <1>2, <2>0, <2>1, <2>2, <2>5
<1>15. ASSUME NEW j \in Job, Goto(t, j), JobOK(t)', j.cmd \notin Commands, job[t].cmd \notin Commands,
              j.pc \notin {"fanout", "release", "renew", "rollback"},
              UNCHANGED <<bookkeeping, log, remote>>,
              closed' \in BOOLEAN, closed => closed', invalid' \subseteq Keys,
              invalidateAcked' \subseteq Keys, condemned' \subseteq Ranks \X Objects
       PROVE  LeaseInv'
  BY <1>15, JobOnly DEF Goto
<1>16. ASSUME NEW acked \in BOOLEAN, job[t].pc \in {"veto", "invalidate"}, Goto(t, Vetoed(t, acked)),
              UNCHANGED bookkeeping
       PROVE  /\ Vetoed(t, acked) \in Job /\ JobOK(t)' /\ Vetoed(t, acked).cmd \notin Commands
              /\ Vetoed(t, acked).pc \in {"idle", "retire"}
  <2>1. CASE job[t].op = "invalidate"
    BY <1>1, <1>4, <1>16, <2>1, VetoedFacts
  <2>2. CASE job[t].op # "invalidate"
    <3> DEFINE j == Vetoed(t, acked)
    <3>1. /\ j \in Job /\ j.cmd = None /\ j.pc = "retire"
          /\ j.op = job[t].op /\ j.id = job[t].id /\ j.att = job[t].att /\ j.key = job[t].key
      BY <1>1, <2>2, VetoedFacts
    <3> HIDE DEF j
    <3>2. job'[t] = j /\ stage' = stage /\ ask' = ask
      BY <1>3, <1>16, <3>1 DEF j
    <3>3. JobOK(t)'
      BY <1>1, <1>16, <2>2, <3>1, <3>2, CommandFacts DEF JobOK
    <3>4. QED
      BY <3>1, <3>3, CommandFacts DEF j
  <2>3. QED
    BY <2>1, <2>2
<1>17. CASE Veto(t)
  <2> DEFINE k == job[t].key
             j == [job[t] EXCEPT !.pc = "invalidate", !.todo = Ranks, !.ok = TRUE]
  <2>0. job[t].pc = "veto" /\ job[t].cmd \notin Commands /\ k \in Keys /\ UNCHANGED <<bookkeeping, invalidateAcked, log, remote>>
    BY <1>1, <1>6, <1>17 DEF Veto, At, JobOK
  <2>1. CASE k \notin invalid /\ Cardinality(invalid) >= MaxKeys
    <3>1. closed' = TRUE /\ Goto(t, Vetoed(t, FALSE)) /\ invalid' = invalid /\ condemned' = condemned
      BY <1>17, <2>1 DEF Veto
    <3>2. /\ Vetoed(t, FALSE) \in Job /\ JobOK(t)' /\ Vetoed(t, FALSE).cmd \notin Commands
          /\ Vetoed(t, FALSE).pc \in {"idle", "retire"}
      BY <1>16, <2>0, <3>1
    <3>3. QED
      BY <1>1, <1>15, <2>0, <3>1, <3>2
  <2>2. CASE ~(k \notin invalid /\ Cardinality(invalid) >= MaxKeys)
    <3>1. /\ invalid' = invalid \cup {k} /\ Goto(t, j) /\ closed' = closed
          /\ condemned' = condemned \cup UNION {{r} \X Of(rank[r], k, {"C"}) : r \in Ranks}
      BY <1>17, <2>2 DEF Veto
    <3>2. \A r \in Ranks : Of(rank[r], k, {"C"}) \subseteq Objects
      BY DEF Of
    <3>3. condemned' \subseteq Ranks \X Objects
      BY <1>1, <3>1, <3>2
    <3>4. /\ j \in Job /\ j.pc = "invalidate" /\ j.op = job[t].op /\ j.id = job[t].id
          /\ j.cmd = job[t].cmd /\ j.att = job[t].att /\ j.key = job[t].key
      BY <1>1, <2>0 DEF Job, Pcs
    <3> HIDE DEF j
    <3>5. JobOK(t)'
      BY <1>1, <1>3, <2>0, <3>1, <3>4 DEF JobOK
    <3>6. QED
      BY <1>1, <1>15, <2>0, <3>1, <3>3, <3>4, <3>5
  <2>3. QED
    BY <2>1, <2>2
<1>18. CASE InvalidateEnd(t)
  <2>0. /\ job[t].pc = "invalidate" /\ job[t].cmd \notin Commands /\ job[t].key \in Keys
        /\ Goto(t, Vetoed(t, Acknowledged(t))) /\ UNCHANGED <<bookkeeping, condemned, log, closed, remote>>
    BY <1>1, <1>7, <1>18 DEF InvalidateEnd, At, JobOK
  <2>1. invalid' \subseteq Keys /\ invalidateAcked' \subseteq Keys
    BY <1>1, <1>18, <2>0 DEF InvalidateEnd, ClearVeto
  <2>2. Acknowledged(t) \in BOOLEAN
    BY <1>1 DEF Acknowledged, Job, Drained
  <2>3. /\ Vetoed(t, Acknowledged(t)) \in Job /\ JobOK(t)' /\ Vetoed(t, Acknowledged(t)).cmd \notin Commands
        /\ Vetoed(t, Acknowledged(t)).pc \in {"idle", "retire"}
    BY <1>16, <2>0, <2>2
  <2>4. QED
    BY <1>1, <1>15, <2>0, <2>1, <2>3
<1>19. ASSUME NEW r \in Ranks, ExistsRank(t, r) PROVE LeaseInv'
  <2>1. PICK ok \in BOOLEAN : Goto(t, Called(t, r, ok))
    BY <1>19 DEF ExistsRank
  <2> DEFINE j == Called(t, r, ok)
  <2>2. job[t].pc = "exists" /\ UNCHANGED <<bookkeeping, vetoes, log, closed, remote>> /\ job[t].cmd \notin Commands
    BY <1>6, <1>19 DEF ExistsRank, At
  <2>3. /\ j \in Job /\ j.pc = "exists" /\ j.op = job[t].op /\ j.id = job[t].id
        /\ j.cmd = job[t].cmd /\ j.att = job[t].att /\ j.key = job[t].key
    BY <1>1, <2>2, CalledFacts
  <2> HIDE DEF j
  <2>4. JobOK(t)'
    BY <1>1, <1>3, <2>1, <2>2, <2>3 DEF JobOK, j
  <2>5. QED
    BY <1>2, <2>1, <2>2, <2>3, <2>4 DEF j
<1>20. QED
  BY <1>8, <1>9, <1>10, <1>12, <1>13, <1>14, <1>17, <1>18, <1>19 DEF Inward

-----------------------------------------------------------------------------
(* A thread calls a rank, with an answer or without one.  Only a           *)
(* reservation changes the books.                                          *)

Harmless(c) ==   \* nobody counts on the lease that is released
  /\ c.kind # "reserve"
  /\ c.kind = "release" => /\ stage[c.arg] \notin {"new", "ticket"}
                           /\ \A t \in Threads : ~(job[t].pc = "fanout" /\ job[t].att = c.arg)
Lost(c) ==
  /\ rank' = rank /\ wire' = wire \cup {c}
  /\ LogTyped' /\ (closed => closed') /\ Queued' \subseteq Queued \cup {c}
  /\ c.kind = "renew" => Queued' = Queued
  /\ c.kind # "renew" => closed' \/ Queued' = Queued \cup {c}
Done(c) == rank' = After(c) /\ UNCHANGED <<wire, log, closed>>

LEMMA DoneFacts ==
  ASSUME Typed, NEW c \in Commands, Harmless(c), Done(c) \/ Lost(c)
  PROVE  /\ rank' \in [Ranks -> Stores] /\ LogTyped' /\ wire' \subseteq wire \cup {c}
         /\ closed => closed'
         /\ Queued' \subseteq Queued \cup {c}
         /\ c.kind = "renew" => Queued' = Queued
         /\ \A r \in Ranks, a \in Attempts :
              /\ Undisturbed(r, a)
              /\ c # Call("release", r, a) => Spared(r, a)
              /\ c = Call("release", r, a) => ~Holds(r, a)' \/ closed' \/ c \in Queued'
         /\ closed' \/ Queued \subseteq Queued'
<1>1. rank \in [Ranks -> Stores] /\ LogTyped /\ c.kind # "reserve"
  BY DEF Typed, Harmless
<1>2. CASE Done(c)
  <2>1. /\ rank' \in [Ranks -> Stores]
        /\ \A r \in Ranks, a \in Attempts :
             /\ c # Call("reserve", r, a) => Undisturbed(r, a)
             /\ c \notin {Call("reserve", r, a), Call("release", r, a)} => Spared(r, a)
             /\ c = Call("release", r, a) => ~Holds(r, a)'
    BY <1>1, <1>2, AfterFacts DEF Done
  <2>2. \A r \in Ranks, a \in Attempts : c # Call("reserve", r, a)
    BY <1>1 DEF Call
  <2>3. LogTyped' /\ Queued' = Queued /\ closed' = closed /\ wire' = wire
    BY <1>1, <1>2 DEF Done, LogTyped, log, Queued
  <2>4. QED
    BY <2>1, <2>2, <2>3
<1>3. CASE Lost(c)
  <2>1. ASSUME NEW r \in Ranks, NEW a \in Attempts PROVE Undisturbed(r, a) /\ Spared(r, a)
    <3>1. rank' = rank /\ rank[r].left[a] \in Nat
      BY <1>1, <1>3, Bounds DEF Lost, Stores
    <3>2. QED
      BY <3>1 DEF Undisturbed, Spared, Holds
  <2>2. \A r \in Ranks, a \in Attempts : Call("release", r, a).kind # "renew"
    BY DEF Call
  <2>3. QED
    BY <1>1, <1>3, <2>1, <2>2 DEF Lost
<1>4. QED
  BY <1>2, <1>3

LEMMA Kept ==
  ASSUME Typed, NEW t \in Threads, NEW j, NEW c \in Commands,
         Harmless(c), Done(c) \/ Lost(c),
         job' = [job EXCEPT ![t] = j], ask' = ask,
         job[t].cmd \in Commands => job[t].cmd = c
  PROVE  \A r \in Ranks, a \in Attempts :
           /\ \A n \in 0..Window : Backed(r, a, n) /\ c # Call("release", r, a) => Backed(r, a, n)'
           /\ Owing(r, a) => Owing(r, a)'
<1>1. /\ rank \in [Ranks -> Stores] /\ rank' \in [Ranks -> Stores]
      /\ closed => closed'
      /\ Queued' \subseteq Queued \cup {c}
      /\ \A r \in Ranks, a \in Attempts :
           /\ Undisturbed(r, a)
           /\ c # Call("release", r, a) => Spared(r, a)
           /\ c = Call("release", r, a) => ~Holds(r, a)' \/ closed' \/ c \in Queued'
      /\ closed' \/ Queued \subseteq Queued'
  BY DoneFacts DEF Typed
<1>2. \A u \in Threads \ {t} : job'[u] = job[u]
  BY DEF Typed
<1>3. ASSUME NEW r \in Ranks, NEW a \in Attempts, NEW n \in 0..Window, Backed(r, a, n),
              c # Call("release", r, a)
       PROVE  Backed(r, a, n)'
  <2>1. rank[r].left[a] \in Nat /\ rank'[r].left[a] \in Nat /\ n \in Nat
    BY <1>1, Bounds DEF Stores
  <2>2. QED
    BY <1>1, <1>3, <2>1 DEF Backed, Spared
<1>4. ASSUME NEW r \in Ranks, NEW a \in Attempts, Owing(r, a) PROVE Owing(r, a)'
  <2>1. CASE c = Call("release", r, a)
    BY <1>1, <2>1 DEF Owing, Replayed, Call
  <2>2. CASE c # Call("release", r, a)
    <3>1. Call("release", r, a) \in Replayed => Call("release", r, a) \in Replayed' \/ closed'
      BY <1>1, <1>2, <2>2, CommandFacts DEF Replayed
    <3>2. Holds(r, a)' => Holds(r, a)
      BY <1>1 DEF Undisturbed
    <3>3. QED
      BY <1>1, <1>4, <3>1, <3>2 DEF Owing, Call
  <2>3. QED
    BY <2>1, <2>2
<1>5. QED
  BY <1>3, <1>4

LEMMA Calls ==
  ASSUME LeaseInv, NEW t \in Threads, NEW j \in Job, NEW c \in Commands,
         Harmless(c), Done(c) \/ Lost(c),
         job' = [job EXCEPT ![t] = j], use' = use, UNCHANGED <<bookkeeping, vetoes>>,
         j.pc \notin {"fanout"}, job[t].pc # "fanout", j.cmd \notin Commands,
         job[t].cmd \in Commands => job[t].cmd = c,
         JobOK(t)', WindowBy(t)', LetGoBy(t)', OwedBy(t)'
  PROVE  LeaseInv'
<1>1. /\ ask' = ask /\ stage' = stage /\ leases' = leases /\ identities' = identities
      /\ valid' = valid /\ pending' = pending /\ bytes' = bytes
      /\ invalid' = invalid /\ invalidateAcked' = invalidateAcked /\ condemned' = condemned
  BY DEF bookkeeping, vetoes
<1>2. /\ job \in [Threads -> Job] /\ Typed /\ Jobs /\ Asked /\ Sent /\ Windows /\ LetGo /\ Owed
      /\ rank \in [Ranks -> Stores]
  BY DEF LeaseInv, Typed
<1>3. job' \in [Threads -> Job] /\ job'[t] = j /\ \A u \in Threads \ {t} : job'[u] = job[u]
  BY <1>2
<1>4. /\ rank' \in [Ranks -> Stores] /\ LogTyped' /\ wire' \subseteq wire \cup {c}
      /\ closed => closed'
      /\ Queued' \subseteq Queued \cup {c}
      /\ c.kind = "renew" => Queued' = Queued
      /\ \A r \in Ranks, a \in Attempts :
           /\ Undisturbed(r, a)
           /\ c # Call("release", r, a) => Spared(r, a)
           /\ c = Call("release", r, a) => ~Holds(r, a)' \/ closed' \/ c \in Queued'
      /\ closed' \/ Queued \subseteq Queued'
  BY <1>2, DoneFacts
<1>5. Typed'
  <2>1. BooksTyped' /\ VetoesTyped'
    BY <1>1, <1>2 DEF Typed, BooksTyped, VetoesTyped
  <2>2. wire' \subseteq Commands /\ use' \in Uses
    BY <1>2, <1>4 DEF Typed
  <2>3. QED
    BY <1>3, <1>4, <2>1, <2>2 DEF Typed
<1>6. Jobs'
  <2>1. ASSUME NEW u \in Threads \ {t} PROVE JobOK(u)'
    BY <1>1, <1>2, <1>3 DEF Jobs, JobOK, Draining
  <2>2. QED
    BY <2>1 DEF Jobs
<1>7. Asked'
  BY <1>1, <1>2, <1>4 DEF Asked, Undisturbed
<1>8. Replayed' \cap Commands \subseteq Replayed \cup {c}
  BY <1>3, <1>4 DEF Replayed
<1>9. Sent'
  <2>1. \A x \in Queued' : x.kind \in {"release", "invalidate"}
    <3>1. c.kind \in {"release", "renew", "invalidate"}
      BY DEF Harmless, Commands
    <3>2. QED
      BY <1>2, <1>4, <3>1 DEF Sent
  <2>2. ASSUME NEW x \in wire' \cup Replayed', x \in Commands, x.kind = "release"
        PROVE  /\ stage'[x.arg] \notin {"new", "ticket"}
               /\ \A u \in Threads : ~(job'[u].pc = "fanout" /\ job'[u].att = x.arg)
    <3>1. x \in wire \cup Replayed \/ x = c
      BY <1>4, <1>8, <2>2
    <3>2. /\ stage[x.arg] \notin {"new", "ticket"}
          /\ \A u \in Threads : ~(job[u].pc = "fanout" /\ job[u].att = x.arg)
      BY <1>2, <2>2, <3>1 DEF Sent, Harmless
    <3>3. QED
      BY <1>1, <1>3, <3>2
  <2>3. ASSUME NEW x \in wire', x.kind = "reserve"
        PROVE  /\ stage'[x.arg] \in {"asked", "failed"}
               /\ x.rank \notin leases'[x.arg]
               /\ \A u \in Threads : job'[u].pc = "fanout" /\ job'[u].att = x.arg =>
                                       ~job'[u].ok /\ x.rank \notin job'[u].todo
    <3>1. x \in wire
      BY <1>4, <2>3 DEF Harmless
    <3>2. QED
      BY <1>1, <1>2, <1>3, <2>3, <3>1 DEF Sent
  <2>4. QED
    BY <2>1, <2>2, <2>3 DEF Sent
<1>10. \A r \in Ranks, a \in Attempts :
         /\ \A n \in 0..Window : Backed(r, a, n) /\ c # Call("release", r, a) => Backed(r, a, n)'
         /\ Owing(r, a) => Owing(r, a)'
  BY <1>1, <1>2, Kept
<1>11. \A r \in Ranks, a \in Attempts :
         c = Call("release", r, a) =>
           /\ stage[a] \notin {"new", "ticket"}
           /\ \A u \in Threads : ~(job[u].pc = "fanout" /\ job[u].att = a)
  BY DEF Harmless, Call
<1>12. Windows'
  <2>1. ASSUME NEW a \in Attempts, stage'[a] = "ticket", NEW r \in Ranks PROVE Backed(r, a, valid[a])'
    <3>1. valid[a] \in 0..Window /\ valid' = valid
      BY <1>1, <1>2 DEF Typed, BooksTyped
    <3>2. Backed(r, a, valid[a]) /\ c # Call("release", r, a)
      BY <1>1, <1>2, <1>11, <2>1 DEF Windows
    <3>3. Backed(r, a, valid[a])'
      BY <1>10, <3>1, <3>2 DEF Backed
    <3>4. QED
      BY <3>3
  <2>2. ASSUME NEW u \in Threads \ {t} PROVE WindowBy(u)'
    <3>1. job'[u] = job[u] /\ JobOK(u) /\ job[u].win \in 0..Window
      BY <1>2, <1>3 DEF Jobs, Job
    <3>2. SUFFICES ASSUME job[u].ok, job[u].pc \in {"fanout", "renew"}, stage[job[u].att] \in {"asked", "ticket"},
                          NEW r \in Ranks \ job[u].todo
                   PROVE  Backed(r, job[u].att, job[u].win)'
      BY <1>1, <3>1 DEF WindowBy
    <3>3. job[u].att \in Attempts /\ (job[u].pc = "fanout" \/ stage[job[u].att] = "ticket")
      BY <3>1, <3>2 DEF JobOK, Issued
    <3>4. Backed(r, job[u].att, job[u].win) /\ c # Call("release", r, job[u].att)
      BY <1>2, <1>11, <3>2, <3>3 DEF Windows, WindowBy
    <3>5. QED
      BY <1>10, <3>1, <3>3, <3>4 DEF Backed
  <2>3. QED
    BY <2>1, <2>2 DEF Windows
<1>13. LetGo'
  <2>1. ASSUME NEW u \in Threads \ {t} PROVE LetGoBy(u)'
    BY <1>2, <1>3, <1>4 DEF LetGo, LetGoBy, Undisturbed, Jobs, JobOK, Holds
  <2>2. ASSUME NEW a \in Attempts, stage'[a] = "dropped", NEW r \in Ranks PROVE ~Holds(r, a)'
    BY <1>1, <1>2, <1>4, <2>2 DEF LetGo, Undisturbed
  <2>3. QED
    BY <2>1, <2>2 DEF LetGo
<1>14. Owed'
  <2>1. \A a \in Attempts : leases[a] \subseteq Ranks
    BY <1>2 DEF Typed, BooksTyped
  <2>2. ASSUME NEW u \in Threads \ {t} PROVE OwedBy(u)'
    <3>1. SUFFICES ASSUME job[u].pc = "rollback", NEW r \in leases[job[u].att] \ job[u].todo
                   PROVE  Owing(r, job[u].att)'
      BY <1>1, <1>3 DEF OwedBy
    <3>2. job[u].att \in Attempts /\ job'[u] = job[u]
      BY <1>2, <1>3, <3>1 DEF Jobs, JobOK
    <3>3. Owing(r, job[u].att)
      BY <1>2, <3>1 DEF Owed, OwedBy
    <3>4. QED
      BY <1>10, <2>1, <3>1, <3>2, <3>3 DEF Owing, Holds
  <2>3. ASSUME NEW a \in Attempts, stage'[a] = "failed", NEW r \in leases'[a] PROVE Owing(r, a)'
    BY <1>1, <1>2, <1>10, <2>1, <2>3 DEF Owed
  <2>4. QED
    BY <2>2, <2>3 DEF Owed
<1>15. QED
  BY <1>5, <1>6, <1>7, <1>9, <1>12, <1>13, <1>14 DEF LeaseInv

LEMMA RecordedFacts ==
  ASSUME Typed
  PROVE  LogTyped /\ (Recorded /\ UNCHANGED log => LogTyped' /\ (closed => closed') /\ Queued' = Queued)
BY DEF Typed, LogTyped, Recorded, log, Queued

LEMMA ReplayLost ==
  ASSUME Typed, NEW c \in Commands, c.kind # "renew", Unanswered(c), Replay(c)
  PROVE  Lost(c)
BY ReplayFacts DEF Unanswered, Lost

LEMMA RankCalls ==
  ASSUME LeaseInv, NEW t \in Threads, NEW r \in Ranks,
         RenewRank(t, r) \/ ReleaseRank(t, r) \/ InvalidateRank(t, r)
  PROVE  LeaseInv'
<1>0. PICK a, w : a = job[t].att /\ w = job[t].win
  OBVIOUS
<1>1. /\ Typed /\ JobOK(t) /\ job[t] \in Job /\ rank \in [Ranks -> Stores] /\ Asked
      /\ WindowBy(t) /\ LetGoBy(t) /\ OwedBy(t)
      /\ leases \in [Attempts -> SUBSET Ranks] /\ job \in [Threads -> Job]
  BY DEF LeaseInv, Jobs, Typed, Windows, LetGo, Owed, BooksTyped
<1>2. job[t].pc \in {"renew", "release", "rollback", "invalidate"} /\ r \in job[t].todo
  BY DEF RenewRank, ReleaseRank, InvalidateRank, At
<1>3. ~Draining(t) /\ job[t].cmd \notin Commands /\ job[t].pc # "fanout" /\ job[t].key \in Keys
  BY <1>1, <1>2 DEF Draining, JobOK
<1>4. UNCHANGED <<bookkeeping, vetoes>>
  BY DEF RenewRank, ReleaseRank, InvalidateRank, vetoes
<1>5. /\ ask' = ask /\ stage' = stage /\ leases' = leases
  BY <1>4 DEF bookkeeping
<1>6. ASSUME NEW c \in Commands, NEW ok \in BOOLEAN, Harmless(c), Done(c) \/ Lost(c),
             Goto(t, Called(t, r, ok)), WindowBy(t)', LetGoBy(t)', OwedBy(t)'
      PROVE  LeaseInv'
  <2> DEFINE j == Called(t, r, ok)
  <2>1. /\ j \in Job /\ j.pc = job[t].pc /\ j.op = job[t].op /\ j.id = job[t].id
        /\ j.cmd = job[t].cmd /\ j.att = job[t].att /\ j.key = job[t].key
    BY <1>1, CalledFacts
  <2> HIDE DEF j
  <2>2. job' = [job EXCEPT ![t] = j] /\ use' = use
    BY <1>6 DEF Goto, j
  <2>3. JobOK(t)'
    <3>1. job'[t] = j
      BY <1>1, <2>2
    <3>2. QED
      BY <1>1, <1>2, <1>3, <1>5, <2>1, <3>1 DEF JobOK
  <2>4. QED
    BY <1>2, <1>3, <1>4, <1>6, <2>1, <2>2, <2>3, Calls
<1>7. ASSUME NEW ok \in BOOLEAN, Goto(t, Called(t, r, ok))
      PROVE  /\ job' = [job EXCEPT ![t] = Called(t, r, ok)]
             /\ job'[t].pc = job[t].pc /\ job'[t].att = a /\ job'[t].win = w
             /\ job'[t].ok = (job[t].ok /\ ok) /\ job'[t].todo = job[t].todo \ {r}
  <2>1. job'[t] = Called(t, r, ok)
    BY <1>1, <1>7 DEF Goto
  <2>2. QED
    BY <1>0, <1>1, <1>7, <2>1, CalledFacts DEF Goto
<1>8. CASE RenewRank(t, r)
  <2> DEFINE c == Call("renew", r, a)
  <2>0. job[t].pc = "renew" /\ a \in Attempts /\ stage[a] \in Issued
    BY <1>0, <1>1, <1>8 DEF RenewRank, At, JobOK
  <2>1. c \in Commands /\ c.kind = "renew" /\ Harmless(c)
    BY <2>0, CommandFacts DEF Harmless, Call
  <2>2. UNCHANGED <<log, closed>>
    BY <1>8 DEF RenewRank
  <2>3. ASSUME Unanswered(c), Goto(t, Called(t, r, FALSE)) PROVE LeaseInv'
    <3>1. Lost(c)
      <4>1. LogTyped' /\ Queued' = Queued /\ closed' = closed
        BY <2>2, RecordedFacts, <1>1 DEF LogTyped, Queued, log
      <4>2. QED
        BY <2>1, <2>3, <4>1 DEF Unanswered, Lost
    <3>2. WindowBy(t)' /\ LetGoBy(t)' /\ OwedBy(t)'
      BY <1>7, <2>0, <2>3 DEF WindowBy, LetGoBy, OwedBy
    <3>3. QED
      BY <1>6, <2>1, <2>3, <3>1, <3>2
  <2>4. ASSUME Answered(c), NEW ok \in BOOLEAN, ok = Alive(rank[r], a), Goto(t, Called(t, r, ok)) PROVE LeaseInv'
    <3>1. Done(c)
      BY <2>2, <2>4 DEF Answered, Done
    <3>2. /\ ok => rank'[r].left[a] = Ttl
          /\ \A r2 \in Ranks : Spared(r2, a)
      <4>1. c.kind # "reserve" /\ \A r2 \in Ranks : c \notin {Call("reserve", r2, a), Call("release", r2, a)}
        BY DEF Call
      <4>2. QED
        BY <1>1, <2>0, <2>1, <2>4, <3>1, <4>1, AfterFacts DEF Done
    <3>3. ASSUME job[t].ok, ok, stage[a] \in {"asked", "ticket"}, NEW r2 \in Ranks \ (job[t].todo \ {r})
          PROVE  Backed(r2, a, w)'
      <4>0. w \in 0..Window /\ rank'[r2].hold[a] = rank[r2].hold[a]
        BY <1>0, <1>1, <3>2, <3>3 DEF Job, Spared
      <4>1. CASE r2 = r
        <5>1. rank'[r].left[a] > w
          BY <3>2, <3>3, <4>0, Bounds
        <5>2. ~ask[a].writing => rank[r].hold[a] # None
          BY <1>1, <2>0, <2>4, <3>3 DEF Alive, Asked
        <5>3. QED
          BY <1>5, <4>0, <4>1, <5>1, <5>2 DEF Backed
      <4>2. CASE r2 # r
        <5>1. Backed(r2, a, w)
          BY <1>0, <1>1, <2>0, <3>3, <4>2 DEF WindowBy
        <5>2. c # Call("release", r2, a)
          BY DEF Call
        <5>3. job' = [job EXCEPT ![t] = Called(t, r, ok)]
          BY <1>7, <2>4
        <5>4. Backed(r2, a, w)'
          <6>1. \A n \in 0..Window : Backed(r2, a, n) /\ c # Call("release", r2, a) => Backed(r2, a, n)'
            BY <1>1, <1>3, <1>5, <2>0, <2>1, <3>1, <5>3, Kept
          <6>2. QED
            BY <4>0, <5>1, <5>2, <6>1
        <5>5. QED
          BY <5>4
      <4>3. QED
        BY <4>1, <4>2
    <3>4. WindowBy(t)'
      BY <1>0, <1>5, <1>7, <2>4, <3>3 DEF WindowBy
    <3>5. LetGoBy(t)' /\ OwedBy(t)'
      BY <1>7, <2>0, <2>4 DEF LetGoBy, OwedBy
    <3>6. QED
      BY <1>6, <2>1, <2>4, <3>1, <3>4, <3>5
  <2>5. Alive(rank[r], a) \in BOOLEAN /\ c.arg = a
    BY DEF Alive, Call
  <2>6. QED
    BY <1>0, <1>8, <2>3, <2>4, <2>5 DEF RenewRank
<1>9. CASE ReleaseRank(t, r)
  <2> DEFINE c == Call("release", r, a)
  <2>0. job[t].pc \in {"release", "rollback"} /\ a \in Attempts /\ stage[a] \notin {"new", "ticket"}
    BY <1>0, <1>1, <1>9 DEF ReleaseRank, JobOK, Issued
  <2>1. c \in Commands /\ c.kind = "release" /\ c.arg = a
    BY <2>0, CommandFacts DEF Call
  <2>2. Harmless(c)
    <3>1. ASSUME NEW u \in Threads, job[u].pc = "fanout", job[u].att = a PROVE FALSE
      <4>1. u = Scheduler /\ stage[a] = "asked"
        BY <3>1 DEF LeaseInv, Jobs, JobOK
      <4>2. t = Scheduler
        BY <1>0, <1>1, <2>0, <4>1 DEF JobOK
      <4>3. QED
        BY <1>3, <3>1, <4>1, <4>2
    <3>2. QED
      BY <2>0, <2>1, <3>1 DEF Harmless
  <2>3. PICK ok \in BOOLEAN : /\ Goto(t, Called(t, r, ok))
                              /\ IF ok THEN Done(c) ELSE Lost(c)
    BY <1>0, <1>1, <1>9, <2>1, ReplayLost DEF ReleaseRank, Done, Answered
  <2>4. /\ \A r2 \in Ranks : Undisturbed(r2, a)
        /\ ok => ~Holds(r, a)'
        /\ ~Holds(r, a)' \/ closed' \/ c \in Queued'
    <3>1. /\ \A r2 \in Ranks : Undisturbed(r2, a)
          /\ ~Holds(r, a)' \/ closed' \/ c \in Queued'
      BY <1>1, <2>0, <2>1, <2>2, <2>3, DoneFacts
    <3>2. ASSUME ok PROVE ~Holds(r, a)'
      BY <1>1, <2>0, <2>1, <2>3, <3>2, AfterFacts DEF Done
    <3>3. QED
      BY <3>1, <3>2
  <2>5. LetGoBy(t)'
    BY <1>0, <1>1, <1>7, <2>3, <2>4 DEF LetGoBy, Undisturbed
  <2>6. OwedBy(t)'
    <3>1. SUFFICES ASSUME job[t].pc = "rollback", NEW r2 \in leases[a] \ (job[t].todo \ {r})
                   PROVE  Owing(r2, a)'
      BY <1>5, <1>7, <2>3 DEF OwedBy
    <3>2. CASE r2 = r
      BY <2>4, <3>2 DEF Owing, Replayed
    <3>3. CASE r2 # r
      <4>1. Owing(r2, a) /\ r2 \in Ranks
        BY <1>0, <1>1, <2>0, <3>1, <3>3 DEF OwedBy
      <4>2. Done(c) \/ Lost(c)
        BY <2>3
      <4>3. job' = [job EXCEPT ![t] = Called(t, r, ok)]
        BY <1>7, <2>3
      <4>4. QED
        <5>1. Owing(r2, a) => Owing(r2, a)'
          BY <1>1, <1>3, <1>5, <2>0, <2>1, <2>2, <4>1, <4>2, <4>3, Kept
        <5>2. QED
          BY <4>1, <5>1
    <3>4. QED
      BY <3>2, <3>3
  <2>7. WindowBy(t)'
    BY <1>7, <2>0, <2>3 DEF WindowBy
  <2>8. QED
    BY <1>6, <2>1, <2>2, <2>3, <2>5, <2>6, <2>7
<1>10. CASE InvalidateRank(t, r)
  <2> DEFINE c == Call("invalidate", r, job[t].key)
  <2>1. job[t].pc = "invalidate" /\ c \in Commands /\ c.kind = "invalidate" /\ Harmless(c)
    BY <1>3, <1>10, CommandFacts DEF InvalidateRank, At, Harmless, Call
  <2>2. PICK ok \in BOOLEAN : Goto(t, Called(t, r, ok)) /\ (Done(c) \/ Lost(c))
    BY <1>1, <1>10, <2>1, ReplayLost DEF InvalidateRank, Done, Answered
  <2>3. WindowBy(t)' /\ LetGoBy(t)' /\ OwedBy(t)'
    BY <1>7, <2>1, <2>2 DEF WindowBy, LetGoBy, OwedBy
  <2>4. QED
    BY <1>6, <2>1, <2>2, <2>3
<1>11. QED
  BY <1>8, <1>9, <1>10

LEMMA DrainCalls ==
  ASSUME LeaseInv, NEW t \in Threads, DrainCall(t)
  PROVE  LeaseInv'
<1>0. PICK a, c : a = job[t].att /\ c = job[t].cmd
  OBVIOUS
<1>1. /\ Typed /\ JobOK(t) /\ job[t] \in Job /\ rank \in [Ranks -> Stores] /\ Sent
      /\ WindowBy(t) /\ LetGoBy(t) /\ OwedBy(t)
      /\ leases \in [Attempts -> SUBSET Ranks] /\ job \in [Threads -> Job]
  BY DEF LeaseInv, Jobs, Typed, Windows, LetGo, Owed, BooksTyped
<1>2. /\ Draining(t) /\ c \in Commands /\ c.kind \in {"release", "invalidate"}
      /\ job[t].pc \in {"rollback", "release", "invalidate", "renewed"} /\ job[t].todo = {}
  BY <1>0, <1>1 DEF DrainCall, JobOK, Draining
<1>3. Harmless(c)
  BY <1>0, <1>1, <1>2 DEF Sent, Harmless, Replayed
<1>4. PICK to \in {None, Stop} : Goto(t, [job[t] EXCEPT !.cmd = to]) /\ (Done(c) \/ Lost(c))
  BY <1>0, <1>1, <1>2, ReplayLost DEF DrainCall, Done, Answered
<1> DEFINE j == [job[t] EXCEPT !.cmd = to]
<1>5. /\ j \in Job /\ j.pc = job[t].pc /\ j.op = job[t].op /\ j.id = job[t].id /\ j.todo = job[t].todo
      /\ j.cmd = to /\ j.att = job[t].att /\ j.key = job[t].key /\ j.ok = job[t].ok
  BY <1>1 DEF Job
<1>6. job' = [job EXCEPT ![t] = j] /\ use' = use
  BY <1>4 DEF Goto
<1> HIDE DEF j
<1>7. job'[t] = j
  BY <1>1, <1>6
<1>8. UNCHANGED <<bookkeeping, vetoes>> /\ ask' = ask /\ stage' = stage /\ leases' = leases
  BY DEF DrainCall, bookkeeping, vetoes
<1>9. to \notin Commands
  BY CommandFacts
<1>10. JobOK(t)'
  BY <1>1, <1>2, <1>5, <1>7, <1>8, <1>9 DEF JobOK
<1>11. \A r \in Ranks, b \in Attempts : Undisturbed(r, b)
  BY <1>1, <1>2, <1>3, <1>4, DoneFacts
<1>12. \A r \in Ranks, b \in Attempts : Owing(r, b) => Owing(r, b)'
  BY <1>0, <1>1, <1>2, <1>3, <1>4, <1>6, <1>8, Kept
<1>13. WindowBy(t)'
  BY <1>2, <1>5, <1>7 DEF WindowBy
<1>14. LetGoBy(t)'
  <2>1. job[t].pc = "release" => a \in Attempts
    BY <1>0, <1>1 DEF JobOK
  <2>2. job'[t].att = a
    BY <1>0, <1>5, <1>7
  <2>3. QED
    BY <1>0, <1>1, <1>5, <1>7, <1>11, <2>1, <2>2 DEF LetGoBy, Undisturbed
<1>15. OwedBy(t)'
  <2>1. job[t].pc = "rollback" => a \in Attempts
    BY <1>0, <1>1 DEF JobOK
  <2>2. job'[t].att = a
    BY <1>0, <1>5, <1>7
  <2>3. QED
    BY <1>0, <1>1, <1>5, <1>7, <1>8, <1>12, <2>1, <2>2 DEF OwedBy
<1>16. QED
  BY <1>0, <1>2, <1>3, <1>4, <1>5, <1>6, <1>8, <1>9, <1>10, <1>13, <1>14, <1>15, Calls

LEMMA DrainPops ==
  ASSUME LeaseInv, NEW t \in Threads, DrainPop(t)
  PROVE  LeaseInv'
<1>1. /\ job \in [Threads -> Job] /\ job[t] \in Job /\ Typed /\ Jobs /\ Asked /\ Sent /\ Windows /\ LetGo /\ Owed
      /\ retry \in Seq(Commands) /\ retry # <<>> /\ Len(retry) <= RetryMax
      /\ leases \in [Attempts -> SUBSET Ranks]
  BY DEF LeaseInv, Typed, LogTyped, BooksTyped, DrainPop
<1>2. PICK c : c = Head(retry)
  OBVIOUS
<1>3. /\ Tail(retry) \in Seq(Commands) /\ Len(Tail(retry)) = Len(retry) - 1
      /\ c \in Commands /\ Queued \subseteq Commands
      /\ retry' = Tail(retry) /\ Queued = {c} \cup Queued'
  <2>1. retry' = Tail(retry)
    BY DEF DrainPop
  <2>2. QED
    BY <1>1, <1>2, <2>1, TailFacts DEF Queued
<1> DEFINE j == [job[t] EXCEPT !.cmd = c]
<1>4. /\ job[t].cmd = None /\ Draining(t) /\ job' = [job EXCEPT ![t] = j] /\ use' = use
      /\ UNCHANGED <<bookkeeping, vetoes, cleanupLost, closed, remote>>
  BY <1>2 DEF DrainPop, Goto
<1>5. /\ j \in Job /\ j.pc = job[t].pc /\ j.op = job[t].op /\ j.id = job[t].id /\ j.todo = job[t].todo
      /\ j.cmd = c /\ j.att = job[t].att /\ j.key = job[t].key /\ j.ok = job[t].ok /\ j.win = job[t].win
  BY <1>1, <1>3 DEF Job
<1> HIDE DEF j
<1>6. job'[t] = j /\ (\A u \in Threads \ {t} : job'[u] = job[u]) /\ job' \in [Threads -> Job]
  BY <1>1, <1>4, <1>5
<1>7. /\ ask' = ask /\ stage' = stage /\ leases' = leases /\ identities' = identities
      /\ valid' = valid /\ pending' = pending /\ bytes' = bytes
      /\ invalid' = invalid /\ invalidateAcked' = invalidateAcked /\ condemned' = condemned
      /\ rank' = rank /\ wire' = wire /\ closed' = closed /\ cleanupLost' = cleanupLost
  BY <1>4 DEF bookkeeping, vetoes, remote
<1>8. c.kind \in {"release", "invalidate"}
  BY <1>1, <1>3 DEF Sent
<1>9. /\ Replayed' \cap Commands \subseteq Replayed
      /\ Replayed \cap Commands \subseteq Replayed'
  BY <1>3, <1>4, <1>5, <1>6, CommandFacts DEF Replayed
<1>10. \A u \in Threads : /\ job'[u].pc = job[u].pc /\ job'[u].todo = job[u].todo /\ job'[u].ok = job[u].ok
                          /\ job'[u].att = job[u].att /\ job'[u].win = job[u].win
  BY <1>5, <1>6
<1>11. Typed'
  <2>1. BooksTyped' /\ VetoesTyped'
    BY <1>1, <1>7 DEF Typed, BooksTyped, VetoesTyped
  <2>2. LogTyped'
    <3>1. Len(retry') <= RetryMax
      BY <1>1, <1>3, Bounds
    <3>2. QED
      BY <1>1, <1>3, <1>7, <3>1 DEF Typed, LogTyped
  <2>3. QED
    BY <1>1, <1>4, <1>6, <1>7, <2>1, <2>2 DEF Typed
<1>12. Jobs'
  <2>1. ASSUME NEW u \in Threads \ {t} PROVE JobOK(u)'
    BY <1>1, <1>6, <1>7 DEF Jobs, JobOK, Draining
  <2>2. JobOK(t)'
    BY <1>1, <1>4, <1>5, <1>6, <1>7, <1>8 DEF Jobs, JobOK, Draining
  <2>3. QED
    BY <2>1, <2>2 DEF Jobs
<1>13. Asked'
  BY <1>1, <1>7 DEF Asked
<1>14. Sent'
  <2>1. \A x \in Queued' : x.kind \in {"release", "invalidate"}
    BY <1>1, <1>3 DEF Sent
  <2>2. ASSUME NEW x \in wire' \cup Replayed', x \in Commands, x.kind = "release"
        PROVE  /\ stage'[x.arg] \notin {"new", "ticket"}
               /\ \A u \in Threads : ~(job'[u].pc = "fanout" /\ job'[u].att = x.arg)
    <3>1. x \in wire \cup Replayed
      BY <1>7, <1>9, <2>2
    <3>2. /\ stage[x.arg] \notin {"new", "ticket"}
          /\ \A u \in Threads : ~(job[u].pc = "fanout" /\ job[u].att = x.arg)
      BY <1>1, <2>2, <3>1 DEF Sent
    <3>3. QED
      BY <1>7, <1>10, <3>2
  <2>3. ASSUME NEW x \in wire', x.kind = "reserve"
        PROVE  /\ stage'[x.arg] \in {"asked", "failed"}
               /\ x.rank \notin leases'[x.arg]
               /\ \A u \in Threads : job'[u].pc = "fanout" /\ job'[u].att = x.arg =>
                                       ~job'[u].ok /\ x.rank \notin job'[u].todo
    BY <1>1, <1>7, <1>10, <2>3 DEF Sent
  <2>4. QED
    BY <2>1, <2>2, <2>3 DEF Sent
<1>15. Windows'
  BY <1>1, <1>7, <1>10 DEF Windows, WindowBy, Backed
<1>16. LetGo'
  BY <1>1, <1>7, <1>10 DEF LetGo, LetGoBy, Holds
<1>17. ASSUME NEW r \in Ranks, NEW a \in Attempts, Owing(r, a) PROVE Owing(r, a)'
  BY <1>7, <1>9, <1>17, CommandFacts DEF Owing, Holds
<1>18. Owed'
  <2>1. ASSUME NEW u \in Threads, job[u].pc = "rollback", NEW r \in leases[job[u].att] \ job[u].todo
        PROVE  Owing(r, job[u].att)'
    <3>1. PICK a \in Attempts : a = job[u].att
      BY <1>1, <2>1 DEF Jobs, JobOK
    <3>2. Owing(r, a) /\ r \in Ranks
      BY <1>1, <2>1, <3>1 DEF Owed, OwedBy
    <3>3. Owing(r, a)'
      BY <1>17, <3>2
    <3>4. job'[u].att = a
      BY <1>10, <3>1
    <3>5. QED
      BY <3>3, <3>4
  <2>2. \A u \in Threads : OwedBy(u)'
    BY <1>7, <1>10, <2>1 DEF OwedBy
  <2>3. ASSUME NEW a \in Attempts, stage'[a] = "failed", NEW r \in leases'[a] PROVE Owing(r, a)'
    BY <1>1, <1>7, <1>17, <2>3 DEF Owed
  <2>4. QED
    BY <2>2, <2>3 DEF Owed
<1>19. QED
  BY <1>11, <1>12, <1>13, <1>14, <1>15, <1>16, <1>18 DEF LeaseInv

-----------------------------------------------------------------------------
(* What the ranks do on their own, or late.                                *)

Stray(r, a) ==   \* a lease nobody counts on: what is done to it is all the same
  /\ stage[a] \in {"asked", "failed"} /\ r \notin leases[a]
  /\ \A t \in Threads : job[t].pc = "fanout" /\ job[t].att = a => ~job[t].ok
  /\ ask[a].writing \/ rank'[r].obj[a] = rank[r].obj[a]
Over(r, a) ==
  /\ Undisturbed(r, a) /\ stage[a] \notin {"new", "ticket"}
  /\ \A t \in Threads : ~(job[t].pc = "fanout" /\ job[t].att = a)

LEMMA RankSteps ==
  ASSUME LeaseInv, UNCHANGED <<use, bookkeeping, vetoes, log, job>>,
         closed' \in BOOLEAN, closed => closed', wire' \subseteq wire,
         rank' \in [Ranks -> Stores],
         \A r \in Ranks, a \in Attempts :
           (Undisturbed(r, a) /\ Spared(r, a)) \/ Over(r, a) \/ Stray(r, a)
  PROVE  LeaseInv'
<1>1. /\ ask' = ask /\ stage' = stage /\ leases' = leases /\ identities' = identities
      /\ valid' = valid /\ pending' = pending /\ bytes' = bytes
      /\ invalid' = invalid /\ invalidateAcked' = invalidateAcked /\ condemned' = condemned
      /\ retry' = retry /\ cleanupLost' = cleanupLost /\ job' = job /\ use' = use
      /\ Queued' = Queued /\ Replayed' = Replayed
  BY DEF bookkeeping, vetoes, log, Queued, Replayed
<1>2. /\ Typed /\ Jobs /\ Asked /\ Sent /\ Windows /\ LetGo /\ Owed /\ rank \in [Ranks -> Stores]
      /\ job \in [Threads -> Job] /\ leases \in [Attempts -> SUBSET Ranks] /\ valid \in [Attempts -> 0..Window]
  BY DEF LeaseInv, Typed, BooksTyped
<1>3. Typed'
  <2>1. BooksTyped' /\ VetoesTyped' /\ LogTyped'
    BY <1>1, <1>2 DEF Typed, BooksTyped, VetoesTyped, LogTyped
  <2>2. QED
    BY <1>1, <1>2, <2>1 DEF Typed
<1>4. Jobs'
  BY <1>1, <1>2 DEF Jobs, JobOK, Draining
<1>5. Asked'
  <2>1. ASSUME NEW r \in Ranks, NEW a \in Attempts, rank'[r].obj[a] # "none"
        PROVE  stage[a] # "new" /\ ask[a].writing
    BY <1>2, <2>1 DEF Asked, Undisturbed, Over, Stray
  <2>2. QED
    BY <1>1, <1>2, <2>1 DEF Asked
<1>6. Sent'
  BY <1>1, <1>2 DEF Sent
<1>7. ASSUME NEW r \in Ranks, NEW a \in Attempts, NEW n \in 0..Window, Backed(r, a, n), ~Over(r, a), ~Stray(r, a)
      PROVE  Backed(r, a, n)'
  <2>1. rank[r].left[a] \in Nat /\ rank'[r].left[a] \in Nat /\ n \in Nat
    BY <1>2, Bounds DEF Stores
  <2>2. QED
    BY <1>1, <1>7, <2>1 DEF Backed, Spared
<1>8. Windows'
  <2>1. ASSUME NEW a \in Attempts, stage[a] = "ticket", NEW r \in Ranks PROVE Backed(r, a, valid[a])'
    <3>1. PICK n \in 0..Window : n = valid[a] /\ n = valid'[a]
      BY <1>1, <1>2
    <3>2. Backed(r, a, n) /\ ~Over(r, a) /\ ~Stray(r, a)
      BY <1>2, <2>1, <3>1 DEF Windows, Over, Stray
    <3>3. Backed(r, a, n)'
      BY <1>7, <3>2
    <3>4. QED
      BY <3>1, <3>3
  <2>2. ASSUME NEW u \in Threads PROVE WindowBy(u)'
    <3>1. PICK a, n : a = job[u].att /\ n = job[u].win
      OBVIOUS
    <3>2. job'[u] = job[u] /\ JobOK(u) /\ n \in 0..Window
      BY <1>1, <1>2, <3>1 DEF Jobs, Job
    <3>3. SUFFICES ASSUME job[u].ok, job[u].pc \in {"fanout", "renew"}, stage[a] \in {"asked", "ticket"},
                          NEW r \in Ranks \ job[u].todo
                   PROVE  Backed(r, a, n)'
      BY <1>1, <3>1, <3>2 DEF WindowBy
    <3>4. a \in Attempts /\ (job[u].pc = "fanout" \/ stage[a] = "ticket")
      BY <3>1, <3>2, <3>3 DEF JobOK, Issued
    <3>5. Backed(r, a, n) /\ ~Over(r, a) /\ ~Stray(r, a)
      BY <1>2, <3>1, <3>3, <3>4 DEF Windows, WindowBy, Over, Stray
    <3>6. QED
      BY <1>7, <3>2, <3>4, <3>5
  <2>3. QED
    BY <1>1, <2>1, <2>2 DEF Windows
<1>9. ASSUME NEW r \in Ranks, NEW a \in Attempts, ~Stray(r, a) PROVE Holds(r, a)' => Holds(r, a)
  BY <1>9 DEF Undisturbed, Over
<1>10. LetGo'
  <2>1. ASSUME NEW u \in Threads PROVE LetGoBy(u)'
    <3>1. PICK a : a = job[u].att
      OBVIOUS
    <3>2. SUFFICES ASSUME job[u].ok, job[u].pc = "release", NEW r \in Ranks \ job[u].todo
                   PROVE  ~Holds(r, a)'
      BY <1>1, <3>1 DEF LetGoBy
    <3>3. a \in Attempts /\ ~Stray(r, a) /\ ~Holds(r, a)
      BY <1>2, <3>1, <3>2 DEF Jobs, JobOK, Stray, LetGo, LetGoBy
    <3>4. QED
      BY <1>9, <3>2, <3>3
  <2>2. ASSUME NEW a \in Attempts, stage[a] = "dropped", NEW r \in Ranks PROVE ~Holds(r, a)'
    BY <1>2, <1>9, <2>2 DEF LetGo, Stray
  <2>3. QED
    BY <1>1, <2>1, <2>2 DEF LetGo
<1>11. ASSUME NEW r \in Ranks, NEW a \in Attempts, Owing(r, a), r \in leases[a] PROVE Owing(r, a)'
  BY <1>1, <1>9, <1>11 DEF Owing, Stray
<1>12. Owed'
  <2>1. ASSUME NEW u \in Threads PROVE OwedBy(u)'
    <3>1. PICK a : a = job[u].att
      OBVIOUS
    <3>2. SUFFICES ASSUME job[u].pc = "rollback", NEW r \in leases[a] \ job[u].todo
                   PROVE  Owing(r, a)'
      BY <1>1, <3>1 DEF OwedBy
    <3>3. a \in Attempts /\ r \in Ranks /\ Owing(r, a)
      BY <1>2, <3>1, <3>2 DEF Jobs, JobOK, Owed, OwedBy
    <3>4. QED
      BY <1>11, <3>2, <3>3
  <2>2. ASSUME NEW a \in Attempts, stage[a] = "failed", NEW r \in leases[a] PROVE Owing(r, a)'
    <3>1. r \in Ranks /\ Owing(r, a)
      BY <1>2, <2>2 DEF Owed
    <3>2. QED
      BY <1>11, <2>2, <3>1
  <2>3. QED
    BY <1>1, <2>1, <2>2 DEF Owed
<1>13. QED
  BY <1>3, <1>4, <1>5, <1>6, <1>8, <1>10, <1>12 DEF LeaseInv

LEMMA Strays ==
  ASSUME LeaseInv, NEW c \in Commands, Late(c)
  PROVE  LeaseInv'
<1>1. /\ Typed /\ Sent /\ rank \in [Ranks -> Stores] /\ closed \in BOOLEAN /\ c \in wire
      /\ UNCHANGED <<use, bookkeeping, vetoes, log, closed, job>> /\ wire' \subseteq wire
  BY DEF LeaseInv, Typed, LogTyped, Late
<1>2. CASE rank' = rank
  <2>1. ASSUME NEW r \in Ranks, NEW a \in Attempts PROVE Undisturbed(r, a) /\ Spared(r, a)
    <3>1. rank[r].left[a] \in Nat
      BY <1>1, Bounds DEF Stores
    <3>2. QED
      BY <1>2, <3>1 DEF Undisturbed, Spared, Holds
  <2>2. QED
    BY <1>1, <1>2, <2>1, RankSteps
<1>3. CASE rank' = After(c) /\ (c.kind = "reserve" => Grantable(rank[c.rank], c.arg))
  <2>1. /\ rank' \in [Ranks -> Stores]
        /\ \A r \in Ranks, a \in Attempts :
             /\ c # Call("reserve", r, a) => Undisturbed(r, a)
             /\ c \notin {Call("reserve", r, a), Call("release", r, a)} => Spared(r, a)
             /\ c = Call("reserve", r, a) /\ ~ask[a].writing => rank'[r].obj[a] = rank[r].obj[a]
    BY <1>1, <1>3, AfterFacts
  <2>2. ASSUME NEW r \in Ranks, NEW a \in Attempts, c = Call("reserve", r, a) PROVE Stray(r, a)
    BY <1>1, <2>1, <2>2 DEF Stray, Sent, Call
  <2>3. ASSUME NEW r \in Ranks, NEW a \in Attempts, c = Call("release", r, a) PROVE Over(r, a)
    <3>1. c # Call("reserve", r, a) /\ c.kind = "release" /\ c.arg = a
      BY <2>3 DEF Call
    <3>2. QED
      BY <1>1, <2>1, <2>3, <3>1 DEF Over, Sent
  <2>4. QED
    BY <1>1, <2>1, <2>2, <2>3, RankSteps
<1>4. QED
  BY <1>2, <1>3 DEF Late

LEMMA Ownwards ==
  ASSUME LeaseInv,
         \/ \E r \in Ranks : (\E a \in Attempts : Commit(r, a)) \/ \E o \in Objects : Evict(r, o)
         \/ Shutdown
  PROVE  LeaseInv'
<1>1. Typed /\ rank \in [Ranks -> Stores] /\ closed \in BOOLEAN /\ Asked
  BY DEF LeaseInv, Typed, LogTyped
<1>2. \A r \in Ranks, a \in Attempts :
        rank[r].left[a] \in Nat /\ rank[r].left[a] <= Ttl /\ Ttl \in Nat /\ a \in Objects
  BY <1>1, Bounds DEF Stores, Objects
<1>3. ASSUME NEW r0 \in Ranks, NEW a0 \in Attempts, Commit(r0, a0) PROVE LeaseInv'
  <2> DEFINE R == rank[r0]
             Q == [R EXCEPT !.obj = [R.obj EXCEPT ![a0] = "C"], !.left = [R.left EXCEPT ![a0] = Ttl]]
  <2>1. rank' = [rank EXCEPT ![r0] = Q] /\ UNCHANGED <<use, bookkeeping, vetoes, log, closed, job, wire>>
        /\ R.obj[a0] = "W"
    BY <1>1, <1>3 DEF Commit, Stores
  <2>2. Q \in Stores /\ Q.hold = R.hold /\ Q.obj = [R.obj EXCEPT ![a0] = "C"] /\ Q.left = [R.left EXCEPT ![a0] = Ttl]
    <3>1. Ttl \in 0..Ttl
      BY Bounds
    <3>2. QED
      BY <1>1, <1>2, <3>1 DEF Stores
  <2> HIDE DEF Q
  <2>3. ASSUME NEW r \in Ranks, NEW a \in Attempts PROVE Undisturbed(r, a) /\ Spared(r, a)
    <3>1. CASE r # r0
      BY <1>1, <1>2, <2>1, <3>1 DEF Undisturbed, Spared, Holds
    <3>2. CASE r = r0
      <4>1. rank'[r] = Q /\ R \in Stores
        BY <1>1, <2>1, <3>2
      <4>2. Q.left[a] >= R.left[a] /\ Q.hold[a] = R.hold[a]
        BY <1>2, <2>2, <4>1, <3>2 DEF Stores
      <4>3. (Q.obj[a] = "none" <=> R.obj[a] = "none") /\ (Q.obj[a] = "W" => R.obj[a] = "W")
        BY <1>2, <2>1, <2>2, <4>1 DEF Stores
      <4>4. QED
        BY <3>2, <4>1, <4>2, <4>3 DEF Undisturbed, Spared, Holds
    <3>3. QED
      BY <3>1, <3>2
  <2>4. rank' \in [Ranks -> Stores] /\ wire' = wire /\ closed' = closed
    BY <1>1, <2>1, <2>2
  <2>5. QED
    BY <1>1, <2>1, <2>3, <2>4, RankSteps
<1>4. ASSUME NEW r0 \in Ranks, NEW o \in Objects, Evict(r0, o) PROVE LeaseInv'
  <2> DEFINE R == rank[r0]
             Q == [R EXCEPT !.obj = [R.obj EXCEPT ![o] = "T"]]
  <2>1. rank' = [rank EXCEPT ![r0] = Q] /\ UNCHANGED <<use, bookkeeping, vetoes, log, closed, job, wire>>
        /\ R.obj[o] = "C"
    BY <1>1, <1>4 DEF Evict, Stores
  <2>2. Q \in Stores /\ Q.hold = R.hold /\ Q.left = R.left /\ Q.obj = [R.obj EXCEPT ![o] = "T"]
    BY <1>1 DEF Stores
  <2> HIDE DEF Q
  <2>3. ASSUME NEW r \in Ranks, NEW a \in Attempts PROVE Undisturbed(r, a) /\ Spared(r, a)
    <3>1. CASE r # r0
      BY <1>1, <1>2, <2>1, <3>1 DEF Undisturbed, Spared, Holds
    <3>2. CASE r = r0
      <4>1. rank'[r] = Q /\ R \in Stores
        BY <1>1, <2>1, <3>2
      <4>2. (Q.obj[a] = "none" <=> R.obj[a] = "none") /\ (Q.obj[a] = "W" => R.obj[a] = "W")
        BY <1>2, <2>1, <2>2, <4>1 DEF Stores
      <4>3. Q.left[a] >= R.left[a] /\ Q.hold[a] = R.hold[a]
        BY <1>2, <2>2
      <4>4. QED
        BY <3>2, <4>1, <4>2, <4>3 DEF Undisturbed, Spared, Holds
    <3>3. QED
      BY <3>1, <3>2
  <2>4. rank' \in [Ranks -> Stores] /\ wire' = wire /\ closed' = closed
    BY <1>1, <2>1, <2>2
  <2>5. QED
    BY <1>1, <2>1, <2>3, <2>4, RankSteps
<1>5. CASE Shutdown
  <2>1. UNCHANGED <<use, bookkeeping, vetoes, log, job, rank, wire>> /\ closed' = TRUE
    BY <1>5 DEF Shutdown, remote
  <2>2. ASSUME NEW r \in Ranks, NEW a \in Attempts PROVE Undisturbed(r, a) /\ Spared(r, a)
    BY <1>2, <2>1 DEF Undisturbed, Spared, Holds
  <2>3. QED
    BY <1>1, <2>1, <2>2, RankSteps
<1>6. QED
  BY <1>3, <1>4, <1>5

-----------------------------------------------------------------------------
(* A thread changes the books of an attempt.                               *)

(* The life of an attempt.                                                 *)
Advance(t, a) ==
  \/ stage'[a] = stage[a]
  \/ stage[a] = "new" /\ stage'[a] = "asked"
  \/ stage[a] = "asked" /\ stage'[a] = "failed" /\ t = Scheduler
  \/ stage[a] = "asked" /\ stage'[a] = "ticket" /\ t = Scheduler
       /\ job[t].pc = "fanout" /\ job[t].att = a /\ job[t].ok
  \/ stage[a] \in {"ticket", "retiring"} /\ stage'[a] \in {"retiring", "dropped"}

LEMMA BookSteps ==
  ASSUME LeaseInv, NEW t \in Threads, NEW j \in Job, NEW a \in Attempts,
         job' = [job EXCEPT ![t] = j], UNCHANGED <<use, leases, log, closed, remote>>,
         BooksTyped', VetoesTyped',
         job[t].cmd \notin Commands, j.cmd \notin Commands,
         \A b \in Attempts \ {a} : ask'[b] = ask[b] /\ stage'[b] = stage[b] /\ valid'[b] = valid[b],
         Advance(t, a),
         stage[a] # "new" => ask'[a] = ask[a],
         stage'[a] # "new" => ask'[a] \in Identities,
         j.pc = "fanout" => j.att = a /\ stage[a] = "new" /\ j.todo = Ranks,
         stage'[a] = "ticket" => \A r \in Ranks : Backed(r, a, valid[a])',
         stage'[a] = "dropped" => \A r \in Ranks : ~Holds(r, a),
         stage'[a] = "failed" => \A r \in leases[a] : Owing(r, a),
         JobOK(t)', WindowBy(t)', LetGoBy(t)', OwedBy(t)'
  PROVE  LeaseInv'
<1>1. /\ job \in [Threads -> Job] /\ Typed /\ Jobs /\ Asked /\ Sent /\ Windows /\ LetGo /\ Owed
      /\ leases \in [Attempts -> SUBSET Ranks]
      /\ \A b \in Attempts : stage[b] \in {"new", "asked", "ticket", "retiring", "dropped", "failed"}
      /\ \A c \in wire \cup Queued : c \in Commands
  BY DEF LeaseInv, Typed, BooksTyped, LogTyped
<1>2. job' \in [Threads -> Job] /\ job'[t] = j /\ \A u \in Threads \ {t} : job'[u] = job[u]
  BY <1>1
<1>3. /\ retry' = retry /\ cleanupLost' = cleanupLost /\ closed' = closed /\ Queued' = Queued
      /\ rank' = rank /\ wire' = wire /\ use' = use /\ leases' = leases
  BY DEF log, remote, Queued
<1>4. /\ Replayed' \cap Commands \subseteq Replayed
      /\ Replayed \cap Commands \subseteq Replayed'
  BY <1>2, <1>3 DEF Replayed
<1>5. Typed'
  <2>1. LogTyped'
    BY <1>1, <1>3 DEF Typed, LogTyped
  <2>2. QED
    BY <1>1, <1>2, <1>3, <2>1 DEF Typed
<1>6. ASSUME NEW u \in Threads \ {t}, job[u].pc \in {"fanout", "rollback"} PROVE t # Scheduler
  BY <1>1, <1>6 DEF Jobs, JobOK
<1>7. \A b \in Attempts : /\ stage[b] \in Issued => stage'[b] \in Issued
                          /\ stage[b] \in {"retiring", "dropped"} => stage'[b] \in {"retiring", "dropped"}
                          /\ stage[b] = "asked" /\ t # Scheduler => stage'[b] = "asked"
                          /\ stage[b] # "new" => ask'[b] = ask[b]
  BY DEF Issued, Advance
<1>8. ASSUME NEW u \in Threads \ {t} PROVE JobOK(u)'
  <2>1. JobOK(u) /\ job'[u] = job[u] /\ leases' = leases
    BY <1>1, <1>2 DEF Jobs
  <2>2. job[u].pc \in {"fanout", "rollback"} => t # Scheduler
    BY <1>6
  <2>3. QED
    BY <1>7, <2>1, <2>2 DEF JobOK, Draining, Issued
<1>9. Jobs'
  BY <1>8 DEF Jobs
<1>10. Asked'
  <2>1. ASSUME NEW b \in Attempts
        PROVE  /\ stage'[b] = "new" => leases[b] = {}
               /\ stage'[b] # "new" => ask'[b] \in Identities
               /\ \A r \in Ranks : rank[r].obj[b] # "none" => stage'[b] # "new" /\ ask'[b].writing
    <3>1. /\ stage[b] = "new" => leases[b] = {}
          /\ stage[b] # "new" => ask[b] \in Identities
          /\ \A r \in Ranks : rank[r].obj[b] # "none" => stage[b] # "new" /\ ask[b].writing
      BY <1>1 DEF Asked
    <3>2. CASE b = a
      BY <3>1, <3>2 DEF Advance
    <3>3. CASE b # a
      BY <3>1, <3>3
    <3>4. QED
      BY <3>2, <3>3
  <2>2. QED
    BY <1>3, <2>1 DEF Asked
<1>11. Sent'
  <2>1. ASSUME NEW x \in wire' \cup Replayed', x \in Commands, x.kind = "release"
        PROVE  /\ stage'[x.arg] \notin {"new", "ticket"}
               /\ \A u \in Threads : ~(job'[u].pc = "fanout" /\ job'[u].att = x.arg)
    <3>1. /\ stage[x.arg] \notin {"new", "ticket"} /\ x.arg \in Attempts
          /\ \A u \in Threads : ~(job[u].pc = "fanout" /\ job[u].att = x.arg)
      BY <1>1, <1>3, <1>4, <2>1 DEF Sent, Commands
    <3>2. stage'[x.arg] \notin {"new", "ticket"}
      BY <3>1 DEF Advance
    <3>3. ASSUME NEW u \in Threads, job'[u].pc = "fanout", job'[u].att = x.arg PROVE FALSE
      BY <1>2, <3>1, <3>3
    <3>4. QED
      BY <3>2, <3>3
  <2>2. ASSUME NEW x \in wire, x.kind = "reserve"
        PROVE  /\ stage'[x.arg] \in {"asked", "failed"}
               /\ x.rank \notin leases[x.arg]
               /\ \A u \in Threads : job'[u].pc = "fanout" /\ job'[u].att = x.arg =>
                                       ~job'[u].ok /\ x.rank \notin job'[u].todo
    <3>1. /\ stage[x.arg] \in {"asked", "failed"} /\ x.arg \in Attempts
          /\ x.rank \notin leases[x.arg]
          /\ \A u \in Threads : job[u].pc = "fanout" /\ job[u].att = x.arg =>
                                  ~job[u].ok /\ x.rank \notin job[u].todo
      BY <1>1, <2>2 DEF Sent, Commands
    <3>2. stage'[x.arg] \in {"asked", "failed"}
      BY <3>1 DEF Advance
    <3>3. ASSUME NEW u \in Threads, job'[u].pc = "fanout", job'[u].att = x.arg
          PROVE  ~job'[u].ok /\ x.rank \notin job'[u].todo
      BY <1>2, <3>1, <3>3
    <3>4. QED
      BY <3>1, <3>2, <3>3
  <2>3. QED
    BY <1>1, <1>3, <2>1, <2>2 DEF Sent
<1>12. Windows'
  <2>1. ASSUME NEW b \in Attempts, stage'[b] = "ticket", NEW r \in Ranks PROVE Backed(r, b, valid[b])'
    BY <1>1, <1>3, <2>1 DEF Windows, Backed
  <2>2. ASSUME NEW u \in Threads \ {t} PROVE WindowBy(u)'
    <3>1. PICK b, n : b = job[u].att /\ n = job[u].win
      OBVIOUS
    <3>2. job'[u] = job[u] /\ JobOK(u)
      BY <1>1, <1>2 DEF Jobs
    <3>3. SUFFICES ASSUME job[u].ok, job[u].pc \in {"fanout", "renew"}, stage'[b] \in {"asked", "ticket"},
                          NEW r \in Ranks \ job[u].todo
                   PROVE  Backed(r, b, n)'
      BY <3>1, <3>2 DEF WindowBy
    <3>4. b \in Attempts /\ stage[b] # "new" /\ stage[b] \in {"asked", "ticket"}
      BY <1>6, <3>1, <3>2, <3>3 DEF JobOK, Issued, Advance
    <3>5. ask'[b] = ask[b]
      BY <3>4
    <3>6. QED
      BY <1>1, <1>3, <3>1, <3>3, <3>4, <3>5 DEF Windows, WindowBy, Backed
  <2>3. QED
    BY <2>1, <2>2 DEF Windows
<1>13. LetGo'
  <2>1. ASSUME NEW u \in Threads \ {t} PROVE LetGoBy(u)'
    BY <1>1, <1>2, <1>3 DEF LetGo, LetGoBy, Holds
  <2>2. ASSUME NEW b \in Attempts, stage'[b] = "dropped", NEW r \in Ranks PROVE ~Holds(r, b)'
    BY <1>1, <1>3, <2>2 DEF LetGo, Holds
  <2>3. QED
    BY <2>1, <2>2 DEF LetGo
<1>14. ASSUME NEW r \in Ranks, NEW b \in Attempts, Owing(r, b) PROVE Owing(r, b)'
  BY <1>3, <1>4, <1>14, CommandFacts DEF Owing, Holds
<1>15. Owed'
  <2>1. ASSUME NEW u \in Threads \ {t} PROVE OwedBy(u)'
    <3>1. PICK b : b = job[u].att
      OBVIOUS
    <3>2. SUFFICES ASSUME job[u].pc = "rollback", NEW r \in leases[b] \ job[u].todo PROVE Owing(r, b)'
      BY <1>2, <1>3, <3>1 DEF OwedBy
    <3>3. b \in Attempts /\ r \in Ranks /\ Owing(r, b)
      BY <1>1, <3>1, <3>2 DEF Jobs, JobOK, Owed, OwedBy
    <3>4. QED
      BY <1>14, <3>3
  <2>2. ASSUME NEW b \in Attempts, stage'[b] = "failed", NEW r \in leases[b] PROVE Owing(r, b)'
    <3>1. r \in Ranks /\ Owing(r, b)
      BY <1>1, <2>2 DEF Owed
    <3>2. QED
      BY <1>14, <3>1
  <2>3. QED
    BY <1>3, <2>1, <2>2 DEF Owed
<1>16. QED
  BY <1>5, <1>9, <1>10, <1>11, <1>12, <1>13, <1>15 DEF LeaseInv

Booking(t) ==
  \/ \E a \in Attempts : Admit(t, a)
  \/ Accept(t) \/ RollbackEnd(t) \/ RenewAnswered(t) \/ Retire(t) \/ ReleaseEnd(t)

LEMMA Bookings ==
  ASSUME LeaseInv, NEW t \in Threads, Booking(t)
  PROVE  LeaseInv'
<1>1. /\ Typed /\ JobOK(t) /\ job \in [Threads -> Job] /\ job[t] \in Job
      /\ BooksTyped /\ VetoesTyped /\ Asked /\ Sent /\ Windows /\ LetGo /\ Owed
      /\ rank \in [Ranks -> Stores]
  BY DEF LeaseInv, Jobs, Typed
<1>2. \A i \in Identities : i.key \in Keys /\ Charge[i.key] \in Int
  BY IdentityAssumption, ChargeAssumption
<1>3. job[t].pc \notin {"rollback", "release", "invalidate", "renewed"} => job[t].cmd \notin Commands
  BY <1>1 DEF JobOK, Draining
<1>4. DrainOver(t) => job[t].cmd \notin Commands
  BY CommandFacts DEF DrainOver
<1>5. ASSUME NEW j \in Job, Goto(t, j) PROVE job' = [job EXCEPT ![t] = j] /\ job'[t] = j /\ use' = use
  BY <1>1, <1>5 DEF Goto
<1>6. ASSUME Goto(t, Idle)
      PROVE  /\ JobOK(t)' /\ WindowBy(t)' /\ LetGoBy(t)' /\ OwedBy(t)'
             /\ Idle \in Job /\ Idle.cmd \notin Commands /\ Idle.pc # "fanout"
             /\ job' = [job EXCEPT ![t] = Idle] /\ use' = use
  <2>1. job'[t] = Idle /\ job' = [job EXCEPT ![t] = Idle] /\ use' = use
    BY <1>5, <1>6, IdleFacts
  <2>2. QED
    BY <2>1, IdleFacts, CommandFacts DEF JobOK, WindowBy, LetGoBy, OwedBy
<1>7. /\ ask \in [Attempts -> Identities \cup {None}]
      /\ stage \in [Attempts -> {"new", "asked", "ticket", "retiring", "dropped", "failed"}]
      /\ leases \in [Attempts -> SUBSET Ranks]
      /\ identities \in [Identities -> Attempts \cup {None}]
      /\ valid \in [Attempts -> 0..Window]
      /\ pending \subseteq Identities
      /\ bytes \in Int
  BY <1>1 DEF BooksTyped
<1>8. ASSUME NEW a \in Attempts, Admit(t, a) PROVE LeaseInv'
  <2> DEFINE i == job[t].id
             j == [job[t] EXCEPT !.pc = "fanout", !.att = a, !.todo = Ranks, !.win = Window]
  <2>1. /\ job[t].pc = "admit" /\ t = Scheduler /\ job[t].op = "reserve" /\ job[t].cmd \notin Commands
        /\ job[t].key \in Keys /\ i \in Identities /\ job[t].key = i.key
    BY <1>1, <1>3, <1>8 DEF Admit, At, JobOK
  <2>2. /\ stage[a] = "new" /\ ask' = [ask EXCEPT ![a] = i] /\ stage' = [stage EXCEPT ![a] = "asked"]
        /\ pending' = pending \cup {i} /\ bytes' = bytes + Charge[i.key] /\ Goto(t, j)
        /\ UNCHANGED <<leases, identities, valid, vetoes, log, closed, remote>>
    BY <1>8 DEF Admit
  <2>3. /\ j \in Job /\ j.pc = "fanout" /\ j.op = "reserve" /\ j.id = i /\ j.key = job[t].key
        /\ j.cmd = job[t].cmd /\ j.att = a /\ j.todo = Ranks
    BY <1>1, <2>1, WindowFacts DEF Job, Pcs
  <2>4. PICK i0 : i0 = i
    OBVIOUS
  <2> HIDE DEF j, i
  <2>5. /\ ask'[a] = i0 /\ stage'[a] = "asked" /\ i0 \in Identities /\ leases'[a] = {}
        /\ \A b \in Attempts \ {a} : ask'[b] = ask[b] /\ stage'[b] = stage[b] /\ valid'[b] = valid[b]
    BY <1>1, <1>7, <2>1, <2>2, <2>4 DEF Asked
  <2>6. BooksTyped' /\ VetoesTyped'
    <3>1. bytes' \in Int /\ pending' \subseteq Identities
      BY <1>2, <1>7, <2>1, <2>2
    <3>2. QED
      BY <1>1, <1>7, <2>1, <2>2, <3>1 DEF BooksTyped, VetoesTyped, vetoes
  <2>7. job' = [job EXCEPT ![t] = j] /\ job'[t] = j /\ use' = use
    BY <1>5, <2>2, <2>3
  <2>8. JobOK(t)' /\ WindowBy(t)' /\ LetGoBy(t)' /\ OwedBy(t)'
    BY <2>1, <2>3, <2>4, <2>5, <2>7 DEF JobOK, WindowBy, LetGoBy, OwedBy
  <2>9. Advance(t, a)
    BY <2>2, <2>5 DEF Advance
  <2>10. QED
    BY <2>1, <2>2, <2>3, <2>5, <2>6, <2>7, <2>8, <2>9, BookSteps
<1>9. CASE Accept(t)
  <2>0. PICK a, n : a = job[t].att /\ n = job[t].win
    OBVIOUS
  <2>1. /\ job[t].pc = "fanout" /\ job[t].todo = {} /\ t = Scheduler /\ job[t].cmd \notin Commands
        /\ a \in Attempts /\ stage[a] = "asked" /\ n \in 0..Window /\ job[t].ok
    BY <1>1, <1>3, <1>9, <2>0 DEF Accept, At, JobOK, Acceptable, Job
  <2>2. /\ stage' = [stage EXCEPT ![a] = "ticket"] /\ identities' = [identities EXCEPT ![ask[a]] = a]
        /\ valid' = [valid EXCEPT ![a] = n] /\ pending' = pending \ {ask[a]} /\ Goto(t, Idle)
        /\ UNCHANGED <<ask, leases, bytes, vetoes, log, closed, remote>>
    BY <1>9, <2>0 DEF Accept, WindowOf
  <2>3. ask[a] \in Identities
    BY <1>1, <2>1 DEF Asked
  <2>4. BooksTyped' /\ VetoesTyped'
    BY <1>1, <1>7, <2>1, <2>2, <2>3 DEF BooksTyped, VetoesTyped, vetoes
  <2>5. /\ stage'[a] = "ticket" /\ valid'[a] = n /\ ask'[a] = ask[a]
        /\ \A b \in Attempts \ {a} : ask'[b] = ask[b] /\ stage'[b] = stage[b] /\ valid'[b] = valid[b]
    BY <1>7, <2>1, <2>2
  <2>6. \A r \in Ranks : Backed(r, a, valid[a])'
    <3>1. \A r \in Ranks : Backed(r, a, n)
      BY <1>1, <2>0, <2>1 DEF Windows, WindowBy
    <3>2. rank' = rank
      BY <2>2 DEF remote
    <3>3. QED
      BY <2>5, <3>1, <3>2 DEF Backed
  <2>7. Advance(t, a)
    BY <2>0, <2>1, <2>5 DEF Advance
  <2>8. QED
    BY <1>6, <2>1, <2>2, <2>3, <2>4, <2>5, <2>6, <2>7, BookSteps
<1>10. CASE RollbackEnd(t)
  <2>0. PICK a : a = job[t].att
    OBVIOUS
  <2>1. /\ job[t].pc = "rollback" /\ job[t].todo = {} /\ t = Scheduler /\ job[t].cmd \notin Commands
        /\ a \in Attempts /\ stage[a] = "asked" /\ job[t].key \in Keys
    BY <1>1, <1>4, <1>10, <2>0 DEF RollbackEnd, At, JobOK, DrainOver, Draining
  <2>2. /\ stage' = [stage EXCEPT ![a] = "failed"] /\ pending' = pending \ {ask[a]}
        /\ bytes' = bytes - Charge[job[t].key] /\ Goto(t, Idle)
        /\ ClearVeto(job[t].key, invalidateAcked, Tickets, pending')
        /\ UNCHANGED <<ask, leases, identities, valid, condemned, log, closed, remote>>
    BY <1>10, <2>0 DEF RollbackEnd
  <2>3. ask[a] \in Identities
    BY <1>1, <2>1 DEF Asked
  <2>4. BooksTyped' /\ VetoesTyped'
    <3>1. bytes' \in Int
      BY <1>7, <2>1, <2>2, ChargeAssumption
    <3>2. VetoesTyped'
      BY <1>1, <2>2 DEF VetoesTyped, ClearVeto
    <3>3. QED
      BY <1>7, <2>1, <2>2, <2>3, <3>1, <3>2 DEF BooksTyped
  <2>5. /\ stage'[a] = "failed" /\ ask'[a] = ask[a]
        /\ \A b \in Attempts \ {a} : ask'[b] = ask[b] /\ stage'[b] = stage[b] /\ valid'[b] = valid[b]
    BY <1>7, <2>1, <2>2
  <2>6. \A r \in leases[a] : Owing(r, a)
    BY <1>1, <2>0, <2>1 DEF Owed, OwedBy
  <2>7. Advance(t, a)
    BY <2>1, <2>5 DEF Advance
  <2>8. QED
    BY <1>6, <2>1, <2>2, <2>3, <2>4, <2>5, <2>6, <2>7, BookSteps
<1>11. CASE RenewAnswered(t)
  <2>0. PICK a, n : a = job[t].att /\ n = job[t].win
    OBVIOUS
  <2> DEFINE renewed == job[t].ok /\ Current(a) /\ WindowOf(t) > 0
             j == [job[t] EXCEPT !.pc = "renewed", !.ok = renewed, !.win = 0]
  <2>1. /\ job[t].pc = "renew" /\ job[t].todo = {} /\ job[t].cmd \notin Commands
        /\ a \in Attempts /\ stage[a] \in Issued /\ n \in 0..Window
    BY <1>1, <1>3, <1>11, <2>0 DEF RenewAnswered, At, JobOK, Job
  <2>2. /\ valid' = [valid EXCEPT ![a] = IF renewed THEN n ELSE @] /\ Goto(t, j)
        /\ UNCHANGED <<ask, stage, leases, identities, pending, bytes, vetoes, log, closed, remote>>
    BY <1>11, <2>0 DEF RenewAnswered, WindowOf
  <2>3. /\ j \in Job /\ j.pc = "renewed" /\ j.op = job[t].op /\ j.id = job[t].id /\ j.key = job[t].key
        /\ j.cmd = job[t].cmd /\ j.att = job[t].att
    BY <1>1, <2>1, WindowFacts DEF Job, Pcs, Current
  <2>4. renewed => stage[a] = "ticket" /\ job[t].ok
    BY DEF Current
  <2> HIDE DEF j, renewed
  <2>5. job' = [job EXCEPT ![t] = j] /\ job'[t] = j /\ use' = use
    BY <1>5, <2>2, <2>3
  <2>6. BooksTyped' /\ VetoesTyped'
    BY <1>1, <1>7, <2>1, <2>2 DEF BooksTyped, VetoesTyped, vetoes
  <2>7. /\ stage'[a] = stage[a] /\ ask'[a] = ask[a] /\ valid'[a] = IF renewed THEN n ELSE valid[a]
        /\ \A b \in Attempts \ {a} : ask'[b] = ask[b] /\ stage'[b] = stage[b] /\ valid'[b] = valid[b]
    BY <1>7, <2>1, <2>2
  <2>8. ASSUME stage'[a] = "ticket", NEW r \in Ranks PROVE Backed(r, a, valid[a])'
    <3>1. Backed(r, a, valid'[a])
      BY <1>1, <2>0, <2>1, <2>4, <2>7, <2>8 DEF Windows, WindowBy
    <3>2. rank' = rank
      BY <2>2 DEF remote
    <3>3. QED
      BY <2>7, <3>1, <3>2 DEF Backed
  <2>9. JobOK(t)' /\ WindowBy(t)' /\ LetGoBy(t)' /\ OwedBy(t)'
    BY <1>1, <2>1, <2>2, <2>3, <2>5 DEF JobOK, WindowBy, LetGoBy, OwedBy
  <2>10. /\ Advance(t, a) /\ stage[a] \notin {"new", "failed"} /\ ask[a] \in Identities
         /\ stage[a] = "dropped" => \A r \in Ranks : ~Holds(r, a)
    BY <1>1, <2>1, <2>7 DEF Advance, Issued, Asked, LetGo
  <2>11. QED
    BY <2>1, <2>2, <2>3, <2>5, <2>6, <2>7, <2>8, <2>9, <2>10, BookSteps
<1>12. CASE Retire(t)
  <2>0. PICK a : a = job[t].att
    OBVIOUS
  <2> DEFINE j == [job[t] EXCEPT !.pc = "release", !.todo = Ranks, !.ok = TRUE]
  <2>1. /\ job[t].pc = "retire" /\ job[t].cmd \notin Commands
        /\ a \in Attempts /\ stage[a] \in Issued
    BY <1>1, <1>3, <1>12, <2>0 DEF Retire, At, JobOK
  <2>2. /\ IF a \in Tickets
           THEN stage' = [stage EXCEPT ![a] = "retiring"] /\ valid' = [valid EXCEPT ![a] = 0]
           ELSE UNCHANGED <<stage, valid>>
        /\ Goto(t, j)
        /\ UNCHANGED <<ask, leases, identities, pending, bytes, vetoes, log, closed, remote>>
    BY <1>12, <2>0 DEF Retire
  <2>3. /\ j \in Job /\ j.pc = "release" /\ j.op = job[t].op /\ j.id = job[t].id /\ j.key = job[t].key
        /\ j.cmd = job[t].cmd /\ j.att = job[t].att /\ j.todo = Ranks
    BY <1>1, <2>1 DEF Job, Pcs
  <2> HIDE DEF j
  <2>4. job' = [job EXCEPT ![t] = j] /\ job'[t] = j /\ use' = use
    BY <1>5, <2>2, <2>3
  <2>5. BooksTyped' /\ VetoesTyped'
    BY <1>1, <1>7, <2>1, <2>2, WindowFacts DEF BooksTyped, VetoesTyped, vetoes
  <2>6. /\ stage'[a] = IF a \in Tickets THEN "retiring" ELSE "dropped"
        /\ a \in Tickets <=> stage[a] \in {"ticket", "retiring"}
        /\ ask' = ask
        /\ \A b \in Attempts \ {a} : ask'[b] = ask[b] /\ stage'[b] = stage[b] /\ valid'[b] = valid[b]
    BY <1>7, <2>1, <2>2 DEF Tickets, Issued
  <2>7. JobOK(t)' /\ WindowBy(t)' /\ LetGoBy(t)' /\ OwedBy(t)'
    BY <1>1, <2>0, <2>1, <2>3, <2>4, <2>6 DEF JobOK, WindowBy, LetGoBy, OwedBy, Issued
  <2>8. Advance(t, a) /\ (stage'[a] = "dropped" => stage[a] = "dropped")
    BY <2>1, <2>6 DEF Advance, Issued
  <2>9. ask[a] \in Identities /\ (stage[a] = "dropped" => \A r \in Ranks : ~Holds(r, a))
    BY <1>1, <2>1 DEF Asked, LetGo, Issued
  <2>10. QED
    BY <2>1, <2>2, <2>3, <2>4, <2>5, <2>6, <2>7, <2>8, <2>9, BookSteps
<1>13. CASE ReleaseEnd(t)
  <2>0. PICK a : a = job[t].att
    OBVIOUS
  <2>1. /\ job[t].pc = "release" /\ job[t].todo = {} /\ job[t].cmd \notin Commands /\ Goto(t, Idle)
        /\ a \in Attempts /\ stage[a] \in {"retiring", "dropped"}
        /\ UNCHANGED <<ask, leases, valid, pending, condemned, log, closed, remote>>
    BY <1>1, <1>4, <1>13, <2>0 DEF ReleaseEnd, At, JobOK, DrainOver, Draining
  <2>2. ask[a] \in Identities
    BY <1>1, <2>1 DEF Asked
  <2>3. CASE Dropping(t)
    <3>1. /\ stage' = [stage EXCEPT ![a] = "dropped"] /\ identities' = [identities EXCEPT ![ask[a]] = None]
          /\ bytes' = bytes - Charge[ask[a].key]
          /\ ClearVeto(ask[a].key, invalidateAcked, Tickets \ {a}, pending)
      BY <1>13, <2>0, <2>3 DEF ReleaseEnd
    <3>2. BooksTyped' /\ VetoesTyped'
      <4>1. bytes' \in Int
        BY <1>2, <1>7, <2>2, <3>1
      <4>2. VetoesTyped'
        BY <1>1, <2>1, <3>1 DEF VetoesTyped, ClearVeto
      <4>3. QED
        BY <1>7, <2>1, <2>2, <3>1, <4>1, <4>2 DEF BooksTyped
    <3>3. /\ stage'[a] = "dropped" /\ ask'[a] = ask[a] /\ stage[a] \in {"ticket", "retiring"}
          /\ \A b \in Attempts \ {a} : ask'[b] = ask[b] /\ stage'[b] = stage[b] /\ valid'[b] = valid[b]
      BY <1>7, <2>0, <2>1, <2>3, <3>1 DEF Dropping, Tickets
    <3>4. \A r \in Ranks : ~Holds(r, a)
      BY <1>1, <2>0, <2>1, <2>3 DEF LetGo, LetGoBy, Dropping, Acknowledged
    <3>5. Advance(t, a)
      BY <3>3 DEF Advance
    <3>6. QED
      BY <1>6, <2>1, <2>2, <3>1, <3>2, <3>3, <3>4, <3>5, BookSteps
  <2>4. CASE ~Dropping(t)
    <3>1. UNCHANGED <<stage, identities, bytes, invalid, invalidateAcked>>
      BY <1>13, <2>4 DEF ReleaseEnd
    <3>2. BooksTyped' /\ VetoesTyped'
      BY <1>1, <2>1, <3>1 DEF BooksTyped, VetoesTyped
    <3>3. Advance(t, a) /\ (stage[a] = "dropped" => \A r \in Ranks : ~Holds(r, a))
      BY <1>1, <2>1, <3>1 DEF Advance, LetGo
    <3>4. QED
      BY <1>6, <2>1, <2>2, <3>1, <3>2, <3>3, BookSteps
  <2>5. QED
    BY <2>3, <2>4
<1>14. QED
  BY <1>8, <1>9, <1>10, <1>11, <1>12, <1>13 DEF Booking

-----------------------------------------------------------------------------
(* The fan-out of a reservation, and the clock.                            *)

LEMMA Reservations ==
  ASSUME LeaseInv, NEW t \in Threads, NEW r \in Ranks, ReserveRank(t, r)
  PROVE  LeaseInv'
<1>0. PICK a, n : a = job[t].att /\ n = job[t].win
  OBVIOUS
<1>1. /\ Typed /\ Jobs /\ JobOK(t) /\ job \in [Threads -> Job] /\ job[t] \in Job
      /\ Asked /\ Sent /\ Windows /\ LetGo /\ Owed
      /\ rank \in [Ranks -> Stores] /\ wire \subseteq Commands
      /\ leases \in [Attempts -> SUBSET Ranks] /\ valid \in [Attempts -> 0..Window]
  BY DEF LeaseInv, Jobs, Typed, BooksTyped
<1>2. /\ job[t].pc = "fanout" /\ r \in job[t].todo /\ t = Scheduler /\ job[t].cmd \notin Commands
      /\ a \in Attempts /\ stage[a] = "asked" /\ r \notin leases[a] /\ n \in 0..Window
  BY <1>0, <1>1 DEF ReserveRank, At, JobOK, Draining, Job
<1> DEFINE c == Call("reserve", r, a)
<1>3. c \in Commands /\ c.kind = "reserve" /\ c.rank = r /\ c.arg = a
  BY <1>2, CommandFacts DEF Call
<1>4. /\ UNCHANGED <<ask, stage, identities, valid, pending, bytes, vetoes, log>>
      /\ invalid' = invalid /\ invalidateAcked' = invalidateAcked /\ condemned' = condemned
      /\ Queued' = Queued
  BY DEF ReserveRank, vetoes, log, Queued
<1>5. PICK ok \in BOOLEAN :
        /\ Goto(t, Called(t, r, ok))
        /\ IF ok THEN /\ rank' = After(c) /\ Grantable(rank[r], a) /\ wire' = wire
                      /\ leases' = [leases EXCEPT ![a] = @ \cup {r}]
           ELSE rank' = rank /\ wire' \subseteq wire \cup {c} /\ leases' = leases
        /\ closed' \in BOOLEAN /\ (closed => closed')
  <2>1. LogTyped
    BY <1>1 DEF Typed
  <2>2. QED
    BY <1>0, <2>1 DEF ReserveRank, Answered, Unanswered, Recorded, remote, LogTyped
<1> HIDE DEF c
<1>6. /\ job' \in [Threads -> Job] /\ (\A u \in Threads \ {t} : job'[u] = job[u]) /\ use' = use
      /\ job'[t].pc = "fanout" /\ job'[t].op = job[t].op /\ job'[t].id = job[t].id /\ job'[t].att = a
      /\ job'[t].key = job[t].key /\ job'[t].win = n /\ job'[t].cmd = job[t].cmd
      /\ job'[t].todo = job[t].todo \ {r} /\ job'[t].ok = (job[t].ok /\ ok)
  <2>1. job' = [job EXCEPT ![t] = Called(t, r, ok)] /\ use' = use
    BY <1>5 DEF Goto
  <2>2. QED
    BY <1>0, <1>1, <1>2, <2>1, CalledFacts
<1>7. /\ rank' \in [Ranks -> Stores]
      /\ \A r2 \in Ranks, b \in Attempts : r2 # r \/ b # a => Undisturbed(r2, b) /\ Spared(r2, b)
      /\ ask[a].writing \/ rank'[r].obj[a] = rank[r].obj[a]
      /\ ok => rank'[r].left[a] = Ttl /\ (~ask[a].writing => rank'[r].hold[a] # None)
  <2>1. CASE ok
    <3>1. /\ rank' \in [Ranks -> Stores]
          /\ \A r2 \in Ranks, b \in Attempts :
               /\ c # Call("reserve", r2, b) => Undisturbed(r2, b)
               /\ c \notin {Call("reserve", r2, b), Call("release", r2, b)} => Spared(r2, b)
               /\ c = Call("reserve", r2, b) =>
                   /\ rank'[r2].left[b] = Ttl
                   /\ ~ask[b].writing => /\ rank'[r2].hold[b] # None
                                         /\ rank'[r2].obj[b] = rank[r2].obj[b]
      BY <1>1, <1>3, <1>5, <2>1, AfterFacts
    <3>2. \A r2 \in Ranks, b \in Attempts :
            /\ c # Call("release", r2, b)
            /\ c = Call("reserve", r2, b) <=> r2 = r /\ b = a
      BY DEF c, Call
    <3>3. QED
      BY <1>2, <3>1, <3>2
  <2>2. CASE ~ok
    <3>1. rank' = rank /\ \A r2 \in Ranks, b \in Attempts : rank[r2].left[b] \in Nat
      BY <1>1, <1>5, <2>2, Bounds DEF Stores
    <3>2. QED
      BY <1>1, <2>2, <3>1 DEF Undisturbed, Spared, Holds
  <2>3. QED
    BY <2>1, <2>2
<1>8. /\ leases' \in [Attempts -> SUBSET Ranks] /\ leases'[a] \subseteq leases[a] \cup {r}
      /\ \A b \in Attempts \ {a} : leases'[b] = leases[b]
      /\ wire' \subseteq wire \cup {c} /\ (ok => wire' = wire) /\ (~ok => leases'[a] = leases[a])
  BY <1>1, <1>2, <1>5
<1>9. Typed'
  <2>1. BooksTyped' /\ VetoesTyped' /\ LogTyped'
    BY <1>1, <1>4, <1>5, <1>8 DEF Typed, BooksTyped, VetoesTyped, LogTyped, log
  <2>2. QED
    BY <1>1, <1>3, <1>6, <1>7, <1>8, <2>1 DEF Typed
<1>10. Jobs'
  <2>1. ASSUME NEW u \in Threads \ {t} PROVE JobOK(u)'
    <3>1. job[u].pc # "fanout"
      BY <1>1, <1>2 DEF Jobs, JobOK
    <3>2. QED
      BY <1>1, <1>4, <1>6, <3>1 DEF Jobs, JobOK, Draining
  <2>2. JobOK(t)'
    BY <1>0, <1>1, <1>2, <1>4, <1>6, <1>8 DEF JobOK
  <2>3. QED
    BY <2>1, <2>2 DEF Jobs
<1>11. Asked'
  <2>1. ASSUME NEW b \in Attempts, NEW r2 \in Ranks, rank'[r2].obj[b] # "none"
        PROVE  stage[b] # "new" /\ ask[b].writing
    BY <1>1, <1>2, <1>7, <2>1 DEF Asked, Undisturbed
  <2>2. \A b \in Attempts : stage[b] = "new" => leases'[b] = {}
    BY <1>1, <1>2, <1>8 DEF Asked
  <2>3. QED
    BY <1>1, <1>4, <2>1, <2>2 DEF Asked
<1>12. Replayed' = Replayed
  <2>1. \A u \in Threads : job'[u].cmd = job[u].cmd
    BY <1>6
  <2>2. QED
    BY <1>4, <2>1 DEF Replayed
<1>13. Sent'
  <2>1. \A u \in Threads : job'[u].pc = job[u].pc /\ job'[u].att = job[u].att
    BY <1>0, <1>2, <1>6
  <2>2. ASSUME NEW x \in wire' \cup Replayed', x \in Commands, x.kind = "release"
        PROVE  /\ stage[x.arg] \notin {"new", "ticket"}
               /\ \A u \in Threads : ~(job[u].pc = "fanout" /\ job[u].att = x.arg)
    <3>1. x \in wire \cup Replayed
      BY <1>3, <1>8, <1>12, <2>2
    <3>2. QED
      BY <1>1, <2>2, <3>1 DEF Sent
  <2>3. ASSUME NEW x \in wire', x.kind = "reserve"
        PROVE  /\ stage[x.arg] \in {"asked", "failed"}
               /\ x.rank \notin leases'[x.arg]
               /\ \A u \in Threads : job'[u].pc = "fanout" /\ job'[u].att = x.arg =>
                                       ~job'[u].ok /\ x.rank \notin job'[u].todo
    <3>1. \A u \in Threads : job'[u].pc = "fanout" => u = t
      BY <1>1, <1>2, <2>1 DEF Jobs, JobOK
    <3>2. CASE x \in wire
      <4>1. x.arg \in Attempts /\ stage[x.arg] \in {"asked", "failed"} /\ x.rank \notin leases[x.arg]
            /\ (x.arg = a => ~job[t].ok /\ x.rank \notin job[t].todo)
        <5>1. x \in Commands
          BY <1>1, <3>2
        <5>2. x.arg \in Attempts
          BY <2>3, <5>1 DEF Commands
        <5>3. /\ stage[x.arg] \in {"asked", "failed"} /\ x.rank \notin leases[x.arg]
              /\ \A u \in Threads : job[u].pc = "fanout" /\ job[u].att = x.arg =>
                                      ~job[u].ok /\ x.rank \notin job[u].todo
          BY <1>1, <2>3, <3>2 DEF Sent
        <5>4. QED
          BY <1>0, <1>2, <5>2, <5>3
      <4>2. QED
        <5>1. x.rank \notin leases'[x.arg]
          <6>1. CASE x.arg = a
            BY <1>2, <1>8, <4>1, <6>1
          <6>2. CASE x.arg # a
            BY <1>8, <4>1, <6>2
          <6>3. QED
            BY <6>1, <6>2
        <5>2. ASSUME NEW u \in Threads, job'[u].pc = "fanout", job'[u].att = x.arg
              PROVE  ~job'[u].ok /\ x.rank \notin job'[u].todo
          <6>1. u = t /\ x.arg = a
            BY <1>6, <3>1, <5>2
          <6>2. QED
            BY <1>6, <4>1, <6>1
        <5>3. QED
          BY <4>1, <5>1, <5>2
    <3>3. CASE x = c /\ ~ok
      BY <1>2, <1>3, <1>6, <1>8, <3>1, <3>3
    <3>4. QED
      BY <1>8, <3>2, <3>3
  <2>4. QED
    BY <1>1, <1>4, <2>1, <2>2, <2>3 DEF Sent
<1>14. ASSUME NEW r2 \in Ranks, NEW b \in Attempts, NEW m \in 0..Window, Backed(r2, b, m), r2 # r \/ b # a
       PROVE  Backed(r2, b, m)'
  <2>1. rank[r2].left[b] \in Nat /\ rank'[r2].left[b] \in Nat /\ m \in Nat
    BY <1>1, <1>7, Bounds DEF Stores
  <2>2. QED
    BY <1>4, <1>7, <1>14, <2>1 DEF Backed, Spared
<1>15. Windows'
  <2>1. ASSUME NEW b \in Attempts, stage[b] = "ticket", NEW r2 \in Ranks PROVE Backed(r2, b, valid[b])'
    <3>1. PICK m \in 0..Window : m = valid[b] /\ m = valid'[b]
      BY <1>1, <1>4
    <3>2. Backed(r2, b, m) /\ b # a
      BY <1>1, <1>2, <2>1, <3>1 DEF Windows
    <3>3. Backed(r2, b, m)'
      BY <1>14, <3>2
    <3>4. QED
      BY <3>1, <3>3
  <2>2. ASSUME NEW u \in Threads \ {t} PROVE WindowBy(u)'
    <3>1. PICK b, m : b = job[u].att /\ m = job[u].win
      OBVIOUS
    <3>2. job'[u] = job[u] /\ JobOK(u) /\ m \in 0..Window
      BY <1>1, <1>6, <3>1 DEF Jobs, Job
    <3>3. SUFFICES ASSUME job[u].ok, job[u].pc \in {"fanout", "renew"}, stage[b] \in {"asked", "ticket"},
                          NEW r2 \in Ranks \ job[u].todo
                   PROVE  Backed(r2, b, m)'
      BY <1>4, <3>1, <3>2 DEF WindowBy
    <3>4. b \in Attempts /\ stage[b] = "ticket" /\ b # a
      BY <1>2, <3>1, <3>2, <3>3 DEF JobOK, Issued
    <3>5. Backed(r2, b, m)
      BY <1>1, <3>1, <3>3 DEF Windows, WindowBy
    <3>6. QED
      BY <1>14, <3>2, <3>4, <3>5
  <2>3. WindowBy(t)'
    <3>1. SUFFICES ASSUME job[t].ok, ok, NEW r2 \in Ranks \ (job[t].todo \ {r})
                   PROVE  Backed(r2, a, n)'
      BY <1>6 DEF WindowBy
    <3>2. CASE r2 = r
      <4>1. rank'[r].left[a] > n
        BY <1>2, <1>7, <3>1, Bounds
      <4>2. QED
        BY <1>4, <1>7, <3>1, <3>2, <4>1 DEF Backed
    <3>3. CASE r2 # r
      <4>1. Backed(r2, a, n)
        BY <1>0, <1>1, <1>2, <3>1, <3>3 DEF Windows, WindowBy
      <4>2. QED
        BY <1>2, <1>14, <3>3, <4>1
    <3>4. QED
      BY <3>2, <3>3
  <2>4. QED
    BY <1>4, <2>1, <2>2, <2>3 DEF Windows
<1>16. LetGo'
  <2>1. ASSUME NEW u \in Threads PROVE LetGoBy(u)'
    <3>1. PICK b : b = job[u].att
      OBVIOUS
    <3>2. SUFFICES ASSUME job'[u] = job[u], job[u].ok, job[u].pc = "release", NEW r2 \in Ranks \ job[u].todo
                   PROVE  ~Holds(r2, b)'
      BY <1>6, <3>1 DEF LetGoBy
    <3>3. b \in Attempts /\ b # a /\ ~Holds(r2, b)
      BY <1>1, <1>2, <3>1, <3>2 DEF Jobs, JobOK, LetGo, LetGoBy
    <3>4. QED
      BY <1>7, <3>2, <3>3 DEF Undisturbed
  <2>2. ASSUME NEW b \in Attempts, stage[b] = "dropped", NEW r2 \in Ranks PROVE ~Holds(r2, b)'
    BY <1>1, <1>2, <1>7, <2>2 DEF LetGo, Undisturbed
  <2>3. QED
    BY <1>4, <2>1, <2>2 DEF LetGo
<1>17. Owed'
  <2>1. ASSUME NEW u \in Threads PROVE OwedBy(u)'
    <3>1. job'[u].pc # "rollback"
      BY <1>1, <1>2, <1>6 DEF Jobs, JobOK
    <3>2. QED
      BY <3>1 DEF OwedBy
  <2>2. ASSUME NEW b \in Attempts, stage[b] = "failed", NEW r2 \in leases'[b] PROVE Owing(r2, b)'
    <3>1. b # a /\ r2 \in leases[b] /\ r2 \in Ranks
      BY <1>1, <1>2, <1>8, <2>2
    <3>2. Owing(r2, b)
      BY <1>1, <2>2, <3>1 DEF Owed
    <3>3. QED
      BY <1>5, <1>7, <1>12, <3>1, <3>2 DEF Owing, Undisturbed
  <2>3. QED
    BY <1>4, <2>1, <2>2 DEF Owed
<1>18. QED
  BY <1>9, <1>10, <1>11, <1>13, <1>15, <1>16, <1>17 DEF LeaseInv

LEMMA TickedFacts ==
  ASSUME NEW R \in Stores
  PROVE  /\ Ticked(R) \in Stores
         /\ \A a \in Attempts :
              /\ Ticked(R).left[a] = Less(R.left[a])
              /\ Ticked(R).obj[a] = "none" <=> R.obj[a] = "none"
              /\ Ticked(R).obj[a] = "W" => R.obj[a] = "W"
              /\ Ticked(R).hold[a] # None => R.hold[a] # None
              /\ R.left[a] > 1 => Ticked(R).hold[a] = R.hold[a]
<1>1. \A a \in Attempts : R.left[a] \in 0..Ttl /\ a \in Objects /\ Less(R.left[a]) \in 0..Ttl
  BY Bounds DEF Stores, Objects, Less
<1>2. /\ Ticked(R).obj = [o \in Objects |-> IF o \in Attempts /\ R.obj[o] = "W" /\ R.left[o] = 1 THEN "T" ELSE R.obj[o]]
      /\ Ticked(R).hold = [a \in Attempts |-> IF R.left[a] <= 1 THEN None ELSE R.hold[a]]
      /\ Ticked(R).left = [a \in Attempts |-> Less(R.left[a])]
  BY DEF Ticked
<1>3. Ticked(R) \in Stores
  BY <1>1 DEF Ticked, Stores
<1>4. QED
  BY <1>1, <1>2, <1>3, Bounds

LEMMA Ticks ==
  ASSUME LeaseInv, Tick
  PROVE  LeaseInv'
<1>1. /\ Typed /\ Jobs /\ Asked /\ Sent /\ Windows /\ LetGo /\ Owed
      /\ rank \in [Ranks -> Stores] /\ job \in [Threads -> Job]
      /\ leases \in [Attempts -> SUBSET Ranks] /\ valid \in [Attempts -> 0..Window]
  BY DEF LeaseInv, Typed, BooksTyped
<1>2. /\ rank' = [r \in Ranks |-> Ticked(rank[r])]
      /\ valid' = [a \in Attempts |-> Less(valid[a])]
      /\ job' = [t \in Threads |-> [job[t] EXCEPT !.win = Less(@)]]
      /\ UNCHANGED <<use, ask, stage, leases, identities, pending, bytes, vetoes, log, closed, wire>>
  BY DEF Tick
<1>3. \A n \in 0..Window : Less(n) \in 0..Window /\ (Less(n) > 0 => Less(n) = n - 1)
  BY Bounds DEF Less
<1>4. /\ job' \in [Threads -> Job]
      /\ \A t \in Threads : /\ job'[t].pc = job[t].pc /\ job'[t].op = job[t].op /\ job'[t].id = job[t].id
                            /\ job'[t].att = job[t].att /\ job'[t].key = job[t].key
                            /\ job'[t].todo = job[t].todo /\ job'[t].ok = job[t].ok
                            /\ job'[t].cmd = job[t].cmd /\ job'[t].win = Less(job[t].win)
  <2>1. ASSUME NEW J \in Job
        PROVE  /\ [J EXCEPT !.win = Less(J.win)] \in Job
               /\ [J EXCEPT !.win = Less(J.win)].pc = J.pc /\ [J EXCEPT !.win = Less(J.win)].op = J.op
               /\ [J EXCEPT !.win = Less(J.win)].id = J.id /\ [J EXCEPT !.win = Less(J.win)].att = J.att
               /\ [J EXCEPT !.win = Less(J.win)].key = J.key /\ [J EXCEPT !.win = Less(J.win)].todo = J.todo
               /\ [J EXCEPT !.win = Less(J.win)].ok = J.ok /\ [J EXCEPT !.win = Less(J.win)].cmd = J.cmd
               /\ [J EXCEPT !.win = Less(J.win)].win = Less(J.win)
    BY <1>3 DEF Job
  <2>2. \A t \in Threads : job'[t] = [job[t] EXCEPT !.win = Less(job[t].win)] /\ job[t] \in Job
    BY <1>1, <1>2
  <2>3. QED
    BY <1>2, <2>1, <2>2
<1>5. /\ rank' \in [Ranks -> Stores]
      /\ \A r \in Ranks, a \in Attempts :
           /\ Undisturbed(r, a)
           /\ rank'[r].left[a] = Less(rank[r].left[a])
           /\ rank[r].left[a] > 1 => rank'[r].hold[a] = rank[r].hold[a]
  <2>1. ASSUME NEW r \in Ranks PROVE rank'[r] = Ticked(rank[r]) /\ rank[r] \in Stores
    BY <1>1, <1>2
  <2>2. rank' \in [Ranks -> Stores]
    BY <1>2, <2>1, TickedFacts
  <2>3. QED
    BY <2>1, <2>2, TickedFacts DEF Undisturbed, Holds
<1>6. Typed'
  <2>1. BooksTyped' /\ VetoesTyped' /\ LogTyped'
    BY <1>1, <1>2, <1>3 DEF Typed, BooksTyped, VetoesTyped, LogTyped, vetoes, log, Queued
  <2>2. QED
    BY <1>1, <1>2, <1>4, <1>5, <2>1 DEF Typed
<1>7. Jobs'
  <2>1. ASSUME NEW u \in Threads PROVE JobOK(u)'
    <3>1. /\ JobOK(u) /\ ask' = ask /\ stage' = stage /\ leases' = leases
          /\ job'[u].pc = job[u].pc /\ job'[u].op = job[u].op /\ job'[u].id = job[u].id
          /\ job'[u].att = job[u].att /\ job'[u].key = job[u].key
          /\ job'[u].todo = job[u].todo /\ job'[u].cmd = job[u].cmd
      BY <1>1, <1>2, <1>4 DEF Jobs
    <3>2. QED
      BY <3>1 DEF JobOK, Draining
  <2>2. QED
    BY <2>1 DEF Jobs
<1>8. Asked'
  BY <1>1, <1>2, <1>5 DEF Asked, Undisturbed
<1>9. Queued' = Queued /\ Replayed' = Replayed
  <2>1. Queued' = Queued
    BY <1>2 DEF Queued, log
  <2>2. QED
    BY <1>4, <2>1 DEF Replayed
<1>10. Sent'
  <2>1. \A u \in Threads : /\ job'[u].pc = job[u].pc /\ job'[u].att = job[u].att
                           /\ job'[u].todo = job[u].todo /\ job'[u].ok = job[u].ok
    BY <1>4
  <2>2. stage' = stage /\ leases' = leases /\ wire' = wire
    BY <1>2
  <2>3. QED
    BY <1>1, <1>9, <2>1, <2>2 DEF Sent
<1>11. ASSUME NEW r \in Ranks, NEW a \in Attempts, NEW n \in 0..Window, Backed(r, a, n)
       PROVE  Backed(r, a, Less(n))'
  <2>1. rank[r].left[a] \in Nat /\ n \in Nat
    BY <1>1, Bounds DEF Stores
  <2>2. SUFFICES ASSUME Less(n) > 0
                 PROVE  rank'[r].left[a] > Less(n) /\ (~ask[a].writing => rank'[r].hold[a] # None)
    BY <1>2 DEF Backed
  <2>3. Less(n) = n - 1 /\ n > 1
    BY <1>3, <2>1, <2>2
  <2>4. rank[r].left[a] > n /\ (~ask[a].writing => rank[r].hold[a] # None)
    BY <1>11, <2>1, <2>3 DEF Backed
  <2>5. Less(rank[r].left[a]) = rank[r].left[a] - 1 /\ rank[r].left[a] > 1
    BY <2>1, <2>3, <2>4 DEF Less
  <2>6. QED
    BY <1>5, <2>1, <2>3, <2>4, <2>5
<1>12. Windows'
  <2>1. ASSUME NEW a \in Attempts, stage[a] = "ticket", NEW r \in Ranks PROVE Backed(r, a, valid[a])'
    <3>1. PICK n \in 0..Window : n = valid[a] /\ valid'[a] = Less(n)
      BY <1>1, <1>2
    <3>2. Backed(r, a, n)
      BY <1>1, <2>1, <3>1 DEF Windows
    <3>3. Backed(r, a, Less(n))'
      BY <1>11, <3>2
    <3>4. QED
      BY <3>1, <3>3
  <2>2. ASSUME NEW u \in Threads PROVE WindowBy(u)'
    <3>1. PICK a, n : a = job[u].att /\ n = job[u].win
      OBVIOUS
    <3>2. JobOK(u) /\ n \in 0..Window /\ job'[u].win = Less(n) /\ job'[u].att = a
      BY <1>1, <1>4, <3>1 DEF Jobs, Job
    <3>3. SUFFICES ASSUME job[u].ok, job[u].pc \in {"fanout", "renew"}, stage[a] \in {"asked", "ticket"},
                          NEW r \in Ranks \ job[u].todo
                   PROVE  Backed(r, a, Less(n))'
      BY <1>2, <1>4, <3>1, <3>2 DEF WindowBy
    <3>4. a \in Attempts
      BY <3>1, <3>2, <3>3 DEF JobOK
    <3>5. Backed(r, a, n)
      BY <1>1, <3>1, <3>3 DEF Windows, WindowBy
    <3>6. QED
      BY <1>11, <3>2, <3>4, <3>5
  <2>3. QED
    BY <1>2, <2>1, <2>2 DEF Windows
<1>13. \A r \in Ranks, a \in Attempts : Holds(r, a)' => Holds(r, a)
  BY <1>5 DEF Undisturbed
<1>14. LetGo'
  <2>1. ASSUME NEW u \in Threads PROVE LetGoBy(u)'
    <3>1. PICK a : a = job[u].att
      OBVIOUS
    <3>2. SUFFICES ASSUME job[u].ok, job[u].pc = "release", NEW r \in Ranks \ job[u].todo
                   PROVE  ~Holds(r, a)'
      BY <1>4, <3>1 DEF LetGoBy
    <3>3. a \in Attempts /\ ~Holds(r, a)
      BY <1>1, <3>1, <3>2 DEF Jobs, JobOK, LetGo, LetGoBy
    <3>4. QED
      BY <1>13, <3>2, <3>3
  <2>2. ASSUME NEW a \in Attempts, stage[a] = "dropped", NEW r \in Ranks PROVE ~Holds(r, a)'
    BY <1>1, <1>13, <2>2 DEF LetGo
  <2>3. QED
    BY <1>2, <2>1, <2>2 DEF LetGo
<1>15. ASSUME NEW r \in Ranks, NEW a \in Attempts, Owing(r, a) PROVE Owing(r, a)'
  BY <1>2, <1>9, <1>13, <1>15 DEF Owing
<1>16. Owed'
  <2>1. ASSUME NEW u \in Threads PROVE OwedBy(u)'
    <3>1. PICK a : a = job[u].att
      OBVIOUS
    <3>2. SUFFICES ASSUME job[u].pc = "rollback", NEW r \in leases[a] \ job[u].todo
                   PROVE  Owing(r, a)'
      BY <1>2, <1>4, <3>1 DEF OwedBy
    <3>3. a \in Attempts /\ r \in Ranks /\ Owing(r, a)
      BY <1>1, <3>1, <3>2 DEF Jobs, JobOK, Owed, OwedBy
    <3>4. QED
      BY <1>15, <3>3
  <2>2. ASSUME NEW a \in Attempts, stage[a] = "failed", NEW r \in leases[a] PROVE Owing(r, a)'
    <3>1. r \in Ranks /\ Owing(r, a)
      BY <1>1, <2>2 DEF Owed
    <3>2. QED
      BY <1>15, <3>1
  <2>3. QED
    BY <1>2, <2>1, <2>2 DEF Owed
<1>17. QED
  BY <1>6, <1>7, <1>8, <1>10, <1>12, <1>14, <1>16 DEF LeaseInv

-----------------------------------------------------------------------------
(* The invariant holds in every reachable state.                           *)

LEMMA Start == Init => LeaseInv
<1> SUFFICES ASSUME Init PROVE LeaseInv
  OBVIOUS
<1>1. /\ use \in Uses
      /\ ask = [a \in Attempts |-> None]
      /\ stage = [a \in Attempts |-> "new"]
      /\ leases = [a \in Attempts |-> {}]
      /\ identities = [i \in Identities |-> None]
      /\ valid = [a \in Attempts |-> 0]
      /\ pending = {} /\ bytes = 0
      /\ invalid = {} /\ invalidateAcked = {} /\ condemned = {}
      /\ retry = <<>> /\ cleanupLost = FALSE /\ closed = FALSE
      /\ job = [t \in Threads |-> Idle]
      /\ wire = {}
  BY DEF Init
<1>2. PICK disk \in [Ranks -> SUBSET Keys] :
        rank = [r \in Ranks |-> [obj  |-> [o \in Objects |-> IF o \in disk[r] THEN "C" ELSE "none"],
                                 hold |-> [a \in Attempts |-> None],
                                 left |-> [a \in Attempts |-> 0]]]
  BY DEF Init
<1>3. rank \in [Ranks -> Stores]
  BY <1>2, Bounds DEF Stores
<1>5. Queued = {}
  BY <1>1 DEF Queued, Range
<1>6. Typed
  <2>1. retry \in Seq(Commands) /\ Len(retry) = 0 /\ RetryMax \in Nat
    BY <1>1, Bounds
  <2>2. LogTyped
    <3>1. Len(retry) <= RetryMax
      BY <2>1
    <3>2. Queued \subseteq Commands /\ cleanupLost \in BOOLEAN /\ closed \in BOOLEAN
      BY <1>1, <1>5
    <3>3. QED
      BY <2>1, <3>1, <3>2 DEF LogTyped
  <2>3. BooksTyped /\ VetoesTyped
    BY <1>1, WindowFacts DEF BooksTyped, VetoesTyped
  <2>4. QED
    BY <1>1, <1>3, <2>2, <2>3, IdleFacts DEF Typed
<1>7. \A t \in Threads : job[t].pc = "idle" /\ job[t].op = "none" /\ job[t].cmd = None
  BY <1>1, IdleFacts
<1>8. Jobs
  BY <1>7, CommandFacts DEF Jobs, JobOK
<1>9. Replayed \subseteq {None}
  BY <1>5, <1>7 DEF Replayed
<1>10. Asked /\ Windows /\ LetGo /\ Owed
  <2>1. \A a \in Attempts : rank \in [Ranks -> Stores] /\ \A r \in Ranks : rank[r].obj[a] = "none"
    BY <1>2, <1>3, ObjectAssumption DEF Objects
  <2>2. Asked
    BY <1>1, <2>1 DEF Asked
  <2>3. Windows /\ LetGo /\ Owed
    BY <1>1, <1>7 DEF Windows, WindowBy, LetGo, LetGoBy, Owed, OwedBy
  <2>4. QED
    BY <2>2, <2>3
<1>11. Sent
  <2>1. \A c \in wire \cup Replayed : c \notin Commands
    BY <1>1, <1>9, CommandFacts
  <2>2. QED
    BY <1>1, <1>5, <2>1 DEF Sent
<1>12. QED
  BY <1>6, <1>8, <1>10, <1>11 DEF LeaseInv

LEMMA Step == LeaseInv /\ [Next]_vars => LeaseInv'
<1> SUFFICES ASSUME LeaseInv, [Next]_vars PROVE LeaseInv'
  OBVIOUS
<1>1. ASSUME NEW t \in Threads, Begin(t) PROVE LeaseInv'
  BY <1>1, Begins
<1>2. ASSUME NEW t \in Threads, Proceed(t) PROVE LeaseInv'
  <2>1. Inward(t) \/ Booking(t) \/ DrainPop(t) \/ DrainCall(t)
    BY <1>2 DEF Proceed, Inward, Booking
  <2>2. QED
    BY <2>1, Inwards, Bookings, DrainPops, DrainCalls
<1>3. ASSUME NEW t \in Threads, RankCall(t) PROVE LeaseInv'
  <2>1. PICK r \in Ranks : \/ ReserveRank(t, r) \/ RenewRank(t, r) \/ ReleaseRank(t, r)
                           \/ InvalidateRank(t, r) \/ ExistsRank(t, r)
    BY <1>3 DEF RankCall
  <2>2. CASE ExistsRank(t, r)
    BY <2>2, Inwards DEF Inward
  <2>3. QED
    BY <2>1, <2>2, Reservations, RankCalls
<1>4. ASSUME NEW c \in Commands, Late(c) PROVE LeaseInv'
  BY <1>4, Strays
<1>5. CASE \E r \in Ranks : (\E a \in Attempts : Commit(r, a)) \/ \E o \in Objects : Evict(r, o)
  BY <1>5, Ownwards
<1>6. CASE Tick
  BY <1>6, Ticks
<1>7. CASE Shutdown
  BY <1>7, Ownwards
<1>8. CASE UNCHANGED vars
  <2>1. UNCHANGED <<use, bookkeeping, vetoes, log, job, rank, wire, closed>>
    BY <1>8 DEF vars, remote
  <2>2. /\ rank \in [Ranks -> Stores] /\ closed \in BOOLEAN
        /\ \A r \in Ranks, a \in Attempts : rank[r].left[a] \in Nat
    BY Bounds DEF LeaseInv, Typed, LogTyped, Stores
  <2>3. ASSUME NEW r \in Ranks, NEW a \in Attempts PROVE Undisturbed(r, a) /\ Spared(r, a)
    BY <2>1, <2>2 DEF Undisturbed, Spared, Holds
  <2>4. QED
    BY <2>1, <2>2, <2>3, RankSteps
<1>9. QED
  BY <1>1, <1>2, <1>3, <1>4, <1>5, <1>6, <1>7, <1>8 DEF Next

(* The leases and the log of the coordinator are as LeaseInv says, always. *)
THEOREM CoordinatorSafe == Spec => []LeaseInv
<1>1. Init => LeaseInv
  BY Start
<1>2. LeaseInv /\ [Next]_vars => LeaseInv'
  BY Step
<1>3. QED
  BY <1>1, <1>2, PTL DEF Spec

(* Every variable of RemoteCoordinator and of its ranks keeps its type, and *)
(* the cleanup log its bound.                                               *)
THEOREM CoordinatorTypeCorrect == Spec => []TypeOK
<1>1. LeaseInv => TypeOK
  BY TypedIsTypeOK DEF LeaseInv
<1>2. QED
  BY <1>1, CoordinatorSafe, PTL

(* A ticket whose deadline has not passed has time left on every rank, and *)
(* a load ticket its lease: for any number of ranks, of threads and of     *)
(* calls that are lost or late.                                            *)
THEOREM TicketsAreLeased == Spec => []VouchedLeasesLive
<1>1. LeaseInv => VouchedLeasesLive
  <2> SUFFICES ASSUME LeaseInv, NEW a \in Attempts, Vouched(a), NEW r \in Ranks
               PROVE  rank[r].left[a] > 0 /\ (~ask[a].writing => rank[r].hold[a] # None)
    BY DEF VouchedLeasesLive
  <2>1. /\ stage[a] = "ticket" /\ valid[a] > 0 /\ valid[a] \in 0..Window
        /\ rank \in [Ranks -> Stores] /\ Backed(r, a, valid[a])
    BY DEF LeaseInv, Typed, BooksTyped, Windows, Vouched, Current
  <2>2. rank[r].left[a] \in Nat
    BY <2>1, Bounds DEF Stores
  <2>3. QED
    BY <2>1, <2>2, Bounds DEF Backed
<1>2. QED
  BY <1>1, CoordinatorSafe, PTL

(* No lease the coordinator was given is forgotten while it is open, and   *)
(* what it drops from its books every rank has let go.                     *)
THEOREM NothingForgotten == Spec => []NoForgottenLease
<1>1. LeaseInv => NoForgottenLease
  <2> SUFFICES ASSUME LeaseInv, NEW a \in Attempts
               PROVE  /\ \A r \in leases[a] : Holds(r, a) =>
                           \/ closed
                           \/ stage[a] \in {"asked", "ticket", "retiring"}
                           \/ Call("release", r, a) \in Queued \cup {job[t].cmd : t \in Threads}
                      /\ stage[a] = "dropped" => \A r \in Ranks : ~Holds(r, a)
    BY DEF NoForgottenLease
  <2>1. /\ stage[a] \in {"new", "asked", "ticket", "retiring", "dropped", "failed"}
        /\ leases[a] \subseteq Ranks
    BY DEF LeaseInv, Typed, BooksTyped
  <2>2. stage[a] = "new" => leases[a] = {}
    BY DEF LeaseInv, Asked
  <2>3. stage[a] = "dropped" => \A r \in Ranks : ~Holds(r, a)
    BY DEF LeaseInv, LetGo
  <2>4. stage[a] = "failed" => \A r \in leases[a] : Owing(r, a)
    BY DEF LeaseInv, Owed
  <2>5. QED
    BY <2>1, <2>2, <2>3, <2>4 DEF Owing, Replayed
<1>2. QED
  BY <1>1, CoordinatorSafe, PTL

-----------------------------------------------------------------------------
(* The credits, and the stores that are completed or undone.               *)

-----------------------------------------------------------------------------
(* What one attempt adds to the credits, and takes from them.              *)

LEMMA Credited ==
  ASSUME NEW q, NEW S, NEW a, a \notin S, q[a].key \in Keys, IsFiniteSet(Credits(q, S))
  PROVE  /\ IsFiniteSet(Credits(q, S \cup {a}))
         /\ Cardinality(Credits(q, S \cup {a})) = Cardinality(Credits(q, S)) + Charge[q[a].key]
<1> DEFINE n == Charge[q[a].key]
           block == {a} \X (1..n)
<1>1. n \in Nat \ {0}
  BY ChargeAssumption
<1> HIDE DEF n
<1>2. IsFiniteSet(1..n) /\ Cardinality(1..n) = n
  BY <1>1, FS_Interval
<1>3. IsFiniteSet({a}) /\ Cardinality({a}) = 1
  BY FS_Singleton
<1>4. IsFiniteSet(block) /\ Cardinality(block) = n
  <2>1. IsFiniteSet(block) /\ Cardinality(block) = Cardinality({a}) * Cardinality(1..n)
    BY <1>2, <1>3, FS_Product
  <2>2. QED
    BY <1>1, <1>2, <1>3, <2>1
<1>5. Credits(q, S \cup {a}) = Credits(q, S) \cup block
  BY DEF Credits, n
<1>6. Credits(q, S) \cap block = {}
  BY DEF Credits
<1>7. Cardinality(Credits(q, S)) \in Nat /\ Cardinality({}) = 0
  BY FS_CardinalityType, FS_EmptySet
<1>8. /\ IsFiniteSet(Credits(q, S) \cup block)
      /\ Cardinality(Credits(q, S) \cup block)
           = Cardinality(Credits(q, S)) + Cardinality(block) - Cardinality(Credits(q, S) \cap block)
  BY <1>4, FS_Union
<1>9. Cardinality(Credits(q, S \cup {a})) = Cardinality(Credits(q, S)) + n
  <2> DEFINE C == Credits(q, S)
             B == block
  <2>1. /\ Cardinality(C \cup B) = Cardinality(C) + Cardinality(B) - Cardinality(C \cap B)
        /\ Cardinality(C) \in Nat /\ Cardinality(B) = n /\ Cardinality(C \cap B) = 0
    BY <1>4, <1>6, <1>7, <1>8
  <2> HIDE DEF C, B
  <2>2. Cardinality(C \cup B) = Cardinality(C) + n
    BY <2>1, <1>1
  <2>3. QED
    BY <2>2, <1>5 DEF C, B
<1>10. QED
  BY <1>5, <1>8, <1>9 DEF n

LEMMA Refunded ==
  ASSUME NEW q, NEW S, NEW a \in S, q[a].key \in Keys, IsFiniteSet(Credits(q, S))
  PROVE  /\ IsFiniteSet(Credits(q, S \ {a}))
         /\ Cardinality(Credits(q, S \ {a})) = Cardinality(Credits(q, S)) - Charge[q[a].key]
<1>1. Credits(q, S \ {a}) \in SUBSET Credits(q, S)
  BY DEF Credits
<1>2. IsFiniteSet(Credits(q, S \ {a}))
  BY <1>1, FS_Subset
<1>3. (S \ {a}) \cup {a} = S /\ a \notin S \ {a}
  OBVIOUS
<1>4. Cardinality(Credits(q, S)) = Cardinality(Credits(q, S \ {a})) + Charge[q[a].key]
  BY <1>2, <1>3, Credited
<1>5. Cardinality(Credits(q, S \ {a})) \in Nat /\ Charge[q[a].key] \in Nat
  BY <1>2, FS_CardinalityType, ChargeAssumption
<1>6. QED
  BY <1>2, <1>4, <1>5

LEMMA SameCredits ==
  ASSUME NEW q, NEW p, NEW S, \A a \in S : p[a] = q[a]
  PROVE  Credits(p, S) = Credits(q, S)
BY DEF Credits

-----------------------------------------------------------------------------
(* The books.  The identity of a reservation that is under way is pending, *)
(* and no two of them have the same, so that what ends one removes what it *)
(* added and nothing else.                                                 *)
Single ==
  /\ \A a \in Attempts : stage[a] = "asked" => ask[a] \in pending
  /\ \A a, b \in Attempts : stage[a] = "asked" /\ stage[b] = "asked" /\ ask[a] = ask[b] => a = b

BooksInv == CreditsExact /\ IsFiniteSet(Credits(ask, Charged)) /\ Single

LEMMA FiniteBooks ==
  ASSUME LeaseInv
  PROVE  /\ IsFiniteSet(Tickets) /\ IsFiniteSet(pending)
         /\ Cardinality(Tickets) \in Nat /\ Cardinality(pending) \in Nat
<1>1. Tickets \in SUBSET Attempts /\ pending \in SUBSET Identities
  BY DEF Tickets, LeaseInv, Typed, BooksTyped
<1>2. IsFiniteSet(Tickets) /\ IsFiniteSet(pending)
  BY <1>1, FiniteAssumption, FS_Subset
<1>3. QED
  BY <1>2, FS_CardinalityType

LEMMA EmptyBooks == Init => BooksInv
<1> SUFFICES ASSUME Init PROVE BooksInv
  OBVIOUS
<1>1. Tickets = {} /\ Charged = {} /\ pending = {} /\ bytes = 0
  BY DEF Init, Tickets, Charged
<1>2. Credits(ask, Charged) = {}
  BY <1>1 DEF Credits
<1>3. IsFiniteSet({}) /\ Cardinality({}) = 0
  BY FS_EmptySet
<1>4. Single
  BY DEF Init, Single
<1>5. QED
  BY <1>1, <1>2, <1>3, <1>4, Bounds DEF BooksInv, CreditsExact

(* The five steps that change the books; the others leave them alone.      *)
Entry(t) == \/ (\E a \in Attempts : Admit(t, a)) \/ Accept(t) \/ RollbackEnd(t)
            \/ Retire(t) \/ ReleaseEnd(t)
books == <<ask, stage, pending, bytes>>

LEMMA Frame ==
  ASSUME [Next]_vars, ~\E t \in Threads : Entry(t)
  PROVE  UNCHANGED books
<1>1. CASE UNCHANGED vars
  BY <1>1 DEF vars, bookkeeping, books
<1>2. ASSUME NEW t \in Threads, Begin(t) PROVE UNCHANGED books
  BY <1>2 DEF Begin, BeginReserve, BeginInvalidate, BeginRenew, BeginRelease, BeginComplete,
              bookkeeping, books
<1>3. ASSUME NEW t \in Threads, RankCall(t) PROVE UNCHANGED books
  BY <1>3 DEF RankCall, ReserveRank, RenewRank, ReleaseRank, InvalidateRank, ExistsRank,
              bookkeeping, books
<1>4. ASSUME NEW t \in Threads, Proceed(t) PROVE UNCHANGED books
  <2>1. \/ Recheck(t) \/ Refuse(t) \/ Reject(t) \/ RenewNow(t) \/ RenewAnswered(t) \/ Veto(t)
        \/ ExistsEnd(t) \/ DrainPop(t) \/ DrainCall(t) \/ RenewEnd(t) \/ InvalidateEnd(t)
    BY <1>4 DEF Proceed, Entry
  <2>2. QED
    BY <2>1 DEF Recheck, Refuse, Reject, RenewNow, RenewAnswered, Veto, ExistsEnd, DrainPop,
                DrainCall, RenewEnd, InvalidateEnd, bookkeeping, books
<1>5. CASE \/ \E c \in Commands : Late(c)
           \/ \E r \in Ranks : (\E a \in Attempts : Commit(r, a)) \/ \E o \in Objects : Evict(r, o)
           \/ Tick \/ Shutdown
  BY <1>5 DEF Late, Commit, Evict, Tick, Shutdown, bookkeeping, books
<1>6. QED
  BY <1>1, <1>2, <1>3, <1>4, <1>5 DEF Next

LEMMA Entries ==
  ASSUME LeaseInv, BooksInv, NEW t \in Threads, Entry(t)
  PROVE  BooksInv'
<1>1. /\ ask \in [Attempts -> Identities \cup {None}]
      /\ stage \in [Attempts -> {"new", "asked", "ticket", "retiring", "dropped", "failed"}]
      /\ pending \subseteq Identities /\ bytes \in Int /\ JobOK(t)
      /\ \A a \in Attempts : stage[a] # "new" => ask[a] \in Identities
  BY DEF LeaseInv, Typed, BooksTyped, Jobs, Asked
<1>2. \A i \in Identities : i.key \in Keys
  BY IdentityAssumption
<1>3. /\ IsFiniteSet(Credits(ask, Charged)) /\ bytes = Cardinality(Credits(ask, Charged))
      /\ bytes <= MaxBytes /\ Cardinality(Tickets) + Cardinality(pending) <= MaxKeys /\ Single
  BY DEF BooksInv, CreditsExact
<1>4. /\ IsFiniteSet(Tickets) /\ IsFiniteSet(pending)
      /\ Cardinality(Tickets) \in Nat /\ Cardinality(pending) \in Nat
  BY FiniteBooks
<1>5. MaxKeys \in Nat /\ MaxBytes \in Nat
  BY Bounds
<1>6. CASE \E a \in Attempts : Admit(t, a)
  <2> PICK a \in Attempts : Admit(t, a)
    BY <1>6
  <2> DEFINE i == job[t].id
  <2>1. /\ i \in Identities /\ i \notin pending /\ stage[a] = "new"
        /\ Cardinality(Tickets) + Cardinality(pending) < MaxKeys
        /\ bytes + Charge[i.key] <= MaxBytes
        /\ ask' = [ask EXCEPT ![a] = i] /\ stage' = [stage EXCEPT ![a] = "asked"]
        /\ pending' = pending \cup {i} /\ bytes' = bytes + Charge[i.key]
    <3>1. i \in Identities /\ Charge[i.key] \in Nat
      BY <1>1, <1>2, ChargeAssumption DEF Admit, At, JobOK
    <3>2. QED
      BY <3>1, <1>1, <1>4, <1>5 DEF Admit, Pressure
  <2> HIDE DEF i
  <2>2. Tickets' = Tickets /\ Charged' = Charged \cup {a} /\ a \notin Charged /\ ask'[a] = i
    BY <1>1, <2>1 DEF Tickets, Charged
  <2>3. Credits(ask', Charged) = Credits(ask, Charged)
    <3>1. \A b \in Charged : ask'[b] = ask[b]
      BY <1>1, <2>1, <2>2 DEF Charged
    <3>2. QED
      BY <3>1, SameCredits
  <2>4. /\ IsFiniteSet(Credits(ask', Charged'))
        /\ Cardinality(Credits(ask', Charged')) = Cardinality(Credits(ask, Charged)) + Charge[i.key]
    <3>1. ask'[a].key \in Keys /\ IsFiniteSet(Credits(ask', Charged))
      BY <1>2, <1>3, <2>1, <2>2, <2>3
    <3>2. /\ IsFiniteSet(Credits(ask', Charged \cup {a}))
          /\ Cardinality(Credits(ask', Charged \cup {a}))
               = Cardinality(Credits(ask', Charged)) + Charge[ask'[a].key]
      BY <2>2, <3>1, Credited
    <3>3. QED
      BY <2>2, <2>3, <3>2
  <2>5. Cardinality(pending') = Cardinality(pending) + 1
    BY <1>4, <2>1, FS_AddElement
  <2>6. Single'
    BY <1>1, <1>3, <2>1 DEF Single
  <2>7. Cardinality(Tickets') + Cardinality(pending') <= MaxKeys
    BY <1>4, <1>5, <2>1, <2>2, <2>5
  <2>8. QED
    BY <1>3, <2>1, <2>4, <2>6, <2>7 DEF BooksInv, CreditsExact
<1>7. CASE Accept(t)
  <2> DEFINE a == job[t].att
  <2>1. /\ a \in Attempts /\ stage[a] = "asked"
        /\ ask' = ask /\ stage' = [stage EXCEPT ![a] = "ticket"]
        /\ pending' = pending \ {ask[a]} /\ bytes' = bytes
    BY <1>1, <1>7 DEF Accept, At, JobOK
  <2> HIDE DEF a
  <2>2. Tickets' = Tickets \cup {a} /\ a \notin Tickets /\ Charged' = Charged
    BY <1>1, <2>1 DEF Tickets, Charged
  <2>3. /\ Cardinality(Tickets') = Cardinality(Tickets) + 1
        /\ Cardinality(pending') = Cardinality(pending) - 1
    BY <1>3, <1>4, <2>1, <2>2, FS_AddElement, FS_RemoveElement DEF Single
  <2>4. Single'
    BY <1>1, <1>3, <2>1 DEF Single
  <2>5. Cardinality(Tickets') + Cardinality(pending') <= MaxKeys
    BY <1>3, <1>4, <1>5, <2>3
  <2>6. QED
    BY <1>3, <2>1, <2>2, <2>4, <2>5 DEF BooksInv, CreditsExact
<1>8. CASE RollbackEnd(t)
  <2> DEFINE a == job[t].att
  <2>1. /\ a \in Attempts /\ stage[a] = "asked" /\ job[t].key = ask[a].key /\ ask[a] \in Identities
        /\ ask' = ask /\ stage' = [stage EXCEPT ![a] = "failed"]
        /\ pending' = pending \ {ask[a]} /\ bytes' = bytes - Charge[ask[a].key]
    BY <1>1, <1>8 DEF RollbackEnd, At, JobOK
  <2> HIDE DEF a
  <2>2. Tickets' = Tickets /\ Charged' = Charged \ {a} /\ a \in Charged
    BY <1>1, <2>1 DEF Tickets, Charged
  <2>3. /\ IsFiniteSet(Credits(ask', Charged'))
        /\ Cardinality(Credits(ask', Charged')) = Cardinality(Credits(ask, Charged)) - Charge[ask[a].key]
    BY <1>2, <1>3, <2>1, <2>2, Refunded
  <2>4. Cardinality(pending') = Cardinality(pending) - 1
    BY <1>3, <1>4, <2>1, FS_RemoveElement DEF Single
  <2>5. Single'
    BY <1>1, <1>3, <2>1 DEF Single
  <2>6. Charge[ask[a].key] \in Nat
    BY <1>2, <2>1, ChargeAssumption
  <2>7. bytes' <= MaxBytes /\ Cardinality(Tickets') + Cardinality(pending') <= MaxKeys
    BY <1>1, <1>3, <1>4, <1>5, <2>1, <2>2, <2>4, <2>6
  <2>8. QED
    BY <1>3, <2>1, <2>3, <2>5, <2>7 DEF BooksInv, CreditsExact
<1>9. CASE Retire(t)
  <2>1. /\ ask' = ask /\ pending' = pending /\ bytes' = bytes
        /\ \A a \in Attempts : \/ stage'[a] = stage[a]
                               \/ stage[a] \in {"ticket", "retiring"} /\ stage'[a] = "retiring"
    BY <1>1, <1>9 DEF Retire, Tickets
  <2>2. Tickets' = Tickets /\ Charged' = Charged /\ Single'
    BY <1>3, <2>1 DEF Tickets, Charged, Single
  <2>3. QED
    BY <1>3, <2>1, <2>2 DEF BooksInv, CreditsExact
<1>10. CASE ReleaseEnd(t) /\ Dropping(t)
  <2> DEFINE a == job[t].att
  <2>1. /\ a \in Attempts /\ stage[a] \in {"ticket", "retiring"} /\ ask[a] \in Identities
        /\ ask' = ask /\ stage' = [stage EXCEPT ![a] = "dropped"]
        /\ pending' = pending /\ bytes' = bytes - Charge[ask[a].key]
    BY <1>1, <1>10 DEF ReleaseEnd, Dropping, Tickets
  <2> HIDE DEF a
  <2>2. Tickets' = Tickets \ {a} /\ a \in Tickets /\ Charged' = Charged \ {a} /\ a \in Charged
    BY <1>1, <2>1 DEF Tickets, Charged
  <2>3. /\ IsFiniteSet(Credits(ask', Charged'))
        /\ Cardinality(Credits(ask', Charged')) = Cardinality(Credits(ask, Charged)) - Charge[ask[a].key]
    BY <1>2, <1>3, <2>1, <2>2, Refunded
  <2>4. Cardinality(Tickets') = Cardinality(Tickets) - 1
    BY <1>4, <2>2, FS_RemoveElement
  <2>5. Single'
    BY <1>1, <1>3, <2>1 DEF Single
  <2>6. Charge[ask[a].key] \in Nat
    BY <1>2, <2>1, ChargeAssumption
  <2>7. bytes' <= MaxBytes /\ Cardinality(Tickets') + Cardinality(pending') <= MaxKeys
    BY <1>1, <1>3, <1>4, <1>5, <2>1, <2>4, <2>6
  <2>8. QED
    BY <1>3, <2>1, <2>3, <2>5, <2>7 DEF BooksInv, CreditsExact
<1>11. CASE ReleaseEnd(t) /\ ~Dropping(t)
  <2>1. UNCHANGED books
    BY <1>11 DEF ReleaseEnd, books
  <2>2. Tickets' = Tickets /\ Charged' = Charged /\ Single'
    BY <1>3, <2>1 DEF books, Tickets, Charged, Single
  <2>3. QED
    BY <1>3, <2>1, <2>2 DEF BooksInv, CreditsExact, books
<1>12. QED
  BY <1>6, <1>7, <1>8, <1>9, <1>10, <1>11 DEF Entry

LEMMA BooksStep == LeaseInv /\ BooksInv /\ [Next]_vars => BooksInv'
<1> SUFFICES ASSUME LeaseInv, BooksInv, [Next]_vars PROVE BooksInv'
  OBVIOUS
<1>1. CASE \E t \in Threads : Entry(t)
  BY <1>1, Entries
<1>2. CASE ~\E t \in Threads : Entry(t)
  <2>1. UNCHANGED books
    BY <1>2, Frame
  <2>2. QED
    BY <2>1 DEF books, BooksInv, CreditsExact, Single, Tickets, Charged
<1>3. QED
  BY <1>1, <1>2

LEMMA BooksSafe == Spec => []BooksInv
BY EmptyBooks, BooksStep, CoordinatorSafe, PTL DEF Spec

(* The coordinator's byte credits are the charges of its tickets and of    *)
(* its running reservations, each once, and neither bound is ever          *)
(* exceeded, however many threads reserve, complete and let go.            *)
THEOREM CreditsAreExact == Spec => []CreditsExact
<1>1. BooksInv => CreditsExact
  BY DEF BooksInv
<1>2. QED
  BY <1>1, BooksSafe, PTL
-----------------------------------------------------------------------------
(* A store that is undone: once a rank has answered the invalidation, it   *)
(* serves the object no more, and nothing brings it back.                  *)
Gone(r, a) == rank[r].obj[a] \notin {"W", "C"}
UndoneBy(t) == job[t].op = "complete" =>
  /\ job[t].pc = "invalidate" /\ job[t].ok => \A r \in Ranks \ job[t].todo : Gone(r, job[t].att)
  /\ job[t].pc \in {"retire", "release"} /\ job[t].drop /\ ~job[t].proved =>
       \A r \in Ranks : Gone(r, job[t].att)
Undone == \A t \in Threads : UndoneBy(t)

(* Only a reservation of the attempt itself writes its object.             *)
LEMMA AfterGone ==
  ASSUME rank \in [Ranks -> Stores], NEW c \in Commands, rank' = After(c),
         c.kind = "reserve" => Grantable(rank[c.rank], c.arg),
         NEW r \in Ranks, NEW a \in Attempts, c # Call("reserve", r, a), Gone(r, a)
  PROVE  Gone(r, a)'
<1> DEFINE R == rank[c.rank]
           Q == CASE c.kind = "release"    -> Released(R, c.arg)
                  [] c.kind = "renew"      -> Renewed(R, c.arg)
                  [] c.kind = "invalidate" -> Invalidated(R, c.arg)
                  [] c.kind = "reserve"    -> Granted(R, c.arg)
<1>1. /\ c.rank \in Ranks /\ R \in Stores /\ a \in Objects
      /\ c.kind \in {"release", "renew", "reserve"} => c.arg \in Attempts
      /\ c.kind \in {"release", "renew", "reserve", "invalidate"}
  BY DEF Commands, Objects
<1>2. rank' = [rank EXCEPT ![c.rank] = Q]
  BY DEF After
<1> HIDE DEF Q
<1>3. rank'[c.rank] = Q /\ \A s \in Ranks \ {c.rank} : rank'[s] = rank[s]
  BY <1>1, <1>2
<1>4. CASE r # c.rank
  BY <1>3, <1>4 DEF Gone
<1>5. CASE r = c.rank
  <2>0. R.obj[a] \notin {"W", "C"}
    BY <1>5 DEF Gone
  <2>1. CASE c.kind = "release"
    <3>1. Q = Released(R, c.arg)
      BY <2>1 DEF Q
    <3>2. Q.obj[a] \notin {"W", "C"}
      BY <3>1, <2>0, <1>1 DEF Released, Stores
    <3>3. QED
      BY <3>2, <1>3, <1>5 DEF Gone
  <2>2. CASE c.kind = "renew"
    <3>1. Q.obj = R.obj
      BY <2>2, <1>1, RenewedFacts DEF Q
    <3>2. QED
      BY <3>1, <2>0, <1>3, <1>5 DEF Gone
  <2>3. CASE c.kind = "invalidate"
    <3>1. Q = Invalidated(R, c.arg)
      BY <2>3 DEF Q
    <3>2. Q.obj[a] = R.obj[a] \/ Q.obj[a] = "T"
      BY <3>1, <1>1, InvalidatedFacts
    <3>3. QED
      BY <3>2, <2>0, <1>3, <1>5 DEF Gone
  <2>4. CASE c.kind = "reserve"
    <3>1. Q = Granted(R, c.arg) /\ Grantable(R, c.arg)
      BY <2>4 DEF Q
    <3>2. a # c.arg
      BY <2>4, <1>1, <1>5 DEF Call, Commands
    <3>3. Q.obj[a] = R.obj[a]
      BY <3>1, <3>2, <2>4, <1>1, GrantedFacts
    <3>4. QED
      BY <3>3, <2>0, <1>3, <1>5 DEF Gone
  <2>5. QED
    BY <1>1, <2>1, <2>2, <2>3, <2>4
<1>6. QED
  BY <1>4, <1>5

(* An invalidation that is answered takes every object of its key.         *)
LEMMA InvalidatedGone ==
  ASSUME rank \in [Ranks -> Stores], NEW r \in Ranks, NEW a \in Attempts,
         rank' = After(Call("invalidate", r, ask[a].key))
  PROVE  Gone(r, a)'
<1>1. a \in Objects /\ a \notin Keys
  BY ObjectAssumption DEF Objects
<1>2. rank' = [rank EXCEPT ![r] = Invalidated(rank[r], ask[a].key)]
  BY DEF After, Call
<1>3. rank'[r].obj = [o \in Objects |-> IF o \in Of(rank[r], ask[a].key, {"W", "C"}) THEN "T"
                                        ELSE rank[r].obj[o]]
  BY <1>2 DEF Invalidated, Stores
<1>4. QED
  BY <1>1, <1>3 DEF Gone, Of, KeyOf

LEMMA GoneStays ==
  ASSUME LeaseInv, [Next]_vars, NEW r \in Ranks, NEW a \in Attempts, stage[a] \in Issued, Gone(r, a)
  PROVE  Gone(r, a)'
<1>1. /\ rank \in [Ranks -> Stores] /\ job \in [Threads -> Job] /\ Jobs /\ Sent /\ Queued \subseteq Commands
      /\ stage[a] \notin {"asked", "failed"}
      /\ \A s \in Ranks, b \in Attempts : Call("reserve", s, b).kind = "reserve"
                                       /\ Call("reserve", s, b).arg = b
  BY DEF LeaseInv, Typed, LogTyped, Issued, Call
<1>2. CASE rank' = rank
  BY <1>2 DEF Gone
<1>3. ASSUME NEW c \in Commands, rank' = After(c), c.kind = "reserve" => Grantable(rank[c.rank], c.arg),
             c # Call("reserve", r, a)
      PROVE  Gone(r, a)'
  BY <1>1, <1>3, AfterGone
<1>4. ASSUME NEW t \in Threads, Begin(t) PROVE rank' = rank
  BY <1>4 DEF Begin, BeginReserve, BeginInvalidate, BeginRenew, BeginRelease, BeginComplete, remote
<1>5. ASSUME NEW t \in Threads, RankCall(t) PROVE Gone(r, a)'
  <2> PICK s \in Ranks : \/ ReserveRank(t, s) \/ RenewRank(t, s) \/ ReleaseRank(t, s)
                         \/ InvalidateRank(t, s) \/ ExistsRank(t, s)
    BY <1>5 DEF RankCall
  <2>0. JobOK(t) /\ job[t] \in Job
    BY <1>1 DEF Jobs
  <2>1. CASE ReserveRank(t, s)
    <3> DEFINE c == Call("reserve", s, job[t].att)
    <3>1. job[t].att \in Attempts /\ stage[job[t].att] = "asked"
      BY <2>0, <2>1 DEF JobOK, ReserveRank, At
    <3>2. /\ c \in Commands /\ c.kind = "reserve" /\ c.rank = s /\ c.arg = job[t].att
          /\ c # Call("reserve", r, a)
      BY <1>1, <3>1, CommandFacts DEF Call
    <3>3. rank' = rank \/ (rank' = After(c) /\ Grantable(rank[s], job[t].att))
      BY <2>1 DEF ReserveRank, Answered, Unanswered, remote
    <3> HIDE DEF c
    <3>4. QED
      BY <1>2, <1>3, <3>2, <3>3
  <2>2. CASE RenewRank(t, s)
    <3> DEFINE c == Call("renew", s, job[t].att)
    <3>1. c \in Commands /\ c.kind = "renew"
      BY <2>0, <2>2, CommandFacts DEF JobOK, RenewRank, At, Call
    <3>2. rank' = rank \/ rank' = After(c)
      BY <2>2 DEF RenewRank, Answered, Unanswered
    <3> HIDE DEF c
    <3>3. QED
      BY <1>1, <1>2, <1>3, <3>1, <3>2
  <2>3. CASE ReleaseRank(t, s)
    <3> DEFINE c == Call("release", s, job[t].att)
    <3>1. c \in Commands /\ c.kind = "release"
      BY <2>0, <2>3, CommandFacts DEF JobOK, ReleaseRank, Call
    <3>2. rank' = rank \/ rank' = After(c)
      BY <2>3 DEF ReleaseRank, Answered, Unanswered
    <3> HIDE DEF c
    <3>3. QED
      BY <1>1, <1>2, <1>3, <3>1, <3>2
  <2>4. CASE InvalidateRank(t, s)
    <3> DEFINE c == Call("invalidate", s, job[t].key)
    <3>1. c \in Commands /\ c.kind = "invalidate"
      BY <2>0, <2>4, CommandFacts DEF JobOK, InvalidateRank, At, Call
    <3>2. rank' = rank \/ rank' = After(c)
      BY <2>4 DEF InvalidateRank, Answered, Unanswered
    <3> HIDE DEF c
    <3>3. QED
      BY <1>1, <1>2, <1>3, <3>1, <3>2
  <2>5. CASE ExistsRank(t, s)
    BY <2>5, <1>2 DEF ExistsRank, remote
  <2>6. QED
    BY <2>1, <2>2, <2>3, <2>4, <2>5
<1>6. ASSUME NEW t \in Threads, Proceed(t) PROVE Gone(r, a)'
  <2>0. JobOK(t)
    BY <1>1 DEF Jobs
  <2>1. CASE DrainCall(t)
    <3> DEFINE c == job[t].cmd
    <3>1. c \in Commands /\ c.kind \in {"release", "invalidate"}
      BY <2>0, <2>1 DEF JobOK, DrainCall
    <3>2. rank' = rank \/ rank' = After(c)
      BY <2>1 DEF DrainCall, Answered, Unanswered
    <3> HIDE DEF c
    <3>3. QED
      BY <1>1, <1>2, <1>3, <3>1, <3>2
  <2>2. CASE \/ Recheck(t) \/ Refuse(t) \/ (\E b \in Attempts : Admit(t, b)) \/ Accept(t) \/ Reject(t)
             \/ RenewNow(t) \/ RenewAnswered(t) \/ Retire(t) \/ Veto(t) \/ ExistsEnd(t) \/ DrainPop(t)
             \/ RollbackEnd(t) \/ RenewEnd(t) \/ ReleaseEnd(t) \/ InvalidateEnd(t)
    BY <2>2, <1>2 DEF Recheck, Refuse, Admit, Accept, Reject, RenewNow, RenewAnswered, Retire, Veto,
                      ExistsEnd, DrainPop, RollbackEnd, RenewEnd, ReleaseEnd, InvalidateEnd, remote
  <2>3. QED
    BY <1>6, <2>1, <2>2 DEF Proceed
<1>7. ASSUME NEW c \in Commands, Late(c) PROVE Gone(r, a)'
  <2>1. c # Call("reserve", r, a)
    BY <1>1, <1>7 DEF Late, Sent
  <2>2. rank' = rank \/ (rank' = After(c) /\ (c.kind = "reserve" => Grantable(rank[c.rank], c.arg)))
    BY <1>7 DEF Late
  <2>3. QED
    BY <1>2, <1>3, <2>1, <2>2
<1>8. ASSUME NEW s \in Ranks, NEW b \in Attempts, Commit(s, b) PROVE Gone(r, a)'
  <2>1. ~(s = r /\ b = a)
    BY <1>8 DEF Commit, Gone
  <2> DEFINE R == rank[s]
             Q == [R EXCEPT !.obj = [R.obj EXCEPT ![b] = "C"], !.left = [R.left EXCEPT ![b] = Ttl]]
  <2>2. rank' = [rank EXCEPT ![s] = Q]
    <3>1. rank \in [Ranks -> Stores] /\ Commit(s, b)
      BY <1>1, <1>8
    <3>2. QED
      BY ONLY <3>1, s \in Ranks DEF Commit, Stores
  <2>3. Q.obj = [R.obj EXCEPT ![b] = "C"]
    BY <1>1 DEF Stores
  <2> HIDE DEF Q
  <2>4. rank'[r].obj[a] = rank[r].obj[a]
    BY <1>1, <2>1, <2>2, <2>3 DEF Stores, Objects
  <2>5. QED
    BY <2>4 DEF Gone
<1>9. ASSUME NEW s \in Ranks, NEW o \in Objects, Evict(s, o) PROVE Gone(r, a)'
  <2>1. rank' = [rank EXCEPT ![s] = [rank[s] EXCEPT !.obj = [rank[s].obj EXCEPT ![o] = "T"]]]
    BY <1>1, <1>9 DEF Evict, Stores
  <2>2. rank'[r].obj[a] \in {rank[r].obj[a], "T"}
    BY <1>1, <2>1 DEF Stores, Objects
  <2>3. QED
    BY <2>2 DEF Gone
<1>10. CASE Tick
  <2>1. rank'[r].obj = [o \in Objects |-> IF o \in Attempts /\ rank[r].obj[o] = "W" /\ rank[r].left[o] = 1
                                          THEN "T" ELSE rank[r].obj[o]]
    BY <1>10 DEF Tick, Ticked
  <2>2. QED
    BY <2>1 DEF Gone, Objects
<1>11. CASE Shutdown \/ UNCHANGED vars
  BY <1>11, <1>2 DEF Shutdown, vars, remote
<1>12. QED
  BY <1>2, <1>4, <1>5, <1>6, <1>7, <1>8, <1>9, <1>10, <1>11 DEF Next
LEMMA UndoneKept ==
  ASSUME LeaseInv, Undone, [Next]_vars, NEW t \in Threads,
         job'[t].op = job[t].op, job'[t].att = job[t].att,
         job'[t].drop = job[t].drop, job'[t].proved = job[t].proved,
         job'[t].pc \in {"retire", "release"} => job[t].pc \in {"retire", "release"},
         job'[t].pc = "invalidate" => /\ job[t].pc = "invalidate"
                                      /\ job'[t].ok => job[t].ok /\ job'[t].todo = job[t].todo
  PROVE  UndoneBy(t)'
<1>1. job[t].op = "complete" => job[t].att \in Attempts /\ stage[job[t].att] \in Issued
  BY DEF LeaseInv, Jobs, JobOK
<1>2. UndoneBy(t)
  BY DEF Undone
<1>3. ASSUME job[t].op = "complete", NEW r \in Ranks, Gone(r, job[t].att)
      PROVE  rank'[r].obj[job'[t].att] \notin {"W", "C"}
  <2>1. PICK a \in Attempts : a = job[t].att
    BY <1>1, <1>3
  <2>2. Gone(r, a)'
    BY <1>1, <1>3, <2>1, GoneStays
  <2>3. QED
    BY <2>1, <2>2 DEF Gone
<1>4. QED
  BY <1>2, <1>3 DEF UndoneBy, Gone

LEMMA UndoneStep == LeaseInv /\ Undone /\ [Next]_vars => Undone'
<1> SUFFICES ASSUME LeaseInv, Undone, [Next]_vars, NEW u \in Threads PROVE UndoneBy(u)'
  BY DEF Undone
<1>1. /\ job \in [Threads -> Job] /\ rank \in [Ranks -> Stores] /\ \A t \in Threads : JobOK(t)
      /\ UndoneBy(u)
  BY DEF LeaseInv, Typed, Jobs, Undone
<1>2. CASE job'[u] = job[u]
  BY <1>2, UndoneKept
<1>3. ASSUME NEW t \in Threads, NEW j, Goto(t, j) PROVE IF u = t THEN job'[u] = j ELSE job'[u] = job[u]
  BY <1>1, <1>3 DEF Goto
<1>4. ASSUME NEW t \in Threads, NEW j, Goto(t, j), j.op # "complete" PROVE UndoneBy(u)'
  BY <1>2, <1>3, <1>4 DEF UndoneBy
<1>5. ASSUME NEW t \in Threads, NEW j, Goto(t, j), j.pc \in {"idle", "veto", "exists"} PROVE UndoneBy(u)'
  BY <1>2, <1>3, <1>5 DEF UndoneBy
<1>6. ASSUME NEW t \in Threads, NEW j, Goto(t, j), j.op = job[t].op, j.att = job[t].att,
             j.drop = job[t].drop, j.proved = job[t].proved,
             j.pc \in {"retire", "release"} => job[t].pc \in {"retire", "release"},
             j.pc = "invalidate" => /\ job[t].pc = "invalidate"
                                    /\ j.ok => job[t].ok /\ j.todo = job[t].todo
      PROVE  UndoneBy(u)'
  <2>1. CASE u = t
    <3>1. job'[u] = j
      BY <1>3, <1>6, <2>1
    <3>2. QED
      BY <1>6, <2>1, <3>1, UndoneKept
  <2>2. CASE u # t
    BY <1>2, <1>3, <1>6, <2>2
  <2>3. QED
    BY <2>1, <2>2
<1>7. ASSUME NEW t \in Threads, Begin(t) PROVE UndoneBy(u)'
  <2>1. ASSUME NEW i \in Identities, BeginReserve(t, i) PROVE UndoneBy(u)'
    <3> DEFINE j == [Idle EXCEPT !.op = "reserve", !.id = i, !.key = i.key]
    <3>1. j.op = "reserve" /\ [j EXCEPT !.pc = "admit"].op = "reserve"
          /\ [j EXCEPT !.pc = "vouch", !.att = identities[i]].op = "reserve"
      BY DEF Idle
    <3>2. \/ Goto(t, [j EXCEPT !.pc = "admit"])
          \/ Goto(t, [j EXCEPT !.pc = "vouch", !.att = identities[i]])
      BY <2>1 DEF BeginReserve
    <3> HIDE DEF j
    <3>3. QED
      BY <1>4, <3>1, <3>2
  <2>2. ASSUME NEW k \in Keys, BeginInvalidate(t, k) PROVE UndoneBy(u)'
    BY <2>2, <1>4 DEF BeginInvalidate, Idle
  <2>3. ASSUME NEW a \in Attempts, BeginRenew(t, a) PROVE UndoneBy(u)'
    BY <2>3, <1>4 DEF BeginRenew, Idle
  <2>4. ASSUME NEW a \in Attempts, BeginRelease(t, a) PROVE UndoneBy(u)'
    BY <2>4, <1>4 DEF BeginRelease, Idle
  <2>5. ASSUME NEW a \in Attempts, NEW success \in BOOLEAN, BeginComplete(t, a, success)
        PROVE  UndoneBy(u)'
    BY <2>5, <1>5 DEF BeginComplete, Idle
  <2>6. QED
    BY <1>7, <2>1, <2>2, <2>3, <2>4, <2>5 DEF Begin
<1>8. ASSUME NEW t \in Threads, Proceed(t) PROVE UndoneBy(u)'
  <2>0. JobOK(t) /\ job[t] \in Job /\ Idle.pc = "idle"
    BY <1>1, IdleFacts
  <2>1. CASE Recheck(t) \/ Refuse(t) \/ (\E a \in Attempts : Admit(t, a)) \/ Accept(t) \/ Reject(t)
    <3>1. job[t].op = "reserve"
      BY <2>0, <2>1 DEF Recheck, Refuse, Admit, Accept, Reject, At, JobOK
    <3>2. CASE Refuse(t) \/ Accept(t)
      BY <1>5, <2>0, <3>2 DEF Refuse, Accept
    <3>3. CASE Recheck(t)
      <4>1. [job[t] EXCEPT !.pc = "admit", !.att = None].op = "reserve"
        BY <2>0, <3>1 DEF Job
      <4>2. Goto(t, Idle) \/ Goto(t, [job[t] EXCEPT !.pc = "admit", !.att = None])
        BY <3>3 DEF Recheck
      <4>3. QED
        BY <1>4, <1>5, <2>0, <4>1, <4>2
    <3>4. ASSUME NEW a \in Attempts, Admit(t, a) PROVE UndoneBy(u)'
      <4>1. [job[t] EXCEPT !.pc = "fanout", !.att = a, !.todo = Ranks, !.win = Window].op = "reserve"
        BY <2>0, <3>1 DEF Job
      <4>2. Goto(t, [job[t] EXCEPT !.pc = "fanout", !.att = a, !.todo = Ranks, !.win = Window])
        BY <3>4 DEF Admit
      <4>3. QED
        BY <1>4, <4>1, <4>2
    <3>5. CASE Reject(t)
      <4>1. [job[t] EXCEPT !.pc = "rollback", !.todo = leases[job[t].att], !.ok = TRUE, !.win = 0].op = "reserve"
        BY <2>0, <3>1 DEF Job
      <4>2. Goto(t, [job[t] EXCEPT !.pc = "rollback", !.todo = leases[job[t].att], !.ok = TRUE, !.win = 0])
        BY <3>5 DEF Reject
      <4>3. QED
        BY <1>4, <4>1, <4>2
    <3>6. QED
      BY <2>1, <3>2, <3>3, <3>4, <3>5
  <2>2. CASE RenewNow(t) \/ RenewAnswered(t) \/ RenewEnd(t)
    <3>1. job[t].op \in {"reserve", "renew"}
      BY <2>0, <2>2 DEF RenewNow, RenewAnswered, RenewEnd, At, JobOK
    <3>2. \A b \in BOOLEAN : Returned(t, b).op # "complete"
      BY <2>0, <3>1, IdleFacts, ReturnedFacts
    <3>3. CASE RenewNow(t)
      <4>1. [job[t] EXCEPT !.pc = "renew", !.todo = Ranks, !.win = Window].op # "complete"
        BY <2>0, <3>1 DEF Job
      <4>2. Current(job[t].att) \in BOOLEAN
        BY DEF Current
      <4>3. \/ Goto(t, [job[t] EXCEPT !.pc = "renew", !.todo = Ranks, !.win = Window])
            \/ Goto(t, Returned(t, Current(job[t].att)))
        BY <3>3 DEF RenewNow
      <4>4. QED
        BY <1>4, <3>2, <4>1, <4>2, <4>3
    <3>4. CASE RenewAnswered(t)
      <4> DEFINE renewed == job[t].ok /\ Current(job[t].att) /\ WindowOf(t) > 0
      <4>1. [job[t] EXCEPT !.pc = "renewed", !.ok = renewed, !.win = 0].op # "complete"
        BY <2>0, <3>1 DEF Job
      <4>2. Goto(t, [job[t] EXCEPT !.pc = "renewed", !.ok = renewed, !.win = 0])
        BY <3>4 DEF RenewAnswered
      <4>3. QED
        BY <1>4, <4>1, <4>2
    <3>5. CASE RenewEnd(t)
      <4>1. Goto(t, Returned(t, job[t].ok)) /\ job[t].ok \in BOOLEAN
        BY <2>0, <3>5 DEF RenewEnd, Job
      <4>2. QED
        BY <1>4, <3>2, <4>1
    <3>6. QED
      BY <2>2, <3>3, <3>4, <3>5
  <2>3. CASE RollbackEnd(t) \/ ReleaseEnd(t)
    BY <1>5, <2>0, <2>3 DEF RollbackEnd, ReleaseEnd
  <2>4. CASE Retire(t)
    <3> DEFINE j == [job[t] EXCEPT !.pc = "release", !.todo = Ranks, !.ok = TRUE]
    <3>1. /\ j.op = job[t].op /\ j.att = job[t].att /\ j.drop = job[t].drop /\ j.proved = job[t].proved
          /\ j.pc = "release"
      BY <2>0 DEF Job
    <3>2. Goto(t, j) /\ job[t].pc = "retire"
      BY <2>4 DEF Retire, At
    <3> HIDE DEF j
    <3>3. QED
      BY <1>6, <3>1, <3>2
  <2>5. CASE DrainPop(t) \/ DrainCall(t)
    <3>1. PICK c : Goto(t, [job[t] EXCEPT !.cmd = c])
      BY <2>5 DEF DrainPop, DrainCall
    <3> DEFINE j == [job[t] EXCEPT !.cmd = c]
    <3>2. /\ j.op = job[t].op /\ j.att = job[t].att /\ j.drop = job[t].drop /\ j.proved = job[t].proved
          /\ j.pc = job[t].pc /\ j.ok = job[t].ok /\ j.todo = job[t].todo
      BY <2>0 DEF Job
    <3>3. Goto(t, j)
      BY <3>1
    <3> HIDE DEF j
    <3>4. QED
      BY <1>6, <3>2, <3>3
  <2>6. CASE ExistsEnd(t)
    <3> DEFINE j == [job[t] EXCEPT !.pc = IF Proved(t) THEN "retire" ELSE "veto",
                                   !.ok = TRUE, !.proved = job[t].ok]
    <3>1. j.pc \in {"retire", "veto"} /\ (j.pc = "retire" => j.proved)
      BY <2>0 DEF Job, Proved
    <3>2. Goto(t, j)
      BY <2>6 DEF ExistsEnd
    <3> HIDE DEF j
    <3>3. QED
      BY <1>2, <1>3, <3>1, <3>2 DEF UndoneBy
  <2>7. CASE Veto(t)
    <3> DEFINE j == [job[t] EXCEPT !.pc = "invalidate", !.todo = Ranks, !.ok = TRUE]
    <3>1. Goto(t, Vetoed(t, FALSE)) \/ Goto(t, j)
      BY <2>7 DEF Veto
    <3>2. j.pc = "invalidate" /\ j.todo = Ranks
      BY <2>0 DEF Job
    <3> HIDE DEF j
    <3>3. Vetoed(t, FALSE).op = "none" \/ (Vetoed(t, FALSE).pc = "retire" /\ ~Vetoed(t, FALSE).drop)
      BY <2>0, IdleFacts DEF Vetoed, Job
    <3>4. QED
      BY <1>2, <1>3, <3>1, <3>2, <3>3 DEF UndoneBy
  <2>8. CASE InvalidateEnd(t)
    <3> DEFINE acked == Acknowledged(t)
               j == Vetoed(t, acked)
    <3>1. /\ Goto(t, j) /\ job[t].pc = "invalidate" /\ rank' = rank
          /\ acked => job[t].ok /\ job[t].todo = {}
      BY <2>8 DEF InvalidateEnd, At, Acknowledged, DrainOver, Draining, remote
    <3>2. \/ j.op = "none"
          \/ /\ j.op = job[t].op /\ j.pc = "retire" /\ j.att = job[t].att
             /\ j.drop = acked
      BY <2>0, IdleFacts DEF Vetoed, Job
    <3> HIDE DEF j, acked
    <3>3. CASE u = t
      <4>1. job'[u] = j
        BY <1>3, <3>1, <3>3
      <4>2. acked /\ job[u].op = "complete" => \A r \in Ranks : Gone(r, job[u].att)
        BY <1>1, <3>1, <3>3 DEF UndoneBy
      <4>3. QED
        BY <3>1, <3>2, <3>3, <4>1, <4>2 DEF UndoneBy, Gone
    <3>4. CASE u # t
      BY <1>2, <1>3, <3>1, <3>4
    <3>5. QED
      BY <3>3, <3>4
  <2>9. QED
    BY <1>8, <2>1, <2>2, <2>3, <2>4, <2>5, <2>6, <2>7, <2>8 DEF Proceed
<1>9. ASSUME NEW t \in Threads, RankCall(t) PROVE UndoneBy(u)'
  <2>0. JobOK(t) /\ job[t] \in Job
    BY <1>1
  <2> PICK r \in Ranks : \/ ReserveRank(t, r) \/ RenewRank(t, r) \/ ReleaseRank(t, r)
                         \/ InvalidateRank(t, r) \/ ExistsRank(t, r)
    BY <1>9 DEF RankCall
  <2>1. PICK ok \in BOOLEAN : Goto(t, Called(t, r, ok))
    BY DEF ReserveRank, RenewRank, ReleaseRank, InvalidateRank, ExistsRank, Alive
  <2> DEFINE j == Called(t, r, ok)
  <2>2. /\ j.op = job[t].op /\ j.pc = job[t].pc /\ j.att = job[t].att
        /\ j.todo = job[t].todo \ {r} /\ j.ok = (job[t].ok /\ ok)
        /\ j.drop = job[t].drop /\ j.proved = job[t].proved
    BY <2>0 DEF Called, Job
  <2>3. Goto(t, j)
    BY <2>1
  <2> HIDE DEF j
  <2>4. CASE ~InvalidateRank(t, r)
    <3>1. job[t].pc # "invalidate"
      BY <2>4 DEF ReserveRank, RenewRank, ReleaseRank, InvalidateRank, ExistsRank, At
    <3>2. QED
      BY <1>6, <2>2, <2>3, <3>1
  <2>5. CASE InvalidateRank(t, r) /\ u = t
    <3>1. job[t].pc = "invalidate" /\ job'[t] = j
      BY <1>3, <2>3, <2>5 DEF InvalidateRank, At
    <3>2. \/ rank' = After(Call("invalidate", r, job[t].key))
          \/ Goto(t, Called(t, r, FALSE))
      BY <2>5 DEF InvalidateRank, Answered
    <3>3. CASE Goto(t, Called(t, r, FALSE))
      <4>1. Called(t, r, FALSE).ok = FALSE /\ Called(t, r, FALSE).pc = "invalidate"
        BY <2>0, <3>1 DEF Called, Job
      <4>2. job'[t] = Called(t, r, FALSE)
        BY <1>1, <3>3 DEF Goto
      <4>3. QED
        BY <2>5, <4>1, <4>2 DEF UndoneBy
    <3>4. CASE rank' = After(Call("invalidate", r, job[t].key))
      <4> SUFFICES ASSUME job[t].op = "complete", job[t].ok, NEW s \in Ranks \ job'[t].todo
                   PROVE  rank'[s].obj[job'[t].att] \notin {"W", "C"}
        BY <2>2, <2>5, <3>1 DEF UndoneBy, Gone
      <4>1. PICK a \in Attempts : a = job[t].att
        BY <2>0 DEF JobOK
      <4>2. stage[a] \in Issued /\ ask[a].key = job[t].key
        BY <2>0, <4>1 DEF JobOK
      <4>3. Gone(s, a)'
        <5>1. CASE s = r
          BY <1>1, <3>4, <4>2, <5>1, InvalidatedGone
        <5>2. CASE s # r
          <6>1. Gone(s, a)
            BY <1>1, <2>2, <2>5, <3>1, <4>1, <5>2 DEF UndoneBy
          <6>2. QED
            BY <4>2, <6>1, GoneStays
        <5>3. QED
          BY <5>1, <5>2
      <4>4. QED
        BY <2>2, <3>1, <4>1, <4>3 DEF Gone
    <3>5. QED
      BY <3>2, <3>3, <3>4
  <2>6. CASE InvalidateRank(t, r) /\ u # t
    BY <1>2, <1>3, <2>3, <2>6
  <2>7. QED
    BY <2>4, <2>5, <2>6
<1>10. CASE Tick
  <2>1. job'[u] = [job[u] EXCEPT !.win = Less(job[u].win)]
    BY <1>10 DEF Tick
  <2>2. /\ job'[u].op = job[u].op /\ job'[u].pc = job[u].pc /\ job'[u].att = job[u].att
        /\ job'[u].todo = job[u].todo /\ job'[u].ok = job[u].ok
        /\ job'[u].drop = job[u].drop /\ job'[u].proved = job[u].proved
    BY <1>1, <2>1 DEF Job
  <2>3. QED
    BY <2>2, UndoneKept
<1>11. CASE \/ \E c \in Commands : Late(c)
            \/ \E r \in Ranks : (\E a \in Attempts : Commit(r, a)) \/ \E o \in Objects : Evict(r, o)
            \/ Shutdown \/ UNCHANGED vars
  BY <1>2, <1>11 DEF Late, Commit, Evict, Shutdown, vars
<1>12. QED
  BY <1>7, <1>8, <1>9, <1>10, <1>11 DEF Next
(* What ends a store's completion is ReleaseEnd of its own thread.         *)
LEMMA EndedWhole ==
  ASSUME LeaseInv, Undone, [Next]_vars, NEW t \in Threads,
         job[t].op = "complete", job'[t] = Idle,
         stage[job[t].att] = "retiring", stage'[job[t].att] = "dropped"
  PROVE  job[t].proved \/ \A r \in Ranks : rank[r].obj[job[t].att] \notin {"W", "C"}
<1>1. /\ job \in [Threads -> Job] /\ JobOK(t) /\ UndoneBy(t) /\ Idle.op = "none"
      /\ stage \in [Attempts -> {"new", "asked", "ticket", "retiring", "dropped", "failed"}]
      /\ job[t].att \in Attempts
  BY IdleFacts DEF LeaseInv, Typed, BooksTyped, Jobs, JobOK, Undone
<1>2. ASSUME NEW u \in Threads, Entry(u) PROVE ReleaseEnd(u) /\ Dropping(u)
  <2>1. CASE \E a \in Attempts : Admit(u, a)
    BY <2>1, <1>1 DEF Admit
  <2>2. CASE Accept(u) \/ RollbackEnd(u) \/ Retire(u) \/ (ReleaseEnd(u) /\ ~Dropping(u))
    BY <2>2, <1>1 DEF Accept, RollbackEnd, Retire, ReleaseEnd
  <2>3. QED
    BY <1>2, <2>1, <2>2 DEF Entry
<1>3. PICK u \in Threads : ReleaseEnd(u) /\ Dropping(u)
  <2>1. \E v \in Threads : Entry(v)
    BY Frame DEF books
  <2>2. QED
    BY <1>2, <2>1
<1>4. u = t
  <2>1. job' = [job EXCEPT ![u] = Idle]
    BY <1>3 DEF ReleaseEnd, Goto
  <2>2. QED
    BY <1>1, <2>1
<1>5. job[t].pc = "release" /\ job[t].drop
  BY <1>3, <1>4 DEF ReleaseEnd, Dropping, At
<1>6. QED
  BY <1>1, <1>5 DEF UndoneBy, Gone

(* complete_store() lets go of its ticket either with the object proved on *)
(* every rank or with it servable on none, for any number of ranks and     *)
(* whatever was lost, late or replayed meanwhile.                          *)
THEOREM StoredEverywhereOrNowhere == Spec => AllOrNothing
<1> DEFINE Whole ==
      \A t \in Threads : LET j == job[t] IN
        j.op = "complete" /\ job'[t] = Idle /\ stage[j.att] = "retiring" /\ stage'[j.att] = "dropped"
          => j.proved \/ \A r \in Ranks : rank[r].obj[j.att] \notin {"W", "C"}
<1>1. Init => Undone
  BY IdleFacts DEF Init, Undone, UndoneBy
<1>2. LeaseInv /\ Undone /\ [Next]_vars => Undone'
  BY UndoneStep
<1>3. LeaseInv /\ Undone /\ [Next]_vars => Whole
  BY EndedWhole
<1>4. Spec => [][Whole]_vars
  BY <1>1, <1>2, <1>3, CoordinatorSafe, PTL DEF Spec
<1>5. QED
  BY <1>4 DEF AllOrNothing
-----------------------------------------------------------------------------
(* The vetoes.  A rank is clean of a key when it serves no object of it    *)
(* and no ticket can commit one.                                           *)
Clean(r, k) ==
  /\ Of(rank[r], k, {"C"}) = {}
  /\ \A a \in Attempts : stage[a] = "ticket" /\ ask[a].key = k => rank[r].obj[a] # "W"
Unused(k) == \A a \in Charged : ask[a].key # k

(* What a rank holds is of the key that was asked for, a rank executes a   *)
(* reservation once, and what is pending is what is being asked.           *)
HeldOf == \A r \in Ranks, a \in Attempts : LET o == rank[r].hold[a] IN
  o # None => stage[a] # "new" /\ KeyOf(o) = ask[a].key /\ rank[r].obj[o] # "none"
MayReserve(r, a) ==
  \/ Call("reserve", r, a) \in wire
  \/ \E t \in Threads : job[t].pc = "fanout" /\ job[t].att = a /\ r \in job[t].todo
Unspent == \A r \in Ranks, a \in Attempts : MayReserve(r, a) => rank[r].obj[a] = "none"
PendingExact == \A i \in pending : \E a \in Attempts : stage[a] = "asked" /\ ask[a] = i

Indexed == \A i \in Identities : identities[i] # None =>
  stage[identities[i]] # "new" /\ ask[identities[i]] = i

(* A thread that completes a store has its ticket to itself, and no key is *)
(* invalidated on the manager's behalf while it is being reserved.         *)
Vouching == {"vouch", "renew", "renewed", "recheck", "retire", "release"}
Owned ==
  /\ \A t, u \in Workers : t # u /\ job[t].att # None => job[t].att # job[u].att
  /\ \A t \in Workers : job[t].op = "complete" => job[t].att \in Tickets /\ ask[job[t].att].writing
  /\ job[Scheduler].op \in {"none", "reserve"}
  /\ job[Scheduler].pc \in Vouching => ~ask[job[Scheduler].att].writing
Apart == \A t \in Workers :
  job[t].op = "invalidate" /\ job[Scheduler].op = "reserve" => job[t].key # job[Scheduler].key

(* The acknowledgement of a veto, and the invalidation under way.          *)
Acked == \A k \in invalidateAcked : k \in invalid /\ \A r \in Ranks : Clean(r, k)
VetoingBy(t) == job[t].pc = "invalidate" =>
  /\ job[t].key \in invalid \/ (job[t].op = "invalidate" /\ Unused(job[t].key))
  /\ job[t].ok => \A r \in Ranks \ job[t].todo : Clean(r, job[t].key)
Vetoing == \A t \in Threads : VetoingBy(t)

(* An object that was condemned is never written again; while a rank still *)
(* serves it, or a reservation still holds it, its key is vetoed.          *)
Condemned == \A r \in Ranks, o \in Objects : <<r, o>> \in condemned =>
  /\ rank[r].obj[o] \in {"C", "T"}
  /\ rank[r].obj[o] = "C" => KeyOf(o) \in invalid
HeldCondemned ==
  \A r \in Ranks, a \in Charged : <<r, rank[r].hold[a]>> \in condemned => ask[a].key \in invalid

VetoInv == /\ HeldOf /\ Unspent /\ PendingExact /\ Indexed /\ Owned /\ Apart
           /\ Acked /\ Vetoing /\ Condemned /\ HeldCondemned

-----------------------------------------------------------------------------
(* What a step does to the objects of a rank and to what it holds.         *)
LEMMA CallMoves ==
  ASSUME rank \in [Ranks -> Stores], NEW c \in Commands, rank' = After(c),
         c.kind = "reserve" => Grantable(rank[c.rank], c.arg), NEW r \in Ranks
  PROVE  /\ \A o \in Objects : rank'[r].obj[o] # rank[r].obj[o] =>
              \/ rank'[r].obj[o] = "T" /\ rank[r].obj[o] \in {"W", "C"}
              \/ rank'[r].obj[o] = "W" /\ o \in Attempts /\ c = Call("reserve", r, o)
         /\ \A a \in Attempts : rank'[r].hold[a] # rank[r].hold[a] =>
              \/ rank'[r].hold[a] = None
              \/ c = Call("reserve", r, a) /\ rank'[r].hold[a] \in Of(rank[r], ask[a].key, {"C"})
<1> DEFINE R == rank[c.rank]
           Q == CASE c.kind = "release"    -> Released(R, c.arg)
                  [] c.kind = "renew"      -> Renewed(R, c.arg)
                  [] c.kind = "invalidate" -> Invalidated(R, c.arg)
                  [] c.kind = "reserve"    -> Granted(R, c.arg)
<1>1. /\ c.rank \in Ranks /\ R \in Stores
      /\ c.kind \in {"release", "renew", "reserve"} => c.arg \in Attempts /\ c = Call(c.kind, c.rank, c.arg)
      /\ c.kind \in {"release", "renew", "reserve", "invalidate"}
  BY DEF Commands, Call
<1>2. rank' = [rank EXCEPT ![c.rank] = Q]
  BY DEF After
<1> HIDE DEF Q
<1>3. rank'[c.rank] = Q /\ \A s \in Ranks \ {c.rank} : rank'[s] = rank[s]
  BY <1>1, <1>2
<1>4. CASE r # c.rank
  BY <1>3, <1>4
<1>5. CASE r = c.rank
  <2>1. CASE c.kind = "release"
    <3>1. Q = Released(R, c.arg)
      BY <2>1 DEF Q
    <3>2. /\ Q.obj = [R.obj EXCEPT ![c.arg] = IF R.obj[c.arg] = "W" THEN "T" ELSE R.obj[c.arg]]
          /\ Q.hold = [R.hold EXCEPT ![c.arg] = None]
      BY <3>1, <1>1, <2>1 DEF Released, Stores
    <3>3. QED
      BY <3>2, <1>1, <1>3, <1>5, <2>1 DEF Stores
  <2>2. CASE c.kind = "renew"
    <3>1. Q.obj = R.obj /\ Q.hold = R.hold
      BY <2>2, <1>1, RenewedFacts DEF Q
    <3>2. QED
      BY <3>1, <1>3, <1>5
  <2>3. CASE c.kind = "invalidate"
    <3>1. Q = Invalidated(R, c.arg)
      BY <2>3 DEF Q
    <3>2. Q.hold = R.hold /\ \A o \in Objects : \/ Q.obj[o] = R.obj[o]
                                                \/ R.obj[o] \in {"W", "C"} /\ Q.obj[o] = "T"
      BY <3>1, <1>1, InvalidatedFacts
    <3>3. QED
      BY <3>2, <1>3, <1>5
  <2>4. CASE c.kind = "reserve"
    <3> DEFINE a == c.arg
               h == CHOOSE o \in Of(R, ask[a].key, {"C"}) : TRUE
    <3>1. Q = Granted(R, a) /\ Grantable(R, a) /\ a \in Attempts /\ a \in Objects /\ c = Call("reserve", r, a)
      BY <2>4, <1>1, <1>5 DEF Q, Objects
    <3>2. ~ask[a].writing => h \in Of(R, ask[a].key, {"C"})
      BY <3>1 DEF Grantable
    <3>3. /\ Q.obj = [R.obj EXCEPT ![a] = IF ask[a].writing THEN "W" ELSE R.obj[a]]
          /\ Q.hold = [R.hold EXCEPT ![a] = IF ask[a].writing THEN None ELSE h]
      BY <3>1, <1>1 DEF Granted, Stores
    <3> HIDE DEF h
    <3>4. \A o \in Objects : Q.obj[o] # R.obj[o] => o = a /\ Q.obj[o] = "W"
      BY <3>1, <3>3, <1>1 DEF Stores
    <3>5. \A b \in Attempts : Q.hold[b] # R.hold[b] =>
            b = a /\ (Q.hold[b] = None \/ Q.hold[b] \in Of(R, ask[b].key, {"C"}))
      BY <3>1, <3>2, <3>3, <1>1 DEF Stores
    <3>6. QED
      BY <3>1, <3>4, <3>5, <1>3, <1>5
  <2>5. QED
    BY <1>1, <2>1, <2>2, <2>3, <2>4
<1>6. QED
  BY <1>4, <1>5

LEMMA MayReserveFacts ==
  ASSUME LeaseInv, NEW r \in Ranks, NEW a \in Attempts, MayReserve(r, a)
  PROVE  stage[a] \in {"asked", "failed"}
BY DEF LeaseInv, Jobs, JobOK, Sent, MayReserve, Call

LEMMA Moves ==
  ASSUME LeaseInv, [Next]_vars, rank' # rank
  PROVE  /\ UNCHANGED <<books, vetoes>>
         /\ \/ \E c \in Commands :
                 /\ rank' = After(c)
                 /\ c.kind = "reserve" => /\ Grantable(rank[c.rank], c.arg) /\ MayReserve(c.rank, c.arg)
                                          /\ ~MayReserve(c.rank, c.arg)'
            \/ \E r \in Ranks, a \in Attempts : Commit(r, a)
            \/ \E r \in Ranks, o \in Objects : Evict(r, o)
            \/ Tick
<1>1. /\ rank \in [Ranks -> Stores] /\ job \in [Threads -> Job] /\ Jobs /\ Sent /\ Queued \subseteq Commands
      /\ wire \subseteq Commands
  BY DEF LeaseInv, Typed, LogTyped
<1>2. ASSUME NEW t \in Threads, NEW j, Goto(t, j)
      PROVE  job'[t] = j /\ \A u \in Threads \ {t} : job'[u] = job[u]
  BY <1>1, <1>2 DEF Goto
<1>3. ASSUME NEW t \in Threads, NEW r \in Ranks, NEW a \in Attempts, job[t].pc = "fanout", job[t].att = a,
             r \in job[t].todo
      PROVE  MayReserve(r, a) /\ Call("reserve", r, a) \notin wire
  <2>1. MayReserve(r, a)
    BY <1>3 DEF MayReserve
  <2>2. Call("reserve", r, a).kind = "reserve" /\ Call("reserve", r, a).rank = r /\ Call("reserve", r, a).arg = a
    BY DEF Call
  <2>3. QED
    BY <1>1, <1>3, <2>1, <2>2 DEF Sent
<1>4. ASSUME NEW t \in Threads, Begin(t) PROVE FALSE
  BY <1>4 DEF Begin, BeginReserve, BeginInvalidate, BeginRenew, BeginRelease, BeginComplete, remote
<1>5. ASSUME NEW t \in Threads, RankCall(t)
      PROVE  /\ UNCHANGED <<books, vetoes>>
             /\ \E c \in Commands :
                 /\ rank' = After(c)
                 /\ c.kind = "reserve" => /\ Grantable(rank[c.rank], c.arg) /\ MayReserve(c.rank, c.arg)
                                          /\ ~MayReserve(c.rank, c.arg)'
  <2> PICK s \in Ranks : \/ ReserveRank(t, s) \/ RenewRank(t, s) \/ ReleaseRank(t, s)
                         \/ InvalidateRank(t, s) \/ ExistsRank(t, s)
    BY <1>5 DEF RankCall
  <2>0. JobOK(t) /\ job[t] \in Job
    BY <1>1 DEF Jobs
  <2>1. CASE ReserveRank(t, s)
    <3>0. job[t].att \in Attempts
      BY <2>0, <2>1 DEF JobOK, ReserveRank, At
    <3> PICK a \in Attempts : a = job[t].att
      BY <3>0
    <3> DEFINE c == Call("reserve", s, a)
    <3>1. /\ t = Scheduler /\ At(t, "fanout") /\ s \in job[t].todo
          /\ \A u \in Threads : job[u].pc = "fanout" => u = t
      BY <1>1, <2>0, <2>1 DEF Jobs, JobOK, ReserveRank, At
    <3>2. c \in Commands /\ c.kind = "reserve" /\ c.rank = s /\ c.arg = a
      BY <3>1, CommandFacts DEF Call
    <3>3. Grantable(rank[s], a) /\ rank' = After(c) /\ wire' = wire /\ Goto(t, Called(t, s, TRUE))
      BY <2>1 DEF ReserveRank, Answered, Unanswered, remote
    <3>4. MayReserve(s, a) /\ c \notin wire
      BY <1>3, <3>1 DEF At
    <3>5. \A u \in Threads : job'[u].pc = "fanout" => s \notin job'[u].todo
      <4>1. Called(t, s, TRUE).todo = job[t].todo \ {s}
        BY <2>0, CalledFacts
      <4>2. QED
        BY <1>2, <3>1, <3>3, <4>1
    <3>6. ~MayReserve(s, a)'
      BY <3>3, <3>4, <3>5 DEF MayReserve
    <3>7. UNCHANGED <<books, vetoes>>
      BY <2>1 DEF ReserveRank, books
    <3>8. QED
      BY <3>2, <3>3, <3>4, <3>6, <3>7
  <2>2. CASE RenewRank(t, s)
    <3> DEFINE c == Call("renew", s, job[t].att)
    <3>1. c \in Commands /\ c.kind = "renew"
      BY <2>0, <2>2, CommandFacts DEF JobOK, RenewRank, At, Call
    <3>2. rank' = After(c) /\ UNCHANGED <<books, vetoes>>
      BY <2>2 DEF RenewRank, Answered, Unanswered, bookkeeping, books
    <3> HIDE DEF c
    <3>3. QED
      BY <3>1, <3>2
  <2>3. CASE ReleaseRank(t, s)
    <3> DEFINE c == Call("release", s, job[t].att)
    <3>1. c \in Commands /\ c.kind = "release"
      BY <2>0, <2>3, CommandFacts DEF JobOK, ReleaseRank, Call
    <3>2. rank' = After(c) /\ UNCHANGED <<books, vetoes>>
      BY <2>3 DEF ReleaseRank, Answered, Unanswered, bookkeeping, books
    <3> HIDE DEF c
    <3>3. QED
      BY <3>1, <3>2
  <2>4. CASE InvalidateRank(t, s)
    <3> DEFINE c == Call("invalidate", s, job[t].key)
    <3>1. c \in Commands /\ c.kind = "invalidate"
      BY <2>0, <2>4, CommandFacts DEF JobOK, InvalidateRank, At, Call
    <3>2. rank' = After(c) /\ UNCHANGED <<books, vetoes>>
      BY <2>4 DEF InvalidateRank, Answered, Unanswered, bookkeeping, books
    <3> HIDE DEF c
    <3>3. QED
      BY <3>1, <3>2
  <2>5. CASE ExistsRank(t, s)
    BY <2>5 DEF ExistsRank, remote
  <2>6. QED
    BY <2>1, <2>2, <2>3, <2>4, <2>5
<1>6. ASSUME NEW t \in Threads, Proceed(t)
      PROVE  /\ UNCHANGED <<books, vetoes>>
             /\ \E c \in Commands : rank' = After(c) /\ c.kind # "reserve"
  <2>0. JobOK(t)
    BY <1>1 DEF Jobs
  <2>1. CASE DrainCall(t)
    <3> DEFINE c == job[t].cmd
    <3>1. c \in Commands /\ c.kind # "reserve"
      BY <2>0, <2>1 DEF JobOK, DrainCall
    <3>2. rank' = After(c) /\ UNCHANGED <<books, vetoes>>
      BY <2>1 DEF DrainCall, Answered, Unanswered, bookkeeping, books
    <3> HIDE DEF c
    <3>3. QED
      BY <3>1, <3>2
  <2>2. CASE \/ Recheck(t) \/ Refuse(t) \/ (\E b \in Attempts : Admit(t, b)) \/ Accept(t) \/ Reject(t)
             \/ RenewNow(t) \/ RenewAnswered(t) \/ Retire(t) \/ Veto(t) \/ ExistsEnd(t) \/ DrainPop(t)
             \/ RollbackEnd(t) \/ RenewEnd(t) \/ ReleaseEnd(t) \/ InvalidateEnd(t)
    BY <2>2 DEF Recheck, Refuse, Admit, Accept, Reject, RenewNow, RenewAnswered, Retire, Veto,
                ExistsEnd, DrainPop, RollbackEnd, RenewEnd, ReleaseEnd, InvalidateEnd, remote
  <2>3. QED
    BY <1>6, <2>1, <2>2 DEF Proceed
<1>7. ASSUME NEW c \in Commands, Late(c)
      PROVE  /\ UNCHANGED <<books, vetoes>>
             /\ rank' = After(c)
             /\ c.kind = "reserve" => /\ Grantable(rank[c.rank], c.arg) /\ MayReserve(c.rank, c.arg)
                                      /\ ~MayReserve(c.rank, c.arg)'
  <2>1. /\ c \in wire /\ wire' = wire \ {c} /\ rank' = After(c) /\ job' = job
        /\ c.kind = "reserve" => Grantable(rank[c.rank], c.arg)
        /\ UNCHANGED <<books, vetoes>>
    BY <1>7 DEF Late, bookkeeping, books
  <2>2. ASSUME c.kind = "reserve" PROVE MayReserve(c.rank, c.arg) /\ ~MayReserve(c.rank, c.arg)'
    <3>1. c = Call("reserve", c.rank, c.arg)
      BY <2>2 DEF Commands, Call
    <3>2. \A t \in Threads : job[t].pc = "fanout" /\ job[t].att = c.arg => c.rank \notin job[t].todo
      BY <1>1, <2>1, <2>2 DEF Sent
    <3>3. QED
      BY <2>1, <3>1, <3>2 DEF MayReserve
  <2>3. QED
    BY <2>1, <2>2
<1>8. ASSUME \/ \E s \in Ranks : (\E b \in Attempts : Commit(s, b)) \/ \E o \in Objects : Evict(s, o)
             \/ Tick
      PROVE  UNCHANGED <<books, vetoes>>
  BY <1>8 DEF Commit, Evict, Tick, bookkeeping, books
<1>9. ~Shutdown /\ ~UNCHANGED vars
  BY DEF Shutdown, vars, remote
<1>10. CASE \E t \in Threads : Begin(t) \/ Proceed(t) \/ RankCall(t)
  BY <1>4, <1>5, <1>6, <1>10
<1>11. CASE \E c \in Commands : Late(c)
  BY <1>7, <1>11
<1>12. QED
  BY <1>8, <1>9, <1>10, <1>11 DEF Next

LEMMA ObjectMoves ==
  ASSUME LeaseInv, [Next]_vars, NEW r \in Ranks, NEW o \in Objects, rank'[r].obj[o] # rank[r].obj[o]
  PROVE  /\ UNCHANGED <<books, vetoes>>
         /\ \/ rank'[r].obj[o] = "T" /\ rank[r].obj[o] \in {"W", "C"}
            \/ rank'[r].obj[o] = "C" /\ rank[r].obj[o] = "W" /\ o \in Attempts /\ stage[o] = "ticket"
            \/ rank'[r].obj[o] = "W" /\ o \in Attempts /\ MayReserve(r, o) /\ ~MayReserve(r, o)'
<1>1. rank \in [Ranks -> Stores] /\ rank' # rank
  BY DEF LeaseInv, Typed
<1>2. UNCHANGED <<books, vetoes>>
  BY <1>1, Moves
<1>3. ASSUME NEW c \in Commands, rank' = After(c),
             c.kind = "reserve" => /\ Grantable(rank[c.rank], c.arg) /\ MayReserve(c.rank, c.arg)
                                   /\ ~MayReserve(c.rank, c.arg)'
      PROVE  \/ rank'[r].obj[o] = "T" /\ rank[r].obj[o] \in {"W", "C"}
             \/ rank'[r].obj[o] = "W" /\ o \in Attempts /\ MayReserve(r, o) /\ ~MayReserve(r, o)'
  <2>1. \/ rank'[r].obj[o] = "T" /\ rank[r].obj[o] \in {"W", "C"}
        \/ rank'[r].obj[o] = "W" /\ o \in Attempts /\ c = Call("reserve", r, o)
    BY <1>1, <1>3, CallMoves
  <2>2. c = Call("reserve", r, o) => c.kind = "reserve" /\ c.rank = r /\ c.arg = o
    BY DEF Call
  <2>3. QED
    BY <1>3, <2>1, <2>2
<1>4. ASSUME NEW s \in Ranks, NEW a \in Attempts, Commit(s, a)
      PROVE  rank'[r].obj[o] = "C" /\ rank[r].obj[o] = "W" /\ o \in Attempts /\ stage[o] = "ticket"
  <2> DEFINE R == rank[s]
             Q == [R EXCEPT !.obj = [R.obj EXCEPT ![a] = "C"], !.left = [R.left EXCEPT ![a] = Ttl]]
  <2>1. rank' = [rank EXCEPT ![s] = Q]
    <3>1. rank \in [Ranks -> Stores] /\ Commit(s, a)
      BY <1>1, <1>4
    <3>2. QED
      BY ONLY <3>1, s \in Ranks DEF Commit, Stores
  <2>2. Q.obj = [R.obj EXCEPT ![a] = "C"]
    BY <1>1 DEF Stores
  <2> HIDE DEF Q
  <2>3. o = a /\ r = s
    BY <1>1, <2>1, <2>2 DEF Stores
  <2>4. rank'[r].obj[o] = "C"
    BY <1>1, <2>1, <2>2, <2>3 DEF Stores
  <2>5. QED
    BY <1>4, <2>3, <2>4 DEF Commit
<1>5. ASSUME NEW s \in Ranks, NEW q \in Objects, Evict(s, q)
      PROVE  rank'[r].obj[o] = "T" /\ rank[r].obj[o] = "C"
  <2>1. rank' = [rank EXCEPT ![s] = [rank[s] EXCEPT !.obj = [rank[s].obj EXCEPT ![q] = "T"]]]
    BY <1>1, <1>5 DEF Evict, Stores
  <2>2. rank[s].obj[q] = "C"
    BY <1>5 DEF Evict
  <2>3. QED
    BY <1>1, <2>1, <2>2 DEF Stores
<1>6. ASSUME Tick PROVE rank'[r].obj[o] = "T" /\ rank[r].obj[o] = "W"
  <2>1. rank'[r].obj = [q \in Objects |-> IF q \in Attempts /\ rank[r].obj[q] = "W" /\ rank[r].left[q] = 1
                                          THEN "T" ELSE rank[r].obj[q]]
    BY <1>6 DEF Tick, Ticked
  <2>2. QED
    BY <2>1
<1>7. QED
  BY <1>1, <1>2, <1>3, <1>4, <1>5, <1>6, Moves

LEMMA HoldMoves ==
  ASSUME LeaseInv, [Next]_vars, NEW r \in Ranks, NEW a \in Attempts,
         rank'[r].hold[a] # rank[r].hold[a], rank'[r].hold[a] # None
  PROVE  /\ UNCHANGED <<books, vetoes>>
         /\ MayReserve(r, a) /\ rank'[r].hold[a] \in Of(rank[r], ask[a].key, {"C"})
<1>1. rank \in [Ranks -> Stores] /\ rank' # rank
  BY DEF LeaseInv, Typed
<1>2. UNCHANGED <<books, vetoes>>
  BY <1>1, Moves
<1>3. ASSUME NEW c \in Commands, rank' = After(c),
             c.kind = "reserve" => Grantable(rank[c.rank], c.arg) /\ MayReserve(c.rank, c.arg)
      PROVE  MayReserve(r, a) /\ rank'[r].hold[a] \in Of(rank[r], ask[a].key, {"C"})
  <2>1. c = Call("reserve", r, a) /\ rank'[r].hold[a] \in Of(rank[r], ask[a].key, {"C"})
    BY <1>1, <1>3, CallMoves
  <2>2. c.kind = "reserve" /\ c.rank = r /\ c.arg = a
    BY <2>1 DEF Call
  <2>3. QED
    BY <1>3, <2>1, <2>2
<1>4. ASSUME \/ \E s \in Ranks, b \in Attempts : Commit(s, b)
             \/ \E s \in Ranks, q \in Objects : Evict(s, q)
      PROVE  rank'[r].hold[a] = rank[r].hold[a]
  <2>1. ASSUME NEW s \in Ranks, NEW b \in Attempts, Commit(s, b) PROVE rank'[r].hold[a] = rank[r].hold[a]
    <3>1. rank \in [Ranks -> Stores] /\ Commit(s, b)
      BY <1>1, <2>1
    <3>2. rank' = [rank EXCEPT ![s] = [rank[s] EXCEPT !.obj = [rank[s].obj EXCEPT ![b] = "C"],
                                                      !.left = [rank[s].left EXCEPT ![b] = Ttl]]]
      BY ONLY <3>1, s \in Ranks DEF Commit, Stores
    <3>3. QED
      BY <3>1, <3>2 DEF Stores
  <2>2. ASSUME NEW s \in Ranks, NEW q \in Objects, Evict(s, q) PROVE rank'[r].hold[a] = rank[r].hold[a]
    <3>1. rank' = [rank EXCEPT ![s] = [rank[s] EXCEPT !.obj = [rank[s].obj EXCEPT ![q] = "T"]]]
      BY <1>1, <2>2 DEF Evict, Stores
    <3>2. QED
      BY <1>1, <3>1 DEF Stores
  <2>3. QED
    BY <1>4, <2>1, <2>2
<1>5. ASSUME Tick PROVE rank'[r].hold[a] \in {None, rank[r].hold[a]}
  BY <1>5 DEF Tick, Ticked
<1>6. QED
  BY <1>1, <1>2, <1>3, <1>4, <1>5, Moves

-----------------------------------------------------------------------------
(* What a step does to the attempts.                                       *)
LEMMA AskStays ==
  ASSUME LeaseInv, [Next]_vars, NEW a \in Attempts, stage[a] # "new"
  PROVE  ask'[a] = ask[a] /\ stage'[a] # "new"
<1>1. /\ ask \in [Attempts -> Identities \cup {None}]
      /\ stage \in [Attempts -> {"new", "asked", "ticket", "retiring", "dropped", "failed"}]
  BY DEF LeaseInv, Typed, BooksTyped
<1>2. CASE UNCHANGED books
  BY <1>2 DEF books
<1>3. ASSUME NEW t \in Threads, Entry(t) PROVE ask'[a] = ask[a] /\ stage'[a] # "new"
  <2>1. CASE \E b \in Attempts : Admit(t, b)
    BY <1>1, <2>1 DEF Admit
  <2>2. CASE Accept(t) \/ RollbackEnd(t) \/ Retire(t) \/ ReleaseEnd(t)
    BY <1>1, <2>2 DEF Accept, RollbackEnd, Retire, ReleaseEnd
  <2>3. QED
    BY <1>3, <2>1, <2>2 DEF Entry
<1>4. QED
  BY <1>2, <1>3, Frame

LEMMA KeyStays ==
  ASSUME LeaseInv, [Next]_vars, NEW r \in Ranks, NEW o \in Objects, rank[r].obj[o] # "none"
  PROVE  KeyOf(o)' = KeyOf(o)
<1>1. CASE o \in Keys
  BY <1>1 DEF KeyOf
<1>2. CASE o \in Attempts
  <2>1. stage[o] # "new"
    BY <1>2 DEF LeaseInv, Asked
  <2>2. QED
    BY <1>2, <2>1, AskStays DEF KeyOf
<1>3. QED
  BY <1>1, <1>2 DEF Objects

(* An attempt becomes a ticket when it is accepted, and is charged when it *)
(* is admitted.                                                            *)
LEMMA StageMoves ==
  ASSUME LeaseInv, [Next]_vars, NEW a \in Attempts
  PROVE  /\ stage'[a] = "ticket" => \/ stage[a] = "ticket"
                                    \/ \E t \in Threads : Accept(t) /\ job[t].att = a
         /\ a \in Charged' => \/ a \in Charged
                              \/ \E t \in Threads : Admit(t, a)
<1>1. /\ ask \in [Attempts -> Identities \cup {None}]
      /\ stage \in [Attempts -> {"new", "asked", "ticket", "retiring", "dropped", "failed"}]
  BY DEF LeaseInv, Typed, BooksTyped
<1>2. CASE UNCHANGED books
  BY <1>2 DEF books, Charged
<1>3. ASSUME NEW t \in Threads, Entry(t), JobOK(t)
      PROVE  /\ stage'[a] = "ticket" => \/ stage[a] = "ticket"
                                        \/ Accept(t) /\ job[t].att = a
             /\ a \in Charged' => \/ a \in Charged
                                  \/ Admit(t, a)
  <2>1. ASSUME NEW b \in Attempts, Admit(t, b)
        PROVE  /\ stage'[a] = "ticket" => stage[a] = "ticket"
               /\ a \in Charged' => a \in Charged \/ Admit(t, a)
    <3>1. stage' = [stage EXCEPT ![b] = "asked"]
      BY <2>1 DEF Admit
    <3>2. QED
      BY <1>1, <2>1, <3>1 DEF Charged
  <2>2. CASE Accept(t)
    <3>1. stage' = [stage EXCEPT ![job[t].att] = "ticket"] /\ stage[job[t].att] = "asked"
      BY <1>3, <2>2 DEF Accept, JobOK, At
    <3>2. QED
      BY <1>1, <2>2, <3>1 DEF Charged
  <2>3. CASE RollbackEnd(t)
    <3>1. stage' = [stage EXCEPT ![job[t].att] = "failed"]
      BY <2>3 DEF RollbackEnd
    <3>2. QED
      BY <1>1, <3>1 DEF Charged
  <2>4. CASE Retire(t)
    <3>1. \/ stage' = [stage EXCEPT ![job[t].att] = "retiring"] /\ job[t].att \in Tickets
          \/ stage' = stage
      BY <2>4 DEF Retire
    <3>2. QED
      BY <1>1, <3>1 DEF Charged, Tickets
  <2>5. CASE ReleaseEnd(t)
    <3>1. \/ stage' = [stage EXCEPT ![job[t].att] = "dropped"]
          \/ stage' = stage
      BY <2>5 DEF ReleaseEnd
    <3>2. QED
      BY <1>1, <3>1 DEF Charged
  <2>6. QED
    BY <1>3, <2>1, <2>2, <2>3, <2>4, <2>5 DEF Entry
<1>4. \A t \in Threads : JobOK(t)
  BY DEF LeaseInv, Jobs
<1>5. QED
  BY <1>2, <1>3, <1>4, Frame

(* No reservation of a vetoed key, or of one that nobody has, is accepted. *)
LEMMA Barred ==
  ASSUME LeaseInv, NEW k, k \in invalid \/ Unused(k), NEW t \in Threads, Accept(t)
  PROVE  ask[job[t].att].key # k /\ job[t].att \in Attempts /\ stage[job[t].att] = "asked"
<1>1. /\ job[t].att \in Attempts /\ stage[job[t].att] = "asked" /\ ask[job[t].att].key = job[t].key
      /\ job[t].key \notin invalid
  BY DEF LeaseInv, Jobs, JobOK, Accept, At, Acceptable
<1>2. QED
  BY <1>1 DEF Unused, Charged

LEMMA CleanStays ==
  ASSUME LeaseInv, [Next]_vars, NEW r \in Ranks, NEW k, k \in invalid \/ Unused(k), Clean(r, k)
  PROVE  Clean(r, k)'
<1>1. rank \in [Ranks -> Stores] /\ Asked
  BY DEF LeaseInv, Typed
<1>2. ASSUME NEW o \in Objects, rank'[r].obj[o] = "C", KeyOf(o)' = k PROVE FALSE
  <2>1. CASE rank[r].obj[o] = "C"
    <3>1. KeyOf(o) = k
      BY <1>2, <2>1, KeyStays
    <3>2. QED
      BY <2>1, <3>1 DEF Clean, Of
  <2>2. CASE rank[r].obj[o] # "C"
    <3>1. rank[r].obj[o] = "W" /\ o \in Attempts /\ stage[o] = "ticket"
      BY <1>2, <2>2, ObjectMoves
    <3>2. KeyOf(o)' = KeyOf(o)
      BY <3>1, KeyStays
    <3>3. KeyOf(o) = ask[o].key
      BY <3>1, ObjectAssumption DEF KeyOf
    <3>4. QED
      BY <1>2, <3>1, <3>2, <3>3 DEF Clean
  <2>3. QED
    BY <2>1, <2>2
<1>3. ASSUME NEW a \in Attempts, stage'[a] = "ticket", ask'[a].key = k, rank'[r].obj[a] = "W" PROVE FALSE
  <2>1. CASE stage[a] = "ticket"
    <3>1. ask[a].key = k
      BY <1>3, <2>1, AskStays
    <3>2. rank[r].obj[a] # "W"
      BY <2>1, <3>1 DEF Clean
    <3>3. MayReserve(r, a)
      BY <1>3, <3>2, ObjectMoves DEF Objects
    <3>4. QED
      BY <2>1, <3>3, MayReserveFacts
  <2>2. CASE stage[a] # "ticket"
    <3>1. PICK t \in Threads : Accept(t) /\ job[t].att = a
      BY <1>3, <2>2, StageMoves
    <3>2. ask[a].key # k /\ stage[a] = "asked"
      BY <3>1, Barred
    <3>3. QED
      BY <1>3, <3>2, AskStays
  <2>3. QED
    BY <2>1, <2>2
<1>4. QED
  BY <1>2, <1>3 DEF Clean, Of

(* A reservation that may run was under way before, or is of a new attempt.*)
LEMMA Reserving ==
  ASSUME LeaseInv, [Next]_vars, NEW r \in Ranks, NEW a \in Attempts, MayReserve(r, a)'
  PROVE  MayReserve(r, a) \/ stage[a] = "new"
<1>1. /\ job \in [Threads -> Job] /\ \A t \in Threads : JobOK(t)
      /\ Replayed \cap Commands \subseteq Commands /\ \A c \in Queued : c.kind # "reserve"
  BY DEF LeaseInv, Typed, Jobs, Sent
<1> DEFINE c == Call("reserve", r, a)
<1>2. c.kind = "reserve" /\ c.rank = r /\ c.arg = a
  BY DEF Call
<1>3. ASSUME c \in wire' \ wire PROVE MayReserve(r, a)
  <2>1. ASSUME NEW t \in Threads, Begin(t) PROVE wire' = wire
    BY <2>1 DEF Begin, BeginReserve, BeginInvalidate, BeginRenew, BeginRelease, BeginComplete, remote
  <2>2. ASSUME NEW t \in Threads, Proceed(t)
        PROVE  wire' = wire \/ (wire' = wire \cup {job[t].cmd} /\ job[t].cmd \in Commands)
    <3>1. CASE DrainCall(t)
      BY <3>1 DEF DrainCall, Answered, Unanswered
    <3>2. ASSUME \/ Recheck(t) \/ Refuse(t) \/ (\E b \in Attempts : Admit(t, b)) \/ Accept(t) \/ Reject(t)
                 \/ RenewNow(t) \/ RenewAnswered(t) \/ Retire(t) \/ Veto(t) \/ ExistsEnd(t) \/ DrainPop(t)
                 \/ RollbackEnd(t) \/ RenewEnd(t) \/ ReleaseEnd(t) \/ InvalidateEnd(t)
          PROVE  wire' = wire
      BY <3>2 DEF Recheck, Refuse, Admit, Accept, Reject, RenewNow, RenewAnswered, Retire, Veto,
                  ExistsEnd, DrainPop, RollbackEnd, RenewEnd, ReleaseEnd, InvalidateEnd, remote
    <3>3. QED
      BY <2>2, <3>1, <3>2 DEF Proceed
  <2>3. ASSUME NEW t \in Threads, RankCall(t), c \in wire' \ wire PROVE MayReserve(r, a)
    <3> PICK s \in Ranks : \/ ReserveRank(t, s) \/ RenewRank(t, s) \/ ReleaseRank(t, s)
                           \/ InvalidateRank(t, s) \/ ExistsRank(t, s)
      BY <2>3 DEF RankCall
    <3>1. CASE ReserveRank(t, s)
      <4>1. c = Call("reserve", s, job[t].att)
        BY <2>3, <3>1 DEF ReserveRank, Answered, Unanswered, remote
      <4>2. s = r /\ job[t].att = a
        BY <4>1 DEF Call
      <4>3. QED
        BY <3>1, <4>2 DEF MayReserve, ReserveRank, At
    <3>2. CASE RenewRank(t, s) \/ ReleaseRank(t, s) \/ InvalidateRank(t, s) \/ ExistsRank(t, s)
      <4>1. c \in {Call("renew", s, job[t].att), Call("release", s, job[t].att), Call("invalidate", s, job[t].key)}
        BY <2>3, <3>2 DEF RenewRank, ReleaseRank, InvalidateRank, ExistsRank, Answered, Unanswered, remote
      <4>2. QED
        BY <4>1 DEF Call
    <3>3. QED
      BY <3>1, <3>2
  <2>4. CASE \/ \E d \in Commands : Late(d)
             \/ \E s \in Ranks : (\E b \in Attempts : Commit(s, b)) \/ \E o \in Objects : Evict(s, o)
             \/ Tick \/ Shutdown \/ UNCHANGED vars
    BY <1>3, <2>4 DEF Late, Commit, Evict, Tick, Shutdown, vars, remote
  <2>5. ASSUME NEW t \in Threads, job[t].cmd \in Commands PROVE job[t].cmd # c
    BY <1>1, <1>2, <2>5 DEF JobOK
  <2> HIDE DEF c
  <2>6. QED
    BY <1>3, <2>1, <2>2, <2>3, <2>4, <2>5 DEF Next
<1>4. ASSUME NEW t \in Threads, job'[t].pc = "fanout", job'[t].att = a, r \in job'[t].todo
      PROVE  MayReserve(r, a) \/ stage[a] = "new"
  <2>1. ASSUME job[t].pc = "fanout", job[t].att = a, job'[t].todo \subseteq job[t].todo
        PROVE  MayReserve(r, a)
    BY <1>4, <2>1 DEF MayReserve
  <2>2. ASSUME NEW u \in Threads, NEW j, Goto(u, j), j.pc # "fanout"
        PROVE  job[t].pc = "fanout" /\ job[t].att = a /\ job'[t].todo \subseteq job[t].todo
    BY <1>1, <1>4, <2>2 DEF Goto
  <2>3. ASSUME NEW u \in Threads, NEW j, Goto(u, j), j.pc = job[u].pc, j.att = job[u].att,
               j.todo \subseteq job[u].todo
        PROVE  job[t].pc = "fanout" /\ job[t].att = a /\ job'[t].todo \subseteq job[t].todo
    BY <1>1, <1>4, <2>3 DEF Goto
  <2>4. ASSUME NEW u \in Threads, Begin(u) PROVE MayReserve(r, a)
    <3>1. ASSUME NEW i \in Identities, BeginReserve(u, i) PROVE MayReserve(r, a)
      <4> DEFINE j == [Idle EXCEPT !.op = "reserve", !.id = i, !.key = i.key]
      <4>1. [j EXCEPT !.pc = "admit"].pc = "admit" /\ [j EXCEPT !.pc = "vouch", !.att = identities[i]].pc = "vouch"
        BY DEF Idle
      <4>2. \/ Goto(u, [j EXCEPT !.pc = "admit"])
            \/ Goto(u, [j EXCEPT !.pc = "vouch", !.att = identities[i]])
        BY <3>1 DEF BeginReserve
      <4> HIDE DEF j
      <4>3. QED
        BY <2>1, <2>2, <4>1, <4>2
    <3>2. ASSUME NEW k \in Keys, BeginInvalidate(u, k) PROVE MayReserve(r, a)
      BY <2>1, <2>2, <3>2 DEF BeginInvalidate, Idle
    <3>3. ASSUME NEW b \in Attempts, BeginRenew(u, b) PROVE MayReserve(r, a)
      BY <2>1, <2>2, <3>3 DEF BeginRenew, Idle
    <3>4. ASSUME NEW b \in Attempts, BeginRelease(u, b) PROVE MayReserve(r, a)
      BY <2>1, <2>2, <3>4 DEF BeginRelease, Idle
    <3>5. ASSUME NEW b \in Attempts, NEW success \in BOOLEAN, BeginComplete(u, b, success) PROVE MayReserve(r, a)
      BY <2>1, <2>2, <3>5 DEF BeginComplete, Idle
    <3>6. QED
      BY <2>4, <3>1, <3>2, <3>3, <3>4, <3>5 DEF Begin
  <2>5. ASSUME NEW u \in Threads, RankCall(u) PROVE MayReserve(r, a)
    <3> PICK s \in Ranks : \/ ReserveRank(u, s) \/ RenewRank(u, s) \/ ReleaseRank(u, s)
                           \/ InvalidateRank(u, s) \/ ExistsRank(u, s)
      BY <2>5 DEF RankCall
    <3>1. PICK ok \in BOOLEAN : Goto(u, Called(u, s, ok))
      BY DEF ReserveRank, RenewRank, ReleaseRank, InvalidateRank, ExistsRank, Alive
    <3>2. /\ Called(u, s, ok).pc = job[u].pc /\ Called(u, s, ok).att = job[u].att
          /\ Called(u, s, ok).todo \subseteq job[u].todo
      BY <1>1, CalledFacts
    <3>3. QED
      BY <2>1, <2>3, <3>1, <3>2
  <2>6. ASSUME NEW u \in Threads, Proceed(u) PROVE MayReserve(r, a) \/ stage[a] = "new"
    <3>0. job[u] \in Job /\ JobOK(u) /\ Idle.pc = "idle"
      BY <1>1, IdleFacts
    <3>1. ASSUME NEW b \in Attempts, Admit(u, b) PROVE MayReserve(r, a) \/ stage[a] = "new"
      <4> DEFINE j == [job[u] EXCEPT !.pc = "fanout", !.att = b, !.todo = Ranks, !.win = Window]
      <4>1. j.att = b
        BY <3>0 DEF Job
      <4>2. Goto(u, j) /\ stage[b] = "new"
        BY <3>1 DEF Admit
      <4> HIDE DEF j
      <4>3. t # u => job'[t] = job[t]
        BY <1>1, <4>2 DEF Goto
      <4>4. t = u => a = b
        BY <1>1, <1>4, <4>1, <4>2 DEF Goto
      <4>5. QED
        BY <1>4, <2>1, <4>2, <4>3, <4>4
    <3>2. CASE DrainPop(u) \/ DrainCall(u)
      <4>1. PICK d : Goto(u, [job[u] EXCEPT !.cmd = d])
        BY <3>2 DEF DrainPop, DrainCall
      <4> DEFINE j == [job[u] EXCEPT !.cmd = d]
      <4>2. j.pc = job[u].pc /\ j.att = job[u].att /\ j.todo = job[u].todo /\ Goto(u, j)
        BY <3>0, <4>1 DEF Job
      <4> HIDE DEF j
      <4>3. QED
        BY <2>1, <2>3, <4>2
    <3>3. ASSUME NEW j, Goto(u, j), j.pc # "fanout" PROVE MayReserve(r, a)
      BY <2>1, <2>2, <3>3
    <3>4. CASE Recheck(u) \/ Refuse(u) \/ Accept(u) \/ RollbackEnd(u) \/ ReleaseEnd(u)
      <4>1. [job[u] EXCEPT !.pc = "admit", !.att = None].pc = "admit"
        BY <3>0 DEF Job
      <4>2. Goto(u, Idle) \/ Goto(u, [job[u] EXCEPT !.pc = "admit", !.att = None])
        BY <3>4 DEF Recheck, Refuse, Accept, RollbackEnd, ReleaseEnd
      <4>3. QED
        BY <3>0, <3>3, <4>1, <4>2
    <3>5. CASE Reject(u)
      <4>1. [job[u] EXCEPT !.pc = "rollback", !.todo = leases[job[u].att], !.ok = TRUE, !.win = 0].pc = "rollback"
        BY <3>0 DEF Job
      <4>2. QED
        BY <3>3, <3>5, <4>1 DEF Reject
    <3>6. CASE Retire(u)
      <4>1. [job[u] EXCEPT !.pc = "release", !.todo = Ranks, !.ok = TRUE].pc = "release"
        BY <3>0 DEF Job
      <4>2. QED
        BY <3>3, <3>6, <4>1 DEF Retire
    <3>7. CASE ExistsEnd(u)
      <4>1. [job[u] EXCEPT !.pc = IF Proved(u) THEN "retire" ELSE "veto",
                           !.ok = TRUE, !.proved = job[u].ok].pc # "fanout"
        BY <3>0 DEF Job
      <4>2. QED
        BY <3>3, <3>7, <4>1 DEF ExistsEnd
    <3>8. CASE RenewNow(u) \/ RenewAnswered(u) \/ RenewEnd(u)
      <4>1. \A b \in BOOLEAN : Returned(u, b).pc # "fanout"
        BY <3>0, IdleFacts, ReturnedFacts
      <4>2. CASE RenewNow(u)
        <5>1. [job[u] EXCEPT !.pc = "renew", !.todo = Ranks, !.win = Window].pc = "renew"
              /\ Current(job[u].att) \in BOOLEAN
          BY <3>0 DEF Job, Current
        <5>2. \/ Goto(u, [job[u] EXCEPT !.pc = "renew", !.todo = Ranks, !.win = Window])
              \/ Goto(u, Returned(u, Current(job[u].att)))
          BY <4>2 DEF RenewNow
        <5>3. QED
          BY <3>3, <4>1, <5>1, <5>2
      <4>3. CASE RenewAnswered(u)
        <5> DEFINE ok == job[u].ok /\ Current(job[u].att) /\ WindowOf(u) > 0
        <5>1. [job[u] EXCEPT !.pc = "renewed", !.ok = ok, !.win = 0].pc = "renewed"
          BY <3>0 DEF Job
        <5>2. Goto(u, [job[u] EXCEPT !.pc = "renewed", !.ok = ok, !.win = 0])
          BY <4>3 DEF RenewAnswered
        <5>3. QED
          BY <3>3, <5>1, <5>2
      <4>4. CASE RenewEnd(u)
        <5>1. Goto(u, Returned(u, job[u].ok)) /\ job[u].ok \in BOOLEAN
          BY <3>0, <4>4 DEF RenewEnd, Job
        <5>2. QED
          BY <3>3, <4>1, <5>1
      <4>5. QED
        BY <3>8, <4>2, <4>3, <4>4
    <3>9. CASE Veto(u) \/ InvalidateEnd(u)
      <4>1. \A b \in BOOLEAN : Vetoed(u, b).pc # "fanout"
        BY <3>0, IdleFacts, VetoedFacts DEF Vetoed
      <4>2. [job[u] EXCEPT !.pc = "invalidate", !.todo = Ranks, !.ok = TRUE].pc = "invalidate"
        BY <3>0 DEF Job
      <4>3. Acknowledged(u) \in BOOLEAN
        BY <3>0 DEF Acknowledged, Drained, Job
      <4>4. \/ Goto(u, [job[u] EXCEPT !.pc = "invalidate", !.todo = Ranks, !.ok = TRUE])
            \/ Goto(u, Vetoed(u, FALSE)) \/ Goto(u, Vetoed(u, Acknowledged(u)))
        BY <3>9 DEF Veto, InvalidateEnd
      <4>5. QED
        BY <3>3, <4>1, <4>2, <4>3, <4>4
    <3>10. QED
      BY <2>6, <3>1, <3>2, <3>4, <3>5, <3>6, <3>7, <3>8, <3>9 DEF Proceed
  <2>7. CASE Tick
    <3>1. job'[t] = [job[t] EXCEPT !.win = Less(job[t].win)]
      BY <2>7 DEF Tick
    <3>2. job'[t].pc = job[t].pc /\ job'[t].att = job[t].att /\ job'[t].todo = job[t].todo
      BY <1>1, <3>1 DEF Job
    <3>3. QED
      BY <1>4, <2>1, <3>2
  <2>8. CASE \/ \E d \in Commands : Late(d)
             \/ \E s \in Ranks : (\E b \in Attempts : Commit(s, b)) \/ \E o \in Objects : Evict(s, o)
             \/ Shutdown \/ UNCHANGED vars
    <3>1. job' = job
      BY <2>8 DEF Late, Commit, Evict, Shutdown, vars
    <3>2. QED
      BY <1>4, <3>1 DEF MayReserve
  <2>9. QED
    BY <2>4, <2>5, <2>6, <2>7, <2>8 DEF Next
<1>5. QED
  BY <1>3, <1>4 DEF MayReserve

(* How a thread goes on, and what brings an invalidation further.          *)
Invalidating(j, u) ==
  \/ j.todo = Ranks /\ job[u].key \in invalid'
  \/ job[u].pc = "invalidate" /\ (j.ok => job[u].ok) /\ j.todo = job[u].todo
  \/ /\ job[u].pc = "invalidate"
     /\ \E r \in Ranks : /\ j.todo = job[u].todo \ {r}
                         /\ j.ok => job[u].ok /\ rank' = After(Call("invalidate", r, job[u].key))
Onward(j, u) ==
  /\ j.op = job[u].op /\ j.key = job[u].key
  /\ j.att = job[u].att \/ (u = Scheduler /\ j.pc \in {"fanout", "admit"})
  /\ j.pc \in Vouching => job[u].pc \in Vouching \/ job[u].op = "complete"
  /\ j.pc = "invalidate" => Invalidating(j, u)

LEMMA JobMoves ==
  ASSUME LeaseInv, [Next]_vars, NEW u \in Threads
  PROVE  Begin(u) \/ job'[u] = Idle \/ Onward(job'[u], u)
<1> DEFINE Goal == Begin(u) \/ job'[u] = Idle \/ Onward(job'[u], u)
<1>1. job \in [Threads -> Job] /\ \A t \in Threads : JobOK(t)
  BY DEF LeaseInv, Typed, Jobs
<1>2. ASSUME job'[u] = job[u] PROVE Goal
  BY <1>2 DEF Onward, Invalidating, Vouching
<1>3. ASSUME NEW t \in Threads, NEW j, Goto(t, j) PROVE IF u = t THEN job'[u] = j ELSE job'[u] = job[u]
  BY <1>1, <1>3 DEF Goto
<1>4. ASSUME NEW t \in Threads, NEW j, Goto(t, j), Onward(j, t) PROVE Goal
  <2>1. CASE u = t
    BY <1>3, <1>4, <2>1
  <2>2. CASE u # t
    BY <1>2, <1>3, <1>4, <2>2
  <2>3. QED
    BY <2>1, <2>2
<1>5. ASSUME NEW t \in Threads, Goto(t, Idle) PROVE Goal
  <2>1. CASE u = t
    BY <1>3, <1>5, <2>1
  <2>2. CASE u # t
    BY <1>2, <1>3, <1>5, <2>2
  <2>3. QED
    BY <2>1, <2>2
<1>6. ASSUME NEW t \in Threads, NEW j, Goto(t, j), j.op = job[t].op, j.key = job[t].key, j.att = job[t].att,
             j.pc \in Vouching => job[t].pc \in Vouching \/ job[t].op = "complete",
             j.pc # "invalidate"
      PROVE  Goal
  BY <1>4, <1>6 DEF Onward
<1> HIDE DEF Goal
<1>7. ASSUME NEW t \in Threads, Begin(t) PROVE Goal
  <2>1. \E j : Goto(t, j)
    <3>1. ASSUME NEW i \in Identities, BeginReserve(t, i) PROVE \E j : Goto(t, j)
      BY <3>1 DEF BeginReserve
    <3>2. ASSUME NEW k \in Keys, BeginInvalidate(t, k) PROVE \E j : Goto(t, j)
      BY <3>2 DEF BeginInvalidate
    <3>3. ASSUME NEW a \in Attempts, \/ BeginRenew(t, a) \/ BeginRelease(t, a)
                                     \/ \E success \in BOOLEAN : BeginComplete(t, a, success)
          PROVE  \E j : Goto(t, j)
      BY <3>3 DEF BeginRenew, BeginRelease, BeginComplete
    <3>4. QED
      BY <1>7, <3>1, <3>2, <3>3 DEF Begin
  <2>2. CASE u = t
    BY <1>7, <2>2 DEF Goal
  <2>3. CASE u # t
    BY <1>2, <1>3, <2>1, <2>3
  <2>4. QED
    BY <2>2, <2>3
<1>8. ASSUME NEW t \in Threads, Proceed(t) PROVE Goal
  <2>0. JobOK(t) /\ job[t] \in Job
    BY <1>1
  <2>1. CASE Refuse(t) \/ Accept(t) \/ RollbackEnd(t) \/ ReleaseEnd(t)
    BY <1>5, <2>1 DEF Refuse, Accept, RollbackEnd, ReleaseEnd
  <2>2. CASE Recheck(t)
    <3> DEFINE j == [job[t] EXCEPT !.pc = "admit", !.att = None]
    <3>1. j.op = job[t].op /\ j.key = job[t].key /\ j.pc = "admit"
      BY <2>0 DEF Job
    <3>2. t = Scheduler
      BY <2>0, <2>2 DEF Recheck, At, JobOK
    <3>3. Goto(t, Idle) \/ Goto(t, j)
      BY <2>2 DEF Recheck
    <3> HIDE DEF j
    <3>4. QED
      BY <1>4, <1>5, <3>1, <3>2, <3>3 DEF Onward, Vouching
  <2>3. ASSUME NEW a \in Attempts, Admit(t, a) PROVE Goal
    <3> DEFINE j == [job[t] EXCEPT !.pc = "fanout", !.att = a, !.todo = Ranks, !.win = Window]
    <3>1. j.op = job[t].op /\ j.key = job[t].key /\ j.pc = "fanout"
      BY <2>0 DEF Job
    <3>2. t = Scheduler
      BY <2>0, <2>3 DEF Admit, At, JobOK
    <3>3. Goto(t, j)
      BY <2>3 DEF Admit
    <3> HIDE DEF j
    <3>4. QED
      BY <1>4, <3>1, <3>2, <3>3 DEF Onward, Vouching
  <2>4. CASE Reject(t)
    <3> DEFINE j == [job[t] EXCEPT !.pc = "rollback", !.todo = leases[job[t].att], !.ok = TRUE, !.win = 0]
    <3>1. j.op = job[t].op /\ j.key = job[t].key /\ j.att = job[t].att /\ j.pc = "rollback"
      BY <2>0 DEF Job
    <3>2. Goto(t, j)
      BY <2>4 DEF Reject
    <3> HIDE DEF j
    <3>3. QED
      BY <1>6, <3>1, <3>2 DEF Vouching
  <2>5. CASE Retire(t)
    <3> DEFINE j == [job[t] EXCEPT !.pc = "release", !.todo = Ranks, !.ok = TRUE]
    <3>1. j.op = job[t].op /\ j.key = job[t].key /\ j.att = job[t].att /\ j.pc = "release"
      BY <2>0 DEF Job
    <3>2. Goto(t, j) /\ job[t].pc = "retire"
      BY <2>5 DEF Retire, At
    <3> HIDE DEF j
    <3>3. QED
      BY <1>6, <3>1, <3>2 DEF Vouching
  <2>6. CASE ExistsEnd(t)
    <3> DEFINE j == [job[t] EXCEPT !.pc = IF Proved(t) THEN "retire" ELSE "veto",
                                   !.ok = TRUE, !.proved = job[t].ok]
    <3>1. j.op = job[t].op /\ j.key = job[t].key /\ j.att = job[t].att /\ j.pc \in {"retire", "veto"}
      BY <2>0 DEF Job
    <3>2. Goto(t, j) /\ job[t].op = "complete"
      BY <2>0, <2>6 DEF ExistsEnd, At, JobOK
    <3> HIDE DEF j
    <3>3. QED
      BY <1>6, <3>1, <3>2
  <2>7. CASE RenewNow(t) \/ RenewEnd(t)
    <3>0. job[t].pc \in Vouching
      BY <2>7 DEF RenewNow, RenewEnd, At, Vouching
    <3>1. ASSUME NEW b \in BOOLEAN, Goto(t, Returned(t, b)) PROVE Goal
      <4>1. CASE job[t].op = "renew"
        BY <1>5, <2>0, <3>1, <4>1, ReturnedFacts
      <4>2. CASE job[t].op # "renew"
        <5>1. LET j == Returned(t, b) IN
              /\ j.op = job[t].op /\ j.key = job[t].key /\ j.att = job[t].att /\ j.pc \in {"recheck", "retire"}
          BY <2>0, <4>2, ReturnedFacts
        <5>2. QED
          BY <1>6, <3>0, <3>1, <5>1
      <4>3. QED
        BY <4>1, <4>2
    <3>2. CASE RenewNow(t)
      <4> DEFINE j == [job[t] EXCEPT !.pc = "renew", !.todo = Ranks, !.win = Window]
      <4>1. j.op = job[t].op /\ j.key = job[t].key /\ j.att = job[t].att /\ j.pc = "renew"
        BY <2>0 DEF Job
      <4>2. (Goto(t, j) \/ Goto(t, Returned(t, Current(job[t].att)))) /\ Current(job[t].att) \in BOOLEAN
        BY <3>2 DEF RenewNow, Current
      <4> HIDE DEF j
      <4>3. QED
        BY <1>6, <3>0, <3>1, <4>1, <4>2
    <3>3. CASE RenewEnd(t)
      <4>1. Goto(t, Returned(t, job[t].ok)) /\ job[t].ok \in BOOLEAN
        BY <2>0, <3>3 DEF RenewEnd, Job
      <4>2. QED
        BY <3>1, <4>1
    <3>4. QED
      BY <2>7, <3>2, <3>3
  <2>8. CASE RenewAnswered(t)
    <3> DEFINE ok == job[t].ok /\ Current(job[t].att) /\ WindowOf(t) > 0
               j == [job[t] EXCEPT !.pc = "renewed", !.ok = ok, !.win = 0]
    <3>1. j.op = job[t].op /\ j.key = job[t].key /\ j.att = job[t].att /\ j.pc = "renewed"
      BY <2>0 DEF Job
    <3>2. Goto(t, j) /\ job[t].pc = "renew"
      BY <2>8 DEF RenewAnswered, At
    <3> HIDE DEF j
    <3>3. QED
      BY <1>6, <3>1, <3>2 DEF Vouching
  <2>9. CASE Veto(t) \/ InvalidateEnd(t)
    <3>0. job[t].op \in {"invalidate", "complete"}
      BY <2>0, <2>9 DEF Veto, InvalidateEnd, At, JobOK
    <3>1. ASSUME NEW b \in BOOLEAN, Goto(t, Vetoed(t, b)) PROVE Goal
      <4>1. CASE job[t].op = "invalidate"
        BY <1>5, <2>0, <3>1, <4>1, VetoedFacts
      <4>2. CASE job[t].op # "invalidate"
        <5>1. LET j == Vetoed(t, b) IN
              /\ j.op = job[t].op /\ j.key = job[t].key /\ j.att = job[t].att /\ j.pc = "retire"
          BY <2>0, <4>2, VetoedFacts
        <5>2. QED
          BY <1>6, <3>0, <3>1, <4>2, <5>1
      <4>3. QED
        BY <4>1, <4>2
    <3>2. CASE Veto(t)
      <4> DEFINE j == [job[t] EXCEPT !.pc = "invalidate", !.todo = Ranks, !.ok = TRUE]
      <4>1. j.op = job[t].op /\ j.key = job[t].key /\ j.att = job[t].att /\ j.pc = "invalidate" /\ j.todo = Ranks
        BY <2>0 DEF Job
      <4>2. Goto(t, Vetoed(t, FALSE)) \/ (Goto(t, j) /\ job[t].key \in invalid')
        BY <3>2 DEF Veto
      <4> HIDE DEF j
      <4>3. QED
        BY <1>4, <3>1, <4>1, <4>2 DEF Onward, Invalidating, Vouching
    <3>3. CASE InvalidateEnd(t)
      <4>1. Goto(t, Vetoed(t, Acknowledged(t))) /\ Acknowledged(t) \in BOOLEAN
        BY <2>0, <3>3 DEF InvalidateEnd, Acknowledged, Drained, Job
      <4>2. QED
        BY <3>1, <4>1
    <3>4. QED
      BY <2>9, <3>2, <3>3
  <2>10. CASE DrainPop(t) \/ DrainCall(t)
    <3>1. PICK d : Goto(t, [job[t] EXCEPT !.cmd = d])
      BY <2>10 DEF DrainPop, DrainCall
    <3> DEFINE j == [job[t] EXCEPT !.cmd = d]
    <3>2. /\ j.op = job[t].op /\ j.key = job[t].key /\ j.att = job[t].att /\ j.pc = job[t].pc
          /\ j.ok = job[t].ok /\ j.todo = job[t].todo
      BY <2>0 DEF Job
    <3>3. Goto(t, j)
      BY <3>1
    <3> HIDE DEF j
    <3>4. QED
      BY <1>4, <3>2, <3>3 DEF Onward, Invalidating
  <2>11. QED
    BY <1>8, <2>1, <2>2, <2>3, <2>4, <2>5, <2>6, <2>7, <2>8, <2>9, <2>10 DEF Proceed
<1>9. ASSUME NEW t \in Threads, RankCall(t) PROVE Goal
  <2>0. job[t] \in Job
    BY <1>1
  <2> PICK r \in Ranks : \/ ReserveRank(t, r) \/ RenewRank(t, r) \/ ReleaseRank(t, r)
                         \/ InvalidateRank(t, r) \/ ExistsRank(t, r)
    BY <1>9 DEF RankCall
  <2>1. CASE ~InvalidateRank(t, r)
    <3>1. PICK ok \in BOOLEAN : Goto(t, Called(t, r, ok)) /\ job[t].pc # "invalidate"
      BY <2>1 DEF ReserveRank, RenewRank, ReleaseRank, InvalidateRank, ExistsRank, Alive, At
    <3> DEFINE j == Called(t, r, ok)
    <3>2. j.op = job[t].op /\ j.key = job[t].key /\ j.att = job[t].att /\ j.pc = job[t].pc
      BY <2>0, CalledFacts
    <3>3. Goto(t, j)
      BY <3>1
    <3> HIDE DEF j
    <3>4. QED
      BY <1>6, <3>1, <3>2, <3>3
  <2>2. CASE InvalidateRank(t, r)
    <3>1. PICK ok \in BOOLEAN : /\ Goto(t, Called(t, r, ok)) /\ job[t].pc = "invalidate"
                                /\ ok => rank' = After(Call("invalidate", r, job[t].key))
      BY <2>2 DEF InvalidateRank, At, Answered
    <3> DEFINE j == Called(t, r, ok)
    <3>2. /\ j.op = job[t].op /\ j.key = job[t].key /\ j.att = job[t].att /\ j.pc = job[t].pc
          /\ j.todo = job[t].todo \ {r} /\ j.ok = (job[t].ok /\ ok)
      BY <2>0, CalledFacts
    <3>3. Goto(t, j)
      BY <3>1
    <3> HIDE DEF j
    <3>4. Invalidating(j, t)
      BY <3>1, <3>2 DEF Invalidating
    <3>5. QED
      BY <1>4, <3>1, <3>2, <3>3, <3>4 DEF Onward, Vouching
  <2>3. QED
    BY <2>1, <2>2
<1>10. CASE Tick
  <2>1. job'[u] = [job[u] EXCEPT !.win = Less(job[u].win)]
    BY <1>10 DEF Tick
  <2>2. /\ job'[u].op = job[u].op /\ job'[u].pc = job[u].pc /\ job'[u].att = job[u].att
        /\ job'[u].key = job[u].key /\ job'[u].todo = job[u].todo /\ job'[u].ok = job[u].ok
    BY <1>1, <2>1 DEF Job
  <2>3. QED
    BY <2>2 DEF Goal, Onward, Invalidating
<1>11. CASE \/ \E c \in Commands : Late(c)
            \/ \E r \in Ranks : (\E a \in Attempts : Commit(r, a)) \/ \E o \in Objects : Evict(r, o)
            \/ Shutdown \/ UNCHANGED vars
  <2>1. job' = job
    BY <1>11 DEF Late, Commit, Evict, Shutdown, vars
  <2>2. QED
    BY <1>2, <2>1 DEF Goal
<1>12. QED
  BY <1>7, <1>8, <1>9, <1>10, <1>11 DEF Next, Goal

(* A step of one thread leaves the others where they are.                  *)
LEMMA OthersStay ==
  ASSUME LeaseInv, NEW t \in Threads, Begin(t), NEW u \in Threads, u # t
  PROVE  job'[u] = job[u]
<1>1. job \in [Threads -> Job]
  BY DEF LeaseInv, Typed
<1>2. ASSUME NEW j, Goto(t, j) PROVE job'[u] = job[u]
  BY <1>1, <1>2 DEF Goto
<1>3. ASSUME NEW i \in Identities, BeginReserve(t, i) PROVE job'[u] = job[u]
  BY <1>2, <1>3 DEF BeginReserve
<1>4. ASSUME NEW k \in Keys, BeginInvalidate(t, k) PROVE job'[u] = job[u]
  BY <1>2, <1>4 DEF BeginInvalidate
<1>5. ASSUME NEW a \in Attempts, \/ BeginRenew(t, a) \/ BeginRelease(t, a)
                                 \/ \E success \in BOOLEAN : BeginComplete(t, a, success)
      PROVE  job'[u] = job[u]
  BY <1>2, <1>5 DEF BeginRenew, BeginRelease, BeginComplete
<1>6. QED
  BY <1>3, <1>4, <1>5 DEF Begin

(* The jobs that begin.                                                    *)
LEMMA Beginning ==
  ASSUME LeaseInv, Indexed, NEW t \in Threads, Begin(t)
  PROVE  LET j == job'[t] IN
    \/ /\ t = Scheduler /\ j.op = "reserve" /\ j.pc \in {"admit", "vouch"}
       /\ \A u \in Workers : ~(job[u].op = "invalidate" /\ job[u].key = j.key)
       /\ j.pc = "vouch" => ~ask[j.att].writing
    \/ /\ t \in Workers /\ j.op = "invalidate" /\ j.pc = "veto" /\ j.att = None
       /\ \A u \in Threads : ~(job[u].op = "reserve" /\ job[u].key = j.key)
    \/ /\ t \in Workers /\ j.op \in {"renew", "release", "complete"} /\ j.pc # "invalidate"
       /\ j.att \in Tickets /\ Undispatched(j.att)
       /\ j.op = "complete" => ask[j.att].writing
<1> DEFINE Goal(j) ==
      \/ /\ t = Scheduler /\ j.op = "reserve" /\ j.pc \in {"admit", "vouch"}
         /\ \A u \in Workers : ~(job[u].op = "invalidate" /\ job[u].key = j.key)
         /\ j.pc = "vouch" => ~ask[j.att].writing
      \/ /\ t \in Workers /\ j.op = "invalidate" /\ j.pc = "veto" /\ j.att = None
         /\ \A u \in Threads : ~(job[u].op = "reserve" /\ job[u].key = j.key)
      \/ /\ t \in Workers /\ j.op \in {"renew", "release", "complete"} /\ j.pc # "invalidate"
         /\ j.att \in Tickets /\ Undispatched(j.att)
         /\ j.op = "complete" => ask[j.att].writing
<1>1. job \in [Threads -> Job]
  BY DEF LeaseInv, Typed
<1>2. ASSUME NEW j, Goto(t, j) PROVE job'[t] = j
  BY <1>1, <1>2 DEF Goto
<1>3. ASSUME NEW i \in Identities, BeginReserve(t, i) PROVE Goal(job'[t])
  <2> DEFINE j == [Idle EXCEPT !.op = "reserve", !.id = i, !.key = i.key]
             admit == [j EXCEPT !.pc = "admit"]
             vouch == [j EXCEPT !.pc = "vouch", !.att = identities[i]]
  <2>1. /\ admit.op = "reserve" /\ admit.key = i.key /\ admit.pc = "admit"
        /\ vouch.op = "reserve" /\ vouch.key = i.key /\ vouch.pc = "vouch" /\ vouch.att = identities[i]
    BY DEF Idle
  <2>2. Goto(t, admit) \/ (Goto(t, vouch) /\ identities[i] # None)
    BY <1>3 DEF BeginReserve
  <2> HIDE DEF admit, vouch
  <2>3. /\ t = Scheduler
        /\ \A u \in Workers : ~(job[u].op = "invalidate" /\ job[u].key = i.key)
        /\ identities[i] # None => ~i.writing
    BY <1>3 DEF BeginReserve, Wanted
  <2>4. identities[i] # None => ask[identities[i]] = i
    BY DEF Indexed
  <2>5. CASE Goto(t, admit)
    <3>1. job'[t] = admit
      BY <1>2, <2>5
    <3>2. QED
      BY <2>1, <2>3, <3>1
  <2>6. CASE Goto(t, vouch) /\ identities[i] # None
    <3>1. job'[t] = vouch
      BY <1>2, <2>6
    <3>2. QED
      BY <2>1, <2>3, <2>4, <2>6, <3>1
  <2>7. QED
    BY <2>2, <2>5, <2>6
<1>4. ASSUME NEW k \in Keys, BeginInvalidate(t, k) PROVE Goal(job'[t])
  <2> DEFINE j == [Idle EXCEPT !.op = "invalidate", !.pc = "veto", !.key = k]
  <2>1. j.op = "invalidate" /\ j.pc = "veto" /\ j.key = k /\ j.att = None
    BY DEF Idle
  <2>2. /\ Goto(t, j) /\ t \in Workers
        /\ \A u \in Threads : ~(job[u].op = "reserve" /\ job[u].key = k)
    BY <1>4 DEF BeginInvalidate, Worker
  <2> HIDE DEF j
  <2>3. job'[t] = j
    BY <1>2, <2>2
  <2>4. QED
    BY <2>1, <2>2, <2>3
<1>5. ASSUME NEW a \in Attempts, BeginRenew(t, a) PROVE Goal(job'[t])
  <2> DEFINE j == [Idle EXCEPT !.op = "renew", !.pc = "vouch", !.att = a, !.key = ask[a].key]
  <2>1. j.op = "renew" /\ j.pc = "vouch" /\ j.att = a
    BY DEF Idle
  <2>2. Goto(t, j) /\ t \in Workers /\ a \in Tickets /\ Undispatched(a)
    BY <1>5 DEF BeginRenew, Worker
  <2> HIDE DEF j
  <2>3. job'[t] = j
    BY <1>2, <2>2
  <2>4. QED
    BY <2>1, <2>2, <2>3
<1>6. ASSUME NEW a \in Attempts, BeginRelease(t, a) PROVE Goal(job'[t])
  <2> DEFINE j == [Idle EXCEPT !.op = "release", !.pc = "retire", !.att = a, !.key = ask[a].key]
  <2>1. j.op = "release" /\ j.pc = "retire" /\ j.att = a
    BY DEF Idle
  <2>2. Goto(t, j) /\ t \in Workers /\ a \in Tickets /\ Undispatched(a)
    BY <1>6 DEF BeginRelease, Worker
  <2> HIDE DEF j
  <2>3. job'[t] = j
    BY <1>2, <2>2
  <2>4. QED
    BY <2>1, <2>2, <2>3
<1>7. ASSUME NEW a \in Attempts, NEW success \in BOOLEAN, BeginComplete(t, a, success) PROVE Goal(job'[t])
  <2> DEFINE j == [Idle EXCEPT !.op = "complete", !.att = a, !.key = ask[a].key,
                               !.pc = IF success THEN "exists" ELSE "veto",
                               !.todo = IF success THEN Ranks ELSE {}]
  <2>1. j.op = "complete" /\ j.pc \in {"exists", "veto"} /\ j.att = a
    BY DEF Idle
  <2>2. Goto(t, j) /\ t \in Workers /\ a \in Tickets /\ Undispatched(a) /\ ask[a].writing
    BY <1>7 DEF BeginComplete, Worker
  <2> HIDE DEF j
  <2>3. job'[t] = j
    BY <1>2, <2>2
  <2>4. QED
    BY <2>1, <2>2, <2>3
<1>8. QED
  BY <1>3, <1>4, <1>5, <1>6, <1>7 DEF Begin

(* What a step does to the vetoes.                                         *)
LEMMA VetoMoves ==
  ASSUME [Next]_vars, ~\E t \in Threads : Veto(t) \/ InvalidateEnd(t) \/ RollbackEnd(t) \/ ReleaseEnd(t)
  PROVE  UNCHANGED vetoes
<1>1. CASE UNCHANGED vars
  BY <1>1 DEF vars
<1>2. ASSUME NEW t \in Threads, Begin(t) PROVE UNCHANGED vetoes
  BY <1>2 DEF Begin, BeginReserve, BeginInvalidate, BeginRenew, BeginRelease, BeginComplete
<1>3. ASSUME NEW t \in Threads, RankCall(t) PROVE UNCHANGED vetoes
  BY <1>3 DEF RankCall, ReserveRank, RenewRank, ReleaseRank, InvalidateRank, ExistsRank
<1>4. ASSUME NEW t \in Threads, Proceed(t) PROVE UNCHANGED vetoes
  <2>1. \/ Recheck(t) \/ Refuse(t) \/ (\E a \in Attempts : Admit(t, a)) \/ Accept(t) \/ Reject(t)
        \/ RenewNow(t) \/ RenewAnswered(t) \/ Retire(t) \/ ExistsEnd(t) \/ DrainPop(t) \/ DrainCall(t)
        \/ RenewEnd(t)
    BY <1>4 DEF Proceed
  <2>2. QED
    BY <2>1 DEF Recheck, Refuse, Admit, Accept, Reject, RenewNow, RenewAnswered, Retire, ExistsEnd,
                DrainPop, DrainCall, RenewEnd
<1>5. CASE \/ \E c \in Commands : Late(c)
           \/ \E r \in Ranks : (\E a \in Attempts : Commit(r, a)) \/ \E o \in Objects : Evict(r, o)
           \/ Tick \/ Shutdown
  BY <1>5 DEF Late, Commit, Evict, Tick, Shutdown
<1>6. QED
  BY <1>1, <1>2, <1>3, <1>4, <1>5 DEF Next

LEMMA ClearVetoFacts ==
  ASSUME NEW k, NEW acked, NEW tickets, NEW asked, ClearVeto(k, acked, tickets, asked)
  PROVE  /\ invalid' \subseteq invalid /\ invalid \ invalid' \subseteq {k}
         /\ k \in invalid \ invalid' => Unvetoed(k, acked, tickets, asked)
         /\ invalidateAcked' \subseteq acked
         /\ \A x \in invalidateAcked' : x \in invalid => x \in invalid'
         /\ k \in invalidateAcked' => ~Unvetoed(k, acked, tickets, asked)
BY DEF ClearVeto

(* A veto is lifted when its key is gone from every rank and nobody has it *)
(* any more; it is acknowledged when its key is gone.                      *)
LEMMA Lifted ==
  ASSUME LeaseInv, Single, PendingExact, Acked, Vetoing, [Next]_vars
  PROVE  /\ \A k \in invalid \ invalid' : Unused(k)' /\ \A r \in Ranks : Clean(r, k)
         /\ \A k \in invalidateAcked' : /\ k \in invalid'
                                        /\ k \in invalid \/ Unused(k)
                                        /\ \A r \in Ranks : Clean(r, k)
<1> DEFINE Lift(k) == Unused(k)' /\ \A r \in Ranks : Clean(r, k)
           Ack(k) == /\ k \in invalid' /\ (k \in invalid \/ Unused(k))
                     /\ \A r \in Ranks : Clean(r, k)
<1>1. /\ job \in [Threads -> Job] /\ \A t \in Threads : JobOK(t)
      /\ ask \in [Attempts -> Identities \cup {None}]
      /\ stage \in [Attempts -> {"new", "asked", "ticket", "retiring", "dropped", "failed"}]
  BY DEF LeaseInv, Typed, BooksTyped, Jobs
<1>2. ASSUME NEW t \in Threads, RollbackEnd(t)
      PROVE  (\A k \in invalid \ invalid' : Lift(k)) /\ \A k \in invalidateAcked' : Ack(k)
  <2> PICK a, k : a = job[t].att /\ k = job[t].key
    OBVIOUS
  <2>1. /\ a \in Attempts /\ stage[a] = "asked" /\ stage' = [stage EXCEPT ![a] = "failed"]
        /\ ask' = ask /\ pending' = pending \ {ask[a]}
        /\ ClearVeto(k, invalidateAcked, Tickets, pending')
    BY <1>1, <1>2 DEF RollbackEnd, JobOK, At
  <2>2. ASSUME Unvetoed(k, invalidateAcked, Tickets, pending') PROVE Lift(k)
    <3>1. k \in invalidateAcked
      BY <2>2 DEF Unvetoed
    <3>2. ASSUME NEW b \in Charged' PROVE ask[b].key # k
      <4>1. b \in Attempts /\ b # a /\ b \in Charged
        BY <1>1, <2>1 DEF Charged
      <4>2. CASE b \in Tickets
        BY <2>2, <4>2 DEF Unvetoed
      <4>3. CASE stage[b] = "asked"
        <5>1. ask[b] \in pending /\ ask[b] # ask[a]
          BY <2>1, <4>1, <4>3 DEF Single
        <5>2. QED
          BY <2>1, <2>2, <5>1 DEF Unvetoed
      <4>4. QED
        BY <4>1, <4>2, <4>3 DEF Charged, Tickets
    <3>3. QED
      BY <2>1, <3>1, <3>2 DEF Acked, Unused
  <2>3. \A x \in invalid \ invalid' : x = k /\ Unvetoed(k, invalidateAcked, Tickets, pending')
    BY <2>1, ClearVetoFacts
  <2>4. \A x \in invalidateAcked' : x \in invalidateAcked /\ (x \in invalid => x \in invalid')
    BY <2>1, ClearVetoFacts
  <2>5. QED
    BY <2>2, <2>3, <2>4 DEF Acked
<1>3. ASSUME NEW t \in Threads, ReleaseEnd(t)
      PROVE  (\A k \in invalid \ invalid' : Lift(k)) /\ \A k \in invalidateAcked' : Ack(k)
  <2> PICK a, k : a = job[t].att /\ k = ask[a].key
    OBVIOUS
  <2>1. CASE ~Dropping(t)
    BY <1>3, <2>1 DEF ReleaseEnd, Acked
  <2>2. CASE Dropping(t)
    <3>1. /\ a \in Attempts /\ a \in Tickets /\ stage' = [stage EXCEPT ![a] = "dropped"]
          /\ ask' = ask /\ pending' = pending
          /\ ClearVeto(k, invalidateAcked, Tickets \ {a}, pending)
      BY <1>3, <2>2 DEF ReleaseEnd, Dropping, Tickets
    <3>2. ASSUME Unvetoed(k, invalidateAcked, Tickets \ {a}, pending) PROVE Lift(k)
      <4>1. k \in invalidateAcked
        BY <3>2 DEF Unvetoed
      <4>2. ASSUME NEW b \in Charged' PROVE ask[b].key # k
        <5>1. b \in Attempts /\ b # a /\ b \in Charged
          BY <1>1, <3>1 DEF Charged
        <5>2. CASE b \in Tickets
          BY <3>2, <5>1, <5>2 DEF Unvetoed
        <5>3. CASE stage[b] = "asked"
          BY <3>2, <5>1, <5>3 DEF Single, Unvetoed
        <5>4. QED
          BY <5>1, <5>2, <5>3 DEF Charged, Tickets
      <4>3. QED
        BY <3>1, <4>1, <4>2 DEF Acked, Unused
    <3>3. \A x \in invalid \ invalid' : x = k /\ Unvetoed(k, invalidateAcked, Tickets \ {a}, pending)
      BY <3>1, ClearVetoFacts
    <3>4. \A x \in invalidateAcked' : x \in invalidateAcked /\ (x \in invalid => x \in invalid')
      BY <3>1, ClearVetoFacts
    <3>5. QED
      BY <3>2, <3>3, <3>4 DEF Acked
  <2>3. QED
    BY <2>1, <2>2
<1>4. ASSUME NEW t \in Threads, InvalidateEnd(t)
      PROVE  (\A k \in invalid \ invalid' : Lift(k)) /\ \A k \in invalidateAcked' : Ack(k)
  <2> PICK k : k = job[t].key
    OBVIOUS
  <2> DEFINE acked == invalidateAcked \cup {k}
  <2>1. CASE ~Acknowledged(t)
    BY <1>4, <2>1 DEF InvalidateEnd, Acked
  <2>2. CASE Acknowledged(t)
    <3>1. /\ ask' = ask /\ stage' = stage
          /\ ClearVeto(k, acked, Tickets, pending)
          /\ job[t].pc = "invalidate" /\ job[t].ok /\ job[t].todo = {}
      BY <1>4, <2>2 DEF InvalidateEnd, bookkeeping, Acknowledged, At, DrainOver, Draining
    <3>2. /\ \A r \in Ranks : Clean(r, k)
          /\ k \in invalid \/ Unused(k)
      BY <3>1 DEF Vetoing, VetoingBy
    <3> HIDE DEF acked
    <3>3. Unused(k) <=> (\A b \in Tickets : ask[b].key # k) /\ \A i \in pending : i.key # k
      <4>1. ASSUME Unused(k), NEW i \in pending PROVE i.key # k
        BY <4>1 DEF PendingExact, Unused, Charged
      <4>2. ASSUME \A b \in Tickets : ask[b].key # k, \A i \in pending : i.key # k, NEW b \in Charged
            PROVE  ask[b].key # k
        BY <4>2 DEF Single, Charged, Tickets
      <4>3. Unused(k) => \A b \in Tickets : ask[b].key # k
        BY DEF Unused, Charged, Tickets
      <4>4. QED
        BY <4>1, <4>2, <4>3 DEF Unused
    <3>4. Unvetoed(k, acked, Tickets, pending) <=> Unused(k)
      BY <3>3 DEF Unvetoed, acked
    <3>5. Unused(k)' <=> Unused(k)
      BY <3>1 DEF Unused, Charged
    <3>6. /\ \A x \in invalid \ invalid' : x = k /\ Unvetoed(k, acked, Tickets, pending)
          /\ invalidateAcked' \subseteq acked
          /\ \A x \in invalidateAcked' : x \in invalid => x \in invalid'
          /\ k \in invalidateAcked' => ~Unvetoed(k, acked, Tickets, pending)
      BY <3>1, ClearVetoFacts
    <3>7. \A x \in invalid \ invalid' : Lift(x)
      BY <3>2, <3>4, <3>5, <3>6
    <3>8. ASSUME NEW x \in invalidateAcked' PROVE Ack(x)
      <4>1. CASE x = k
        BY <3>2, <3>4, <3>6, <3>8, <4>1
      <4>2. CASE x # k
        <5>1. x \in invalidateAcked
          BY <3>6, <3>8, <4>2 DEF acked
        <5>2. QED
          BY <3>6, <5>1 DEF Acked
      <4>3. QED
        BY <4>1, <4>2
    <3>9. QED
      BY <3>7, <3>8
  <2>3. QED
    BY <2>1, <2>2
<1>5. ASSUME NEW t \in Threads, Veto(t)
      PROVE  (\A k \in invalid \ invalid' : Lift(k)) /\ \A k \in invalidateAcked' : Ack(k)
  BY <1>5 DEF Veto, Acked
<1>6. CASE UNCHANGED vetoes
  BY <1>6 DEF vetoes, Acked
<1>7. (\A k \in invalid \ invalid' : Lift(k)) /\ \A k \in invalidateAcked' : Ack(k)
  BY <1>2, <1>3, <1>4, <1>5, <1>6, VetoMoves DEF vetoes, Acked
<1>8. QED
  BY <1>7

(* An object is condemned together with the veto of its key.               *)
LEMMA Condemning ==
  ASSUME LeaseInv, [Next]_vars, NEW r \in Ranks, NEW o \in Objects, <<r, o>> \in condemned' \ condemned
  PROVE  /\ rank' = rank /\ UNCHANGED books
         /\ rank[r].obj[o] = "C" /\ KeyOf(o) \in invalid'
<1>1. PICK t \in Threads : Veto(t) \/ InvalidateEnd(t) \/ RollbackEnd(t) \/ ReleaseEnd(t)
  BY VetoMoves DEF vetoes
<1>2. Veto(t)
  BY <1>1 DEF InvalidateEnd, RollbackEnd, ReleaseEnd
<1>3. /\ invalid' = invalid \cup {job[t].key}
      /\ condemned' = condemned \cup UNION {{s} \X Of(rank[s], job[t].key, {"C"}) : s \in Ranks}
  BY <1>2 DEF Veto
<1>4. o \in Of(rank[r], job[t].key, {"C"})
  BY <1>3
<1>5. QED
  BY <1>2, <1>3, <1>4 DEF Veto, Of, remote, bookkeeping, books

(* The conjuncts of the invariant, one by one.                             *)
LEMMA HeldOfStep ==
  ASSUME LeaseInv, HeldOf, [Next]_vars
  PROVE  HeldOf'
<1> SUFFICES ASSUME NEW r \in Ranks, NEW a \in Attempts, rank'[r].hold[a] # None
             PROVE  /\ stage'[a] # "new" /\ KeyOf(rank[r].hold[a])' = ask'[a].key
                    /\ rank'[r].obj[rank'[r].hold[a]] # "none"
  BY DEF HeldOf, KeyOf
<1>1. rank \in [Ranks -> Stores]
  BY DEF LeaseInv, Typed
<1>2. PICK o : o = rank'[r].hold[a]
  OBVIOUS
<1>3. stage[a] # "new" /\ o \in Objects /\ KeyOf(o) = ask[a].key /\ rank[r].obj[o] # "none"
  <2>1. CASE o = rank[r].hold[a]
    BY <1>1, <1>2, <2>1 DEF HeldOf, Stores
  <2>2. CASE o # rank[r].hold[a]
    <3>1. MayReserve(r, a) /\ o \in Of(rank[r], ask[a].key, {"C"})
      BY <1>2, <2>2, HoldMoves
    <3>2. QED
      BY <3>1, MayReserveFacts DEF Of
  <2>3. QED
    BY <2>1, <2>2
<1>4. ask'[a] = ask[a] /\ stage'[a] # "new" /\ KeyOf(o)' = KeyOf(o)
  BY <1>3, AskStays, KeyStays
<1>5. rank'[r].obj[o] # "none"
  BY <1>3, ObjectMoves
<1>6. QED
  BY <1>2, <1>3, <1>4, <1>5 DEF KeyOf

LEMMA UnspentStep ==
  ASSUME LeaseInv, Unspent, [Next]_vars
  PROVE  Unspent'
<1> SUFFICES ASSUME NEW r \in Ranks, NEW a \in Attempts, MayReserve(r, a)', rank'[r].obj[a] # "none"
             PROVE  FALSE
  BY DEF Unspent
<1>1. rank[r].obj[a] = "none"
  <2>1. MayReserve(r, a) \/ stage[a] = "new"
    BY Reserving
  <2>2. stage[a] = "new" => rank[r].obj[a] = "none"
    BY DEF LeaseInv, Asked
  <2>3. QED
    BY <2>1, <2>2 DEF Unspent
<1>2. a \in Objects
  BY DEF Objects
<1>3. QED
  BY <1>1, <1>2, ObjectMoves

LEMMA PendingStep ==
  ASSUME LeaseInv, Single, PendingExact, [Next]_vars
  PROVE  PendingExact'
<1>1. /\ \A t \in Threads : JobOK(t)
      /\ ask \in [Attempts -> Identities \cup {None}]
      /\ stage \in [Attempts -> {"new", "asked", "ticket", "retiring", "dropped", "failed"}]
  BY DEF LeaseInv, Typed, BooksTyped, Jobs
<1>2. CASE UNCHANGED books
  BY <1>2 DEF books, PendingExact
<1>3. ASSUME NEW t \in Threads, NEW a \in Attempts, Admit(t, a) PROVE PendingExact'
  <2>1. /\ stage[a] = "new" /\ stage' = [stage EXCEPT ![a] = "asked"] /\ ask' = [ask EXCEPT ![a] = job[t].id]
        /\ pending' = pending \cup {job[t].id}
    BY <1>3 DEF Admit
  <2>2. ASSUME NEW i \in pending PROVE \E b \in Attempts : stage'[b] = "asked" /\ ask'[b] = i
    <3>1. PICK b \in Attempts : stage[b] = "asked" /\ ask[b] = i
      BY DEF PendingExact
    <3>2. QED
      BY <1>1, <2>1, <3>1
  <2>3. stage'[a] = "asked" /\ ask'[a] = job[t].id
    BY <1>1, <2>1
  <2>4. QED
    BY <2>1, <2>2, <2>3 DEF PendingExact
<1>4. ASSUME NEW t \in Threads, Accept(t) \/ RollbackEnd(t) PROVE PendingExact'
  <2>1. PICK a \in Attempts, new \in {"ticket", "failed"} :
          stage[a] = "asked" /\ stage' = [stage EXCEPT ![a] = new] /\ ask' = ask /\ pending' = pending \ {ask[a]}
    <3>1. job[t].att \in Attempts /\ stage[job[t].att] = "asked"
      BY <1>1, <1>4 DEF Accept, RollbackEnd, JobOK, At
    <3>2. CASE Accept(t)
      BY <3>1, <3>2 DEF Accept
    <3>3. CASE RollbackEnd(t)
      BY <3>1, <3>3 DEF RollbackEnd
    <3>4. QED
      BY <1>4, <3>2, <3>3
  <2>2. ASSUME NEW i \in pending' PROVE \E b \in Attempts : stage'[b] = "asked" /\ ask'[b] = i
    <3>1. PICK b \in Attempts : stage[b] = "asked" /\ ask[b] = i
      BY <2>1 DEF PendingExact
    <3>2. QED
      BY <1>1, <2>1, <3>1
  <2>3. QED
    BY <2>2 DEF PendingExact
<1>5. ASSUME NEW t \in Threads, Retire(t) \/ ReleaseEnd(t) PROVE PendingExact'
  <2>1. /\ ask' = ask /\ pending' = pending
        /\ \A a \in Attempts : stage[a] = "asked" => stage'[a] = "asked"
    <3>1. CASE Retire(t)
      BY <1>1, <3>1 DEF Retire, Tickets
    <3>2. CASE ReleaseEnd(t)
      BY <1>1, <3>2 DEF ReleaseEnd, Dropping, Tickets
    <3>3. QED
      BY <1>5, <3>1, <3>2
  <2>2. QED
    BY <2>1 DEF PendingExact
<1>6. QED
  BY <1>2, <1>3, <1>4, <1>5, Frame DEF Entry

LEMMA IndexFrame ==
  ASSUME [Next]_vars, ~\E t \in Threads : Accept(t) \/ ReleaseEnd(t)
  PROVE  identities' = identities
<1>1. CASE UNCHANGED vars
  BY <1>1 DEF vars, bookkeeping
<1>2. ASSUME NEW t \in Threads, Begin(t) PROVE identities' = identities
  BY <1>2 DEF Begin, BeginReserve, BeginInvalidate, BeginRenew, BeginRelease, BeginComplete, bookkeeping
<1>3. ASSUME NEW t \in Threads, RankCall(t) PROVE identities' = identities
  BY <1>3 DEF RankCall, ReserveRank, RenewRank, ReleaseRank, InvalidateRank, ExistsRank, bookkeeping
<1>4. ASSUME NEW t \in Threads, Proceed(t) PROVE identities' = identities
  <2>1. \/ Recheck(t) \/ Refuse(t) \/ (\E a \in Attempts : Admit(t, a)) \/ Reject(t) \/ Veto(t)
        \/ RenewNow(t) \/ RenewAnswered(t) \/ Retire(t) \/ ExistsEnd(t) \/ DrainPop(t) \/ DrainCall(t)
        \/ RollbackEnd(t) \/ RenewEnd(t) \/ InvalidateEnd(t)
    BY <1>4 DEF Proceed
  <2>2. QED
    BY <2>1 DEF Recheck, Refuse, Admit, Reject, Veto, RenewNow, RenewAnswered, Retire, ExistsEnd,
                DrainPop, DrainCall, RollbackEnd, RenewEnd, InvalidateEnd, bookkeeping
<1>5. CASE \/ \E c \in Commands : Late(c)
           \/ \E r \in Ranks : (\E a \in Attempts : Commit(r, a)) \/ \E o \in Objects : Evict(r, o)
           \/ Tick \/ Shutdown
  BY <1>5 DEF Late, Commit, Evict, Tick, Shutdown, bookkeeping
<1>6. QED
  BY <1>1, <1>2, <1>3, <1>4, <1>5 DEF Next

LEMMA IndexedStep ==
  ASSUME LeaseInv, Indexed, [Next]_vars
  PROVE  Indexed'
<1>1. identities \in [Identities -> Attempts \cup {None}] /\ \A t \in Threads : JobOK(t)
  BY DEF LeaseInv, Typed, BooksTyped, Jobs
<1> SUFFICES ASSUME NEW i \in Identities, identities'[i] # None
             PROVE  stage'[identities'[i]] # "new" /\ ask'[identities'[i]] = i
  BY DEF Indexed
<1>2. PICK a : a = identities'[i]
  OBVIOUS
<1>3. a \in Attempts /\ stage[a] # "new" /\ ask[a] = i
  <2>1. CASE a = identities[i]
    BY <1>1, <1>2, <2>1 DEF Indexed
  <2>2. CASE a # identities[i]
    <3>1. PICK t \in Threads : Accept(t) \/ ReleaseEnd(t)
      BY <1>2, <2>2, IndexFrame
    <3>2. CASE ReleaseEnd(t)
      <4>1. \/ identities' = identities
            \/ identities' = [identities EXCEPT ![ask[job[t].att]] = None]
        BY <3>2 DEF ReleaseEnd
      <4>2. QED
        BY <1>1, <1>2, <2>2, <4>1
    <3>3. CASE Accept(t)
      <4>1. /\ identities' = [identities EXCEPT ![ask[job[t].att]] = job[t].att]
            /\ job[t].att \in Attempts /\ stage[job[t].att] = "asked"
        BY <1>1, <3>3 DEF Accept, JobOK, At
      <4>2. QED
        BY <1>1, <1>2, <2>2, <4>1
    <3>4. QED
      BY <3>1, <3>2, <3>3
  <2>3. QED
    BY <2>1, <2>2
<1>4. QED
  BY <1>2, <1>3, AskStays

(* A ticket leaves the books at the end of its release.                    *)
LEMMA TicketStays ==
  ASSUME LeaseInv, [Next]_vars, NEW a \in Tickets, a \notin Tickets'
  PROVE  \E t \in Threads : job[t].pc = "release" /\ job[t].att = a /\ job'[t] = Idle
<1>1. /\ job \in [Threads -> Job] /\ \A t \in Threads : JobOK(t)
      /\ stage \in [Attempts -> {"new", "asked", "ticket", "retiring", "dropped", "failed"}]
      /\ a \in Attempts /\ stage[a] \in {"ticket", "retiring"} /\ stage'[a] \notin {"ticket", "retiring"}
  BY DEF LeaseInv, Typed, BooksTyped, Jobs, Tickets
<1>2. PICK t \in Threads : Entry(t)
  BY <1>1, Frame DEF books
<1>3. ASSUME NEW b \in Attempts, Admit(t, b) PROVE FALSE
  BY <1>1, <1>3 DEF Admit
<1>4. ~Accept(t) /\ ~RollbackEnd(t)
  <2>1. CASE Accept(t)
    BY <1>1, <2>1 DEF Accept, JobOK, At
  <2>2. CASE RollbackEnd(t)
    BY <1>1, <2>2 DEF RollbackEnd, JobOK, At
  <2>3. QED
    BY <2>1, <2>2
<1>5. ~Retire(t)
  BY <1>1 DEF Retire
<1>6. ReleaseEnd(t)
  BY <1>2, <1>3, <1>4, <1>5 DEF Entry
<1>7. job[t].att = a
  BY <1>1, <1>6 DEF ReleaseEnd
<1>8. QED
  BY <1>1, <1>6, <1>7 DEF ReleaseEnd, Goto, At

LEMMA OwnedStep ==
  ASSUME LeaseInv, Indexed, Owned, [Next]_vars
  PROVE  Owned'
<1>1. /\ job \in [Threads -> Job] /\ \A t \in Threads : JobOK(t)
      /\ Workers \subseteq Threads /\ Scheduler \in Threads /\ Scheduler \notin Workers
      /\ Threads = Workers \cup {Scheduler}
      /\ Idle.op = "none" /\ Idle.pc = "idle" /\ Idle.att = None
  BY IdleFacts, ThreadAssumption DEF LeaseInv, Typed, Jobs, Threads
<1>2. ASSUME NEW t \in Threads, Begin(t) PROVE ask' = ask /\ stage' = stage /\ Tickets' = Tickets
  BY <1>2 DEF Begin, BeginReserve, BeginInvalidate, BeginRenew, BeginRelease, BeginComplete,
              bookkeeping, Tickets
<1>3. ASSUME NEW t \in Workers, NEW u \in Workers, t # u, job'[t].att # None
      PROVE  job'[t].att # job'[u].att
  <2>1. CASE Begin(t)
    <3>1. job'[u] = job[u]
      BY <1>1, <1>3, <2>1, OthersStay
    <3>2. Undispatched(job'[t].att)
      BY <1>1, <1>3, <2>1, Beginning
    <3>3. QED
      BY <3>1, <3>2 DEF Undispatched
  <2>2. CASE Begin(u)
    <3>1. job'[t] = job[t]
      BY <1>1, <1>3, <2>2, OthersStay
    <3>2. job'[u].att = None \/ Undispatched(job'[u].att)
      BY <1>1, <2>2, Beginning
    <3>3. QED
      BY <1>3, <3>1, <3>2 DEF Undispatched
  <2>3. CASE ~Begin(t) /\ ~Begin(u)
    <3>1. job'[t].att \in {None, job[t].att} /\ job'[u].att \in {None, job[u].att}
      BY <1>1, <2>3, JobMoves DEF Onward
    <3>2. QED
      BY <1>3, <3>1 DEF Owned
  <2>4. QED
    BY <2>1, <2>2, <2>3
<1>4. ASSUME NEW t \in Workers, job'[t].op = "complete"
      PROVE  job'[t].att \in Tickets' /\ ask'[job'[t].att].writing
  <2>1. CASE Begin(t)
    BY <1>1, <1>2, <1>4, <2>1, Beginning
  <2>2. CASE ~Begin(t)
    <3>1. PICK a \in Attempts : /\ a = job[t].att /\ a = job'[t].att /\ job[t].op = "complete"
                                /\ a \in Tickets /\ ask[a].writing
      BY <1>1, <1>4, <2>2, JobMoves DEF Onward, Owned, Tickets
    <3>2. ask'[a] = ask[a]
      BY <3>1, AskStays DEF Tickets
    <3>3. ASSUME NEW u \in Threads, job[u].pc = "release", job[u].att = a, job'[u] = Idle PROVE FALSE
      <4>1. u # t
        BY <1>1, <1>4, <3>3
      <4>2. CASE u \in Workers
        BY <3>1, <3>3, <4>1, <4>2, NoneAssumption DEF Owned
      <4>3. CASE u = Scheduler
        BY <3>1, <3>3, <4>3 DEF Owned, Vouching
      <4>4. QED
        BY <1>1, <4>2, <4>3
    <3>4. a \in Tickets'
      BY <3>1, <3>3, TicketStays
    <3>5. QED
      BY <3>1, <3>2, <3>4
  <2>3. QED
    BY <2>1, <2>2
<1>5. job'[Scheduler].op \in {"none", "reserve"}
  <2>1. CASE Begin(Scheduler)
    BY <1>1, <2>1, Beginning
  <2>2. CASE ~Begin(Scheduler)
    BY <1>1, <2>2, JobMoves DEF Onward, Owned
  <2>3. QED
    BY <2>1, <2>2
<1>6. ASSUME job'[Scheduler].pc \in Vouching PROVE ~ask'[job'[Scheduler].att].writing
  <2>1. CASE Begin(Scheduler)
    BY <1>1, <1>2, <1>6, <2>1, Beginning DEF Vouching
  <2>2. CASE ~Begin(Scheduler)
    <3>1. Onward(job'[Scheduler], Scheduler)
      BY <1>1, <1>6, <2>2, JobMoves DEF Vouching
    <3>2. /\ job'[Scheduler].att = job[Scheduler].att /\ job[Scheduler].pc \in Vouching
      BY <1>6, <3>1 DEF Onward, Owned, Vouching
    <3>3. job[Scheduler].att \in Attempts /\ stage[job[Scheduler].att] # "new"
      BY <1>1, <3>2 DEF JobOK, Vouching, Issued
    <3>4. QED
      BY <3>2, <3>3, AskStays DEF Owned
  <2>3. QED
    BY <2>1, <2>2
<1>7. QED
  BY <1>3, <1>4, <1>5, <1>6 DEF Owned

LEMMA ApartStep ==
  ASSUME LeaseInv, Indexed, Owned, Apart, [Next]_vars
  PROVE  Apart'
<1>1. /\ Workers \subseteq Threads /\ Scheduler \in Threads /\ Scheduler \notin Workers
      /\ Idle.op = "none"
  BY IdleFacts, ThreadAssumption DEF Threads
<1> SUFFICES ASSUME NEW t \in Workers, job'[t].op = "invalidate", job'[Scheduler].op = "reserve"
             PROVE  job'[t].key # job'[Scheduler].key
  BY DEF Apart
<1>2. CASE Begin(t)
  <2>1. job'[Scheduler] = job[Scheduler]
    BY <1>1, <1>2, OthersStay
  <2>2. \A u \in Threads : ~(job[u].op = "reserve" /\ job[u].key = job'[t].key)
    BY <1>1, <1>2, Beginning
  <2>3. QED
    BY <1>1, <2>1, <2>2
<1>3. CASE Begin(Scheduler)
  <2>1. job'[t] = job[t]
    BY <1>1, <1>3, OthersStay
  <2>2. \A u \in Workers : ~(job[u].op = "invalidate" /\ job[u].key = job'[Scheduler].key)
    BY <1>1, <1>3, Beginning
  <2>3. QED
    BY <2>1, <2>2
<1>4. CASE ~Begin(t) /\ ~Begin(Scheduler)
  <2>1. /\ job'[t].op = job[t].op /\ job'[t].key = job[t].key
        /\ job'[Scheduler].op = job[Scheduler].op /\ job'[Scheduler].key = job[Scheduler].key
    BY <1>1, <1>4, JobMoves DEF Onward
  <2>2. QED
    BY <2>1 DEF Apart
<1>5. QED
  BY <1>2, <1>3, <1>4

LEMMA AckedStep ==
  ASSUME LeaseInv, Single, PendingExact, Acked, Vetoing, [Next]_vars
  PROVE  Acked'
<1>1. \A k \in invalidateAcked' : /\ k \in invalid'
                                  /\ k \in invalid \/ Unused(k)
                                  /\ \A r \in Ranks : Clean(r, k)
  BY Lifted
<1>2. ASSUME NEW k \in invalidateAcked', NEW r \in Ranks PROVE Clean(r, k)'
  BY <1>1, CleanStays
<1>3. QED
  BY <1>1, <1>2 DEF Acked

(* A rank that has executed an invalidation is clean of its key.           *)
LEMMA InvalidatedClean ==
  ASSUME LeaseInv, [Next]_vars, NEW r \in Ranks, NEW k, rank' = After(Call("invalidate", r, k))
  PROVE  Clean(r, k)'
<1>1. rank \in [Ranks -> Stores] /\ Asked
  BY DEF LeaseInv, Typed
<1>2. rank' = [rank EXCEPT ![r] = Invalidated(rank[r], k)]
  BY DEF After, Call
<1>3. rank'[r].obj = [o \in Objects |-> IF o \in Of(rank[r], k, {"W", "C"}) THEN "T" ELSE rank[r].obj[o]]
  BY <1>1, <1>2 DEF Invalidated, Stores
<1>4. ASSUME NEW o \in Objects, rank'[r].obj[o] \in {"W", "C"}
      PROVE  rank[r].obj[o] = rank'[r].obj[o] /\ KeyOf(o)' # k
  <2>1. rank[r].obj[o] = rank'[r].obj[o] /\ KeyOf(o) # k
    BY <1>3, <1>4 DEF Of
  <2>2. QED
    BY <1>4, <2>1, KeyStays
<1>5. Of(rank[r], k, {"C"})' = {}
  BY <1>4 DEF Of
<1>6. ASSUME NEW a \in Attempts, ask'[a].key = k PROVE rank'[r].obj[a] # "W"
  BY <1>4, <1>6, ObjectAssumption DEF KeyOf, Objects
<1>7. QED
  BY <1>5, <1>6 DEF Clean

(* The invalidation under way keeps its veto, or its key has nobody left.  *)
LEMMA VetoingStep ==
  ASSUME LeaseInv, Single, VetoInv, Owned', [Next]_vars
  PROVE  Vetoing'
<1>1. /\ \A t \in Threads : JobOK(t)
      /\ ask \in [Attempts -> Identities \cup {None}]
      /\ Workers \subseteq Threads /\ Scheduler \in Threads /\ Threads = Workers \cup {Scheduler}
      /\ Idle.pc = "idle" /\ Scheduler \notin Workers
  BY IdleFacts, ThreadAssumption DEF LeaseInv, Typed, BooksTyped, Jobs, Threads
<1>2. HeldOf /\ Indexed /\ Owned /\ Apart /\ Acked /\ Vetoing /\ PendingExact
  BY DEF VetoInv
<1> SUFFICES ASSUME NEW u \in Threads, job'[u].pc = "invalidate" PROVE VetoingBy(u)'
  BY DEF Vetoing, VetoingBy
<1>3. /\ Onward(job'[u], u) /\ Invalidating(job'[u], u)
      /\ job'[u].op = job[u].op /\ job'[u].key = job[u].key
  <2>1. ~Begin(u)
    BY <1>1, <1>2, Beginning
  <2>2. QED
    BY <1>1, <2>1, JobMoves DEF Onward
<1>4. PICK k : k = job[u].key
  OBVIOUS
<1>5. CASE job'[u].todo = Ranks /\ k \in invalid'
  BY <1>3, <1>4, <1>5 DEF VetoingBy
<1>6. CASE job[u].pc = "invalidate"
  <2>1. /\ k \in invalid \/ (job[u].op = "invalidate" /\ Unused(k))
        /\ job[u].ok => \A r \in Ranks \ job[u].todo : Clean(r, k)
        /\ job[u].op \in {"invalidate", "complete"}
    BY <1>1, <1>2, <1>4, <1>6 DEF Vetoing, VetoingBy, JobOK
  <2>2. u \in Workers
    BY <1>1, <1>2, <2>1 DEF Owned
  <2>3. ASSUME k \in invalid, k \notin invalid' PROVE job[u].op = "invalidate" /\ Unused(k)'
    <3>1. Unused(k)'
      BY <1>2, <2>3, Lifted
    <3>2. job[u].op # "complete"
      <4> SUFFICES ASSUME job[u].op = "complete" PROVE FALSE
        OBVIOUS
      <4>1. PICK a \in Attempts : a = job[u].att /\ stage[a] # "new" /\ ask[a].key = k
        BY <1>1, <1>4 DEF JobOK, Issued
      <4>2. job'[u].att = a
        BY <1>1, <1>3, <2>2, <4>1 DEF Onward
      <4>3. a \in Charged'
        BY <1>3, <2>2, <4>2 DEF Owned, Tickets, Charged
      <4>4. ask'[a].key = k
        BY <4>1, AskStays
      <4>5. QED
        BY <3>1, <4>3, <4>4 DEF Unused
    <3>3. QED
      BY <2>1, <3>1, <3>2
  <2>4. ASSUME job[u].op = "invalidate", Unused(k) PROVE Unused(k)'
    <3>1. ASSUME NEW a \in Charged' PROVE ask'[a].key # k
      <4>1. a \in Attempts
        BY DEF Charged
      <4>2. CASE a \in Charged
        BY <2>4, <4>1, <4>2, AskStays DEF Unused, Charged
      <4>3. CASE a \notin Charged
        <5>1. PICK t \in Threads : Admit(t, a)
          BY <4>1, <4>3, StageMoves
        <5>2. /\ t = Scheduler /\ job[t].op = "reserve" /\ job[t].key = job[t].id.key
              /\ ask' = [ask EXCEPT ![a] = job[t].id]
          BY <1>1, <5>1 DEF Admit, At, JobOK
        <5>3. job[u].key # job[t].key
          BY <1>2, <2>2, <2>4, <5>2 DEF Apart
        <5>4. QED
          BY <1>1, <1>4, <4>1, <5>2, <5>3
      <4>4. QED
        BY <4>2, <4>3
    <3>2. QED
      BY <3>1 DEF Unused
  <2>5. k \in invalid' \/ (job'[u].op = "invalidate" /\ Unused(k)')
    BY <1>3, <2>1, <2>3, <2>4
  <2>6. ASSUME NEW r \in Ranks, Clean(r, k) PROVE Clean(r, k)'
    BY <2>1, <2>6, CleanStays
  <2>7. job'[u].ok => \A r \in Ranks \ job'[u].todo : Clean(r, k)'
    <3>1. CASE (job'[u].ok => job[u].ok) /\ job'[u].todo = job[u].todo
      BY <2>1, <2>6, <3>1
    <3>2. ASSUME NEW s \in Ranks, job'[u].todo = job[u].todo \ {s},
                 job'[u].ok => job[u].ok /\ rank' = After(Call("invalidate", s, job[u].key))
          PROVE  job'[u].ok => \A r \in Ranks \ job'[u].todo : Clean(r, k)'
      <4>1. job'[u].ok => Clean(s, k)'
        BY <1>4, <3>2, InvalidatedClean
      <4>2. QED
        BY <2>1, <2>6, <3>2, <4>1
    <3>3. CASE job'[u].todo = Ranks
      BY <3>3
    <3>4. QED
      BY <1>3, <3>1, <3>2, <3>3 DEF Invalidating
  <2>8. QED
    BY <1>3, <1>4, <2>5, <2>7 DEF VetoingBy
<1>7. QED
  BY <1>3, <1>4, <1>5, <1>6 DEF Invalidating

LEMMA CondemnedStep ==
  ASSUME LeaseInv, Single, VetoInv, [Next]_vars
  PROVE  Condemned'
<1>1. Unspent /\ Acked /\ Vetoing /\ PendingExact /\ Condemned
  BY DEF VetoInv
<1> SUFFICES ASSUME NEW r \in Ranks, NEW o \in Objects, <<r, o>> \in condemned'
             PROVE  /\ rank'[r].obj[o] \in {"C", "T"}
                    /\ rank'[r].obj[o] = "C" => KeyOf(o)' \in invalid'
  BY DEF Condemned
<1>2. CASE <<r, o>> \in condemned
  <2>1. rank[r].obj[o] \in {"C", "T"} /\ (rank[r].obj[o] = "C" => KeyOf(o) \in invalid)
    BY <1>1, <1>2 DEF Condemned
  <2>2. rank'[r].obj[o] = rank[r].obj[o] \/ rank'[r].obj[o] = "T"
    <3>1. ~MayReserve(r, o) \/ o \notin Attempts
      BY <1>1, <2>1 DEF Unspent
    <3>2. QED
      BY <2>1, <3>1, ObjectMoves
  <2>3. ASSUME rank'[r].obj[o] = "C" PROVE KeyOf(o)' \in invalid'
    <3>1. PICK k : k = KeyOf(o)
      OBVIOUS
    <3>2. rank[r].obj[o] = "C" /\ k \in invalid /\ KeyOf(o)' = k
      BY <2>1, <2>2, <2>3, <3>1, KeyStays
    <3>3. k \notin invalid' => Clean(r, k)
      BY <1>1, <3>2, Lifted
    <3>4. ~Clean(r, k)
      BY <3>1, <3>2 DEF Clean, Of
    <3>5. QED
      BY <3>2, <3>3, <3>4
  <2>4. QED
    BY <2>1, <2>2, <2>3
<1>3. CASE <<r, o>> \notin condemned
  <2>1. /\ rank' = rank /\ UNCHANGED books /\ rank[r].obj[o] = "C" /\ KeyOf(o) \in invalid'
    BY <1>3, Condemning
  <2>2. QED
    BY <2>1, KeyStays
<1>4. QED
  BY <1>2, <1>3

LEMMA HeldCondemnedStep ==
  ASSUME LeaseInv, Single, VetoInv, [Next]_vars
  PROVE  HeldCondemned'
<1>1. HeldOf /\ Acked /\ Vetoing /\ PendingExact /\ Condemned /\ HeldCondemned
  BY DEF VetoInv
<1>2. rank \in [Ranks -> Stores] /\ condemned \subseteq Ranks \X Objects /\ None \notin Objects
  BY NoneAssumption DEF LeaseInv, Typed, VetoesTyped, Objects
<1> SUFFICES ASSUME NEW r \in Ranks, NEW a \in Charged', <<r, rank'[r].hold[a]>> \in condemned'
             PROVE  ask'[a].key \in invalid'
  BY DEF HeldCondemned
<1>3. a \in Attempts /\ a \in Charged'
  BY DEF Charged
<1>4. PICK o : o = rank'[r].hold[a]
  OBVIOUS
<1>5. CASE o # rank[r].hold[a]
  <2>1. UNCHANGED <<books, vetoes>>
    <3>1. rank' # rank
      BY <1>4, <1>5
    <3>2. QED
      BY <3>1, Moves
  <2>2. o \in Objects /\ <<r, o>> \in condemned
    BY <1>2, <1>4, <2>1 DEF vetoes
  <2>3. o \in Of(rank[r], ask[a].key, {"C"})
    BY <1>2, <1>3, <1>4, <1>5, <2>2, HoldMoves
  <2>4. ask[a].key \in invalid
    BY <1>1, <2>2, <2>3 DEF Condemned, Of
  <2>5. QED
    BY <2>1, <2>4 DEF books, vetoes
<1>6. CASE o = rank[r].hold[a]
  <2>0. o \in Objects
    <3>1. condemned' \subseteq Ranks \X Objects
      BY Step DEF LeaseInv, Typed, VetoesTyped
    <3>2. QED
      BY <1>4, <3>1
  <2>1. stage[a] # "new" /\ KeyOf(o) = ask[a].key /\ rank[r].obj[o] # "none"
    BY <1>1, <1>2, <1>3, <1>6, <2>0 DEF HeldOf
  <2>2. a \in Charged
    <3>1. ASSUME NEW t \in Threads, Admit(t, a) PROVE FALSE
      BY <2>1, <3>1 DEF Admit
    <3>2. QED
      BY <1>3, <3>1, StageMoves
  <2>3. PICK k : k = ask[a].key
    OBVIOUS
  <2>4. ask'[a].key = k
    BY <1>3, <2>1, <2>3, AskStays
  <2>5. CASE <<r, o>> \in condemned
    <3>1. k \in invalid
      BY <1>1, <1>6, <2>2, <2>3, <2>5 DEF HeldCondemned
    <3>2. k \notin invalid' => Unused(k)'
      BY <1>1, <3>1, Lifted
    <3>3. ~Unused(k)'
      BY <2>4, <1>3 DEF Unused
    <3>4. QED
      BY <2>4, <3>2, <3>3
  <2>6. CASE <<r, o>> \notin condemned
    <3>1. KeyOf(o) \in invalid'
      BY <1>4, <2>0, <2>6, Condemning
    <3>2. QED
      BY <2>1, <2>3, <2>4, <3>1
  <2>7. QED
    BY <2>5, <2>6
<1>7. QED
  BY <1>5, <1>6

LEMMA VetoStart == Init => VetoInv
<1> SUFFICES ASSUME Init PROVE VetoInv
  OBVIOUS
<1>1. /\ Idle.op = "none" /\ Idle.pc = "idle" /\ Idle.att = None
      /\ \A t \in Threads : job[t] = Idle
      /\ Workers \subseteq Threads /\ Scheduler \in Threads
  BY IdleFacts DEF Init, Threads
<1>2. \A r \in Ranks, a \in Attempts : rank[r].hold[a] = None
  BY DEF Init
<1>3. /\ wire = {} /\ pending = {} /\ invalid = {} /\ invalidateAcked = {} /\ condemned = {}
      /\ \A i \in Identities : identities[i] = None
  BY DEF Init
<1>4. HeldOf /\ Unspent /\ PendingExact /\ Indexed
  BY <1>1, <1>2, <1>3 DEF HeldOf, Unspent, MayReserve, PendingExact, Indexed
<1>5. Owned /\ Apart
  BY <1>1 DEF Owned, Apart, Vouching
<1>6. Acked /\ Vetoing /\ Condemned /\ HeldCondemned
  BY <1>1, <1>3 DEF Acked, Vetoing, VetoingBy, Condemned, HeldCondemned
<1>7. QED
  BY <1>4, <1>5, <1>6 DEF VetoInv

LEMMA VetoStep == LeaseInv /\ BooksInv /\ VetoInv /\ [Next]_vars => VetoInv'
<1> SUFFICES ASSUME LeaseInv, BooksInv, VetoInv, [Next]_vars PROVE VetoInv'
  OBVIOUS
<1>1. /\ Single /\ HeldOf /\ Unspent /\ PendingExact /\ Indexed /\ Owned /\ Apart /\ Acked /\ Vetoing
  BY DEF BooksInv, VetoInv
<1>2. HeldOf' /\ Unspent' /\ PendingExact' /\ Indexed' /\ Owned' /\ Apart'
  BY <1>1, HeldOfStep, UnspentStep, PendingStep, IndexedStep, OwnedStep, ApartStep
<1>3. Acked' /\ Vetoing' /\ Condemned' /\ HeldCondemned'
  BY <1>1, <1>2, AckedStep, VetoingStep, CondemnedStep, HeldCondemnedStep
<1>4. QED
  BY <1>2, <1>3 DEF VetoInv

(* The invariant of the vetoes: what is vetoed and acknowledged is clean   *)
(* on every rank, and what was condemned is vetoed while a rank serves it  *)
(* or a ticket of its key is left.                                         *)
THEOREM VetoSafe == Spec => []VetoInv
BY VetoStart, VetoStep, CoordinatorSafe, BooksSafe, PTL DEF Spec

(* An object that was there when invalidate() was called for its key is    *)
(* never behind a load ticket the coordinator vouches for, whichever       *)
(* acknowledgements were lost and whoever reserved in the meantime.        *)
THEOREM CondemnedStaysOut == Spec => []CondemnedNeverVouched
<1>1. VetoInv => CondemnedNeverVouched
  BY DEF VetoInv, HeldCondemned, CondemnedNeverVouched, Vouched, Current, Charged
<1>2. QED
  BY <1>1, VetoSafe, PTL

(* As long as a rank serves an object that invalidate() was called about,  *)
(* its key stays vetoed: a veto is never lifted on a cleanup that was only *)
(* assumed.                                                                *)
THEOREM VetoedUntilGone == Spec => []VetoUntilGone
<1>1. LeaseInv /\ VetoInv => VetoUntilGone
  BY DEF LeaseInv, Typed, VetoesTyped, VetoInv, Condemned, VetoUntilGone
<1>2. QED
  BY <1>1, VetoSafe, CoordinatorSafe, PTL
-----------------------------------------------------------------------------
(* The refinement of TicketService.  A step changes the books, answers a   *)
(* renewal, sets or lifts a veto, closes the coordinator, or leaves all    *)
(* that to the clock and the ranks.                                        *)
Quiet == UNCHANGED <<books, vetoes, closed>> /\ \A a \in Attempts : valid'[a] <= valid[a]
Closing == closed' = TRUE /\ UNCHANGED <<books, vetoes, valid, rank>>

LEMMA Roles ==
  ASSUME LeaseInv, [Next]_vars,
         ~\E t \in Threads : Entry(t) \/ RenewAnswered(t) \/ Veto(t) \/ InvalidateEnd(t)
  PROVE  Quiet \/ Closing
<1>1. valid \in [Attempts -> 0..Window] /\ closed \in BOOLEAN /\ \A a \in Attempts : valid[a] \in Nat
  BY Bounds DEF LeaseInv, Typed, BooksTyped, LogTyped
<1>2. UNCHANGED books /\ UNCHANGED vetoes
  <2>1. UNCHANGED books
    BY Frame
  <2>2. UNCHANGED vetoes
    BY VetoMoves DEF Entry
  <2>3. QED
    BY <2>1, <2>2
<1>3. ASSUME valid' = valid, closed' = closed \/ (closed' = TRUE /\ rank' = rank) PROVE Quiet \/ Closing
  BY <1>1, <1>2, <1>3 DEF Quiet, Closing
<1>4. ASSUME NEW t \in Threads, Begin(t) PROVE UNCHANGED <<valid, closed>>
  BY <1>4 DEF Begin, BeginReserve, BeginInvalidate, BeginRenew, BeginRelease, BeginComplete, bookkeeping
<1>5. ASSUME NEW t \in Threads, RankCall(t)
      PROVE  valid' = valid /\ (closed' = closed \/ (closed' = TRUE /\ rank' = rank))
  <2> PICK s \in Ranks : \/ ReserveRank(t, s) \/ RenewRank(t, s) \/ ReleaseRank(t, s)
                         \/ InvalidateRank(t, s) \/ ExistsRank(t, s)
    BY <1>5 DEF RankCall
  <2>1. CASE ReserveRank(t, s)
    BY <2>1 DEF ReserveRank, Recorded, Unanswered, remote
  <2>2. CASE RenewRank(t, s) \/ ExistsRank(t, s)
    BY <2>2 DEF RenewRank, ExistsRank, bookkeeping
  <2>3. CASE ReleaseRank(t, s) \/ InvalidateRank(t, s)
    BY <2>3 DEF ReleaseRank, InvalidateRank, Unanswered, Replay, Recorded, Overflowed, bookkeeping
  <2>4. QED
    BY <2>1, <2>2, <2>3
<1>6. ASSUME NEW t \in Threads, Proceed(t)
      PROVE  valid' = valid /\ (closed' = closed \/ (closed' = TRUE /\ rank' = rank))
  <2>1. CASE DrainCall(t)
    BY <2>1 DEF DrainCall, Unanswered, Replay, Recorded, Overflowed, bookkeeping
  <2>2. CASE Recheck(t) \/ Refuse(t) \/ Reject(t) \/ RenewNow(t) \/ ExistsEnd(t) \/ DrainPop(t) \/ RenewEnd(t)
    BY <2>2 DEF Recheck, Refuse, Reject, RenewNow, ExistsEnd, DrainPop, RenewEnd, bookkeeping
  <2>3. QED
    BY <1>6, <2>1, <2>2 DEF Proceed, Entry
<1>7. ASSUME \/ \E c \in Commands : Late(c)
             \/ \E r \in Ranks : (\E a \in Attempts : Commit(r, a)) \/ \E o \in Objects : Evict(r, o)
             \/ UNCHANGED vars
      PROVE  UNCHANGED <<valid, closed>>
  BY <1>7 DEF Late, Commit, Evict, vars, bookkeeping
<1>8. CASE Shutdown
  <2>1. valid' = valid /\ closed' = TRUE /\ rank' = rank
    BY <1>8 DEF Shutdown, bookkeeping, remote
  <2>2. QED
    BY <1>3, <2>1
<1>9. CASE Tick
  <2>1. valid' = [a \in Attempts |-> Less(valid[a])] /\ closed' = closed
    BY <1>9 DEF Tick
  <2>2. \A a \in Attempts : Less(valid[a]) <= valid[a]
    BY <1>1 DEF Less
  <2>3. QED
    BY <1>2, <2>1, <2>2 DEF Quiet
<1>10. QED
  BY <1>3, <1>4, <1>5, <1>6, <1>7, <1>8, <1>9 DEF Next

(* Time on a rank is given only by a reservation once it is over.          *)
LEMMA LeftMoves ==
  ASSUME LeaseInv, [Next]_vars, NEW r \in Ranks, NEW a \in Attempts,
         ~(rank[r].left[a] > 0), rank'[r].left[a] > 0
  PROVE  MayReserve(r, a)
<1>1. rank \in [Ranks -> Stores] /\ rank' # rank
  BY DEF LeaseInv, Typed
<1>2. \A s \in Ranks : rank[s].left \in [Attempts -> 0..Ttl] /\ Ttl \in Nat
  BY <1>1, Bounds DEF Stores
<1>3. ASSUME NEW c \in Commands, rank' = After(c),
             c.kind = "reserve" => Grantable(rank[c.rank], c.arg) /\ MayReserve(c.rank, c.arg)
      PROVE  MayReserve(r, a)
  <2> SUFFICES ASSUME c # Call("reserve", r, a) PROVE FALSE
    <3>1. Call("reserve", r, a).kind = "reserve" /\ Call("reserve", r, a).rank = r /\ Call("reserve", r, a).arg = a
      BY DEF Call
    <3>2. QED
      BY <1>3, <3>1
  <2> DEFINE R == rank[c.rank]
             Q == CASE c.kind = "release"    -> Released(R, c.arg)
                    [] c.kind = "renew"      -> Renewed(R, c.arg)
                    [] c.kind = "invalidate" -> Invalidated(R, c.arg)
                    [] c.kind = "reserve"    -> Granted(R, c.arg)
  <2>1. /\ c.rank \in Ranks /\ R \in Stores
        /\ c.kind \in {"release", "renew", "reserve"} => c.arg \in Attempts /\ c = Call(c.kind, c.rank, c.arg)
        /\ c.kind \in {"release", "renew", "reserve", "invalidate"}
    BY <1>1 DEF Commands, Call
  <2>2. rank' = [rank EXCEPT ![c.rank] = Q]
    BY <1>3 DEF After
  <2> HIDE DEF Q
  <2>3. r = c.rank /\ rank'[r] = Q /\ R = rank[r]
    BY <1>1, <2>1, <2>2
  <2>4. CASE c.kind = "release"
    <3>1. Q.left = [R.left EXCEPT ![c.arg] = 0]
      BY <2>1, <2>4 DEF Q, Released, Stores
    <3>2. QED
      BY <1>2, <2>1, <2>3, <2>4, <3>1
  <2>5. CASE c.kind = "renew"
    <3>1. Q = IF Alive(R, c.arg) THEN [R EXCEPT !.left = [R.left EXCEPT ![c.arg] = Ttl]] ELSE R
      BY <2>1, <2>5 DEF Q, Renewed, Stores
    <3>2. Alive(R, c.arg) => R.left[c.arg] > 0
      BY DEF Alive
    <3>3. QED
      BY <1>2, <2>1, <2>3, <2>5, <3>1, <3>2 DEF Stores
  <2>6. CASE c.kind = "invalidate"
    <3>1. Q = Invalidated(R, c.arg)
      BY <2>6 DEF Q
    <3>2. QED
      BY <2>1, <2>3, <3>1, InvalidatedFacts
  <2>7. CASE c.kind = "reserve"
    <3>1. Q = Granted(R, c.arg) /\ Grantable(R, c.arg) /\ a # c.arg
      BY <1>3, <2>1, <2>3, <2>7 DEF Q
    <3>2. QED
      BY <2>1, <2>3, <2>7, <3>1, GrantedFacts
  <2>8. QED
    BY <2>1, <2>4, <2>5, <2>6, <2>7
<1>4. ASSUME NEW s \in Ranks, NEW b \in Attempts, Commit(s, b) PROVE FALSE
  <2>1. rank \in [Ranks -> Stores] /\ Commit(s, b)
    BY <1>1, <1>4
  <2>2. /\ rank[s].left[b] > 0
        /\ rank' = [rank EXCEPT ![s] = [rank[s] EXCEPT !.obj = [rank[s].obj EXCEPT ![b] = "C"],
                                                       !.left = [rank[s].left EXCEPT ![b] = Ttl]]]
    BY ONLY <2>1, s \in Ranks DEF Commit, Stores
  <2>3. QED
    BY <1>1, <2>2 DEF Stores
<1>5. ASSUME NEW s \in Ranks, NEW q \in Objects, Evict(s, q) PROVE FALSE
  <2>1. rank' = [rank EXCEPT ![s] = [rank[s] EXCEPT !.obj = [rank[s].obj EXCEPT ![q] = "T"]]]
    BY <1>1, <1>5 DEF Evict, Stores
  <2>2. QED
    BY <1>1, <2>1 DEF Stores
<1>6. ASSUME Tick PROVE FALSE
  <2>1. rank'[r].left[a] = Less(rank[r].left[a])
    BY <1>1, <1>6, TickedFacts DEF Tick
  <2>2. QED
    BY <1>2, <2>1 DEF Less
<1>7. QED
  BY <1>1, <1>3, <1>4, <1>5, <1>6, Moves

(* What the manager is shown, in terms of the books.                       *)
LEMMA Shown ==
  ASSUME BooksTyped
  PROVE  /\ LeaseOf \in [Attempts -> {"none", "ticket", "retiring", "dropped"}]
         /\ \A a \in Attempts : /\ stage[a] \in Issued => LeaseOf[a] = stage[a]
                                /\ stage[a] \notin Issued => LeaseOf[a] = "none"
                                /\ a \in Tickets <=> LeaseOf[a] \in {"ticket", "retiring"}
                                /\ InUse[a] = IF a \in Tickets THEN ask[a].key ELSE None
         /\ Service!Open = {a \in Attempts : stage[a] \notin Issued}
BY DEF BooksTyped, LeaseOf, InUse, Tickets, Issued, Service!Open

(* Nothing that was granted comes back on the disks, and what is condemned *)
(* is not served again.                                                    *)
LEMMA Fades ==
  ASSUME LeaseInv, VetoInv, [Next]_vars
  PROVE  /\ \A a \in Attempts : stage[a] \in Issued =>
              /\ a \in InForce' => a \in InForce
              /\ a \in Holding' => a \in Holding
         /\ condemned' = condemned => StillServed' \subseteq StillServed
<1>1. rank \in [Ranks -> Stores] /\ \A r \in Ranks, a \in Attempts : rank[r].left[a] \in Nat
  BY Bounds DEF LeaseInv, Typed, Stores
<1>2. ASSUME NEW a \in Attempts, stage[a] \in Issued, NEW r \in Ranks
      PROVE  /\ ~MayReserve(r, a)
             /\ rank'[r].left[a] > 0 => rank[r].left[a] > 0
             /\ rank'[r].hold[a] # None => rank[r].hold[a] # None
             /\ rank'[r].obj[a] = "W" => rank[r].obj[a] = "W"
             /\ ask'[a] = ask[a]
  <2>1. ~MayReserve(r, a)
    BY <1>2, MayReserveFacts DEF Issued
  <2>2. rank'[r].left[a] > 0 => rank[r].left[a] > 0
    BY <2>1, LeftMoves
  <2>3. rank'[r].hold[a] # None => rank[r].hold[a] # None
    BY <2>1, HoldMoves
  <2>4. rank'[r].obj[a] = "W" => rank[r].obj[a] = "W"
    <3>1. a \in Objects
      BY DEF Objects
    <3>2. QED
      BY <2>1, <3>1, ObjectMoves
  <2>5. ask'[a] = ask[a]
    BY <1>2, AskStays DEF Issued
  <2>6. QED
    BY <2>1, <2>2, <2>3, <2>4, <2>5
<1>3. ASSUME NEW a \in Attempts, stage[a] \in Issued, a \in InForce' PROVE a \in InForce
  BY <1>2, <1>3 DEF InForce, Standing
<1>4. ASSUME NEW a \in Attempts, stage[a] \in Issued, a \in Holding' PROVE a \in Holding
  BY <1>2, <1>4 DEF Holding, Holds
<1>5. ASSUME condemned' = condemned, NEW k \in StillServed' PROVE k \in StillServed
  <2>1. PICK c \in condemned : rank'[c[1]].obj[c[2]] = "C" /\ k = KeyOf(c[2])'
    BY <1>5 DEF StillServed
  <2>2. condemned \subseteq Ranks \X Objects
    BY DEF LeaseInv, Typed, VetoesTyped
  <2>3. PICK r \in Ranks, o \in Objects : c = <<r, o>>
    BY <2>2
  <2>4. rank'[r].obj[o] = "C" /\ k = KeyOf(o)'
    BY <2>1, <2>3
  <2>5. rank[r].obj[o] \in {"C", "T"}
    BY <2>3 DEF VetoInv, Condemned
  <2>6. rank[r].obj[o] = "C"
    BY <2>4, <2>5, ObjectMoves
  <2>7. KeyOf(o)' = KeyOf(o)
    BY <2>6, KeyStays
  <2>8. QED
    BY <2>3, <2>4, <2>6, <2>7 DEF StillServed
<1>6. QED
  BY <1>3, <1>4, <1>5

(* Who is told a deadline holds a lease that stands.                       *)
LEMMA ToldStands == LeaseInv => ToldOf \subseteq InForce
<1> SUFFICES ASSUME LeaseInv, NEW a \in ToldOf PROVE a \in InForce
  OBVIOUS
<1>1. a \in Attempts /\ stage[a] = "ticket" /\ valid[a] > 0 /\ valid[a] \in Nat
  BY Bounds DEF ToldOf, Vouched, Current, LeaseInv, Typed, BooksTyped
<1>2. \A r \in Ranks : rank[r].left[a] \in Nat /\ Backed(r, a, valid[a])
  BY <1>1, Bounds DEF LeaseInv, Typed, Stores, Windows
<1>3. QED
  BY <1>1, <1>2 DEF Backed, InForce, Standing

LEMMA ToldStandsNext == LeaseInv' => (ToldOf \subseteq InForce)'
BY ToldStands, PTL

(* Steps of the disks, of the clock, and of attempts that are no tickets.  *)
LEMMA FadeImplemented ==
  ASSUME LeaseInv, VetoInv, [Next]_vars,
         UNCHANGED <<LeaseOf, InUse, invalid, condemned, closed>>, ToldOf' \subseteq ToldOf
  PROVE  Service!Next
<1>1. LeaseInv' /\ BooksTyped
  BY Step DEF LeaseInv, Typed
<1>2. ToldOf' \subseteq InForce'
  BY <1>1, ToldStandsNext
<1>3. InForce' \ InForce \subseteq Service!Open /\ Holding' \ Holding \subseteq Service!Open
  <2>1. InForce' \subseteq Attempts /\ Holding' \subseteq Attempts
    BY DEF InForce, Holding
  <2>2. QED
    BY <1>1, <2>1, Shown, Fades
<1>4. StillServed' \subseteq StillServed
  BY Fades
<1>5. Service!Fade
  BY <1>2, <1>3, <1>4 DEF Service!Fade
<1>6. QED
  BY <1>5 DEF Service!Next

LEMMA CloseImplemented ==
  ASSUME Closing
  PROVE  Service!Next
<1>1. UNCHANGED <<LeaseOf, InUse, InForce, Holding, StillServed, invalid>>
  BY DEF Closing, books, vetoes, LeaseOf, InUse, Tickets, InForce, Standing, Holding, Holds,
         StillServed, KeyOf
<1>2. ToldOf' = {}
  BY DEF Closing, ToldOf, Vouched, Current
<1>3. Service!Close
  BY <1>1, <1>2 DEF Service!Close, Service!disks, Closing
<1>4. QED
  BY <1>3 DEF Service!Next

LEMMA AdmitImplemented ==
  ASSUME LeaseInv, VetoInv, [Next]_vars, NEW t \in Threads, NEW a \in Attempts, Admit(t, a)
  PROVE  Service!Next
<1>1. /\ BooksTyped /\ stage[a] = "new"
      /\ ask' = [ask EXCEPT ![a] = job[t].id] /\ stage' = [stage EXCEPT ![a] = "asked"]
      /\ UNCHANGED <<valid, invalid, condemned, closed>>
  BY DEF LeaseInv, Typed, Admit, vetoes
<1>2. \A b \in Attempts : b # a => ask'[b] = ask[b] /\ stage'[b] = stage[b]
  BY <1>1 DEF BooksTyped
<1>3. stage'[a] = "asked"
  BY <1>1 DEF BooksTyped
<1>4. LeaseOf' = LeaseOf /\ Tickets' = Tickets
  BY <1>1, <1>2, <1>3 DEF LeaseOf, Tickets
<1>5. InUse' = InUse
  BY <1>1, <1>2, <1>4 DEF InUse, Tickets
<1>6. ToldOf' \subseteq ToldOf
  BY <1>1, <1>2, <1>3 DEF ToldOf, Vouched, Current
<1>7. QED
  BY <1>1, <1>4, <1>5, <1>6, FadeImplemented

(* A step that leaves the disks and the identities alone.                  *)
LEMMA DisksStay ==
  ASSUME UNCHANGED <<rank, ask, condemned>>
  PROVE  UNCHANGED Service!disks
BY DEF Service!disks, InForce, Standing, Holding, Holds, StillServed, KeyOf

LEMMA AcceptImplemented ==
  ASSUME LeaseInv, [Next]_vars, NEW t \in Threads, Accept(t)
  PROVE  Service!Next
<1>1. /\ BooksTyped /\ JobOK(t) /\ WindowBy(t)
      /\ job[t].pc = "fanout" /\ job[t].todo = {} /\ Acceptable(t)
  BY DEF LeaseInv, Typed, Jobs, Windows, Accept, At
<1>2. PICK a \in Attempts : a = job[t].att /\ stage[a] = "asked" /\ ask[a].key = job[t].key
                            /\ job[t].key \in Keys
  BY <1>1 DEF JobOK
<1>3. PICK k \in Keys : k = ask[a].key
  BY <1>2
<1>4. job[t].ok /\ ~closed /\ k \notin invalid /\ job[t].win > 0
  BY <1>1, <1>2, <1>3 DEF Acceptable, WindowOf
<1>5. /\ stage' = [stage EXCEPT ![a] = "ticket"] /\ valid' = [valid EXCEPT ![a] = job[t].win]
      /\ UNCHANGED <<ask, invalid, condemned, closed, rank>>
  BY <1>2 DEF Accept, WindowOf, vetoes, remote
<1>6. /\ stage'[a] = "ticket" /\ valid'[a] = job[t].win
      /\ \A b \in Attempts : b # a => stage'[b] = stage[b] /\ valid'[b] = valid[b]
  BY <1>1, <1>5 DEF BooksTyped
<1>7. a \in InForce
  <2>1. job[t].win \in Nat /\ \A r \in Ranks : rank[r].left[a] \in Nat /\ Backed(r, a, job[t].win)
    BY <1>1, <1>2, <1>4, Bounds DEF LeaseInv, Typed, Stores, Job, WindowBy
  <2>2. QED
    BY <1>4, <2>1 DEF Backed, InForce, Standing
<1>8. LeaseOf[a] = "none" /\ LeaseOf' = [LeaseOf EXCEPT ![a] = "ticket"]
  BY <1>2, <1>6 DEF LeaseOf
<1>9. InUse' = [InUse EXCEPT ![a] = k]
  BY <1>3, <1>5, <1>6 DEF InUse, Tickets
<1>10. ToldOf' = ToldOf \cup {a}
  BY <1>3, <1>4, <1>5, <1>6 DEF ToldOf, Vouched, Current
<1>11. UNCHANGED Service!disks
  BY <1>5, DisksStay
<1>12. Service!Grant(a, k)
  BY <1>4, <1>5, <1>7, <1>8, <1>9, <1>10, <1>11 DEF Service!Grant
<1>13. QED
  BY <1>12 DEF Service!Next

LEMMA RenewImplemented ==
  ASSUME LeaseInv, [Next]_vars, NEW t \in Threads, RenewAnswered(t)
  PROVE  Service!Next \/ UNCHANGED Service!vars
<1>1. /\ BooksTyped /\ JobOK(t) /\ WindowBy(t)
      /\ job[t].pc = "renew" /\ job[t].todo = {}
  BY DEF LeaseInv, Typed, Jobs, Windows, RenewAnswered, At
<1>2. PICK a \in Attempts : a = job[t].att
  BY <1>1 DEF JobOK
<1> DEFINE renewed == job[t].ok /\ Current(a) /\ job[t].win > 0
<1>3. /\ valid' = [valid EXCEPT ![a] = IF renewed THEN job[t].win ELSE valid[a]]
      /\ UNCHANGED <<stage, ask, invalid, condemned, closed, rank>>
  BY <1>2 DEF RenewAnswered, WindowOf, vetoes, remote
<1>4. UNCHANGED <<LeaseOf, InUse, Service!disks, invalid, closed>>
  BY <1>3, DisksStay DEF LeaseOf, InUse, Tickets
<1>5. CASE renewed
  <2>1. stage[a] = "ticket" /\ ~closed /\ ask[a].key \notin invalid
    BY <1>5 DEF Current
  <2>2. LeaseOf[a] = "ticket" /\ InUse[a] = ask[a].key
    BY <2>1 DEF LeaseOf, InUse, Tickets
  <2>3. a \in InForce
    <3>1. job[t].win \in Nat /\ \A r \in Ranks : rank[r].left[a] \in Nat /\ Backed(r, a, job[t].win)
      BY <1>1, <1>2, <1>5, <2>1, Bounds DEF LeaseInv, Typed, Stores, Job, WindowBy
    <3>2. QED
      BY <1>5, <3>1 DEF Backed, InForce, Standing
  <2>4. ToldOf' = ToldOf \cup {a}
    <3>1. valid'[a] = job[t].win /\ \A b \in Attempts : b # a => valid'[b] = valid[b]
      BY <1>1, <1>3, <1>5 DEF BooksTyped
    <3>2. QED
      BY <1>3, <1>5, <2>1, <3>1 DEF ToldOf, Vouched, Current
  <2>5. Service!Vouch(a)
    BY <1>4, <2>1, <2>2, <2>3, <2>4 DEF Service!Vouch
  <2>6. QED
    BY <2>5 DEF Service!Next
<1>6. CASE ~renewed
  <2>1. valid' = valid
    BY <1>1, <1>3, <1>6 DEF BooksTyped
  <2>2. ToldOf' = ToldOf
    BY <1>3, <2>1 DEF ToldOf, Vouched, Current
  <2>3. QED
    BY <1>4, <2>2 DEF Service!vars
<1>7. QED
  BY <1>5, <1>6

LEMMA RetireImplemented ==
  ASSUME LeaseInv, [Next]_vars, NEW t \in Threads, Retire(t)
  PROVE  Service!Next \/ UNCHANGED Service!vars
<1>1. /\ BooksTyped /\ JobOK(t) /\ job[t].pc = "retire"
      /\ UNCHANGED <<ask, invalid, condemned, closed, rank>>
  BY DEF LeaseInv, Typed, Jobs, Retire, At, vetoes, remote
<1>2. PICK a \in Attempts : a = job[t].att
  BY <1>1 DEF JobOK
<1>3. UNCHANGED <<Service!disks, invalid, closed>>
  BY <1>1, DisksStay
<1>4. CASE a \in Tickets
  <2>1. stage' = [stage EXCEPT ![a] = "retiring"] /\ valid' = [valid EXCEPT ![a] = 0]
    BY <1>2, <1>4 DEF Retire
  <2>2. /\ stage'[a] = "retiring"
        /\ \A b \in Attempts : b # a => stage'[b] = stage[b] /\ valid'[b] = valid[b]
    BY <1>1, <2>1 DEF BooksTyped
  <2>3. Tickets' = Tickets
    BY <1>4, <2>2 DEF Tickets
  <2>4. InUse' = InUse
    BY <1>1, <2>3 DEF InUse
  <2>5. ToldOf' = ToldOf \ {a}
    BY <1>1, <2>2 DEF ToldOf, Vouched, Current
  <2>6. CASE stage[a] = "ticket"
    <3>1. LeaseOf[a] = "ticket" /\ LeaseOf' = [LeaseOf EXCEPT ![a] = "retiring"]
      BY <2>2, <2>6 DEF LeaseOf
    <3>2. Service!Retire(a)
      BY <1>3, <2>4, <2>5, <3>1 DEF Service!Retire
    <3>3. QED
      BY <3>2 DEF Service!Next
  <2>7. CASE stage[a] = "retiring"
    <3>1. LeaseOf' = LeaseOf
      BY <2>2, <2>7 DEF LeaseOf
    <3>2. ToldOf' = ToldOf
      BY <2>5, <2>7 DEF ToldOf, Vouched, Current
    <3>3. QED
      BY <1>3, <2>4, <3>1, <3>2 DEF Service!vars
  <2>8. QED
    BY <1>4, <2>6, <2>7 DEF Tickets
<1>5. CASE a \notin Tickets
  <2>1. UNCHANGED <<stage, valid>>
    BY <1>2, <1>5 DEF Retire
  <2>2. UNCHANGED <<LeaseOf, InUse, ToldOf>>
    BY <1>1, <2>1 DEF LeaseOf, InUse, Tickets, ToldOf, Vouched, Current
  <2>3. QED
    BY <1>3, <2>2 DEF Service!vars
<1>6. QED
  BY <1>4, <1>5

(* What a veto that is lifted leaves: no disk serves a condemned object of *)
(* its key, and nobody has a ticket of it.                                 *)
LEMMA LiftedFacts ==
  ASSUME LeaseInv, BooksInv, VetoInv, [Next]_vars, NEW k \in invalid, k \notin invalid'
  PROVE  /\ k \in Keys /\ k \notin StillServed
         /\ \A a \in Attempts : a \in Tickets' => ask'[a].key # k
         /\ \A a \in Attempts : InUse'[a] # k
<1>1. Unused(k)' /\ \A r \in Ranks : Clean(r, k)
  BY Lifted DEF BooksInv, VetoInv
<1>2. /\ k \in Keys /\ condemned \subseteq Ranks \X Objects
      /\ None \notin Keys
  BY NoneAssumption DEF LeaseInv, Typed, VetoesTyped
<1>3. k \notin StillServed
  BY <1>1, <1>2 DEF StillServed, Clean, Of
<1>4. ASSUME NEW a \in Attempts, a \in Tickets' PROVE ask'[a].key # k
  <2>1. a \in Charged'
    BY <1>4 DEF Tickets, Charged
  <2>2. QED
    BY <1>1, <2>1 DEF Unused
<1>5. ASSUME NEW a \in Attempts PROVE InUse'[a] # k
  BY <1>2, <1>4 DEF InUse
<1>6. QED
  BY <1>2, <1>3, <1>4, <1>5

LEMMA LiftImplemented ==
  ASSUME LeaseInv, BooksInv, VetoInv, [Next]_vars,
         UNCHANGED <<LeaseOf, Tickets, ask, valid, condemned, closed, rank>>,
         \A a \in Attempts : stage'[a] = "ticket" <=> stage[a] = "ticket",
         NEW k, invalid' \subseteq invalid, invalid \ invalid' \subseteq {k}
  PROVE  Service!Next \/ UNCHANGED Service!vars
<1>1. UNCHANGED <<LeaseOf, InUse, Service!disks, closed>>
  BY DisksStay DEF InUse
<1>2. CASE invalid' = invalid
  <2>1. ToldOf' = ToldOf
    BY <1>2 DEF ToldOf, Vouched, Current
  <2>2. QED
    BY <1>1, <1>2, <2>1 DEF Service!vars
<1>3. CASE invalid' # invalid
  <2>1. k \in invalid /\ k \notin invalid' /\ invalid' = invalid \ {k}
    BY <1>3
  <2>2. /\ k \in Keys /\ k \notin StillServed
        /\ \A a \in Attempts : a \in Tickets' => ask'[a].key # k
        /\ \A a \in Attempts : InUse'[a] # k
    BY <2>1, LiftedFacts
  <2>3. \A a \in Attempts : stage[a] = "ticket" => ask[a].key # k
    BY <2>2 DEF Tickets
  <2>4. ToldOf' = ToldOf
    BY <2>1, <2>3 DEF ToldOf, Vouched, Current
  <2>5. Service!Lift(k)
    BY <1>1, <2>1, <2>2, <2>4 DEF Service!Lift, Service!Lifts
  <2>6. QED
    BY <2>2, <2>5 DEF Service!Next
<1>4. QED
  BY <1>2, <1>3

LEMMA RollbackImplemented ==
  ASSUME LeaseInv, BooksInv, VetoInv, [Next]_vars, NEW t \in Threads, RollbackEnd(t)
  PROVE  Service!Next \/ UNCHANGED Service!vars
<1>1. /\ BooksTyped /\ JobOK(t) /\ job[t].pc = "rollback"
      /\ UNCHANGED <<ask, valid, condemned, closed, rank>>
  BY DEF LeaseInv, Typed, Jobs, RollbackEnd, At, remote
<1>2. PICK a \in Attempts : a = job[t].att /\ stage[a] = "asked"
  BY <1>1 DEF JobOK
<1>3. PICK k : k = job[t].key
  OBVIOUS
<1>4. /\ stage' = [stage EXCEPT ![a] = "failed"]
      /\ ClearVeto(k, invalidateAcked, Tickets, pending')
  BY <1>2, <1>3 DEF RollbackEnd
<1>5. stage'[a] = "failed" /\ \A b \in Attempts : b # a => stage'[b] = stage[b]
  BY <1>1, <1>4 DEF BooksTyped
<1>6. /\ LeaseOf' = LeaseOf /\ Tickets' = Tickets
      /\ \A b \in Attempts : stage'[b] = "ticket" <=> stage[b] = "ticket"
  BY <1>2, <1>5 DEF LeaseOf, Tickets
<1>7. invalid' \subseteq invalid /\ invalid \ invalid' \subseteq {k}
  BY <1>4, ClearVetoFacts
<1>8. QED
  BY <1>1, <1>6, <1>7, LiftImplemented

LEMMA InvalidateImplemented ==
  ASSUME LeaseInv, BooksInv, VetoInv, [Next]_vars, NEW t \in Threads, InvalidateEnd(t)
  PROVE  Service!Next \/ UNCHANGED Service!vars
<1>1. UNCHANGED <<stage, ask, valid, condemned, closed, rank>>
  BY DEF InvalidateEnd, bookkeeping, remote
<1>2. LeaseOf' = LeaseOf /\ Tickets' = Tickets
  BY <1>1 DEF LeaseOf, Tickets
<1>3. PICK k : k = job[t].key
  OBVIOUS
<1>4. invalid' \subseteq invalid /\ invalid \ invalid' \subseteq {k}
  <2>1. CASE Acknowledged(t)
    <3>1. ClearVeto(k, invalidateAcked \cup {k}, Tickets, pending)
      BY <1>3, <2>1 DEF InvalidateEnd
    <3>2. QED
      BY <3>1, ClearVetoFacts
  <2>2. CASE ~Acknowledged(t)
    BY <2>2 DEF InvalidateEnd
  <2>3. QED
    BY <2>1, <2>2
<1>5. QED
  BY <1>1, <1>2, <1>4, LiftImplemented

(* A ticket leaves the books when every rank has let go of it.             *)
LEMMA ReleaseImplemented ==
  ASSUME LeaseInv, BooksInv, VetoInv, [Next]_vars, NEW t \in Threads, ReleaseEnd(t)
  PROVE  Service!Next \/ UNCHANGED Service!vars
<1>1. /\ BooksTyped /\ JobOK(t) /\ LetGoBy(t) /\ job[t].pc = "release" /\ job[t].todo = {}
      /\ UNCHANGED <<ask, valid, condemned, closed, rank>>
  BY DEF LeaseInv, Typed, Jobs, LetGo, ReleaseEnd, At, DrainOver, Draining, remote
<1>2. PICK a \in Attempts : a = job[t].att /\ stage[a] \in {"retiring", "dropped"}
  BY <1>1 DEF JobOK
<1>3. UNCHANGED <<Service!disks, closed>>
  BY <1>1, DisksStay
<1>4. CASE ~Dropping(t)
  <2>1. UNCHANGED <<stage, invalid>>
    BY <1>4 DEF ReleaseEnd
  <2>2. UNCHANGED <<LeaseOf, InUse, ToldOf>>
    BY <1>1, <2>1 DEF LeaseOf, InUse, Tickets, ToldOf, Vouched, Current
  <2>3. QED
    BY <1>3, <2>1, <2>2 DEF Service!vars
<1>5. CASE Dropping(t)
  <2> PICK k : k = ask[a].key
    OBVIOUS
  <2>1. /\ stage[a] = "retiring" /\ job[t].ok
        /\ stage' = [stage EXCEPT ![a] = "dropped"]
        /\ ClearVeto(k, invalidateAcked, Tickets \ {a}, pending)
    BY <1>2, <1>5 DEF ReleaseEnd, Dropping, Acknowledged, Tickets
  <2>2. stage'[a] = "dropped" /\ \A b \in Attempts : b # a => stage'[b] = stage[b]
    BY <1>1, <2>1 DEF BooksTyped
  <2>3. LeaseOf[a] = "retiring" /\ LeaseOf' = [LeaseOf EXCEPT ![a] = "dropped"]
    BY <2>1, <2>2 DEF LeaseOf
  <2>4. InUse[a] = k /\ InUse' = [InUse EXCEPT ![a] = None]
    BY <1>1, <2>1, <2>2 DEF InUse, Tickets
  <2>5. a \notin Holding
    BY <1>1, <1>2, <2>1 DEF LetGoBy, Holding
  <2>6. invalid' \subseteq invalid /\ invalid \ invalid' \subseteq {k}
    BY <2>1, ClearVetoFacts
  <2>7. invalid' = invalid \/ (/\ k \in invalid /\ k \notin invalid' /\ invalid' = invalid \ {k}
                               /\ k \notin StillServed /\ \A b \in Attempts : InUse'[b] # k
                               /\ \A b \in Attempts : b \in Tickets' => ask'[b].key # k)
    <3>1. ASSUME invalid' # invalid PROVE k \in invalid /\ k \notin invalid' /\ invalid' = invalid \ {k}
      BY <2>6, <3>1
    <3>2. QED
      BY <3>1, LiftedFacts
  <2>8. ToldOf' = ToldOf
    <3>1. \A b \in Attempts : stage'[b] = "ticket" <=> stage[b] = "ticket"
      BY <2>1, <2>2
    <3>2. \A b \in Attempts : stage[b] = "ticket" => b \in Tickets'
      BY <3>1 DEF Tickets
    <3>3. \A b \in Attempts : stage[b] = "ticket" => (ask[b].key \in invalid' <=> ask[b].key \in invalid)
      BY <1>1, <2>7, <3>2
    <3>4. QED
      BY <1>1, <3>1, <3>3 DEF ToldOf, Vouched, Current
  <2>9. Service!Drop(a)
    BY <1>3, <2>3, <2>4, <2>5, <2>7, <2>8 DEF Service!Drop, Service!Lifts
  <2>10. QED
    BY <2>9 DEF Service!Next
<1>6. QED
  BY <1>4, <1>5

LEMMA VetoImplemented ==
  ASSUME LeaseInv, [Next]_vars, NEW t \in Threads, Veto(t)
  PROVE  Service!Next
<1>1. /\ BooksTyped /\ JobOK(t) /\ job[t].pc = "veto"
      /\ UNCHANGED <<bookkeeping, rank>>
  BY DEF LeaseInv, Typed, Jobs, Veto, At, remote
<1>2. PICK k \in Keys : k = job[t].key
  BY <1>1 DEF JobOK
<1>3. UNCHANGED <<stage, ask, valid>>
  BY <1>1 DEF bookkeeping
<1>4. UNCHANGED <<LeaseOf, InUse, InForce, Holding>>
  BY <1>1, <1>3 DEF LeaseOf, InUse, Tickets, InForce, Standing, Holding, Holds
<1>5. CASE k \notin invalid /\ Cardinality(invalid) >= MaxKeys
  <2>1. closed' = TRUE /\ UNCHANGED <<invalid, condemned>>
    BY <1>2, <1>5 DEF Veto
  <2>2. StillServed' = StillServed /\ ToldOf' = {}
    BY <1>1, <1>3, <2>1 DEF StillServed, KeyOf, ToldOf, Vouched, Current
  <2>3. Service!Close
    BY <1>4, <2>1, <2>2 DEF Service!Close, Service!disks
  <2>4. QED
    BY <2>3 DEF Service!Next
<1>6. CASE ~(k \notin invalid /\ Cardinality(invalid) >= MaxKeys)
  <2> DEFINE new == UNION {{r} \X Of(rank[r], k, {"C"}) : r \in Ranks}
  <2>1. invalid' = invalid \cup {k} /\ condemned' = condemned \cup new /\ closed' = closed
    BY <1>2, <1>6 DEF Veto
  <2>2. \A x : KeyOf(x)' = KeyOf(x)
    BY <1>3 DEF KeyOf
  <2>3. \A c \in new : rank[c[1]].obj[c[2]] = "C" /\ KeyOf(c[2]) = k
    BY DEF Of
  <2> HIDE DEF new
  <2>4. StillServed' \in {StillServed, StillServed \cup {k}}
    <3>1. StillServed \subseteq StillServed' /\ StillServed' \subseteq StillServed \cup {k}
      BY <1>1, <2>1, <2>2, <2>3 DEF StillServed
    <3>2. QED
      BY <3>1
  <2>5. ToldOf' = ToldOf \ Service!Users(k)
    <3>1. Service!Users(k) = {a \in Attempts : InUse[a] = k}
      BY DEF Service!Users
    <3>2. \A a \in Attempts : stage[a] = "ticket" => InUse[a] = ask[a].key
      BY DEF InUse, Tickets
    <3>3. QED
      BY <1>3, <2>1, <3>1, <3>2 DEF ToldOf, Vouched, Current
  <2>6. Service!Veto(k)
    BY <1>4, <2>1, <2>4, <2>5 DEF Service!Veto
  <2>7. QED
    BY <2>6 DEF Service!Next
<1>7. QED
  BY <1>5, <1>6

LEMMA ServiceStep == LeaseInv /\ BooksInv /\ VetoInv /\ [Next]_vars => [Service!Next]_(Service!vars)
<1> SUFFICES ASSUME LeaseInv, BooksInv, VetoInv, [Next]_vars
             PROVE  Service!Next \/ UNCHANGED Service!vars
  OBVIOUS
<1>1. ASSUME NEW t \in Threads, Entry(t) PROVE Service!Next \/ UNCHANGED Service!vars
  BY <1>1, AdmitImplemented, AcceptImplemented, RollbackImplemented, RetireImplemented,
     ReleaseImplemented DEF Entry
<1>2. ASSUME NEW t \in Threads, RenewAnswered(t) \/ Veto(t) \/ InvalidateEnd(t)
      PROVE  Service!Next \/ UNCHANGED Service!vars
  BY <1>2, RenewImplemented, VetoImplemented, InvalidateImplemented
<1>3. CASE Quiet
  <2>1. UNCHANGED <<ask, stage, invalid, condemned, closed>>
    BY <1>3 DEF Quiet, books, vetoes
  <2>2. UNCHANGED <<LeaseOf, InUse>>
    BY <2>1 DEF LeaseOf, InUse, Tickets
  <2>3. ToldOf' \subseteq ToldOf
    <3>1. ASSUME NEW a \in Attempts, valid'[a] > 0 PROVE valid[a] > 0
      <4>1. valid'[a] <= valid[a]
        BY <1>3 DEF Quiet
      <4>2. valid[a] \in Nat /\ valid'[a] \in Nat
        BY Step, Bounds DEF LeaseInv, Typed, BooksTyped
      <4>3. QED
        BY <3>1, <4>1, <4>2
    <3>2. QED
      BY <2>1, <3>1 DEF ToldOf, Vouched, Current
  <2>4. QED
    BY <2>1, <2>2, <2>3, FadeImplemented
<1>4. CASE Closing
  BY <1>4, CloseImplemented
<1>5. QED
  BY <1>1, <1>2, <1>3, <1>4, Roles

(* Whatever the threads and the ranks do, calls lost or executed late, the *)
(* coordinator shows its callers only what TicketService allows.           *)
THEOREM OneTicketService == Spec => ServiceSpec
<1>1. Init => Service!Init
  <2> SUFFICES ASSUME Init PROVE Service!Init
    OBVIOUS
  <2>1. /\ stage = [a \in Attempts |-> "new"] /\ valid = [a \in Attempts |-> 0]
        /\ invalid = {} /\ condemned = {} /\ closed = FALSE
    BY DEF Init
  <2>2. LeaseOf = [a \in Attempts |-> "none"] /\ InUse = [a \in Attempts |-> None] /\ ToldOf = {}
    BY <2>1 DEF LeaseOf, InUse, Tickets, ToldOf, Vouched, Current
  <2>3. StillServed = {}
    BY <2>1 DEF StillServed
  <2>4. InForce \in SUBSET Attempts /\ Holding = {}
    <3>1. \A r \in Ranks, a \in Attempts : rank[r].hold[a] = None /\ rank[r].obj[a] = "none"
      BY ObjectAssumption DEF Init, Objects
    <3>2. QED
      BY <3>1 DEF InForce, Holding, Holds
  <2>5. QED
    BY <2>1, <2>2, <2>3, <2>4 DEF Service!Init
<1>2. QED
  BY <1>1, ServiceStep, CoordinatorSafe, BooksSafe, VetoSafe, PTL DEF Spec, ServiceSpec, Service!Spec
(* Each of its steps keeps what TicketService promises. *)
LEMMA PromiseKept ==
  Service!Promise /\ Service!Next => Service!Promise'
<1> SUFFICES ASSUME Service!Promise, Service!Next PROVE Service!Promise'
  OBVIOUS
<1> USE DEF Service!Promise
<1>1. /\ LeaseOf = [a \in Attempts |-> LeaseOf[a]] /\ LeaseOf' = [a \in Attempts |-> LeaseOf'[a]]
      /\ InUse = [a \in Attempts |-> InUse[a]] /\ InUse' = [a \in Attempts |-> InUse'[a]]
      /\ ToldOf \subseteq Attempts /\ Holding \subseteq Attempts
  BY DEF LeaseOf, InUse, ToldOf, Holding
<1>2. CASE Service!Fade
  BY <1>1, <1>2 DEF Service!Fade, Service!Open
<1>3. ASSUME NEW a \in Attempts, Service!Vouch(a) \/ Service!Retire(a) PROVE Service!Promise'
  BY <1>1, <1>3 DEF Service!Vouch, Service!Retire, Service!disks
<1>4. ASSUME NEW a \in Attempts, Service!Drop(a) PROVE Service!Promise'
  BY <1>1, <1>4 DEF Service!Drop, Service!Lifts, Service!disks
<1>5. ASSUME NEW a \in Attempts, NEW k \in Keys, Service!Grant(a, k) PROVE Service!Promise'
  BY <1>1, <1>5 DEF Service!Grant, Service!disks
<1>6. ASSUME NEW k \in Keys, Service!Veto(k) PROVE Service!Promise'
  BY <1>1, <1>6 DEF Service!Veto, Service!Users
<1>7. ASSUME NEW k \in Keys, Service!Lift(k) PROVE Service!Promise'
  <2>1. \A a \in ToldOf : InUse[a] \notin invalid'
    BY <1>7 DEF Service!Lift, Service!Lifts
  <2>2. QED
    BY <1>7, <2>1 DEF Service!Lift, Service!Lifts, Service!disks
<1>8. CASE Service!Close
  BY <1>8 DEF Service!Close, Service!disks
<1>9. QED
  BY <1>2, <1>3, <1>4, <1>5, <1>6, <1>7, <1>8 DEF Service!Next

(* What TicketService promises holds of the coordinator: who is vouched    *)
(* for has a live ticket of a key that is not vetoed and its lease on      *)
(* every rank, no rank holds anything for a ticket that was dropped, and   *)
(* what is still served of a condemned key is vetoed.                      *)
THEOREM ServiceKeepsPromise == Spec => []Service!Promise
<1>1. Service!Init => Service!Promise
  BY DEF Service!Init, Service!Promise
<1>2. Service!Promise /\ [Service!Next]_(Service!vars) => Service!Promise'
  <2>1. Service!Promise /\ UNCHANGED Service!vars => Service!Promise'
    BY DEF Service!Promise, Service!vars, Service!disks
  <2>2. QED
    BY <2>1, PromiseKept
<1>3. QED
  BY <1>1, <1>2, OneTicketService, PTL DEF ServiceSpec, Service!Spec
=============================================================================
