------------------------ MODULE MetadataServerProofs ------------------------
(***************************************************************************)
(* Theorems about MetadataServer for every set of reservations, request    *)
(* ids, connections and leases, every number of handler threads and of     *)
(* receipts, and every lease time.                                         *)
(***************************************************************************)
EXTENDS MetadataServer, FiniteSetTheorems, SequenceTheorems, WellFoundedInduction, TLAPS

Places == {"free", "idle", "flag", "check", "lookup", "wait", "replay", "reserve",
           "remember", "forget", "serve", "answer"}
Conn == [at : Places, op : {None, "reserve", "release", "renew"}, call : Calls \cup {None},
         lease : Leases \cup {None}, left : 0..Patience]
Receipt == [name : Names, call : Calls, lease : Leases \cup {None}, left : 0..Ttl]
Lease   == [call : Calls \cup {None}, left : 0..Ttl, renewed : BOOLEAN]

-----------------------------------------------------------------------------
(* The inductive invariant, in three parts: what belongs to the permits    *)
(* and the shutdown; what belongs to the receipts; and the types.          *)

InUse == {c \in Conns : Served(c)}

ServerType ==
  /\ setup \in Setups /\ conn \in [Conns -> Conn] /\ taking \in Conns \cup {None}
  /\ permits \in Nat /\ held \in Nat
  /\ flag \in BOOLEAN /\ acceptor \in BOOLEAN
  /\ closing \in {"none", "stop", "drain", "store", "done"}
  /\ store \in {"open", "failed", "closed"}

ReceiptType ==
  /\ idem \in Seq(Receipt) /\ pending \in [Names -> Calls \cup {None}]
  /\ lease \in [Leases -> Lease] /\ told \in [Calls -> SUBSET Leases]

PermitsBalance == permits + held + Cardinality(InUse) = bound

(* After the acceptor has stopped nobody is served anew; when the permits  *)
(* have all been taken, nobody is served at all.                           *)
NobodyNew ==
  /\ taking # None => conn[taking] = Free
  /\ flag /\ closing # "stop" => ~acceptor /\ taking = None
  /\ closing # "none" => flag
  /\ closing \in {"store", "done"} => \A c \in Conns : ~Served(c)
  /\ store = "closed" => closing = "done"

(* What a handler carries from one step to the next.                       *)
Carried ==
  \A c \in Conns :
    LET h == conn[c] IN
    /\ h.at \notin {"free", "idle"} => h.call \in Calls
    /\ h.at \in {"flag", "check"} =>
         IF h.op = "reserve" THEN h.lease = None ELSE h.lease \in Leases
    /\ h.at = "serve" => h.lease \in Leases
    /\ h.at \in {"remember", "answer", "replay"} /\ h.lease # None => lease[h.lease].call = h.call

Owner(c) == conn[c].at \in {"reserve", "remember", "forget"}
NameOf(c) == name[conn[c].call]

OneOwner ==
  /\ \A c \in Conns : Owner(c) => pending[NameOf(c)] = conn[c].call
  /\ \A c, d \in Conns : Owner(c) /\ Owner(d) /\ NameOf(c) = NameOf(d) => c = d

OneReceipt ==
  /\ \A c \in Conns : Owner(c) => \A i \in DOMAIN idem : idem[i].name # NameOf(c)
  /\ \A i, k \in DOMAIN idem : idem[i].name = idem[k].name => i = k

Unrenewed(l) == lease[l].left > 0 /\ ~lease[l].renewed
Receipted(l) ==
  \E i \in DOMAIN idem : /\ idem[i].name = name[lease[l].call] /\ idem[i].lease = l
                         /\ idem[i].left >= lease[l].left
BeingRemembered(l) ==
  \E c \in Conns : conn[c].at = "remember" /\ conn[c].lease = l /\ conn[c].call = lease[l].call
Covered == \A l \in Leases : Unrenewed(l) => Receipted(l) \/ BeingRemembered(l)

LeasesKnown ==
  /\ \A l \in Leases : lease[l].left > 0 => lease[l].call \in Calls
  /\ \A i \in DOMAIN idem :
       /\ idem[i].name = name[idem[i].call]
       /\ idem[i].lease # None => lease[idem[i].lease].call = idem[i].call
  /\ \A x \in Calls : \A l \in told[x] : lease[l].call = x

ReceiptsFit == Cardinality(Computing) + Len(idem) <= Cap
ReceiptsSorted == \A i, k \in DOMAIN idem : i < k => idem[i].left <= idem[k].left

PermitInv  == ServerType /\ PermitsBalance /\ NobodyNew
ReceiptInv == ReceiptType /\ Carried /\ OneOwner /\ OneReceipt /\ Covered /\ LeasesKnown
              /\ ReceiptsFit /\ ReceiptsSorted
ServerInv == PermitInv /\ ReceiptInv

LEMMA SetupFacts ==
  ASSUME setup \in Setups
  PROVE  /\ bound \in Nat \ {0} /\ Cap \in Nat \ {0} /\ name \in [Calls -> Names]
         /\ setup.uses \subseteq {"release", "renew"}
BY SetupAssumption DEF bound, Cap, name

LEMMA FreeType == Free \in Conn /\ Free.at = "free" /\ Free.lease = None /\ Free.left = 0
BY BoundAssumption DEF Free, Conn, Places

LEMMA InitSafe == Init => ServerInv
<1> SUFFICES ASSUME Init PROVE ServerInv
  OBVIOUS
<1> USE FreeType, SetupFacts, NoneAssumption
<1>1. \A c \in Conns : conn[c] = Free
  BY DEF Init
<1>2. PermitInv
  <2>1. ServerType
    BY DEF Init, ServerType
  <2>2. InUse = {}
    BY <1>1 DEF InUse, Served
  <2>3. PermitsBalance
    BY <2>1, <2>2, FS_EmptySet DEF Init, PermitsBalance, ServerType
  <2>4. NobodyNew
    BY <1>1 DEF Init, NobodyNew
  <2>5. QED
    BY <2>1, <2>3, <2>4 DEF PermitInv
<1>3. ReceiptInv
  <2>1. idem = <<>> /\ Len(idem) = 0 /\ DOMAIN idem = {} /\ idem \in Seq(Receipt)
    BY DEF Init
  <2>2. ReceiptType
    BY <2>1, BoundAssumption DEF Init, ReceiptType, Lease
  <2>3. Carried /\ OneOwner /\ OneReceipt /\ Covered /\ LeasesKnown /\ ReceiptsSorted
    BY <1>1, <2>1 DEF Init, Carried, OneOwner, OneReceipt, Owner, Covered, Unrenewed,
       LeasesKnown, ReceiptsSorted
  <2>4. Computing = {}
    BY DEF Init, Computing
  <2>5. ReceiptsFit
    BY <2>1, <2>4, FS_EmptySet DEF Init, ReceiptsFit
  <2>6. QED
    BY <2>2, <2>3, <2>5 DEF ReceiptInv
<1>4. QED
  BY <1>2, <1>3 DEF ServerInv

-----------------------------------------------------------------------------
(* Permits.                                                                *)

LEMMA InUseFinite == IsFiniteSet(InUse) /\ Cardinality(InUse) \in Nat
<1>1. InUse \subseteq Conns
  BY DEF InUse
<1>2. QED
  BY <1>1, BoundAssumption, FS_Subset, FS_CardinalityType

LEMMA HandlerPermits ==
  ASSUME PermitInv, NEW c \in Conns, Served(c), conn' \in [Conns -> Conn],
         UNCHANGED <<web, taking, store>>,
         \A d \in Conns \ {c} : /\ Served(d)' <=> Served(d)
                                /\ conn[d] = Free => conn'[d] = Free,
         \/ Served(c)' /\ permits' = permits
         \/ ~Served(c)' /\ permits' = permits + 1
  PROVE  PermitInv'
<1> USE FreeType DEF PermitInv
<1>1. ServerType'
  BY DEF ServerType, web
<1>2. CASE Served(c)' /\ permits' = permits
  <2>1. InUse' = InUse
    BY <1>2 DEF InUse
  <2>2. PermitsBalance'
    BY <1>2, <2>1 DEF PermitsBalance, bound, web
  <2>3. NobodyNew'
    BY <1>2 DEF NobodyNew, ServerType, web, Served
  <2>4. QED
    BY <1>1, <2>2, <2>3
<1>3. CASE ~Served(c)' /\ permits' = permits + 1
  <2>1. InUse' = InUse \ {c} /\ c \in InUse
    BY <1>3 DEF InUse
  <2>2. Cardinality(InUse') = Cardinality(InUse) - 1
    BY <2>1, InUseFinite, FS_RemoveElement
  <2>3. PermitsBalance'
    BY <1>3, <2>2, InUseFinite, SetupFacts DEF PermitsBalance, bound, web, ServerType
  <2>4. NobodyNew'
    BY <1>3 DEF NobodyNew, ServerType, web, Served
  <2>5. QED
    BY <1>1, <2>3, <2>4
<1>4. QED
  BY <1>2, <1>3

LEMMA ConnOf ==   \* a handler's record, with some fields changed
  ASSUME conn \in [Conns -> Conn], NEW c \in Conns, NEW at \in Places, NEW l \in Leases \cup {None}
  PROVE  /\ [conn EXCEPT ![c].at = at] \in [Conns -> Conn]
         /\ [conn EXCEPT ![c] = [@ EXCEPT !.at = at, !.lease = l]] \in [Conns -> Conn]
         /\ [conn EXCEPT ![c] = Free] \in [Conns -> Conn]
         /\ [conn EXCEPT ![c] = [Free EXCEPT !.at = "idle"]] \in [Conns -> Conn]
         /\ [conn EXCEPT ![c] = [@ EXCEPT !.at = at, !.left = Patience]] \in [Conns -> Conn]
<1>1. conn[c] \in Conn
  OBVIOUS
<1>2. [conn[c] EXCEPT !.at = at] \in Conn
  BY <1>1 DEF Conn
<1>3. [conn[c] EXCEPT !.at = at, !.lease = l] \in Conn
  BY <1>1 DEF Conn
<1>4. [conn[c] EXCEPT !.at = at, !.left = Patience] \in Conn
  <2>1. Patience \in 0..Patience
    BY BoundAssumption
  <2>2. QED
    BY <1>1, <2>1 DEF Conn
<1>5. Free \in Conn /\ [Free EXCEPT !.at = "idle"] \in Conn
  BY FreeType DEF Conn, Places
<1>6. QED
  BY <1>2, <1>3, <1>4, <1>5

LEMMA StepPermits ==   \* the three ways of a handler that wakes nobody
  ASSUME PermitInv, NEW c \in Conns, Served(c), UNCHANGED <<web, taking, store>>,
         \/ \E at \in Places \ {"free"} : To(c, at)
         \/ \E at \in Places \ {"free"}, l \in Leases \cup {None} : Yielding(c, at, l)
         \/ Leave(c)
         \/ /\ conn' = [conn EXCEPT ![c] = [Free EXCEPT !.at = "idle"]] /\ permits' = permits
         \/ /\ conn' = [conn EXCEPT ![c] = [conn[c] EXCEPT !.at = "lookup", !.left = Patience]]
            /\ permits' = permits
  PROVE  PermitInv'
<1>0. conn \in [Conns -> Conn]
  BY DEF PermitInv, ServerType
<1>1. conn' \in [Conns -> Conn]
  <2>1. CASE \E at \in Places \ {"free"} : To(c, at)
    <3>1. PICK at \in Places : To(c, at)
      BY <2>1
    <3>2. QED
      BY <1>0, <3>1, ConnOf DEF To
  <2>2. CASE \E at \in Places \ {"free"}, l \in Leases \cup {None} : Yielding(c, at, l)
    <3>1. PICK at \in Places, l \in Leases \cup {None} : Yielding(c, at, l)
      BY <2>2
    <3>2. QED
      BY <1>0, <3>1, ConnOf DEF Yielding
  <2>3. CASE Leave(c)
    BY <1>0, <2>3, FreeType DEF Leave
  <2>4. CASE conn' = [conn EXCEPT ![c] = [Free EXCEPT !.at = "idle"]]
    <3>1. "idle" \in Places
      BY DEF Places
    <3>2. QED
      BY <1>0, <2>4, <3>1, ConnOf
  <2>5. CASE conn' = [conn EXCEPT ![c] = [conn[c] EXCEPT !.at = "lookup", !.left = Patience]]
    <3>1. "lookup" \in Places
      BY DEF Places
    <3>2. QED
      BY <1>0, <2>5, <3>1, ConnOf
  <2>6. QED
    BY <2>1, <2>2, <2>3, <2>4, <2>5
<1>2. \A d \in Conns \ {c} : conn'[d] = conn[d]
  BY <1>0 DEF To, Yielding, Leave
<1>3. \/ Served(c)' /\ permits' = permits
      \/ ~Served(c)' /\ permits' = permits + 1
  BY <1>0, FreeType DEF To, Yielding, Leave, Served, Conn, Free
<1>4. QED
  BY <1>1, <1>2, <1>3, HandlerPermits DEF Served

LEMMA WokenFacts ==
  ASSUME conn \in [Conns -> Conn], NEW n
  PROVE  /\ Woken(n) \in [Conns -> Conn]
         /\ \A d \in Conns : \/ Woken(n)[d] = conn[d]
                             \/ conn[d].at = "wait" /\ Woken(n)[d] = [conn[d] EXCEPT !.at = "lookup"]
         /\ \A d \in Conns : Woken(n)[d].at = "free" <=> conn[d].at = "free"
         /\ \A d \in Conns : conn[d] = Free => Woken(n)[d] = Free
<1>1. \A d \in Conns : [conn[d] EXCEPT !.at = "lookup"] \in Conn
  BY DEF Conn, Places
<1>2. \A d \in Conns : [conn[d] EXCEPT !.at = "lookup"].at = "lookup"
  BY DEF Conn
<1>3. QED
  BY <1>1, <1>2, FreeType DEF Woken

LEMMA WakerPermits ==
  ASSUME PermitInv, NEW c \in Conns, Remember(c) \/ Forget(c)
  PROVE  PermitInv'
<1> DEFINE n == name[conn[c].call]
<1>0. conn \in [Conns -> Conn] /\ Served(c)
  BY DEF PermitInv, ServerType, Remember, Forget, Served
<1>1. /\ Woken(n) \in [Conns -> Conn]
      /\ \A d \in Conns : \/ Woken(n)[d] = conn[d]
                          \/ conn[d].at = "wait" /\ Woken(n)[d] = [conn[d] EXCEPT !.at = "lookup"]
  BY <1>0, WokenFacts
<1>2. Woken(n)[c] = conn[c]
  BY <1>1 DEF Remember, Forget
<1>3. \A d \in Conns \ {c} : conn'[d] = Woken(n)[d]
  BY <1>0, <1>1 DEF Remember, Forget
<1>4. conn' \in [Conns -> Conn]
  <2>1. CASE Remember(c)
    <3>1. conn' = [Woken(n) EXCEPT ![c].at = "answer"]
      BY <2>1 DEF Remember
    <3>2. [Woken(n)[c] EXCEPT !.at = "answer"] \in Conn
      BY <1>1 DEF Conn, Places
    <3>3. QED
      BY <1>1, <3>1, <3>2
  <2>2. CASE Forget(c)
    BY <1>1, <2>2, FreeType DEF Forget
  <2>3. QED
    BY <2>1, <2>2
<1>5. \A d \in Conns \ {c} : /\ Served(d)' <=> Served(d)
                             /\ conn[d] = Free => conn'[d] = Free
  BY <1>0, <1>3, WokenFacts DEF Served
<1>6. \/ Served(c)' /\ permits' = permits
      \/ ~Served(c)' /\ permits' = permits + 1
  BY <1>0, <1>1, <1>2, FreeType DEF Remember, Forget, Served, Conn
<1>7. QED
  BY <1>0, <1>4, <1>5, <1>6, HandlerPermits DEF Remember, Forget, disk, web

(* The receipts that are left of the expired ones.                         *)
LEMMA UnexpiredFacts ==
  ASSUME idem \in Seq(Receipt)
  PROVE  /\ FirstLive \in 1..Len(idem)+1
         /\ \A j \in 1..FirstLive-1 : idem[j].left = 0
         /\ Unexpired \in Seq(Receipt)
         /\ DOMAIN Unexpired = 1..Len(Unexpired)
         /\ Len(Unexpired) = Len(idem) - FirstLive + 1
         /\ \A i \in DOMAIN Unexpired : Unexpired[i] = idem[i + FirstLive - 1]
<1> DEFINE First(i) == /\ \A j \in 1..i-1 : idem[j].left = 0
                       /\ i <= Len(idem) => idem[i].left > 0
           live == {i \in 1..Len(idem) : idem[i].left > 0}
<1>0. Len(idem) \in Nat /\ \A i \in 1..Len(idem) : idem[i] \in Receipt
  OBVIOUS
<1>1. \A i \in 1..Len(idem) : idem[i].left \in Nat
  BY <1>0, BoundAssumption DEF Receipt
<1>2. \E i \in 1..Len(idem)+1 : First(i)
  <2>1. CASE live = {}
    BY <1>0, <1>1, <2>1
  <2>2. CASE live # {}
    <3>1. live \subseteq Nat
      OBVIOUS
    <3>2. PICK i \in live : \A k \in live : <<k, i>> \notin OpToRel(<, Nat)
      BY <2>2, <3>1, NatLessThanWellFounded, WFMin
    <3>3. \A k \in live : ~(k < i)
      BY <3>1, <3>2 DEF OpToRel
    <3>4. i \in 1..Len(idem)+1 /\ First(i)
      BY <1>0, <1>1, <3>3
    <3>5. QED
      BY <3>4
  <2>3. QED
    BY <2>1, <2>2
<1>3. FirstLive \in 1..Len(idem)+1 /\ First(FirstLive)
  BY <1>2 DEF FirstLive
<1>4. \A i \in FirstLive..Len(idem) : idem[i] \in Receipt
  BY <1>0, <1>3
<1>5. /\ Unexpired \in Seq(Receipt)
      /\ Len(Unexpired) = IF FirstLive <= Len(idem) THEN Len(idem) - FirstLive + 1 ELSE 0
      /\ \A i \in 1..Len(idem) - FirstLive + 1 : Unexpired[i] = idem[FirstLive + i - 1]
  BY <1>0, <1>3, <1>4, SubSeqProperties DEF Unexpired
<1>6. Len(Unexpired) = Len(idem) - FirstLive + 1
  BY <1>0, <1>3, <1>5
<1>7. DOMAIN Unexpired = 1..Len(Unexpired)
  BY <1>5
<1>8. \A i \in DOMAIN Unexpired : Unexpired[i] = idem[i + FirstLive - 1]
  <2>1. TAKE i \in DOMAIN Unexpired
  <2>2. i \in 1..Len(idem) - FirstLive + 1 /\ FirstLive + i - 1 = i + FirstLive - 1
    BY <1>3, <1>6, <1>7
  <2>3. QED
    BY <1>5, <2>2
<1>9. QED
  BY <1>3, <1>5, <1>6, <1>7, <1>8

LEMMA HandlingPermits ==
  ASSUME PermitInv, ReceiptType, Carried, NEW c \in Conns, Handler(c)
  PROVE  PermitInv'
<1> USE DEF Served, Places
<1>1. CASE Remember(c) \/ Forget(c)
  BY <1>1, WakerPermits
<1>2. CASE CheckFlag(c) \/ CheckStore(c) \/ WaitEnds(c) \/ IdleEnds(c)
  BY <1>2, StepPermits DEF CheckFlag, CheckStore, WaitEnds, IdleEnds, disk
<1>3. CASE Lookup(c)
  <2>1. \A i \in DOMAIN Unexpired : Unexpired[i].lease \in Leases \cup {None}
    <3>1. Unexpired \in Seq(Receipt) /\ DOMAIN Unexpired = 1..Len(Unexpired)
      BY UnexpiredFacts DEF ReceiptType
    <3>2. \A i \in DOMAIN Unexpired : Unexpired[i] \in Receipt
      BY <3>1
    <3>3. QED
      BY <3>2 DEF Receipt
  <2>2. \/ Leave(c) \/ To(c, "reserve") \/ To(c, "wait")
        \/ \E l \in Leases \cup {None} : Yielding(c, "replay", l)
    BY <1>3, <2>1 DEF Lookup, Current
  <2>3. QED
    BY <1>3, <2>2, StepPermits DEF Lookup, disk
<1>4. CASE Reserve(c) \/ Serve(c)
  BY <1>4, StepPermits DEF Reserve, Serve
<1>5. CASE Answer(c)
  BY <1>5, StepPermits DEF Answer, disk
<1>6. QED
  BY <1>1, <1>2, <1>3, <1>4, <1>5 DEF Handler

LEMMA SendPermits ==
  ASSUME PermitInv, NEW c \in Conns, NEW op \in {"reserve", "release", "renew"}, NEW x \in Calls,
         NEW l \in Leases \cup {None}, Send(c, op, x, l)
  PROVE  PermitInv'
<1>0. conn \in [Conns -> Conn] /\ Served(c)
  BY DEF PermitInv, ServerType, Send, Served
<1>1. [conn[c] EXCEPT !.at = "flag", !.op = op, !.call = x, !.lease = l] \in Conn
  BY <1>0 DEF Conn, Places
<1>2. conn' \in [Conns -> Conn]
  BY <1>0, <1>1 DEF Send
<1>3. Served(c)'
  BY <1>0 DEF Send, Served, Conn
<1>4. \A d \in Conns \ {c} : conn'[d] = conn[d]
  BY <1>0 DEF Send
<1>5. QED
  BY <1>0, <1>2, <1>3, <1>4, HandlerPermits DEF Send, Served, disk

LEMMA StartPermits ==
  ASSUME PermitInv, NEW c \in Conns, StartThread(c)
  PROVE  PermitInv'
<1> USE FreeType DEF PermitInv
<1>0. conn \in [Conns -> Conn] /\ conn[c] = Free
  BY NoneAssumption DEF ServerType, NobodyNew, StartThread
<1>1. CASE permits > 0 /\ permits' = permits - 1 /\ conn' = [conn EXCEPT ![c].at = "idle"]
  <2>1. [conn[c] EXCEPT !.at = "idle"] \in Conn /\ [conn[c] EXCEPT !.at = "idle"].at = "idle"
    BY <1>0 DEF Conn, Places
  <2>2. conn' \in [Conns -> Conn]
    BY <1>0, <1>1, <2>1
  <2>3. ServerType'
    BY <1>1, <2>2 DEF ServerType, StartThread, web, disk
  <2>4. InUse' = InUse \cup {c} /\ c \notin InUse
    BY <1>0, <1>1, <2>1 DEF InUse, Served
  <2>5. Cardinality(InUse') = Cardinality(InUse) + 1
    BY <2>4, InUseFinite, FS_AddElement
  <2>6. PermitsBalance'
    BY <1>1, <2>5, InUseFinite, SetupFacts
       DEF PermitsBalance, bound, StartThread, web, ServerType
  <2>7. NobodyNew'
    <3>1. closing \notin {"store", "done"}
      BY SetupFacts, NoneAssumption DEF NobodyNew, StartThread, ServerType
    <3>2. QED
      BY <3>1 DEF NobodyNew, StartThread, web, disk
  <2>8. QED
    BY <2>3, <2>6, <2>7
<1>2. CASE UNCHANGED <<conn, permits>>
  BY <1>2 DEF ServerType, PermitsBalance, NobodyNew, StartThread, InUse, Served, bound, web, disk
<1>3. QED
  BY <1>1, <1>2 DEF StartThread, ReturnedBy

LEMMA CloserPermits ==
  ASSUME PermitInv, Closer
  PROVE  PermitInv'
<1> USE DEF PermitInv, Quiet
<1>0. conn' = conn /\ setup' = setup /\ InUse' = InUse /\ bound' = bound
  BY DEF Closer, Close, StopAcceptor, TakePermit, DrainFails, Drained, CloseStore, InUse, Served,
     bound
<1>1. ServerType'
  <2>1. permits' \in Nat /\ held' \in Nat
    BY DEF ServerType, Closer, Close, StopAcceptor, TakePermit, DrainFails, Drained,
       CloseStore, GivenBack
  <2>2. /\ setup' \in Setups /\ conn' \in [Conns -> Conn] /\ taking' \in Conns \cup {None}
        /\ closing' \in {"none", "stop", "drain", "store", "done"}
        /\ store' \in {"open", "failed", "closed"}
    BY <1>0 DEF ServerType, Closer, Close, StopAcceptor, TakePermit, DrainFails, Drained, CloseStore
  <2>3. flag' \in BOOLEAN /\ acceptor' \in BOOLEAN
    BY DEF ServerType, Closer, Close, StopAcceptor, TakePermit, DrainFails, Drained, CloseStore
  <2>4. QED
    BY <2>1, <2>2, <2>3 DEF ServerType
<1>2. permits' + held' = permits + held
  BY DEF ServerType, Closer, Close, StopAcceptor, TakePermit, DrainFails, Drained,
     CloseStore, GivenBack
<1>3. PermitsBalance'
  BY <1>0, <1>1, <1>2, InUseFinite DEF PermitsBalance, ServerType
<1>4. NobodyNew'
  <2>1. CASE Drained
    <3>1. held = bound
      BY <2>1 DEF Drained, AllHeld
    <3>2. Cardinality(InUse) = 0
      BY <3>1, InUseFinite, SetupFacts DEF PermitsBalance, ServerType
    <3>3. \A c \in Conns : ~Served(c)
      BY <3>2, InUseFinite, FS_EmptySet DEF InUse
    <3>4. QED
      BY <1>0, <2>1, <3>3 DEF NobodyNew, Drained, Served
  <2>2. CASE Close \/ StopAcceptor \/ TakePermit \/ DrainFails
    BY <2>2 DEF NobodyNew, Close, StopAcceptor, TakePermit, DrainFails, Served
  <2>3. CASE CloseStore
    BY <2>3 DEF NobodyNew, CloseStore, Served
  <2>4. QED
    BY <2>1, <2>2, <2>3 DEF Closer
<1>5. QED
  BY <1>1, <1>3, <1>4

LEMMA LessType == \A n \in Nat, m \in Nat : n \in 0..m => Less(n) \in 0..m
BY DEF Less

LEMMA TickPermits ==
  ASSUME PermitInv, Tick
  PROVE  PermitInv'
<1> USE FreeType DEF PermitInv
<1>0. conn \in [Conns -> Conn]
  BY DEF ServerType
<1>1. \A d \in Conns : conn'[d] = [conn[d] EXCEPT !.left = Less(conn[d].left)]
  BY DEF Tick
<1>2. \A d \in Conns : conn'[d] \in Conn /\ conn'[d].at = conn[d].at
  <2>1. TAKE d \in Conns
  <2>2. conn[d].left \in 0..Patience /\ Patience \in Nat
    BY <1>0, BoundAssumption DEF Conn
  <2>3. Less(conn[d].left) \in 0..Patience
    BY <2>2, LessType
  <2>4. [conn[d] EXCEPT !.left = Less(conn[d].left)] \in Conn
    BY <1>0, <2>3 DEF Conn
  <2>5. [conn[d] EXCEPT !.left = Less(conn[d].left)].at = conn[d].at
    BY <1>0 DEF Conn
  <2>6. QED
    BY <1>1, <2>4, <2>5
<1>3. \A d \in Conns : conn[d] = Free => conn'[d] = Free
  BY <1>1 DEF Free, Less
<1>4. conn' \in [Conns -> Conn]
  BY <1>2 DEF Tick
<1>5. InUse' = InUse
  BY <1>2 DEF InUse, Served
<1>6. ServerType'
  BY <1>4 DEF ServerType, Tick, web
<1>7. PermitsBalance'
  BY <1>5 DEF PermitsBalance, Tick, web, bound
<1>8. NobodyNew'
  BY <1>2, <1>3 DEF NobodyNew, Tick, web, Served, ServerType
<1>9. QED
  BY <1>6, <1>7, <1>8

LEMMA NextPermits ==
  ASSUME PermitInv, ReceiptType, Carried, Next
  PROVE  PermitInv'
<1>1. CASE Clients
  <2>1. PICK c \in Conns, x \in Calls :
          \/ Send(c, "reserve", x, None)
          \/ \E l \in Leases, op \in setup.uses : Send(c, op, x, l)
    BY <1>1 DEF Clients
  <2>2. setup.uses \subseteq {"release", "renew"}
    BY SetupFacts DEF PermitInv, ServerType
  <2>3. QED
    BY <2>1, <2>2, SendPermits
<1>2. CASE \E c \in Conns : Accept(c)
  BY <1>2 DEF Accept, PermitInv, ServerType, PermitsBalance, NobodyNew, InUse, Served, bound, web,
     disk
<1>3. CASE \E c \in Conns : StartThread(c)
  BY <1>3, StartPermits
<1>4. CASE \E c \in Conns : Handler(c)
  BY <1>4, HandlingPermits
<1>5. CASE Closer
  BY <1>5, CloserPermits
<1>6. CASE StoreFails
  BY <1>6 DEF StoreFails, PermitInv, ServerType, PermitsBalance, NobodyNew, InUse, Served, bound, web
<1>7. CASE Tick
  BY <1>7, TickPermits
<1>8. QED
  BY <1>1, <1>2, <1>3, <1>4, <1>5, <1>6, <1>7 DEF Next

-----------------------------------------------------------------------------
(* Receipts.                                                               *)

LEMMA ToFields ==
  ASSUME conn \in [Conns -> Conn], NEW c \in Conns, NEW at, To(c, at)
  PROVE  /\ \A d \in Conns \ {c} : conn'[d] = conn[d]
         /\ conn'[c].at = at /\ conn'[c].op = conn[c].op /\ conn'[c].call = conn[c].call
         /\ conn'[c].lease = conn[c].lease
BY DEF To, Conn

LEMMA YieldingFields ==
  ASSUME conn \in [Conns -> Conn], NEW c \in Conns, NEW at, NEW l, Yielding(c, at, l)
  PROVE  /\ \A d \in Conns \ {c} : conn'[d] = conn[d]
         /\ conn'[c].at = at /\ conn'[c].op = conn[c].op /\ conn'[c].call = conn[c].call
         /\ conn'[c].lease = l
BY DEF Yielding, Conn

LEMMA LeaveFields ==
  ASSUME conn \in [Conns -> Conn], NEW c \in Conns, Leave(c)
  PROVE  /\ \A d \in Conns \ {c} : conn'[d] = conn[d]
         /\ conn'[c].at = "free" /\ conn'[c].lease = None
BY DEF Leave, Free

LEMMA ReceiptsUntouched ==
  ASSUME ReceiptInv, Carried', UNCHANGED <<setup, rpc, lease, told>>,
         \A d \in Conns : conn'[d] = conn[d] \/ (~Owner(d) /\ ~Owner(d)')
  PROVE  ReceiptInv'
<1> USE DEF ReceiptInv, rpc
<1>1. name' = name /\ Cap' = Cap
  BY DEF name, Cap
<1>2. ReceiptType' /\ LeasesKnown' /\ ReceiptsSorted'
  BY <1>1 DEF ReceiptType, LeasesKnown, ReceiptsSorted
<1>3. ReceiptsFit'
  BY <1>1 DEF ReceiptsFit, Computing
<1>4. OneOwner' /\ OneReceipt'
  BY <1>1 DEF OneOwner, OneReceipt, Owner, NameOf
<1>5. Covered'
  <2> SUFFICES ASSUME NEW l \in Leases, Unrenewed(l)' PROVE (Receipted(l) \/ BeingRemembered(l))'
    BY DEF Covered
  <2>1. CASE Receipted(l)
    BY <1>1, <2>1 DEF Receipted
  <2>2. CASE BeingRemembered(l)
    BY <2>2 DEF BeingRemembered, Owner
  <2>3. QED
    BY <2>1, <2>2 DEF Covered, Unrenewed
<1>6. QED
  BY <1>2, <1>3, <1>4, <1>5

LEMMA SendReceipts ==
  ASSUME ServerInv, NEW c \in Conns, NEW op \in {"reserve", "release", "renew"}, NEW x \in Calls,
         NEW l \in Leases \cup {None}, Send(c, op, x, l),
         IF op = "reserve" THEN l = None ELSE l \in Leases
  PROVE  ReceiptInv'
<1>0. conn \in [Conns -> Conn] /\ Carried
  BY DEF ServerInv, PermitInv, ServerType, ReceiptInv
<1>1. /\ \A d \in Conns \ {c} : conn'[d] = conn[d]
      /\ conn'[c].at = "flag" /\ conn'[c].op = op /\ conn'[c].call = x /\ conn'[c].lease = l
  BY <1>0 DEF Send, Conn
<1>2. Carried'
  BY <1>0, <1>1 DEF Carried, Send, disk
<1>3. \A d \in Conns : conn'[d] = conn[d] \/ (~Owner(d) /\ ~Owner(d)')
  BY <1>0, <1>1 DEF Owner, Send
<1>4. QED
  BY <1>2, <1>3, ReceiptsUntouched DEF ServerInv, Send, web, disk

LEMMA QuietHandlers ==
  ASSUME ServerInv, NEW c \in Conns, CheckFlag(c) \/ CheckStore(c) \/ WaitEnds(c) \/ IdleEnds(c)
  PROVE  ReceiptInv'
<1>0. conn \in [Conns -> Conn] /\ Carried
  BY DEF ServerInv, PermitInv, ServerType, ReceiptInv
<1>1. ~Owner(c)
  BY DEF CheckFlag, CheckStore, WaitEnds, IdleEnds, Owner
<1>2. UNCHANGED <<setup, rpc, lease, told>>
  BY DEF CheckFlag, CheckStore, WaitEnds, IdleEnds, web, disk
<1>3. /\ \A d \in Conns \ {c} : conn'[d] = conn[d]
      /\ ~Owner(c)' /\ Carried'
  <2>1. CASE Leave(c)
    BY <1>0, <1>2, <2>1, LeaveFields DEF Carried, Owner
  <2>2. CASE CheckFlag(c) /\ To(c, "check")
    BY <1>0, <1>2, <2>2, ToFields DEF Carried, Owner, CheckFlag
  <2>3. CASE CheckStore(c) /\ conn[c].op = "reserve" /\ To(c, "answer")
    BY <1>0, <1>2, <2>3, ToFields DEF Carried, Owner, CheckStore
  <2>4. CASE CheckStore(c) /\ conn[c].op \in {"release", "renew"} /\ To(c, "serve")
    BY <1>0, <1>2, <2>4, ToFields DEF Carried, Owner, CheckStore
  <2>5. CASE /\ CheckStore(c)
             /\ conn' = [conn EXCEPT ![c] = [conn[c] EXCEPT !.at = "lookup", !.left = Patience]]
    <3>1. /\ \A d \in Conns \ {c} : conn'[d] = conn[d]
          /\ conn'[c].at = "lookup" /\ conn'[c].call = conn[c].call
      BY <1>0, <2>5 DEF Conn
    <3>2. QED
      BY <1>0, <1>2, <2>5, <3>1 DEF Carried, Owner, CheckStore
  <2>6. QED
    BY <2>1, <2>2, <2>3, <2>4, <2>5 DEF CheckFlag, CheckStore, WaitEnds, IdleEnds
<1>4. QED
  BY <1>1, <1>2, <1>3, ReceiptsUntouched DEF ServerInv

LEMMA OthersReceipts ==
  ASSUME ServerInv, Closer \/ StoreFails \/ \E c \in Conns : Accept(c) \/ StartThread(c)
  PROVE  ReceiptInv'
<1>0. conn \in [Conns -> Conn] /\ Carried
  BY DEF ServerInv, PermitInv, ServerType, ReceiptInv
<1>1. UNCHANGED <<setup, rpc, lease, told>>
  BY DEF Closer, Close, StopAcceptor, TakePermit, DrainFails, Drained, CloseStore, Quiet,
     StoreFails, Accept, StartThread, web, disk
<1>2. CASE UNCHANGED conn
  BY <1>0, <1>1, <1>2, ReceiptsUntouched DEF ServerInv, Carried
<1>3. CASE \E c \in Conns : StartThread(c) /\ conn' = [conn EXCEPT ![c].at = "idle"]
  <2>1. PICK c \in Conns : StartThread(c) /\ conn' = [conn EXCEPT ![c].at = "idle"]
    BY <1>3
  <2>2. conn[c] = Free
    BY <2>1, NoneAssumption DEF StartThread, ServerInv, PermitInv, NobodyNew
  <2>3. /\ \A d \in Conns \ {c} : conn'[d] = conn[d]
        /\ conn'[c].at = "idle" /\ conn[c].at = "free"
    BY <1>0, <2>1, <2>2 DEF Conn, Free
  <2>4. Carried' /\ ~Owner(c) /\ ~Owner(c)'
    BY <1>0, <1>1, <2>3 DEF Carried, Owner
  <2>5. QED
    BY <1>1, <2>3, <2>4, ReceiptsUntouched DEF ServerInv
<1>4. QED
  BY <1>2, <1>3 DEF Closer, Close, StopAcceptor, TakePermit, DrainFails, Drained, CloseStore,
     StoreFails, Accept, StartThread

(* One turn of _idempotent(): the receipts that remain are the ones behind *)
(* the first that lives.                                                   *)
LEMMA LookupKeeps ==
  ASSUME ServerInv, idem' = Unexpired, UNCHANGED <<setup, lease>>
  PROVE  /\ idem' \in Seq(Receipt) /\ DOMAIN idem' = 1..Len(idem')
         /\ Len(idem') \in Nat /\ Len(idem') <= Len(idem)
         /\ ReceiptsSorted'
         /\ \A i \in DOMAIN idem' : \E k \in DOMAIN idem : idem'[i] = idem[k]
         /\ \A i, k \in DOMAIN idem' : idem'[i].name = idem'[k].name => i = k
         /\ \A l \in Leases : Unrenewed(l) /\ Receipted(l) => Receipted(l)'
<1> USE DEF ServerInv, ReceiptInv
<1> DEFINE k0 == FirstLive - 1
<1>0. idem \in Seq(Receipt) /\ Len(idem) \in Nat /\ DOMAIN idem = 1..Len(idem)
  BY DEF ReceiptType
<1>1. /\ k0 \in 0..Len(idem) /\ \A j \in 1..k0 : idem[j].left = 0
      /\ idem' \in Seq(Receipt) /\ DOMAIN idem' = 1..Len(idem')
      /\ Len(idem') = Len(idem) - k0
      /\ \A i \in DOMAIN idem' : idem'[i] = idem[i + k0]
  BY <1>0, UnexpiredFacts
<1>2. \A i \in DOMAIN idem' : i + k0 \in DOMAIN idem
  BY <1>0, <1>1
<1>3. ReceiptsSorted'
  <2> SUFFICES ASSUME NEW i \in DOMAIN idem', NEW k \in DOMAIN idem', i < k
               PROVE  idem'[i].left <= idem'[k].left
    BY DEF ReceiptsSorted
  <2>1. i + k0 < k + k0 /\ i + k0 \in DOMAIN idem /\ k + k0 \in DOMAIN idem
    BY <1>0, <1>1, <1>2
  <2>2. QED
    BY <1>1, <2>1 DEF ReceiptsSorted
<1>4. \A i, k \in DOMAIN idem' : idem'[i].name = idem'[k].name => i = k
  <2> SUFFICES ASSUME NEW i \in DOMAIN idem', NEW k \in DOMAIN idem', idem'[i].name = idem'[k].name
               PROVE  i = k
    OBVIOUS
  <2>1. i + k0 = k + k0
    BY <1>1, <1>2 DEF OneReceipt
  <2>2. QED
    BY <1>0, <1>1, <2>1
<1>5. ASSUME NEW l \in Leases, Unrenewed(l), Receipted(l)
      PROVE  Receipted(l)'
  <2>1. PICK k \in DOMAIN idem : /\ idem[k].name = name[lease[l].call] /\ idem[k].lease = l
                                 /\ idem[k].left >= lease[l].left
    BY <1>5 DEF Receipted
  <2>2. k \notin 1..k0
    BY <1>1, <1>5, <2>1, BoundAssumption DEF Unrenewed, ReceiptType, Lease
  <2>3. k - k0 \in DOMAIN idem' /\ (k - k0) + k0 = k
    BY <1>0, <1>1, <2>1, <2>2
  <2>4. idem'[k - k0] = idem[k]
    BY <1>1, <2>3
  <2>5. QED
    BY <2>1, <2>3, <2>4 DEF Receipted, name
<1>6. \A i \in DOMAIN idem' : \E k \in DOMAIN idem : idem'[i] = idem[k]
  BY <1>1, <1>2
<1>7. QED
  BY <1>0, <1>1, <1>3, <1>4, <1>5, <1>6

LEMMA ComputingFinite == IsFiniteSet(Computing) /\ Cardinality(Computing) \in Nat
<1>1. Computing \subseteq Names
  BY DEF Computing
<1>2. QED
  BY <1>1, BoundAssumption, FS_Subset, FS_CardinalityType

LEMMA LookupReceipts ==
  ASSUME ServerInv, NEW c \in Conns, Lookup(c)
  PROVE  ReceiptInv'
<1> USE DEF ServerInv, ReceiptInv
<1> DEFINE n == NameOf(c)
<1>0. /\ conn \in [Conns -> Conn] /\ Carried /\ setup \in Setups
      /\ conn[c].at = "lookup" /\ conn[c].call \in Calls /\ ~Owner(c)
  BY DEF PermitInv, ServerType, Carried, Lookup, Owner
<1>1. idem' = Unexpired /\ UNCHANGED <<setup, lease, told>>
  BY DEF Lookup, Current, web, disk
<1>2. name \in [Calls -> Names] /\ n \in Names /\ name' = name /\ Cap' = Cap /\ Cap \in Nat
  BY <1>0, <1>1, SetupFacts DEF NameOf, name, Cap
<1>3. /\ idem' \in Seq(Receipt) /\ Len(idem') \in Nat /\ Len(idem') <= Len(idem)
      /\ \A i \in DOMAIN idem' : \E k \in DOMAIN idem : idem'[i] = idem[k]
      /\ ReceiptsSorted' /\ \A i, k \in DOMAIN idem' : idem'[i].name = idem'[k].name => i = k
      /\ \A l \in Leases : Unrenewed(l) /\ Receipted(l) => Receipted(l)'
  BY <1>1, LookupKeeps
<1>4. LeasesKnown'
  BY <1>1, <1>2, <1>3 DEF LeasesKnown
<1>5. \A d \in Conns \ {c} : conn'[d] = conn[d]
  BY <1>0, ToFields, LeaveFields, YieldingFields DEF Lookup
<1>6. CASE ~Owner(c)' /\ pending' = pending
  <2>1. Carried'
    <3>1. CASE Leave(c)
      BY <1>0, <1>1, <3>1, LeaveFields DEF Carried
    <3>2. CASE To(c, "wait")
      BY <1>0, <1>1, <3>2, ToFields DEF Carried
    <3>3. CASE \E i \in DOMAIN idem' : /\ Matches(idem'[i].call, conn[c].call)
                                       /\ Yielding(c, "replay", idem'[i].lease)
      <4>1. PICK i \in DOMAIN idem' : /\ idem'[i].call = conn[c].call
                                      /\ Yielding(c, "replay", idem'[i].lease)
        BY <3>3 DEF Matches
      <4>2. idem'[i].lease # None => lease[idem'[i].lease].call = conn[c].call
        BY <1>1, <1>4, <4>1 DEF LeasesKnown
      <4>3. QED
        BY <1>0, <1>1, <4>1, <4>2, YieldingFields DEF Carried
    <3>4. QED
      BY <1>1, <1>6, <3>1, <3>2, <3>3, ToFields, <1>0 DEF Lookup, Current, Owner
  <2>2. ReceiptType'
    BY <1>1, <1>3, <1>6 DEF ReceiptType
  <2>3. OneOwner' /\ OneReceipt'
    BY <1>2, <1>3, <1>5, <1>6 DEF OneOwner, OneReceipt, Owner, NameOf
  <2>4. ReceiptsFit'
    <3>1. Computing' = Computing
      BY <1>6 DEF Computing
    <3>2. QED
      BY <1>2, <1>3, <3>1, ComputingFinite DEF ReceiptsFit, ReceiptType
  <2>5. Covered'
    BY <1>0, <1>1, <1>3, <1>5 DEF Covered, Unrenewed, BeingRemembered
  <2>6. QED
    BY <1>3, <1>4, <2>1, <2>2, <2>3, <2>4, <2>5
<1>7. CASE To(c, "reserve") /\ pending' = [pending EXCEPT ![n] = conn[c].call]
           /\ {i \in DOMAIN idem' : idem'[i].name = n} = {} /\ Vacant(n)
           /\ Cardinality(Computing) + Len(idem') < Cap
  <2>0. /\ conn'[c].at = "reserve" /\ conn'[c].call = conn[c].call /\ conn'[c].lease = conn[c].lease
    BY <1>0, <1>7, ToFields
  <2>1. Carried'
    BY <1>0, <1>1, <1>5, <2>0 DEF Carried
  <2>2. ReceiptType'
    BY <1>0, <1>1, <1>2, <1>3, <1>7 DEF ReceiptType
  <2>3. \A d \in Conns : Owner(d) => NameOf(d) # n
    BY <1>7, NoneAssumption, <1>0 DEF OneOwner, Vacant, Owner, Carried
  <2>4. \A d \in Conns : Owner(d)' => /\ d = c \/ (Owner(d) /\ d # c)
                                      /\ NameOf(d)' = NameOf(d) /\ conn'[d].call = conn[d].call
    BY <1>2, <1>5, <2>0 DEF Owner, NameOf
  <2>5. OneOwner'
    <3>1. pending' \in [Names -> Calls \cup {None}] /\ pending'[n] = conn[c].call
          /\ \A m \in Names \ {n} : pending'[m] = pending[m]
      BY <1>0, <1>2, <1>7 DEF ReceiptType
    <3>2. \A d \in Conns : Owner(d) => NameOf(d) \in Names
      BY <1>0, <1>2 DEF Owner, NameOf, Carried
    <3>3. QED
      BY <2>3, <2>4, <3>1, <3>2 DEF OneOwner
  <2>6. OneReceipt'
    BY <1>3, <1>7, <2>3, <2>4 DEF OneReceipt
  <2>7. ReceiptsFit'
    <3>1. Computing' = Computing \cup {n} /\ n \notin Computing
      BY <1>0, <1>2, <1>7, NoneAssumption DEF Computing, Vacant, ReceiptType
    <3>2. Cardinality(Computing') = Cardinality(Computing) + 1
      BY <3>1, ComputingFinite, FS_AddElement
    <3>3. QED
      BY <1>2, <1>3, <1>7, <3>2, ComputingFinite DEF ReceiptsFit
  <2>8. Covered'
    BY <1>0, <1>1, <1>3, <1>5 DEF Covered, Unrenewed, BeingRemembered
  <2>9. QED
    BY <1>3, <1>4, <2>1, <2>2, <2>5, <2>6, <2>7, <2>8
<1>8. CASE (Leave(c) \/ To(c, "wait") \/ \E l : Yielding(c, "replay", l)) /\ pending' = pending
  <2>1. ~Owner(c)'
    BY <1>0, <1>8, ToFields, LeaveFields, YieldingFields DEF Owner
  <2>2. QED
    BY <1>6, <1>8, <2>1
<1>9. QED
  <2> DEFINE hits == {i \in DOMAIN idem' : idem'[i].name = n}
  <2>1. \/ /\ hits # {} /\ pending' = pending
           /\ Leave(c) \/ \E l : Yielding(c, "replay", l)
        \/ /\ hits = {} /\ Vacant(n)
           /\ \/ Leave(c) /\ pending' = pending
              \/ /\ To(c, "reserve") /\ pending' = [pending EXCEPT ![n] = conn[c].call]
                 /\ ~(Cardinality(Computing) + Len(idem') >= Cap)
        \/ /\ hits = {} /\ pending' = pending
           /\ To(c, "wait") \/ Leave(c)
    BY <1>1, Zenon DEF Lookup, Current, NameOf
  <2>2. ~(Cardinality(Computing) + Len(idem') >= Cap) => Cardinality(Computing) + Len(idem') < Cap
    BY <1>2, <1>3, ComputingFinite
  <2>3. QED
    BY <1>7, <1>8, <2>1, <2>2

LEMMA ReserveReceipts ==
  ASSUME ServerInv, NEW c \in Conns, Reserve(c)
  PROVE  ReceiptInv'
<1> USE DEF ServerInv, ReceiptInv
<1> DEFINE x == conn[c].call
<1>0. /\ conn \in [Conns -> Conn] /\ Carried /\ x \in Calls /\ Owner(c) /\ conn[c].at = "reserve"
  BY DEF PermitInv, ServerType, Carried, Reserve, Owner
<1>1. UNCHANGED <<setup, rpc, told>> /\ name' = name /\ Cap' = Cap
  BY DEF Reserve, web, name, Cap
<1>2. /\ \A d \in Conns \ {c} : conn'[d] = conn[d]
      /\ conn'[c].at \in {"remember", "forget"} /\ conn'[c].call = x
  BY <1>0, YieldingFields DEF Reserve
<1>3. \A d \in Conns : Owner(d)' = Owner(d) /\ NameOf(d)' = NameOf(d) /\ conn'[d].call = conn[d].call
  BY <1>0, <1>1, <1>2 DEF Owner, NameOf
<1>4. OneOwner' /\ OneReceipt'
  BY <1>1, <1>3 DEF OneOwner, OneReceipt, rpc
<1>5. ReceiptsFit' /\ ReceiptsSorted'
  BY <1>1 DEF ReceiptsFit, ReceiptsSorted, Computing, rpc
<1>6. CASE lease' = lease /\ \E at : Yielding(c, at, None)
  <2>1. conn'[c].lease = None
    BY <1>0, <1>6, YieldingFields
  <2>2. ReceiptType' /\ LeasesKnown'
    BY <1>1, <1>6 DEF ReceiptType, LeasesKnown, rpc
  <2>3. Carried'
    BY <1>0, <1>2, <1>6, <2>1 DEF Carried
  <2>4. Covered'
    BY <1>0, <1>1, <1>2, <1>6 DEF Covered, Unrenewed, Receipted, BeingRemembered, rpc
  <2>5. QED
    BY <1>4, <1>5, <2>2, <2>3, <2>4
<1>7. CASE \E l \in Leases : lease[l].call = None /\ Granted(l, x) /\ Yielding(c, "remember", l)
  <2>1. PICK l \in Leases : lease[l].call = None /\ Granted(l, x) /\ Yielding(c, "remember", l)
    BY <1>7
  <2>2. /\ conn'[c].at = "remember" /\ conn'[c].lease = l
        /\ lease \in [Leases -> Lease]
        /\ lease'[l] = [call |-> x, left |-> Ttl, renewed |-> FALSE]
        /\ \A m \in Leases \ {l} : lease'[m] = lease[m]
    BY <1>0, <2>1, YieldingFields DEF Granted, ReceiptType
  <2>3. ReceiptType'
    <3>1. [call |-> x, left |-> Ttl, renewed |-> FALSE] \in Lease
      BY <1>0, BoundAssumption DEF Lease
    <3>2. lease' \in [Leases -> Lease]
      BY <2>1, <2>2, <3>1 DEF Granted
    <3>3. QED
      BY <1>1, <3>2 DEF ReceiptType, rpc
  <2>4. LeasesKnown'
    <3>0. \A i \in DOMAIN idem : idem[i] \in Receipt
      BY DEF ReceiptType
    <3>1. \A i \in DOMAIN idem : idem[i].call \in Calls /\ idem[i].lease \in Leases \cup {None}
      BY <3>0 DEF Receipt
    <3>2. \A i \in DOMAIN idem : idem[i].lease # l
      BY <2>1, <3>1, NoneAssumption DEF LeasesKnown
    <3>3. \A y \in Calls : l \notin told[y] /\ told[y] \subseteq Leases
      BY <2>1, NoneAssumption DEF LeasesKnown, ReceiptType
    <3>4. QED
      BY <1>0, <1>1, <2>2, <3>1, <3>2, <3>3 DEF LeasesKnown, rpc
  <2>5. Carried'
    <3>1. \A d \in Conns : conn[d].at \in {"remember", "answer", "replay"} => conn[d].lease # l
      BY <2>1, NoneAssumption DEF Carried
    <3>2. \A d \in Conns : conn[d].lease \in Leases \cup {None}
      BY <1>0 DEF Conn
    <3>3. QED
      BY <1>0, <1>2, <2>2, <3>1, <3>2 DEF Carried
  <2>6. Covered'
    <3> SUFFICES ASSUME NEW m \in Leases, Unrenewed(m)'
                 PROVE  (Receipted(m) \/ BeingRemembered(m))'
      BY DEF Covered
    <3>1. CASE m = l
      BY <1>2, <2>2, <3>1 DEF BeingRemembered
    <3>2. CASE m # l
      BY <1>0, <1>1, <1>2, <2>2, <3>2 DEF Covered, Unrenewed, Receipted, BeingRemembered, rpc
    <3>3. QED
      BY <3>1, <3>2
  <2>7. QED
    BY <1>4, <1>5, <2>3, <2>4, <2>5, <2>6
<1>8. QED
  BY <1>6, <1>7 DEF Reserve

LEMMA WakingCarries ==   \* Remember and Forget
  ASSUME ServerInv, NEW c \in Conns, Remember(c) \/ Forget(c)
  PROVE  /\ Owner(c) /\ ~Owner(c)' /\ Carried' /\ pending[NameOf(c)] = conn[c].call
         /\ conn[c].call \in Calls
         /\ \A d \in Conns \ {c} :
              /\ Owner(d)' = Owner(d) /\ NameOf(d)' = NameOf(d)
              /\ conn[d].at = "remember" => conn'[d] = conn[d]
              /\ conn'[d].call = conn[d].call
<1> DEFINE n == name[conn[c].call]
<1>0. /\ conn \in [Conns -> Conn] /\ Carried /\ Owner(c) /\ OneOwner /\ name' = name
      /\ conn[c].at \in {"remember", "forget"} /\ conn[c].call \in Calls /\ lease' = lease
  BY DEF ServerInv, PermitInv, ServerType, ReceiptInv, Carried, Remember, Forget, Owner, web, disk, name
<1>1. /\ Woken(n) \in [Conns -> Conn]
      /\ \A d \in Conns : \/ Woken(n)[d] = conn[d]
                          \/ conn[d].at = "wait" /\ Woken(n)[d] = [conn[d] EXCEPT !.at = "lookup"]
  BY <1>0, WokenFacts
<1>2. \A d \in Conns \ {c} : conn'[d] = Woken(n)[d]
  BY <1>0, <1>1 DEF Remember, Forget
<1>3. \A d \in Conns \ {c} :
        \/ conn'[d] = conn[d]
        \/ /\ conn[d].at = "wait" /\ conn'[d].at = "lookup"
           /\ conn'[d].call = conn[d].call /\ conn'[d].lease = conn[d].lease
  <2> SUFFICES ASSUME NEW d \in Conns \ {c}, conn[d].at = "wait",
                      conn'[d] = [conn[d] EXCEPT !.at = "lookup"]
               PROVE  /\ conn'[d].at = "lookup" /\ conn'[d].call = conn[d].call
                      /\ conn'[d].lease = conn[d].lease
    BY <1>1, <1>2
  <2>1. conn[d] \in Conn
    BY <1>0
  <2>2. QED
    BY <2>1 DEF Conn
<1>4. Woken(n)[c] = conn[c]
  BY <1>0, <1>1
<1>5. \/ conn'[c].at = "free"
      \/ /\ conn[c].at = "remember" /\ conn'[c].at = "answer"
         /\ conn'[c].call = conn[c].call /\ conn'[c].lease = conn[c].lease
  <2>1. CASE Remember(c)
    BY <1>0, <1>1, <1>4, <2>1 DEF Remember, Conn
  <2>2. CASE Forget(c)
    BY <1>1, <2>2 DEF Forget, Free
  <2>3. QED
    BY <2>1, <2>2
<1>6. Carried'
  BY <1>0, <1>3, <1>5 DEF Carried
<1>7. QED
  BY <1>0, <1>3, <1>5, <1>6 DEF Owner, NameOf, OneOwner

LEMMA RememberReceipts ==
  ASSUME ServerInv, NEW c \in Conns, Remember(c)
  PROVE  ReceiptInv'
<1> USE DEF ServerInv, ReceiptInv
<1> DEFINE n == NameOf(c)
           r == [name |-> n, call |-> conn[c].call, lease |-> conn[c].lease, left |-> Ttl]
<1>0. /\ conn \in [Conns -> Conn] /\ setup \in Setups /\ conn[c].call \in Calls
      /\ conn[c].at = "remember" /\ Owner(c) /\ ~Owner(c)' /\ Carried' /\ pending[n] = conn[c].call
  BY WakingCarries DEF PermitInv, ServerType, Remember
<1>1. /\ UNCHANGED <<setup, lease, told>> /\ name' = name /\ Cap' = Cap
      /\ idem' = Append(idem, r) /\ pending' = [pending EXCEPT ![n] = None]
  BY DEF Remember, web, disk, name, Cap, NameOf
<1>2. name \in [Calls -> Names] /\ n \in Names /\ Cap \in Nat
  BY <1>0, SetupFacts DEF NameOf
<1>3. \A d \in Conns \ {c} :
        /\ Owner(d)' = Owner(d) /\ NameOf(d)' = NameOf(d) /\ conn'[d].call = conn[d].call
        /\ conn[d].at = "remember" => conn'[d] = conn[d]
  BY WakingCarries
<1>4. r \in Receipt
  <2>1. conn[c].lease \in Leases \cup {None} /\ Ttl \in 0..Ttl
    BY <1>0, BoundAssumption DEF Conn
  <2>2. QED
    BY <1>0, <1>2, <2>1 DEF Receipt
<1>5. /\ idem \in Seq(Receipt) /\ Len(idem) \in Nat /\ DOMAIN idem = 1..Len(idem)
      /\ idem' \in Seq(Receipt) /\ Len(idem') = Len(idem) + 1 /\ DOMAIN idem' = 1..Len(idem')
      /\ \A i \in DOMAIN idem : idem'[i] = idem[i]
      /\ idem'[Len(idem')] = r
  BY <1>1, <1>4, AppendProperties DEF ReceiptType
<1>6. \A i \in DOMAIN idem' : i \in DOMAIN idem \/ i = Len(idem')
  BY <1>5
<1>7. ReceiptType'
  BY <1>1, <1>2, <1>5 DEF ReceiptType
<1>8. LeasesKnown'
  <2>1. r.lease # None => lease[r.lease].call = r.call
    BY <1>0 DEF Carried
  <2>2. r.name = name[r.call]
    BY DEF NameOf
  <2>3. QED
    BY <1>1, <1>5, <1>6, <2>1, <2>2 DEF LeasesKnown
<1>9. OneOwner'
  <2>1. \A d \in Conns : Owner(d)' => d # c /\ Owner(d) /\ NameOf(d) # n /\ NameOf(d) \in Names
    <3>1. \A d \in Conns : Owner(d) => conn[d].call \in Calls
      BY DEF Carried, Owner
    <3>2. QED
      BY <1>0, <1>2, <1>3, <3>1 DEF OneOwner, NameOf
  <2>2. QED
    BY <1>1, <1>2, <1>3, <2>1 DEF OneOwner, ReceiptType
<1>10. OneReceipt'
  <2>1. \A i \in DOMAIN idem : idem[i].name # n
    BY <1>0 DEF OneReceipt
  <2>2. \A d \in Conns : Owner(d)' => d # c /\ Owner(d) /\ NameOf(d)' = NameOf(d) /\ NameOf(d) # n
    BY <1>0, <1>3 DEF OneOwner
  <2>3. QED
    BY <1>5, <1>6, <2>1, <2>2 DEF OneReceipt
<1>11. ReceiptsFit'
  <2>1. Computing' = Computing \ {n} /\ n \in Computing
    BY <1>0, <1>1, <1>2, NoneAssumption DEF Computing, ReceiptType
  <2>2. Cardinality(Computing') = Cardinality(Computing) - 1
    BY <2>1, ComputingFinite, FS_RemoveElement
  <2>3. QED
    BY <1>1, <1>2, <1>5, <2>2, ComputingFinite DEF ReceiptsFit
<1>12. ReceiptsSorted'
  <2>1. \A i \in DOMAIN idem : idem[i].left \in 0..Ttl
    <3>1. \A i \in DOMAIN idem : idem[i] \in Receipt
      BY <1>5
    <3>2. QED
      BY <3>1 DEF Receipt
  <2>2. QED
    BY <1>5, <1>6, <2>1, BoundAssumption DEF ReceiptsSorted
<1>13. Covered'
  <2> SUFFICES ASSUME NEW l \in Leases, Unrenewed(l)
               PROVE  (Receipted(l) \/ BeingRemembered(l))'
    BY <1>1 DEF Covered, Unrenewed
  <2>1. CASE Receipted(l)
    <3>1. PICK i \in DOMAIN idem : /\ idem[i].name = name[lease[l].call] /\ idem[i].lease = l
                                   /\ idem[i].left >= lease[l].left
      BY <2>1 DEF Receipted
    <3>2. i \in DOMAIN idem' /\ idem'[i] = idem[i]
      BY <1>5
    <3>3. QED
      BY <1>1, <3>1, <3>2 DEF Receipted
  <2>2. CASE conn[c].lease = l /\ conn[c].call = lease[l].call
    <3>1. lease[l].left <= Ttl
      BY DEF ReceiptType, Lease
    <3>2. Len(idem') \in DOMAIN idem' /\ r.name = name[lease[l].call] /\ r.left >= lease[l].left
      BY <1>5, <2>2, <3>1, BoundAssumption DEF NameOf, ReceiptType, Lease
    <3>3. QED
      BY <1>1, <1>5, <2>2, <3>2 DEF Receipted
  <2>3. CASE \E d \in Conns \ {c} : conn[d].at = "remember" /\ conn[d].lease = l
                                    /\ conn[d].call = lease[l].call
    BY <1>1, <1>3, <2>3 DEF BeingRemembered
  <2>4. QED
    BY <2>1, <2>2, <2>3 DEF Covered, BeingRemembered
<1>14. QED
  BY <1>0, <1>7, <1>8, <1>9, <1>10, <1>11, <1>12, <1>13

LEMMA ForgetReceipts ==
  ASSUME ServerInv, NEW c \in Conns, Forget(c)
  PROVE  ReceiptInv'
<1> USE DEF ServerInv, ReceiptInv
<1> DEFINE n == NameOf(c)
<1>0. /\ conn \in [Conns -> Conn] /\ setup \in Setups /\ conn[c].call \in Calls
      /\ conn[c].at = "forget" /\ Owner(c) /\ ~Owner(c)' /\ Carried' /\ pending[n] = conn[c].call
  BY WakingCarries DEF PermitInv, ServerType, Forget
<1>1. /\ UNCHANGED <<setup, idem, lease, told>> /\ name' = name /\ Cap' = Cap
      /\ pending' = [pending EXCEPT ![n] = None]
  BY DEF Forget, web, disk, name, Cap, NameOf
<1>2. name \in [Calls -> Names] /\ n \in Names /\ Cap \in Nat
  BY <1>0, SetupFacts DEF NameOf
<1>3. \A d \in Conns \ {c} :
        /\ Owner(d)' = Owner(d) /\ NameOf(d)' = NameOf(d) /\ conn'[d].call = conn[d].call
        /\ conn[d].at = "remember" => conn'[d] = conn[d]
  BY WakingCarries
<1>4. ReceiptType' /\ LeasesKnown' /\ ReceiptsSorted'
  BY <1>1, <1>2 DEF ReceiptType, LeasesKnown, ReceiptsSorted
<1>5. \A d \in Conns : Owner(d)' => /\ d # c /\ Owner(d) /\ NameOf(d)' = NameOf(d)
                                    /\ NameOf(d) # n /\ NameOf(d) \in Names
  <2>1. \A d \in Conns : Owner(d) => conn[d].call \in Calls
    BY DEF Carried, Owner
  <2>2. QED
    BY <1>0, <1>2, <1>3, <2>1 DEF OneOwner, NameOf
<1>6. OneOwner' /\ OneReceipt'
  BY <1>1, <1>2, <1>3, <1>5 DEF OneOwner, OneReceipt, ReceiptType
<1>7. ReceiptsFit'
  <2>1. Computing' = Computing \ {n} /\ n \in Computing
    BY <1>0, <1>1, <1>2, NoneAssumption DEF Computing, ReceiptType
  <2>2. Cardinality(Computing') = Cardinality(Computing) - 1
    BY <2>1, ComputingFinite, FS_RemoveElement
  <2>3. QED
    BY <1>1, <1>2, <2>2, ComputingFinite DEF ReceiptsFit, ReceiptType
<1>8. Covered'
  BY <1>0, <1>1, <1>3 DEF Covered, Unrenewed, Receipted, BeingRemembered
<1>9. QED
  BY <1>0, <1>4, <1>6, <1>7, <1>8

LEMMA ServeReceipts ==
  ASSUME ServerInv, NEW c \in Conns, Serve(c)
  PROVE  ReceiptInv'
<1> USE DEF ServerInv, ReceiptInv
<1> DEFINE k == conn[c].lease
<1>0. /\ conn \in [Conns -> Conn] /\ Carried /\ lease \in [Leases -> Lease]
      /\ conn[c].at = "serve" /\ ~Owner(c) /\ k \in Leases /\ Ttl \in 0..Ttl
  BY BoundAssumption DEF PermitInv, ServerType, ReceiptType, Carried, Serve, Owner
<1>1. UNCHANGED <<setup, idem, pending>> /\ name' = name /\ Cap' = Cap
  BY DEF Serve, web, rpc, name, Cap
<1>2. /\ \A d \in Conns \ {c} : conn'[d] = conn[d]
      /\ conn'[c].at = "answer" /\ conn'[c].call = conn[c].call /\ conn'[c].lease = None
      /\ ~Owner(c)'
  BY <1>0, YieldingFields DEF Serve, Owner
<1>3. /\ lease' \in [Leases -> Lease]
      /\ \A l \in Leases :
           /\ lease'[l].call = lease[l].call
           /\ lease'[l].left > 0 => lease[l].left > 0
           /\ Unrenewed(l)' => Unrenewed(l) /\ lease'[l] = lease[l]
  <2>1. CASE lease' = lease
    BY <1>0, <2>1 DEF Unrenewed
  <2>2. CASE lease' = [lease EXCEPT ![k].left = 0]
    <3>1. [lease[k] EXCEPT !.left = 0] \in Lease
      BY <1>0, BoundAssumption DEF Lease
    <3>2. /\ lease'[k].call = lease[k].call /\ lease'[k].left = 0
          /\ \A l \in Leases \ {k} : lease'[l] = lease[l]
      BY <1>0, <2>2 DEF Lease
    <3>3. QED
      BY <1>0, <2>2, <3>1, <3>2 DEF Unrenewed
  <2>3. CASE Usable(k) /\ lease' = [lease EXCEPT ![k] = [lease[k] EXCEPT !.left = Ttl, !.renewed = TRUE]]
    <3>1. [lease[k] EXCEPT !.left = Ttl, !.renewed = TRUE] \in Lease
      BY <1>0 DEF Lease
    <3>2. /\ lease'[k].call = lease[k].call /\ lease'[k].renewed /\ lease[k].left > 0
          /\ \A l \in Leases \ {k} : lease'[l] = lease[l]
      BY <1>0, <2>3 DEF Lease, Usable
    <3>3. QED
      BY <1>0, <2>3, <3>1, <3>2 DEF Unrenewed
  <2>4. QED
    BY <2>1, <2>2, <2>3 DEF Serve, Ending
<1>4. told' \in [Calls -> SUBSET Leases] /\ \A x \in Calls : told'[x] \subseteq told[x]
  BY DEF Serve, Ending, ReceiptType
<1>5. Carried'
  <2>1. \A d \in Conns : conn[d].lease \in Leases \cup {None}
    BY <1>0 DEF Conn
  <2>2. conn[c].call \in Calls
    BY <1>0 DEF Carried
  <2>3. QED
    BY <1>0, <1>2, <1>3, <2>1, <2>2 DEF Carried
<1>6. LeasesKnown'
  <2>1. \A i \in DOMAIN idem : idem[i] \in Receipt
    BY DEF ReceiptType
  <2>2. \A i \in DOMAIN idem : idem[i].lease \in Leases \cup {None}
    BY <2>1 DEF Receipt
  <2>3. \A x \in Calls : told[x] \subseteq Leases
    BY DEF ReceiptType
  <2>4. QED
    BY <1>1, <1>3, <1>4, <2>2, <2>3 DEF LeasesKnown
<1>7. ReceiptType' /\ ReceiptsSorted' /\ ReceiptsFit'
  BY <1>1, <1>3, <1>4 DEF ReceiptType, ReceiptsSorted, ReceiptsFit, Computing
<1>8. OneOwner' /\ OneReceipt'
  BY <1>0, <1>1, <1>2 DEF OneOwner, OneReceipt, Owner, NameOf
<1>9. Covered'
  BY <1>0, <1>1, <1>2, <1>3 DEF Covered, Unrenewed, Receipted, BeingRemembered
<1>10. QED
  BY <1>5, <1>6, <1>7, <1>8, <1>9

LEMMA AnswerReceipts ==
  ASSUME ServerInv, NEW c \in Conns, Answer(c)
  PROVE  ReceiptInv'
<1> USE DEF ServerInv, ReceiptInv
<1> DEFINE x == conn[c].call
<1>0. /\ conn \in [Conns -> Conn] /\ Carried /\ told \in [Calls -> SUBSET Leases]
      /\ conn[c].at \in {"answer", "replay"} /\ ~Owner(c) /\ x \in Calls
      /\ conn[c].lease \in Leases \cup {None}
  BY DEF PermitInv, ServerType, ReceiptType, Carried, Answer, Owner, Conn
<1>1. UNCHANGED <<setup, idem, pending, lease>> /\ name' = name /\ Cap' = Cap
  BY DEF Answer, web, rpc, disk, name, Cap
<1>2. /\ \A d \in Conns \ {c} : conn'[d] = conn[d]
      /\ conn'[c].at \in {"free", "idle"}
  <2>1. CASE Leave(c)
    BY <1>0, <2>1, LeaveFields
  <2>2. CASE conn' = [conn EXCEPT ![c] = [Free EXCEPT !.at = "idle"]]
    BY <1>0, <2>2 DEF Free
  <2>3. QED
    BY <2>1, <2>2 DEF Answer
<1>3. Carried' /\ ~Owner(c)'
  BY <1>0, <1>1, <1>2 DEF Carried, Owner
<1>4. told' \in [Calls -> SUBSET Leases] /\ \A y \in Calls : \A l \in told'[y] : lease[l].call = y
  <2>1. CASE told' = told
    BY <1>0, <2>1 DEF LeasesKnown
  <2>2. CASE \E S \in SUBSET ({conn[c].lease} \ {None}) : told' = [told EXCEPT ![x] = @ \cup S]
    <3>1. PICK S \in SUBSET ({conn[c].lease} \ {None}) : told' = [told EXCEPT ![x] = @ \cup S]
      BY <2>2
    <3>2. S \subseteq Leases /\ \A l \in S : lease[l].call = x
      BY <1>0, <3>1 DEF Carried
    <3>3. QED
      BY <1>0, <3>1, <3>2 DEF LeasesKnown
  <2>3. QED
    <3> DEFINE l == IF conn[c].at = "replay" /\ conn[c].lease # None /\ ~Usable(conn[c].lease)
                    THEN None ELSE conn[c].lease
               S == {k \in {l} \ {None} : lease[k].left > 0}
    <3>1. S \subseteq {conn[c].lease} \ {None}
      OBVIOUS
    <3>2. told' = told \/ told' = [told EXCEPT ![x] = @ \cup S]
      BY DEF Answer
    <3> HIDE DEF S
    <3>3. QED
      BY <2>1, <2>2, <3>1, <3>2
<1>5. ReceiptType' /\ LeasesKnown' /\ ReceiptsSorted' /\ ReceiptsFit'
  BY <1>1, <1>4 DEF ReceiptType, LeasesKnown, ReceiptsSorted, ReceiptsFit, Computing
<1>6. OneOwner' /\ OneReceipt'
  BY <1>0, <1>1, <1>2, <1>3 DEF OneOwner, OneReceipt, Owner, NameOf
<1>7. Covered'
  BY <1>0, <1>1, <1>2, <1>3 DEF Covered, Unrenewed, Receipted, BeingRemembered
<1>8. QED
  BY <1>3, <1>5, <1>6, <1>7

(* Time: all that is left shrinks together.                                *)
LEMMA LessMonotone ==
  \A m, n \in Nat : /\ Less(n) \in Nat /\ (m <= n => Less(m) <= Less(n))
                    /\ Less(n) > 0 => n > 0
BY DEF Less

LEMMA TickReceipts ==
  ASSUME ServerInv, Tick
  PROVE  ReceiptInv'
<1> USE DEF ServerInv, ReceiptInv
<1>0. /\ conn \in [Conns -> Conn] /\ Carried /\ lease \in [Leases -> Lease]
      /\ idem \in Seq(Receipt) /\ DOMAIN idem = 1..Len(idem) /\ Len(idem) \in Nat
      /\ Ttl \in Nat /\ Patience \in Nat
  BY BoundAssumption DEF PermitInv, ServerType, ReceiptType
<1>1. UNCHANGED <<setup, pending>> /\ name' = name /\ Cap' = Cap
  BY DEF Tick, web, name, Cap
<1>2. \A d \in Conns : /\ conn'[d].at = conn[d].at /\ conn'[d].op = conn[d].op
                       /\ conn'[d].call = conn[d].call /\ conn'[d].lease = conn[d].lease
  <2>1. \A d \in Conns : conn'[d] = [conn[d] EXCEPT !.left = Less(@)]
    BY DEF Tick
  <2>2. QED
    BY <1>0, <2>1 DEF Conn
<1>3. \A l \in Leases : /\ lease'[l] \in Lease /\ lease'[l].call = lease[l].call
                        /\ lease'[l].left = Less(lease[l].left)
                        /\ lease'[l].renewed = lease[l].renewed /\ lease[l].left \in Nat
  <2> TAKE l \in Leases
  <2>1. lease'[l] = [lease[l] EXCEPT !.left = Less(@)]
    BY DEF Tick, Ending
  <2>2. lease[l] \in Lease /\ lease[l].left \in 0..Ttl
    BY <1>0 DEF Lease
  <2>3. Less(lease[l].left) \in 0..Ttl
    BY <1>0, <2>2, LessType
  <2>4. QED
    BY <1>0, <2>1, <2>2, <2>3 DEF Lease
<1>4. \A i \in DOMAIN idem :
        /\ idem'[i] \in Receipt /\ idem'[i].name = idem[i].name /\ idem'[i].call = idem[i].call
        /\ idem'[i].lease = idem[i].lease /\ idem'[i].left = Less(idem[i].left)
        /\ idem[i].left \in Nat /\ idem[i].lease \in Leases \cup {None}
  <2> TAKE i \in DOMAIN idem
  <2>1. idem'[i] = [idem[i] EXCEPT !.left = Less(@)]
    BY DEF Tick
  <2>2. idem[i] \in Receipt
    BY <1>0
  <2>3. idem[i].left \in 0..Ttl
    BY <2>2 DEF Receipt
  <2>4. Less(idem[i].left) \in 0..Ttl
    BY <1>0, <2>3, LessType
  <2>5. QED
    BY <1>0, <2>1, <2>2, <2>3, <2>4 DEF Receipt
<1>5. idem' \in Seq(Receipt) /\ DOMAIN idem' = DOMAIN idem /\ Len(idem') = Len(idem)
  <2>1. idem' = [i \in 1..Len(idem) |-> [idem[i] EXCEPT !.left = Less(@)]]
    BY <1>0 DEF Tick
  <2>2. \A i \in 1..Len(idem) : [idem[i] EXCEPT !.left = Less(@)] \in Receipt
    BY <1>0, <1>4 DEF Tick
  <2>3. /\ [i \in 1..Len(idem) |-> [idem[i] EXCEPT !.left = Less(@)]] \in Seq(Receipt)
        /\ Len([i \in 1..Len(idem) |-> [idem[i] EXCEPT !.left = Less(@)]]) = Len(idem)
    BY <1>0, <2>2
  <2>4. QED
    BY <1>0, <2>1, <2>3
<1>6. told' \in [Calls -> SUBSET Leases] /\ \A x \in Calls : told'[x] \subseteq told[x]
  BY DEF Tick, Ending, ReceiptType
<1>7. ReceiptType'
  <2>1. lease' \in [Leases -> Lease]
    BY <1>3 DEF Tick, Ending
  <2>2. QED
    BY <1>1, <1>5, <1>6, <2>1 DEF ReceiptType
<1>8. Carried'
  <2>1. \A d \in Conns : conn[d].lease \in Leases \cup {None}
    BY <1>0 DEF Conn
  <2>2. QED
    BY <1>0, <1>2, <1>3, <2>1 DEF Carried
<1>9. LeasesKnown'
  <2>1. \A x \in Calls : told[x] \subseteq Leases
    BY DEF ReceiptType
  <2>2. QED
    BY <1>1, <1>3, <1>4, <1>5, <1>6, <2>1, LessMonotone DEF LeasesKnown
<1>10. OneOwner' /\ OneReceipt'
  BY <1>1, <1>2, <1>4, <1>5 DEF OneOwner, OneReceipt, Owner, NameOf
<1>11. ReceiptsFit'
  BY <1>1, <1>5 DEF ReceiptsFit, Computing
<1>12. ReceiptsSorted'
  BY <1>4, <1>5, LessMonotone DEF ReceiptsSorted
<1>13. Covered'
  <2> SUFFICES ASSUME NEW l \in Leases, Unrenewed(l)' PROVE (Receipted(l) \/ BeingRemembered(l))'
    BY DEF Covered
  <2>1. Unrenewed(l)
    BY <1>3, LessMonotone DEF Unrenewed
  <2>2. CASE Receipted(l)
    BY <1>1, <1>3, <1>4, <1>5, <2>2, LessMonotone DEF Receipted
  <2>3. CASE BeingRemembered(l)
    BY <1>2, <1>3, <2>3 DEF BeingRemembered
  <2>4. QED
    BY <2>1, <2>2, <2>3 DEF Covered
<1>14. QED
  BY <1>7, <1>8, <1>9, <1>10, <1>11, <1>12, <1>13

-----------------------------------------------------------------------------
LEMMA ServerStep == ServerInv /\ [Next]_vars => ServerInv'
<1> SUFFICES ASSUME ServerInv, [Next]_vars PROVE ServerInv'
  OBVIOUS
<1>1. CASE UNCHANGED vars
  <2>1. UNCHANGED <<setup, conn, taking, permits, held, flag, acceptor, closing, store, idem, pending,
                    lease, told>>
    BY <1>1 DEF vars, web, rpc, disk
  <2>2. PermitInv'
    BY <2>1 DEF ServerInv, PermitInv, ServerType, PermitsBalance, NobodyNew, InUse, Served, bound
  <2>3. Carried'
    BY <2>1 DEF ServerInv, ReceiptInv, Carried
  <2>4. QED
    BY <2>1, <2>2, <2>3, ReceiptsUntouched DEF ServerInv, rpc
<1>2. CASE Next
  <2>1. PermitInv'
    BY <1>2, NextPermits DEF ServerInv, ReceiptInv
  <2>2. CASE Clients
    <3>1. PICK c \in Conns, x \in Calls :
            \/ Send(c, "reserve", x, None)
            \/ \E l \in Leases, op \in setup.uses : Send(c, op, x, l)
      BY <2>2 DEF Clients
    <3>2. setup.uses \subseteq {"release", "renew"}
      BY SetupFacts DEF ServerInv, PermitInv, ServerType
    <3>3. ReceiptInv'
      <4>1. CASE Send(c, "reserve", x, None)
        <5>1. "reserve" \in {"reserve", "release", "renew"} /\ None \in Leases \cup {None}
          OBVIOUS
        <5>2. IF "reserve" = "reserve" THEN None = None ELSE None \in Leases
          OBVIOUS
        <5>3. QED
          BY <4>1, <5>1, <5>2, SendReceipts, Zenon
      <4>2. CASE \E l \in Leases, op \in setup.uses : Send(c, op, x, l)
        <5>1. PICK l \in Leases, op \in {"release", "renew"} : Send(c, op, x, l)
          BY <3>2, <4>2
        <5>2. op \in {"reserve", "release", "renew"} /\ op # "reserve" /\ l \in Leases \cup {None}
          OBVIOUS
        <5>3. QED
          BY <5>1, <5>2, SendReceipts, Zenon
      <4>3. QED
        BY <3>1, <4>1, <4>2
    <3>4. QED
      BY <2>1, <3>3 DEF ServerInv
  <2>3. CASE \E c \in Conns : Handler(c)
    <3>1. PICK c \in Conns : Handler(c)
      BY <2>3
    <3>2. ReceiptInv'
      BY <3>1, QuietHandlers, LookupReceipts, ReserveReceipts, RememberReceipts, ForgetReceipts,
         ServeReceipts, AnswerReceipts DEF Handler
    <3>3. QED
      BY <2>1, <3>2 DEF ServerInv
  <2>4. CASE Closer \/ StoreFails \/ \E c \in Conns : Accept(c) \/ StartThread(c)
    BY <2>1, <2>4, OthersReceipts DEF ServerInv
  <2>5. CASE Tick
    BY <2>1, <2>5, TickReceipts DEF ServerInv
  <2>6. QED
    BY <1>2, <2>2, <2>3, <2>4, <2>5 DEF Next
<1>3. QED
  BY <1>1, <1>2

(* The inductive invariant: the permits of the handler threads, those that *)
(* a drain holds and the free ones are always all of them, and a request   *)
(* id has one handler that computes for it or one receipt, never both.     *)
THEOREM ServerSafe == Spec => []ServerInv
<1>1. Init => ServerInv
  BY InitSafe
<1>2. ServerInv /\ [Next]_vars => ServerInv'
  BY ServerStep
<1>3. QED
  BY <1>1, <1>2, PTL DEF Spec

(* Every value of MetadataServer.TypeOK has its type, and no permit of a   *)
(* handler thread is lost or made (process_request(), shutdown()).         *)
THEOREM ServerTypeCorrect == Spec => []TypeOK
<1>1. ServerInv => TypeOK
  <2> SUFFICES ASSUME ServerInv PROVE TypeOK
    OBVIOUS
  <2> USE DEF ServerInv, PermitInv, ReceiptInv
  <2>1. /\ permits \in 0..bound /\ held \in 0..bound
        /\ permits + held + Cardinality({c \in Conns : Served(c)}) = bound
    BY InUseFinite, SetupFacts DEF PermitsBalance, ServerType, InUse
  <2>2. /\ setup \in Setups /\ taking \in Conns \cup {None}
        /\ flag \in BOOLEAN /\ acceptor \in BOOLEAN
        /\ closing \in {"none", "stop", "drain", "store", "done"}
        /\ store \in {"open", "failed", "closed"}
    BY DEF ServerType
  <2>3. conn \in [Conns -> Conn]
    BY DEF ServerType
  <2>4. /\ idem \in Seq(Receipt) /\ pending \in [Names -> Calls \cup {None}]
        /\ lease \in [Leases -> Lease] /\ told \in [Calls -> SUBSET Leases]
    BY DEF ReceiptType
  <2>5. QED
    BY <2>1, <2>2, <2>3, <2>4 DEF TypeOK, Conn, Places, Receipt, Lease
<1>2. QED
  BY <1>1, ServerSafe, PTL

(* A retry of a reservation, on another connection and while the first     *)
(* attempt still runs, is never a second live lease, and no answer names   *)
(* the lease of another call (_idempotent()).                              *)
THEOREM OneLeasePerRequest == Spec => []OneLease
<1>1. ServerInv => OneLease
  <2> SUFFICES ASSUME ServerInv PROVE OneLease
    OBVIOUS
  <2> USE DEF ServerInv, ReceiptInv
  <2>1. ASSUME NEW l \in Leases, NEW m \in Leases, Unrenewed(l), Unrenewed(m),
               name[lease[l].call] = name[lease[m].call]
        PROVE  l = m
    <3>1. (Receipted(l) \/ BeingRemembered(l)) /\ (Receipted(m) \/ BeingRemembered(m))
      BY <2>1 DEF Covered
    <3>2. CASE Receipted(l) /\ Receipted(m)
      BY <2>1, <3>2 DEF Receipted, OneReceipt
    <3>3. CASE BeingRemembered(l) /\ BeingRemembered(m)
      BY <2>1, <3>3 DEF BeingRemembered, OneOwner, Owner, NameOf
    <3>4. CASE Receipted(l) /\ BeingRemembered(m)
      BY <2>1, <3>4 DEF Receipted, BeingRemembered, OneReceipt, Owner, NameOf
    <3>5. CASE BeingRemembered(l) /\ Receipted(m)
      BY <2>1, <3>5 DEF Receipted, BeingRemembered, OneReceipt, Owner, NameOf
    <3>6. QED
      BY <3>1, <3>2, <3>3, <3>4, <3>5
  <2>2. \A l \in Leases : lease[l].renewed \in BOOLEAN
    BY DEF ReceiptType, Lease
  <2>3. QED
    BY <2>1, <2>2 DEF OneLease, Unrenewed, LeasesKnown
<1>2. QED
  BY <1>1, ServerSafe, PTL

(* The receipt of a lease that may be retried is never evicted, receipts   *)
(* and computing calls never exceed idem_entries, and the oldest receipt   *)
(* is the first to expire, as popitem(last=False) relies on.               *)
THEOREM LiveReceiptsStay == Spec => []ReceiptsKept
<1>1. ServerInv => ReceiptsKept
  <2> SUFFICES ASSUME ServerInv PROVE ReceiptsKept
    OBVIOUS
  <2> USE DEF ServerInv, ReceiptInv
  <2>1. ASSUME NEW l \in Leases, Unrenewed(l)
        PROVE  LET n == name[lease[l].call] IN
                 pending[n] # None \/ \E i \in Named(n) : idem[i].lease = l /\ idem[i].left >= lease[l].left
    <3>1. CASE Receipted(l)
      BY <3>1 DEF Receipted, Named
    <3>2. CASE BeingRemembered(l)
      <4>1. PICK c \in Conns : conn[c].at = "remember" /\ conn[c].call = lease[l].call
        BY <3>2 DEF BeingRemembered
      <4>2. pending[NameOf(c)] = conn[c].call /\ conn[c].call \in Calls
        BY <4>1 DEF OneOwner, Owner, Carried
      <4>3. QED
        BY <4>1, <4>2, NoneAssumption DEF NameOf
    <3>3. QED
      BY <2>1, <3>1, <3>2 DEF Covered
  <2>2. QED
    BY <2>1 DEF ReceiptsKept, Unrenewed, ReceiptsFit, ReceiptsSorted
<1>2. QED
  BY <1>1, ServerSafe, PTL

(* The store is closed only after the last handler thread has given its    *)
(* permit back, and none is started afterwards (HTTPProvider.shutdown()).  *)
THEOREM NoHandlerAfterClose == Spec => []ClosedQuiet
<1>1. ServerInv => ClosedQuiet
  BY DEF ServerInv, PermitInv, NobodyNew, ClosedQuiet
<1>2. QED
  BY <1>1, ServerSafe, PTL
=============================================================================
