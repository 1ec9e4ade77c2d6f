--------------------------- MODULE MergeQueueProofs ---------------------------
(***************************************************************************)
(* The merge slot, the queue and what becomes of a merge, for every number *)
(* of tasks, dispatchers, generations, requests, crashes and faults.       *)
(***************************************************************************)
EXTENDS MergeQueue, TLAPS, FiniteSetTheorems, WellFoundedInduction

----------------------------------------------------------------------------
(* The types, one part per variable or group of variables *)

OrderPcs == {"auto", "lock", "refuse", "banner"} \cup Locked
Order == [pc: OrderPcs, role: {"click", "queue", "auto"}, task: Tasks, seq: Seqs,
          scanned: Seqs, opt: Intents \cup {"auto"}, claim: Claims, kept: 0..MaxAsks,
          snap: SUBSET Scanned, next: {"idle", "queue"}]
Walk == [pc: {"queue", "autos"}, snap: SUBSET Scanned]
LoopState == {[pc |-> "idle"]} \cup [pc: {"turn"}, task: Tasks, seq: Seqs]
               \cup [pc: {"settle"}, task: Tasks, seq: Seqs, pre: 0..MaxHead]
RecoveryState == [pc: {"idle", "listed", "free", "lock", "forge"},
                  seq: 0..MaxSeq, pre: 0..MaxHead]
DeliveryState == [pc: {"none", "checks", "begin", "push", "settle", "bounce"},
                  seq: 0..MaxSeq]

RowType == row \in [Tasks -> Row]
GitType == base \in SUBSET Tasks /\ head \in 0..MaxHead /\ pushed \in SUBSET Tasks
DspType == dsp \in [Dispatchers -> Dispatcher]
LaunchType == launch \in [Tasks -> Launch]
AgentType == agent \in [Tasks -> [Seqs -> Phases]]
WireType == index \in SUBSET (Tasks \X Seqs) /\ turns \in SUBSET (Tasks \X Seqs)
FlightType == inflight \in [Tasks -> {"no", "dispatch", "launch", "delivery"}]
LoopType == loop \in LoopState
RecoveryType == recovery \in [Tasks -> RecoveryState]
DeliveryType == delivery \in [Tasks -> DeliveryState]
QueueType == /\ clock \in 0..MaxAsks /\ wish \in [Tasks -> Intents \cup {"none"}]
             /\ latched \in SUBSET Tasks
CountType == crashes \in 0..MaxCrashes /\ faults \in 0..MaxFaults /\ asks \in 0..MaxAsks

Types == /\ RowType /\ GitType /\ DspType /\ LaunchType /\ AgentType /\ WireType
         /\ FlightType /\ LoopType /\ RecoveryType /\ DeliveryType /\ QueueType /\ CountType

----------------------------------------------------------------------------
(* What the types rest on *)

\* What its role says of a dispatcher's order.
IsSound(o) ==
  o.pc \in OrderPcs =>
    /\ o.role = "queue" => o.claim \in Queued /\ o.opt = o.claim.opt
    /\ o.role = "auto" => o.opt = "auto" /\ o.pc \notin {"park", "refuse"}
    /\ o.role = "click" => o.opt \in Intents /\ o.pc \notin {"auto", "refuse", "banner"}
    /\ o.pc = "auto" => o.role = "auto"

\* What an order begins can be ended, within the bound on the generations.
HasRoom(o) == o.pc \in {"lock"} \cup Locked /\ o.role # "queue" => o.seq < MaxSeq

\* The places that a dispatcher knows of have been given.
IsPlaced(o, last) ==
  /\ o.pc \in OrderPcs => o.kept <= last /\ o.claim.at <= last
  /\ o.pc \in {"queue", "autos"} \cup OrderPcs => \A e \in o.snap : e.claim.at <= last

\* A drain serves its scan in order.
IsInOrder(o) == o.pc \in OrderPcs /\ o.role = "queue"
                  => \A e \in o.snap : o.claim.at <= e.claim.at

Orderly(o, last) == o \in Dispatcher /\ IsSound(o) /\ HasRoom(o) /\ IsPlaced(o, last)
                    /\ IsInOrder(o)
DspInv == DspType /\ \A d \in Dispatchers : Orderly(dsp[d], clock)

\* A click that has not been given its place yet: each has its ask.
IsFresh(o) == o.pc \in {"lock"} \cup Locked /\ o.role = "click" /\ o.kept = 0
Fresh == {d \in Dispatchers : IsFresh(dsp[d])}
ClickInv == IsFiniteSet(Fresh) /\ clock + Cardinality(Fresh) <= asks

\* A parked merge has a place that was given, and room for its generation.
ParkedInv == \A t \in Tasks : /\ row[t].pending.at <= clock
                              /\ Parked(t) => row[t].seq < MaxSeq

\* A delivery has room for its generation, and one to bring the task back.
DeliveryRoom == \A t \in Tasks : delivery[t].pc \in {"checks", "begin"}
                                   => delivery[t].seq + 2 <= MaxSeq

\* A launch that has its agent has its generation.
LaunchSeq == \A t \in Tasks : launch[t].pc \in {"spawn", "bind", "mark", "prompt"}
                                => launch[t].seq \in Seqs

TypeInv == Types /\ DspInv /\ ClickInv /\ ParkedInv /\ DeliveryRoom /\ LaunchSeq

\* The type invariant is the one that the runs check.
LEMMA TypesAreTypeOK == Types => TypeOK
BY DEF Types, TypeOK, RowType, GitType, DspType, LaunchType, AgentType, WireType,
       FlightType, LoopType, RecoveryType, DeliveryType, QueueType, CountType, LoopState,
       RecoveryState, DeliveryState

\* A dispatcher is idle, walks the queue or has an order.
LEMMA DispatcherIs == Dispatcher = {[pc |-> "idle"]} \cup Walk \cup Order
BY DEF Dispatcher, Walk, Order, OrderPcs

\* What the assumptions say, in one place.
LEMMA Bounds ==
  /\ MaxSeq \in Nat /\ MaxSeq >= 1 /\ MaxAsks \in Nat /\ MaxHead \in Nat
  /\ MaxCrashes \in Nat /\ MaxFaults \in Nat
  /\ Seqs = 1..MaxSeq /\ "none" \notin Intents /\ "auto" \notin Intents
BY BoundAssumption, IntentAssumption DEF Seqs

\* The places given at the start are as many as the merges that wait.
LEMMA WaitingPlaces == /\ Cardinality(Waiting) \in 0..MaxAsks
                       /\ Cardinality(Waiting) = 0 => Waiting = {}
BY WaitingAssumption, BoundAssumption, FS_CardinalityType, FS_EmptySet

\* The types hold of a column of reviewed tasks.
LEMMA TypesInit == Init => Types
<1> SUFFICES ASSUME Init PROVE Types OBVIOUS
<1> USE Bounds DEF Init
<1>1. RowType /\ QueueType
  <2> PICK place \in [Waiting -> 1..clock], opt \in [Waiting -> Intents] :
        /\ row = [t \in Tasks |->
                    InitRow(IF t \in Waiting THEN [opt |-> opt[t], at |-> place[t]]
                            ELSE NoIntent)]
        /\ wish = [t \in Tasks |-> IF t \in Waiting THEN opt[t] ELSE "none"]
    BY ZenonT(60)
  <2>1. clock \in 0..MaxAsks BY WaitingPlaces
  <2>2. \A t \in Waiting : [opt |-> opt[t], at |-> place[t]] \in Claims
    BY <2>1 DEF Claims, Queued
  <2>3. \A t \in Tasks : row[t] \in Row
    BY <2>2 DEF Row, InitRow, Claims
  <2> QED BY <2>1, <2>3 DEF RowType, QueueType
<1>2. DspType BY DEF DspType, Dispatcher
<1>3. LaunchType BY DEF LaunchType, Launch, LaunchPcs
<1>4. AgentType BY DEF AgentType, Phases
<1>5. GitType /\ WireType /\ FlightType /\ LoopType
  BY DEF GitType, WireType, FlightType, LoopType, LoopState
<1>6. RecoveryType BY DEF RecoveryType, RecoveryState, NoRecovery
<1>7. DeliveryType BY DEF DeliveryType, DeliveryState
<1>8. CountType BY WaitingPlaces DEF CountType
<1> QED BY <1>1, <1>2, <1>3, <1>4, <1>5, <1>6, <1>7, <1>8 DEF Types

\* So does what they rest on.
LEMMA TypeInit == Init => TypeInv
<1> SUFFICES ASSUME Init PROVE TypeInv OBVIOUS
<1> USE Bounds DEF Init
<1>1. DspInv
  BY TypesInit DEF Types, DspInv, Orderly, IsSound, HasRoom, IsPlaced, IsInOrder, OrderPcs,
                   Locked, Dispatcher
<1>2. PICK place \in [Waiting -> 1..clock], opt \in [Waiting -> Intents] :
        row = [t \in Tasks |->
                 InitRow(IF t \in Waiting THEN [opt |-> opt[t], at |-> place[t]]
                         ELSE NoIntent)]
  BY ZenonT(60)
<1>3. clock \in 0..MaxAsks BY WaitingPlaces
<1>4. ParkedInv
  BY <1>2, <1>3, WaitingAssumption DEF ParkedInv, InitRow, Parked, NoIntent
<1>5. Fresh = {} BY DEF Fresh, IsFresh, Locked
<1>6. ClickInv BY <1>3, <1>5, FS_EmptySet DEF ClickInv
<1>7. DeliveryRoom /\ LaunchSeq BY DEF DeliveryRoom, LaunchSeq
<1> QED BY <1>1, <1>4, <1>6, <1>7, TypesInit DEF TypeInv

\* Each part of the invariant depends on its own variables.
LEMMA Frame ==
  ASSUME TypeInv
  PROVE  /\ UNCHANGED row => RowType'
         /\ UNCHANGED git => GitType'
         /\ UNCHANGED <<dsp, clock>> => DspInv'
         /\ UNCHANGED launch => LaunchType' /\ LaunchSeq'
         /\ UNCHANGED agent => AgentType'
         /\ UNCHANGED <<index, turns>> => WireType'
         /\ UNCHANGED inflight => FlightType'
         /\ UNCHANGED loop => LoopType'
         /\ UNCHANGED recovery => RecoveryType'
         /\ UNCHANGED delivery => DeliveryType' /\ DeliveryRoom'
         /\ UNCHANGED <<clock, wish, latched>> => QueueType'
         /\ UNCHANGED bounds => CountType'
         /\ UNCHANGED <<dsp, clock, asks>> => ClickInv'
         /\ UNCHANGED <<row, clock>> => ParkedInv'
<1>1. /\ UNCHANGED row => RowType'
      /\ UNCHANGED git => GitType'
      /\ UNCHANGED launch => LaunchType' /\ LaunchSeq'
      /\ UNCHANGED agent => AgentType'
      /\ UNCHANGED <<index, turns>> => WireType'
      /\ UNCHANGED inflight => FlightType'
  BY DEF TypeInv, Types, RowType, git, GitType, LaunchType, LaunchSeq, AgentType, WireType,
         FlightType
<1>2. /\ UNCHANGED loop => LoopType'
      /\ UNCHANGED recovery => RecoveryType'
      /\ UNCHANGED delivery => DeliveryType' /\ DeliveryRoom'
      /\ UNCHANGED <<clock, wish, latched>> => QueueType'
      /\ UNCHANGED bounds => CountType'
  BY DEF TypeInv, Types, LoopType, RecoveryType, DeliveryType, DeliveryRoom, QueueType,
         bounds, CountType
<1>3. UNCHANGED <<dsp, clock>> => DspInv'
  BY DEF TypeInv, DspInv, DspType
<1>4. UNCHANGED <<dsp, clock, asks>> => ClickInv'
  BY DEF TypeInv, ClickInv, Fresh
<1>5. UNCHANGED <<row, clock>> => ParkedInv'
  BY DEF TypeInv, ParkedInv, Parked
<1> QED BY <1>1, <1>2, <1>3, <1>4, <1>5

\* The parts make the invariant.
LEMMA Parts ==
  ASSUME RowType', GitType', DspInv', LaunchType', AgentType', WireType', FlightType',
         LoopType', RecoveryType', DeliveryType', QueueType', CountType', ClickInv',
         ParkedInv', DeliveryRoom', LaunchSeq'
  PROVE  TypeInv'
BY DEF TypeInv, Types, DspInv

----------------------------------------------------------------------------
(* Dispatchers *)

\* An idle dispatcher has nothing to be disorderly about.
LEMMA IdleOrderly == ASSUME NEW last PROVE Orderly([pc |-> "idle"], last)
BY DEF Orderly, Dispatcher, IsSound, HasRoom, IsPlaced, IsInOrder, OrderPcs, Locked

\* Nor has one that has what was scanned.
LEMMA WalkOrderly ==
  ASSUME NEW last \in Nat, NEW snap \in SUBSET Scanned, \A e \in snap : e.claim.at <= last
  PROVE  Orderly([pc |-> "queue", snap |-> snap], last)
BY DEF Orderly, Dispatcher, IsSound, HasRoom, IsPlaced, IsInOrder, OrderPcs, Locked

\* An order stays what it is while its dispatcher moves on.
LEMMA MovedOrderly ==
  ASSUME NEW last, NEW o, Orderly(o, last), o.pc \in OrderPcs,
         NEW pc \in OrderPcs,
         pc = "auto" => o.role = "auto",
         o.role = "auto" => pc \notin {"park", "refuse"},
         o.role = "click" => pc \notin {"auto", "refuse", "banner"},
         o.pc \in {"lock"} \cup Locked \/ pc \in {"refuse", "banner"}
  PROVE  Orderly([o EXCEPT !.pc = pc], last)
<1>1. o \in Order BY DispatcherIs DEF Orderly, Walk, OrderPcs, Locked
<1> DEFINE p == [o EXCEPT !.pc = pc]
<1>2. /\ p \in Order /\ p.pc = pc /\ p.role = o.role /\ p.claim = o.claim /\ p.opt = o.opt
      /\ p.seq = o.seq /\ p.kept = o.kept /\ p.snap = o.snap
  BY <1>1 DEF Order
<1> HIDE DEF p
<1>3. IsSound(p) BY <1>2 DEF Orderly, IsSound
<1>4. HasRoom(p) BY <1>2 DEF Orderly, HasRoom, OrderPcs, Locked
<1>5. IsPlaced(p, last) BY <1>2 DEF Orderly, IsPlaced
<1>6. IsInOrder(p) BY <1>2 DEF Orderly, IsInOrder
<1>7. Orderly(p, last) BY <1>2, <1>3, <1>4, <1>5, <1>6, DispatcherIs DEF Orderly
<1> QED BY <1>7 DEF p

\* Places stay given.
LEMMA LaterOrderly ==
  ASSUME NEW last \in Nat, NEW later \in Nat, last <= later, NEW o, Orderly(o, last)
  PROVE  Orderly(o, later)
<1>1. o.pc \in OrderPcs => o.kept \in Nat /\ o.claim.at \in Nat
  BY DispatcherIs, Bounds DEF Orderly, Order, Walk, OrderPcs, Locked, Claims, Queued, NoIntent
<1>2. o.pc \in {"queue", "autos"} \cup OrderPcs => \A e \in o.snap : e.claim.at \in Nat
  BY DispatcherIs, Bounds DEF Orderly, Order, Walk, OrderPcs, Locked, Scanned, Queued
<1>3. IsPlaced(o, later)
  BY <1>1, <1>2 DEF Orderly, IsPlaced
<1> QED BY <1>3 DEF Orderly

\* One dispatcher moves.
LEMMA BecomeOrderly ==
  ASSUME DspInv, NEW d \in Dispatchers, NEW s, Become(d, s), Orderly(s, clock'),
         clock \in Nat, clock' \in Nat, clock <= clock'
  PROVE  DspInv'
<1>1. \A e \in Dispatchers : Orderly(dsp[e], clock')
  BY LaterOrderly DEF DspInv
<1>2. DspType'
  BY DEF DspInv, DspType, Become, Orderly
<1>3. \A e \in Dispatchers : Orderly(dsp'[e], clock')
  BY <1>1 DEF Become, DspInv, DspType
<1> QED BY <1>2, <1>3 DEF DspInv

\* It loses a click, or keeps what it had.
LEMMA FreshLess ==
  ASSUME ClickInv, DspInv, NEW d \in Dispatchers, NEW s, Become(d, s),
         IsFresh(s) => IsFresh(dsp[d]),
         UNCHANGED clock, clock \in Nat, asks \in Nat, asks' \in Nat, asks <= asks'
  PROVE  ClickInv'
<1>1. Fresh' \subseteq Fresh BY DEF Fresh, Become, DspInv, DspType
<1>2. /\ IsFiniteSet(Fresh') /\ Cardinality(Fresh') <= Cardinality(Fresh)
      /\ Cardinality(Fresh) \in Nat /\ Cardinality(Fresh') \in Nat
  BY <1>1, FS_Subset, FS_CardinalityType DEF ClickInv
<1> QED BY <1>2 DEF ClickInv

\* A dispatcher that moves while the places and the asks stay.
LEMMA BecomeType ==
  ASSUME TypeInv, NEW d \in Dispatchers, NEW s, Become(d, s), Orderly(s, clock),
         IsFresh(s) => IsFresh(dsp[d]), UNCHANGED <<clock, asks>>
  PROVE  DspInv' /\ ClickInv'
<1>1. clock \in Nat /\ asks \in Nat BY DEF TypeInv, Types, QueueType, CountType
<1> QED BY <1>1, BecomeOrderly, FreshLess DEF TypeInv

\* It rests.
LEMMA RestType ==
  ASSUME TypeInv, NEW d \in Dispatchers, Rest(d), UNCHANGED <<clock, asks>>
  PROVE  DspInv' /\ ClickInv'
<1>1. ~IsFresh([pc |-> "idle"]) BY DEF IsFresh, Locked
<1> QED BY <1>1, BecomeType, IdleOrderly DEF Rest

\* It goes on with its order.
LEMMA ResumeType ==
  ASSUME TypeInv, NEW d \in Dispatchers, NEW pc \in OrderPcs, Resume(d, pc),
         dsp[d].pc \in OrderPcs,
         pc = "auto" => dsp[d].role = "auto",
         dsp[d].role = "auto" => pc \notin {"park", "refuse"},
         dsp[d].role = "click" => pc \notin {"auto", "refuse", "banner"},
         dsp[d].pc \in {"lock"} \cup Locked \/ pc \in {"refuse", "banner"},
         UNCHANGED <<clock, asks>>
  PROVE  DspInv' /\ ClickInv'
<1> DEFINE s == [dsp[d] EXCEPT !.pc = pc]
<1>1. Orderly(dsp[d], clock) BY DEF TypeInv, DspInv
<1>2. Orderly(s, clock) BY <1>1, MovedOrderly
<1>3. dsp[d] \in Order BY <1>1, DispatcherIs DEF Orderly, Walk, OrderPcs, Locked
<1>4. s.role = dsp[d].role /\ s.kept = dsp[d].kept /\ s.pc = pc BY <1>3 DEF Order
<1>5. IsFresh(s) => IsFresh(dsp[d])
  BY <1>4 DEF IsFresh, OrderPcs, Locked
<1>6. Become(d, s) BY DEF Resume, Become, TypeInv, DspInv, DspType
<1> HIDE DEF s
<1> QED BY <1>2, <1>5, <1>6, BecomeType

\* A scan of the queue is in order.
LEMMA ScanningOrderly == ASSUME TypeInv PROVE Orderly(Scanning, clock) /\ ~IsFresh(Scanning)
<1>1. clock \in Nat /\ \A t \in Tasks : row[t] \in Row /\ row[t].pending.at <= clock
  BY DEF TypeInv, Types, QueueType, RowType, ParkedInv
<1>2. \A t \in Queue : row[t].pending \in Queued
  BY <1>1 DEF Queue, Parked, Row, Claims
<1>3. Scanning.snap \in SUBSET Scanned
  BY <1>1, <1>2 DEF Scanning, Scanned, Queue, Row
<1>4. \A e \in Scanning.snap : e.claim.at <= clock
  BY <1>1 DEF Scanning, Queue
<1>5. Scanning = [pc |-> "queue", snap |-> Scanning.snap] BY DEF Scanning
<1>6. Scanning.pc = "queue" BY DEF Scanning
<1> QED BY <1>1, <1>3, <1>4, <1>5, <1>6, WalkOrderly DEF IsFresh, Locked

\* The queue is scanned again, or not.
LEMMA SupersededType ==
  ASSUME TypeInv, NEW d \in Dispatchers, Superseded(d), UNCHANGED <<clock, asks>>
  PROVE  DspInv' /\ ClickInv'
BY RestType, ScanningOrderly, BecomeType DEF Superseded

\* A race that was lost.
LEMMA MissedType ==
  ASSUME TypeInv, NEW d \in Dispatchers, Missed(d), UNCHANGED <<clock, asks>>
  PROVE  DspInv' /\ ClickInv'
BY RestType, SupersededType DEF Missed

\* The drain goes on with the rest of what it has scanned.
LEMMA ProceedType ==
  ASSUME TypeInv, NEW d \in Dispatchers, Proceed(d), dsp[d].pc \in OrderPcs,
         UNCHANGED <<clock, asks>>
  PROVE  DspInv' /\ ClickInv'
<1>1. clock \in Nat BY DEF TypeInv, Types, QueueType
<1>2. Orderly(dsp[d], clock) BY DEF TypeInv, DspInv
<1>3. dsp[d] \in Order BY <1>2, DispatcherIs DEF Orderly, Walk, OrderPcs, Locked
<1> DEFINE s == [pc |-> "queue", snap |-> dsp[d].snap]
<1>4. Orderly(s, clock)
  BY <1>1, <1>2, <1>3, WalkOrderly DEF Orderly, IsPlaced, Order
<1>5. ~IsFresh(s) BY DEF IsFresh, Locked
<1>6. CASE Become(d, s) BY <1>4, <1>5, <1>6, BecomeType
<1>7. CASE Rest(d) BY <1>7, RestType
<1> QED BY <1>6, <1>7 DEF Proceed, Rest

\* A dispatch that has read a row in review, with room for what it begins.
LEMMA DispatchOrderly ==
  ASSUME TypeInv, NEW t \in Tasks, NEW role \in {"click", "queue", "auto"},
         NEW scanned \in Seqs, NEW opt \in Intents \cup {"auto"}, NEW claim \in Claims,
         NEW snap \in SUBSET Scanned,
         role = "queue" => claim \in Queued /\ opt = claim.opt,
         role = "auto" => opt = "auto",
         role = "click" => opt \in Intents,
         role # "queue" => Room(t, 1),
         claim.at <= clock, \A e \in snap : e.claim.at <= clock,
         role = "queue" => \A e \in snap : claim.at <= e.claim.at
  PROVE  LET o == Dispatch(role, t, scanned, opt, claim, snap)
         IN  Orderly(o, clock) /\ o.pc = "lock" /\ o.role = role /\ o.snap = snap /\ o \in Order
<1> DEFINE o == Dispatch(role, t, scanned, opt, claim, snap)
<1>1. /\ clock \in 0..MaxAsks /\ row[t].seq \in Seqs /\ row[t].pending \in Claims
      /\ row[t].pending.at <= clock
  BY DEF TypeInv, Types, QueueType, RowType, Row, ParkedInv
<1>2. /\ o.pc = "lock" /\ o.role = role /\ o.seq = row[t].seq /\ o.opt = opt
      /\ o.claim = claim /\ o.kept = row[t].pending.at /\ o.snap = snap
  BY DEF Dispatch
<1>3. row[t].pending.at \in 0..MaxAsks BY <1>1, Bounds DEF Claims, Queued, NoIntent
<1>4. o \in Order
  BY <1>1, <1>3 DEF Dispatch, Order, OrderPcs
<1> HIDE DEF o
<1>5. IsSound(o) BY <1>2 DEF IsSound
<1>6. HasRoom(o) BY <1>1, <1>2, Bounds DEF HasRoom, Room
<1>7. IsPlaced(o, clock) BY <1>1, <1>2 DEF IsPlaced
<1>8. IsInOrder(o) BY <1>2 DEF IsInOrder
<1>9. Orderly(o, clock) BY <1>4, <1>5, <1>6, <1>7, <1>8, DispatcherIs DEF Orderly
<1> QED BY <1>2, <1>4, <1>9 DEF o

\* A set of numbers has a least one.
LEMMA LeastNatural ==
  ASSUME NEW T \in SUBSET Nat, T # {}
  PROVE  \E m \in T : \A n \in T : m <= n
<1>1. PICK m \in T : \A n \in T : ~(<<n, m>> \in OpToRel(<, Nat))
  BY WFMin, NatLessThanWellFounded, Zenon
<1>2. \A n \in T : ~(n < m)
  BY <1>1 DEF OpToRel
<1> QED BY <1>2

\* queue_order finds the oldest of what was scanned.
LEMMA OldestIsOldest ==
  ASSUME NEW snap \in SUBSET Scanned, snap # {}
  PROVE  /\ OldestOf(snap) \in snap
         /\ \A f \in snap : OldestOf(snap).claim.at <= f.claim.at
<1> DEFINE places == {e.claim.at : e \in snap}
<1>1. places \in SUBSET Nat BY Bounds DEF Scanned, Queued
<1>2. places # {} OBVIOUS
<1>3. PICK m \in places : \A n \in places : m <= n BY <1>1, <1>2, LeastNatural
<1>4. PICK e \in snap : m = e.claim.at OBVIOUS
<1>5. \E e1 \in snap : \A f \in snap : e1.claim.at <= f.claim.at BY <1>3, <1>4
<1> QED BY <1>5 DEF OldestOf

\* What an order is made of.
LEMMA OrderOf ==
  ASSUME TypeInv, NEW d \in Dispatchers, dsp[d].pc \in OrderPcs
  PROVE  dsp[d] \in Order /\ Orderly(dsp[d], clock)
BY DispatcherIs DEF TypeInv, DspInv, Orderly, Walk, OrderPcs, Locked

\* A scan, the drain and the sweep preserve the invariant.
LEMMA DrainType ==
  ASSUME TypeInv, NEW d \in Dispatchers, Scan(d) \/ DrainNext(d) \/ DrainEmpty(d)
  PROVE  TypeInv'
<1> USE Frame, Parts DEF table, agents, engine, bounds, git, At
<1>0. clock \in Nat /\ Orderly(dsp[d], clock)
  BY DEF TypeInv, Types, QueueType, DspInv
<1>1. CASE Scan(d)
  <2>1. DspInv' /\ ClickInv' BY <1>1, ScanningOrderly, BecomeType DEF Scan
  <2> QED BY <1>1, <2>1 DEF Scan
<1>2. CASE DrainNext(d)
  <2> DEFINE snap == dsp[d].snap
             e == OldestOf(snap)
             rest == snap \ {e}
             order == Dispatch("queue", e.task, e.seq, e.claim.opt, e.claim, rest)
  <2>1. snap \in SUBSET Scanned /\ snap # {}
    BY SMTT(30), <1>0, <1>2, DispatcherIs DEF DrainNext, Orderly, Order, Walk, OrderPcs, Locked
  <2>2. e \in snap /\ \A f \in snap : e.claim.at <= f.claim.at
    BY <2>1, OldestIsOldest
  <2>3. \A f \in snap : f.claim.at <= clock
    BY <1>0, <1>2 DEF DrainNext, Orderly, IsPlaced
  <2> HIDE DEF e, snap
  <2>4. e \in Scanned /\ rest \in SUBSET Scanned BY <2>1, <2>2
  <2>5. /\ e.task \in Tasks /\ e.seq \in Seqs /\ e.claim \in Queued /\ e.claim \in Claims
        /\ e.claim.opt \in Intents /\ e.claim.at <= clock
    BY <2>2, <2>3, <2>4 DEF Scanned, Queued, Claims
  <2>6. Orderly(order, clock) /\ order.pc = "lock" /\ order.role = "queue" /\ order \in Order
    BY <2>2, <2>3, <2>4, <2>5, DispatchOrderly DEF Order
  <2> HIDE DEF order
  <2>7. Orderly([order EXCEPT !.pc = "refuse"], clock)
    BY <2>6, MovedOrderly DEF OrderPcs
  <2>8. ~IsFresh(order) /\ ~IsFresh([order EXCEPT !.pc = "refuse"])
    BY <2>6 DEF IsFresh, Order, Locked
  <2>9. Orderly([pc |-> "queue", snap |-> rest], clock)
    BY <1>0, <2>3, <2>4, WalkOrderly
  <2>10. ~IsFresh([pc |-> "queue", snap |-> rest]) BY DEF IsFresh, Locked
  <2>11. \/ Become(d, order) \/ Become(d, [pc |-> "queue", snap |-> rest])
         \/ Become(d, [order EXCEPT !.pc = "refuse"])
    BY <1>2 DEF DrainNext, order, e, snap
  <2>12. UNCHANGED <<clock, asks>> BY <1>2 DEF DrainNext
  <2>13. DspInv' /\ ClickInv'
    BY <2>6, <2>7, <2>8, <2>9, <2>10, <2>11, <2>12, BecomeType
  <2> QED BY <1>2, <2>13 DEF DrainNext
<1>3. CASE DrainEmpty(d)
  <2>1. CASE Rest(d)
    <3>1. DspInv' /\ ClickInv' BY <1>3, <2>1, RestType DEF DrainEmpty
    <3> QED BY <1>3, <3>1 DEF DrainEmpty
  <2>2. ASSUME NEW t \in Candidates,
               Become(d, [Dispatch("auto", t, row[t].seq, "auto", NoIntent, {})
                            EXCEPT !.pc = "auto"])
        PROVE  TypeInv'
    <3> DEFINE o == Dispatch("auto", t, row[t].seq, "auto", NoIntent, {})
    <3>1. /\ t \in Tasks /\ Room(t, 1) /\ row[t].seq \in Seqs /\ NoIntent \in Claims
          /\ NoIntent.at = 0 /\ 0 <= clock
      BY <1>0 DEF TypeInv, Types, RowType, Row, Candidates, Claims, NoIntent
    <3>2. Orderly(o, clock) /\ o.pc = "lock" /\ o.role = "auto" /\ o \in Order
      BY <3>1, DispatchOrderly
    <3> HIDE DEF o
    <3>3. Orderly([o EXCEPT !.pc = "auto"], clock)
      BY <3>2, MovedOrderly DEF OrderPcs
    <3>4. ~IsFresh([o EXCEPT !.pc = "auto"]) BY <3>2 DEF IsFresh, Order
    <3>5. DspInv' /\ ClickInv'
      BY <1>3, <2>2, <3>3, <3>4, BecomeType DEF DrainEmpty, o
    <3> QED BY <1>3, <3>5 DEF DrainEmpty
  <2> QED BY <1>3, <2>1, <2>2 DEF DrainEmpty
<1> QED BY <1>1, <1>2, <1>3

\* A click has its ask, whether it knows its place or not.
LEMMA ClickType ==
  ASSUME TypeInv, NEW d \in Dispatchers, NEW t \in Tasks, NEW i \in Intents, Click(d, t, i)
  PROVE  TypeInv'
<1> USE Frame, Parts DEF table, agents, engine, git
<1> DEFINE o == Dispatch("click", t, row[t].seq, i, NoIntent, {})
<1>1. /\ clock \in Nat /\ asks \in Nat /\ asks' = asks + 1 /\ asks' \in Nat
      /\ asks' <= MaxAsks /\ UNCHANGED <<clock, crashes, faults>>
  BY Bounds DEF TypeInv, Types, QueueType, CountType, Click, Ask
<1>2. /\ row[t].seq \in Seqs /\ NoIntent \in Claims /\ NoIntent.at = 0 /\ 0 <= clock
      /\ Room(t, 1)
  BY <1>1 DEF TypeInv, Types, RowType, Row, Claims, NoIntent, Click
<1>3. Orderly(o, clock)
  BY <1>2, DispatchOrderly
<1> HIDE DEF o
<1>4. Become(d, o) BY DEF Click, o
<1>5. DspInv' BY <1>1, <1>3, <1>4, BecomeOrderly DEF TypeInv
<1>6. Fresh' \subseteq Fresh \cup {d}
  BY <1>4 DEF Fresh, Become, TypeInv, DspInv, DspType
<1>7. /\ IsFiniteSet(Fresh) /\ clock + Cardinality(Fresh) <= asks
      /\ IsFiniteSet(Fresh \cup {d}) /\ Cardinality(Fresh \cup {d}) <= Cardinality(Fresh) + 1
      /\ Cardinality(Fresh) \in Nat /\ Cardinality(Fresh \cup {d}) \in Nat
  BY FS_AddElement, FS_CardinalityType DEF TypeInv, ClickInv
<1>8. /\ IsFiniteSet(Fresh') /\ Cardinality(Fresh') <= Cardinality(Fresh \cup {d})
      /\ Cardinality(Fresh') \in Nat
  BY <1>6, <1>7, FS_Subset, FS_CardinalityType
<1>9. ClickInv' BY <1>1, <1>7, <1>8 DEF ClickInv
<1>10. CountType' BY <1>1, Bounds DEF TypeInv, Types, CountType
<1> QED BY <1>5, <1>9, <1>10 DEF Click

\* A dispatcher that reads its candidate again, finds the slot free or busy, or is
\* refused, preserves the invariant.
LEMMA WaitType ==
  ASSUME TypeInv, NEW d \in Dispatchers, AutoRead(d) \/ TakeLock(d) \/ Check(d) \/ Refused(d)
  PROVE  TypeInv'
<1> USE Frame, Parts DEF table, agents, engine, bounds, git, At
<1>1. CASE AutoRead(d)
  <2> DEFINE t == dsp[d].task
             o == [dsp[d] EXCEPT !.pc = "lock", !.seq = row[t].seq]
  <2>1. dsp[d] \in Order /\ Orderly(dsp[d], clock)
    BY <1>1, OrderOf DEF AutoRead, OrderPcs
  <2>2. t \in Tasks /\ row[t].seq \in Seqs
    BY <2>1 DEF Order, TypeInv, Types, RowType, Row
  <2>3. /\ o.pc = "lock" /\ o.role = "auto" /\ o.seq = row[t].seq /\ o.opt = dsp[d].opt
        /\ o.claim = dsp[d].claim /\ o.kept = dsp[d].kept /\ o.snap = dsp[d].snap /\ o \in Order
    BY <1>1, <2>1, <2>2 DEF Order, OrderPcs, AutoRead, Orderly, IsSound
  <2> HIDE DEF o
  <2>4. CASE row[t].status = "review" /\ Room(t, 1)
    <3>1. IsSound(o) BY <1>1, <2>1, <2>3 DEF IsSound, Orderly, AutoRead, OrderPcs
    <3>2. HasRoom(o) BY <2>2, <2>3, <2>4, Bounds DEF HasRoom, Room
    <3>3. IsPlaced(o, clock)
      BY <1>1, <2>1, <2>3 DEF IsPlaced, Orderly, AutoRead, OrderPcs
    <3>4. IsInOrder(o) BY <2>3 DEF IsInOrder
    <3>5. Orderly(o, clock) /\ ~IsFresh(o)
      BY <2>3, <3>1, <3>2, <3>3, <3>4, DispatcherIs DEF Orderly, IsFresh
    <3>6. dsp' = [dsp EXCEPT ![d] = o]
      BY <1>1, <2>4 DEF AutoRead, o, TypeInv, DspInv, DspType
    <3>7. DspInv' /\ ClickInv' BY <1>1, <3>5, <3>6, BecomeType DEF Become, AutoRead
    <3> QED BY <1>1, <3>7 DEF AutoRead
  <2>5. CASE ~(row[t].status = "review" /\ Room(t, 1))
    <3>1. DspInv' /\ ClickInv' BY <1>1, <2>5, RestType DEF AutoRead
    <3> QED BY <1>1, <3>1 DEF AutoRead
  <2> QED BY <2>4, <2>5
<1>2. CASE TakeLock(d)
  <2>1. \/ Rest(d)
        \/ Resume(d, "check")
        \/ Resume(d, "park") /\ dsp[d].role # "auto"
    BY <1>2, Zenon DEF TakeLock
  <2>2. DspInv' /\ ClickInv'
    BY <1>2, <2>1, RestType, ResumeType DEF TakeLock, OrderPcs, Locked
  <2> QED BY <1>2, <2>2 DEF TakeLock
<1>3. CASE Check(d)
  <2>1. DspInv' /\ ClickInv'
    BY <1>3, ProceedType, ResumeType DEF Check, OrderPcs, Locked
  <2>2. FlightType' BY <1>3 DEF Check, TypeInv, Types, FlightType
  <2> QED BY <1>3, <2>1, <2>2 DEF Check
<1>4. CASE Refused(d)
  <2>1. dsp[d] \in Order /\ Orderly(dsp[d], clock)
    BY <1>4, OrderOf DEF Refused, OrderPcs, Locked
  <2>2. CASE dsp[d].role = "click"
    BY <1>4, <2>2, RestType DEF Refused
  <2>3. CASE dsp[d].role = "auto"
    <3>1. DspInv' /\ ClickInv'
      BY <1>4, <2>3, ResumeType DEF Refused, OrderPcs, Locked
    <3> QED BY <1>4, <3>1 DEF Refused
  <2>4. CASE dsp[d].role = "queue"
    <3> DEFINE o == [dsp[d] EXCEPT !.next = "idle"]
               p == [o EXCEPT !.pc = "refuse"]
    <3>1. /\ o \in Order /\ o.pc = dsp[d].pc /\ o.role = "queue" /\ o.claim = dsp[d].claim
          /\ o.opt = dsp[d].opt /\ o.seq = dsp[d].seq /\ o.kept = dsp[d].kept
          /\ o.snap = dsp[d].snap
      BY <2>1, <2>4 DEF Order
    <3>2. Orderly(o, clock)
      <4> HIDE DEF o
      <4>1. IsSound(o) BY <2>1, <2>4, <3>1 DEF Orderly, IsSound
      <4>2. HasRoom(o) BY <3>1 DEF HasRoom
      <4>3. IsPlaced(o, clock) BY <2>1, <3>1 DEF Orderly, IsPlaced
      <4>4. IsInOrder(o) BY <2>1, <2>4, <3>1 DEF Orderly, IsInOrder
      <4> QED BY <3>1, <4>1, <4>2, <4>3, <4>4, DispatcherIs DEF Orderly
    <3>3. o.pc \in OrderPcs BY <1>4, <3>1 DEF Refused, OrderPcs, Locked
    <3>4. Become(d, p)
      <4>1. dsp' = [dsp EXCEPT ![d].pc = "refuse", ![d].next = "idle"]
        BY <1>4, <2>4 DEF Refused
      <4>2. [dsp[d] EXCEPT !.pc = "refuse", !.next = "idle"] = p
        BY <2>1 DEF Order
      <4>3. d \in DOMAIN dsp BY DEF TypeInv, DspInv, DspType
      <4> QED BY <4>1, <4>2, <4>3 DEF Become
    <3>5. p.role = "queue" BY <3>1 DEF Order
    <3> HIDE DEF o
    <3>6. Orderly(p, clock) BY <3>1, <3>2, <3>3, MovedOrderly DEF OrderPcs
    <3>7. ~IsFresh(p) BY <3>5 DEF IsFresh
    <3> HIDE DEF p
    <3>8. DspInv' /\ ClickInv' BY <1>4, <3>4, <3>6, <3>7, BecomeType DEF Refused
    <3> QED BY <1>4, <3>8 DEF Refused
  <2>5. dsp[d].role \in {"click", "queue", "auto"} BY <2>1 DEF Order
  <2> QED BY <2>2, <2>3, <2>4, <2>5
<1> QED BY <1>1, <1>2, <1>3, <1>4

\* Parking a merge gives it a place, its own or the next: the asks bound the places.
LEMMA ParkType == ASSUME TypeInv, NEW d \in Dispatchers, Park(d) PROVE TypeInv'
<1> USE Frame, Parts DEF table, agents, engine, bounds, git, At
<1> DEFINE t == dsp[d].task
           place == IF dsp[d].role = "queue" THEN dsp[d].claim.at
                    ELSE IF dsp[d].kept # 0 THEN dsp[d].kept ELSE clock + 1
<1>1. dsp[d] \in Order /\ Orderly(dsp[d], clock) /\ dsp[d].pc = "park" /\ t \in Tasks
  BY OrderOf DEF Park, OrderPcs, Locked, Order
<1>2. CASE ~(InReview(t, dsp[d].seq) /\ SameIntent(d))
  <2>1. Missed(d) /\ UNCHANGED <<row, clock, wish, latched, asks>>
    BY <1>2 DEF Park
  <2>2. DspInv' /\ ClickInv' BY <2>1, MissedType
  <2> QED BY <2>1, <2>2 DEF Park
<1>3. CASE InReview(t, dsp[d].seq) /\ SameIntent(d)
  <2>1. /\ row' = [row EXCEPT ![t].pending = [opt |-> dsp[d].opt, at |-> place],
                              ![t].error = FALSE]
        /\ clock' = IF place > clock THEN place ELSE clock
        /\ wish' = [wish EXCEPT ![t] = dsp[d].opt]
        /\ latched' = latched \ {t}
        /\ Rest(d) /\ UNCHANGED asks
    BY <1>3 DEF Park
  <2>2. /\ clock \in 0..MaxAsks /\ asks \in 0..MaxAsks
        /\ row \in [Tasks -> Row] /\ wish \in [Tasks -> Intents \cup {"none"}]
        /\ latched \in SUBSET Tasks
    BY DEF TypeInv, Types, QueueType, CountType, RowType
  <2>3. dsp[d].role \in {"queue", "click"} /\ dsp[d].opt \in Intents
    BY <1>1 DEF Orderly, IsSound, OrderPcs, Locked, Order, Queued
  <2>4. /\ ClickInv' /\ place \in 1..MaxAsks
        /\ clock <= clock' /\ place <= clock' /\ clock' \in 0..MaxAsks
    <3>1. CASE dsp[d].role = "click" /\ dsp[d].kept = 0
      <4>1. place = clock + 1 /\ clock' = clock + 1 BY <2>1, <2>2, <3>1
      <4>2. d \in Fresh BY <1>1, <3>1 DEF Fresh, IsFresh, Locked
      <4>3. Fresh' \subseteq Fresh \ {d}
        BY <2>1 DEF Fresh, IsFresh, Rest, Become, TypeInv, DspInv, DspType, Locked
      <4>4. /\ IsFiniteSet(Fresh) /\ clock + Cardinality(Fresh) <= asks
            /\ IsFiniteSet(Fresh \ {d}) /\ Cardinality(Fresh \ {d}) = Cardinality(Fresh) - 1
            /\ Cardinality(Fresh) \in Nat /\ Cardinality(Fresh \ {d}) \in Nat
        BY <4>2, FS_RemoveElement, FS_CardinalityType DEF TypeInv, ClickInv
      <4>5. /\ IsFiniteSet(Fresh') /\ Cardinality(Fresh') <= Cardinality(Fresh \ {d})
            /\ Cardinality(Fresh') \in Nat
        BY <4>3, <4>4, FS_Subset, FS_CardinalityType
      <4>6. ClickInv' BY <2>1, <2>2, <4>1, <4>4, <4>5 DEF ClickInv
      <4> QED BY <2>2, <4>1, <4>4, <4>6, Bounds
    <3>2. CASE dsp[d].role # "click" \/ dsp[d].kept # 0
      <4>1. place \in 1..MaxAsks /\ place <= clock
        BY <1>1, <2>2, <2>3, <3>2, Bounds
           DEF Orderly, IsSound, IsPlaced, OrderPcs, Locked, Order, Queued
      <4>2. clock' = clock BY <2>1, <2>2, <4>1, Bounds
      <4>3. ClickInv' BY <2>1, <4>2, RestType
      <4> QED BY <2>2, <4>1, <4>2, <4>3
    <3> QED BY <3>1, <3>2
  <2> HIDE DEF place
  <2>5. RowType'
    BY SMTT(30), <1>1, <2>1, <2>2, <2>3, <2>4 DEF RowType, Row, Claims, Queued
  <2>6. QueueType' BY <1>1, <2>1, <2>2, <2>3, <2>4 DEF QueueType
  <2>7. DspInv'
    BY <2>1, <2>2, <2>4, BecomeOrderly, IdleOrderly, Bounds DEF TypeInv, Rest
  <2>8. ParkedInv'
    <3>1. \A u \in Tasks \ {t} : row'[u] = row[u] BY <2>1, <2>2
    <3>2. row'[t].pending.at = place /\ row'[t].seq = row[t].seq
      BY <1>1, <2>1, <2>2 DEF Row
    <3>3. row[t].seq < MaxSeq
      <4>1. CASE dsp[d].role = "click"
        BY <1>1, <1>3, <4>1 DEF Orderly, HasRoom, Locked, InReview
      <4>2. CASE dsp[d].role = "queue"
        <5>1. row[t].pending = dsp[d].claim /\ dsp[d].claim \in Queued
          BY <1>1, <1>3, <4>2 DEF SameIntent, Orderly, IsSound, OrderPcs, Locked
        <5>2. Parked(t) BY <5>1, Bounds DEF Parked, NoIntent, Queued
        <5> QED BY <1>1, <5>2 DEF TypeInv, ParkedInv
      <4> QED BY <2>3, <4>1, <4>2
    <3>4. \A u \in Tasks : row[u].pending.at <= clock' /\ (Parked(u) => row[u].seq < MaxSeq)
      <4>1. \A u \in Tasks : row[u].pending.at \in Nat
        BY <2>2, Bounds DEF Row, Claims, Queued, NoIntent
      <4> QED BY <2>2, <2>4, <4>1, Bounds DEF TypeInv, ParkedInv
    <3> QED BY <1>1, <2>4, <3>1, <3>2, <3>3, <3>4 DEF ParkedInv, Parked
  <2> QED BY <2>4, <2>5, <2>6, <2>7, <2>8 DEF Park
<1> QED BY <1>2, <1>3

\* A merge that begins takes the room that its order had.
LEMMA BeginType == ASSUME TypeInv, NEW d \in Dispatchers, Begin(d) PROVE TypeInv'
<1> USE DEF table, agents, engine, bounds, git, At
<1> DEFINE t == dsp[d].task
<1>1. dsp[d] \in Order /\ Orderly(dsp[d], clock) /\ dsp[d].pc = "begin" /\ t \in Tasks
  BY OrderOf DEF Begin, OrderPcs, Locked, Order
<1>2. FlightType' BY <1>1 DEF Begin, TypeInv, Types, FlightType
<1>3. CASE ~Mergeable(d)
  <2>1. Missed(d) /\ UNCHANGED <<row, clock, wish, latched, launch, asks>>
    BY <1>3 DEF Begin
  <2>2. DspInv' /\ ClickInv' BY <2>1, MissedType
  <2> QED BY <1>2, <2>1, <2>2, Frame, Parts DEF Begin
<1>4. CASE Mergeable(d)
  <2>1. /\ row' = [row EXCEPT ![t] =
                     [status |-> "merging", seq |-> @.seq + 1, conn |-> 0,
                      error |-> FALSE, pending |-> NoIntent, op |-> "land",
                      opt |-> dsp[d].opt, pre |-> head, kind |-> @.kind]]
        /\ wish' = IF dsp[d].role = "click" THEN [wish EXCEPT ![t] = dsp[d].opt] ELSE wish
        /\ latched' = IF dsp[d].role = "click" THEN latched \ {t} ELSE latched
        /\ launch' = [launch EXCEPT ![t] = [pc |-> "start", seq |-> 0]]
        /\ Rest(d) /\ UNCHANGED <<clock, asks>>
    BY <1>4 DEF Begin
  <2>2. /\ row \in [Tasks -> Row] /\ head \in 0..MaxHead /\ clock \in 0..MaxAsks
        /\ wish \in [Tasks -> Intents \cup {"none"}] /\ launch \in [Tasks -> Launch]
        /\ latched \in SUBSET Tasks
    BY DEF TypeInv, Types, QueueType, LaunchType, RowType, GitType
  <2>3. row[t].seq < MaxSeq
    <3>1. CASE dsp[d].role # "queue"
      BY <1>1, <1>4, <3>1 DEF Orderly, HasRoom, Locked, Mergeable, InReview
    <3>2. CASE dsp[d].role = "queue"
      <4>1. row[t].pending = dsp[d].claim /\ dsp[d].claim \in Queued
        BY <1>1, <1>4, <3>2 DEF Mergeable, SameIntent, Orderly, IsSound, OrderPcs, Locked
      <4>2. Parked(t) BY <4>1, Bounds DEF Parked, NoIntent, Queued
      <4> QED BY <1>1, <4>2 DEF TypeInv, ParkedInv
    <3> QED BY <3>1, <3>2
  <2>4. RowType'
    <3>1. row[t] \in Row BY <1>1, <2>2
    <3>2. row[t].seq + 1 \in Seqs
      <4>1. row[t].seq \in Seqs BY <3>1 DEF Row
      <4> QED BY <2>3, <4>1, Bounds
    <3>3. NoIntent \in Claims /\ dsp[d].opt \in Intents \cup {"none", "auto"}
      BY <1>1 DEF Claims, Order
    <3> QED BY <1>1, <2>1, <2>2, <3>1, <3>2, <3>3, Bounds DEF RowType, Row
  <2>5. QueueType'
    BY <1>1, <2>1, <2>2 DEF QueueType, Orderly, IsSound, OrderPcs, Locked
  <2>6. LaunchType' /\ LaunchSeq'
    <3>1. [pc |-> "start", seq |-> 0] \in Launch BY Bounds DEF Launch, LaunchPcs
    <3>2. LaunchType' BY <2>1, <2>2, <3>1 DEF LaunchType
    <3>3. LaunchSeq' BY <1>1, <2>1, <2>2 DEF LaunchSeq, TypeInv
    <3> QED BY <3>2, <3>3
  <2>7. DspInv' /\ ClickInv' BY <2>1, RestType
  <2>8. ParkedInv'
    <3>1. \A u \in Tasks \ {t} : row'[u] = row[u] BY <2>1, <2>2
    <3>2. row'[t].pending = NoIntent
      <4>1. t \in DOMAIN row /\ row[t] \in Row BY <1>1, <2>2
      <4> QED BY <2>1, <4>1 DEF Row
    <3>3. clock' = clock /\ clock \in Nat BY <2>1, <2>2
    <3> HIDE DEF t
    <3> QED BY <3>1, <3>2, <3>3 DEF TypeInv, ParkedInv, Parked, NoIntent
  <2> QED BY <1>2, <1>4, <2>4, <2>5, <2>6, <2>7, <2>8, Frame, Parts
         DEF Begin
<1> QED BY <1>3, <1>4

\* A refusal withdraws the merge that was refused and leaves its reason.
LEMMA RefusalType ==
  ASSUME TypeInv, NEW d \in Dispatchers, RefuseClear(d) \/ Banner(d) PROVE TypeInv'
<1> USE DEF table, agents, engine, bounds, git, At
<1> DEFINE t == dsp[d].task
<1>1. /\ dsp[d] \in Order /\ Orderly(dsp[d], clock) /\ dsp[d].pc \in {"refuse", "banner"}
      /\ t \in Tasks
  BY OrderOf DEF RefuseClear, Banner, OrderPcs, Locked, Order
<1>2. /\ row \in [Tasks -> Row] /\ wish \in [Tasks -> Intents \cup {"none"}]
      /\ latched \in SUBSET Tasks /\ clock \in 0..MaxAsks
  BY DEF TypeInv, Types, QueueType, RowType
<1>3. CASE RefuseClear(d)
  <2>1. DspInv' /\ ClickInv'
    <3>1. CASE Resume(d, "banner")
      <4>1. dsp[d].role # "click"
        BY <1>1, <1>3 DEF Orderly, IsSound, RefuseClear, OrderPcs, Locked
      <4> QED BY <1>1, <1>3, <3>1, <4>1, ResumeType DEF RefuseClear, OrderPcs
    <3>2. CASE Superseded(d) BY <1>3, <3>2, SupersededType DEF RefuseClear
    <3> QED BY <1>3, <3>1, <3>2 DEF RefuseClear
  <2>2. CASE UNCHANGED <<row, wish>>
    BY <1>3, <2>1, <2>2, Frame, Parts DEF RefuseClear
  <2>3. CASE row' = [row EXCEPT ![t].pending = NoIntent] /\ wish' = [wish EXCEPT ![t] = "none"]
    <3>1. RowType' BY <1>1, <1>2, <2>3 DEF RowType, Row, Claims
    <3>2. QueueType' BY <1>1, <1>2, <1>3, <2>3 DEF QueueType, RefuseClear
    <3>3. ParkedInv'
      BY <1>1, <1>2, <1>3, <2>3 DEF TypeInv, ParkedInv, Parked, NoIntent, Row, RefuseClear
    <3> QED BY <1>3, <2>1, <3>1, <3>2, <3>3, Frame, Parts DEF RefuseClear
  <2> QED BY <1>3, <2>2, <2>3 DEF RefuseClear
<1>4. CASE Banner(d)
  <2>1. DspInv' /\ ClickInv' BY <1>1, <1>4, ProceedType DEF Banner, OrderPcs
  <2>2. RowType'
    <3>1. CASE row' = [row EXCEPT ![t].error = TRUE]
      <4>1. t \in Tasks /\ row[t] \in Row BY <1>1, <1>2
      <4> HIDE DEF t
      <4>2. [row[t] EXCEPT !.error = TRUE] \in Row BY <4>1 DEF Row
      <4> QED BY <1>2, <3>1, <4>1, <4>2 DEF RowType
    <3>2. CASE UNCHANGED row BY <1>2, <3>2 DEF RowType
    <3> QED BY <1>4, <3>1, <3>2 DEF Banner
  <2>3. QueueType' BY <1>1, <1>2, <1>4 DEF QueueType, Banner
  <2>4. ParkedInv'
    BY <1>1, <1>2, <1>4 DEF TypeInv, ParkedInv, Parked, Row, Banner
  <2> QED BY <1>4, <2>1, <2>2, <2>3, <2>4, Frame, Parts DEF Banner
<1> QED BY <1>1, <1>3, <1>4

----------------------------------------------------------------------------
(* The user *)

\* The user withdraws, takes back, completes or brings back a task.
LEMMA UserType ==
  ASSUME TypeInv, NEW t \in Tasks, Unqueue(t) \/ TakeBack(t) \/ Complete(t) \/ Rework(t)
  PROVE  TypeInv'
<1> USE Frame, Parts DEF table, agents, engine, bounds, git
<1>1. /\ row \in [Tasks -> Row] /\ wish \in [Tasks -> Intents \cup {"none"}]
      /\ latched \in SUBSET Tasks /\ clock \in 0..MaxAsks /\ asks \in 0..MaxAsks
  BY DEF TypeInv, Types, QueueType, RowType, CountType
<1>2. CASE Unqueue(t)
  <2>1. RowType' BY <1>1, <1>2 DEF RowType, Row, Claims, Unqueue
  <2>2. QueueType' BY <1>1, <1>2 DEF QueueType, Unqueue
  <2>3. ParkedInv' BY <1>1, <1>2 DEF TypeInv, ParkedInv, Parked, NoIntent, Row, Unqueue
  <2> QED BY <1>2, <2>1, <2>2, <2>3 DEF Unqueue
<1>3. CASE TakeBack(t)
  <2>1. RowType'
    <3>1. row[t] \in Row /\ row[t].seq + 1 \in Seqs BY <1>1, <1>3, Bounds DEF Row, TakeBack, Room
    <3>2. NoIntent \in Claims BY DEF Claims
    <3>3. [row[t] EXCEPT !.status = "queued", !.seq = @ + 1, !.error = FALSE,
                         !.pending = NoIntent] \in Row
      BY <3>1, <3>2 DEF Row, Afoot
    <3> QED BY <1>1, <1>3, <3>3 DEF RowType, TakeBack
  <2>2. QueueType' BY <1>1, <1>3 DEF QueueType, TakeBack
  <2>3. ParkedInv'
    <3>1. \A u \in Tasks \ {t} : row'[u] = row[u] BY <1>1, <1>3 DEF TakeBack
    <3>2. row'[t].pending = NoIntent BY <1>1, <1>3 DEF Row, TakeBack
    <3> QED
      BY SMTT(30), <1>1, <1>3, <3>1, <3>2 DEF TypeInv, ParkedInv, Parked, NoIntent, TakeBack
  <2>4. CountType' /\ asks <= asks' /\ asks' \in Nat
    BY <1>1, <1>3, Bounds DEF TypeInv, Types, CountType, TakeBack, Ask
  <2>5. ClickInv'
    <3>1. Fresh' = Fresh /\ clock' = clock BY <1>3 DEF Fresh, TakeBack
    <3>2. Cardinality(Fresh) \in Nat BY FS_CardinalityType DEF TypeInv, ClickInv
    <3> QED BY <1>1, <2>4, <3>1, <3>2 DEF TypeInv, ClickInv
  <2>6. GitType' BY <1>3 DEF TypeInv, Types, GitType, TakeBack
  <2> QED BY <1>3, <2>1, <2>2, <2>3, <2>4, <2>5, <2>6 DEF TakeBack
<1>4. CASE Complete(t)
  <2>1. RowType'
    <3>1. row[t] \in Row /\ NoIntent \in Claims BY <1>1 DEF Claims
    <3>2. [row[t] EXCEPT !.status = "done", !.kind = "accepted", !.error = FALSE,
                         !.pending = NoIntent] \in Row
      BY <3>1 DEF Row
    <3> QED BY <1>1, <1>4, <3>2 DEF RowType, Complete
  <2>2. QueueType' BY <1>1, <1>4 DEF QueueType, Complete
  <2>3. ParkedInv' BY <1>1, <1>4 DEF TypeInv, ParkedInv, Parked, NoIntent, Row, Complete
  <2> QED BY <1>4, <2>1, <2>2, <2>3 DEF Complete
<1>5. CASE Rework(t)
  <2>1. PICK status \in {"preparing", "running", "review"}, conn \in 0..MaxSeq :
          row' = [row EXCEPT ![t].status = status, ![t].conn = conn]
    <3>1. row[t] \in Row /\ row[t].conn \in 0..MaxSeq /\ 0 \in 0..MaxSeq
      BY <1>1, Bounds DEF Row
    <3>2. CASE SetUp(t) BY <3>1, <3>2 DEF SetUp
    <3>3. CASE SettleReview(t) BY <3>1, <3>3 DEF SettleReview
    <3>4. CASE GoLive(t)
      <4>1. row' = [row EXCEPT ![t].status = "running", ![t].conn = row[t].conn]
        BY <1>1, <3>1, <3>4 DEF GoLive, Row
      <4> QED BY <3>1, <4>1
    <3> QED BY <1>5, <3>2, <3>3, <3>4 DEF Rework
  <2>2. RowType'
    <3>1. row[t] \in Row BY <1>1
    <3>2. [row[t] EXCEPT !.status = status, !.conn = conn] \in Row
      BY <3>1 DEF Row, Afoot
    <3> QED BY <1>1, <2>1, <3>2 DEF RowType
  <2>3. ParkedInv' BY <1>1, <1>5, <2>1 DEF TypeInv, ParkedInv, Parked, Row, Rework
  <2> QED BY <1>5, <2>2, <2>3 DEF Rework
<1> QED BY <1>2, <1>3, <1>4, <1>5

\* Somebody commits.
LEMMA CommitType == ASSUME TypeInv, Commit PROVE TypeInv'
<1>1. GitType' BY Bounds DEF TypeInv, Types, GitType, Commit
<1> QED BY <1>1, Frame, Parts DEF Commit, table, agents, engine, bounds, git

----------------------------------------------------------------------------
(* How a merge ends *)

\* Edits of a row that keep it one.
LEMMA BouncedRow ==
  ASSUME NEW r \in Row
  PROVE  [r EXCEPT !.status = "review", !.error = TRUE, !.op = "none", !.opt = "none",
                   !.pre = 0] \in Row
<1>1. 0 \in 0..MaxHead BY Bounds
<1> QED BY <1>1 DEF Row

\* A row that names the connection of its generation.
LEMMA BoundRow ==
  ASSUME NEW r \in Row, NEW s \in Seqs PROVE [r EXCEPT !.conn = s] \in Row
<1>1. s \in 0..MaxSeq BY Bounds
<1> QED BY <1>1 DEF Row

\* What the parts say of the table.
TableInv == RowType /\ QueueType /\ ParkedInv

\* A landing and a bounce write the row of a merge, and the history.
LEMMA OutcomeType ==
  ASSUME TypeInv, NEW t \in Tasks, Landed(t) \/ Bounce(t) \/ UNCHANGED table
  PROVE  TableInv' /\ UNCHANGED clock
<1>1. /\ row \in [Tasks -> Row] /\ wish \in [Tasks -> Intents \cup {"none"}]
      /\ latched \in SUBSET Tasks /\ clock \in 0..MaxAsks /\ row[t] \in Row
  BY DEF TypeInv, Types, QueueType, RowType
<1>2. CASE Landed(t)
  <2>1. [row[t] EXCEPT !.status = "done", !.kind = "merged"] \in Row BY <1>1 DEF Row
  <2>2. RowType' BY <1>1, <1>2, <2>1 DEF RowType, Landed
  <2>3. QueueType' BY <1>1, <1>2 DEF QueueType, Landed
  <2>4. ParkedInv' BY <1>1, <1>2 DEF TypeInv, ParkedInv, Parked, Landed, Row
  <2> QED BY <1>2, <2>2, <2>3, <2>4 DEF TableInv, Landed
<1>3. CASE Bounce(t)
  <2>1. [row[t] EXCEPT !.status = "review", !.error = TRUE, !.op = "none", !.opt = "none",
                       !.pre = 0] \in Row
    BY <1>1, BouncedRow
  <2>2. RowType' BY <1>1, <1>3, <2>1 DEF RowType, Bounce
  <2>3. QueueType' BY <1>1, <1>3 DEF QueueType, Bounce
  <2>4. ParkedInv' BY <1>1, <1>3 DEF TypeInv, ParkedInv, Parked, Bounce, Row
  <2> QED BY <1>3, <2>2, <2>3, <2>4 DEF TableInv, Bounce
<1>4. CASE UNCHANGED table
  BY <1>4, Frame DEF TableInv, table
<1> QED BY <1>2, <1>3, <1>4

\* A settle, whatever git says, is one of these.
LEMMA SettleOutcome ==
  ASSUME NEW t, NEW pre, SettleFromGit(t, pre)
  PROVE  Landed(t) \/ Bounce(t) \/ UNCHANGED table
BY DEF SettleFromGit, BackToReview

----------------------------------------------------------------------------
(* Launches and agents *)

\* A step of a launch preserves the invariant.
LEMMA LaunchStepType ==
  ASSUME TypeInv, NEW t \in Tasks, LaunchStep(t) \/ LaunchError(t) PROVE TypeInv'
<1> USE DEF table, agents, engine, git, LaunchAt, LaunchTo, Gen, Phase
<1>1. /\ launch \in [Tasks -> Launch] /\ launch[t] \in Launch /\ LaunchSeq
      /\ agent \in [Tasks -> [Seqs -> Phases]] /\ row \in [Tasks -> Row] /\ row[t] \in Row
  BY DEF TypeInv, Types, LaunchType, AgentType, RowType
<1>2. ASSUME NEW pc \in LaunchPcs, launch' = [launch EXCEPT ![t].pc = pc],
             pc \in {"spawn", "bind", "mark", "prompt"} => launch[t].seq \in Seqs
      PROVE  LaunchType' /\ LaunchSeq'
  <2>1. [launch[t] EXCEPT !.pc = pc] \in Launch BY <1>1 DEF Launch
  <2>2. LaunchType' BY <1>1, <1>2, <2>1 DEF LaunchType
  <2>3. LaunchSeq' BY <1>1, <1>2 DEF LaunchSeq, Launch
  <2> QED BY <2>2, <2>3
<1>3. ASSUME NEW phase \in Phases, NEW s \in Seqs, agent' = [agent EXCEPT ![t][s] = phase]
      PROVE  AgentType'
  BY <1>1, <1>3 DEF AgentType
<1>12. ASSUME launch[t].seq \in Seqs, row' = [row EXCEPT ![t].conn = launch[t].seq],
              UNCHANGED clock
       PROVE  RowType' /\ ParkedInv'
  <2>1. [row[t] EXCEPT !.conn = launch[t].seq] \in Row BY <1>1, <1>12, BoundRow
  <2>2. RowType' BY <1>1, <1>12, <2>1 DEF RowType
  <2>3. ParkedInv' BY <1>1, <1>12 DEF TypeInv, ParkedInv, Parked, Row
  <2> QED BY <2>2, <2>3
<1>4. CASE LaunchStart(t)
  <2>1. LaunchType' /\ LaunchSeq'
    BY <1>1, <1>4, Bounds DEF LaunchStart, LaunchType, LaunchSeq, Launch, LaunchPcs, Row
  <2> QED BY <1>4, <2>1, Frame, Parts DEF LaunchStart, bounds
<1>5. CASE LaunchSpawn(t)
  <2>1. launch[t].seq \in Seqs BY <1>1, <1>5 DEF LaunchSpawn, LaunchSeq
  <2>2. AgentType' BY <1>3, <1>5, <2>1, Frame DEF LaunchSpawn, Phases
  <2>3. LaunchType' /\ LaunchSeq' BY <1>2, <1>5, <2>1 DEF LaunchSpawn, LaunchPcs
  <2> QED BY <1>5, <2>2, <2>3, Frame, Parts DEF LaunchSpawn, bounds
<1>6. CASE LaunchBind(t)
  <2>1. launch[t].seq \in Seqs BY <1>1, <1>6 DEF LaunchBind, LaunchSeq
  <2>2. AgentType' BY <1>3, <1>6, <2>1, Frame DEF LaunchBind, Phases
  <2>3. LaunchType' /\ LaunchSeq' BY <1>2, <1>6, <2>1 DEF LaunchBind, LaunchPcs
  <2>4. row' = [row EXCEPT ![t].conn = launch[t].seq] \/ row' = row
    BY <1>6 DEF LaunchBind
  <2>5. RowType' /\ ParkedInv' BY <1>6, <1>12, <2>1, <2>4, Frame DEF LaunchBind
  <2> QED BY <1>6, <2>2, <2>3, <2>4, <2>5, Frame, Parts DEF LaunchBind, bounds
<1>7. CASE LaunchMark(t)
  <2>1. launch[t].seq \in Seqs BY <1>1, <1>7 DEF LaunchMark, LaunchSeq
  <2>2. AgentType' BY <1>3, <1>7, <2>1, Frame DEF LaunchMark, Phases
  <2>3. LaunchType' /\ LaunchSeq' BY <1>2, <1>7, <2>1 DEF LaunchMark, LaunchPcs
  <2>4. row' = [row EXCEPT ![t].conn = launch[t].seq] \/ row' = row
    BY <1>7 DEF LaunchMark
  <2>5. RowType' /\ ParkedInv' BY <1>7, <1>12, <2>1, <2>4, Frame DEF LaunchMark
  <2>6. WireType' BY <1>7, <2>1 DEF LaunchMark, TypeInv, Types, WireType
  <2> QED BY <1>7, <2>2, <2>3, <2>4, <2>5, <2>6, Frame, Parts DEF LaunchMark, bounds
<1>8. CASE LaunchPrompt(t)
  <2>1. launch[t].seq \in Seqs BY <1>1, <1>8 DEF LaunchPrompt, LaunchSeq
  <2>2. AgentType' BY <1>3, <1>8, <2>1 DEF LaunchPrompt, Phases
  <2>3. LaunchType' /\ LaunchSeq' BY <1>2, <1>8 DEF LaunchPrompt, LaunchPcs
  <2> QED BY <1>8, <2>2, <2>3, Frame, Parts DEF LaunchPrompt, bounds
<1>9. CASE LaunchFail(t)
  <2>1. TableInv' /\ UNCHANGED clock BY <1>9, OutcomeType DEF LaunchFail, BackToReview
  <2>2. LaunchType' /\ LaunchSeq' BY <1>2, <1>9 DEF LaunchFail, LaunchPcs
  <2> QED BY <1>9, <2>1, <2>2, Frame, Parts DEF LaunchFail, TableInv, bounds
<1>10. CASE LaunchRelease(t)
  <2>1. LaunchType' /\ LaunchSeq'
    BY <1>1, <1>10, Bounds DEF LaunchRelease, LaunchType, LaunchSeq, Launch, LaunchPcs
  <2>2. FlightType' BY <1>10 DEF LaunchRelease, TypeInv, Types, FlightType
  <2> QED BY <1>10, <2>1, <2>2, Frame, Parts DEF LaunchRelease, bounds
<1>11. CASE LaunchError(t)
  <2>1. LaunchType' /\ LaunchSeq' BY <1>2, <1>11 DEF LaunchError, LaunchPcs
  <2>2. AgentType'
    <3>1. launch[t].seq > 0 => launch[t].seq \in Seqs BY <1>1, Bounds DEF Launch
    <3> QED BY <1>3, <1>11, <3>1, Frame DEF LaunchError, Phases
  <2>3. WireType' BY <1>11 DEF LaunchError, TypeInv, Types, WireType
  <2>4. CountType' /\ UNCHANGED asks
    BY <1>11, Bounds DEF LaunchError, TypeInv, Types, CountType, Faulty, bounds
  <2> QED BY <1>11, <2>1, <2>2, <2>3, <2>4, Frame, Parts DEF LaunchError
<1> QED BY <1>4, <1>5, <1>6, <1>7, <1>8, <1>9, <1>10, <1>11 DEF LaunchStep

\* What agents do, and what is lost of them, preserves the invariant.
LEMMA AgentStepType ==
  ASSUME TypeInv, NEW t \in Tasks, NEW s \in Seqs, AgentStep(t, s) PROVE TypeInv'
<1> USE DEF table, agents, engine, git, Phase
<1>1. CASE AgentLands(t, s)
  <2>1. GitType' BY <1>1, Bounds DEF AgentLands, TypeInv, Types, GitType
  <2> QED BY <1>1, <2>1, Frame, Parts DEF AgentLands, bounds
<1>2. CASE AgentEnds(t, s)
  <2>1. AgentType' BY <1>2 DEF AgentEnds, TypeInv, Types, AgentType, Phases
  <2>2. WireType' BY <1>2 DEF AgentEnds, TypeInv, Types, WireType
  <2> QED BY <1>2, <2>1, <2>2, Frame, Parts DEF AgentEnds, bounds
<1>3. CASE AgentDies(t, s)
  <2>1. AgentType' BY <1>3 DEF AgentDies, TypeInv, Types, AgentType, Phases
  <2>2. CountType' /\ UNCHANGED asks
    BY <1>3, Bounds DEF AgentDies, TypeInv, Types, CountType, Faulty
  <2> QED BY <1>3, <2>1, <2>2, Frame, Parts DEF AgentDies
<1>4. CASE SweepIdle(t, s)
  <2>1. AgentType' BY <1>4 DEF SweepIdle, TypeInv, Types, AgentType, Phases
  <2> QED BY <1>4, <2>1, Frame, Parts DEF SweepIdle, bounds
<1> QED BY <1>1, <1>2, <1>3, <1>4 DEF AgentStep

\* So does a lost completion.
LEMMA LoseTurnType == ASSUME TypeInv, NEW c \in turns, LoseTurn(c) PROVE TypeInv'
<1>1. WireType' BY DEF LoseTurn, TypeInv, Types, WireType
<1>2. CountType' /\ UNCHANGED asks
  BY Bounds DEF LoseTurn, TypeInv, Types, CountType, Faulty
<1> QED BY <1>1, <1>2, Frame, Parts DEF LoseTurn, table, agents, engine, git

----------------------------------------------------------------------------
(* The event loop, recovery and deliveries *)

\* The event loop takes completions and settles what they complete.
LEMMA LoopStepType == ASSUME TypeInv, LoopStep PROVE TypeInv'
<1> USE DEF table, agents, engine, bounds, git, LoopTo
<1>1. loop \in LoopState BY DEF TypeInv, Types, LoopType
<1>2. ASSUME NEW c \in turns, TakeTurn(c) PROVE TypeInv'
  <2>1. c[1] \in Tasks /\ c[2] \in Seqs BY DEF TypeInv, Types, WireType
  <2>2. AgentType' BY <1>2, <2>1 DEF TakeTurn, Phase, TypeInv, Types, AgentType, Phases
  <2>3. WireType' BY <1>2 DEF TakeTurn, TypeInv, Types, WireType
  <2>4. LoopType' BY <1>1, <1>2, <2>1 DEF TakeTurn, LoopType, LoopState
  <2> QED BY <1>2, <2>2, <2>3, <2>4, Frame, Parts DEF TakeTurn
<1>3. CASE ReadTurn
  <2>1. loop.task \in Tasks /\ loop.seq \in Seqs BY <1>1, <1>3 DEF ReadTurn, LoopState
  <2>2. row[loop.task].pre \in 0..MaxHead BY <2>1 DEF TypeInv, Types, RowType, Row
  <2>3. LoopType' BY <1>3, <2>1, <2>2 DEF ReadTurn, LoopType, LoopState
  <2> QED BY <1>3, <2>3, Frame, Parts DEF ReadTurn
<1>4. CASE Settle
  <2>1. loop.task \in Tasks BY <1>1, <1>4 DEF Settle, LoopState
  <2>2. TableInv' /\ UNCHANGED clock
    BY <1>4, <2>1, SettleOutcome, OutcomeType DEF Settle
  <2>3. LoopType' BY <1>4 DEF Settle, LoopType, LoopState
  <2> QED BY <1>4, <2>2, <2>3, Frame, Parts DEF Settle, TableInv
<1> QED BY <1>2, <1>3, <1>4 DEF LoopStep

\* What a delivery that is over writes.
LEMMA DeliveredType ==
  ASSUME TypeInv, NEW t \in Tasks, NEW s, Delivered(t, s)
  PROVE  TableInv' /\ UNCHANGED clock
<1>1. row \in [Tasks -> Row] /\ row[t] \in Row BY DEF TypeInv, Types, RowType
<1>2. CASE Merging(t, s)
  <2>1. row' = [row EXCEPT ![t].status = "done", ![t].kind = "delivered", ![t].error = FALSE]
        /\ UNCHANGED <<clock, wish, latched>>
    BY <1>2 DEF Delivered
  <2>2. RowType' BY <1>1, <2>1 DEF RowType, Row
  <2>3. ParkedInv' BY <1>1, <2>1 DEF TypeInv, ParkedInv, Parked, Row
  <2> QED BY <2>1, <2>2, <2>3, Frame DEF TableInv
<1>3. CASE ~Merging(t, s)
  BY <1>3, Frame DEF Delivered, TableInv, table
<1> QED BY <1>2, <1>3

\* Recovery preserves the invariant.
LEMMA RecoverType ==
  ASSUME TypeInv, NEW t \in Tasks, RecoverList(t) \/ RecoverStep(t) PROVE TypeInv'
<1> USE DEF table, agents, engine, bounds, git, Recovering
<1>1. /\ recovery \in [Tasks -> RecoveryState] /\ recovery[t] \in RecoveryState
      /\ row[t] \in Row /\ NoRecovery \in RecoveryState
  BY Bounds DEF TypeInv, Types, RecoveryType, RowType, NoRecovery, RecoveryState
<1>2. ASSUME NEW pc \in {"listed", "free"}, RecoverTo(t, pc) PROVE RecoveryType'
  <2>1. [recovery[t] EXCEPT !.pc = pc] \in RecoveryState BY <1>1 DEF RecoveryState
  <2> QED BY <1>1, <1>2, <2>1 DEF RecoverTo, RecoveryType
<1>3. RecoverEnd(t) => RecoveryType' BY <1>1 DEF RecoverEnd, RecoveryType
<1>4. CASE RecoverList(t)
  BY <1>2, <1>4, Frame, Parts DEF RecoverList
<1>5. CASE RecoverCheck(t)
  BY <1>2, <1>3, <1>5, Frame, Parts DEF RecoverCheck
<1>6. CASE RecoverRead(t)
  <2>1. RecoveryType'
    <3> DEFINE r == [pc |-> IF row[t].op = "deliver" THEN "forge" ELSE "lock",
                     seq |-> row[t].seq, pre |-> row[t].pre]
    <3>1. r \in RecoveryState BY <1>1, Bounds DEF RecoveryState, Row
    <3>2. RecoverEnd(t) \/ recovery' = [recovery EXCEPT ![t] = r] BY <1>6 DEF RecoverRead
    <3> HIDE DEF r
    <3> QED BY <1>1, <1>3, <3>1, <3>2 DEF RecoveryType
  <2>2. WireType' BY <1>6 DEF RecoverRead, TypeInv, Types, WireType
  <2> QED BY <1>6, <2>1, <2>2, Frame, Parts DEF RecoverRead
<1>7. CASE RecoverSettle(t)
  <2>1. TableInv' /\ UNCHANGED clock
    BY <1>7, SettleOutcome, OutcomeType DEF RecoverSettle
  <2> QED BY <1>3, <1>7, <2>1, Frame, Parts DEF RecoverSettle, TableInv
<1>8. CASE RecoverDelivery(t)
  <2>1. TableInv' /\ UNCHANGED clock
    BY <1>8, DeliveredType, OutcomeType DEF RecoverDelivery
  <2> QED BY <1>3, <1>8, <2>1, Frame, Parts DEF RecoverDelivery, TableInv
<1> QED BY <1>4, <1>5, <1>6, <1>7, <1>8 DEF RecoverStep

\* A row whose delivery begins is one.
LEMMA DeliveringRow ==
  ASSUME NEW r \in Row, r.seq + 1 \in Seqs
  PROVE  [r EXCEPT !.status = "merging", !.seq = @ + 1, !.conn = 0, !.error = FALSE,
                   !.op = "deliver"] \in Row
<1>1. 0 \in 0..MaxSeq BY Bounds
<1> QED BY <1>1 DEF Row

\* A delivery has the room that it was begun with.
LEMMA DeliveryStepType ==
  ASSUME TypeInv, NEW t \in Tasks, Deliver(t) \/ DeliverStep(t) PROVE TypeInv'
<1> USE DEF table, agents, engine, bounds, git, Delivering
<1>1. /\ delivery \in [Tasks -> DeliveryState] /\ delivery[t] \in DeliveryState
      /\ row \in [Tasks -> Row] /\ row[t] \in Row /\ DeliveryRoom
      /\ inflight \in [Tasks -> {"no", "dispatch", "launch", "delivery"}]
  BY DEF TypeInv, Types, DeliveryType, RowType, FlightType
<1>2. ASSUME NEW v \in DeliveryState, delivery' = [delivery EXCEPT ![t] = v],
             v.pc \in {"checks", "begin"} => v.seq + 2 <= MaxSeq
      PROVE  DeliveryType' /\ DeliveryRoom'
  BY <1>1, <1>2 DEF DeliveryType, DeliveryRoom
<1>3. ASSUME NEW pc \in {"begin", "settle", "bounce"},
             delivery' = [delivery EXCEPT ![t].pc = pc], pc = "begin" => delivery[t].pc = "checks"
      PROVE  DeliveryType' /\ DeliveryRoom'
  <2> DEFINE v == [delivery[t] EXCEPT !.pc = pc]
  <2>1. v \in DeliveryState /\ v.pc = pc /\ v.seq = delivery[t].seq
    BY <1>1 DEF DeliveryState
  <2>2. delivery' = [delivery EXCEPT ![t] = v] BY <1>1, <1>3
  <2> HIDE DEF v
  <2> QED BY <1>1, <1>2, <1>3, <2>1, <2>2 DEF DeliveryRoom
<1>4. delivery' = [delivery EXCEPT ![t] = [pc |-> "none", seq |-> 0]]
        => DeliveryType' /\ DeliveryRoom'
  <2>1. [pc |-> "none", seq |-> 0] \in DeliveryState BY Bounds DEF DeliveryState
  <2> QED BY <1>2, <2>1
<1>5. DeliverLeave(t) => DeliveryType' /\ DeliveryRoom' /\ FlightType'
  BY <1>1, <1>4 DEF DeliverLeave, FlightType
<1>6. CASE Deliver(t)
  <2>1. DeliveryType' /\ DeliveryRoom'
    <3> DEFINE v == [pc |-> "checks", seq |-> row[t].seq]
    <3>1. v \in DeliveryState /\ v.seq + 2 <= MaxSeq
      BY <1>1, <1>6, Bounds DEF DeliveryState, Row, Deliver, Room
    <3> QED BY <1>2, <1>6, <3>1 DEF Deliver
  <2>2. CountType' /\ asks <= asks' /\ asks \in Nat /\ asks' \in Nat
    BY <1>6, Bounds DEF Deliver, Ask, TypeInv, Types, CountType
  <2>3. ClickInv'
    <3>1. Fresh' = Fresh /\ clock' = clock /\ clock \in Nat
      BY <1>6 DEF Fresh, Deliver, TypeInv, Types, QueueType
    <3>2. Cardinality(Fresh) \in Nat BY FS_CardinalityType DEF TypeInv, ClickInv
    <3> QED BY <2>2, <3>1, <3>2 DEF TypeInv, ClickInv
  <2> QED BY <1>6, <2>1, <2>2, <2>3, Frame, Parts DEF Deliver
<1>7. CASE DeliverClaim(t)
  <2>1. DeliveryType' /\ DeliveryRoom' BY <1>3, <1>4, <1>7 DEF DeliverClaim
  <2>2. FlightType' BY <1>1, <1>7 DEF DeliverClaim, FlightType
  <2> QED BY <1>7, <2>1, <2>2, Frame, Parts DEF DeliverClaim
<1>8. CASE DeliverBegin(t)
  <2>1. CASE ~InReview(t, delivery[t].seq)
    BY <1>5, <1>8, <2>1, Frame, Parts DEF DeliverBegin
  <2>2. CASE InReview(t, delivery[t].seq)
    <3>1. row[t].seq + 2 <= MaxSeq /\ row[t].seq = delivery[t].seq /\ row[t].seq + 1 \in Seqs
      BY <1>1, <1>8, <2>2, Bounds DEF DeliverBegin, DeliveryRoom, InReview, Row
    <3>2. /\ row' = [row EXCEPT ![t].status = "merging", ![t].seq = @ + 1,
                       ![t].conn = 0, ![t].error = FALSE, ![t].op = "deliver"]
          /\ latched' = latched \ {t}
          /\ delivery' = [delivery EXCEPT ![t] = [pc |-> "push", seq |-> @.seq + 1]]
          /\ UNCHANGED <<clock, wish, inflight>>
      BY <1>8, <2>2 DEF DeliverBegin
    <3>3. RowType'
      <4>1. [row[t] EXCEPT !.status = "merging", !.seq = @ + 1, !.conn = 0, !.error = FALSE,
                           !.op = "deliver"] \in Row
        BY <1>1, <3>1, DeliveringRow
      <4> QED BY <1>1, <3>2, <4>1 DEF RowType
    <3>4. ParkedInv'
      <4>1. \A u \in Tasks \ {t} : row'[u] = row[u] BY <1>1, <3>2
      <4>2. row'[t].pending = row[t].pending /\ row'[t].seq = row[t].seq + 1
        BY <1>1, <3>2 DEF Row
      <4>3. row[t].seq \in Nat /\ row'[t].seq < MaxSeq BY <1>1, <3>1, <4>2, Bounds DEF Row
      <4> QED BY <3>2, <4>1, <4>2, <4>3 DEF TypeInv, ParkedInv, Parked
    <3>5. QueueType' BY <3>2 DEF QueueType, TypeInv, Types
    <3>6. DeliveryType' /\ DeliveryRoom'
      <4> DEFINE v == [pc |-> "push", seq |-> delivery[t].seq + 1]
      <4>1. v \in DeliveryState BY <1>1, <3>1, Bounds DEF DeliveryState
      <4> QED BY <1>1, <1>2, <3>2, <4>1
    <3> QED BY <1>8, <3>2, <3>3, <3>4, <3>5, <3>6, Frame, Parts DEF DeliverBegin
  <2> QED BY <2>1, <2>2
<1>9. CASE DeliverPush(t)
  <2>1. DeliveryType' /\ DeliveryRoom' BY <1>3, <1>9 DEF DeliverPush
  <2>2. GitType' BY <1>9 DEF DeliverPush, TypeInv, Types, GitType
  <2> QED BY <1>9, <2>1, <2>2, Frame, Parts DEF DeliverPush
<1>10. CASE DeliverSettle(t)
  <2>1. TableInv' /\ UNCHANGED clock BY <1>10, DeliveredType DEF DeliverSettle
  <2>2. DeliveryType' /\ DeliveryRoom' /\ FlightType'
    BY <1>3, <1>5, <1>10, Frame DEF DeliverSettle
  <2> QED BY <1>10, <2>1, <2>2, Frame, Parts DEF DeliverSettle, TableInv
<1>11. CASE DeliverBounce(t)
  <2>1. TableInv' /\ UNCHANGED clock BY <1>11, OutcomeType DEF DeliverBounce, BackToReview
  <2> QED BY <1>5, <1>11, <2>1, Frame, Parts DEF DeliverBounce, TableInv
<1> QED BY <1>6, <1>7, <1>8, <1>9, <1>10, <1>11 DEF DeliverStep

----------------------------------------------------------------------------
(* Restarts, and the theorem *)

\* A restart forgets all but the table, git and the forge.
LEMMA CrashType == ASSUME TypeInv, Crash PROVE TypeInv'
<1> USE Bounds DEF Crash
<1>1. \A d \in Dispatchers : dsp'[d] = [pc |-> "idle"] BY Zenon
<1>2. DspInv'
  <2>1. DspType' BY DEF DspType, Dispatcher
  <2> QED BY <1>1, <2>1, IdleOrderly DEF DspInv
<1>3. ClickInv'
  <2>1. Fresh' = {} BY <1>1 DEF Fresh, IsFresh, Locked
  <2>2. Cardinality(Fresh) \in Nat BY FS_CardinalityType DEF TypeInv, ClickInv
  <2>3. clock \in Nat /\ asks \in Nat BY DEF TypeInv, Types, QueueType, CountType
  <2> QED BY <2>1, <2>2, <2>3, FS_EmptySet DEF TypeInv, ClickInv, table
<1>4. LaunchType' /\ LaunchSeq' BY DEF LaunchType, LaunchSeq, Launch, LaunchPcs
<1>5. AgentType' BY DEF AgentType, Phases
<1>6. WireType' /\ FlightType' /\ LoopType' BY DEF WireType, FlightType, LoopType, LoopState
<1>7. RecoveryType' BY DEF RecoveryType, RecoveryState, NoRecovery
<1>8. DeliveryType' /\ DeliveryRoom' BY DEF DeliveryType, DeliveryState, DeliveryRoom
<1>9. CountType' BY DEF TypeInv, Types, CountType
<1> QED BY <1>2, <1>3, <1>4, <1>5, <1>6, <1>7, <1>8, <1>9, Frame, Parts DEF table, git

\* The invariant is inductive.
LEMMA TypeNext == TypeInv /\ [Next]_vars => TypeInv'
<1> SUFFICES ASSUME TypeInv, [Next]_vars PROVE TypeInv' OBVIOUS
<1>1. ASSUME NEW d \in Dispatchers, Pump(d) \/ Refused(d) PROVE TypeInv'
  BY <1>1, DrainType, WaitType, ParkType, BeginType, RefusalType DEF Pump
<1>2. ASSUME NEW t \in Tasks,
             User(t) \/ Rework(t) \/ DeliverStep(t) \/ RecoverList(t) \/ RecoverStep(t)
      PROVE  TypeInv'
  BY <1>2, UserType, ClickType, DeliveryStepType, RecoverType DEF User
<1>3. ASSUME NEW t \in Tasks, \/ LaunchStep(t) \/ LaunchError(t)
                              \/ \E s \in Seqs : AgentStep(t, s)
      PROVE  TypeInv'
  BY <1>3, LaunchStepType, AgentStepType
<1>4. CASE LoopStep \/ Commit \/ Crash \/ \E c \in turns : LoseTurn(c)
  BY <1>4, LoopStepType, CommitType, CrashType, LoseTurnType
<1>5. CASE UNCHANGED vars
  BY <1>5, Frame, Parts DEF vars, table, git, agents, engine, bounds
<1> QED BY <1>1, <1>2, <1>3, <1>4, <1>5 DEF Next

\* Every state of the specification satisfies it.
LEMMA TypeInvariant == Spec => []TypeInv
BY TypeInit, TypeNext, PTL DEF Spec

\* Whatever the users, the queue, the agents and the crashes do, every variable of
\* the merge queue keeps its type: in particular no place in the queue and no
\* generation is given beyond the merges asked for.
THEOREM MergeTypeCorrect == Spec => []TypeOK
<1>1. TypeInv => TypeOK BY TypesAreTypeOK DEF TypeInv
<1> QED BY <1>1, TypeInvariant, PTL
===============================================================================
