------------------------ MODULE AutomationEngineProofs ------------------------
(***************************************************************************)
(* Properties of AutomationEngine for every number of fires, instants,     *)
(* edits and faults: its types, a schedule whose instants go into one fire *)
(* and one more for each edit that took it back, successes that a turn, a  *)
(* task or the user's mark speaks for, a badge that counts every failure   *)
(* once, and agents that work for running runs.                            *)
(***************************************************************************)
EXTENDS AutomationEngine, FiniteSetTheorems, SequenceTheorems, TLAPS

----------------------------------------------------------------------------
(* The types, one named part per variable *)

NowOK    == now \in 0..MaxTime
AutoOK   == auto \in [enabled: BOOLEAN, deleted: BOOLEAN, next: 0..(MaxTime + 1), unseen: Nat]
RunOK    == run \in [Runs -> [status: Statuses, conv: BOOLEAN]]
EditOK   == edit \in [Edits -> [pc: EditPcs, on: BOOLEAN, next: 0..(MaxTime + 1)]]
FireOK   == fire \in [Runs -> [pc: FirePcs, slot: 0..MaxTime, at: 0..MaxTime]]
LockOK   == lock \in Holders
IndexOK  == index \in SUBSET Runs
ConnOK   == conn \in [Runs -> [state: {"none", "up", "gone"}, linked: BOOLEAN, turn: BOOLEAN,
                               asked: BOOLEAN]]
ConvOK   == conv \in [Runs -> ConvStatuses]
BusOK    == bus \in [Runs -> Stops \cup {"none"}]
WorkerOK == worker \in [Runs -> Seq(Stops \cup {"gone"})]
CancelOK == cancel \in [Runs -> CancelPcs]
PastOK   == past \in [earned: SUBSET Runs, vouched: SUBSET Runs, left: SUBSET Runs,
                      seen: SUBSET Runs, faults: 0..MaxFaults]

\* The loop has a run in hand where it works on one.
LoopOK == /\ loop \in [pc: LoopPcs, run: Runs \cup {NoRun}, conv: ConvStatuses,
                       owned: BOOLEAN, hopeless: BOOLEAN]
          /\ loop.pc # "idle" => loop.run \in Runs

PartyOK == IndexOK /\ ConnOK /\ ConvOK /\ BusOK /\ WorkerOK
TypeInv == /\ NowOK /\ EditOK /\ AutoOK /\ RunOK /\ FireOK /\ LockOK /\ PartyOK /\ CancelOK
           /\ LoopOK /\ PastOK

USE DEF parties, schedule

\* What a step leaves alone keeps its type.
LEMMA Frame ==
  ASSUME TypeInv
  PROVE  /\ UNCHANGED now => NowOK'
         /\ UNCHANGED edit => EditOK'
         /\ UNCHANGED auto => AutoOK'
         /\ UNCHANGED run => RunOK'
         /\ UNCHANGED fire => FireOK'
         /\ UNCHANGED lock => LockOK'
         /\ UNCHANGED index => IndexOK'
         /\ UNCHANGED conn => ConnOK'
         /\ UNCHANGED conv => ConvOK'
         /\ UNCHANGED bus => BusOK'
         /\ UNCHANGED worker => WorkerOK'
         /\ UNCHANGED cancel => CancelOK'
         /\ UNCHANGED loop => LoopOK'
         /\ UNCHANGED past => PastOK'
BY DEF TypeInv, PartyOK, NowOK, EditOK, AutoOK, RunOK, FireOK, LockOK, IndexOK, ConnOK, ConvOK,
       BusOK, WorkerOK, CancelOK, LoopOK, PastOK

\* At the start every variable has its type.
LEMMA TypeInit == Init => TypeInv
<1> SUFFICES ASSUME Init PROVE TypeInv OBVIOUS
<1>1. NowOK /\ PastOK BY BoundAssumption DEF Init, NowOK, PastOK
<1>2. AutoOK /\ EditOK BY BoundAssumption DEF Init, AutoOK, EditOK, EditPcs
<1>3. RunOK BY DEF Init, RunOK, Statuses
<1>4. FireOK BY BoundAssumption DEF Init, FireOK, FirePcs
<1>5. LockOK /\ CancelOK BY DEF Init, LockOK, Holders, CancelOK, CancelPcs
<1>6. LoopOK BY DEF Init, LoopOK, Idle, LoopPcs, ConvStatuses, Finished
<1>7. IndexOK /\ ConvOK /\ BusOK BY DEF Init, IndexOK, ConvOK, ConvStatuses, Finished, BusOK
<1>8. ConnOK BY DEF Init, ConnOK, NoConn
<1>9. WorkerOK
  <2>1. <<>> \in Seq(Stops \cup {"gone"}) BY EmptySeq
  <2> QED BY <2>1 DEF Init, WorkerOK
<1> QED BY <1>1, <1>2, <1>3, <1>4, <1>5, <1>6, <1>7, <1>8, <1>9 DEF TypeInv, PartyOK

----------------------------------------------------------------------------
(* The building blocks keep the types *)

\* A fire moves between its places.
LEMMA GoType ==
  ASSUME FireOK, NEW r \in Runs, NEW pc \in FirePcs, Go(r, pc)
  PROVE  FireOK'
BY DEF FireOK, Go

\* A fault is counted up to the bound.
LEMMA FaultType == ASSUME PastOK, Fault PROVE PastOK'
BY BoundAssumption DEF PastOK, Fault

\* A settlement leaves a status behind, and a badge.
LEMMA SettleType ==
  ASSUME AutoOK, RunOK, NEW r \in Runs, NEW s \in Settled, SettleRun(r, s)
  PROVE  AutoOK' /\ RunOK'
<1>1. CASE Running(r)
  <2>1. RunOK' BY <1>1 DEF RunOK, SettleRun, Statuses
  <2>2. AutoOK' BY <1>1 DEF AutoOK, SettleRun
  <2> QED BY <2>1, <2>2
<1>2. CASE ~Running(r) BY <1>2 DEF SettleRun, AutoOK, RunOK
<1> QED BY <1>1, <1>2

\* So does one whose write may fail.
LEMMA MaySettleType ==
  ASSUME AutoOK, RunOK, PastOK, NEW r \in Runs, NEW s \in Settled, Settle(r, s)
  PROVE  AutoOK' /\ RunOK' /\ PastOK'
<1>1. CASE SettleRun(r, s) /\ UNCHANGED past
  BY <1>1, SettleType DEF PastOK
<1>2. CASE Fault /\ UNCHANGED <<run, auto>>
  BY <1>2, FaultType DEF AutoOK, RunOK
<1> QED BY <1>1, <1>2 DEF Settle

\* A connection without a turn is one of the manager's.
LEMMA QuietType ==
  ASSUME ConnOK, NEW r \in Runs, NEW state \in {"none", "up", "gone"}
  PROVE  Quiet(r, state) \in [state: {"none", "up", "gone"}, linked: BOOLEAN, turn: BOOLEAN,
                              asked: BOOLEAN]
BY DEF ConnOK, Quiet

\* A disconnect tells the worker.
LEMMA DisconnectType ==
  ASSUME ConnOK, WorkerOK, NEW r \in Runs, Disconnect(r)
  PROVE  ConnOK' /\ WorkerOK'
<1>1. CASE Up(r)
  <2>1. ConnOK'
    <3>1. Quiet(r, "gone") \in [state: {"none", "up", "gone"}, linked: BOOLEAN, turn: BOOLEAN,
                                asked: BOOLEAN]
      BY QuietType
    <3> QED BY <1>1, <3>1 DEF Disconnect, ConnOK
  <2>2. Append(worker[r], "gone") \in Seq(Stops \cup {"gone"})
    BY AppendProperties DEF WorkerOK
  <2>3. WorkerOK' BY <1>1, <2>2 DEF WorkerOK, Disconnect
  <2> QED BY <2>1, <2>3
<1>2. CASE ~Up(r) BY <1>2 DEF Disconnect, ConnOK, WorkerOK
<1> QED BY <1>1, <1>2

\* So does a launch that gives up its agent.
LEMMA AbandonType ==
  ASSUME PartyOK, NEW r \in Runs, Abandon(r), UNCHANGED bus
  PROVE  PartyOK'
<1>1. ConnOK' /\ WorkerOK' BY DisconnectType DEF PartyOK, Abandon
<1>2. IndexOK' BY DEF PartyOK, IndexOK, Abandon
<1>3. ConvOK' BY DEF PartyOK, ConvOK, ConvStatuses, Finished, Abandon
<1> QED BY <1>1, <1>2, <1>3 DEF PartyOK, BusOK

\* Asking an agent to stop touches its connection and its conversation.
LEMMA AskType ==
  ASSUME ConnOK, ConvOK, NEW r \in Runs, AskToStop(r)
  PROVE  ConnOK' /\ ConvOK'
<1>1. ConnOK' BY DEF ConnOK, AskToStop
<1>2. ConvOK' BY DEF ConvOK, ConvStatuses, Finished, AskToStop
<1> QED BY <1>1, <1>2

----------------------------------------------------------------------------
(* Every step keeps the types *)

\* A launch keeps the types.
LEMMA LaunchType == ASSUME TypeInv, NEW r \in Runs, Launch(r) PROVE TypeInv'
<1> USE Frame
<1> DEFINE Moved == \E pc \in FirePcs : Go(r, pc)
<1>0. Moved => FireOK' BY GoType DEF TypeInv
<1>a. Free \in Holders /\ <<"fire", r>> \in Holders BY DEF Holders
<1>b. lock' = Free => LockOK' BY <1>a DEF LockOK
<1>1. CASE Begin(r)
  <2>1. FireOK' BY <1>0, <1>1 DEF Begin, FirePcs
  <2>2. RunOK' BY <1>1 DEF Begin, RunOK, TypeInv, Statuses
  <2>3. LockOK' BY <1>a, <1>1 DEF Begin, LockOK
  <2>4. PastOK' BY <1>1, FaultType DEF Begin, TypeInv
  <2> QED BY <1>1, <2>1, <2>2, <2>3, <2>4 DEF Begin, TypeInv, PartyOK
<1>2. CASE FileTask(r)
  <2>1. FireOK' BY <1>0, <1>2 DEF FileTask, FirePcs
  <2>2. PastOK' BY <1>2 DEF FileTask, PastOK, TypeInv
  <2> QED BY <1>2, <2>1, <2>2 DEF FileTask, TypeInv, PartyOK
<1>3. CASE SettleTask(r)
  <2>1. FireOK' BY <1>0, <1>3 DEF SettleTask, FirePcs
  <2>2. AutoOK' /\ RunOK' BY <1>3, SettleType DEF SettleTask, TypeInv, Settled
  <2>3. PastOK' BY <1>3, FaultType DEF SettleTask, TypeInv
  <2>4. LockOK' BY <1>b, <1>3 DEF SettleTask
  <2> QED BY <1>3, <2>1, <2>2, <2>3, <2>4 DEF SettleTask, TypeInv, PartyOK
<1>4. CASE LaunchFails(r)
  <2>1. FireOK' BY <1>0, <1>4 DEF LaunchFails, FirePcs
  <2> QED BY <1>4, <2>1 DEF LaunchFails, TypeInv, PartyOK
<1>5. CASE Gate(r)
  <2>1. FireOK' BY <1>0, <1>5 DEF Gate, FirePcs
  <2>2. LockOK' BY <1>b, <1>5 DEF Gate
  <2> QED BY <1>5, <2>1, <2>2 DEF Gate, TypeInv, PartyOK
<1>6. CASE Spawn(r)
  <2>1. FireOK' BY <1>0, <1>6 DEF Spawn, FirePcs
  <2>2. ConnOK' BY <1>6 DEF Spawn, ConnOK, TypeInv, PartyOK
  <2> QED BY <1>6, <2>1, <2>2 DEF Spawn, TypeInv, PartyOK
<1>7. CASE CreateConversation(r)
  <2>1. FireOK' BY <1>0, <1>7 DEF CreateConversation, FirePcs
  <2>2. ConnOK' /\ WorkerOK'
    BY <1>7, DisconnectType DEF CreateConversation, TypeInv, PartyOK
  <2>3. ConvOK' BY <1>7 DEF CreateConversation, ConvOK, ConvStatuses, Finished, TypeInv, PartyOK
  <2>4. IndexOK' BY <1>7 DEF CreateConversation, IndexOK, TypeInv, PartyOK
  <2>5. PastOK' BY <1>7, FaultType DEF CreateConversation, TypeInv
  <2> QED BY <1>7, <2>1, <2>2, <2>3, <2>4, <2>5 DEF CreateConversation, TypeInv, PartyOK
<1>8. CASE Attach(r)
  <2>1. FireOK' BY <1>0, <1>8 DEF Attach, FirePcs
  <2>2. RunOK' BY <1>8 DEF Attach, RunOK, TypeInv
  <2>3. PastOK' BY <1>8, FaultType DEF Attach, TypeInv
  <2> QED BY <1>8, <2>1, <2>2, <2>3 DEF Attach, TypeInv, PartyOK
<1>9. CASE LastGate(r)
  <2>1. FireOK' BY <1>0, <1>9 DEF LastGate, FirePcs
  <2>2. LockOK' BY <1>b, <1>9 DEF LastGate
  <2>3. PartyOK' BY <1>9, AbandonType DEF LastGate, TypeInv, PartyOK
  <2> QED BY <1>9, <2>1, <2>2, <2>3 DEF LastGate, TypeInv
<1>10. CASE Prompt(r)
  <2>1. FireOK' BY <1>0, <1>10 DEF Prompt, FirePcs
  <2>2. LockOK' BY <1>b, <1>10 DEF Prompt
  <2>3. PartyOK'
    <3>1. CASE Abandon(r) BY <1>10, <3>1, AbandonType DEF Prompt, TypeInv
    <3>2. CASE ~Abandon(r)
      <4>1. ConnOK'
        <5> DEFINE linked == [state |-> "up", linked |-> TRUE, turn |-> TRUE, asked |-> FALSE]
        <5>1. linked \in [state: {"none", "up", "gone"}, linked: BOOLEAN, turn: BOOLEAN,
                          asked: BOOLEAN]
          OBVIOUS
        <5>2. conn' = [conn EXCEPT ![r] = linked] BY <1>10, <3>2 DEF Prompt
        <5> HIDE DEF linked
        <5> QED BY <5>1, <5>2 DEF ConnOK, TypeInv, PartyOK
      <4>2. ConvOK' BY <1>10, <3>2 DEF Prompt, ConvOK, ConvStatuses, Finished, TypeInv, PartyOK
      <4> QED BY <1>10, <3>2, <4>1, <4>2 DEF Prompt, PartyOK
    <3> QED BY <1>10, <3>1, <3>2 DEF Prompt
  <2>4. PastOK' BY <1>10, FaultType DEF Prompt, TypeInv
  <2> QED BY <1>10, <2>1, <2>2, <2>3, <2>4 DEF Prompt, TypeInv
<1>11. CASE FailRun(r)
  <2>1. FireOK' BY <1>0, <1>11 DEF FailRun, FirePcs
  <2>2. AutoOK' /\ RunOK' /\ PastOK' BY <1>11, MaySettleType DEF FailRun, TypeInv, Settled
  <2>3. LockOK' BY <1>b, <1>11 DEF FailRun
  <2> QED BY <1>11, <2>1, <2>2, <2>3 DEF FailRun, TypeInv, PartyOK
<1> QED BY <1>1, <1>2, <1>3, <1>4, <1>5, <1>6, <1>7, <1>8, <1>9, <1>10, <1>11 DEF Launch

\* The fires, the agents and their workers keep the types.
LEMMA AgentType ==
  ASSUME TypeInv, NEW r \in Runs,
         \/ Claim(r) \/ Click(r) \/ AgentDies(r) \/ Lag(r) \/ SweepIdle(r) \/ UserStops(r)
         \/ GrowOld(r) \/ Worker(r) \/ (\E stop \in Stops : TurnEnds(r, stop))
  PROVE  TypeInv'
<1> USE Frame
<1>1. CASE Claim(r)
  <2>1. now \in 0..MaxTime BY DEF TypeInv, NowOK
  <2>2. AutoOK' BY <1>1, <2>1, BoundAssumption DEF Claim, CatchUp, NextAfter, AutoOK, TypeInv
  <2>3. auto.next \in 0..MaxTime BY <1>1, <2>1, BoundAssumption DEF Claim, AutoOK, TypeInv
  <2>4. FireOK' BY <1>1, <2>1, <2>3 DEF Claim, FireOK, FirePcs, TypeInv
  <2> QED BY <1>1, <2>2, <2>4 DEF Claim, TypeInv, PartyOK
<1>2. CASE Click(r)
  <2>1. FireOK' BY <1>2, GoType DEF Click, FirePcs, TypeInv
  <2> QED BY <1>2, <2>1 DEF Click, TypeInv, PartyOK
<1>3. CASE AgentDies(r)
  <2>1. ConnOK' /\ WorkerOK' BY <1>3, DisconnectType DEF AgentDies, TypeInv, PartyOK
  <2>2. PastOK' BY <1>3, FaultType DEF AgentDies, TypeInv
  <2> QED BY <1>3, <2>1, <2>2 DEF AgentDies, TypeInv, PartyOK
<1>4. CASE Lag(r)
  <2>1. BusOK' BY <1>4 DEF Lag, BusOK, TypeInv, PartyOK
  <2>2. PastOK' BY <1>4, FaultType DEF Lag, TypeInv
  <2> QED BY <1>4, <2>1, <2>2 DEF Lag, TypeInv, PartyOK
<1>5. CASE SweepIdle(r)
  <2>1. ConnOK' /\ WorkerOK' BY <1>5, DisconnectType DEF SweepIdle, TypeInv, PartyOK
  <2> QED BY <1>5, <2>1 DEF SweepIdle, TypeInv, PartyOK
<1>6. CASE UserStops(r)
  <2>1. ConnOK' /\ ConvOK' BY <1>6, AskType DEF UserStops, TypeInv, PartyOK
  <2> QED BY <1>6, <2>1 DEF UserStops, TypeInv, PartyOK
<1>7. CASE GrowOld(r)
  <2>1. FireOK' BY <1>7, GoType DEF GrowOld, FirePcs, TypeInv
  <2> QED BY <1>7, <2>1 DEF GrowOld, TypeInv, PartyOK
<1>8. CASE Worker(r)
  <2>1. worker[r] # <<>> /\ worker[r] \in Seq(Stops \cup {"gone"})
    BY <1>8 DEF Worker, WorkerTurn, WorkerGone, Heard, TypeInv, PartyOK, WorkerOK
  <2>2. Tail(worker[r]) \in Seq(Stops \cup {"gone"}) BY <2>1, HeadTailProperties
  <2>3. WorkerOK'
    BY <1>8, <2>2 DEF Worker, WorkerTurn, WorkerGone, TypeInv, PartyOK, WorkerOK
  <2>4. ConvOK'
    BY <1>8 DEF Worker, WorkerTurn, WorkerGone, TypeInv, PartyOK, ConvOK, ConvStatuses, Finished
  <2> QED BY <1>8, <2>3, <2>4 DEF Worker, WorkerTurn, WorkerGone, TypeInv, PartyOK
<1>9. ASSUME NEW stop \in Stops, TurnEnds(r, stop) PROVE TypeInv'
  <2>1. ConnOK' BY <1>9, QuietType DEF TurnEnds, ConnOK, TypeInv, PartyOK
  <2>2. BusOK' BY <1>9 DEF TurnEnds, BusOK, TypeInv, PartyOK
  <2>3. Append(worker[r], stop) \in Seq(Stops \cup {"gone"})
    BY AppendProperties DEF TypeInv, PartyOK, WorkerOK
  <2>4. WorkerOK' BY <1>9, <2>3 DEF TurnEnds, WorkerOK, TypeInv, PartyOK
  <2>5. PastOK' BY <1>9 DEF TurnEnds, PastOK, TypeInv
  <2> QED BY <1>9, <2>1, <2>2, <2>4, <2>5 DEF TurnEnds, TypeInv, PartyOK
<1> QED BY <1>1, <1>2, <1>3, <1>4, <1>5, <1>6, <1>7, <1>8, <1>9

\* What the loop concludes is a settlement, or nothing.
LEMMA VerdictType ==
  ASSUME NEW status, NEW hopeless
  PROVE  Verdict(status, hopeless) \in Settled \cup {"none"}
BY DEF Verdict, Settled

\* So is what it makes of a stop reason.
LEMMA OutcomeType == ASSUME NEW stop PROVE Outcome(stop) \in Settled
BY DEF Outcome, Settled

\* The engine's loop keeps the types.
LEMMA LoopType ==
  ASSUME TypeInv, (\E r \in Runs : OnEvent(r)) \/ Cut \/ Reconcile PROVE TypeInv'
<1> USE Frame
<1>1. ASSUME NEW r \in Runs, OnEvent(r) PROVE TypeInv'
  <2>1. AutoOK' /\ RunOK' /\ PastOK'
    BY <1>1, OutcomeType, MaySettleType DEF OnEvent, TypeInv
  <2>2. BusOK' BY <1>1 DEF OnEvent, BusOK, TypeInv, PartyOK
  <2>3. LoopOK' BY <1>1 DEF OnEvent, LoopOK, LoopPcs, TypeInv
  <2> QED BY <1>1, <2>1, <2>2, <2>3 DEF OnEvent, TypeInv, PartyOK
<1>2. CASE Cut
  <2>1. loop.run \in Runs BY <1>2 DEF Cut, LoopOK, TypeInv
  <2>2. ConnOK' /\ WorkerOK' BY <1>2, <2>1, DisconnectType DEF Cut, TypeInv, PartyOK
  <2>3. IndexOK' BY <1>2 DEF Cut, IndexOK, TypeInv, PartyOK
  <2>4. LoopOK' BY <1>2 DEF Cut, LoopOK, LoopPcs, Idle, ConvStatuses, Finished
  <2> QED BY <1>2, <2>2, <2>3, <2>4 DEF Cut, TypeInv, PartyOK
<1>3. ASSUME NEW r \in Runs, List(r) PROVE TypeInv'
  <2>1. LoopOK' BY <1>3 DEF List, LoopOK, LoopPcs, Idle, ConvStatuses, Finished
  <2> QED BY <1>3, <2>1 DEF List, TypeInv, PartyOK
<1>4. CASE SortOut
  <2> DEFINE owned == loop.run \in index
             hopeless == owned \/ At(loop.run, "overdue")
             pc == IF owned THEN "owned" ELSE "reading"
  <2>1. owned \in BOOLEAN /\ hopeless \in BOOLEAN /\ pc \in LoopPcs BY DEF At, LoopPcs
  <2>2. loop' = [loop EXCEPT !.pc = pc, !.owned = owned, !.hopeless = hopeless]
    BY <1>4 DEF SortOut
  <2>3. loop.run \in Runs BY <1>4 DEF SortOut, LoopOK, TypeInv
  <2> HIDE DEF owned, hopeless, pc
  <2>4. loop' \in [pc: LoopPcs, run: Runs \cup {NoRun}, conv: ConvStatuses,
                   owned: BOOLEAN, hopeless: BOOLEAN]
    BY <2>1, <2>2, Zenon DEF LoopOK, TypeInv
  <2>5. loop'.run = loop.run BY <2>2, Zenon DEF LoopOK, TypeInv
  <2>6. LoopOK' BY <2>3, <2>4, <2>5 DEF LoopOK
  <2> QED BY <1>4, <2>6 DEF SortOut, TypeInv, PartyOK
<1>5. CASE LookUp
  <2>1. LoopOK' BY <1>5 DEF LookUp, LoopOK, LoopPcs, Idle, ConvStatuses, Finished, TypeInv
  <2> QED BY <1>5, <2>1 DEF LookUp, TypeInv, PartyOK
<1>6. CASE ReadConversation
  <2>1. loop.run \in Runs BY <1>6 DEF ReadConversation, LoopOK, TypeInv
  <2>2. conv[loop.run] \in ConvStatuses /\ "none" \in ConvStatuses
    BY <2>1 DEF TypeInv, PartyOK, ConvOK, ConvStatuses, Finished
  <2>3. LoopOK' BY <1>6, <2>2 DEF ReadConversation, LoopOK, LoopPcs, TypeInv
  <2> QED BY <1>6, <2>3 DEF ReadConversation, TypeInv, PartyOK
<1>7. CASE Conclude
  <2>1. loop.run \in Runs BY <1>7 DEF Conclude, LoopOK, TypeInv
  <2>2. AutoOK' /\ RunOK' /\ PastOK'
    BY <1>7, <2>1, VerdictType, MaySettleType DEF Conclude, TypeInv
  <2>3. IndexOK' BY <1>7 DEF Conclude, IndexOK, TypeInv, PartyOK
  <2>4. LoopOK' BY <1>7 DEF Conclude, LoopOK, LoopPcs, Idle, ConvStatuses, Finished
  <2> QED BY <1>7, <2>2, <2>3, <2>4 DEF Conclude, TypeInv, PartyOK
<1> QED BY <1>1, <1>2, <1>3, <1>4, <1>5, <1>6, <1>7 DEF Reconcile

\* The runs are finitely many.
LEMMA RunsFinite == ASSUME NEW S \in SUBSET Runs PROVE IsFiniteSet(S) /\ Cardinality(S) \in Nat
<1>1. IsFiniteSet(1..MaxRuns) BY BoundAssumption, FS_Interval
<1>2. IsFiniteSet(S) BY <1>1, FS_Subset DEF Runs
<1> QED BY <1>2, FS_CardinalityType

\* An edit that is over says nothing any more.
LEMMA OverType == Over \in [pc: EditPcs, on: BOOLEAN, next: 0..(MaxTime + 1)]
BY BoundAssumption DEF Over, EditPcs

\* A mark of the user is remembered, and counted as a fault.
LEMMA MarkType ==
  ASSUME PastOK, NEW r \in Runs, NEW status \in ConvStatuses, MarkConversation(r, status)
  PROVE  PastOK'
<1> DEFINE vouched == IF status \in Finished THEN past.vouched \cup {r} ELSE past.vouched
           left == IF status = "in_progress" THEN past.left \cup {r} ELSE past.left
<1>1. past.faults + 1 \in 0..MaxFaults
  <2>1. past.faults < MaxFaults BY DEF MarkConversation
  <2>2. past.faults \in 0..MaxFaults BY DEF PastOK
  <2> QED BY <2>1, <2>2, BoundAssumption
<1>2. vouched \in SUBSET Runs /\ left \in SUBSET Runs BY DEF PastOK
<1>3. past' = [past EXCEPT !.faults = past.faults + 1, !.vouched = vouched, !.left = left]
  BY DEF MarkConversation
<1> HIDE DEF vouched, left
<1> QED BY <1>1, <1>2, <1>3, Zenon DEF PastOK

\* Cancels, the user, the time and the process keep the types.
LEMMA UserType ==
  ASSUME TypeInv,
         \/ \E r \in Runs : CancelRun(r) \/ Cancelling(r)
         \/ User \/ Tick \/ Restart
  PROVE  TypeInv'
<1> USE Frame
<1>1. ASSUME NEW r \in Runs, CancelRun(r) PROVE TypeInv'
  <2>1. AutoOK' /\ RunOK' BY <1>1, SettleType DEF CancelRun, TypeInv, Settled
  <2>2. CancelOK' BY <1>1 DEF CancelRun, CancelOK, CancelPcs, TypeInv
  <2> QED BY <1>1, <2>1, <2>2 DEF CancelRun, TypeInv, PartyOK
<1>2. ASSUME NEW r \in Runs, CancelLock(r) PROVE TypeInv'
  <2>1. CancelOK' BY <1>2 DEF CancelLock, CancelOK, CancelPcs, TypeInv
  <2>2. LockOK' BY <1>2 DEF CancelLock, LockOK, Holders
  <2> QED BY <1>2, <2>1, <2>2 DEF CancelLock, TypeInv, PartyOK
<1>3. ASSUME NEW r \in Runs, CancelAsk(r) PROVE TypeInv'
  <2>1. ConnOK' /\ ConvOK' BY <1>3, AskType DEF CancelAsk, TypeInv, PartyOK
  <2>2. CancelOK' BY <1>3 DEF CancelAsk, CancelOK, CancelPcs, TypeInv
  <2> QED BY <1>3, <2>1, <2>2 DEF CancelAsk, TypeInv, PartyOK
<1>4. ASSUME NEW r \in Runs, CancelCut(r) PROVE TypeInv'
  <2>1. ConnOK' /\ WorkerOK' BY <1>4, DisconnectType DEF CancelCut, TypeInv, PartyOK
  <2>2. IndexOK' BY <1>4 DEF CancelCut, IndexOK, TypeInv, PartyOK
  <2>3. ConvOK' BY <1>4 DEF CancelCut, ConvOK, ConvStatuses, Finished, TypeInv, PartyOK
  <2>4. CancelOK' BY <1>4 DEF CancelCut, CancelOK, CancelPcs, TypeInv
  <2>5. LockOK' BY <1>4 DEF CancelCut, LockOK, Holders
  <2> QED BY <1>4, <2>1, <2>2, <2>3, <2>4, <2>5 DEF CancelCut, TypeInv, PartyOK
<1>5. ASSUME NEW e \in Edits, NEW on \in BOOLEAN, SetEnabled(e, on) PROVE TypeInv'
  <2>1. now \in 0..MaxTime BY DEF TypeInv, NowOK
  <2> DEFINE next == IF on THEN NextAfter(now) ELSE 0
             drawn == [pc |-> "ready", on |-> on, next |-> next]
  <2>2. next \in 0..(MaxTime + 1) BY <2>1, BoundAssumption DEF NextAfter
  <2>3. edit' = [edit EXCEPT ![e] = drawn] BY <1>5 DEF SetEnabled
  <2> HIDE DEF next
  <2>4. drawn \in [pc: EditPcs, on: BOOLEAN, next: 0..(MaxTime + 1)] BY <2>2 DEF EditPcs
  <2> HIDE DEF drawn
  <2>5. EditOK' BY <2>3, <2>4 DEF EditOK, TypeInv
  <2>6. PastOK' BY <1>5, FaultType DEF SetEnabled, TypeInv
  <2> QED BY <1>5, <2>5, <2>6 DEF SetEnabled, TypeInv, PartyOK
<1>10. ASSUME NEW e \in Edits, WriteEdit(e) PROVE TypeInv'
  <2>1. edit[e].next \in 0..(MaxTime + 1) /\ edit[e].on \in BOOLEAN BY DEF EditOK, TypeInv
  <2>2. AutoOK' BY <1>10, <2>1, Zenon DEF WriteEdit, AutoOK, TypeInv
  <2>3. EditOK'
    <3>1. [edit[e] EXCEPT !.pc = "back"] \in [pc: EditPcs, on: BOOLEAN, next: 0..(MaxTime + 1)]
      BY DEF EditOK, EditPcs, TypeInv
    <3> QED BY <1>10, <3>1, OverType DEF WriteEdit, EditOK, TypeInv
  <2> QED BY <1>10, <2>2, <2>3 DEF WriteEdit, TypeInv, PartyOK
<1>11. ASSUME NEW r \in Runs, NEW status \in ConvStatuses, MarkConversation(r, status)
       PROVE  TypeInv'
  <2>1. ConvOK' BY <1>11 DEF MarkConversation, ConvOK, TypeInv, PartyOK
  <2>2. PastOK' BY <1>11, MarkType DEF TypeInv
  <2> QED BY <1>11, <2>1, <2>2 DEF MarkConversation, TypeInv, PartyOK
<1>6. CASE Delete
  <2>1. 0 \in 0..(MaxTime + 1) BY BoundAssumption
  <2>3. AutoOK' BY <1>6, <2>1, Zenon DEF Delete, AutoOK, TypeInv
  <2>2. PastOK' BY <1>6, FaultType DEF Delete, TypeInv
  <2> QED BY <1>6, <2>2, <2>3 DEF Delete, TypeInv, PartyOK
<1>7. CASE MarkSeen
  <2>1. AutoOK' BY <1>7 DEF MarkSeen, AutoOK, TypeInv
  <2>2. PastOK' BY <1>7 DEF MarkSeen, PastOK, TypeInv
  <2> QED BY <1>7, <2>1, <2>2 DEF MarkSeen, TypeInv, PartyOK
<1>8. CASE Tick
  <2>1. NowOK' BY <1>8, BoundAssumption DEF Tick, NowOK, TypeInv
  <2> QED BY <1>8, <2>1 DEF Tick, TypeInv, PartyOK
<1>9. CASE Restart
  <2>1. Cardinality(Active) \in Nat BY RunsFinite DEF Active
  <2>2. AutoOK' BY <1>9, <2>1 DEF Restart, AutoOK, TypeInv
  <2>3. RunOK'
    <3>1. \A r \in Runs : [run[r] EXCEPT !.status = "failed"] \in [status: Statuses, conv: BOOLEAN]
      BY DEF RunOK, Statuses, Settled, TypeInv
    <3> QED BY <1>9, <3>1 DEF Restart, RunOK, TypeInv
  <2>4. FireOK'
    <3>1. \A r \in Runs : [fire[r] EXCEPT !.pc = "done"]
                          \in [pc: FirePcs, slot: 0..MaxTime, at: 0..MaxTime]
      BY DEF FireOK, FirePcs, TypeInv
    <3> QED BY <1>9, <3>1 DEF Restart, FireOK, TypeInv
  <2>5. LockOK' /\ CancelOK' BY <1>9 DEF Restart, LockOK, Holders, CancelOK, CancelPcs, TypeInv
  <2>6. IndexOK' /\ BusOK' BY <1>9 DEF Restart, IndexOK, BusOK
  <2>7. ConnOK'
    <3> DEFINE gone == [NoConn EXCEPT !.state = "gone"]
    <3>1. gone \in [state: {"none", "up", "gone"}, linked: BOOLEAN, turn: BOOLEAN, asked: BOOLEAN]
      BY DEF NoConn
    <3>2. conn' = [r \in Runs |-> IF Up(r) THEN gone ELSE conn[r]] BY <1>9 DEF Restart
    <3> HIDE DEF gone
    <3> QED BY <3>1, <3>2 DEF ConnOK, TypeInv, PartyOK
  <2>8. WorkerOK' BY <1>9, EmptySeq DEF Restart, WorkerOK
  <2>9. LoopOK' BY <1>9 DEF Restart, LoopOK, LoopPcs, Idle, ConvStatuses, Finished
  <2>10. PastOK'
    <3> DEFINE left == past.left \cup {r \in Runs : conv[r] = "in_progress"}
    <3>1. past.faults + 1 \in 0..MaxFaults
      <4>1. past.faults < MaxFaults BY <1>9 DEF Restart
      <4>2. past.faults \in 0..MaxFaults BY DEF PastOK, TypeInv
      <4> QED BY <4>1, <4>2, BoundAssumption
    <3>2. left \in SUBSET Runs BY DEF PastOK, TypeInv
    <3>3. past' = [past EXCEPT !.faults = past.faults + 1, !.left = left] BY <1>9 DEF Restart
    <3> HIDE DEF left
    <3> QED BY <3>1, <3>2, <3>3, Zenon DEF PastOK, TypeInv
  <2>11. EditOK' BY <1>9, OverType DEF Restart, EditOK, TypeInv
  <2> QED BY <1>9, <2>2, <2>3, <2>4, <2>5, <2>6, <2>7, <2>8, <2>9, <2>10, <2>11
          DEF Restart, TypeInv, PartyOK
<1> QED BY <1>1, <1>2, <1>3, <1>4, <1>5, <1>6, <1>7, <1>8, <1>9, <1>10, <1>11
        DEF Cancelling, User, Editing, Marking

\* So does every step.
LEMMA TypeNext == TypeInv /\ [Next]_vars => TypeInv'
<1> SUFFICES ASSUME TypeInv, [Next]_vars PROVE TypeInv' OBVIOUS
<1>1. CASE UNCHANGED vars BY <1>1, Frame DEF vars, TypeInv, PartyOK
<1>2. CASE Next BY <1>2, LaunchType, AgentType, LoopType, UserType DEF Next
<1> QED BY <1>1, <1>2

----------------------------------------------------------------------------
(* The schedule: an instant is due, or it went into a fire, and not both but *)
(* for the edits that took the schedule back                                 *)

Due(t) == IF auto.next # 0 /\ auto.next <= t THEN 1 ELSE 0
SlotInv == \A t \in 1..MaxTime : Cardinality(Fires(t)) + Due(t) <= 1 + Cardinality(Backs(t))

\* The edits are finitely many.
LEMMA EditsFinite == ASSUME NEW S \in SUBSET Edits PROVE IsFiniteSet(S) /\ Cardinality(S) \in Nat
<1>1. IsFiniteSet(1..MaxEdits) BY BoundAssumption, FS_Interval
<1>2. IsFiniteSet(S) BY <1>1, FS_Subset DEF Edits
<1> QED BY <1>2, FS_CardinalityType

\* The counts are numbers.
LEMMA SlotCounts ==
  ASSUME NEW t
  PROVE  /\ Cardinality(Fires(t)) \in Nat /\ Cardinality(Fires(t)') \in Nat
         /\ Cardinality(Backs(t)) \in Nat /\ Cardinality(Backs(t)') \in Nat
         /\ Due(t) \in {0, 1} /\ Due(t)' \in {0, 1}
<1>1. Fires(t) \in SUBSET Runs /\ Fires(t)' \in SUBSET Runs BY DEF Fires
<1>2. Backs(t) \in SUBSET Edits /\ Backs(t)' \in SUBSET Edits BY DEF Backs
<1> QED BY <1>1, <1>2, RunsFinite, EditsFinite DEF Due

\* A set that gains at most one element gains at most one in its count.
LEMMA GainsOne ==
  ASSUME NEW S, IsFiniteSet(S), NEW x, NEW T \in SUBSET (S \cup {x})
  PROVE  Cardinality(T) <= Cardinality(S) + 1
<1>0. Cardinality(S) \in Nat BY FS_CardinalityType
<1>1. IsFiniteSet(S \cup {x}) /\ Cardinality(S \cup {x}) <= Cardinality(S) + 1
  <2>1. CASE x \in S
    <3>1. S \cup {x} = S BY <2>1
    <3> QED BY <1>0, <3>1
  <2>2. CASE x \notin S
    <3>1. IsFiniteSet(S \cup {x}) /\ Cardinality(S \cup {x}) = Cardinality(S) + 1
      BY <2>2, FS_AddElement
    <3> QED BY <1>0, <3>1
  <2> QED BY <2>1, <2>2
<1>2. Cardinality(T) <= Cardinality(S \cup {x}) /\ IsFiniteSet(T) BY <1>1, FS_Subset
<1> QED BY <1>0, <1>1, <1>2, FS_CardinalityType

\* At the start nothing was fired.
LEMMA SlotInit == Init => SlotInv
<1> SUFFICES ASSUME Init, NEW t \in 1..MaxTime
             PROVE  Cardinality(Fires(t)) + Due(t) <= 1 + Cardinality(Backs(t))
  BY DEF SlotInv
<1>1. Fires(t) = {} BY DEF Init, Fires
<1>2. Cardinality(Fires(t)) = 0 BY <1>1, FS_EmptySet
<1> QED BY <1>2, SlotCounts

\* Whatever leaves the schedule, the instants of the fires and the edits that took it
\* back alone.
LEMMA SlotStill ==
  ASSUME SlotInv, auto'.next = auto.next, \A t : Backs(t)' = Backs(t),
         \A r \in Runs : fire'[r].slot = fire[r].slot /\ fire'[r].at = fire[r].at
  PROVE  SlotInv'
<1> SUFFICES ASSUME NEW t \in 1..MaxTime
             PROVE  Cardinality(Fires(t)') + Due(t)' <= 1 + Cardinality(Backs(t)')
  BY DEF SlotInv
<1>1. Fires(t)' = Fires(t) BY DEF Fires
<1>2. Due(t)' = Due(t) BY DEF Due
<1> QED BY <1>1, <1>2 DEF SlotInv

\* Steps that are no edit took nothing back.
LEMMA BacksStill == edit' = edit => \A t : Backs(t)' = Backs(t)
BY DEF Backs

\* A settlement is no matter of the schedule, nor is a move of a fire.
LEMMA SettleNext ==
  ASSUME AutoOK, NEW r \in Runs, NEW s \in Settled, SettleRun(r, s)
  PROVE  auto'.next = auto.next
<1>1. CASE Running(r) BY <1>1 DEF SettleRun, AutoOK
<1>2. CASE ~Running(r) BY <1>2 DEF SettleRun
<1> QED BY <1>1, <1>2

\* Not even one whose write fails.
LEMMA MaySettleNext ==
  ASSUME AutoOK, NEW r \in Runs, NEW s \in Settled, Settle(r, s)
  PROVE  auto'.next = auto.next
BY SettleNext DEF Settle

\* A fire keeps the instants it was claimed for and at.
LEMMA GoAt ==
  ASSUME FireOK, NEW r \in Runs, NEW pc, Go(r, pc)
  PROVE  \A s \in Runs : fire'[s].slot = fire[s].slot /\ fire'[s].at = fire[s].at
BY DEF FireOK, Go

\* A claim takes what is due up to the present, and nothing else.
LEMMA SlotClaim == ASSUME TypeInv, SlotInv, NEW r \in Runs, Claim(r) PROVE SlotInv'
<1> SUFFICES ASSUME NEW t \in 1..MaxTime
             PROVE  Cardinality(Fires(t)') + Due(t)' <= 1 + Cardinality(Backs(t)')
  BY DEF SlotInv
<1>1. /\ auto'.next = now + 1 /\ auto.next # 0 /\ auto.next <= now
      /\ fire'[r].slot = auto.next /\ fire'[r].at = now
      /\ \A s \in Runs \ {r} : fire'[s] = fire[s]
  BY DEF Claim, CatchUp, NextAfter, AutoOK, FireOK, TypeInv
<1>2. now \in Nat /\ auto.next \in Nat BY BoundAssumption DEF NowOK, AutoOK, TypeInv
<1>3. Backs(t)' = Backs(t) BY BacksStill DEF Claim
<1>4. Cardinality(Fires(t)) + Due(t) <= 1 + Cardinality(Backs(t)) BY DEF SlotInv
<1>5. IsFiniteSet(Fires(t)) BY RunsFinite DEF Fires
<1>6. CASE auto.next <= t /\ t <= now
  <2>1. Fires(t)' \in SUBSET (Fires(t) \cup {r}) BY <1>1 DEF Fires
  <2>2. Cardinality(Fires(t)') <= Cardinality(Fires(t)) + 1 BY <1>5, <2>1, GainsOne
  <2>3. Due(t) = 1 /\ Due(t)' = 0 BY <1>1, <1>2, <1>6 DEF Due
  <2> QED BY <1>3, <1>4, <2>2, <2>3, SlotCounts
<1>7. CASE ~(auto.next <= t /\ t <= now)
  <2>1. Fires(t)' \in SUBSET Fires(t) BY <1>1, <1>2, <1>7 DEF Fires
  <2>2. Cardinality(Fires(t)') <= Cardinality(Fires(t)) BY <1>5, <2>1, FS_Subset
  <2>3. Due(t)' <= Due(t) BY <1>1, <1>2, <1>7 DEF Due
  <2> QED BY <1>3, <1>4, <2>2, <2>3, SlotCounts
<1> QED BY <1>6, <1>7

\* An edit that makes an instant due again that was fired is one that takes back.
LEMMA SlotWrite == ASSUME TypeInv, SlotInv, NEW e \in Edits, WriteEdit(e) PROVE SlotInv'
<1> SUFFICES ASSUME NEW t \in 1..MaxTime
             PROVE  Cardinality(Fires(t)') + Due(t)' <= 1 + Cardinality(Backs(t)')
  BY DEF SlotInv
<1> DEFINE next == edit[e].next
<1>1. auto'.next = next /\ fire' = fire /\ edit[e].pc = "ready"
  BY DEF WriteEdit, AutoOK, TypeInv
<1>2. next \in Nat /\ \A r \in Runs : fire[r].at \in Nat /\ fire[r].slot \in Nat
  BY BoundAssumption DEF EditOK, FireOK, TypeInv
<1>3. Fires(t)' = Fires(t) BY <1>1 DEF Fires
<1>4. Cardinality(Fires(t)) + Due(t) <= 1 + Cardinality(Backs(t)) BY DEF SlotInv
<1>5. \A f \in Edits \ {e} : edit'[f] = edit[f] BY DEF WriteEdit, EditOK, TypeInv
<1>6. e \notin Backs(t) /\ Backs(t) \in SUBSET Backs(t)' BY <1>1, <1>5 DEF Backs
<1>7. IsFiniteSet(Backs(t)) /\ IsFiniteSet(Backs(t)') BY EditsFinite DEF Backs
<1>8. Cardinality(Backs(t)) <= Cardinality(Backs(t)') BY <1>6, <1>7, FS_Subset
<1>9. CASE next = 0 \/ t < next
  <2>1. Due(t)' = 0 BY <1>1, <1>2, <1>9 DEF Due
  <2> QED BY <1>3, <1>4, <1>8, <2>1, SlotCounts
<1>10. CASE next # 0 /\ next <= t /\ TakesBack(e)
  <2>1. edit'[e].pc = "back" /\ edit'[e].next = next
    BY <1>10 DEF WriteEdit, EditOK, TypeInv
  <2>2. Backs(t)' = Backs(t) \cup {e}
    <3>1. e \in Backs(t)' BY <1>10, <2>1 DEF Backs
    <3>2. \A f \in Backs(t)' : f \in Backs(t) \/ f = e BY <1>5 DEF Backs
    <3> QED BY <1>6, <3>1, <3>2
  <2>3. Cardinality(Backs(t)') = Cardinality(Backs(t)) + 1
    BY <1>6, <1>7, <2>2, FS_AddElement
  <2> QED BY <1>3, <1>4, <2>3, SlotCounts
<1>11. CASE next # 0 /\ next <= t /\ ~TakesBack(e)
  <2>1. \A r \in Runs : ~(next <= fire[r].at) BY <1>11 DEF TakesBack
  <2>2. Fires(t) = {} BY <1>2, <1>11, <2>1 DEF Fires
  <2>3. Cardinality(Fires(t)) = 0 BY <2>2, FS_EmptySet
  <2> QED BY <1>3, <2>3, SlotCounts
<1> QED BY <1>2, <1>9, <1>10, <1>11

\* Every step keeps the count.
LEMMA SlotNext == TypeInv /\ SlotInv /\ [Next]_vars => SlotInv'
<1> SUFFICES ASSUME TypeInv, SlotInv, [Next]_vars PROVE SlotInv' OBVIOUS
<1> USE BacksStill DEF TypeInv
<1> DEFINE Same == \A r \in Runs : fire'[r].slot = fire[r].slot /\ fire'[r].at = fire[r].at
<1>1. CASE UNCHANGED vars BY <1>1, SlotStill DEF vars
<1>2. ASSUME NEW r \in Runs, Claim(r) PROVE SlotInv' BY <1>2, SlotClaim
<1>3. ASSUME NEW e \in Edits, NEW on \in BOOLEAN, SetEnabled(e, on) PROVE SlotInv'
  <2>1. \A f \in Edits \ {e} : edit'[f] = edit[f] BY <1>3 DEF SetEnabled, EditOK
  <2>2. edit[e].pc = "idle" /\ edit'[e].pc = "ready" BY <1>3 DEF SetEnabled, EditOK
  <2>3. \A t : Backs(t)' = Backs(t) BY <2>1, <2>2 DEF Backs
  <2> QED BY <1>3, <2>3, SlotStill DEF SetEnabled
<1>4. CASE Delete
  <2>1. fire' = fire /\ edit' = edit /\ auto'.next = 0 BY <1>4 DEF Delete, AutoOK
  <2> SUFFICES ASSUME NEW t \in 1..MaxTime
               PROVE  Cardinality(Fires(t)') + Due(t)' <= 1 + Cardinality(Backs(t)')
    BY DEF SlotInv
  <2>2. Fires(t)' = Fires(t) /\ Due(t)' = 0 /\ Backs(t)' = Backs(t)
    BY <2>1 DEF Fires, Due, Backs
  <2>3. Cardinality(Fires(t)) + Due(t) <= 1 + Cardinality(Backs(t)) BY DEF SlotInv
  <2> QED BY <2>2, <2>3, SlotCounts
<1>5. CASE Tick BY <1>5, SlotStill DEF Tick
<1>6. ASSUME NEW r \in Runs, Launch(r) PROVE SlotInv'
  <2>1. Same
    BY <1>6, GoAt DEF Launch, Begin, FileTask, SettleTask, LaunchFails, Gate, Spawn,
                      CreateConversation, Attach, LastGate, Prompt, FailRun
  <2>2. auto'.next = auto.next
    <3>1. CASE SettleTask(r) BY <3>1, SettleNext DEF SettleTask, Settled
    <3>2. CASE FailRun(r) BY <3>2, MaySettleNext DEF FailRun, Settled
    <3> QED BY <1>6, <3>1, <3>2 DEF Launch, Begin, FileTask, LaunchFails, Gate, Spawn,
                                    CreateConversation, Attach, LastGate, Prompt
  <2>3. edit' = edit
    BY <1>6 DEF Launch, Begin, FileTask, SettleTask, LaunchFails, Gate, Spawn,
                CreateConversation, Attach, LastGate, Prompt, FailRun
  <2> QED BY <2>1, <2>2, <2>3, SlotStill
<1>7. ASSUME NEW r \in Runs, OnEvent(r) PROVE SlotInv'
  <2>1. auto'.next = auto.next
    BY <1>7, OutcomeType, MaySettleNext DEF OnEvent
  <2> QED BY <1>7, <2>1, SlotStill DEF OnEvent
<1>8. CASE Conclude
  <2>1. loop.run \in Runs BY <1>8 DEF Conclude, LoopOK
  <2>2. auto'.next = auto.next
    BY <1>8, <2>1, VerdictType, MaySettleNext DEF Conclude
  <2> QED BY <1>8, <2>2, SlotStill DEF Conclude
<1>9. ASSUME NEW r \in Runs, CancelRun(r) PROVE SlotInv'
  <2>1. auto'.next = auto.next BY <1>9, SettleNext DEF CancelRun, Settled
  <2> QED BY <1>9, <2>1, SlotStill DEF CancelRun
<1>10. CASE Restart
  <2>1. auto'.next = auto.next BY <1>10 DEF Restart, AutoOK
  <2>2. Same BY <1>10 DEF Restart, FireOK
  <2>3. \A t : Backs(t)' = Backs(t) BY <1>10 DEF Restart, EditOK, Over, Backs
  <2> QED BY <2>1, <2>2, <2>3, SlotStill
<1>11. CASE MarkSeen
  <2>1. auto'.next = auto.next BY <1>11 DEF MarkSeen, AutoOK
  <2> QED BY <1>11, <2>1, SlotStill DEF MarkSeen
<1>12. ASSUME NEW r \in Runs, Click(r) \/ GrowOld(r) PROVE SlotInv'
  <2>1. Same BY <1>12, GoAt DEF Click, GrowOld
  <2> QED BY <1>12, <2>1, SlotStill DEF Click, GrowOld
<1>13. ASSUME NEW r \in Runs,
              \/ AgentDies(r) \/ Lag(r) \/ SweepIdle(r) \/ UserStops(r) \/ Worker(r)
              \/ Cancelling(r) \/ List(r) \/ (\E stop \in Stops : TurnEnds(r, stop))
              \/ (\E status \in ConvStatuses : MarkConversation(r, status))
       PROVE  SlotInv'
  BY <1>13, SlotStill DEF AgentDies, Lag, SweepIdle, UserStops, Worker, WorkerTurn, WorkerGone,
       Cancelling, CancelLock, CancelAsk, CancelCut, List, TurnEnds, MarkConversation
<1>14. CASE Cut \/ SortOut \/ LookUp \/ ReadConversation
  BY <1>14, SlotStill DEF Cut, SortOut, LookUp, ReadConversation
<1>15. ASSUME NEW e \in Edits, WriteEdit(e) PROVE SlotInv' BY <1>15, SlotWrite
<1> QED BY <1>1, <1>2, <1>3, <1>4, <1>5, <1>6, <1>7, <1>8, <1>9, <1>10, <1>11, <1>12, <1>13,
           <1>14, <1>15 DEF Next, Reconcile, User, Editing, Marking

\* An instant goes into one fire, and into one more for each edit that took the
\* schedule back to it after it was claimed.
THEOREM InstantOnce == Spec => []InstantFiresOnce
<1>1. Init => TypeInv /\ SlotInv BY TypeInit, SlotInit
<1>2. TypeInv /\ SlotInv /\ [Next]_vars => TypeInv' /\ SlotInv' BY TypeNext, SlotNext
<1>3. SlotInv => InstantFiresOnce
  <2> SUFFICES ASSUME SlotInv, NEW t \in 1..MaxTime
               PROVE  Cardinality(Fires(t)) <= 1 + Cardinality(Backs(t))
    BY DEF InstantFiresOnce
  <2>1. Cardinality(Fires(t)) + Due(t) <= 1 + Cardinality(Backs(t)) BY DEF SlotInv
  <2> QED BY <2>1, SlotCounts
<1> QED BY <1>1, <1>2, <1>3, PTL DEF Spec

----------------------------------------------------------------------------
(* A success is earned: whatever a settlement as succeeded may rest on says *)
(* of a run that its turn ended by itself, that its task is filed, or, a    *)
(* conversation, that the user marked it as finished                        *)

Credit == past.earned \cup past.vouched
EarnedConv   == \A r \in Runs : conv[r] \in Finished => r \in Credit
EarnedBus    == \A r \in Runs : bus[r] = "end_turn" => r \in past.earned
EarnedWorker == \A r \in Runs : \A i \in 1..Len(worker[r]) :
                  worker[r][i] = "end_turn" => r \in past.earned
EarnedFire   == \A r \in Runs : fire[r].pc = "queued" => r \in past.earned
EarnedLoop   == loop.pc = "deciding" /\ loop.conv \in Finished => loop.run \in Credit

EarnedInv == /\ SuccessIsEarned /\ EarnedConv /\ EarnedBus /\ EarnedWorker /\ EarnedFire
             /\ EarnedLoop

\* At the start nothing speaks of a success.
LEMMA EarnedInit == Init => EarnedInv
<1> SUFFICES ASSUME Init PROVE EarnedInv OBVIOUS
<1>1. SuccessIsEarned /\ EarnedConv /\ EarnedBus /\ EarnedFire
  BY DEF Init, SuccessIsEarned, EarnedConv, EarnedBus, EarnedFire, Finished
<1>2. EarnedWorker BY DEF Init, EarnedWorker
<1>3. EarnedLoop BY DEF Init, EarnedLoop, Idle
<1> QED BY <1>1, <1>2, <1>3 DEF EarnedInv

Grows == past.earned \subseteq past'.earned /\ past.vouched \subseteq past'.vouched

\* What a step leaves alone stays earned, since the work that was done stays done.
LEMMA EarnedFrame ==
  ASSUME EarnedInv, Grows
  PROVE  /\ UNCHANGED run => SuccessIsEarned'
         /\ UNCHANGED conv => EarnedConv'
         /\ UNCHANGED bus => EarnedBus'
         /\ UNCHANGED worker => EarnedWorker'
         /\ UNCHANGED fire => EarnedFire'
         /\ UNCHANGED loop => EarnedLoop'
BY DEF EarnedInv, Grows, Credit, SuccessIsEarned, EarnedConv, EarnedBus, EarnedWorker,
       EarnedFire, EarnedLoop

\* A settlement is a success only of a run that earned it.
LEMMA SettleEarned ==
  ASSUME RunOK, EarnedInv, Grows, NEW r \in Runs, NEW s \in Settled,
         s = "succeeded" => r \in Credit,
         SettleRun(r, s) \/ Settle(r, s)
  PROVE  SuccessIsEarned'
<1>1. CASE SettleRun(r, s) /\ Running(r)
  BY <1>1 DEF SettleRun, RunOK, EarnedInv, SuccessIsEarned, Grows, Credit
<1>2. CASE UNCHANGED run BY <1>2, EarnedFrame
<1> QED BY <1>1, <1>2 DEF Settle, SettleRun

\* No move of a fire but FileTask's leads to the settlement of a filed task.
LEMMA GoEarned ==
  ASSUME FireOK, EarnedInv, Grows, NEW r \in Runs, NEW pc, pc # "queued", Go(r, pc)
  PROVE  EarnedFire'
BY DEF FireOK, EarnedInv, EarnedFire, Grows, Go

\* A disconnect tells the worker of no completion.
LEMMA DisconnectEarned ==
  ASSUME WorkerOK, EarnedInv, Grows, NEW r \in Runs, Disconnect(r)
  PROVE  EarnedWorker'
<1>1. CASE Up(r)
  <2>1. worker' = [worker EXCEPT ![r] = Append(worker[r], "gone")] BY <1>1 DEF Disconnect
  <2>2. \A s \in Runs : worker[s] \in Seq(Stops \cup {"gone"}) BY DEF WorkerOK
  <2>3. /\ Len(Append(worker[r], "gone")) = Len(worker[r]) + 1
        /\ \A i \in 1..Len(worker[r]) : Append(worker[r], "gone")[i] = worker[r][i]
        /\ Append(worker[r], "gone")[Len(worker[r]) + 1] = "gone"
    BY <2>2, AppendProperties
  <2>4. ASSUME NEW s \in Runs, NEW i \in 1..Len(worker'[s]), worker'[s][i] = "end_turn"
        PROVE  s \in past'.earned
    <3>1. CASE s = r
      <4>1. worker'[s] = Append(worker[r], "gone") BY <2>1, <3>1 DEF WorkerOK
      <4>2. Len(worker[r]) \in Nat BY <2>2, LenProperties
      <4>3. i \in 1..Len(worker[r]) /\ worker[r][i] = "end_turn" BY <2>3, <2>4, <4>1, <4>2
      <4> QED BY <3>1, <4>3 DEF EarnedInv, EarnedWorker, Grows
    <3>2. CASE s # r
      <4>1. worker'[s] = worker[s] BY <2>1, <3>2 DEF WorkerOK
      <4> QED BY <2>4, <4>1 DEF EarnedInv, EarnedWorker, Grows
    <3> QED BY <3>1, <3>2
  <2> QED BY <2>4 DEF EarnedWorker
<1>2. CASE ~Up(r) BY <1>2, EarnedFrame DEF Disconnect
<1> QED BY <1>1, <1>2

\* Nor does asking an agent to stop, or abandoning it, complete a conversation.
LEMMA StopEarned ==
  ASSUME ConvOK, EarnedInv, Grows, NEW r \in Runs, AskToStop(r) \/ Abandon(r)
  PROVE  EarnedConv'
BY DEF ConvOK, EarnedInv, EarnedConv, Grows, Credit, Finished, AskToStop, Abandon

\* No step undoes work.
LEMMA EarnedGrows == TypeInv /\ [Next]_vars => Grows
<1> SUFFICES ASSUME TypeInv, [Next]_vars PROVE Grows OBVIOUS
<1> DEFINE Same == past'.earned = past.earned /\ past'.vouched = past.vouched
<1>0. Same => Grows BY DEF Grows
<1>1. UNCHANGED past => Same OBVIOUS
<1>2. Fault => Same BY DEF Fault, TypeInv, PastOK
<1>3. CASE UNCHANGED vars BY <1>0, <1>1, <1>3 DEF vars
<1>4. ASSUME NEW r \in Runs, Launch(r) PROVE Grows
  <2>1. CASE FileTask(r) BY <2>1 DEF FileTask, Grows, TypeInv, PastOK
  <2>2. CASE ~FileTask(r)
    BY <1>0, <1>1, <1>2, <1>4, <2>2 DEF Launch, Begin, SettleTask, LaunchFails, Gate, Spawn,
       CreateConversation, Attach, LastGate, Prompt, FailRun, Settle
  <2> QED BY <2>1, <2>2
<1>5. ASSUME NEW r \in Runs, NEW stop \in Stops, TurnEnds(r, stop) PROVE Grows
  BY <1>5 DEF TurnEnds, Grows, TypeInv, PastOK
<1>6. ASSUME NEW r \in Runs,
             \/ Claim(r) \/ Click(r) \/ AgentDies(r) \/ Lag(r) \/ SweepIdle(r) \/ UserStops(r)
             \/ GrowOld(r) \/ Worker(r) \/ OnEvent(r) \/ CancelRun(r) \/ Cancelling(r) \/ List(r)
      PROVE  Grows
  BY <1>0, <1>1, <1>2, <1>6 DEF Claim, Click, AgentDies, Lag, SweepIdle, UserStops, GrowOld,
     Worker, WorkerTurn, WorkerGone, OnEvent, Settle, CancelRun, Cancelling, CancelLock,
     CancelAsk, CancelCut, List
<1>7. CASE Cut \/ SortOut \/ LookUp \/ ReadConversation \/ Conclude \/ Tick
  BY <1>0, <1>1, <1>2, <1>7 DEF Cut, SortOut, LookUp, ReadConversation, Conclude, Settle, Tick
<1>8. CASE Editing \/ Delete
  BY <1>0, <1>1, <1>2, <1>8 DEF Editing, SetEnabled, WriteEdit, Delete
<1>9. CASE MarkSeen BY <1>0, <1>9 DEF MarkSeen, TypeInv, PastOK
<1>10. CASE Restart BY <1>0, <1>10 DEF Restart, TypeInv, PastOK
<1>11. ASSUME NEW r \in Runs, NEW status \in ConvStatuses, MarkConversation(r, status)
       PROVE  Grows
  BY <1>11 DEF MarkConversation, Grows, TypeInv, PastOK
<1> QED BY <1>3, <1>4, <1>5, <1>6, <1>7, <1>8, <1>9, <1>10, <1>11
        DEF Next, Reconcile, User, Marking

\* A launch says of no run that it succeeded but where its task is filed.
LEMMA EarnedLaunch ==
  ASSUME TypeInv, EarnedInv, Grows, NEW r \in Runs, Launch(r) PROVE EarnedInv'
<1> USE EarnedFrame DEF TypeInv, PartyOK
<1>1. CASE Begin(r)
  <2>1. SuccessIsEarned'
    BY <1>1 DEF Begin, RunOK, EarnedInv, SuccessIsEarned, Grows, Credit
  <2>2. EarnedFire' BY <1>1, GoEarned DEF Begin
  <2> QED BY <1>1, <2>1, <2>2 DEF Begin, EarnedInv
<1>2. CASE FileTask(r)
  <2>1. EarnedFire'
    BY <1>2 DEF FileTask, Go, FireOK, PastOK, EarnedInv, EarnedFire
  <2> QED BY <1>2, <2>1 DEF FileTask, EarnedInv
<1>3. CASE SettleTask(r)
  <2>1. r \in Credit BY <1>3 DEF SettleTask, At, EarnedInv, EarnedFire, Credit
  <2>2. SuccessIsEarned' BY <1>3, <2>1, SettleEarned DEF SettleTask, Settled
  <2>3. EarnedFire' BY <1>3, GoEarned DEF SettleTask
  <2> QED BY <1>3, <2>2, <2>3 DEF SettleTask, EarnedInv
<1>4. CASE LaunchFails(r) \/ Gate(r) \/ Spawn(r)
  <2>1. EarnedFire' BY <1>4, GoEarned DEF LaunchFails, Gate, Spawn
  <2> QED BY <1>4, <2>1 DEF LaunchFails, Gate, Spawn, EarnedInv
<1>5. CASE CreateConversation(r)
  <2>1. EarnedFire' BY <1>5, GoEarned DEF CreateConversation
  <2>2. EarnedConv'
    BY <1>5 DEF CreateConversation, ConvOK, EarnedInv, EarnedConv, Grows, Credit, Finished
  <2>3. EarnedWorker' BY <1>5, DisconnectEarned DEF CreateConversation
  <2> QED BY <1>5, <2>1, <2>2, <2>3 DEF CreateConversation, EarnedInv
<1>6. CASE Attach(r)
  <2>1. EarnedFire' BY <1>6, GoEarned DEF Attach
  <2>2. SuccessIsEarned' BY <1>6 DEF Attach, RunOK, EarnedInv, SuccessIsEarned, Grows, Credit
  <2> QED BY <1>6, <2>1, <2>2 DEF Attach, EarnedInv
<1>7. CASE LastGate(r)
  <2>1. EarnedFire' BY <1>7, GoEarned DEF LastGate
  <2>2. EarnedConv' BY <1>7, StopEarned DEF LastGate
  <2>3. EarnedWorker' BY <1>7, DisconnectEarned DEF LastGate, Abandon
  <2> QED BY <1>7, <2>1, <2>2, <2>3 DEF LastGate, EarnedInv
<1>8. CASE Prompt(r)
  <2>1. EarnedFire' BY <1>8, GoEarned DEF Prompt
  <2>2. CASE ~Abandon(r)
    <3>1. EarnedConv'
      BY <1>8, <2>2 DEF Prompt, ConvOK, EarnedInv, EarnedConv, Grows, Credit, Finished
    <3> QED BY <1>8, <2>1, <2>2, <3>1 DEF Prompt, EarnedInv
  <2>3. CASE Abandon(r)
    <3>1. EarnedConv' BY <1>8, <2>3, StopEarned
    <3>2. EarnedWorker' BY <1>8, <2>3, DisconnectEarned DEF Abandon
    <3> QED BY <1>8, <2>1, <3>1, <3>2 DEF Prompt, EarnedInv
  <2> QED BY <2>2, <2>3
<1>9. CASE FailRun(r)
  <2>1. EarnedFire' BY <1>9, GoEarned DEF FailRun
  <2>2. SuccessIsEarned' BY <1>9, SettleEarned DEF FailRun, Settled
  <2> QED BY <1>9, <2>1, <2>2 DEF FailRun, EarnedInv
<1> QED BY <1>1, <1>2, <1>3, <1>4, <1>5, <1>6, <1>7, <1>8, <1>9 DEF Launch

\* A completion by end_turn is one that earned a success.
LEMMA EarnedTurn ==
  ASSUME TypeInv, EarnedInv, Grows, NEW r \in Runs, NEW stop \in Stops, TurnEnds(r, stop)
  PROVE  EarnedInv'
<1> USE EarnedFrame DEF TypeInv, PartyOK
<1>1. stop = "end_turn" => r \in past'.earned BY DEF TurnEnds, PastOK
<1>2. EarnedBus' BY <1>1 DEF TurnEnds, BusOK, EarnedInv, EarnedBus, Grows
<1>3. EarnedWorker'
  <2>1. worker' = [worker EXCEPT ![r] = Append(worker[r], stop)] BY DEF TurnEnds
  <2>2. \A s \in Runs : worker[s] \in Seq(Stops \cup {"gone"}) BY DEF WorkerOK
  <2>3. /\ Len(Append(worker[r], stop)) = Len(worker[r]) + 1
        /\ \A i \in 1..Len(worker[r]) : Append(worker[r], stop)[i] = worker[r][i]
        /\ Append(worker[r], stop)[Len(worker[r]) + 1] = stop
    BY <2>2, AppendProperties
  <2>4. ASSUME NEW s \in Runs, NEW i \in 1..Len(worker'[s]), worker'[s][i] = "end_turn"
        PROVE  s \in past'.earned
    <3>1. CASE s = r
      <4>1. worker'[s] = Append(worker[r], stop) BY <2>1, <3>1 DEF WorkerOK
      <4>2. Len(worker[r]) \in Nat BY <2>2, LenProperties
      <4>3. CASE i \in 1..Len(worker[r])
        BY <2>3, <2>4, <3>1, <4>1, <4>3 DEF EarnedInv, EarnedWorker, Grows
      <4>4. CASE i = Len(worker[r]) + 1 BY <1>1, <2>3, <2>4, <3>1, <4>1, <4>4
      <4> QED BY <2>3, <4>1, <4>2, <4>3, <4>4
    <3>2. CASE s # r
      <4>1. worker'[s] = worker[s] BY <2>1, <3>2 DEF WorkerOK
      <4> QED BY <2>4, <4>1 DEF EarnedInv, EarnedWorker, Grows
    <3> QED BY <3>1, <3>2
  <2> QED BY <2>4 DEF EarnedWorker
<1> QED BY <1>2, <1>3 DEF TurnEnds, EarnedInv

\* The worker marks a conversation for review on such a completion only.
LEMMA EarnedHeard ==
  ASSUME TypeInv, EarnedInv, Grows, NEW r \in Runs, Worker(r) PROVE EarnedInv'
<1> USE EarnedFrame DEF TypeInv, PartyOK
<1>1. /\ worker[r] \in Seq(Stops \cup {"gone"}) /\ worker[r] # <<>>
      /\ worker' = [worker EXCEPT ![r] = Tail(worker[r])]
  BY DEF Worker, WorkerTurn, WorkerGone, Heard, WorkerOK
<1>2. /\ Len(worker[r]) \in Nat /\ Len(worker[r]) > 0
      /\ Head(worker[r]) = worker[r][1]
      /\ Len(Tail(worker[r])) = Len(worker[r]) - 1
      /\ \A i \in 1..Len(Tail(worker[r])) : Tail(worker[r])[i] = worker[r][i + 1]
  BY <1>1, EmptySeq, LenProperties, HeadTailProperties
<1>3. EarnedWorker'
  <2>1. ASSUME NEW s \in Runs, NEW i \in 1..Len(worker'[s]), worker'[s][i] = "end_turn"
        PROVE  s \in past'.earned
    <3>1. CASE s = r
      <4>1. worker'[s] = Tail(worker[r]) BY <1>1, <3>1 DEF WorkerOK
      <4>2. i + 1 \in 1..Len(worker[r]) /\ worker[r][i + 1] = "end_turn"
        BY <1>2, <2>1, <4>1
      <4> QED BY <3>1, <4>2 DEF EarnedInv, EarnedWorker, Grows
    <3>2. CASE s # r
      <4>1. worker'[s] = worker[s] BY <1>1, <3>2 DEF WorkerOK
      <4> QED BY <2>1, <4>1 DEF EarnedInv, EarnedWorker, Grows
    <3> QED BY <3>1, <3>2
  <2> QED BY <2>1 DEF EarnedWorker
<1>4. EarnedConv'
  <2>1. Head(worker[r]) = "end_turn" => r \in Credit
    BY <1>2 DEF EarnedInv, EarnedWorker, Credit
  <2> QED BY <2>1 DEF Worker, WorkerTurn, WorkerGone, ConvOK, EarnedInv, EarnedConv, Grows,
                      Credit, Finished
<1> QED BY <1>3, <1>4 DEF Worker, WorkerTurn, WorkerGone, EarnedInv

\* The loop settles as succeeded on such a completion or on such a conversation.
LEMMA EarnedLooping ==
  ASSUME TypeInv, EarnedInv, Grows, (\E r \in Runs : OnEvent(r)) \/ Cut \/ Reconcile
  PROVE  EarnedInv'
<1> USE EarnedFrame DEF TypeInv, PartyOK
<1>1. ASSUME NEW r \in Runs, OnEvent(r) PROVE EarnedInv'
  <2>1. Outcome(bus[r]) = "succeeded" => r \in Credit
    BY DEF Outcome, EarnedInv, EarnedBus, Credit
  <2>2. SuccessIsEarned' BY <1>1, <2>1, OutcomeType, SettleEarned DEF OnEvent
  <2>3. EarnedBus' BY <1>1 DEF OnEvent, BusOK, EarnedInv, EarnedBus, Grows
  <2>4. EarnedLoop' BY <1>1 DEF OnEvent, LoopOK, EarnedLoop
  <2> QED BY <1>1, <2>2, <2>3, <2>4 DEF OnEvent, EarnedInv
<1>2. CASE Cut
  <2>1. loop.run \in Runs BY <1>2 DEF Cut, LoopOK
  <2>2. EarnedWorker' BY <1>2, <2>1, DisconnectEarned DEF Cut
  <2>3. EarnedLoop' BY <1>2 DEF Cut, EarnedLoop, Idle
  <2> QED BY <1>2, <2>2, <2>3 DEF Cut, EarnedInv
<1>3. CASE (\E r \in Runs : List(r)) \/ SortOut \/ LookUp
  <2>1. EarnedLoop'
    <3>1. CASE \E r \in Runs : List(r) BY <3>1 DEF List, Idle, EarnedLoop
    <3>2. CASE SortOut BY <3>2 DEF SortOut, LoopOK, EarnedLoop
    <3>3. CASE LookUp BY <3>3 DEF LookUp, LoopOK, Idle, EarnedLoop
    <3> QED BY <1>3, <3>1, <3>2, <3>3
  <2> QED BY <1>3, <2>1 DEF List, SortOut, LookUp, EarnedInv
<1>4. CASE ReadConversation
  <2>1. loop.run \in Runs BY <1>4 DEF ReadConversation, LoopOK
  <2>2. EarnedLoop'
    BY <1>4, <2>1 DEF ReadConversation, LoopOK, EarnedInv, EarnedLoop, EarnedConv, Grows,
                      Credit, Finished
  <2> QED BY <1>4, <2>2 DEF ReadConversation, EarnedInv
<1>5. CASE Conclude
  <2>1. loop.run \in Runs BY <1>5 DEF Conclude, LoopOK
  <2>2. Verdict(loop.conv, loop.hopeless) = "succeeded" => loop.run \in Credit
    BY <1>5 DEF Conclude, Verdict, EarnedInv, EarnedLoop
  <2>3. SuccessIsEarned'
    BY <1>5, <2>1, <2>2, VerdictType, SettleEarned DEF Conclude
  <2>4. EarnedLoop' BY <1>5 DEF Conclude, EarnedLoop, Idle
  <2> QED BY <1>5, <2>3, <2>4 DEF Conclude, EarnedInv
<1> QED BY <1>1, <1>2, <1>3, <1>4, <1>5 DEF Reconcile

\* So does every step.
LEMMA EarnedNext == TypeInv /\ EarnedInv /\ [Next]_vars => EarnedInv'
<1> SUFFICES ASSUME TypeInv, EarnedInv, [Next]_vars PROVE EarnedInv' OBVIOUS
<1>0. Grows BY EarnedGrows
<1> USE <1>0, EarnedFrame DEF TypeInv, PartyOK
<1>1. CASE UNCHANGED vars BY <1>1 DEF vars, EarnedInv
<1>2. ASSUME NEW r \in Runs, Claim(r) \/ Click(r) \/ GrowOld(r) PROVE EarnedInv'
  <2>1. EarnedFire'
    BY <1>2, GoEarned DEF Claim, Click, GrowOld, FireOK, EarnedInv, EarnedFire
  <2> QED BY <1>2, <2>1 DEF Claim, Click, GrowOld, EarnedInv
<1>3. ASSUME NEW r \in Runs, AgentDies(r) \/ SweepIdle(r) PROVE EarnedInv'
  <2>1. EarnedWorker' BY <1>3, DisconnectEarned DEF AgentDies, SweepIdle
  <2> QED BY <1>3, <2>1 DEF AgentDies, SweepIdle, EarnedInv
<1>4. ASSUME NEW r \in Runs, Lag(r) PROVE EarnedInv'
  <2>1. EarnedBus' BY <1>4 DEF Lag, BusOK, EarnedInv, EarnedBus, Grows
  <2> QED BY <1>4, <2>1 DEF Lag, EarnedInv
<1>5. ASSUME NEW r \in Runs, UserStops(r) PROVE EarnedInv'
  <2>1. EarnedConv' BY <1>5, StopEarned DEF UserStops
  <2> QED BY <1>5, <2>1 DEF UserStops, EarnedInv
<1>6. ASSUME NEW r \in Runs, CancelRun(r) PROVE EarnedInv'
  <2>1. SuccessIsEarned' BY <1>6, SettleEarned DEF CancelRun, Settled
  <2> QED BY <1>6, <2>1 DEF CancelRun, EarnedInv
<1>7. ASSUME NEW r \in Runs, CancelLock(r) PROVE EarnedInv'
  BY <1>7 DEF CancelLock, EarnedInv
<1>8. ASSUME NEW r \in Runs, CancelAsk(r) PROVE EarnedInv'
  <2>1. EarnedConv' BY <1>8, StopEarned DEF CancelAsk
  <2> QED BY <1>8, <2>1 DEF CancelAsk, EarnedInv
<1>9. ASSUME NEW r \in Runs, CancelCut(r) PROVE EarnedInv'
  <2>1. EarnedWorker' BY <1>9, DisconnectEarned DEF CancelCut
  <2>2. EarnedConv'
    BY <1>9 DEF CancelCut, ConvOK, EarnedInv, EarnedConv, Grows, Credit, Finished
  <2> QED BY <1>9, <2>1, <2>2 DEF CancelCut, EarnedInv
<1>10. CASE Editing \/ Delete \/ MarkSeen \/ Tick
  BY <1>10 DEF Editing, SetEnabled, WriteEdit, Delete, MarkSeen, Tick, EarnedInv
<1>12. ASSUME NEW r \in Runs, NEW status \in ConvStatuses, MarkConversation(r, status)
       PROVE  EarnedInv'
  <2>1. /\ \A s \in Runs : conv'[s] = IF s = r THEN status ELSE conv[s]
        /\ status \in Finished => r \in Credit'
    BY <1>12 DEF MarkConversation, ConvOK, PastOK, Credit
  <2>2. EarnedConv' BY <2>1 DEF EarnedInv, EarnedConv, Grows, Credit
  <2> QED BY <1>12, <2>2 DEF MarkConversation, EarnedInv
<1>11. CASE Restart
  <2>1. SuccessIsEarned'
    BY <1>11 DEF Restart, RunOK, EarnedInv, SuccessIsEarned, Grows, Credit
  <2>2. EarnedFire' BY <1>11 DEF Restart, FireOK, EarnedInv, EarnedFire, Grows
  <2>3. EarnedBus' /\ EarnedWorker' BY <1>11 DEF Restart, EarnedBus, EarnedWorker
  <2>4. EarnedLoop' BY <1>11 DEF Restart, EarnedLoop, Idle
  <2> QED BY <1>11, <2>1, <2>2, <2>3, <2>4 DEF Restart, EarnedInv
<1> QED BY <1>1, <1>2, <1>3, <1>4, <1>5, <1>6, <1>7, <1>8, <1>9, <1>10, <1>11, <1>12,
           EarnedLaunch, EarnedTurn, EarnedHeard, EarnedLooping
        DEF Next, Cancelling, User, Marking

\* A run that succeeded did so by itself, or the user said so, whoever wrote it down:
\* the launch, the engine's event handler or its reconcile.
THEOREM SuccessEarned == Spec => []SuccessIsEarned
<1>1. Init => TypeInv /\ EarnedInv BY TypeInit, EarnedInit
<1>2. TypeInv /\ EarnedInv /\ [Next]_vars => TypeInv' /\ EarnedInv' BY TypeNext, EarnedNext
<1>3. EarnedInv => SuccessIsEarned BY DEF EarnedInv
<1> QED BY <1>1, <1>2, <1>3, PTL DEF Spec

----------------------------------------------------------------------------
(* The badge: a run fails once, when it was running                         *)

Failed == {r \in Runs : run[r].status = "failed"}

\* A fire that has not begun has no run, and what the user saw fail stays failed.
Born == \A r \in Runs : fire[r].pc \in {"idle", "waiting"} => run[r].status = "none"
SeenFailed == past.seen \subseteq Failed
BadgeInv == Born /\ SeenFailed /\ BadgeCounts

\* At the start nothing has failed.
LEMMA BadgeInit == Init => BadgeInv
<1> SUFFICES ASSUME Init PROVE BadgeInv OBVIOUS
<1>1. Born BY DEF Init, Born
<1>2. Failed = {} /\ past.seen = {} /\ auto.unseen = 0 BY DEF Init, Failed
<1>3. BadgeCounts BY <1>2, FS_EmptySet DEF BadgeCounts, Failed
<1> QED BY <1>1, <1>2, <1>3 DEF BadgeInv, SeenFailed

\* What settles nothing and shows nothing leaves the badge right.
LEMMA BadgeStill ==
  ASSUME BadgeInv, auto'.unseen = auto.unseen, past'.seen = past.seen,
         \A r \in Runs : run'[r].status = "failed" <=> run[r].status = "failed"
  PROVE  SeenFailed' /\ BadgeCounts'
<1>1. Failed' = Failed BY DEF Failed
<1> QED BY <1>1 DEF BadgeInv, SeenFailed, BadgeCounts, Failed

\* One more run fails: it was not among those that failed, so nobody saw it.
LEMMA OneMoreFails ==
  ASSUME BadgeInv, NEW r \in Runs, run[r].status # "failed", Failed' = Failed \cup {r},
         auto'.unseen = auto.unseen + 1, past'.seen = past.seen
  PROVE  SeenFailed' /\ BadgeCounts'
<1> DEFINE News == Failed \ past.seen
<1>1. IsFiniteSet(News) /\ Cardinality(News) \in Nat BY RunsFinite DEF Failed
<1>2. r \notin Failed /\ r \notin past.seen BY DEF BadgeInv, SeenFailed, Failed
<1>3. Failed' \ past'.seen = News \cup {r} BY <1>2
<1>4. Cardinality(News \cup {r}) = Cardinality(News) + 1 BY <1>1, <1>2, FS_AddElement
<1>5. SeenFailed' BY DEF BadgeInv, SeenFailed
<1>6. BadgeCounts' BY <1>3, <1>4 DEF BadgeInv, BadgeCounts, Failed
<1> QED BY <1>5, <1>6

\* A settlement counts a failure, and leaves runs that have not begun alone.
LEMMA SettleBadge ==
  ASSUME AutoOK, RunOK, BadgeInv, past'.seen = past.seen, NEW r \in Runs, NEW s \in Settled,
         SettleRun(r, s) \/ UNCHANGED <<run, auto>>
  PROVE  /\ SeenFailed' /\ BadgeCounts'
         /\ \A t \in Runs : run[t].status = "none" => run'[t].status = "none"
<1>1. CASE UNCHANGED <<run, auto>> BY <1>1, BadgeStill
<1>2. CASE Running(r) /\ SettleRun(r, s)
  <2>1. run' = [run EXCEPT ![r].status = s] BY <1>2 DEF SettleRun
  <2>2. auto'.unseen = auto.unseen + IF s = "failed" THEN 1 ELSE 0
    BY <1>2 DEF SettleRun, AutoOK
  <2>3. run[r].status = "running" BY <1>2 DEF Running
  <2>4. \A t \in Runs : run'[t].status = IF t = r THEN s ELSE run[t].status
    BY <2>1 DEF RunOK
  <2>5. CASE s = "failed"
    <3>1. Failed' = Failed \cup {r} BY <2>4, <2>5 DEF Failed
    <3> QED BY <2>2, <2>3, <2>4, <2>5, <3>1, OneMoreFails
  <2>6. CASE s # "failed"
    <3>1. auto'.unseen = auto.unseen BY <2>2, <2>6 DEF AutoOK
    <3> QED BY <2>3, <2>4, <2>6, <3>1, BadgeStill
  <2> QED BY <2>5, <2>6
<1> QED BY <1>1, <1>2 DEF SettleRun

\* A write that fails shows nothing to the user.
LEMMA MaySettleBadge ==
  ASSUME AutoOK, RunOK, PastOK, BadgeInv, NEW r \in Runs, NEW s \in Settled, Settle(r, s)
  PROVE  /\ SeenFailed' /\ BadgeCounts'
         /\ \A t \in Runs : run[t].status = "none" => run'[t].status = "none"
<1>1. past'.seen = past.seen BY DEF Settle, Fault, PastOK
<1> QED BY <1>1, SettleBadge DEF Settle

\* A fire that moves on leaves those that have not begun alone.
LEMMA GoBorn ==
  ASSUME FireOK, BadgeInv, NEW r \in Runs, NEW pc,
         pc \notin {"idle", "waiting"} \/ fire[r].pc \in {"idle", "waiting"},
         Go(r, pc) \/ UNCHANGED fire,
         \A t \in Runs : run[t].status = "none" => run'[t].status = "none"
  PROVE  Born'
BY DEF FireOK, BadgeInv, Born, Go

\* A fault shows nothing to the user.
LEMMA FaultSeen == ASSUME PastOK, Fault PROVE past'.seen = past.seen
BY DEF PastOK, Fault

\* A launch keeps the badge right.
LEMMA BadgeLaunch ==
  ASSUME TypeInv, BadgeInv, NEW r \in Runs, Launch(r) PROVE BadgeInv'
<1> USE DEF TypeInv
<1> DEFINE Keeps == \A t \in Runs : run[t].status = "none" => run'[t].status = "none"
           Fails == \A t \in Runs : run'[t].status = "failed" <=> run[t].status = "failed"
<1>1. CASE Begin(r)
  <2>1. run[r].status = "none" BY <1>1 DEF Begin, At, BadgeInv, Born
  <2>2. Fails BY <1>1, <2>1 DEF Begin, RunOK
  <2>3. auto' = auto /\ past'.seen = past.seen BY <1>1, FaultSeen DEF Begin
  <2>4. SeenFailed' /\ BadgeCounts' BY <2>2, <2>3, BadgeStill
  <2>5. Born'
    <3>1. fire'[r].pc \notin {"idle", "waiting"} BY <1>1 DEF Begin, Go, FireOK
    <3>2. \A t \in Runs \ {r} : fire'[t] = fire[t] /\ run'[t] = run[t]
      BY <1>1 DEF Begin, Go, FireOK, RunOK
    <3> QED BY <3>1, <3>2 DEF BadgeInv, Born
  <2> QED BY <2>4, <2>5 DEF BadgeInv
<1>2. CASE SettleTask(r) \/ FailRun(r)
  <2>1. SeenFailed' /\ BadgeCounts' /\ Keeps
    <3>1. CASE SettleTask(r)
      <4>1. past'.seen = past.seen BY <3>1, FaultSeen DEF SettleTask
      <4> QED BY <3>1, <4>1, SettleBadge DEF SettleTask, Settled
    <3>2. CASE FailRun(r) BY <3>2, MaySettleBadge DEF FailRun, Settled
    <3> QED BY <1>2, <3>1, <3>2
  <2>2. Born' BY <1>2, <2>1, GoBorn DEF SettleTask, FailRun
  <2> QED BY <2>1, <2>2 DEF BadgeInv
<1>3. CASE Attach(r)
  <2>1. Keeps /\ Fails BY <1>3 DEF Attach, RunOK
  <2>2. auto' = auto /\ past'.seen = past.seen BY <1>3, FaultSeen DEF Attach
  <2>3. SeenFailed' /\ BadgeCounts' BY <2>1, <2>2, BadgeStill
  <2>4. Born' BY <1>3, <2>1, GoBorn DEF Attach
  <2> QED BY <2>3, <2>4 DEF BadgeInv
<1>4. ASSUME \/ FileTask(r) \/ LaunchFails(r) \/ Gate(r) \/ Spawn(r)
             \/ CreateConversation(r) \/ LastGate(r) \/ Prompt(r)
      PROVE  BadgeInv'
  <2>1. /\ run' = run /\ auto' = auto
    BY <1>4 DEF FileTask, LaunchFails, Gate, Spawn, CreateConversation, LastGate, Prompt
  <2>2. past'.seen = past.seen
    BY <1>4, FaultSeen DEF FileTask, LaunchFails, Gate, Spawn, CreateConversation, LastGate,
       Prompt, PastOK
  <2>3. SeenFailed' /\ BadgeCounts' BY <2>1, <2>2, BadgeStill
  <2>4. Born'
    BY <1>4, <2>1, GoBorn DEF FileTask, LaunchFails, Gate, Spawn, CreateConversation, LastGate,
       Prompt
  <2> QED BY <2>3, <2>4 DEF BadgeInv
<1> QED BY <1>1, <1>2, <1>3, <1>4 DEF Launch

\* The restart fails what was running, all of it and nothing else.
LEMMA BadgeRestart == ASSUME TypeInv, BadgeInv, Restart PROVE BadgeInv'
<1> USE DEF TypeInv
<1> DEFINE News == Failed \ past.seen
<1>1. /\ \A r \in Runs : run'[r].status = IF Running(r) THEN "failed" ELSE run[r].status
      /\ auto'.unseen = auto.unseen + Cardinality(Active)
      /\ past'.seen = past.seen
  BY DEF Restart, RunOK, AutoOK, PastOK
<1>2. Failed' = Failed \cup Active BY <1>1 DEF Failed, Active
<1>3. News \cap Active = {} BY DEF Failed, Active, Running
<1>4. Failed' \ past'.seen = News \cup Active
  BY <1>1, <1>2 DEF BadgeInv, SeenFailed, Failed, Active, Running
<1>5. /\ IsFiniteSet(News) /\ Cardinality(News) \in Nat
      /\ IsFiniteSet(Active) /\ Cardinality(Active) \in Nat
  BY RunsFinite DEF Failed, Active
<1>6. Cardinality(News \cup Active) = Cardinality(News) + Cardinality(Active)
  <2>1. /\ Cardinality(News \cup Active)
             = Cardinality(News) + Cardinality(Active) - Cardinality(News \cap Active)
        /\ Cardinality(News \cap Active) = 0
    BY <1>3, <1>5, FS_Union, FS_EmptySet
  <2> QED BY <1>5, <2>1
<1>7. BadgeCounts' BY <1>1, <1>4, <1>6 DEF BadgeInv, BadgeCounts, Failed
<1>8. SeenFailed' BY <1>1, <1>2 DEF BadgeInv, SeenFailed
<1>9. Born'
  <2>1. \A r \in Runs : fire'[r].pc \in {"idle", "waiting"} => fire[r].pc = "idle"
    BY DEF Restart, FireOK, At
  <2> QED BY <1>1, <2>1 DEF BadgeInv, Born, Running
<1> QED BY <1>7, <1>8, <1>9 DEF BadgeInv

\* Every step keeps the badge right.
LEMMA BadgeNext == TypeInv /\ BadgeInv /\ [Next]_vars => BadgeInv'
<1> SUFFICES ASSUME TypeInv, BadgeInv, [Next]_vars PROVE BadgeInv' OBVIOUS
<1> USE DEF TypeInv
<1> DEFINE Quietly == run' = run /\ auto'.unseen = auto.unseen /\ past'.seen = past.seen
<1>0. Quietly => SeenFailed' /\ BadgeCounts' BY BadgeStill
<1>a. run' = run /\ fire' = fire => Born' BY DEF BadgeInv, Born
<1>1. CASE UNCHANGED vars BY <1>0, <1>a, <1>1 DEF vars, BadgeInv
<1>2. ASSUME NEW r \in Runs, Claim(r) PROVE BadgeInv'
  <2>1. Quietly BY <1>2 DEF Claim, AutoOK
  <2>2. Born' BY <1>2 DEF Claim, Fresh, At, FireOK, BadgeInv, Born
  <2> QED BY <1>0, <2>1, <2>2 DEF BadgeInv
<1>3. ASSUME NEW r \in Runs, Click(r) \/ GrowOld(r) PROVE BadgeInv'
  <2>1. Quietly BY <1>3 DEF Click, GrowOld
  <2>2. Born' BY <1>3, GoBorn DEF Click, GrowOld, Fresh, At
  <2> QED BY <1>0, <2>1, <2>2 DEF BadgeInv
<1>4. ASSUME NEW r \in Runs,
             \/ AgentDies(r) \/ Lag(r) \/ SweepIdle(r) \/ UserStops(r) \/ Worker(r)
             \/ Cancelling(r) \/ List(r) \/ (\E stop \in Stops : TurnEnds(r, stop))
             \/ (\E status \in ConvStatuses : MarkConversation(r, status))
      PROVE  BadgeInv'
  <2>1. run' = run /\ fire' = fire /\ auto' = auto
    BY <1>4 DEF AgentDies, Lag, SweepIdle, UserStops, Worker, WorkerTurn, WorkerGone,
       Cancelling, CancelLock, CancelAsk, CancelCut, List, TurnEnds, MarkConversation
  <2>2. past'.seen = past.seen
    BY <1>4, FaultSeen DEF AgentDies, Lag, SweepIdle, UserStops, Worker, WorkerTurn,
       WorkerGone, Cancelling, CancelLock, CancelAsk, CancelCut, List, TurnEnds,
       MarkConversation, PastOK
  <2> QED BY <1>0, <1>a, <2>1, <2>2 DEF BadgeInv
<1>5. CASE Cut \/ SortOut \/ LookUp \/ ReadConversation \/ Tick
  BY <1>0, <1>a, <1>5 DEF Cut, SortOut, LookUp, ReadConversation, Tick, BadgeInv
<1>6. ASSUME NEW r \in Runs, OnEvent(r) PROVE BadgeInv'
  <2>1. \/ Settle(r, Outcome(bus[r]))
        \/ UNCHANGED <<run, auto, past>>
    BY <1>6 DEF OnEvent
  <2>2. /\ SeenFailed' /\ BadgeCounts'
        /\ \A t \in Runs : run[t].status = "none" => run'[t].status = "none"
    BY <1>0, <2>1, OutcomeType, MaySettleBadge
  <2>3. Born' BY <1>6, <2>2 DEF OnEvent, BadgeInv, Born
  <2> QED BY <2>2, <2>3 DEF BadgeInv
<1>7. CASE Conclude
  <2> DEFINE v == Verdict(loop.conv, loop.hopeless)
  <2>1. loop.run \in Runs /\ (v = "none" \/ v \in Settled)
    BY <1>7, VerdictType DEF Conclude, LoopOK
  <2>2. \/ v # "none" /\ Settle(loop.run, v)
        \/ UNCHANGED <<run, auto, past>>
    BY <1>7 DEF Conclude
  <2> HIDE DEF v
  <2>3. /\ SeenFailed' /\ BadgeCounts'
        /\ \A t \in Runs : run[t].status = "none" => run'[t].status = "none"
    BY <1>0, <2>1, <2>2, MaySettleBadge
  <2>4. Born' BY <1>7, <2>3 DEF Conclude, BadgeInv, Born
  <2> QED BY <2>3, <2>4 DEF BadgeInv
<1>8. ASSUME NEW r \in Runs, CancelRun(r) PROVE BadgeInv'
  <2>1. /\ SeenFailed' /\ BadgeCounts'
        /\ \A t \in Runs : run[t].status = "none" => run'[t].status = "none"
    BY <1>8, SettleBadge DEF CancelRun, Settled
  <2>2. Born' BY <1>8, <2>1 DEF CancelRun, BadgeInv, Born
  <2> QED BY <2>1, <2>2 DEF BadgeInv
<1>9. CASE Editing \/ Delete
  <2>1. run' = run /\ fire' = fire BY <1>9 DEF Editing, SetEnabled, WriteEdit, Delete
  <2>2. past'.seen = past.seen
    BY <1>9, FaultSeen DEF Editing, SetEnabled, WriteEdit, Delete
  <2>3. auto'.unseen = auto.unseen
    <3>1. CASE Delete BY <3>1 DEF Delete, AutoOK
    <3>2. ASSUME NEW e \in Edits, WriteEdit(e) \/ \E on \in BOOLEAN : SetEnabled(e, on)
          PROVE  auto'.unseen = auto.unseen
      BY <3>2 DEF SetEnabled, WriteEdit, AutoOK
    <3> QED BY <1>9, <3>1, <3>2 DEF Editing
  <2> QED BY <1>0, <1>a, <2>1, <2>2, <2>3 DEF BadgeInv
<1>10. CASE MarkSeen
  <2>1. run' = run /\ fire' = fire /\ auto'.unseen = 0 /\ past'.seen = Failed
    BY <1>10 DEF MarkSeen, AutoOK, PastOK, Failed
  <2>2. Failed' = Failed BY <2>1 DEF Failed
  <2>3. Failed' \ past'.seen = {} BY <2>1, <2>2
  <2>4. BadgeCounts' BY <2>1, <2>3, FS_EmptySet DEF BadgeCounts, Failed
  <2> QED BY <1>a, <2>1, <2>2, <2>4 DEF BadgeInv, SeenFailed
<1> QED BY <1>1, <1>2, <1>3, <1>4, <1>5, <1>6, <1>7, <1>8, <1>9, <1>10, BadgeLaunch,
           BadgeRestart DEF Next, Reconcile, User, Marking

\* The badge counts each failure the user has not seen once: several settle at the
\* same run, and only one of them finds it running.
THEOREM BadgeRight == Spec => []BadgeCounts
<1>1. Init => TypeInv /\ BadgeInv BY TypeInit, BadgeInit
<1>2. TypeInv /\ BadgeInv /\ [Next]_vars => TypeInv' /\ BadgeInv' BY TypeNext, BadgeNext
<1>3. BadgeInv => BadgeCounts BY DEF BadgeInv
<1> QED BY <1>1, <1>2, <1>3, PTL DEF Spec

\* Every variable has its type, the badge at most the number of runs.
THEOREM TypesHold == Spec => []TypeOK
<1>1. Init => TypeInv /\ BadgeInv BY TypeInit, BadgeInit
<1>2. TypeInv /\ BadgeInv /\ [Next]_vars => TypeInv' /\ BadgeInv' BY TypeNext, BadgeNext
<1>3. TypeInv /\ BadgeInv => TypeOK
  <2> SUFFICES ASSUME TypeInv, BadgeInv PROVE TypeOK OBVIOUS
  <2>1. Failed \ past.seen \in SUBSET Runs BY DEF Failed
  <2>2. /\ IsFiniteSet(Runs) /\ Cardinality(Runs) \in Nat
        /\ Cardinality(Failed \ past.seen) \in Nat
    BY <2>1, RunsFinite
  <2>3. Cardinality(Failed \ past.seen) <= Cardinality(Runs) BY <2>1, <2>2, FS_Subset
  <2>4. auto.unseen \in 0..Cardinality(Runs) BY <2>2, <2>3 DEF BadgeInv, BadgeCounts, Failed
  <2> QED BY <2>4 DEF TypeInv, PartyOK, NowOK, EditOK, AutoOK, RunOK, FireOK, LockOK, IndexOK,
                      ConnOK, ConvOK, BusOK, WorkerOK, CancelOK, LoopOK, PastOK, TypeOK
<1> QED BY <1>1, <1>2, <1>3, PTL DEF Spec

----------------------------------------------------------------------------
(* An agent works for a run that is running: who may settle a run from     *)
(* elsewhere finds its agent gone, its turn over, or itself the cancel     *)

\* The fire holds the fire_lock from its begin to its end.
Critical == {"launching", "queued", "gated", "spawned", "indexed", "attached", "prompting",
             "failing"}
\* Its connection is in the index, or was.
Later == {"indexed", "attached", "prompting", "failing", "done", "overdue"}

Locked == \A r \in Runs :
  /\ fire[r].pc \in Critical => lock = <<"fire", r>>
  /\ cancel[r] \in {"ask", "cut"} => lock = <<"cancel", r>>
Indexed == \A r \in index : fire[r].pc \in {"indexed", "attached", "prompting", "done"}
Wired == \A r \in Runs : Up(r) => fire[r].pc = "spawned" \/ r \in index
Turned == \A r \in Runs : conn[r].turn => Up(r) /\ fire[r].pc = "done"
Posted == \A r \in Runs : bus[r] # "none" => ~conn[r].turn /\ fire[r].pc \in {"done", "overdue"}
Attached == \A r \in Runs : run[r].conv => fire[r].pc \in Later
Prompting == \A r \in Runs :
  fire[r].pc = "prompting" /\ Up(r) => Running(r) \/ cancel[r] = "waiting"

\* What the loop may conclude of: a run it found in the index, with a conversation, or overdue.
Sure == loop.owned \/ loop.hopeless \/ loop.conv # "none"
Looked ==
  /\ loop.pc \in {"listed", "owned", "reading", "deciding"} /\ Sure =>
       fire[loop.run].pc \in Later
  /\ loop.pc \in {"reading", "deciding"} /\ Sure => ~Up(loop.run)

ServeInv == /\ Locked /\ Indexed /\ Wired /\ Turned /\ Posted /\ Attached /\ Prompting /\ Looked
            /\ AgentServesRun

\* Without the loop's part.
Served == Locked /\ Indexed /\ Wired /\ Turned /\ Posted /\ Attached /\ Prompting /\ AgentServesRun

\* At the start there is neither an agent nor a fire.
LEMMA ServeInit == Init => ServeInv
<1> SUFFICES ASSUME Init PROVE ServeInv OBVIOUS
<1>1. \A r \in Runs : ~Up(r) /\ ~conn[r].turn BY DEF Init, NoConn, Up
<1>2. /\ index = {}
      /\ \A r \in Runs : /\ fire[r].pc = "idle" /\ cancel[r] = "none"
                         /\ bus[r] = "none" /\ ~run[r].conv
  BY DEF Init
<1>3. Served
  BY <1>1, <1>2 DEF Served, Locked, Indexed, Wired, Turned, Posted, Attached, Prompting,
                    AgentServesRun, Critical
<1>4. Looked BY DEF Init, Looked, Idle
<1> QED BY <1>3, <1>4 DEF Served, ServeInv

\* What the building blocks do, seen from every run.
LEMMA GoView ==
  ASSUME FireOK, NEW r \in Runs, NEW pc, Go(r, pc)
  PROVE  \A s \in Runs : fire'[s].pc = IF s = r THEN pc ELSE fire[s].pc
BY DEF FireOK, Go

\* A run that the step does not settle; a connection it leaves as it was.
Unsettled(r) == /\ run'[r].conv = run[r].conv
                /\ Running(r) => Running(r)'
Wires(r) == /\ Up(r)' = Up(r)
            /\ conn'[r].turn = conn[r].turn

\* A settlement settles its own run.
LEMMA SettleView ==
  ASSUME RunOK, NEW r \in Runs, NEW s \in Settled,
         SettleRun(r, s) \/ Settle(r, s) \/ UNCHANGED run
  PROVE  /\ \A t \in Runs \ {r} : Unsettled(t)
         /\ run'[r].conv = run[r].conv
<1>1. CASE Running(r) /\ SettleRun(r, s) BY <1>1 DEF SettleRun, RunOK, Running, Unsettled
<1>2. CASE UNCHANGED run BY <1>2 DEF Running, Unsettled
<1> QED BY <1>1, <1>2 DEF Settle, SettleRun

\* A disconnect takes its own connection down.
LEMMA DisconnectView ==
  ASSUME ConnOK, Turned, NEW r \in Runs, Disconnect(r)
  PROVE  /\ \A s \in Runs \ {r} : Wires(s)
         /\ ~Up(r)' /\ ~conn'[r].turn
<1>1. CASE Up(r)
  <2>1. conn' = [conn EXCEPT ![r] = Quiet(r, "gone")] BY <1>1 DEF Disconnect
  <2>2. conn'[r] = Quiet(r, "gone") /\ \A s \in Runs \ {r} : conn'[s] = conn[s]
    BY <2>1 DEF ConnOK
  <2>3. \A s \in Runs \ {r} : Wires(s) BY <2>2 DEF Wires, Up
  <2> QED BY <2>2, <2>3 DEF Quiet, Up
<1>2. CASE ~Up(r) BY <1>2 DEF Disconnect, Turned, Wires, Up
<1> QED BY <1>1, <1>2

\* Asking an agent to stop takes none down.
LEMMA AskView ==
  ASSUME ConnOK, NEW r \in Runs, AskToStop(r)
  PROVE  \A s \in Runs : Wires(s)
BY DEF ConnOK, AskToStop, Wires, Up

\* Nor does a step elsewhere.
LEMMA StillView ==
  /\ UNCHANGED run => \A s \in Runs : Unsettled(s)
  /\ UNCHANGED conn => \A s \in Runs : Wires(s)
BY DEF Unsettled, Wires, Running, Up

\* A launch prompts its agent while it holds the fire_lock.
LEMMA ServeLaunch ==
  ASSUME TypeInv, ServeInv, NEW r \in Runs, Launch(r) PROVE Served'
<1> USE StillView, GoView
    DEF TypeInv, PartyOK, IndexOK, CancelOK, ServeInv,
        Served, Locked, Indexed, Wired, Turned, Posted, Attached, Prompting, AgentServesRun,
        Critical, Later, At, Unsettled, Wires
<1>1. CASE Begin(r)
  <2>1. \A s \in Runs : run'[s].conv = run[s].conv BY <1>1 DEF Begin, RunOK
  <2>2. \A s \in Runs \ {r} : Unsettled(s) BY <1>1 DEF Begin, RunOK, Running
  <2>3. ~Up(r) /\ ~conn[r].turn BY <1>1 DEF Begin
  <2>4. CASE Go(r, "done") /\ UNCHANGED lock BY <1>1, <2>1, <2>2, <2>3, <2>4 DEF Begin
  <2>5. CASE lock = Free /\ Go(r, "launching") /\ lock' = <<"fire", r>>
    <3>1. \A s \in Runs : fire[s].pc \notin Critical /\ cancel[s] \notin {"ask", "cut"}
      BY <2>5 DEF Free
    <3> QED BY <1>1, <2>1, <2>2, <2>3, <2>5, <3>1 DEF Begin
  <2> QED BY <1>1, <2>4, <2>5 DEF Begin
<1>2. CASE FileTask(r) BY <1>2 DEF FileTask
<1>3. CASE SettleTask(r)
  <2>1. /\ \A t \in Runs \ {r} : Unsettled(t)
        /\ run'[r].conv = run[r].conv
    BY <1>3, SettleView DEF SettleTask, Settled
  <2> QED BY <1>3, <2>1 DEF SettleTask
<1>4. CASE LaunchFails(r) BY <1>4 DEF LaunchFails
<1>5. CASE Gate(r) BY <1>5 DEF Gate, NoLongerRunning
<1>6. CASE Spawn(r)
  <2>1. /\ \A s \in Runs \ {r} : Wires(s)
        /\ conn'[r].turn = conn[r].turn
    BY <1>6 DEF Spawn, ConnOK, Up
  <2>2. ~conn[r].turn BY <1>6 DEF Spawn
  <2> QED BY <1>6, <2>1, <2>2 DEF Spawn
<1>7. CASE CreateConversation(r)
  <2>1. ~conn[r].turn BY <1>7 DEF CreateConversation
  <2>2. CASE Disconnect(r) /\ Go(r, "failing") /\ UNCHANGED index
    BY <1>7, <2>1, <2>2, DisconnectView DEF CreateConversation
  <2>3. CASE UNCHANGED conn /\ Go(r, "indexed") /\ index' = index \cup {r}
    BY <1>7, <2>1, <2>3 DEF CreateConversation
  <2> QED BY <1>7, <2>2, <2>3 DEF CreateConversation
<1>8. CASE Attach(r)
  <2>1. /\ \A s \in Runs \ {r} : Unsettled(s)
        /\ Running(r) => Running(r)'
    BY <1>8 DEF Attach, RunOK, Running
  <2> QED BY <1>8, <2>1 DEF Attach
<1>9. CASE LastGate(r)
  <2>1. CASE Abandon(r) /\ Go(r, "done") /\ lock' = Free
    BY <1>9, <2>1, DisconnectView DEF LastGate, Abandon
  <2>2. CASE Running(r) /\ Go(r, "prompting") /\ UNCHANGED <<index, conn, conv, worker, lock>>
    BY <1>9, <2>2 DEF LastGate
  <2> QED BY <1>9, <2>1, <2>2 DEF LastGate, NoLongerRunning
<1>10. CASE Prompt(r)
  <2>1. CASE Abandon(r) /\ Go(r, "failing") /\ UNCHANGED lock
    BY <1>10, <2>1, DisconnectView DEF Prompt, Abandon
  <2>2. CASE /\ Up(r) /\ Go(r, "done") /\ lock' = Free /\ UNCHANGED index
             /\ conn' = [conn EXCEPT ![r] = [state |-> "up", linked |-> TRUE,
                                               turn |-> TRUE, asked |-> FALSE]]
    <3>1. /\ \A s \in Runs \ {r} : Wires(s)
          /\ Up(r)'
      BY <2>2 DEF ConnOK, Up
    <3> QED BY <1>10, <2>2, <3>1 DEF Prompt
  <2> QED BY <1>10, <2>1, <2>2 DEF Prompt
<1>11. CASE FailRun(r)
  <2>1. /\ \A t \in Runs \ {r} : Unsettled(t)
        /\ run'[r].conv = run[r].conv
    BY <1>11, SettleView DEF FailRun, Settled
  <2> QED BY <1>11, <2>1 DEF FailRun
<1> QED BY <1>1, <1>2, <1>3, <1>4, <1>5, <1>6, <1>7, <1>8, <1>9, <1>10, <1>11 DEF Launch

\* The fires, the agents, their workers and the cancels.
LEMMA ServeAgent ==
  ASSUME TypeInv, ServeInv, NEW r \in Runs,
         \/ Claim(r) \/ Click(r) \/ AgentDies(r) \/ Lag(r) \/ SweepIdle(r) \/ UserStops(r)
         \/ GrowOld(r) \/ Worker(r) \/ (\E stop \in Stops : TurnEnds(r, stop))
         \/ CancelRun(r) \/ Cancelling(r)
  PROVE  Served'
<1> USE StillView, GoView
    DEF TypeInv, PartyOK, IndexOK, CancelOK, ServeInv,
        Served, Locked, Indexed, Wired, Turned, Posted, Attached, Prompting, AgentServesRun,
        Critical, Later, At, Unsettled, Wires
<1>1. CASE Claim(r) BY <1>1 DEF Claim, Fresh, FireOK
<1>2. CASE Click(r) BY <1>2 DEF Click, Fresh
<1>3. CASE AgentDies(r) \/ SweepIdle(r) BY <1>3, DisconnectView DEF AgentDies, SweepIdle
<1>4. CASE Lag(r) BY <1>4 DEF Lag, BusOK
<1>6. CASE UserStops(r) BY <1>6, AskView DEF UserStops
<1>7. CASE GrowOld(r) BY <1>7 DEF GrowOld
<1>8. CASE Worker(r) BY <1>8 DEF Worker, WorkerTurn, WorkerGone
<1>9. CASE \E stop \in Stops : TurnEnds(r, stop)
  <2>1. /\ \A s \in Runs \ {r} : Wires(s)
        /\ Up(r)' /\ Up(r) /\ ~conn'[r].turn
    BY <1>9 DEF TurnEnds, Quiet, ConnOK, Up
  <2> QED BY <1>9, <2>1 DEF TurnEnds, BusOK
<1>10. CASE CancelRun(r)
  <2>1. /\ \A t \in Runs \ {r} : Unsettled(t)
        /\ run'[r].conv = run[r].conv
    BY <1>10, SettleView DEF CancelRun, Settled
  <2> QED BY <1>10, <2>1 DEF CancelRun
<1>11. CASE CancelLock(r) BY <1>11 DEF CancelLock, Free
<1>12. CASE CancelAsk(r)
  <2>1. \A s \in Runs : Wires(s) BY <1>12, AskView DEF CancelAsk
  <2> QED BY <1>12, <2>1 DEF CancelAsk
<1>13. CASE CancelCut(r)
  <2>1. CASE r \in index BY <1>13, <2>1, DisconnectView DEF CancelCut
  <2>2. CASE r \notin index BY <1>13, <2>2 DEF CancelCut
  <2> QED BY <2>1, <2>2
<1> QED BY <1>1, <1>2, <1>3, <1>4, <1>6, <1>7, <1>8, <1>9, <1>10, <1>11, <1>12, <1>13
        DEF Cancelling

\* The loop, the user, the time and the process.
LEMMA ServeLoop ==
  ASSUME TypeInv, ServeInv,
         (\E r \in Runs : OnEvent(r)) \/ Cut \/ Reconcile \/ User \/ Tick \/ Restart
  PROVE  Served'
<1>a. UNCHANGED <<run, fire, lock, index, conn, bus, cancel>> => Served'
  BY DEF ServeInv, Served, Locked, Indexed, Wired, Turned, Posted, Attached, Prompting,
         AgentServesRun, Up, Running
<1>b. ASSUME (\E r \in Runs : List(r)) \/ SortOut \/ LookUp \/ ReadConversation \/ Tick
      PROVE  UNCHANGED <<run, fire, lock, index, conn, bus, cancel>>
  BY <1>b DEF List, SortOut, LookUp, ReadConversation, Tick
<1>c. ASSUME User PROVE UNCHANGED <<run, fire, lock, index, conn, bus, cancel>>
  BY <1>c DEF User, Editing, SetEnabled, WriteEdit, Marking, MarkConversation, Delete, MarkSeen
<1> USE StillView, GoView
    DEF TypeInv, PartyOK, IndexOK, CancelOK, ServeInv,
        Served, Locked, Indexed, Wired, Turned, Posted, Attached, Prompting, AgentServesRun,
        Critical, Later, At, Unsettled, Wires
<1>1. ASSUME NEW r \in Runs, OnEvent(r) PROVE Served'
  <2>1. /\ \A t \in Runs \ {r} : Unsettled(t)
        /\ run'[r].conv = run[r].conv
    BY <1>1, SettleView, OutcomeType DEF OnEvent
  <2> QED BY ZenonT(60), <1>1, <2>1 DEF OnEvent, BusOK
<1>2. CASE Cut
  <2>1. loop.run \in Runs BY <1>2 DEF Cut, LoopOK
  <2> QED BY <1>2, <2>1, DisconnectView DEF Cut
<1>3. CASE (\E r \in Runs : List(r)) \/ SortOut \/ LookUp \/ ReadConversation \/ Tick \/ User
  BY <1>3, <1>a, <1>b, <1>c
<1>4. CASE Conclude
  <2>1. loop.run \in Runs BY <1>4 DEF Conclude, LoopOK
  <2>2. /\ Sure => fire[loop.run].pc \in Later
        /\ Sure => ~Up(loop.run)
    BY <1>4 DEF Conclude, Looked
  <2>3. CASE Verdict(loop.conv, loop.hopeless) = "none"
    BY <1>4, <2>1, <2>2, <2>3 DEF Conclude, Sure
  <2>4. CASE Verdict(loop.conv, loop.hopeless) \in Settled
    <3>1. Sure BY <2>4 DEF Sure, Verdict, Settled, Finished
    <3>2. /\ \A t \in Runs \ {loop.run} : Unsettled(t)
          /\ run'[loop.run].conv = run[loop.run].conv
      BY <1>4, <2>1, <2>4, SettleView DEF Conclude, Settled
    <3> QED BY <1>4, <2>1, <2>2, <3>1, <3>2 DEF Conclude
  <2> QED BY <2>3, <2>4, VerdictType
<1>5. CASE Restart
  <2>1. \A r \in Runs : ~Up(r)' /\ ~conn'[r].turn
    BY <1>5 DEF Restart, NoConn, Up, ConnOK
  <2>2. \A r \in Runs : run'[r].conv = run[r].conv BY <1>5 DEF Restart, RunOK
  <2>3. \A r \in Runs : fire'[r].pc = IF fire[r].pc = "idle" THEN "idle" ELSE "done"
    BY <1>5 DEF Restart, FireOK
  <2> QED BY <1>5, <2>1, <2>2, <2>3 DEF Restart
<1> QED BY <1>1, <1>2, <1>3, <1>4, <1>5 DEF Reconcile

\* No step takes a fire back, and a connection that is gone stays gone.
LEMMA LaterStays ==
  ASSUME TypeInv, ServeInv, [Next]_vars, NEW s \in Runs, fire[s].pc \in Later
  PROVE  /\ fire'[s].pc \in Later
         /\ ~Up(s) => ~Up(s)'
<1> USE StillView, GoView DEF TypeInv, PartyOK, ServeInv, At, Later, Wires
<1> DEFINE Goal == /\ fire'[s].pc \in Later
                   /\ ~Up(s) => ~Up(s)'
<1>1. CASE UNCHANGED vars BY <1>1 DEF vars
<1>2. ASSUME NEW r \in Runs, Launch(r) PROVE Goal
  <2>1. fire'[s].pc \in Later
    BY <1>2 DEF Launch, Begin, FileTask, SettleTask, LaunchFails, Gate, Spawn,
       CreateConversation, Attach, LastGate, Prompt, FailRun
  <2>2. ~Up(s) => ~Up(s)'
    <3>1. CASE Spawn(r) BY <3>1 DEF Spawn, ConnOK, Up
    <3>2. CASE CreateConversation(r) BY <3>2, DisconnectView DEF CreateConversation
    <3>3. CASE LastGate(r) BY <3>3, DisconnectView DEF LastGate, Abandon
    <3>4. CASE Prompt(r)
      <4>1. CASE Up(r) /\ ~Abandon(r) BY <3>4, <4>1 DEF Prompt, ConnOK, Up
      <4>2. CASE Abandon(r) BY <4>2, DisconnectView DEF Abandon
      <4> QED BY <3>4, <4>1, <4>2 DEF Prompt
    <3> QED BY <1>2, <3>1, <3>2, <3>3, <3>4 DEF Launch, Begin, FileTask, SettleTask,
               LaunchFails, Gate, Attach, FailRun
  <2> QED BY <2>1, <2>2
<1>3. ASSUME NEW r \in Runs, Claim(r) PROVE Goal
  BY <1>3 DEF Claim, Fresh, FireOK
<1>4. ASSUME NEW r \in Runs, Click(r) \/ GrowOld(r) \/ Lag(r) \/ Worker(r) \/ OnEvent(r)
                             \/ CancelRun(r) \/ CancelLock(r) \/ List(r)
      PROVE  Goal
  BY <1>4 DEF Click, Fresh, GrowOld, Lag, Worker, WorkerTurn, WorkerGone, OnEvent, CancelRun,
     CancelLock, List
<1>5. ASSUME NEW r \in Runs, AgentDies(r) \/ SweepIdle(r) \/ CancelCut(r) PROVE Goal
  BY <1>5, DisconnectView DEF AgentDies, SweepIdle, CancelCut
<1>6. ASSUME NEW r \in Runs, UserStops(r) \/ CancelAsk(r) PROVE Goal
  BY <1>6, AskView DEF UserStops, CancelAsk
<1>7. ASSUME NEW r \in Runs, NEW stop \in Stops, TurnEnds(r, stop) PROVE Goal
  BY <1>7 DEF TurnEnds, Quiet, ConnOK, Up
<1>8. CASE Cut
  <2>1. loop.run \in Runs BY <1>8 DEF Cut, LoopOK
  <2> QED BY <1>8, <2>1, DisconnectView DEF Cut
<1>9. CASE SortOut \/ LookUp \/ ReadConversation \/ Conclude \/ User \/ Tick
  BY <1>9 DEF SortOut, LookUp, ReadConversation, Conclude, User, Editing, SetEnabled, WriteEdit,
     Marking, MarkConversation, Delete, MarkSeen, Tick
<1>10. CASE Restart BY <1>10 DEF Restart, FireOK, ConnOK, NoConn, Up
<1> QED BY <1>1, <1>2, <1>3, <1>4, <1>5, <1>6, <1>7, <1>8, <1>9, <1>10
        DEF Next, Reconcile, Cancelling

\* The loop concludes of such runs only, although what it read may be stale.
LEMMA LookedNext == TypeInv /\ ServeInv /\ [Next]_vars => Looked'
<1> SUFFICES ASSUME TypeInv, ServeInv, [Next]_vars PROVE Looked' OBVIOUS
<1> USE DEF TypeInv, ServeInv
<1>1. CASE UNCHANGED loop
  <2>1. loop.pc # "idle" => loop.run \in Runs BY DEF LoopOK
  <2> QED BY <1>1, <2>1, LaterStays DEF Looked, Sure
<1>2. ASSUME NEW r \in Runs, OnEvent(r) PROVE Looked'
  <2>1. UNCHANGED loop \/ loop'.pc = "cut" BY <1>2 DEF OnEvent, LoopOK
  <2> QED BY <1>1, <2>1 DEF Looked
<1>3. CASE Cut \/ Conclude \/ Restart BY <1>3 DEF Cut, Conclude, Restart, Idle, Looked
<1>4. ASSUME NEW r \in Runs, List(r) PROVE Looked'
  <2>1. /\ loop'.pc = "listed" /\ loop'.run = r /\ ~loop'.owned /\ ~loop'.hopeless
        /\ loop'.conv # "none" => run[r].conv
    BY <1>4 DEF List, Idle
  <2>2. loop'.conv # "none" => fire'[r].pc \in Later
    BY <1>4, <2>1 DEF List, Attached
  <2> QED BY <2>1, <2>2 DEF Looked, Sure
<1>5. CASE SortOut
  <2> DEFINE owned == loop.run \in index
             hopeless == owned \/ At(loop.run, "overdue")
             pc == IF owned THEN "owned" ELSE "reading"
  <2>1. loop' = [loop EXCEPT !.pc = pc, !.owned = owned, !.hopeless = hopeless]
    BY <1>5 DEF SortOut
  <2>2. loop.run \in Runs /\ UNCHANGED <<fire, conn>> BY <1>5 DEF SortOut, LoopOK
  <2>3. hopeless => fire[loop.run].pc \in Later BY <2>2 DEF Indexed, At, Later
  <2>4. loop.conv # "none" => fire[loop.run].pc \in Later
    BY <1>5 DEF SortOut, Looked, Sure
  <2>5. ~owned /\ fire[loop.run].pc \in Later => ~Up(loop.run) BY <2>2 DEF Wired, Later
  <2>6. pc = "reading" => ~owned OBVIOUS
  <2>7. owned => hopeless OBVIOUS
  <2> HIDE DEF owned, hopeless, pc
  <2>8. /\ loop'.pc = pc /\ loop'.owned = owned /\ loop'.hopeless = hopeless
        /\ loop'.run = loop.run /\ loop'.conv = loop.conv
    BY <2>1, Zenon DEF LoopOK
  <2>9. pc # "deciding" BY DEF pc
  <2> QED BY <2>2, <2>3, <2>4, <2>5, <2>6, <2>7, <2>8, <2>9 DEF Looked, Sure, Up
<1>6. CASE LookUp
  <2>1. CASE loop' = Idle BY <2>1 DEF Idle, Looked
  <2>2. CASE ~Lives(loop.run) /\ loop' = [loop EXCEPT !.pc = "reading"]
    <3>1. loop.run \in Runs /\ UNCHANGED <<fire, conn>> BY <1>6 DEF LookUp, LoopOK
    <3> QED BY <1>6, <2>2, <3>1 DEF LookUp, LoopOK, Looked, Sure, Lives, Up
  <2> QED BY <1>6, <2>1, <2>2 DEF LookUp
<1>7. CASE ReadConversation
  <2>1. loop.run \in Runs /\ UNCHANGED <<fire, conn>> BY <1>7 DEF ReadConversation, LoopOK
  <2>2. Sure' => Sure BY <1>7 DEF ReadConversation, LoopOK, Sure
  <2>3. loop'.run = loop.run BY <1>7 DEF ReadConversation, LoopOK
  <2> QED BY <1>7, <2>1, <2>2, <2>3 DEF ReadConversation, Looked, Up
<1>8. ASSUME NEW r \in Runs,
             \/ Claim(r) \/ Click(r) \/ Launch(r) \/ AgentDies(r) \/ Lag(r) \/ SweepIdle(r)
             \/ UserStops(r) \/ GrowOld(r) \/ Worker(r) \/ CancelRun(r) \/ Cancelling(r)
             \/ (\E stop \in Stops : TurnEnds(r, stop))
      PROVE  UNCHANGED loop
  BY <1>8 DEF Claim, Click, Launch, Begin, FileTask, SettleTask, LaunchFails, Gate, Spawn,
     CreateConversation, Attach, LastGate, Prompt, FailRun, AgentDies, Lag, SweepIdle, UserStops,
     GrowOld, Worker, WorkerTurn, WorkerGone, CancelRun, Cancelling, CancelLock, CancelAsk,
     CancelCut, TurnEnds
<1>9. User \/ Tick \/ UNCHANGED vars => UNCHANGED loop
  BY DEF User, Editing, SetEnabled, WriteEdit, Marking, MarkConversation, Delete, MarkSeen, Tick,
         vars
<1> QED BY <1>1, <1>2, <1>3, <1>4, <1>5, <1>6, <1>7, <1>8, <1>9 DEF Next, Reconcile

\* Every step keeps an agent at work for a run that is running.
LEMMA ServeNext == TypeInv /\ ServeInv /\ [Next]_vars => ServeInv'
<1> SUFFICES ASSUME TypeInv, ServeInv, [Next]_vars PROVE ServeInv' OBVIOUS
<1>1. Looked' BY LookedNext
<1>2. CASE UNCHANGED vars
  BY <1>2 DEF vars, ServeInv, Looked, Sure, Locked, Indexed, Wired, Turned, Posted, Attached,
              Prompting, AgentServesRun, Up, Running
<1>3. CASE Next
  <2>1. Served' BY <1>3, ServeLaunch, ServeAgent, ServeLoop DEF Next
  <2> QED BY <1>1, <2>1 DEF Served, ServeInv
<1> QED BY <1>2, <1>3

\* Nobody but its own cancel settles a run while its agent is at work: the launch, the
\* engine's loop with what it read a while ago, a second cancel and the boot included.
THEOREM AgentServes == Spec => []AgentServesRun
<1>1. Init => TypeInv /\ ServeInv BY TypeInit, ServeInit
<1>2. TypeInv /\ ServeInv /\ [Next]_vars => TypeInv' /\ ServeInv' BY TypeNext, ServeNext
<1>3. ServeInv => AgentServesRun BY DEF ServeInv
<1> QED BY <1>1, <1>2, <1>3, PTL DEF Spec
===============================================================================
