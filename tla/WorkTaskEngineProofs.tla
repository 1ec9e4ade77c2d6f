------------------------- MODULE WorkTaskEngineProofs -------------------------
(***************************************************************************)
(* Type correctness of WorkTaskEngine, and that it implements              *)
(* WorkTaskLifecycle, for every number of tasks, launches, generations,    *)
(* requests, crashes and faults.                                           *)
(***************************************************************************)
EXTENDS WorkTaskEngine, TLAPS, SequenceTheorems

----------------------------------------------------------------------------
(* The inductive invariant: TypeOK, and what it rests on *)

\* A row on its way to a run, or in one, has been claimed.
ClaimedHasSeq == \A t \in Tasks : row[t].status \in Interruptible => row[t].seq > 0

\* A launch that has its agent has its conversation.
Spawned == {"bind", "compose", "mark", "prompt"}
SpawnedHasConv ==
  \A l \in Launches : launch[l].pc \in Spawned => launch[l].conv \in Launches

RowInv    == row \in [Tasks -> Row] /\ LiveIsBound /\ ClaimedHasSeq
LaunchInv == launch \in [Launches -> Launch] /\ LockedHasSeq /\ SpawnedHasConv
ConvInv   == convStatus \in [Launches -> ConvStatuses]
LockInv   == taskLock \in [Tasks -> MaybeLaunch]

TypeInv == /\ RowInv /\ ConvInv /\ LaunchInv /\ LockInv
           /\ ConnsOK /\ MemoryOK /\ ControlOK /\ HistoryOK

USE DEF db, procs, conns, memory, control, history

\* The invariant contains the one that the runs check.
LEMMA TypeInvImpliesTypeOK == TypeInv => TypeOK
BY DEF TypeInv, TypeOK, RowInv, LaunchInv, ConvInv, LockInv, TableOK, ProcsOK

\* Each part of the invariant depends on its own variables.
LEMMA Frame ==
  ASSUME TypeInv
  PROVE  /\ UNCHANGED row => RowInv'
         /\ UNCHANGED convStatus => ConvInv'
         /\ UNCHANGED launch => LaunchInv'
         /\ UNCHANGED taskLock => LockInv'
         /\ UNCHANGED conns => ConnsOK'
         /\ UNCHANGED memory => MemoryOK'
         /\ UNCHANGED control => ControlOK'
         /\ UNCHANGED history => HistoryOK'
BY DEF TypeInv, RowInv, LaunchInv, ConvInv, LockInv, ConnsOK, MemoryOK, ControlOK,
       HistoryOK, LiveIsBound, ClaimedHasSeq, LockedHasSeq, SpawnedHasConv

\* Zero, the generation of a task that never ran, is in range.
LEMMA ZeroSeq == 0 \in Seqs
BY NatAssumption DEF Seqs

\* A launch belongs to a task.
LEMMA TaskOfType == \A l \in Launches : TaskOf(l) \in Tasks
BY DEF TaskOf, Launches

\* The invariant holds of a board of tasks to do.
LEMMA TypeInit == Init => TypeInv
<1> SUFFICES ASSUME Init PROVE TypeInv OBVIOUS
<1> USE ZeroSeq DEF Init
<1>1. RowInv
  BY DEF RowInv, Row, Statuses, MaybeLaunch, LiveIsBound, ClaimedHasSeq, Live,
         Interruptible
<1>2. LaunchInv
  BY DEF LaunchInv, Launch, Pcs, MaybeLaunch, LockedHasSeq, SpawnedHasConv, Spawned,
         Locked
<1>3. ConvInv /\ LockInv
  BY DEF ConvInv, ConvStatuses, LockInv, MaybeLaunch
<1>4. ConnsOK
  <2>1. agent \in [Launches -> AgentPhases] BY DEF AgentPhases
  <2>2. asks \in [Launches -> [Keys -> AskStates]] BY DEF AskStates
  <2>3. bus \in Seq(Event) BY EmptySeq
  <2>4. worker \in [Launches -> Seq(Stops \cup {"gone"})] BY EmptySeq
  <2> QED BY <2>1, <2>2, <2>3, <2>4 DEF ConnsOK
<1>5. MemoryOK BY DEF MemoryOK, MaybeLaunch
<1>6. ControlOK BY DEF ControlOK, LoopState, PumpState
<1>7. HistoryOK
  <2>1. prompted \in SUBSET Launches /\ direct \in SUBSET Launches OBVIOUS
  <2>2. lossy \in BOOLEAN OBVIOUS
  <2>3. failures \in 0..MaxFaults BY NatAssumption
  <2> QED BY <2>1, <2>2, <2>3 DEF HistoryOK
<1> QED BY <1>1, <1>2, <1>3, <1>4, <1>5, <1>6, <1>7 DEF TypeInv

----------------------------------------------------------------------------
(* The operators that the actions share *)

\* A claim opens a generation of its own.
LEMMA ClaimType ==
  ASSUME RowInv, NEW t \in Tasks, NEW from, Claim(t, from)
  PROVE  RowInv'
BY NatAssumption DEF RowInv, Claim, Row, Seqs, Statuses, LiveIsBound, ClaimedHasSeq,
                     Live, Interruptible

\* A run that ends leaves its connection and keeps its generation.
LEMMA EndRunType ==
  ASSUME RowInv, NEW t \in Tasks, CancelRow(t) \/ FailRow(t) \/ SettleReview(t)
  PROVE  RowInv'
BY DEF RowInv, CancelRow, FailRow, SettleReview, Row, Statuses, LiveIsBound,
       ClaimedHasSeq, Live, Interruptible, MaybeLaunch

\* A launch may go wherever what it knows suffices.
LEMMA GoToType ==
  ASSUME LaunchInv, NEW l \in Launches, NEW pc \in Pcs, GoTo(l, pc),
         pc \in Locked => launch[l].seq > 0,
         pc \in Spawned => launch[l].conv \in Launches
  PROVE  LaunchInv'
BY DEF LaunchInv, GoTo, Launch, LockedHasSeq, SpawnedHasConv

\* Returning from TaskEngine::launch.
LEMMA LeaveType ==
  ASSUME LaunchInv, LockInv, NEW l \in Launches, Leave(l) \/ Err(l)
  PROVE  LaunchInv' /\ LockInv'
<1>1. LaunchInv'
  BY GoToType DEF Leave, Err, Pcs, Locked, Spawned
<1>2. LockInv'
  BY TaskOfType DEF Leave, Err, Unlock, LockInv, MaybeLaunch
<1> QED BY <1>1, <1>2

\* The conversation of a spawned launch is one.
LEMMA SpawnedConv ==
  ASSUME LaunchInv, NEW l \in Launches, launch[l].pc \in Spawned
  PROVE  launch[l].conv \in Launches
BY DEF LaunchInv, SpawnedHasConv

\* A disconnect.
LEMMA DropType ==
  ASSUME ConnsOK, NEW l \in Launches, Drop(l), UNCHANGED bus
  PROVE  ConnsOK'
<1>1. agent' \in [Launches -> AgentPhases] BY DEF ConnsOK, Drop, AgentPhases
<1>2. asks' \in [Launches -> [Keys -> AskStates]] BY DEF ConnsOK, Drop, AskStates
<1>3. worker' \in [Launches -> Seq(Stops \cup {"gone"})] BY DEF ConnsOK, Drop
<1> QED BY <1>1, <1>2, <1>3 DEF ConnsOK

\* A connection leaves the correlation index, with its requests or without.
LEMMA RetireType ==
  ASSUME MemoryOK, NEW l \in Launches, NEW t \in Tasks, Retire(l, t),
         UNCHANGED <<launching, setup>>
  PROVE  MemoryOK'
<1>1. awaiting' = awaiting \/ awaiting' = Forgotten(t) BY DEF Retire
<1> QED BY <1>1, ZeroSeq DEF MemoryOK, Retire, Forgotten

LEMMA RetireHistory ==
  ASSUME HistoryOK, NEW l, NEW t, Retire(l, t), UNCHANGED <<prompted, direct, failures>>
  PROVE  HistoryOK'
<1>1. lossy' \in BOOLEAN BY DEF HistoryOK, Retire
<1> QED BY <1>1 DEF HistoryOK

\* A pass of the pump is owed.
LEMMA PumpOwedType ==
  ASSUME ControlOK, PumpOwed, UNCHANGED <<loop, booted>>, cancels' \subseteq cancels
  PROVE  ControlOK'
BY DEF ControlOK, PumpOwed, PumpState

\* The launch of a fault's action counts it.
LEMMA FaultyType ==
  ASSUME HistoryOK, Faulty, UNCHANGED <<prompted, direct>>, lossy' \in BOOLEAN
  PROVE  HistoryOK'
BY NatAssumption DEF HistoryOK, Faulty

----------------------------------------------------------------------------
(* The user, the cancel cleanups and the pump *)

\* A request of the user preserves the invariant.
LEMMA UserType == ASSUME TypeInv, User PROVE TypeInv'
<1> USE Frame
<1> PICK t \in Tasks : \/ Start(t) \/ Retry(t) \/ Cancel(t) \/ Requeue(t) \/ Accept(t)
                       \/ \E l \in Launches : Return(t, l)
  BY DEF User
<1>1. CASE Start(t) \/ Retry(t)
  <2>1. RowInv' BY <1>1, ClaimType DEF TypeInv, Start, Retry
  <2>2. ControlOK' BY <1>1, PumpOwedType DEF TypeInv, Start, Retry
  <2> QED BY <1>1, <2>1, <2>2 DEF TypeInv, Start, Retry
<1>2. CASE Cancel(t)
  <2>1. RowInv' BY <1>2, EndRunType DEF TypeInv, Cancel
  <2>2. Frozen(t) \in Context
    BY DEF TypeInv, RowInv, Row, Frozen, Context
  <2>3. ControlOK' BY <1>2, <2>2 DEF TypeInv, ControlOK, Cancel
  <2> QED BY <1>2, <2>1, <2>3 DEF TypeInv, Cancel
<1>3. CASE Requeue(t) \/ Accept(t)
  <2>1. RowInv'
    BY <1>3 DEF TypeInv, RowInv, Requeue, Accept, Row, Statuses, LiveIsBound,
                ClaimedHasSeq, Live, Interruptible, MaybeLaunch
  <2> QED BY <1>3, <2>1 DEF TypeInv, Requeue, Accept
<1>4. ASSUME NEW l \in Launches, Return(t, l) PROVE TypeInv'
  <2>1. RowInv' BY <1>4, ClaimType DEF TypeInv, Return
  <2>2. LaunchInv'
    <3>1. GoTo(l, "slot") BY <1>4 DEF Return, GoTo
    <3> QED BY <3>1, GoToType DEF TypeInv, Pcs, Locked, Spawned
  <2>3. HistoryOK' BY <1>4 DEF TypeInv, HistoryOK, Return
  <2> QED BY <1>4, <2>1, <2>2, <2>3 DEF TypeInv, Return
<1> QED BY <1>1, <1>2, <1>3, <1>4

\* A step of a cancel's cleanup preserves the invariant.
LEMMA CancelStepType ==
  ASSUME TypeInv, NEW c \in cancels, CancelStep(c) PROVE TypeInv'
<1> USE Frame
<1>0. c \in Context BY DEF TypeInv, ControlOK
<1>1. CASE CancelKill(c)
  <2>1. ControlOK'
    BY <1>0, <1>1 DEF TypeInv, ControlOK, CancelKill, Cleanup, Context
  <2>2. MemoryOK'
    BY ZenonT(60), <1>0, <1>1 DEF TypeInv, MemoryOK, CancelKill, Context
  <2> QED BY <1>1, <2>1, <2>2 DEF TypeInv, CancelKill
<1>2. CASE CancelCleanup(c)
  <2>1. Owns(c) => c.conn \in Launches BY DEF TypeInv, MemoryOK, Owns
  <2>2. ConnsOK'
    BY <1>2, <2>1, DropType DEF TypeInv, ConnsOK, CancelCleanup
  <2>3. MemoryOK'
    BY <1>0, <1>2, <2>1, RetireType DEF TypeInv, MemoryOK, CancelCleanup, Context
  <2>4. ConvInv'
    BY <1>0, <1>2 DEF TypeInv, ConvInv, ConvStatuses, CancelCleanup, Context, MaybeLaunch
  <2>5. ControlOK' BY <1>2, PumpOwedType DEF TypeInv, CancelCleanup
  <2>6. HistoryOK'
    <3>1. CASE Owns(c) BY <1>2, <3>1, RetireHistory DEF TypeInv, CancelCleanup
    <3>2. CASE ~Owns(c) BY <1>2, <3>2 DEF TypeInv, HistoryOK, CancelCleanup
    <3> QED BY <3>1, <3>2
  <2> QED BY <1>2, <2>2, <2>3, <2>4, <2>5, <2>6 DEF TypeInv, CancelCleanup
<1> QED BY <1>1, <1>2 DEF CancelStep

\* A step of the pump preserves the invariant.
LEMMA PumpStepType == ASSUME TypeInv, PumpStep PROVE TypeInv'
<1> USE Frame
<1>1. CASE PumpStart
  <2>1. ControlOK'
    BY <1>1 DEF TypeInv, ControlOK, PumpStart, PumpState, InFlight
  <2> QED BY <1>1, <2>1 DEF TypeInv, PumpStart
<1>2. CASE PumpAutoDone
  <2>1. ControlOK'
    BY <1>2 DEF TypeInv, ControlOK, PumpAutoDone, PumpState, InFlight
  <2> QED BY <1>2, <2>1 DEF TypeInv, PumpAutoDone
<1>3. CASE PumpEmpty
  <2>1. ControlOK'
    BY <1>3 DEF TypeInv, ControlOK, PumpEmpty, PumpState
  <2> QED BY <1>3, <2>1 DEF TypeInv, PumpEmpty
<1>4. ASSUME NEW t \in Tasks, PumpAutoClaim(t) PROVE TypeInv'
  <2>1. RowInv' BY <1>4, ClaimType DEF TypeInv, PumpAutoClaim
  <2> QED BY <1>4, <2>1 DEF TypeInv, PumpAutoClaim
<1>5. ASSUME NEW t \in Tasks, NEW l \in Launches, PumpNext(t, l) PROVE TypeInv'
  <2>1. LaunchInv'
    <3>1. GoTo(l, "lock") BY <1>5 DEF PumpNext, GoTo
    <3> QED BY <3>1, GoToType DEF TypeInv, Pcs, Locked, Spawned
  <2>2. MemoryOK' BY <1>5 DEF TypeInv, MemoryOK, PumpNext, MaybeLaunch
  <2>3. ControlOK' BY <1>5 DEF TypeInv, ControlOK, PumpNext, PumpState, InFlight
  <2> QED BY <1>5, <2>1, <2>2, <2>3 DEF TypeInv, PumpNext
<1> QED BY <1>1, <1>2, <1>3, <1>4, <1>5 DEF PumpStep

----------------------------------------------------------------------------
(* Launches *)

\* What a launch does when all goes well preserves the invariant.
LEMMA ForwardType ==
  ASSUME TypeInv, NEW l \in Launches, Forward(l) PROVE TypeInv'
<1> USE Frame, TaskOfType DEF At, SeqOf
<1>1. CASE ClaimSlot(l)
  <2>1. LaunchInv' BY <1>1, GoToType DEF TypeInv, ClaimSlot, Pcs, Locked, Spawned
  <2>2. MemoryOK' BY <1>1 DEF TypeInv, MemoryOK, ClaimSlot, MaybeLaunch
  <2> QED BY <1>1, <2>1, <2>2 DEF TypeInv, ClaimSlot
<1>2. CASE EnterStale(l)
  <2>1. LaunchInv' BY <1>2, GoToType DEF TypeInv, EnterStale, Pcs, Locked, Spawned
  <2> QED BY <1>2, <2>1 DEF TypeInv, EnterStale
<1>3. CASE Enter(l)
  <2>1. /\ row[TaskOf(l)].seq \in Seqs /\ row[TaskOf(l)].seq > 0
        /\ row[TaskOf(l)].conv \in MaybeLaunch
    BY <1>3 DEF TypeInv, RowInv, Row, ClaimedHasSeq, Interruptible, Enter
  <2>2. LaunchInv'
    <3>1. launch' \in [Launches -> Launch]
      <4>1. [launch[l] EXCEPT !.pc = "begin", !.seq = row[TaskOf(l)].seq,
                              !.conv = row[TaskOf(l)].conv] \in Launch
        BY <2>1 DEF TypeInv, LaunchInv, Launch, Pcs
      <4> QED BY <1>3, <4>1 DEF TypeInv, LaunchInv, Enter
    <3> QED
      BY <1>3, <2>1, <3>1 DEF TypeInv, LaunchInv, Launch, LockedHasSeq, Locked,
                              SpawnedHasConv, Spawned, Enter
  <2>3. LockInv' BY <1>3 DEF TypeInv, LockInv, MaybeLaunch, Enter
  <2>4. MemoryOK'
    BY <1>3, <2>1 DEF TypeInv, MemoryOK, Enter, ReserveSetup
  <2> QED BY <1>3, <2>2, <2>3, <2>4 DEF TypeInv, Enter
<1>4. CASE BeginSetup(l)
  <2>1. RowInv'
    BY <1>4 DEF TypeInv, RowInv, Row, Statuses, MaybeLaunch, LiveIsBound, Live,
                ClaimedHasSeq, Interruptible, BeginSetup, Cas
  <2>2. LaunchInv' /\ LockInv'
    BY <1>4, LeaveType, GoToType DEF TypeInv, BeginSetup, LaunchInv, LockedHasSeq, Pcs,
                                     Locked, Spawned
  <2> QED BY <1>4, <2>1, <2>2 DEF TypeInv, BeginSetup
<1>5. CASE Gate(l)
  <2>1. LaunchInv' /\ LockInv'
    BY <1>5, LeaveType, GoToType DEF TypeInv, Gate, LaunchInv, LockedHasSeq, Pcs,
                                     Locked, Spawned
  <2> QED BY <1>5, <2>1 DEF TypeInv, Gate
<1>6. CASE StartInit(l)
  <2>1. LaunchInv' /\ LockInv'
    BY <1>6, LeaveType, GoToType DEF TypeInv, StartInit, LaunchInv, LockedHasSeq, Pcs,
                                     Locked, Spawned
  <2>2. MemoryOK'
    BY SMTT(30), <1>6 DEF TypeInv, MemoryOK, StartInit, LaunchInv, Launch
  <2> QED BY <1>6, <2>1, <2>2 DEF TypeInv, StartInit
<1>7. CASE InitKilled(l)
  <2>1. LaunchInv' /\ LockInv' BY <1>7, LeaveType DEF TypeInv, InitKilled
  <2> QED BY <1>7, <2>1 DEF TypeInv, InitKilled
<1>8. CASE Spawn(l)
  <2>1. LaunchInv'
    <3>1. CASE Leave(l) BY <3>1, LeaveType DEF TypeInv
    <3>2. CASE /\ launch[l].conv # NoLaunch
               /\ launch' = [launch EXCEPT ![l].pc = "bind", ![l].resumed = TRUE]
      BY <1>8, <3>2 DEF TypeInv, LaunchInv, Launch, MaybeLaunch, Pcs, LockedHasSeq,
                        Locked, SpawnedHasConv, Spawned, Spawn
    <3>3. CASE launch' = [launch EXCEPT ![l].pc = "compose", ![l].conv = l]
      BY ZenonT(60), <1>8, <3>3 DEF TypeInv, LaunchInv, Launch, MaybeLaunch, Pcs, LockedHasSeq,
                        Locked, SpawnedHasConv, Spawned, Spawn
    <3> QED BY <1>8, <3>1, <3>2, <3>3 DEF Spawn
  <2>2. LockInv' BY <1>8, LeaveType DEF TypeInv, Spawn
  <2>3. ConnsOK' BY <1>8 DEF TypeInv, ConnsOK, AgentPhases, Spawn
  <2> QED BY <1>8, <2>1, <2>2, <2>3 DEF TypeInv, Spawn
<1>9. CASE Bind(l)
  <2>1. launch[l].conv \in Launches
    BY <1>9, SpawnedConv DEF TypeInv, Bind, Spawned
  <2>2. RowInv'
    BY <1>9, <2>1 DEF TypeInv, RowInv, Row, MaybeLaunch, LiveIsBound, ClaimedHasSeq, Bind
  <2>3. LaunchInv' /\ LockInv'
    BY <1>9, <2>1, LeaveType, GoToType DEF TypeInv, Bind, LaunchInv, LockedHasSeq, Pcs,
                                           Locked, Spawned
  <2>4. ConnsOK' BY <1>9, DropType DEF TypeInv, ConnsOK, Bind
  <2> QED BY <1>9, <2>2, <2>3, <2>4 DEF TypeInv, Bind
<1>10. CASE Compose(l)
  <2>1. LaunchInv'
    BY <1>10, GoToType, SpawnedConv DEF TypeInv, Compose, LaunchInv, LockedHasSeq, Pcs,
                                        Locked, Spawned
  <2>2. MemoryOK' BY <1>10 DEF TypeInv, MemoryOK, Compose
  <2> QED BY <1>10, <2>1, <2>2 DEF TypeInv, Compose
<1>11. CASE Mark(l)
  <2>1. launch[l].conv \in Launches
    BY <1>11, SpawnedConv DEF TypeInv, Mark, Spawned
  <2>2. RowInv'
    BY SMTT(30), <1>11, <2>1 DEF TypeInv, RowInv, Row, MaybeLaunch, Statuses, LiveIsBound,
                       ClaimedHasSeq, Interruptible, Mark, GoLive, StillExpected, Cas
  <2>3. LaunchInv' /\ LockInv'
    BY <1>11, <2>1, LeaveType, GoToType DEF TypeInv, Mark, LaunchInv, LockedHasSeq, Pcs,
                                            Locked, Spawned
  <2>4. ConnsOK' BY <1>11, DropType DEF TypeInv, ConnsOK, Mark, Teardown
  <2>5. MemoryOK' BY <1>11 DEF TypeInv, MemoryOK, Mark, Teardown
  <2>6. ConvInv' BY <1>11, <2>1 DEF TypeInv, ConvInv, ConvStatuses, Mark, Teardown
  <2> QED BY <1>11, <2>2, <2>3, <2>4, <2>5, <2>6 DEF TypeInv, Mark
<1>12. CASE Prompt(l)
  <2>1. LaunchInv' /\ LockInv' BY <1>12, LeaveType DEF TypeInv, Prompt
  <2>2. ConnsOK' BY <1>12 DEF TypeInv, ConnsOK, AgentPhases, Prompt
  <2>3. ConvInv' BY <1>12 DEF TypeInv, ConvInv, ConvStatuses, Prompt
  <2>4. HistoryOK' BY <1>12 DEF TypeInv, HistoryOK, Prompt
  <2> QED BY <1>12, <2>1, <2>2, <2>3, <2>4 DEF TypeInv, Prompt
<1>13. CASE Fail(l)
  <2>1. RowInv' BY <1>13, EndRunType DEF TypeInv, Fail
  <2>2. LaunchInv'
    BY ZenonT(60), <1>13 DEF TypeInv, LaunchInv, Launch, Pcs, LockedHasSeq, Locked,
        SpawnedHasConv,
                 Spawned, Fail
  <2> QED BY <1>13, <2>1, <2>2 DEF TypeInv, Fail
<1>14. CASE Release(l)
  <2>0. launch' = [launch EXCEPT ![l].pc = "over", ![l].error = FALSE,
                                 ![l].resumed = FALSE]
    BY <1>14 DEF Release
  <2>1. LaunchInv'
    <3>1. launch' \in [Launches -> Launch]
      BY ZenonT(60), <2>0 DEF TypeInv, LaunchInv, Launch, Pcs
    <3>2. /\ launch'[l].pc = "over" /\ launch'[l].conv = launch[l].conv
          /\ \A m \in Launches : m # l => launch'[m] = launch[m]
      BY <2>0 DEF TypeInv, LaunchInv, Launch
    <3> QED BY <3>1, <3>2 DEF TypeInv, LaunchInv, LockedHasSeq, Locked,
                              SpawnedHasConv, Spawned
  <2>2. MemoryOK'
    BY <1>14, ZeroSeq DEF TypeInv, MemoryOK, MaybeLaunch, Release, ReleaseSlot
  <2>3. ControlOK' BY <1>14, PumpOwedType DEF TypeInv, Release
  <2> QED BY <1>14, <2>1, <2>2, <2>3 DEF TypeInv, Release
<1> QED
  BY <1>1, <1>2, <1>3, <1>4, <1>5, <1>6, <1>7, <1>8, <1>9, <1>10, <1>11, <1>12, <1>13,
     <1>14 DEF Forward

\* What a launch does when something fails preserves the invariant.
LEMMA TroubleType ==
  ASSUME TypeInv, NEW l \in Launches, Trouble(l) \/ SetupDone(l) PROVE TypeInv'
<1> USE Frame, TaskOfType DEF At, SeqOf
<1>1. CASE EnterRefused(l)
  <2>1. LaunchInv'
    BY ZenonT(60), <1>1 DEF TypeInv, RowInv, Row, LaunchInv, Launch, Pcs, LockedHasSeq, Locked,
                SpawnedHasConv, Spawned, EnterRefused
  <2> QED BY <1>1, <2>1 DEF TypeInv, EnterRefused
<1>2. CASE SetupFailed(l) \/ SpawnFailed(l) \/ ComposeFailed(l)
  <2>1. LaunchInv' /\ LockInv'
    BY <1>2, LeaveType DEF TypeInv, SetupFailed, SpawnFailed, ComposeFailed
  <2> QED BY <1>2, <2>1 DEF TypeInv, SetupFailed, SpawnFailed, ComposeFailed
<1>3. CASE MarkFailed(l) \/ PromptRefused(l)
  <2>1. LaunchInv' /\ LockInv'
    BY <1>3, LeaveType DEF TypeInv, MarkFailed, PromptRefused
  <2>2. ConnsOK' BY <1>3, DropType DEF TypeInv, MarkFailed, PromptRefused, Teardown
  <2>3. MemoryOK' BY <1>3 DEF TypeInv, MemoryOK, MarkFailed, PromptRefused, Teardown
  <2>4. ConvInv'
    BY <1>3 DEF TypeInv, ConvInv, ConvStatuses, MarkFailed, PromptRefused, Teardown
  <2>5. HistoryOK'
    BY <1>3, FaultyType DEF TypeInv, HistoryOK, MarkFailed, PromptRefused
  <2> QED BY <1>3, <2>1, <2>2, <2>3, <2>4, <2>5 DEF TypeInv, MarkFailed, PromptRefused
<1>4. CASE SendFailed(l)
  <2>1. LaunchInv' /\ LockInv' BY <1>4, LeaveType DEF TypeInv, SendFailed
  <2>2. ConnsOK'
    <3>1. agent' \in [Launches -> AgentPhases]
      BY <1>4 DEF TypeInv, ConnsOK, AgentPhases, SendFailed
    <3>2. worker' \in [Launches -> Seq(Stops \cup {"gone"})]
      BY <1>4 DEF TypeInv, ConnsOK, SendFailed
    <3> QED BY <1>4, <3>1, <3>2 DEF TypeInv, ConnsOK, SendFailed
  <2>3. MemoryOK' BY <1>4 DEF TypeInv, MemoryOK, SendFailed
  <2>4. ConvInv' BY <1>4 DEF TypeInv, ConvInv, ConvStatuses, SendFailed
  <2> QED BY <1>4, <2>1, <2>2, <2>3, <2>4 DEF TypeInv, SendFailed
<1>5. CASE FailFailed(l)
  <2>1. LaunchInv'
    BY ZenonT(60), <1>5 DEF TypeInv, LaunchInv, Launch, Pcs, LockedHasSeq, Locked,
        SpawnedHasConv,
                Spawned, FailFailed
  <2>2. HistoryOK' BY <1>5, FaultyType DEF TypeInv, HistoryOK, FailFailed
  <2> QED BY <1>5, <2>1, <2>2 DEF TypeInv, FailFailed
<1>6. CASE SetupDone(l)
  <2>1. LaunchInv'
    BY <1>6, GoToType DEF TypeInv, SetupDone, LaunchInv, LockedHasSeq, Pcs, Locked,
                          Spawned
  <2> QED BY <1>6, <2>1 DEF TypeInv, SetupDone
<1> QED BY <1>1, <1>2, <1>3, <1>4, <1>5, <1>6 DEF Trouble

----------------------------------------------------------------------------
(* Agents, workers and the event loop *)

\* An event published is one more event.
LEMMA PublishType ==
  ASSUME ConnsOK, NEW e \in Event, Publish(e) PROVE bus' \in Seq(Event)
BY DEF ConnsOK, Publish

\* What an agent does, or what happens to it, preserves the invariant.
LEMMA AgentStepType ==
  ASSUME TypeInv, NEW l \in Launches, AgentStep(l) PROVE TypeInv'
<1> USE Frame, TaskOfType DEF SeqOf
<1>1. CASE AgentDie(l) \/ IdleSweep(l)
  <2>1. ConnsOK' BY <1>1, DropType DEF TypeInv, AgentDie, IdleSweep
  <2>2. HistoryOK' BY <1>1, FaultyType DEF TypeInv, HistoryOK, AgentDie, IdleSweep
  <2> QED BY <1>1, <2>1, <2>2 DEF TypeInv, AgentDie, IdleSweep
<1>2. ASSUME NEW v \in Verdicts, AgentReports(l, v) PROVE TypeInv'
  <2>1. RowInv'
    BY <1>2 DEF TypeInv, RowInv, Row, LiveIsBound, ClaimedHasSeq, AgentReports
  <2> QED BY <1>2, <2>1 DEF TypeInv, AgentReports
<1>3. ASSUME NEW k \in Keys, AgentAsk(l, k) \/ UserAnswers(l, k) PROVE TypeInv'
  <2>1. asks' \in [Launches -> [Keys -> AskStates]]
    <3>1. CASE AgentAsk(l, k) BY <3>1 DEF TypeInv, ConnsOK, AskStates, AgentAsk
    <3>2. CASE UserAnswers(l, k) BY <3>2 DEF TypeInv, ConnsOK, AskStates, UserAnswers
    <3> QED BY <1>3, <3>1, <3>2
  <2>2. bus' \in Seq(Event)
    BY <1>3, PublishType DEF TypeInv, AgentAsk, UserAnswers, Event
  <2>3. ConnsOK' BY <1>3, <2>1, <2>2 DEF TypeInv, ConnsOK, AgentAsk, UserAnswers
  <2> QED BY <1>3, <2>3 DEF TypeInv, AgentAsk, UserAnswers
<1>4. ASSUME NEW stop \in Stops, AgentEnd(l, stop) PROVE TypeInv'
  <2>1. agent' \in [Launches -> AgentPhases]
    BY <1>4 DEF TypeInv, ConnsOK, AgentPhases, AgentEnd
  <2>2. bus' \in Seq(Event)
    BY <1>4, PublishType DEF TypeInv, AgentEnd, Event
  <2>3. worker' \in [Launches -> Seq(Stops \cup {"gone"})]
    BY <1>4 DEF TypeInv, ConnsOK, AgentEnd
  <2>4. ConnsOK' BY <1>4, <2>1, <2>2, <2>3 DEF TypeInv, ConnsOK, AgentEnd
  <2>5. ConvInv' BY <1>4 DEF TypeInv, ConvInv, ConvStatuses, AgentEnd
  <2> QED BY <1>4, <2>4, <2>5 DEF TypeInv, AgentEnd
<1> QED BY <1>1, <1>2, <1>3, <1>4 DEF AgentStep

\* A step of a connection's lifecycle worker preserves the invariant.
LEMMA WorkerType ==
  ASSUME TypeInv, NEW l \in Launches, WorkerTurn(l) \/ WorkerGone(l) PROVE TypeInv'
<1>1. worker' \in [Launches -> Seq(Stops \cup {"gone"})]
  <2>1. worker[l] \in Seq(Stops \cup {"gone"}) /\ worker[l] # <<>>
    BY DEF TypeInv, ConnsOK, WorkerTurn, WorkerGone
  <2>2. Tail(worker[l]) \in Seq(Stops \cup {"gone"}) BY <2>1, HeadTailProperties
  <2> QED BY <2>2 DEF TypeInv, ConnsOK, WorkerTurn, WorkerGone
<1>2. ConnsOK' BY <1>1 DEF TypeInv, ConnsOK, WorkerTurn, WorkerGone
<1>3. ConvInv' BY DEF TypeInv, ConvInv, ConvStatuses, WorkerTurn, WorkerGone
<1> QED BY <1>2, <1>3, Frame DEF TypeInv, WorkerTurn, WorkerGone

\* Taking the oldest event off the bus.
LEMMA TakeType ==
  ASSUME ConnsOK, bus # <<>>, bus' = Tail(bus), UNCHANGED <<agent, asks, worker>>
  PROVE  Head(bus) \in Event /\ ConnsOK'
<1>1. Head(bus) \in Event /\ Tail(bus) \in Seq(Event)
  BY HeadTailProperties DEF ConnsOK
<1> QED BY <1>1 DEF ConnsOK

\* What the event loop holds between two awaits.
LEMMA LoopFields ==
  ASSUME loop \in LoopState
  PROVE  /\ loop.pc \in {"turn", "settle"} =>
              loop.conn \in Launches /\ loop.seq \in Seqs /\ loop.stop \in Stops
         /\ loop.pc = "flip" => loop.task \in Tasks
         /\ loop.pc = "reconcile" => loop.task \in Tasks /\ loop.conn \in Launches
BY DEF LoopState, Idle

\* A step on an event preserves the invariant.
LEMMA EventStepType == ASSUME TypeInv, EventStep PROVE TypeInv'
<1> USE Frame, TaskOfType DEF SeqOf
<1>0. loop \in LoopState BY DEF TypeInv, ControlOK
<1>1. CASE TakeTurn
  <2>1. Head(bus) \in Event /\ ConnsOK' BY <1>1, TakeType DEF TypeInv, TakeTurn
  <2>2. Head(bus).conn \in Launches /\ Head(bus).stop \in Stops
    BY <1>1, <2>1 DEF TakeTurn, Event
  <2>3. launch[Head(bus).conn].seq \in Seqs
    BY <2>2 DEF TypeInv, LaunchInv, Launch
  <2>4. loop' \in LoopState BY <1>1, <2>2, <2>3 DEF TakeTurn, LoopState
  <2>5. ControlOK' BY <1>1, <2>4 DEF TypeInv, ControlOK, TakeTurn
  <2> QED BY <1>1, <2>1, <2>5 DEF TypeInv, TakeTurn
<1>2. CASE TurnRetire
  <2>1. loop.conn \in Launches BY <1>0, <1>2, LoopFields DEF TurnRetire
  <2>2. ConnsOK' BY <1>2, <2>1, DropType DEF TypeInv, TurnRetire
  <2>3. MemoryOK' BY <1>2, <2>1, RetireType DEF TypeInv, TurnRetire
  <2>4. loop' \in LoopState BY <1>0, <1>2 DEF TurnRetire, LoopState, Idle
  <2>5. ControlOK' BY <1>2, <2>4 DEF TypeInv, ControlOK, TurnRetire
  <2>6. HistoryOK' BY <1>2, RetireHistory DEF TypeInv, TurnRetire
  <2> QED BY <1>2, <2>2, <2>3, <2>5, <2>6 DEF TypeInv, TurnRetire
<1>3. CASE TurnSettle
  <2>1. TaskOf(loop.conn) \in Tasks BY <1>0, <1>3, LoopFields DEF TurnSettle
  <2>2. RowInv' BY <1>3, <2>1, EndRunType DEF TypeInv, TurnSettle, SettleWith
  <2>3. ControlOK' BY <1>3 DEF TypeInv, ControlOK, TurnSettle, LoopState, PumpOwed, PumpState
  <2> QED BY <1>3, <2>2, <2>3 DEF TypeInv, TurnSettle
<1>4. CASE TakeRequest
  <2>1. Head(bus) \in Event /\ ConnsOK' BY <1>4, TakeType DEF TypeInv, TakeRequest
  <2>2. Head(bus).conn \in Launches /\ Head(bus).key \in Keys
    BY <1>4, <2>1 DEF TakeRequest, Event
  <2>3. launch[Head(bus).conn].seq \in Seqs
    BY <2>2 DEF TypeInv, LaunchInv, Launch
  <2>4. ASSUME NEW t \in Tasks, NEW s \in Seqs, NEW k \in Keys, NEW up \in BOOLEAN,
               Track(t, s, k, up)
        PROVE  /\ awaiting' \in [Tasks -> [seq: Seqs, keys: SUBSET Keys]]
               /\ loop' \in LoopState
    <3>1. awaiting' \in [Tasks -> [seq: Seqs, keys: SUBSET Keys]]
      <4>1. awaiting \in [Tasks -> [seq: Seqs, keys: SUBSET Keys]]
        BY DEF TypeInv, MemoryOK
      <4>2. Forgotten(t) \in [Tasks -> [seq: Seqs, keys: SUBSET Keys]]
        BY <4>1, ZeroSeq DEF Forgotten
      <4>3. \/ UNCHANGED awaiting
            \/ awaiting' = Forgotten(t)
            \/ \E now \in SUBSET Keys :
                 awaiting' = [awaiting EXCEPT ![t] = [seq |-> s, keys |-> now]]
        <5>1. awaiting[t].keys \in SUBSET Keys BY <4>1
        <5> QED BY <2>4, <5>1 DEF Track
      <4> QED BY <4>1, <4>2, <4>3
    <3>2. loop' = loop \/ loop' = [pc |-> "flip", task |-> t, seq |-> s, up |-> up]
      BY <2>4 DEF Track
    <3> QED BY <1>0, <3>1, <3>2 DEF LoopState
  <2>5. /\ awaiting' \in [Tasks -> [seq: Seqs, keys: SUBSET Keys]]
        /\ loop' \in LoopState
    <3>1. CASE Head(bus).conn \in index
      <4>1. (Head(bus).type = "ask") \in BOOLEAN OBVIOUS
      <4> QED BY <1>4, <2>2, <2>3, <2>4, <3>1, <4>1 DEF TakeRequest
    <3>2. CASE Head(bus).conn \notin index
      BY <1>0, <1>4, <3>2 DEF TypeInv, MemoryOK, TakeRequest
    <3> QED BY <3>1, <3>2
  <2>6. MemoryOK' BY <1>4, <2>5 DEF TypeInv, MemoryOK, TakeRequest
  <2>7. ControlOK' BY <1>4, <2>5 DEF TypeInv, ControlOK, TakeRequest
  <2> QED BY <1>4, <2>1, <2>6, <2>7 DEF TypeInv, TakeRequest
<1>5. CASE Flip
  <2>1. loop.task \in Tasks BY <1>0, <1>5, LoopFields DEF Flip
  <2>2. RowInv'
    BY <1>5, <2>1 DEF TypeInv, RowInv, Row, Statuses, LiveIsBound, Live, ClaimedHasSeq,
                      Interruptible, Flip, Cas
  <2>3. ControlOK' BY <1>5 DEF TypeInv, ControlOK, Flip, LoopState
  <2> QED BY <1>5, <2>2, <2>3 DEF TypeInv, Flip
<1>6. CASE ReconcileSettle
  <2>1. loop.task \in Tasks /\ loop.conn \in Launches
    BY <1>0, <1>6, LoopFields DEF ReconcileSettle
  <2>2. RowInv' BY <1>6, <2>1, EndRunType DEF TypeInv, ReconcileSettle
  <2>3. MemoryOK' BY <1>6, <2>1, RetireType DEF TypeInv, ReconcileSettle
  <2>4. ControlOK' BY <1>6 DEF TypeInv, ControlOK, ReconcileSettle, LoopState
  <2>5. HistoryOK' BY <1>6, RetireHistory DEF TypeInv, ReconcileSettle
  <2> QED BY <1>6, <2>2, <2>3, <2>4, <2>5 DEF TypeInv, ReconcileSettle
<1> QED BY <1>1, <1>2, <1>3, <1>4, <1>5, <1>6 DEF EventStep

\* A step of the event loop preserves the invariant.
LEMMA LoopStepType == ASSUME TypeInv, LoopStep PROVE TypeInv'
<1> USE Frame
<1>1. CASE EventStep BY <1>1, EventStepType
<1>2. CASE ReconcilePump
  <2>1. ControlOK' BY <1>2, PumpOwedType DEF TypeInv, ReconcilePump
  <2> QED BY <1>2, <2>1 DEF TypeInv, ReconcilePump
<1>3. ASSUME NEW t \in Tasks, ReconcileRead(t) PROVE TypeInv'
  <2>1. row[t] \in Row /\ row[t].conn \in Launches
    BY <1>3 DEF TypeInv, RowInv, Row, MaybeLaunch, ReconcileRead
  <2>2. loop' \in LoopState
    BY <1>3, <2>1 DEF ReconcileRead, LoopState, Row
  <2>3. ControlOK' BY <1>3, <2>2 DEF TypeInv, ControlOK, ReconcileRead
  <2> QED BY <1>3, <2>3 DEF TypeInv, ReconcileRead
<1>4. ASSUME NEW t \in Tasks, AbandonSetup(t) PROVE TypeInv'
  <2>1. RowInv'
    BY <1>4 DEF TypeInv, RowInv, Row, Statuses, LiveIsBound, Live, ClaimedHasSeq,
                Interruptible, AbandonSetup
  <2> QED BY <1>4, <2>1 DEF TypeInv, AbandonSetup
<1> QED BY <1>1, <1>2, <1>3, <1>4 DEF LoopStep

----------------------------------------------------------------------------
(* Lost events, crash and boot *)

\* An event lost, a restart or a boot preserves the invariant.
LEMMA EnvironmentType == ASSUME TypeInv, Lag \/ Crash \/ Boot PROVE TypeInv'
<1> USE Frame
<1>1. CASE Lag
  <2>1. ConnsOK' BY <1>1, TakeType DEF TypeInv, Lag
  <2>2. HistoryOK' BY <1>1, FaultyType DEF TypeInv, Lag
  <2> QED BY <1>1, <2>1, <2>2 DEF TypeInv, Lag
<1>2. CASE Crash
  <2>1. LaunchInv'
    <3>1. launch' \in [Launches -> Launch]
      BY <1>2 DEF TypeInv, LaunchInv, Launch, Pcs, Crash
    <3>2. \A l \in Launches : launch'[l].pc \in {"free", "over"}
      BY <1>2 DEF TypeInv, LaunchInv, Launch, Crash
    <3> QED BY <3>1, <3>2 DEF LaunchInv, LockedHasSeq, Locked, SpawnedHasConv, Spawned
  <2>2. LockInv' BY <1>2 DEF LockInv, MaybeLaunch, Crash
  <2>3. ConnsOK'
    <3>1. agent' \in [Launches -> AgentPhases]
      BY <1>2 DEF TypeInv, ConnsOK, AgentPhases, Crash
    <3>2. asks' \in [Launches -> [Keys -> AskStates]] BY <1>2 DEF AskStates, Crash
    <3>3. bus' \in Seq(Event) BY <1>2, EmptySeq DEF Crash
    <3>4. worker' \in [Launches -> Seq(Stops \cup {"gone"})] BY <1>2, EmptySeq DEF Crash
    <3> QED BY <3>1, <3>2, <3>3, <3>4 DEF ConnsOK
  <2>4. MemoryOK' BY <1>2, ZeroSeq DEF MemoryOK, MaybeLaunch, Crash
  <2>5. ControlOK' BY <1>2 DEF ControlOK, LoopState, PumpState, Crash
  <2>6. HistoryOK' BY <1>2, FaultyType DEF TypeInv, Crash
  <2> QED BY <1>2, <2>1, <2>2, <2>3, <2>4, <2>5, <2>6 DEF TypeInv, Crash
<1>3. CASE Boot
  <2>1. RowInv'
    BY ZenonT(60), <1>3 DEF TypeInv, RowInv, Row, Statuses, MaybeLaunch, LiveIsBound, Live,
                ClaimedHasSeq, Interruptible, Boot
  <2>2. ControlOK' BY <1>3 DEF TypeInv, ControlOK, Boot
  <2> QED BY <1>3, <2>1, <2>2 DEF TypeInv, Boot
<1> QED BY <1>1, <1>2, <1>3

----------------------------------------------------------------------------
(* The theorem *)

\* Every step preserves the invariant.
LEMMA TypeNext == TypeInv /\ [Next]_vars => TypeInv'
<1> SUFFICES ASSUME TypeInv, [Next]_vars PROVE TypeInv' OBVIOUS
<1>1. CASE UNCHANGED vars BY <1>1, Frame DEF vars, TypeInv
<1>2. CASE Next
  BY <1>2, UserType, CancelStepType, PumpStepType, ForwardType, TroubleType,
     AgentStepType, WorkerType, LoopStepType, EnvironmentType DEF Next
<1> QED BY <1>1, <1>2

\* The invariant holds throughout.
THEOREM TypeInvariant == Spec => []TypeInv
BY TypeInit, TypeNext, PTL DEF Spec

\* Whatever the number of tasks, launches, crashes and faults, the table, the
\* processes and the engine's memory keep their types; a live row names its
\* connection and its conversation, and a launch under the lock its generation.
THEOREM TypeCorrect == Spec => []TypeOK
BY TypeInvariant, TypeInvImpliesTypeOK, PTL

----------------------------------------------------------------------------
(* The engine implements WorkTaskLifecycle: each of its steps leaves the      *)
(* statuses and generations alone or is one transition of the lifecycle.      *)

\* A step of the lifecycle, or a stutter.
Steps == [Lifecycle!NextLifecycle]_(Lifecycle!lifecycle)

\* Only the row of t changes.
OnlyRow(t) == \A u \in Tasks : u # t => row'[u] = row[u]

\* A row that changes its status and keeps its generation.
LEMMA MoveMaps ==
  ASSUME TypeInv, NEW t \in Tasks, NEW from, NEW to, OnlyRow(t), row[t].status \in from,
         row'[t].status = to, row'[t].seq = row[t].seq
  PROVE  Lifecycle!Move(t, from, to)
<1>1. [u \in Tasks |-> row'[u].status]
        = [[u \in Tasks |-> row[u].status] EXCEPT ![t] = to]
  BY DEF OnlyRow
<1>2. [u \in Tasks |-> row'[u].seq] = [u \in Tasks |-> row[u].seq]
  BY DEF OnlyRow
<1> QED BY <1>1, <1>2 DEF Lifecycle!Move

\* A step that leaves the table alone.
LEMMA StutterMaps == ASSUME UNCHANGED row PROVE Steps
BY DEF Steps, Lifecycle!lifecycle

\* A step that leaves statuses and generations alone.
LEMMA SameMaps ==
  ASSUME NEW t \in Tasks, OnlyRow(t), row'[t].status = row[t].status,
         row'[t].seq = row[t].seq
  PROVE  Steps
<1>1. [u \in Tasks |-> row'[u].status] = [u \in Tasks |-> row[u].status]
  BY DEF OnlyRow
<1>2. [u \in Tasks |-> row'[u].seq] = [u \in Tasks |-> row[u].seq]
  BY DEF OnlyRow
<1> QED BY <1>1, <1>2 DEF Steps, Lifecycle!lifecycle

\* A claim is the lifecycle's ClaimRun.
LEMMA ClaimMaps ==
  ASSUME TypeInv, NEW t \in Tasks, NEW from \in {"todo", "failed", "review"},
         Claim(t, from)
  PROVE  Steps
<1>1. /\ row'[t].status = "queued" /\ row'[t].seq = row[t].seq + 1 /\ OnlyRow(t)
      /\ row[t].status \in {"todo", "failed", "review"}
  BY DEF TypeInv, RowInv, Row, Claim, OnlyRow
<1>2. [u \in Tasks |-> row'[u].status]
        = [[u \in Tasks |-> row[u].status] EXCEPT ![t] = "queued"]
  BY <1>1 DEF OnlyRow
<1>3. [u \in Tasks |-> row'[u].seq]
        = [[u \in Tasks |-> row[u].seq] EXCEPT ![t] = @ + 1]
  BY <1>1 DEF OnlyRow
<1>4. Lifecycle!ClaimRun(t)
  BY <1>1, <1>2, <1>3 DEF Lifecycle!ClaimRun, Lifecycle!NewRun
<1> QED BY <1>4 DEF Steps, Lifecycle!NextLifecycle

\* The four ends of a run.
LEMMA EndRunMaps ==
  ASSUME TypeInv, NEW t \in Tasks,
         \/ row[t].status \in Cancelable /\ CancelRow(t)
         \/ row[t].status \in Interruptible /\ FailRow(t)
         \/ row[t].status \in Live /\ SettleReview(t)
  PROVE  Steps
<1>1. OnlyRow(t) /\ row'[t].seq = row[t].seq
  BY DEF TypeInv, RowInv, Row, CancelRow, FailRow, SettleReview, OnlyRow
<1>2. CASE row[t].status \in Cancelable /\ CancelRow(t)
  <2>1. row'[t].status = "canceled"
    BY <1>2 DEF TypeInv, RowInv, Row, CancelRow
  <2>2. Lifecycle!Cancel(t)
    BY <1>1, <1>2, <2>1, MoveMaps DEF Lifecycle!Cancel, Lifecycle!Cancelable, Cancelable
  <2> QED BY <2>2 DEF Steps, Lifecycle!NextLifecycle
<1>3. CASE row[t].status \in Interruptible /\ FailRow(t)
  <2>1. row'[t].status = "failed"
    BY <1>3 DEF TypeInv, RowInv, Row, FailRow
  <2>2. Lifecycle!Fail(t)
    BY <1>1, <1>3, <2>1, MoveMaps
       DEF Lifecycle!Fail, Lifecycle!Interruptible, Interruptible
  <2> QED BY <2>2 DEF Steps, Lifecycle!NextLifecycle
<1>4. CASE row[t].status \in Live /\ SettleReview(t)
  <2>1. row'[t].status = "review"
    BY <1>4 DEF TypeInv, RowInv, Row, SettleReview
  <2>2. Lifecycle!Settle(t)
    BY <1>1, <1>4, <2>1, MoveMaps DEF Lifecycle!Settle, Live
  <2> QED BY <2>2 DEF Steps, Lifecycle!NextLifecycle
<1> QED BY <1>2, <1>3, <1>4

\* The user's requests.
LEMMA UserMaps == ASSUME TypeInv, User PROVE Steps
<1> PICK t \in Tasks : \/ Start(t) \/ Retry(t) \/ Cancel(t) \/ Requeue(t) \/ Accept(t)
                       \/ \E l \in Launches : Return(t, l)
  BY DEF User
<1>1. CASE Start(t) \/ Retry(t) \/ \E l \in Launches : Return(t, l)
  BY <1>1, ClaimMaps DEF Start, Retry, Return
<1>2. CASE Cancel(t)
  BY <1>2, EndRunMaps DEF Cancel
<1>3. CASE Requeue(t)
  <2>1. /\ row[t].status = "canceled" /\ row'[t].status = "todo" /\ OnlyRow(t)
        /\ row'[t].seq = row[t].seq
    BY <1>3 DEF TypeInv, RowInv, Row, Requeue, OnlyRow
  <2>2. Lifecycle!Requeue(t) BY <2>1, MoveMaps DEF Lifecycle!Requeue
  <2> QED BY <2>2 DEF Steps, Lifecycle!NextLifecycle
<1>4. CASE Accept(t)
  <2>1. /\ row[t].status = "review" /\ row'[t].status = "done" /\ OnlyRow(t)
        /\ row'[t].seq = row[t].seq
    BY <1>4 DEF TypeInv, RowInv, Row, Accept, OnlyRow
  <2>2. Lifecycle!Accept(t) BY <2>1, MoveMaps DEF Lifecycle!Accept
  <2> QED BY <2>2 DEF Steps, Lifecycle!NextLifecycle
<1> QED BY <1>1, <1>2, <1>3, <1>4

\* Cancel cleanups work on what the cancel froze, not on the table.
LEMMA CancelStepMaps == ASSUME NEW c \in cancels, CancelStep(c) PROVE Steps
BY StutterMaps DEF CancelStep, CancelKill, CancelCleanup

\* The pump.
LEMMA PumpStepMaps == ASSUME TypeInv, PumpStep PROVE Steps
<1>1. ASSUME NEW t \in Tasks, PumpAutoClaim(t) PROVE Steps
  BY <1>1, ClaimMaps DEF PumpAutoClaim
<1>2. CASE ~\E t \in Tasks : PumpAutoClaim(t)
  BY <1>2, StutterMaps DEF PumpStep, PumpStart, PumpAutoDone, PumpEmpty, PumpNext
<1> QED BY <1>1, <1>2

\* A launch's own writes.
LEMMA ForwardMaps == ASSUME TypeInv, NEW l \in Launches, Forward(l) PROVE Steps
<1> DEFINE t == TaskOf(l)
<1>0. t \in Tasks BY TaskOfType
<1>1. CASE BeginSetup(l)
  <2>1. CASE UNCHANGED row BY <2>1, StutterMaps
  <2>2. CASE ~UNCHANGED row
    <3>1. /\ row[t].status = "queued" /\ row'[t].status = "preparing" /\ OnlyRow(t)
          /\ row'[t].seq = row[t].seq
      BY <1>0, <1>1, <2>2 DEF TypeInv, RowInv, Row, BeginSetup, Cas, OnlyRow
    <3>2. Lifecycle!SetUp(t) BY <1>0, <3>1, MoveMaps DEF Lifecycle!SetUp
    <3> QED BY <1>0, <3>2 DEF Steps, Lifecycle!NextLifecycle
  <2> QED BY <2>1, <2>2
<1>2. CASE Bind(l)
  <2>1. CASE UNCHANGED row BY <2>1, StutterMaps
  <2>2. CASE ~UNCHANGED row
    <3>1. row'[t].status = row[t].status /\ OnlyRow(t) /\ row'[t].seq = row[t].seq
      BY <1>0, <1>2, <2>2 DEF TypeInv, RowInv, Row, Bind, OnlyRow
    <3> QED BY <1>0, <3>1, SameMaps
  <2> QED BY <2>1, <2>2
<1>3. CASE Mark(l)
  <2>1. CASE UNCHANGED row BY <2>1, StutterMaps
  <2>2. CASE ~UNCHANGED row
    <3>1. /\ row[t].status = "preparing" /\ row'[t].status = "running" /\ OnlyRow(t)
          /\ row'[t].seq = row[t].seq
      BY <1>0, <1>3, <2>2
         DEF TypeInv, RowInv, Row, Mark, GoLive, StillExpected, Cas, OnlyRow
    <3>2. Lifecycle!GoLive(t) BY <1>0, <3>1, MoveMaps DEF Lifecycle!GoLive
    <3> QED BY <1>0, <3>2 DEF Steps, Lifecycle!NextLifecycle
  <2> QED BY <2>1, <2>2
<1>4. CASE Fail(l)
  <2>1. CASE UNCHANGED row BY <2>1, StutterMaps
  <2>2. CASE ~UNCHANGED row
    <3>1. row[t].status \in Interruptible /\ FailRow(t)
      BY <1>4, <2>2 DEF Fail, Cas, Interruptible
    <3> QED BY <1>0, <3>1, EndRunMaps
  <2> QED BY <2>1, <2>2
<1>5. CASE \/ ClaimSlot(l) \/ EnterStale(l) \/ Enter(l) \/ Gate(l) \/ StartInit(l)
           \/ InitKilled(l) \/ Spawn(l) \/ Compose(l) \/ Prompt(l) \/ Release(l)
  BY <1>5, StutterMaps DEF ClaimSlot, EnterStale, Enter, Gate, StartInit, InitKilled,
                           Spawn, Compose, Prompt, Release
<1> QED BY <1>1, <1>2, <1>3, <1>4, <1>5 DEF Forward

\* A launch in trouble leaves the table to Fail.
LEMMA TroubleMaps ==
  ASSUME NEW l \in Launches, Trouble(l) \/ SetupDone(l) PROVE Steps
BY StutterMaps DEF Trouble, EnterRefused, SetupFailed, SpawnFailed, ComposeFailed,
                   MarkFailed, PromptRefused, SendFailed, FailFailed, SetupDone

\* Agents write verdicts only, lifecycle workers nothing.
LEMMA AgentMaps ==
  ASSUME TypeInv, NEW l \in Launches, AgentStep(l) \/ WorkerTurn(l) \/ WorkerGone(l)
  PROVE  Steps
<1>1. ASSUME NEW v \in Verdicts, AgentReports(l, v) PROVE Steps
  <2>1. /\ TaskOf(l) \in Tasks /\ OnlyRow(TaskOf(l))
        /\ row'[TaskOf(l)].status = row[TaskOf(l)].status
        /\ row'[TaskOf(l)].seq = row[TaskOf(l)].seq
    BY <1>1, TaskOfType DEF TypeInv, RowInv, Row, AgentReports, OnlyRow
  <2> QED BY <2>1, SameMaps
<1>2. CASE ~\E v \in Verdicts : AgentReports(l, v)
  BY <1>2, StutterMaps DEF AgentStep, AgentDie, IdleSweep, AgentAsk, UserAnswers,
                           AgentEnd, WorkerTurn, WorkerGone
<1> QED BY <1>1, <1>2

\* The event loop and reconcile.
LEMMA LoopMaps == ASSUME TypeInv, LoopStep PROVE Steps
<1>0. loop \in LoopState BY DEF TypeInv, ControlOK
<1>1. CASE TakeTurn \/ TurnRetire \/ TakeRequest \/ ReconcilePump
           \/ \E t \in Tasks : ReconcileRead(t)
  BY <1>1, StutterMaps DEF TakeTurn, TurnRetire, TakeRequest, ReconcilePump, ReconcileRead
<1>2. CASE TurnSettle
  <2>1. TaskOf(loop.conn) \in Tasks BY <1>0, <1>2, LoopFields, TaskOfType DEF TurnSettle
  <2> QED
    BY <1>2, <2>1, StutterMaps, EndRunMaps
       DEF TurnSettle, SettleWith, Cas, Live, Cancelable, Interruptible
<1>3. CASE ReconcileSettle
  <2>1. loop.task \in Tasks BY <1>0, <1>3, LoopFields DEF ReconcileSettle
  <2> QED
    BY <1>3, <2>1, StutterMaps, EndRunMaps
       DEF ReconcileSettle, Cas, Live, Cancelable, Interruptible
<1>4. CASE Flip
  <2>1. PICK t \in Tasks : t = loop.task BY <1>0, <1>4, LoopFields DEF Flip
  <2>2. CASE UNCHANGED row BY <2>2, StutterMaps
  <2>3. CASE ~UNCHANGED row
    <3> DEFINE from == IF loop.up THEN "running" ELSE "awaiting"
               to == IF loop.up THEN "awaiting" ELSE "running"
    <3>1. row[t].status = from /\ row' = [row EXCEPT ![t].status = to]
      BY <1>4, <2>1, <2>3 DEF Flip, Cas
    <3>2. OnlyRow(t) /\ row'[t].seq = row[t].seq /\ row'[t].status = to
      BY <3>1 DEF TypeInv, RowInv, Row, OnlyRow
    <3>3. Lifecycle!Block(t) \/ Lifecycle!Unblock(t)
      BY <3>1, <3>2, MoveMaps DEF Lifecycle!Block, Lifecycle!Unblock
    <3> QED BY <3>3 DEF Steps, Lifecycle!NextLifecycle
  <2> QED BY <2>2, <2>3
<1>5. ASSUME NEW t \in Tasks, AbandonSetup(t) PROVE Steps
  <2>1. /\ row[t].status = "preparing" /\ row'[t].status = "queued" /\ OnlyRow(t)
        /\ row'[t].seq = row[t].seq
    BY <1>5 DEF TypeInv, RowInv, Row, AbandonSetup, OnlyRow
  <2>2. Lifecycle!AbandonSetUp(t) BY <2>1, MoveMaps DEF Lifecycle!AbandonSetUp
  <2> QED BY <2>2 DEF Steps, Lifecycle!NextLifecycle
<1> QED BY <1>1, <1>2, <1>3, <1>4, <1>5 DEF LoopStep, EventStep

\* Lost events and crashes leave the table alone; a boot fails the interrupted
\* runs in one statement.
LEMMA EnvironmentMaps == ASSUME TypeInv, Lag \/ Crash \/ Boot PROVE Steps
<1>1. CASE Lag \/ Crash BY <1>1, StutterMaps DEF Lag, Crash
<1>2. CASE Boot
  <2>1. [t \in Tasks |-> row'[t].status]
          = [t \in Tasks |-> IF row[t].status \in Interruptible THEN "failed"
                             ELSE row[t].status]
    BY <1>2 DEF TypeInv, RowInv, Row, Boot
  <2>2. [t \in Tasks |-> row'[t].seq] = [t \in Tasks |-> row[t].seq]
    BY <1>2 DEF TypeInv, RowInv, Row, Boot
  <2>3. Lifecycle!FailInterrupted
    BY <2>1, <2>2 DEF Lifecycle!FailInterrupted, Lifecycle!Interruptible, Interruptible
  <2> QED BY <2>3 DEF Steps, Lifecycle!NextLifecycle
<1> QED BY <1>1, <1>2

\* Every step of the engine is one of the lifecycle or a stutter.
LEMMA NextMaps == TypeInv /\ [Next]_vars => Steps
<1> SUFFICES ASSUME TypeInv, [Next]_vars PROVE Steps OBVIOUS
<1>1. CASE UNCHANGED vars BY <1>1, StutterMaps DEF vars
<1>2. CASE Next
  BY <1>2, UserMaps, CancelStepMaps, PumpStepMaps, ForwardMaps, TroubleMaps, AgentMaps,
     LoopMaps, EnvironmentMaps DEF Next
<1> QED BY <1>1, <1>2

\* A board of tasks to do is the lifecycle's beginning.
LEMMA InitMaps == Init => Lifecycle!InitLifecycle
BY DEF Init, Lifecycle!InitLifecycle

\* The engine, with its processes, locks, lost events and restarts, moves the
\* rows only as the life of a work task prescribes.
THEOREM EngineImplementsLifecycle == Spec => ImplementsLifecycle
<1>1. TypeInv /\ [Next]_vars => [Lifecycle!NextLifecycle]_(Lifecycle!lifecycle)
  BY NextMaps DEF Steps
<1> QED
  BY InitMaps, TypeInvariant, <1>1, PTL
     DEF Spec, ImplementsLifecycle, Lifecycle!LifecycleSpec
=============================================================================
