------------------------- MODULE WorkTaskSafetyProofs -------------------------
(***************************************************************************)
(* Slots, the concurrency limit, the kill of a setup, and the agents, for  *)
(* every number of tasks, launches, generations, crashes and faults.       *)
(*                                                                         *)
(* None of the four properties is inductive.                               *)
(*   SlotIsOwned needs to know that a pump pass has seen the slots that are*)
(*   taken, and that the task lock is held by the launch it was given to.  *)
(*   LaunchBudget then is: a task goes live only from its slot, and the    *)
(*   pass gives a slot only below the limit.                               *)
(*   SetupIsKillable needs the kill from the gate on, before there is a    *)
(*   child to kill, and that the kill slot is that of the launch.          *)
(*   NoOrphanAgent needs, of everything that can settle a row behind an    *)
(*   await (a completion on the bus, the loop, reconcile), that the agent  *)
(*   it settles for has stopped, or its generation is past.                *)
(***************************************************************************)
EXTENDS WorkTaskGenerationProofs, FiniteSetTheorems

USE DEF db, procs, conns, memory, control, history

----------------------------------------------------------------------------
(* The inductive invariants *)

\* The task lock is held by the launch that is between Enter and its return.
LockHeld == \A l \in Launches : launch[l].pc \in Locked => taskLock[TaskOf(l)] = l

\* A launch that has yet to claim its slot is a return's.
SlotlessIsDirect == \A l \in Launches : launch[l].pc = "slot" => l \in direct

\* A pass that launches has seen every slot the pump has given.
SlotsSeen ==
  pump.pc = "next" =>
    \A t \in Tasks : launching[t] # NoLaunch /\ PumpedOnly(t) => t \in pump.seen

SlotInv == LockHeld /\ SlotlessIsDirect /\ SlotsSeen /\ SlotIsOwned

\* Before the boot reconcile nothing of this process is under way.
Unbooted ==
  ~booted =>
    /\ \A l \in Launches : /\ launch[l].pc \in {"free", "slot", "over"}
                           /\ agent[l] \in {"none", "gone"}
    /\ loop = Idle /\ pump.pc = "idle"

\* The kill slot of a task is the one of its launch.
KillSlotIsOurs ==
  \A l \in Launches : launch[l].pc \in Locked /\ PumpedOnly(TaskOf(l)) =>
    setup[TaskOf(l)].seq = SeqOf(l)

\* A setup its row has left is being killed, from the gate on.
KillRequested(l) ==
  \/ setup[TaskOf(l)].kill
  \/ \E c \in cancels : c.task = TaskOf(l) /\ c.seq = SeqOf(l) /\ c.step = "kill"
LeftIsKilled ==
  \A l \in Launches :
    launch[l].pc \in {"gate", "setup", "init"} /\ ~StillExpected(l) /\ PumpedOnly(TaskOf(l))
      => KillRequested(l)

KillInv == KillSlotIsOurs /\ LeftIsKilled

\* A launch gets its agent from Spawn.
Unspawned == {"free", "slot", "lock", "begin", "gate", "setup", "init", "spawn"}
UnspawnedHasNone ==
  \A l \in Launches : launch[l].pc \in Unspawned => agent[l] = "none"

BusyIsPrompted == \A l \in Launches : agent[l] = "busy" => l \in prompted

\* A connection that works, or is about to be told to.
Working(l) == \/ agent[l] = "busy"
              \/ launch[l].pc = "prompt" /\ agent[l] = "up"

\* The connections of prompts are registered.
WorkingIsKnown ==
  \A l \in Launches :
    Working(l) \/ (launch[l].pc = "mark" /\ agent[l] = "up") => l \in index

\* A completion comes from an agent that was prompted and has stopped.
Stopped(l) == l \in prompted /\ agent[l] \in {"over", "gone"}
TurnsAreOver == \A i \in 1..Len(bus) : bus[i].type = "turn" => Stopped(bus[i].conn)
LoopTurnIsOver ==
  loop.pc \in {"turn", "settle"} => Stopped(loop.conn) /\ loop.seq = SeqOf(loop.conn)

\* What reconcile has read is still so when it settles, or the generation is past.
ReconcileHolds ==
  loop.pc = "reconcile" =>
    /\ agent[loop.conn] = "gone"
    /\ row[loop.task].seq >= loop.seq
    /\ row[loop.task].seq = loop.seq =>
         /\ row[loop.task].status \notin Unlit
         /\ row[loop.task].status \in Live => row[loop.task].conn = loop.conn

\* A live row names the connection, or a cancel has it.
Accounted(l) ==
  \/ Cas(TaskOf(l), Live, SeqOf(l)) /\ row[TaskOf(l)].conn = l
  \/ \E c \in cancels : c.conn = l /\ c.seq = SeqOf(l)
WorkingIsAccounted == \A l \in Launches : Working(l) => Accounted(l)

AgentInv == /\ UnspawnedHasNone /\ BusyIsPrompted /\ WorkingIsKnown
            /\ TurnsAreOver /\ LoopTurnIsOver /\ ReconcileHolds /\ WorkingIsAccounted

----------------------------------------------------------------------------
(* What the steps do to the launches, the locks and the slots *)

\* The steps of one launch.
LEMMA LaunchMoves ==
  ASSUME TypeInv, NEW l \in Launches, Forward(l) \/ Trouble(l) \/ SetupDone(l)
  PROVE  /\ \A m \in Launches : m # l => launch'[m] = launch[m]
         /\ launch[l].pc \notin {"free", "over"}
         /\ launch'[l].pc \notin {"free", "slot"}
         /\ launch'[l].pc = "over" => Release(l)
         /\ launch[l].pc = "slot" => ClaimSlot(l)
         /\ launch'[l].pc \in {"gate", "setup", "init"}
              => BeginSetup(l) \/ Gate(l) \/ StartInit(l)
         /\ launch[l].pc # "lock" => launch'[l].seq = launch[l].seq
         /\ UNCHANGED <<direct, booted, cancels, loop, bus, lossy>>
         /\ pump'.pc = pump.pc /\ pump'.seen = pump.seen
<1> USE DEF At, TypeInv, LaunchInv, Launch, ControlOK, PumpState
<1>1. CASE ClaimSlot(l) BY <1>1 DEF ClaimSlot, GoTo
<1>2. CASE EnterStale(l) BY <1>2 DEF EnterStale, GoTo
<1>3. CASE Enter(l) BY <1>3 DEF Enter
<1>4. CASE BeginSetup(l) BY <1>4 DEF BeginSetup, GoTo, Leave
<1>5. CASE Gate(l) BY <1>5 DEF Gate, GoTo, Leave
<1>6. CASE StartInit(l) BY <1>6 DEF StartInit, GoTo, Err
<1>7. CASE InitKilled(l) BY <1>7 DEF InitKilled, GoTo, Err
<1>8. CASE Spawn(l) BY <1>8 DEF Spawn, GoTo, Leave
<1>9. CASE Bind(l) BY <1>9 DEF Bind, GoTo, Leave
<1>10. CASE Compose(l) BY <1>10 DEF Compose, GoTo
<1>11. CASE Mark(l) BY <1>11 DEF Mark, GoTo, Leave
<1>12. CASE Prompt(l) BY <1>12 DEF Prompt, GoTo, Leave
<1>13. CASE Fail(l) BY <1>13 DEF Fail
<1>14. CASE Release(l)
  <2>1. pump' = pump \/ PumpOwed BY <1>14 DEF Release
  <2>2. pump'.pc = pump.pc /\ pump'.seen = pump.seen BY <2>1 DEF PumpOwed
  <2> QED BY <1>14, <2>2 DEF Release
<1>15. CASE EnterRefused(l) BY <1>15 DEF EnterRefused
<1>16. CASE SetupFailed(l) \/ SpawnFailed(l) \/ ComposeFailed(l)
  BY <1>16 DEF SetupFailed, SpawnFailed, ComposeFailed, GoTo, Err
<1>17. CASE MarkFailed(l) \/ PromptRefused(l) \/ SendFailed(l)
  BY <1>17 DEF MarkFailed, PromptRefused, SendFailed, GoTo, Err
<1>18. CASE FailFailed(l) BY <1>18 DEF FailFailed
<1>19. CASE SetupDone(l) BY <1>19 DEF SetupDone, GoTo
<1> QED BY <1>1, <1>2, <1>3, <1>4, <1>5, <1>6, <1>7, <1>8, <1>9, <1>10, <1>11, <1>12,
           <1>13, <1>14, <1>15, <1>16, <1>17, <1>18, <1>19 DEF Forward, Trouble

\* What a launch does to the lock of its task.
LEMMA LockMoves ==
  ASSUME TypeInv, NEW l \in Launches, Forward(l) \/ Trouble(l) \/ SetupDone(l)
  PROVE  \/ /\ UNCHANGED taskLock
            /\ launch'[l].pc \in Locked => launch[l].pc \in Locked
         \/ /\ launch[l].pc \in Locked /\ launch'[l].pc \notin Locked
            /\ taskLock' = [taskLock EXCEPT ![TaskOf(l)] = NoLaunch]
         \/ /\ Enter(l) /\ taskLock[TaskOf(l)] = NoLaunch
            /\ taskLock' = [taskLock EXCEPT ![TaskOf(l)] = l]
<1> USE DEF At, TypeInv, LaunchInv, Launch, Locked, Unlock
<1>1. CASE ClaimSlot(l) BY <1>1 DEF ClaimSlot, GoTo
<1>2. CASE EnterStale(l) BY <1>2 DEF EnterStale, GoTo
<1>3. CASE Enter(l) BY <1>3 DEF Enter
<1>4. CASE BeginSetup(l) BY <1>4 DEF BeginSetup, GoTo, Leave
<1>5. CASE Gate(l) BY <1>5 DEF Gate, GoTo, Leave
<1>6. CASE StartInit(l) BY <1>6 DEF StartInit, GoTo, Err
<1>7. CASE InitKilled(l) BY <1>7 DEF InitKilled, GoTo, Err
<1>8. CASE Spawn(l) BY <1>8 DEF Spawn, GoTo, Leave
<1>9. CASE Bind(l) BY <1>9 DEF Bind, GoTo, Leave
<1>10. CASE Compose(l) BY <1>10 DEF Compose, GoTo
<1>11. CASE Mark(l) BY <1>11 DEF Mark, GoTo, Leave
<1>12. CASE Prompt(l) BY <1>12 DEF Prompt, GoTo, Leave
<1>13. CASE Fail(l) BY <1>13 DEF Fail
<1>14. CASE Release(l) BY <1>14 DEF Release
<1>15. CASE EnterRefused(l) BY <1>15 DEF EnterRefused
<1>16. CASE SetupFailed(l) \/ SpawnFailed(l) \/ ComposeFailed(l)
  BY <1>16 DEF SetupFailed, SpawnFailed, ComposeFailed, GoTo, Err
<1>17. CASE MarkFailed(l) \/ PromptRefused(l) \/ SendFailed(l)
  BY <1>17 DEF MarkFailed, PromptRefused, SendFailed, GoTo, Err
<1>18. CASE FailFailed(l) BY <1>18 DEF FailFailed
<1>19. CASE SetupDone(l) BY <1>19 DEF SetupDone, GoTo
<1> QED BY <1>1, <1>2, <1>3, <1>4, <1>5, <1>6, <1>7, <1>8, <1>9, <1>10, <1>11, <1>12,
           <1>13, <1>14, <1>15, <1>16, <1>17, <1>18, <1>19 DEF Forward, Trouble

\* What a launch does to the slot of its task.
LEMMA SlotMoves ==
  ASSUME NEW l \in Launches, Forward(l) \/ Trouble(l) \/ SetupDone(l)
  PROVE  UNCHANGED launching \/ ClaimSlot(l) \/ Release(l)
BY DEF Forward, Trouble, EnterStale, Enter, BeginSetup, Gate, StartInit, InitKilled,
       Spawn, Bind, Compose, Mark, Prompt, Fail, EnterRefused, SetupFailed, SpawnFailed,
       ComposeFailed, MarkFailed, PromptRefused, SendFailed, FailFailed, SetupDone

\* The steps that leave the launches, the locks and the slots alone.
SlotsStill == /\ UNCHANGED <<launch, taskLock, launching, direct>>
              /\ pump'.pc = pump.pc /\ pump'.seen = pump.seen

\* A pass that is owed has not begun.
LEMMA OwedStill ==
  ASSUME TypeInv, PumpOwed PROVE pump'.pc = pump.pc /\ pump'.seen = pump.seen
BY DEF PumpOwed, TypeInv, ControlOK, PumpState

\* Every other step leaves launches, locks and slots as they are.
LEMMA OthersStill ==
  ASSUME TypeInv,
         \/ User /\ ~\E t \in Tasks, l \in Launches : Return(t, l)
         \/ \E c \in cancels : CancelStep(c)
         \/ \E t \in Tasks : PumpAutoClaim(t)
         \/ \E l \in Launches : AgentStep(l) \/ WorkerTurn(l) \/ WorkerGone(l)
         \/ LoopStep \/ Lag \/ Boot \/ UNCHANGED vars
  PROVE  SlotsStill
<1> USE OwedStill DEF SlotsStill
<1>1. CASE User /\ ~\E t \in Tasks, l \in Launches : Return(t, l)
  BY <1>1 DEF User, Start, Retry, Cancel, Requeue, Accept
<1>2. ASSUME NEW c \in cancels, CancelStep(c) PROVE SlotsStill
  BY <1>2 DEF CancelStep, CancelKill, CancelCleanup
<1>3. ASSUME NEW t \in Tasks, PumpAutoClaim(t) PROVE SlotsStill
  BY <1>3 DEF PumpAutoClaim
<1>4. ASSUME NEW l \in Launches, AgentStep(l) \/ WorkerTurn(l) \/ WorkerGone(l)
      PROVE  SlotsStill
  BY <1>4 DEF AgentStep, AgentDie, IdleSweep, AgentReports, AgentAsk, UserAnswers,
              AgentEnd, WorkerTurn, WorkerGone
<1>5. CASE LoopStep
  BY <1>5 DEF LoopStep, EventStep, TakeTurn, TurnRetire, TurnSettle, TakeRequest, Flip,
              ReconcileSettle, ReconcilePump, ReconcileRead, AbandonSetup
<1>6. CASE Lag \/ Boot \/ UNCHANGED vars BY <1>6 DEF Lag, Boot, vars
<1> QED BY <1>1, <1>2, <1>3, <1>4, <1>5, <1>6

----------------------------------------------------------------------------
(* Slots *)

\* At the start no task has a launch.
LEMMA SlotInit == Init => SlotInv
BY DEF Init, SlotInv, LockHeld, SlotlessIsDirect, SlotsSeen, SlotIsOwned, Locked

\* A task returned once stays so.
LEMMA PumpedOnlyBefore ==
  ASSUME direct \subseteq direct', NEW t, PumpedOnly(t)' PROVE PumpedOnly(t)
BY DEF PumpedOnly, TaskOf

\* A step that leaves launches, locks and slots alone keeps SlotInv, also when it
\* lengthens the history of returns.
LEMMA SlotStill == ASSUME SlotInv, SlotsStill PROVE SlotInv'
<1> USE DEF SlotInv, SlotsStill
<1>1. LockHeld' BY DEF LockHeld, TaskOf
<1>2. SlotlessIsDirect' BY DEF SlotlessIsDirect
<1>3. SlotsSeen' BY DEF SlotsSeen, PumpedOnly, TaskOf
<1>4. SlotIsOwned' BY DEF SlotIsOwned, PumpedOnly, TaskOf
<1> QED BY <1>1, <1>2, <1>3, <1>4

\* A return's launch takes no slot yet, and from now on its task is one that was
\* returned.
LEMMA ReturnSlot ==
  ASSUME TypeInv, SlotInv, NEW t \in Tasks, NEW l \in Launches, Return(t, l)
  PROVE  SlotInv'
<1>1. /\ TaskOf(l) = t /\ launch[l].pc = "free" /\ launch'[l].pc = "slot"
      /\ \A m \in Launches : m # l => launch'[m] = launch[m]
      /\ direct' = direct \cup {l} /\ UNCHANGED <<taskLock, launching, pump>>
  BY DEF Return, Fresh, TypeInv, LaunchInv, Launch
<1>2. ~PumpedOnly(t)' BY <1>1 DEF PumpedOnly, TaskOf
<1>3. LockHeld' BY <1>1 DEF SlotInv, LockHeld, Locked, TaskOf
<1>4. SlotlessIsDirect' BY <1>1 DEF SlotInv, SlotlessIsDirect
<1>5. SlotsSeen' BY <1>1, PumpedOnlyBefore DEF SlotInv, SlotsSeen
<1>6. SlotIsOwned' BY <1>1, <1>2, PumpedOnlyBefore DEF SlotInv, SlotIsOwned, TaskOf
<1> QED BY <1>3, <1>4, <1>5, <1>6 DEF SlotInv

\* The pump gives the slot of a task only when it has seen it free.
LEMMA PumpNextSlot ==
  ASSUME TypeInv, SlotInv, NEW t \in Tasks, NEW l \in Launches, PumpNext(t, l)
  PROVE  SlotInv'
<1>1. /\ TaskOf(l) = t /\ launch[l].pc = "free" /\ launch'[l].pc = "lock"
      /\ \A m \in Launches : m # l => launch'[m] = launch[m]
      /\ UNCHANGED <<taskLock, direct>> /\ launching' = [launching EXCEPT ![t] = l]
      /\ pump.pc = "next" /\ t \notin pump.seen /\ pump'.seen = InFlight \cup {t}
  BY DEF PumpNext, Fresh, TypeInv, LaunchInv, Launch, ControlOK, PumpState
<1>2. /\ launching'[t] = l
      /\ \A u \in Tasks : u # t => launching'[u] = launching[u]
  BY <1>1 DEF TypeInv, MemoryOK
<1>3. \A u : PumpedOnly(u)' <=> PumpedOnly(u) BY <1>1 DEF PumpedOnly, TaskOf
<1>4. LockHeld' BY <1>1 DEF SlotInv, LockHeld, Locked, TaskOf
<1>5. SlotlessIsDirect' BY <1>1 DEF SlotInv, SlotlessIsDirect
<1>6. SlotsSeen' BY <1>1, <1>2 DEF SlotsSeen, InFlight
<1>7. SlotIsOwned'
  <2> SUFFICES ASSUME NEW m \in Launches, launch'[m].pc \notin {"free", "over"},
                      PumpedOnly(TaskOf(m))
               PROVE  launching'[TaskOf(m)] = m
    BY <1>3 DEF SlotIsOwned, TaskOf
  <2>1. CASE m = l BY <1>1, <1>2, <2>1
  <2>2. CASE m # l
    <3>1. launching[TaskOf(m)] = m BY <1>1, <2>2 DEF SlotInv, SlotIsOwned
    <3>2. TaskOf(m) # t
      BY <1>1, <3>1, NoLaunchAssumption DEF SlotInv, SlotsSeen
    <3> QED BY <1>2, <3>1, <3>2, TaskOfType
  <2> QED BY <2>1, <2>2
<1> QED BY <1>4, <1>5, <1>6, <1>7 DEF SlotInv

\* A pass that begins to launch looks at the slots.
LEMMA PassSlot ==
  ASSUME TypeInv, SlotInv, PumpStart \/ PumpAutoDone \/ PumpEmpty PROVE SlotInv'
<1>1. UNCHANGED <<launch, taskLock, launching, direct>>
  BY DEF PumpStart, PumpAutoDone, PumpEmpty
<1>2. pump'.pc = "next" => pump'.seen = InFlight
  <2>1. CASE PumpStart BY <2>1 DEF PumpStart
  <2>2. CASE PumpAutoDone BY <2>2 DEF PumpAutoDone, TypeInv, ControlOK, PumpState
  <2>3. CASE PumpEmpty BY <2>3 DEF PumpEmpty, TypeInv, ControlOK, PumpState
  <2> QED BY <2>1, <2>2, <2>3
<1>3. LockHeld' BY <1>1 DEF SlotInv, LockHeld, TaskOf
<1>4. SlotlessIsDirect' BY <1>1 DEF SlotInv, SlotlessIsDirect
<1>5. SlotsSeen' BY <1>1, <1>2 DEF SlotsSeen, InFlight
<1>6. SlotIsOwned' BY <1>1 DEF SlotInv, SlotIsOwned, PumpedOnly, TaskOf
<1> QED BY <1>3, <1>4, <1>5, <1>6 DEF SlotInv

\* A launch takes the lock when it is free, and gives back its own slot only.
LEMMA LaunchSlot ==
  ASSUME TypeInv, SlotInv, NEW l \in Launches, Forward(l) \/ Trouble(l) \/ SetupDone(l)
  PROVE  SlotInv'
<1> DEFINE t == TaskOf(l)
<1>0. t \in Tasks BY TaskOfType
<1>1. /\ \A m \in Launches : m # l => launch'[m] = launch[m]
      /\ launch[l].pc \notin {"free", "over"} /\ launch'[l].pc \notin {"free", "slot"}
      /\ launch'[l].pc = "over" => Release(l)
      /\ direct' = direct /\ pump'.pc = pump.pc /\ pump'.seen = pump.seen
  BY LaunchMoves
<1>2. \A u : PumpedOnly(u)' <=> PumpedOnly(u) BY <1>1 DEF PumpedOnly, TaskOf
<1>3. LockHeld'
  <2> SUFFICES ASSUME NEW m \in Launches, launch'[m].pc \in Locked
               PROVE  taskLock'[TaskOf(m)] = m
    BY DEF LockHeld, TaskOf
  <2>1. CASE /\ UNCHANGED taskLock
             /\ launch'[l].pc \in Locked => launch[l].pc \in Locked
    BY <1>1, <2>1 DEF SlotInv, LockHeld
  <2>2. CASE /\ launch[l].pc \in Locked /\ launch'[l].pc \notin Locked
             /\ taskLock' = [taskLock EXCEPT ![TaskOf(l)] = NoLaunch]
    <3>1. m # l BY <2>2
    <3>2. taskLock[TaskOf(m)] = m /\ taskLock[t] = l
      BY <1>1, <2>2, <3>1 DEF SlotInv, LockHeld
    <3>3. TaskOf(m) # t BY <3>1, <3>2
    <3> QED BY <2>2, <3>2, <3>3
  <2>3. CASE /\ Enter(l) /\ taskLock[TaskOf(l)] = NoLaunch
             /\ taskLock' = [taskLock EXCEPT ![TaskOf(l)] = l]
    <3>1. CASE m = l BY <1>0, <2>3, <3>1 DEF TypeInv, LockInv
    <3>2. CASE m # l
      <4>1. taskLock[TaskOf(m)] = m BY <1>1, <3>2 DEF SlotInv, LockHeld
      <4>2. TaskOf(m) # t BY <2>3, <4>1, NoLaunchAssumption
      <4> QED BY <2>3, <4>1, <4>2
    <3> QED BY <3>1, <3>2
  <2> QED BY <2>1, <2>2, <2>3, LockMoves
<1>4. SlotlessIsDirect' BY <1>1 DEF SlotInv, SlotlessIsDirect
<1>5. CASE UNCHANGED launching
  <2>1. SlotsSeen' BY <1>1, <1>2, <1>5 DEF SlotInv, SlotsSeen
  <2>2. SlotIsOwned'
    <3> SUFFICES ASSUME NEW m \in Launches, launch'[m].pc \notin {"free", "over"},
                        PumpedOnly(TaskOf(m))
                 PROVE  launching[TaskOf(m)] = m
      BY <1>2, <1>5 DEF SlotIsOwned, TaskOf
    <3> QED BY <1>1 DEF SlotInv, SlotIsOwned
  <2> QED BY <1>3, <1>4, <2>1, <2>2 DEF SlotInv
<1>6. CASE ClaimSlot(l)
  <2>1. ~PumpedOnly(t)
    BY <1>6 DEF SlotInv, SlotlessIsDirect, ClaimSlot, At, PumpedOnly
  <2>2. \A u \in Tasks : u # t => launching'[u] = launching[u] BY <1>6 DEF ClaimSlot
  <2>3. SlotsSeen' BY <1>1, <1>2, <2>1, <2>2 DEF SlotInv, SlotsSeen
  <2>4. SlotIsOwned'
    <3> SUFFICES ASSUME NEW m \in Launches, launch'[m].pc \notin {"free", "over"},
                        PumpedOnly(TaskOf(m))
                 PROVE  launching'[TaskOf(m)] = m
      BY <1>2 DEF SlotIsOwned, TaskOf
    <3>1. TaskOf(m) # t /\ TaskOf(m) \in Tasks BY <2>1, TaskOfType
    <3> QED BY <1>1, <2>2, <3>1 DEF SlotInv, SlotIsOwned
  <2> QED BY <1>3, <1>4, <2>3, <2>4 DEF SlotInv
<1>7. CASE Release(l)
  <2>1. /\ launch'[l].pc = "over"
        /\ launching' = [launching EXCEPT ![t] = IF @ = l THEN NoLaunch ELSE @]
    BY <1>7 DEF Release, ReleaseSlot, TypeInv, LaunchInv, Launch
  <2>2. \A u \in Tasks : /\ launching'[u] # NoLaunch => launching'[u] = launching[u]
                         /\ launching[u] # l => launching'[u] = launching[u]
    BY <2>1 DEF TypeInv, MemoryOK
  <2>3. SlotsSeen' BY <1>1, <1>2, <2>2 DEF SlotInv, SlotsSeen
  <2>4. SlotIsOwned'
    <3> SUFFICES ASSUME NEW m \in Launches, launch'[m].pc \notin {"free", "over"},
                        PumpedOnly(TaskOf(m))
                 PROVE  launching'[TaskOf(m)] = m
      BY <1>2 DEF SlotIsOwned, TaskOf
    <3>1. m # l BY <2>1
    <3>2. launching[TaskOf(m)] = m BY <1>1, <3>1 DEF SlotInv, SlotIsOwned
    <3> QED BY <2>2, <3>1, <3>2, TaskOfType
  <2> QED BY <1>3, <1>4, <2>3, <2>4 DEF SlotInv
<1> QED BY <1>5, <1>6, <1>7, SlotMoves

\* A crash leaves no launch, no lock and no slot.
LEMMA CrashSlot == ASSUME TypeInv, SlotInv, Crash PROVE SlotInv'
<1>1. \A l \in Launches : launch'[l].pc \in {"free", "over"}
  BY DEF Crash, TypeInv, LaunchInv, Launch
<1>2. pump'.pc = "idle" BY DEF Crash
<1> QED BY <1>1, <1>2 DEF SlotInv, LockHeld, SlotlessIsDirect, SlotsSeen, SlotIsOwned,
                          Locked

\* SlotInv is inductive relative to the types.
LEMMA SlotNext == TypeInv /\ SlotInv /\ [Next]_vars => SlotInv'
<1> SUFFICES ASSUME TypeInv, SlotInv, [Next]_vars PROVE SlotInv' OBVIOUS
<1>1. ASSUME NEW t \in Tasks, NEW l \in Launches, Return(t, l) \/ PumpNext(t, l)
      PROVE  SlotInv'
  BY <1>1, ReturnSlot, PumpNextSlot
<1>2. CASE PumpStart \/ PumpAutoDone \/ PumpEmpty BY <1>2, PassSlot
<1>3. ASSUME NEW l \in Launches, Forward(l) \/ Trouble(l) \/ SetupDone(l) PROVE SlotInv'
  BY <1>3, LaunchSlot
<1>4. CASE Crash BY <1>4, CrashSlot
<1>5. CASE SlotsStill BY <1>5, SlotStill
<1> QED BY <1>1, <1>2, <1>3, <1>4, <1>5, OthersStill DEF Next, PumpStep

\* Task locks and launch slots are held by the launches that took them, in every
\* reachable state: lock_task, claim_launch_slot and release_launch_slot.
THEOREM SlotInvariant == Spec => []SlotInv
<1>1. TypeInv /\ SlotInv /\ [Next]_vars => SlotInv' BY SlotNext
<1> QED BY SlotInit, TypeInvariant, <1>1, PTL DEF Spec

\* Every launch of the pump owns the slot of its task from its claim to its
\* release (claim_launch_slot, release_launch_slot): reconcile never takes its
\* preparing row for an orphan, and the pump never launches the task twice.
THEOREM PumpOwnsSlots == Spec => []SlotIsOwned
<1>1. SlotInv => SlotIsOwned BY DEF SlotInv
<1> QED BY SlotInvariant, <1>1, PTL

----------------------------------------------------------------------------
(* The concurrency limit *)

\* The tasks that max_concurrent bounds.
Counted == {t \in Tasks : /\ PumpedOnly(t)
                          /\ row[t].status \in Live \/ launching[t] # NoLaunch}

\* At the start nothing runs.
LEMMA BudgetInit == Init => LaunchBudget
<1> SUFFICES ASSUME Init, MaxConcurrent > 0 PROVE Cardinality(Counted) <= MaxConcurrent
  BY DEF LaunchBudget, Counted
<1>1. Counted = {} BY DEF Counted, Init, Live
<1> QED BY <1>1, FS_EmptySet, NatAssumption

\* Fewer tasks are within the limit.
LEMMA BudgetShrinks ==
  ASSUME LaunchBudget, Counted' \subseteq Counted PROVE LaunchBudget'
<1> SUFFICES ASSUME MaxConcurrent > 0 PROVE Cardinality(Counted') <= MaxConcurrent
  BY DEF LaunchBudget, Counted
<1>1. IsFiniteSet(Counted)
  <2>1. Counted \subseteq Tasks BY DEF Counted
  <2> QED BY <2>1, TaskAssumption, FS_Subset
<1>2. Cardinality(Counted) <= MaxConcurrent BY DEF LaunchBudget, Counted
<1>3. IsFiniteSet(Counted') /\ Cardinality(Counted') <= Cardinality(Counted)
  BY <1>1, FS_Subset
<1>4. Cardinality(Counted') \in Nat /\ Cardinality(Counted) \in Nat
  BY <1>1, <1>3, FS_CardinalityType
<1> QED BY <1>2, <1>3, <1>4, NatAssumption

\* Tasks become live only when they have a slot, and take a slot only in PumpNext
\* or when they have been returned.
LEMMA BudgetNext ==
  ASSUME TypeInv, SlotInv, SlotInv', LaunchBudget, NEW t \in Tasks, NEW l \in Launches,
         PumpNext(t, l)
  PROVE  LaunchBudget'
<1> SUFFICES ASSUME MaxConcurrent > 0 PROVE Cardinality(Counted') <= MaxConcurrent
  BY DEF LaunchBudget, Counted
<1> DEFINE S == ActiveLaunched \cup pump.seen
<1>1. pump.seen \subseteq Tasks /\ pump.pc = "next" /\ ~AtLimit
  BY DEF TypeInv, ControlOK, PumpState, PumpNext
<1>2. IsFiniteSet(ActiveLaunched) /\ IsFiniteSet(pump.seen)
  BY <1>1, TaskAssumption, FS_Subset DEF ActiveLaunched
<1>3. IsFiniteSet(S) /\ Cardinality(S) <= Cardinality(ActiveLaunched) + Cardinality(pump.seen)
  <2>1. /\ IsFiniteSet(S)
        /\ Cardinality(S) = Cardinality(ActiveLaunched) + Cardinality(pump.seen)
                              - Cardinality(ActiveLaunched \cap pump.seen)
    BY <1>2, FS_Union
  <2>2. Cardinality(ActiveLaunched \cap pump.seen) \in Nat
    BY <1>2, FS_Intersection, FS_CardinalityType
  <2>3. Cardinality(ActiveLaunched) \in Nat /\ Cardinality(pump.seen) \in Nat
    BY <1>2, FS_CardinalityType
  <2> QED BY <2>1, <2>2, <2>3
<1>4. Cardinality(S) < MaxConcurrent
  <2>1. Cardinality(ActiveLaunched) + Cardinality(pump.seen) < MaxConcurrent
    BY <1>1, <1>2, FS_CardinalityType, NatAssumption DEF AtLimit
  <2> QED BY <1>2, <1>3, <2>1, FS_CardinalityType, NatAssumption
<1>5. Counted' \subseteq S \cup {t}
  <2> SUFFICES ASSUME NEW u \in Tasks, u # t, PumpedOnly(u)',
                      row'[u].status \in Live \/ launching'[u] # NoLaunch
               PROVE  u \in S
    BY DEF Counted
  <2>1. /\ row' = row /\ launching'[u] = launching[u] /\ direct' = direct
    BY DEF PumpNext, TypeInv, MemoryOK
  <2>2. PumpedOnly(u) BY <2>1 DEF PumpedOnly, TaskOf
  <2>3. CASE row[u].status \in Live BY <2>3 DEF ActiveLaunched, Live
  <2>4. CASE launching[u] # NoLaunch BY <1>1, <2>2, <2>4 DEF SlotInv, SlotsSeen
  <2> QED BY <2>1, <2>3, <2>4
<1>6. IsFiniteSet(S \cup {t}) /\ Cardinality(S \cup {t}) <= Cardinality(S) + 1
  <2>1. IsFiniteSet(S \cup {t})
        /\ Cardinality(S \cup {t}) = IF t \in S THEN Cardinality(S) ELSE Cardinality(S) + 1
    BY <1>3, FS_AddElement
  <2> QED BY <1>3, <2>1, FS_CardinalityType
<1>7. /\ IsFiniteSet(Counted')
      /\ Cardinality(Counted') <= Cardinality(S \cup {t})
  BY <1>5, <1>6, FS_Subset
<1>8. /\ Cardinality(Counted') \in Nat /\ Cardinality(S \cup {t}) \in Nat
      /\ Cardinality(S) \in Nat
  BY <1>3, <1>6, <1>7, FS_CardinalityType
<1> QED BY <1>4, <1>6, <1>7, <1>8, NatAssumption

----------------------------------------------------------------------------
(* What the steps do to a row *)

Still(t) == /\ row'[t].status = row[t].status /\ row'[t].seq = row[t].seq
            /\ row'[t].conn = row[t].conn

RowMoves(t) ==
  \/ Still(t)
  \/ Cancel(t)
  \/ /\ row[t].status \in {"todo", "failed", "review", "canceled"}
     /\ row'[t].status \in {"queued", "todo", "done"}
  \/ /\ row[t].status = "queued" /\ row'[t].status = "preparing"
     /\ row'[t].seq = row[t].seq
  \/ /\ row[t].status = "preparing" /\ row'[t].status = "preparing"
     /\ row'[t].seq = row[t].seq
  \/ \E l \in Launches : /\ TaskOf(l) = t /\ Mark(l) /\ StillExpected(l)
                         /\ row'[t].status = "running" /\ row'[t].seq = row[t].seq
                         /\ row'[t].conn = l
  \/ \E l \in Launches : /\ TaskOf(l) = t /\ Fail(l)
                         /\ row[t].status \in Unlit /\ row'[t].status = "failed"
  \/ AbandonSetup(t) /\ row'[t].status = "queued"
  \/ /\ Flip /\ t = loop.task
     /\ row[t].status \in Live /\ row'[t].status \in Live
     /\ row'[t].seq = row[t].seq /\ row'[t].conn = row[t].conn
  \/ /\ TurnSettle /\ t = TaskOf(loop.conn)
     /\ Cas(t, Live, loop.seq) /\ row'[t].status \notin Live
  \/ /\ ReconcileSettle /\ t = loop.task
     /\ Cas(t, Live, loop.seq) /\ row'[t].status \notin Live
  \/ Boot

\* A step that does not write rows moves none.
LEMMA StillMoves == ASSUME UNCHANGED row, NEW t \in Tasks PROVE RowMoves(t)
BY DEF RowMoves, Still

\* A request moves a row that waits for the user, or cancels it.
LEMMA UserMoves ==
  ASSUME TypeInv, User, NEW t \in Tasks PROVE RowMoves(t)
<1> USE DEF TypeInv, RowInv, Row
<1> PICK u \in Tasks : \/ Start(u) \/ Retry(u) \/ Cancel(u) \/ Requeue(u) \/ Accept(u)
                       \/ \E l \in Launches : Return(u, l)
  BY DEF User
<1>1. CASE t # u
  <2>1. row'[t] = row[t]
    BY <1>1 DEF Start, Retry, Return, Claim, Cancel, CancelRow, Requeue, Accept
  <2> QED BY <2>1 DEF RowMoves, Still
<1>2. CASE t = u
  <2>1. CASE Cancel(u) BY <1>2, <2>1 DEF RowMoves
  <2>2. CASE ~Cancel(u)
    <3>1. /\ row[t].status \in {"todo", "failed", "review", "canceled"}
          /\ row'[t].status \in {"queued", "todo", "done"}
      BY <1>2, <2>2 DEF Start, Retry, Return, Claim, Requeue, Accept
    <3> QED BY <3>1 DEF RowMoves
  <2> QED BY <2>1, <2>2
<1> QED BY <1>1, <1>2

\* The pump starts what waits, or files what is empty.
LEMMA PumpMoves ==
  ASSUME TypeInv, PumpStep, NEW t \in Tasks PROVE RowMoves(t)
<1>1. ASSUME NEW u \in Tasks, PumpAutoClaim(u) PROVE RowMoves(t)
  <2>1. CASE t # u
    <3>1. row'[t] = row[t] BY <1>1, <2>1 DEF PumpAutoClaim, Claim, TypeInv, RowInv
    <3> QED BY <3>1 DEF RowMoves, Still
  <2>2. CASE t = u
    <3>1. row[t].status = "todo" /\ row'[t].status = "queued"
      BY <1>1, <2>2 DEF PumpAutoClaim, Claim, TypeInv, RowInv, Row
    <3> QED BY <3>1 DEF RowMoves
  <2> QED BY <2>1, <2>2
<1>2. CASE UNCHANGED row BY <1>2, StillMoves
<1> QED BY <1>1, <1>2 DEF PumpStep, PumpStart, PumpAutoDone, PumpEmpty, PumpNext

\* A launch takes its row through preparing to running, or fails it.
LEMMA LaunchRowMoves ==
  ASSUME TypeInv, NEW l \in Launches, Forward(l) \/ Trouble(l) \/ SetupDone(l),
         NEW t \in Tasks
  PROVE  RowMoves(t)
<1> USE TaskOfType DEF TypeInv, RowInv, Row
<1>1. CASE BeginSetup(l)
  <2>1. CASE row'[t] = row[t] BY <2>1 DEF RowMoves, Still
  <2>2. CASE row'[t] # row[t]
    <3>1. row[t].status = "queued" /\ row'[t].status = "preparing" /\ row'[t].seq = row[t].seq
      BY <1>1, <2>2 DEF BeginSetup, Cas
    <3> QED BY <3>1 DEF RowMoves
  <2> QED BY <2>1, <2>2
<1>2. CASE Bind(l)
  <2>1. CASE row'[t] = row[t] BY <2>1 DEF RowMoves, Still
  <2>2. CASE row'[t] # row[t]
    <3>1. /\ row[t].status = "preparing" /\ row'[t].status = "preparing"
          /\ row'[t].seq = row[t].seq
      BY <1>2, <2>2 DEF Bind, StillExpected, Cas
    <3> QED BY <3>1 DEF RowMoves
  <2> QED BY <2>1, <2>2
<1>3. CASE Mark(l)
  <2>1. CASE row'[t] = row[t] BY <2>1 DEF RowMoves, Still
  <2>2. CASE row'[t] # row[t]
    <3>1. /\ TaskOf(l) = t /\ StillExpected(l)
          /\ row'[t].status = "running" /\ row'[t].seq = row[t].seq /\ row'[t].conn = l
      BY <1>3, <2>2 DEF Mark, GoLive
    <3> QED BY <1>3, <3>1 DEF RowMoves
  <2> QED BY <2>1, <2>2
<1>4. CASE Fail(l)
  <2>1. CASE row'[t] = row[t] BY <2>1 DEF RowMoves, Still
  <2>2. CASE row'[t] # row[t]
    <3>1. TaskOf(l) = t /\ row[t].status \in Unlit /\ row'[t].status = "failed"
      BY <1>4, <2>2 DEF Fail, FailRow, Cas, Unlit
    <3> QED BY <1>4, <3>1 DEF RowMoves
  <2> QED BY <2>1, <2>2
<1>5. CASE UNCHANGED row BY <1>5, StillMoves
<1> QED BY <1>1, <1>2, <1>3, <1>4, <1>5
  DEF Forward, Trouble, ClaimSlot, EnterStale, Enter, Gate, StartInit, InitKilled, Spawn,
      Compose, Prompt, Release, EnterRefused, SetupFailed, SpawnFailed, ComposeFailed,
      MarkFailed, PromptRefused, SendFailed, FailFailed, SetupDone

\* Agents and lifecycle workers write no rows.
LEMMA AgentMoves ==
  ASSUME TypeInv, NEW l \in Launches, AgentStep(l) \/ WorkerTurn(l) \/ WorkerGone(l),
         NEW t \in Tasks
  PROVE  RowMoves(t)
<1>1. ASSUME NEW v \in Verdicts, AgentReports(l, v) PROVE RowMoves(t)
  BY <1>1 DEF AgentReports, TypeInv, RowInv, Row, RowMoves, Still
<1>2. CASE UNCHANGED row BY <1>2, StillMoves
<1> QED BY <1>1, <1>2 DEF AgentStep, AgentDie, IdleSweep, AgentAsk, UserAnswers, AgentEnd,
                          WorkerTurn, WorkerGone

\* The event loop and reconcile settle live rows, flip them between running and
\* awaiting, and queue an orphaned setup again.
LEMMA LoopMoves ==
  ASSUME TypeInv, LoopStep, NEW t \in Tasks PROVE RowMoves(t)
<1> USE DEF TypeInv, RowInv, Row
<1>0. loop \in LoopState BY DEF ControlOK
<1>1. CASE TurnSettle
  <2>1. CASE row'[t] = row[t] BY <2>1 DEF RowMoves, Still
  <2>2. CASE row'[t] # row[t]
    <3>1. Cas(TaskOf(loop.conn), Live, loop.seq) BY <1>1, <2>2 DEF TurnSettle, SettleWith
    <3>2. \/ CancelRow(TaskOf(loop.conn)) \/ FailRow(TaskOf(loop.conn))
          \/ SettleReview(TaskOf(loop.conn))
      BY <1>1, <3>1 DEF TurnSettle, SettleWith
    <3>3. t = TaskOf(loop.conn) /\ row'[t].status \notin Live
      BY <2>2, <3>2 DEF CancelRow, FailRow, SettleReview, Live
    <3> QED BY <1>1, <3>1, <3>3 DEF RowMoves
  <2> QED BY <2>1, <2>2
<1>2. CASE ReconcileSettle
  <2>1. CASE row'[t] = row[t] BY <2>1 DEF RowMoves, Still
  <2>2. CASE row'[t] # row[t]
    <3>1. Cas(loop.task, Live, loop.seq) BY <1>2, <2>2 DEF ReconcileSettle
    <3>2. CancelRow(loop.task) \/ FailRow(loop.task) \/ SettleReview(loop.task)
      BY <1>2, <3>1 DEF ReconcileSettle
    <3>3. t = loop.task /\ row'[t].status \notin Live
      BY <2>2, <3>2 DEF CancelRow, FailRow, SettleReview, Live
    <3> QED BY <1>2, <3>1, <3>3 DEF RowMoves
  <2> QED BY <2>1, <2>2
<1>3. CASE Flip
  <2>1. CASE row'[t] = row[t] BY <2>1 DEF RowMoves, Still
  <2>2. CASE row'[t] # row[t]
    <3>1. /\ t = loop.task
          /\ row[t].status \in Live /\ row'[t].status \in Live
          /\ row'[t].seq = row[t].seq /\ row'[t].conn = row[t].conn
      BY <1>3, <2>2 DEF Flip, Cas, Live
    <3> QED BY <1>3, <3>1 DEF RowMoves
  <2> QED BY <2>1, <2>2
<1>4. ASSUME NEW u \in Tasks, AbandonSetup(u) PROVE RowMoves(t)
  <2>1. CASE t = u
    <3>1. row'[t].status = "queued" BY <1>4, <2>1 DEF AbandonSetup
    <3> QED BY <1>4, <2>1, <3>1 DEF RowMoves
  <2>2. CASE t # u BY <1>4, <2>2 DEF AbandonSetup, RowMoves, Still
  <2> QED BY <2>1, <2>2
<1>5. CASE UNCHANGED row BY <1>5, StillMoves
<1> QED BY <1>1, <1>2, <1>3, <1>4, <1>5
  DEF LoopStep, EventStep, TakeTurn, TurnRetire, TakeRequest, ReconcilePump, ReconcileRead

\* Every step moves a row in one of these ways.
LEMMA EveryRowMoves ==
  ASSUME TypeInv, [Next]_vars, NEW t \in Tasks PROVE RowMoves(t)
<1>1. CASE User BY <1>1, UserMoves
<1>2. CASE PumpStep BY <1>2, PumpMoves
<1>3. ASSUME NEW l \in Launches,
             \/ Forward(l) \/ Trouble(l) \/ SetupDone(l)
             \/ AgentStep(l) \/ WorkerTurn(l) \/ WorkerGone(l)
      PROVE  RowMoves(t)
  BY <1>3, LaunchRowMoves, AgentMoves
<1>4. CASE LoopStep BY <1>4, LoopMoves
<1>5. CASE Boot BY <1>5 DEF RowMoves
<1>6. CASE (\E c \in cancels : CancelStep(c)) \/ Lag \/ Crash \/ UNCHANGED vars
  <2>1. UNCHANGED row BY <1>6 DEF CancelStep, CancelKill, CancelCleanup, Lag, Crash, vars
  <2> QED BY <2>1, StillMoves
<1> QED BY <1>1, <1>2, <1>3, <1>4, <1>5, <1>6 DEF Next

\* A row goes live by mark_running only.
LEMMA LiveComes ==
  ASSUME TypeInv, RowInv', [Next]_vars, NEW t \in Tasks,
         row'[t].status \in Live, row[t].status \notin Live
  PROVE  \E l \in Launches : /\ TaskOf(l) = t /\ Mark(l) /\ StillExpected(l)
                             /\ row'[t].seq = row[t].seq /\ row'[t].conn = l
<1>1. CASE Boot BY <1>1 DEF Boot, TypeInv, RowInv, Row, Live
<1>2. CASE Cancel(t) BY <1>2 DEF Cancel, CancelRow, TypeInv, RowInv, Row, Live
<1>3. CASE ~Boot /\ ~Cancel(t)
  BY <1>3, EveryRowMoves DEF RowMoves, Still, Live, Unlit
<1> QED BY <1>1, <1>2, <1>3

\* The history of returns grows.
LEMMA DirectGrows == ASSUME TypeInv, [Next]_vars PROVE direct \subseteq direct'
<1>1. ASSUME NEW t \in Tasks, NEW l \in Launches, Return(t, l) \/ PumpNext(t, l)
      PROVE  direct \subseteq direct'
  BY <1>1 DEF Return, PumpNext
<1>2. CASE PumpStart \/ PumpAutoDone \/ PumpEmpty
  BY <1>2 DEF PumpStart, PumpAutoDone, PumpEmpty
<1>3. ASSUME NEW l \in Launches, Forward(l) \/ Trouble(l) \/ SetupDone(l)
      PROVE  direct \subseteq direct'
  BY <1>3, LaunchMoves
<1>4. CASE Crash BY <1>4 DEF Crash
<1>5. CASE SlotsStill BY <1>5 DEF SlotsStill
<1> QED BY <1>1, <1>2, <1>3, <1>4, <1>5, OthersStill DEF Next, PumpStep

\* Outside PumpNext only the launch of a return takes a slot.
LEMMA SlotComes ==
  ASSUME TypeInv, SlotInv, [Next]_vars, NEW t \in Tasks, PumpedOnly(t),
         ~\E l \in Launches : PumpNext(t, l),
         launching'[t] # NoLaunch
  PROVE  launching[t] # NoLaunch
<1> USE DEF TypeInv, MemoryOK
<1>1. ASSUME NEW u \in Tasks, NEW l \in Launches, Return(u, l) \/ PumpNext(u, l)
      PROVE  launching[t] # NoLaunch
  <2>1. CASE Return(u, l) BY <2>1 DEF Return
  <2>2. CASE PumpNext(u, l)
    <3>1. u # t BY <2>2
    <3> QED BY <2>2, <3>1 DEF PumpNext
  <2> QED BY <1>1, <2>1, <2>2
<1>2. CASE PumpStart \/ PumpAutoDone \/ PumpEmpty
  BY <1>2 DEF PumpStart, PumpAutoDone, PumpEmpty
<1>3. ASSUME NEW l \in Launches, Forward(l) \/ Trouble(l) \/ SetupDone(l)
      PROVE  launching[t] # NoLaunch
  <2>1. CASE UNCHANGED launching BY <2>1
  <2>2. CASE ClaimSlot(l)
    <3>1. TaskOf(l) # t
      BY <2>2 DEF SlotInv, SlotlessIsDirect, ClaimSlot, At, PumpedOnly
    <3> QED BY <2>2, <3>1 DEF ClaimSlot
  <2>3. CASE Release(l)
    BY <2>3, TaskOfType DEF Release, ReleaseSlot
  <2> QED BY <1>3, <2>1, <2>2, <2>3, SlotMoves
<1>4. CASE Crash BY <1>4 DEF Crash
<1>5. CASE SlotsStill BY <1>5 DEF SlotsStill
<1> QED BY <1>1, <1>2, <1>3, <1>4, <1>5, OthersStill DEF Next, PumpStep

\* LaunchBudget is inductive relative to SlotInv.
LEMMA BudgetStep ==
  ASSUME TypeInv, TypeInv', SlotInv, SlotInv', LaunchBudget, [Next]_vars
  PROVE  LaunchBudget'
<1>1. ASSUME NEW t \in Tasks, NEW l \in Launches, PumpNext(t, l) PROVE LaunchBudget'
  BY <1>1, BudgetNext
<1>2. CASE ~\E t \in Tasks, l \in Launches : PumpNext(t, l)
  <2> SUFFICES Counted' \subseteq Counted BY BudgetShrinks
  <2> SUFFICES ASSUME NEW u \in Tasks, PumpedOnly(u)',
                      row'[u].status \in Live \/ launching'[u] # NoLaunch,
                      row[u].status \notin Live
               PROVE  PumpedOnly(u) /\ launching[u] # NoLaunch
    BY DirectGrows, PumpedOnlyBefore DEF Counted
  <2>1. PumpedOnly(u) BY DirectGrows, PumpedOnlyBefore
  <2>2. CASE row'[u].status \in Live
    <3>1. PICK l \in Launches : TaskOf(l) = u /\ Mark(l)
      BY <2>2, LiveComes DEF TypeInv
    <3>2. launching[u] = l
      BY <2>1, <3>1 DEF SlotInv, SlotIsOwned, Mark, At
    <3> QED BY <2>1, <3>2, NoLaunchAssumption
  <2>3. CASE launching'[u] # NoLaunch
    BY <1>2, <2>1, <2>3, SlotComes
  <2> QED BY <2>2, <2>3
<1> QED BY <1>1, <1>2

\* Of the tasks the pump alone has launched, no more than max_concurrent run or have
\* a launch in flight, whatever is read at different moments by a pump pass
\* (pump_folder).
THEOREM BudgetHolds == Spec => []LaunchBudget
<1>1. TypeInv /\ TypeInv' /\ SlotInv /\ SlotInv' /\ LaunchBudget /\ [Next]_vars
        => LaunchBudget'
  BY BudgetStep
<1> QED BY BudgetInit, TypeInvariant, SlotInvariant, <1>1, PTL DEF Spec

----------------------------------------------------------------------------
(* Before the boot reconcile *)

\* At the start nothing is under way.
LEMMA BootInit == Init => Unbooted
BY DEF Init, Unbooted

\* Only the boot reconcile lets launches, the loop and the pump begin.
LEMMA BootNext ==
  ASSUME TypeInv, TypeInv', Unbooted, [Next]_vars PROVE Unbooted'
<1> SUFFICES ASSUME ~booted' PROVE Unbooted' BY DEF Unbooted
<1>1. CASE Crash
  <2>1. /\ \A l \in Launches : /\ launch'[l].pc \in {"free", "slot", "over"}
                               /\ agent'[l] \in {"none", "gone"}
        /\ loop' = Idle /\ pump'.pc = "idle"
    <3>1. \A l \in Launches : launch'[l].pc \in {"free", "over"}
      BY <1>1 DEF Crash, TypeInv, LaunchInv, Launch
    <3>2. \A l \in Launches : agent'[l] \in {"none", "gone"} BY <1>1 DEF Crash
    <3>3. loop' = Idle /\ pump'.pc = "idle" BY <1>1 DEF Crash
    <3> QED BY <3>1, <3>2, <3>3
  <2> QED BY <2>1 DEF Unbooted
<1>2. CASE booted
  <2>1. CASE UNCHANGED booted BY <1>2, <2>1
  <2>2. CASE ~UNCHANGED booted
    <3>1. ASSUME NEW l \in Launches, Forward(l) \/ Trouble(l) \/ SetupDone(l) PROVE FALSE
      BY <2>2, <3>1, LaunchMoves
    <3>2. Boot \/ Crash
      BY <2>2, <3>1
         DEF Next, vars, User, Start, Retry, Return, Cancel, Requeue, Accept, CancelStep,
             CancelKill, CancelCleanup, PumpStep, PumpStart, PumpAutoDone, PumpAutoClaim,
             PumpEmpty, PumpNext, AgentStep, AgentDie, IdleSweep, AgentReports, AgentAsk,
             UserAnswers, AgentEnd, WorkerTurn, WorkerGone, LoopStep, EventStep, TakeTurn,
             TurnRetire, TurnSettle, TakeRequest, Flip, ReconcileSettle, ReconcilePump,
             ReconcileRead, AbandonSetup, Lag
    <3> QED BY <1>1, <3>2 DEF Boot
  <2> QED BY <2>1, <2>2
<1>3. CASE ~booted /\ ~Crash
  <2>0. /\ \A l \in Launches : /\ launch[l].pc \in {"free", "slot", "over"}
                               /\ agent[l] \in {"none", "gone"}
        /\ loop = Idle /\ pump.pc = "idle"
    BY <1>3 DEF Unbooted
  <2>1. ASSUME NEW t \in Tasks, NEW l \in Launches, Return(t, l) PROVE Unbooted'
    <3>1. \A m \in Launches : launch'[m].pc \in {"free", "slot", "over"}
      BY <2>0, <2>1 DEF Return, TypeInv, LaunchInv, Launch
    <3> QED BY <2>0, <2>1, <3>1 DEF Return, Unbooted
  <2>2. ASSUME NEW c \in cancels, CancelStep(c) PROVE Unbooted'
    <3>1. \A m \in Launches : agent'[m] \in {"none", "gone"}
      BY <2>0, <2>2 DEF CancelStep, CancelKill, CancelCleanup, Drop, TypeInv, ConnsOK
    <3>2. SlotsStill BY <2>2, OthersStill
    <3>3. UNCHANGED loop BY <2>2 DEF CancelStep, CancelKill, CancelCleanup
    <3> QED BY <2>0, <3>1, <3>2, <3>3 DEF SlotsStill, Unbooted
  <2>3. ASSUME NEW l \in Launches, Forward(l) \/ Trouble(l) \/ SetupDone(l) PROVE FALSE
    <3>1. launch[l].pc = "slot" BY <2>0, <2>3, LaunchMoves
    <3>2. ClaimSlot(l) BY <2>3, <3>1, LaunchMoves
    <3> QED BY <1>3, <3>2 DEF ClaimSlot
  <2>4. ASSUME NEW l \in Launches, AgentStep(l) PROVE FALSE
    BY <2>0, <2>4 DEF AgentStep, AgentDie, IdleSweep, AgentReports, AgentAsk, UserAnswers,
                      AgentEnd
  <2>5. ~LoopStep
    BY <1>3, <2>0 DEF LoopStep, EventStep, TakeTurn, TurnRetire, TurnSettle, TakeRequest,
                      Flip, ReconcileSettle, ReconcilePump, ReconcileRead, AbandonSetup,
                      LoopIdle, Idle
  <2>6. ~PumpStep
    BY <1>3, <2>0 DEF PumpStep, PumpStart, PumpAutoDone, PumpEmpty, PumpAutoClaim, PumpNext
  <2>7. CASE /\ SlotsStill /\ UNCHANGED <<agent, loop>>
    BY <2>0, <2>7 DEF SlotsStill, Unbooted
  <2>8. ASSUME NEW l \in Launches, WorkerTurn(l) \/ WorkerGone(l)
        PROVE  SlotsStill /\ UNCHANGED <<agent, loop>>
    BY <2>8, OthersStill DEF WorkerTurn, WorkerGone
  <2>9. CASE User /\ ~\E t \in Tasks, l \in Launches : Return(t, l)
    <3>1. UNCHANGED <<agent, loop>>
      BY <2>9 DEF User, Start, Retry, Cancel, Requeue, Accept
    <3> QED BY <2>7, <2>9, <3>1, OthersStill
  <2>10. CASE Lag \/ Boot \/ UNCHANGED vars
    <3>1. UNCHANGED <<agent, loop>> BY <2>10 DEF Lag, Boot, vars
    <3> QED BY <2>7, <2>10, <3>1, OthersStill
  <2> QED BY <1>3, <2>1, <2>2, <2>3, <2>4, <2>5, <2>6, <2>7, <2>8, <2>9, <2>10 DEF Next
<1> QED BY <1>1, <1>2, <1>3

\* Nothing gets going before boot_reconcile_interrupted has been through the rows.
THEOREM BootInvariant == Spec => []Unbooted
<1>1. TypeInv /\ TypeInv' /\ Unbooted /\ [Next]_vars => Unbooted' BY BootNext
<1> QED BY BootInit, TypeInvariant, <1>1, PTL DEF Spec

----------------------------------------------------------------------------
(* The kill slot *)

\* What a launch does to the kill slots.
LEMMA KillSlotMoves ==
  ASSUME TypeInv, NEW l \in Launches, Forward(l) \/ Trouble(l) \/ SetupDone(l)
  PROVE  /\ \A u \in Tasks : u # TaskOf(l) => setup'[u] = setup[u]
         /\ UNCHANGED setup \/ Enter(l) \/ StartInit(l) \/ Release(l)
<1>1. UNCHANGED setup \/ Enter(l) \/ StartInit(l) \/ Release(l)
  BY DEF Forward, Trouble, ClaimSlot, EnterStale, BeginSetup, Gate, InitKilled,
         Spawn, Bind, Compose, Mark, Prompt, Fail, EnterRefused, SetupFailed,
         SpawnFailed, ComposeFailed, MarkFailed, PromptRefused, SendFailed, FailFailed,
         SetupDone
<1>2. CASE Enter(l)
  BY <1>2 DEF Enter, ReserveSetup, TypeInv, MemoryOK
<1>3. CASE StartInit(l) BY <1>3 DEF StartInit, TypeInv, MemoryOK
<1>4. CASE Release(l) BY <1>4 DEF Release, TypeInv, MemoryOK
<1> QED BY <1>1, <1>2, <1>3, <1>4

\* Launches of one task, when it is the pump that launched them all, come one
\* after the other.
LEMMA OneUnderway ==
  ASSUME SlotInv, NEW l \in Launches, NEW m \in Launches, TaskOf(l) = TaskOf(m),
         launch[l].pc \notin {"free", "over"}, launch[m].pc \notin {"free", "over"},
         PumpedOnly(TaskOf(m))
  PROVE  l = m
BY DEF SlotInv, SlotIsOwned

\* The steps that are not a launch's leave the other parts as they are, except
\* for the user's cancel, the kill, the cleanup and the crash.
KillStill == UNCHANGED <<launch, setup>> /\ cancels \subseteq cancels'

\* Every other step leaves launches and kill slots alone and forgets no cancel.
LEMMA KillOthers ==
  ASSUME TypeInv, [Next]_vars
  PROVE  \/ KillStill
         \/ \E t \in Tasks, l \in Launches : Return(t, l) \/ PumpNext(t, l)
         \/ \E c \in cancels : CancelStep(c)
         \/ \E l \in Launches : Forward(l) \/ Trouble(l) \/ SetupDone(l)
         \/ Crash
<1> USE DEF KillStill
<1>1. CASE User
  BY <1>1 DEF User, Start, Retry, Cancel, Requeue, Accept
<1>2. CASE PumpStep
  BY <1>2 DEF PumpStep, PumpStart, PumpAutoDone, PumpEmpty, PumpAutoClaim
<1>3. ASSUME NEW l \in Launches, AgentStep(l) \/ WorkerTurn(l) \/ WorkerGone(l)
      PROVE  KillStill
  BY <1>3 DEF AgentStep, AgentDie, IdleSweep, AgentReports, AgentAsk, UserAnswers,
              AgentEnd, WorkerTurn, WorkerGone
<1>4. CASE LoopStep
  BY <1>4 DEF LoopStep, EventStep, TakeTurn, TurnRetire, TurnSettle, TakeRequest, Flip,
              ReconcileSettle, ReconcilePump, ReconcileRead, AbandonSetup
<1>5. CASE Lag \/ Boot \/ UNCHANGED vars BY <1>5 DEF Lag, Boot, vars
<1> QED BY <1>1, <1>2, <1>3, <1>4, <1>5 DEF Next

\* At the start there is no setup to kill.
LEMMA KillInit == Init => KillInv
BY DEF Init, KillInv, KillSlotIsOurs, LeftIsKilled, Locked

\* A launch that is inside its lock keeps its kill slot.
LEMMA KillSlotNext ==
  ASSUME TypeInv, SlotInv, KillInv, [Next]_vars PROVE KillSlotIsOurs'
<1> SUFFICES ASSUME NEW m \in Launches, launch'[m].pc \in Locked, PumpedOnly(TaskOf(m))
             PROVE  setup'[TaskOf(m)].seq = launch'[m].seq
  BY DirectGrows, PumpedOnlyBefore DEF KillSlotIsOurs, SeqOf, TaskOf
<1> DEFINE t == TaskOf(m)
<1>0. t \in Tasks BY TaskOfType
<1>a. launch[m].pc \in Locked => setup[t].seq = launch[m].seq
  BY DEF KillInv, KillSlotIsOurs, SeqOf
<1>1. CASE KillStill BY <1>a, <1>1 DEF KillStill
<1>2. ASSUME NEW u \in Tasks, NEW l \in Launches, Return(u, l) \/ PumpNext(u, l)
      PROVE  setup'[t].seq = launch'[m].seq
  <2>1. /\ launch'[l].pc \in {"slot", "lock"} /\ UNCHANGED setup
        /\ m # l => launch'[m] = launch[m]
    BY <1>2 DEF Return, PumpNext, TypeInv, LaunchInv, Launch
  <2> QED BY <1>a, <2>1 DEF Locked
<1>3. ASSUME NEW c \in cancels, CancelStep(c) PROVE setup'[t].seq = launch'[m].seq
  <2>1. UNCHANGED launch BY <1>3 DEF CancelStep, CancelKill, CancelCleanup
  <2>2. setup'[t].seq = setup[t].seq
    BY <1>0, <1>3 DEF CancelStep, CancelKill, CancelCleanup, TypeInv, MemoryOK
  <2> QED BY <1>a, <2>1, <2>2
<1>4. ASSUME NEW l \in Launches, Forward(l) \/ Trouble(l) \/ SetupDone(l)
      PROVE  setup'[t].seq = launch'[m].seq
  <2>1. CASE m # l
    <3>1. launch'[m] = launch[m] /\ launch[l].pc \notin {"free", "over"}
      BY <1>4, <2>1, LaunchMoves
    <3>2. TaskOf(l) # t BY <2>1, <3>1, OneUnderway DEF Locked
    <3>3. setup'[t] = setup[t] BY <1>0, <1>4, <3>2, KillSlotMoves
    <3> QED BY <1>a, <3>1, <3>3
  <2>2. CASE m = l
    <3>1. CASE Enter(l)
      BY <1>0, <2>2, <3>1 DEF Enter, ReserveSetup, TypeInv, MemoryOK, LaunchInv, Launch
    <3>2. CASE ~Enter(l)
      <4>1. launch[m].pc \in Locked /\ launch'[m].seq = launch[m].seq
        BY <1>4, <2>2, <3>2, LockMoves, LaunchMoves DEF Locked
      <4>2. CASE UNCHANGED setup BY <1>a, <4>1, <4>2
      <4>3. CASE StartInit(l)
        <5>1. setup'[t].seq = setup[t].seq \/ setup'[t].seq = launch[m].seq
          BY <1>0, <2>2, <4>3 DEF StartInit, SeqOf, TypeInv, MemoryOK
        <5> QED BY <1>a, <4>1, <5>1
      <4>4. CASE Release(l)
        BY <2>2, <4>1, <4>4 DEF Release, At, Locked
      <4> QED BY <1>4, <3>2, <4>2, <4>3, <4>4, KillSlotMoves
    <3> QED BY <3>1, <3>2
  <2> QED BY <2>1, <2>2
<1>5. CASE Crash
  BY <1>5 DEF Crash, TypeInv, LaunchInv, Launch, Locked
<1> QED BY <1>1, <1>2, <1>3, <1>4, <1>5, KillOthers

\* The setup of a launch that does not move is left by its row only with a cancel
\* that has its generation.
LEMMA LeftStays ==
  ASSUME TypeInv, SlotInv, Unbooted, KillInv, [Next]_vars, NEW m \in Launches,
         PumpedOnly(TaskOf(m)), launch'[m] = launch[m],
         setup'[TaskOf(m)].kill = setup[TaskOf(m)].kill, cancels \subseteq cancels',
         launch[m].pc \in {"gate", "setup", "init"}, ~StillExpected(m)'
  PROVE  KillRequested(m)'
<1> DEFINE t == TaskOf(m)
<1>0. t \in Tasks BY TaskOfType
<1>1. CASE ~StillExpected(m)
  <2>1. KillRequested(m) BY <1>1 DEF KillInv, LeftIsKilled
  <2> QED BY <2>1 DEF KillRequested, TaskOf, SeqOf
<1>2. CASE StillExpected(m)
  <2>1. row[t].status = "preparing" /\ row[t].seq = launch[m].seq
    BY <1>2 DEF StillExpected, Cas, SeqOf
  <2>2. ~(row'[t].status = "preparing" /\ row'[t].seq = row[t].seq)
    BY <2>1 DEF StillExpected, Cas, SeqOf, TaskOf
  <2>3. CASE Cancel(t)
    <3>1. Frozen(t) \in cancels' BY <2>3 DEF Cancel
    <3>2. Frozen(t).task = t /\ Frozen(t).seq = launch'[m].seq /\ Frozen(t).step = "kill"
      BY <2>1 DEF Frozen
    <3> QED BY <3>1, <3>2 DEF KillRequested, SeqOf, TaskOf
  <2>4. ASSUME NEW l \in Launches, TaskOf(l) = t, Mark(l) \/ Fail(l) PROVE FALSE
    <3>1. l = m BY <2>4, OneUnderway DEF Mark, Fail, At
    <3> QED BY <2>4, <3>1 DEF Mark, Fail, At
  <2>5. ~AbandonSetup(t)
    BY NoLaunchAssumption DEF AbandonSetup, SlotInv, SlotIsOwned
  <2>6. ~Boot BY DEF Boot, Unbooted
  <2> QED BY <1>0, <2>1, <2>2, <2>3, <2>4, <2>5, <2>6, EveryRowMoves
        DEF RowMoves, Still, Live, Cas
<1> QED BY <1>1, <1>2

\* Likewise for the launch that moves: it passes the gate only with its row.
LEMMA LeftMoves ==
  ASSUME TypeInv, SlotInv, KillInv, NEW m \in Launches,
         Forward(m) \/ Trouble(m) \/ SetupDone(m), PumpedOnly(TaskOf(m)),
         launch'[m].pc \in {"gate", "setup", "init"}, ~StillExpected(m)'
  PROVE  KillRequested(m)'
<1> DEFINE t == TaskOf(m)
<1>0. t \in Tasks BY TaskOfType
<1>1. launch[m].pc # "lock" => launch'[m].seq = launch[m].seq BY LaunchMoves
<1>2. CASE BeginSetup(m)
  <2>1. launch[m].pc = "begin" /\ launch'[m].seq = launch[m].seq
    BY <1>1, <1>2 DEF BeginSetup, At
  <2>2. row'[t].status = "preparing" /\ row'[t].seq = launch[m].seq
    BY <1>0, <1>2 DEF BeginSetup, Leave, GoTo, Cas, SeqOf, TypeInv, RowInv, Row, LaunchInv,
                      Launch
  <2> QED BY <2>1, <2>2 DEF StillExpected, Cas, SeqOf, TaskOf
<1>3. CASE Gate(m)
  <2>1. launch'[m].seq = launch[m].seq BY <1>1, <1>3 DEF Gate, At
  <2>2. StillExpected(m) /\ UNCHANGED row
    BY <1>3 DEF Gate, Leave, GoTo, TypeInv, LaunchInv, Launch
  <2> QED BY <2>1, <2>2 DEF StillExpected, Cas, SeqOf, TaskOf
<1>4. CASE StartInit(m)
  <2>1. launch[m].pc = "setup" /\ launch'[m].seq = launch[m].seq
    BY <1>1, <1>4 DEF StartInit, At
  <2>2. ~setup[t].kill /\ UNCHANGED <<row, cancels>>
    BY <1>4 DEF StartInit, Err, GoTo, TypeInv, LaunchInv, Launch
  <2>3. ~StillExpected(m) BY <2>1, <2>2 DEF StillExpected, Cas, SeqOf, TaskOf
  <2>4. KillRequested(m) BY <2>1, <2>3 DEF KillInv, LeftIsKilled
  <2> QED BY <2>1, <2>2, <2>4 DEF KillRequested, SeqOf, TaskOf
<1> QED BY <1>2, <1>3, <1>4, LaunchMoves

\* The kill reaches the launch whose generation was cancelled.
LEMMA KillReaches ==
  ASSUME TypeInv, SlotInv, Unbooted, KillInv, NEW c \in cancels, CancelStep(c),
         NEW m \in Launches, PumpedOnly(TaskOf(m)),
         launch'[m].pc \in {"gate", "setup", "init"}, ~StillExpected(m)'
  PROVE  KillRequested(m)'
<1> DEFINE t == TaskOf(m)
<1>0. t \in Tasks BY TaskOfType
<1>1. UNCHANGED <<launch, row>>
  BY DEF CancelStep, CancelKill, CancelCleanup
<1>2. KillRequested(m) /\ launch[m].pc \in Locked
  BY <1>1 DEF KillInv, LeftIsKilled, StillExpected, Cas, SeqOf, TaskOf, Locked
<1>3. setup[t].seq = launch[m].seq /\ launch[m].seq > 0
  BY <1>2 DEF KillInv, KillSlotIsOurs, SeqOf, TypeInv, LaunchInv, LockedHasSeq
<1>4. setup[t].kill => setup'[t].kill
  BY <1>0 DEF CancelStep, CancelKill, CancelCleanup, TypeInv, MemoryOK
<1>5. CASE setup[t].kill BY <1>4, <1>5 DEF KillRequested, TaskOf
<1>6. ASSUME NEW d \in cancels, d.task = t, d.seq = launch[m].seq, d.step = "kill"
      PROVE  KillRequested(m)'
  <2>1. CASE d \in cancels' BY <1>1, <1>6, <2>1 DEF KillRequested, SeqOf, TaskOf
  <2>2. CASE d \notin cancels'
    <3>1. d = c BY <2>2 DEF CancelStep, CancelKill, CancelCleanup
    <3>2. CancelKill(c) BY <1>6, <3>1 DEF CancelStep, CancelCleanup
    <3>3. setup'[t].kill
      BY <1>0, <1>3, <1>6, <3>1, <3>2 DEF CancelKill, TypeInv, MemoryOK
    <3> QED BY <3>3 DEF KillRequested, TaskOf
  <2> QED BY <2>1, <2>2
<1> QED BY <1>2, <1>5, <1>6 DEF KillRequested, SeqOf

\* The row of a setup is left only by a cancel, which leaves its context, or whose
\* kill has arrived.
LEMMA LeftNext ==
  ASSUME TypeInv, SlotInv, Unbooted, KillInv, [Next]_vars PROVE LeftIsKilled'
<1> SUFFICES ASSUME NEW m \in Launches, PumpedOnly(TaskOf(m)),
                    launch'[m].pc \in {"gate", "setup", "init"}, ~StillExpected(m)'
             PROVE  KillRequested(m)'
  BY DirectGrows, PumpedOnlyBefore DEF LeftIsKilled, TaskOf
<1> DEFINE t == TaskOf(m)
<1>0. t \in Tasks BY TaskOfType
<1>1. CASE KillStill BY <1>1, LeftStays DEF KillStill
<1>2. ASSUME NEW u \in Tasks, NEW l \in Launches, Return(u, l) \/ PumpNext(u, l)
      PROVE  KillRequested(m)'
  <2>1. /\ launch'[l].pc \in {"slot", "lock"} /\ UNCHANGED <<setup, cancels>>
        /\ m # l => launch'[m] = launch[m]
    BY <1>2 DEF Return, PumpNext, TypeInv, LaunchInv, Launch
  <2> QED BY <2>1, LeftStays
<1>3. ASSUME NEW c \in cancels, CancelStep(c) PROVE KillRequested(m)'
  BY <1>3, KillReaches
<1>4. ASSUME NEW l \in Launches, Forward(l) \/ Trouble(l) \/ SetupDone(l)
      PROVE  KillRequested(m)'
  <2>1. CASE m # l
    <3>1. /\ launch'[m] = launch[m] /\ launch[l].pc \notin {"free", "over"}
          /\ UNCHANGED cancels
      BY <1>4, <2>1, LaunchMoves
    <3>2. TaskOf(l) # t BY <2>1, <3>1, OneUnderway
    <3>3. setup'[t] = setup[t] BY <1>0, <1>4, <3>2, KillSlotMoves
    <3> QED BY <3>1, <3>3, LeftStays
  <2>2. CASE m = l BY <1>4, <2>2, LeftMoves
  <2> QED BY <2>1, <2>2
<1>5. CASE Crash
  BY <1>5 DEF Crash, TypeInv, LaunchInv, Launch
<1> QED BY <1>1, <1>2, <1>3, <1>4, <1>5, KillOthers

\* The kill slot of a task belongs to the launch inside its lock, and a setup whose
\* row was cancelled is being killed (cancel_task, request_setup_kill).
THEOREM KillInvariant == Spec => []KillInv
<1>1. TypeInv /\ SlotInv /\ Unbooted /\ KillInv /\ [Next]_vars => KillInv'
  BY KillSlotNext, LeftNext DEF KillInv
<1> QED BY KillInit, TypeInvariant, SlotInvariant, BootInvariant, <1>1, PTL DEF Spec

\* An init command that runs for a row that was cancelled has its kill flag set, or a
\* cancel is on its way to set it, without the task lock that the setup holds
\* (cancel_task, register_setup_child): the setup cannot keep the lock for its ten
\* minutes unnoticed.
THEOREM CancelReachesSetup == Spec => []SetupIsKillable
<1>1. TypeInv /\ KillInv => SetupIsKillable
  <2> SUFFICES ASSUME TypeInv, KillInv, NEW l \in Launches, launch[l].pc = "init",
                      ~StillExpected(l), PumpedOnly(TaskOf(l))
               PROVE  \/ setup[TaskOf(l)] = [seq |-> SeqOf(l), kill |-> TRUE]
                      \/ \E c \in cancels : /\ c.task = TaskOf(l) /\ c.seq = SeqOf(l)
                                            /\ c.step = "kill"
    BY DEF SetupIsKillable
  <2>1. KillRequested(l) BY DEF KillInv, LeftIsKilled
  <2>2. setup[TaskOf(l)].seq = SeqOf(l) BY DEF KillInv, KillSlotIsOurs, Locked
  <2>3. setup[TaskOf(l)] \in [seq: Seqs, kill: BOOLEAN]
    BY TaskOfType DEF TypeInv, MemoryOK
  <2> QED BY <2>1, <2>2, <2>3 DEF KillRequested
<1> QED BY TypeInvariant, KillInvariant, <1>1, PTL

----------------------------------------------------------------------------
(* What the steps do to the agents *)

\* Rows never go back to a setup within a generation.
LEMMA EveryRowQuiet == ASSUME TypeInv, GenInv, [Next]_vars PROVE RowsQuiet
<1>1. ASSUME NEW l \in Launches, Mark(l) PROVE RowsQuiet
  <2>1. CASE StillExpected(l)
    BY <1>1, <2>1, TaskOfType
       DEF Mark, GoLive, StillExpected, Cas, TypeInv, RowInv, Row, RowsQuiet, Unlit
  <2>2. CASE ~StillExpected(l) BY <1>1, <2>2, RowsStill DEF Mark
  <2> QED BY <2>1, <2>2
<1>2. CASE UNCHANGED vars BY <1>2, RowsStill DEF vars
<1> QED BY <1>1, <1>2, UserGen, CancelStepGen, PumpStepGen, ForwardGen, TroubleGen,
           AgentGen, LoopGen, EnvironmentGen DEF Next, Quiet

\* A live row that stays live keeps its generation and its connection.
LEMMA LiveStays ==
  ASSUME TypeInv, [Next]_vars, NEW t \in Tasks,
         row[t].status \in Live, row'[t].status \in Live
  PROVE  row'[t].seq = row[t].seq /\ row'[t].conn = row[t].conn
<1>1. CASE Boot BY <1>1 DEF Boot, TypeInv, RowInv, Row, Live, Interruptible
<1>2. CASE Cancel(t) BY <1>2 DEF Cancel, CancelRow, TypeInv, RowInv, Row, Live
<1>3. CASE ~Boot /\ ~Cancel(t)
  BY <1>3, EveryRowMoves DEF RowMoves, Still, Live, Unlit, StillExpected, Cas, AbandonSetup
<1> QED BY <1>1, <1>2, <1>3

\* A launch stands still, is spawned, or takes a step of its own.
LEMMA EveryLaunchMoves ==
  ASSUME TypeInv, [Next]_vars, ~Crash, NEW l \in Launches
  PROVE  \/ launch'[l] = launch[l]
         \/ /\ launch[l].pc = "free" /\ launch'[l].pc \in {"slot", "lock"}
            /\ UNCHANGED <<agent, index, prompted>>
         \/ Forward(l) \/ Trouble(l) \/ SetupDone(l)
<1>1. CASE KillStill BY <1>1 DEF KillStill
<1>2. ASSUME NEW t \in Tasks, NEW m \in Launches, Return(t, m) \/ PumpNext(t, m)
      PROVE  \/ launch'[l] = launch[l]
             \/ /\ launch[l].pc = "free" /\ launch'[l].pc \in {"slot", "lock"}
                /\ UNCHANGED <<agent, index, prompted>>
  BY <1>2 DEF Return, PumpNext, Fresh, TypeInv, LaunchInv, Launch
<1>3. ASSUME NEW c \in cancels, CancelStep(c) PROVE launch'[l] = launch[l]
  BY <1>3 DEF CancelStep, CancelKill, CancelCleanup
<1>4. ASSUME NEW m \in Launches, Forward(m) \/ Trouble(m) \/ SetupDone(m), m # l
      PROVE  launch'[l] = launch[l]
  BY <1>4, LaunchMoves
<1> QED BY <1>1, <1>2, <1>3, <1>4, KillOthers

\* How a launch comes to its later stations.
LEMMA PcComes ==
  ASSUME TypeInv, NEW l \in Launches, Forward(l) \/ Trouble(l) \/ SetupDone(l)
  PROVE  /\ launch'[l].pc \in Unspawned => launch[l].pc \in Unspawned
         /\ launch'[l].pc = "mark" => Compose(l)
         /\ launch'[l].pc = "prompt" => Mark(l) /\ StillExpected(l)
<1> USE DEF At, TypeInv, LaunchInv, Launch, Unspawned
<1>1. CASE ClaimSlot(l) \/ EnterStale(l) \/ Enter(l) \/ EnterRefused(l)
  BY <1>1 DEF ClaimSlot, EnterStale, Enter, EnterRefused, GoTo
<1>2. CASE BeginSetup(l) BY <1>2 DEF BeginSetup, GoTo, Leave
<1>3. CASE Gate(l) \/ StartInit(l) \/ InitKilled(l) \/ SetupDone(l)
  BY <1>3 DEF Gate, StartInit, InitKilled, SetupDone, GoTo, Leave, Err
<1>4. CASE Spawn(l) BY <1>4 DEF Spawn, GoTo, Leave
<1>5. CASE Bind(l) BY <1>5 DEF Bind, GoTo, Leave
<1>6. CASE Compose(l) BY <1>6 DEF Compose, GoTo
<1>7. CASE Mark(l) BY <1>7 DEF Mark, GoTo, Leave
<1>8. CASE Prompt(l) BY <1>8 DEF Prompt, GoTo, Leave
<1>9. CASE Fail(l) \/ Release(l) \/ FailFailed(l) BY <1>9 DEF Fail, Release, FailFailed
<1>10. CASE SetupFailed(l) \/ SpawnFailed(l) \/ ComposeFailed(l)
  BY <1>10 DEF SetupFailed, SpawnFailed, ComposeFailed, GoTo, Err
<1>11. CASE MarkFailed(l) \/ PromptRefused(l) \/ SendFailed(l)
  BY <1>11 DEF MarkFailed, PromptRefused, SendFailed, GoTo, Err
<1> QED BY <1>1, <1>2, <1>3, <1>4, <1>5, <1>6, <1>7, <1>8, <1>9, <1>10, <1>11
        DEF Forward, Trouble

\* The life of a connection.
AgentMove(l) ==
  \/ agent'[l] = agent[l]
  \/ launch[l].pc = "spawn" /\ launch'[l].pc \in {"bind", "compose"} /\ agent'[l] = "up"
  \/ Prompt(l) /\ agent'[l] = "busy"
  \/ agent[l] = "busy" /\ agent'[l] = "over"
  \/ agent[l] # "none" /\ agent'[l] = "gone"

\* A connection leaves the registry only when it is gone.
IndexMove(l) == l \in index /\ l \notin index' => agent'[l] \notin {"up", "busy"}

\* A connection that is dropped is gone.
LEMMA DropMove ==
  ASSUME TypeInv, NEW l \in Launches, Drop(l), NEW m \in Launches
  PROVE  AgentMove(m) /\ agent'[l] \notin {"up", "busy"}
BY DEF Drop, AgentMove, TypeInv, ConnsOK

\* Retiring a connection takes no other one out of the index.
LEMMA RetireMove ==
  ASSUME NEW l, NEW t, Retire(l, t), NEW m PROVE m # l => (m \in index => m \in index')
BY DEF Retire

\* A launch spawns its own agent, prompts it, or drops it.
LEMMA LaunchAgentMoves ==
  ASSUME TypeInv, NEW l \in Launches, Forward(l) \/ Trouble(l) \/ SetupDone(l),
         NEW m \in Launches
  PROVE  AgentMove(m) /\ IndexMove(m)
<1>1. CASE UNCHANGED <<agent, index>> BY <1>1 DEF AgentMove, IndexMove
<1>2. CASE Spawn(l)
  <2>1. index' = index BY <1>2 DEF Spawn
  <2>2. CASE agent' = agent BY <2>1, <2>2 DEF AgentMove, IndexMove
  <2>3. CASE agent' # agent
    <3>1. /\ launch[l].pc = "spawn" /\ launch'[l].pc \in {"bind", "compose"}
          /\ agent' = [agent EXCEPT ![l] = "up"]
      BY <1>2, <2>3 DEF Spawn, At, TypeInv, LaunchInv, Launch
    <3> QED BY <2>1, <3>1 DEF AgentMove, IndexMove, TypeInv, ConnsOK
  <2> QED BY <2>2, <2>3
<1>3. CASE Bind(l)
  BY <1>1, <1>3, DropMove DEF Bind, IndexMove
<1>4. CASE Compose(l) BY <1>4 DEF Compose, AgentMove, IndexMove
<1>5. CASE Mark(l) \/ MarkFailed(l) \/ PromptRefused(l)
  BY <1>1, <1>5, DropMove DEF Mark, MarkFailed, PromptRefused, Teardown, IndexMove
<1>6. CASE Prompt(l)
  <2>1. agent' = [agent EXCEPT ![l] = "busy"] /\ index' = index BY <1>6 DEF Prompt
  <2> QED BY <1>6, <2>1 DEF AgentMove, IndexMove, TypeInv, ConnsOK
<1>7. CASE SendFailed(l)
  <2>1. /\ agent' = [agent EXCEPT ![l] = "gone"] /\ index' = index \ {l}
        /\ agent[l] = "up"
    BY <1>7 DEF SendFailed
  <2> QED BY <2>1 DEF AgentMove, IndexMove, TypeInv, ConnsOK
<1> QED BY <1>1, <1>2, <1>3, <1>4, <1>5, <1>6, <1>7
  DEF Forward, Trouble, ClaimSlot, EnterStale, Enter, BeginSetup, Gate, StartInit,
      InitKilled, Fail, Release, EnterRefused, SetupFailed, SpawnFailed, ComposeFailed,
      FailFailed, SetupDone

\* Agents end their turns, die, or are swept.
LEMMA ConnectionMoves ==
  ASSUME TypeInv, NEW l \in Launches, AgentStep(l) \/ WorkerTurn(l) \/ WorkerGone(l),
         NEW m \in Launches
  PROVE  AgentMove(m) /\ IndexMove(m)
<1>1. CASE UNCHANGED <<agent, index>> BY <1>1 DEF AgentMove, IndexMove
<1>2. CASE AgentDie(l) \/ IdleSweep(l)
  BY <1>2, DropMove DEF AgentDie, IdleSweep, IndexMove
<1>3. ASSUME NEW stop \in Stops, AgentEnd(l, stop) PROVE AgentMove(m) /\ IndexMove(m)
  <2>1. agent[l] = "busy" /\ agent' = [agent EXCEPT ![l] = "over"] /\ index' = index
    BY <1>3 DEF AgentEnd
  <2> QED BY <2>1 DEF AgentMove, IndexMove, TypeInv, ConnsOK
<1> QED BY <1>1, <1>2, <1>3
  DEF AgentStep, AgentReports, AgentAsk, UserAnswers, WorkerTurn, WorkerGone

\* The event loop disconnects the agent whose run it settles.
LEMMA LoopAgentMoves ==
  ASSUME TypeInv, AgentInv, LoopStep, NEW m \in Launches PROVE AgentMove(m) /\ IndexMove(m)
<1>0. loop \in LoopState BY DEF TypeInv, ControlOK
<1>1. CASE UNCHANGED <<agent, index>> BY <1>1 DEF AgentMove, IndexMove
<1>2. CASE TurnRetire
  <2>1. loop.conn \in Launches BY <1>0, <1>2, LoopFields DEF TurnRetire
  <2>2. Drop(loop.conn) /\ Retire(loop.conn, TaskOf(loop.conn)) BY <1>2 DEF TurnRetire
  <2>3. AgentMove(m) /\ agent'[loop.conn] \notin {"up", "busy"} BY <2>1, <2>2, DropMove
  <2>4. m # loop.conn => (m \in index => m \in index') BY <2>2, RetireMove
  <2> QED BY <2>3, <2>4 DEF IndexMove
<1>3. CASE ReconcileSettle
  <2>1. agent' = agent /\ Retire(loop.conn, loop.task) /\ agent[loop.conn] = "gone"
    BY <1>3 DEF ReconcileSettle, AgentInv, ReconcileHolds
  <2>2. m # loop.conn => (m \in index => m \in index') BY <2>1, RetireMove
  <2> QED BY <2>1, <2>2 DEF AgentMove, IndexMove
<1> QED BY <1>1, <1>2, <1>3
  DEF LoopStep, EventStep, TakeTurn, TurnSettle, TakeRequest, Flip, ReconcilePump,
      ReconcileRead, AbandonSetup

\* A cleanup disconnects the agent of its context.
LEMMA CancelAgentMoves ==
  ASSUME TypeInv, NEW c \in cancels, CancelStep(c), NEW m \in Launches
  PROVE  AgentMove(m) /\ IndexMove(m)
<1>1. CASE UNCHANGED <<agent, index>> BY <1>1 DEF AgentMove, IndexMove
<1>2. CASE CancelCleanup(c) /\ Owns(c)
  <2>1. c.conn \in Launches BY <1>2 DEF Owns, TypeInv, MemoryOK
  <2>2. Drop(c.conn) /\ Retire(c.conn, c.task) BY <1>2 DEF CancelCleanup
  <2>3. AgentMove(m) /\ agent'[c.conn] \notin {"up", "busy"} BY <2>1, <2>2, DropMove
  <2>4. m # c.conn => (m \in index => m \in index') BY <2>2, RetireMove
  <2> QED BY <2>3, <2>4 DEF IndexMove
<1> QED BY <1>1, <1>2 DEF CancelStep, CancelKill, CancelCleanup

\* Every step moves an agent in one of these ways.
LEMMA EveryAgentMoves ==
  ASSUME TypeInv, AgentInv, [Next]_vars, ~Crash, NEW m \in Launches
  PROVE  AgentMove(m) /\ IndexMove(m)
<1>1. CASE User \/ PumpStep \/ Lag \/ Boot \/ UNCHANGED vars
  <2>1. UNCHANGED <<agent, index>>
    BY <1>1 DEF User, Start, Retry, Return, Cancel, Requeue, Accept, PumpStep, PumpStart,
                PumpAutoDone, PumpAutoClaim, PumpEmpty, PumpNext, Lag, Boot, vars
  <2> QED BY <2>1 DEF AgentMove, IndexMove
<1> QED BY <1>1, LaunchAgentMoves, ConnectionMoves, LoopAgentMoves, CancelAgentMoves
        DEF Next

\* The history of prompts grows, by Prompt only.
LEMMA PromptedMoves ==
  ASSUME [Next]_vars
  PROVE  prompted' = prompted \/ \E l \in Launches : Prompt(l) /\ prompted' = prompted \cup {l}
<1>1. CASE User \/ PumpStep \/ \E c \in cancels : CancelStep(c)
  BY <1>1 DEF User, Start, Retry, Return, Cancel, Requeue, Accept, CancelStep,
       CancelKill, CancelCleanup, PumpStep, PumpStart, PumpAutoDone, PumpAutoClaim,
       PumpEmpty, PumpNext
<1>2. ASSUME NEW l \in Launches, Forward(l) \/ Trouble(l) \/ SetupDone(l)
      PROVE  prompted' = prompted \/ (Prompt(l) /\ prompted' = prompted \cup {l})
  BY <1>2 DEF Forward, Trouble, ClaimSlot, EnterStale, Enter, BeginSetup, Gate, StartInit,
       InitKilled, Spawn, Bind, Compose, Mark, Prompt, Fail, Release, EnterRefused,
       SetupFailed, SpawnFailed, ComposeFailed, MarkFailed, PromptRefused, SendFailed,
       FailFailed, SetupDone
<1>3. ASSUME NEW l \in Launches, AgentStep(l) \/ WorkerTurn(l) \/ WorkerGone(l)
      PROVE  prompted' = prompted
  BY <1>3 DEF AgentStep, AgentDie, IdleSweep, AgentReports, AgentAsk, UserAnswers,
       AgentEnd, WorkerTurn, WorkerGone
<1>4. CASE LoopStep
  BY <1>4 DEF LoopStep, EventStep, TakeTurn, TurnRetire, TurnSettle, TakeRequest, Flip,
       ReconcileSettle, ReconcilePump, ReconcileRead, AbandonSetup
<1>5. CASE Lag \/ Crash \/ Boot \/ UNCHANGED vars BY <1>5 DEF Lag, Crash, Boot, vars
<1> QED BY <1>1, <1>2, <1>3, <1>4, <1>5 DEF Next

----------------------------------------------------------------------------
(* No agent works for nobody *)

\* At the start there is no agent.
LEMMA AgentInit == Init => AgentInv
<1> SUFFICES ASSUME Init PROVE AgentInv OBVIOUS
<1>1. /\ \A l \in Launches : agent[l] = "none" /\ launch[l].pc = "free"
      /\ loop.pc = "idle" /\ bus = <<>>
  BY DEF Init, Idle
<1>2. TurnsAreOver BY <1>1 DEF TurnsAreOver
<1> QED BY <1>1, <1>2 DEF AgentInv, UnspawnedHasNone, BusyIsPrompted, WorkingIsKnown, Working,
                     LoopTurnIsOver, ReconcileHolds, WorkingIsAccounted

\* A crash leaves no agent and nothing of the event loop.
LEMMA AgentCrash == ASSUME TypeInv, AgentInv, Crash PROVE AgentInv'
<1>1. /\ \A l \in Launches : agent'[l] = IF agent[l] = "none" THEN "none" ELSE "gone"
      /\ loop'.pc = "idle" /\ bus' = <<>>
  BY DEF Crash, Idle
<1>2. \A l \in Launches : launch'[l].pc = IF launch[l].pc = "free" THEN "free" ELSE "over"
  BY DEF Crash, TypeInv, LaunchInv, Launch
<1>3. UnspawnedHasNone' BY <1>1, <1>2 DEF AgentInv, UnspawnedHasNone, Unspawned
<1>4. TurnsAreOver' BY <1>1 DEF TurnsAreOver
<1> QED BY <1>1, <1>3, <1>4 DEF AgentInv, BusyIsPrompted, WorkingIsKnown, Working,
                     LoopTurnIsOver, ReconcileHolds, WorkingIsAccounted

\* An agent comes from Spawn and from nowhere else.
LEMMA UnspawnedNext ==
  ASSUME TypeInv, AgentInv, [Next]_vars, ~Crash PROVE UnspawnedHasNone'
<1> SUFFICES ASSUME NEW l \in Launches, launch'[l].pc \in Unspawned
             PROVE  agent'[l] = "none"
  BY DEF UnspawnedHasNone
<1>1. launch[l].pc \in Unspawned
  BY EveryLaunchMoves, PcComes DEF Unspawned
<1>2. agent[l] = "none" BY <1>1 DEF AgentInv, UnspawnedHasNone
<1>3. AgentMove(l) BY EveryAgentMoves
<1> QED BY <1>2, <1>3 DEF AgentMove, Prompt, Unspawned

\* An agent works only when its prompt was sent.
LEMMA BusyNext ==
  ASSUME TypeInv, AgentInv, [Next]_vars, ~Crash PROVE BusyIsPrompted'
<1> SUFFICES ASSUME NEW l \in Launches, agent'[l] = "busy" PROVE l \in prompted'
  BY DEF BusyIsPrompted
<1>1. CASE Prompt(l) BY <1>1 DEF Prompt
<1>2. CASE ~Prompt(l)
  <2>1. agent[l] = "busy" BY <1>2, EveryAgentMoves DEF AgentMove
  <2>2. l \in prompted BY <2>1 DEF AgentInv, BusyIsPrompted
  <2> QED BY <2>2, PromptedMoves
<1> QED BY <1>1, <1>2

\* A connection is in the index before it is prompted and stays there while it works.
LEMMA KnownNext ==
  ASSUME TypeInv, AgentInv, [Next]_vars, ~Crash PROVE WorkingIsKnown'
<1> SUFFICES ASSUME NEW l \in Launches,
                    Working(l)' \/ (launch'[l].pc = "mark" /\ agent'[l] = "up")
             PROVE  l \in index'
  BY DEF WorkingIsKnown
<1>1. agent'[l] \in {"up", "busy"} BY DEF Working
<1>2. AgentMove(l) /\ IndexMove(l) BY EveryAgentMoves
<1>3. CASE l \in index BY <1>1, <1>2, <1>3 DEF IndexMove
<1>4. CASE l \notin index
  <2>0. ~Working(l) /\ ~(launch[l].pc = "mark" /\ agent[l] = "up")
    BY <1>4 DEF AgentInv, WorkingIsKnown
  <2>1. CASE Compose(l) BY <2>1 DEF Compose
  <2>2. CASE ~Compose(l)
    <3>1. agent'[l] # "busy"
      BY <1>2, <2>0 DEF AgentMove, Prompt, At, Working
    <3>2. agent'[l] = "up" /\ launch'[l].pc \in {"mark", "prompt"}
      BY <3>1 DEF Working
    <3>3. agent[l] = "up" BY <1>2, <3>2 DEF AgentMove
    <3>4. launch[l].pc \notin {"mark", "prompt"} BY <2>0, <3>3 DEF Working
    <3>5. Forward(l) \/ Trouble(l) \/ SetupDone(l)
      BY <3>2, <3>4, EveryLaunchMoves
    <3>6. Mark(l) BY <2>2, <3>2, <3>5, PcComes
    <3> QED BY <3>4, <3>6 DEF Mark, At
  <2> QED BY <2>1, <2>2
<1> QED BY <1>3, <1>4

\* A connection whose turn is over stays so.
LEMMA StoppedStays ==
  ASSUME TypeInv, GenInv, AgentInv, [Next]_vars, ~Crash, NEW l \in Launches, Stopped(l)
  PROVE  Stopped(l)'
<1>1. l \in prompted' BY PromptedMoves DEF Stopped
<1>2. launch[l].pc \in {"release", "over"} BY DEF Stopped, GenInv, PromptedReturned
<1>3. agent'[l] \in {"over", "gone"}
  BY <1>2, EveryAgentMoves DEF Stopped, AgentMove, Prompt, At
<1> QED BY <1>1, <1>3 DEF Stopped

\* Who publishes, and who takes.
LEMMA BusSteps ==
  ASSUME TypeInv, [Next]_vars, ~Crash
  PROVE  \/ UNCHANGED bus
         \/ \E l \in Launches, k \in Keys : AgentAsk(l, k) \/ UserAnswers(l, k)
         \/ \E l \in Launches, stop \in Stops : AgentEnd(l, stop)
         \/ TakeTurn \/ TakeRequest \/ Lag
<1>1. CASE User \/ PumpStep \/ \E c \in cancels : CancelStep(c)
  BY <1>1 DEF User, Start, Retry, Return, Cancel, Requeue, Accept, CancelStep,
       CancelKill, CancelCleanup, PumpStep, PumpStart, PumpAutoDone, PumpAutoClaim,
       PumpEmpty, PumpNext
<1>2. ASSUME NEW l \in Launches, Forward(l) \/ Trouble(l) \/ SetupDone(l)
      PROVE  UNCHANGED bus
  BY <1>2, LaunchMoves
<1>3. ASSUME NEW l \in Launches, AgentStep(l)
      PROVE  \/ UNCHANGED bus
             \/ \E k \in Keys : AgentAsk(l, k) \/ UserAnswers(l, k)
             \/ \E stop \in Stops : AgentEnd(l, stop)
  BY <1>3 DEF AgentStep, AgentDie, IdleSweep, AgentReports
<1>4. ASSUME NEW l \in Launches, WorkerTurn(l) \/ WorkerGone(l) PROVE UNCHANGED bus
  BY <1>4 DEF WorkerTurn, WorkerGone
<1>5. CASE LoopStep
  BY <1>5 DEF LoopStep, EventStep, TurnRetire, TurnSettle, Flip, ReconcileSettle,
       ReconcilePump, ReconcileRead, AbandonSetup
<1>6. CASE Lag \/ Boot \/ UNCHANGED vars BY <1>6 DEF Lag, Boot, vars
<1> QED BY <1>1, <1>2, <1>3, <1>4, <1>5, <1>6 DEF Next

\* The bus: events are taken from its head, lost there, or published.
LEMMA BusMoves ==
  ASSUME TypeInv, [Next]_vars, ~Crash
  PROVE  \/ UNCHANGED bus
         \/ bus # <<>> /\ bus' = Tail(bus)
         \/ \E l \in Launches, k \in Keys, y \in {"ask", "answer"} :
              bus' = Append(bus, [type |-> y, conn |-> l, key |-> k])
         \/ \E l \in Launches, stop \in Stops :
              AgentEnd(l, stop) /\ bus' = Append(bus, [type |-> "turn", conn |-> l, stop |-> stop])
BY BusSteps DEF AgentAsk, UserAnswers, AgentEnd, Publish, TakeTurn, TakeRequest, Lag

\* What the bus holds is events of agents.
LEMMA BusConn ==
  ASSUME TypeInv, NEW i \in 1..Len(bus) PROVE bus[i] \in Event /\ bus[i].conn \in Launches
<1>1. bus[i] \in Event BY DEF TypeInv, ConnsOK
<1> QED BY <1>1 DEF Event

\* A completion is published when the turn is over.
LEMMA TurnsNext ==
  ASSUME TypeInv, GenInv, AgentInv, [Next]_vars, ~Crash PROVE TurnsAreOver'
<1> SUFFICES ASSUME NEW i \in 1..Len(bus'), bus'[i].type = "turn"
             PROVE  bus'[i].conn \in prompted' /\ agent'[bus'[i].conn] \in {"over", "gone"}
  BY DEF TurnsAreOver, Stopped
<1> DEFINE Goal == bus'[i].conn \in prompted' /\ agent'[bus'[i].conn] \in {"over", "gone"}
<1>0. bus \in Seq(Event) BY DEF TypeInv, ConnsOK
<1>1. ASSUME NEW j \in 1..Len(bus), bus'[i] = bus[j] PROVE Goal
  <2>1. bus[j].conn \in Launches BY BusConn
  <2>2. Stopped(bus[j].conn) BY <1>1 DEF AgentInv, TurnsAreOver
  <2>3. bus[j].conn \in prompted' /\ agent'[bus[j].conn] \in {"over", "gone"}
    <3> PICK l \in Launches : l = bus[j].conn BY <2>1
    <3>1. Stopped(l)' BY <2>2, StoppedStays
    <3> QED BY <3>1 DEF Stopped
  <2> QED BY <1>1, <2>3
<1>2. CASE UNCHANGED bus BY <1>1, <1>2
<1>3. CASE bus # <<>> /\ bus' = Tail(bus)
  <2>1. i + 1 \in 1..Len(bus) /\ bus'[i] = bus[i + 1] BY <1>0, <1>3
  <2> QED BY <1>1, <2>1
<1>4. ASSUME NEW l \in Launches, NEW k \in Keys, NEW y \in {"ask", "answer"},
             bus' = Append(bus, [type |-> y, conn |-> l, key |-> k])
      PROVE  Goal
  <2>1. i \in 1..Len(bus) /\ bus'[i] = bus[i] BY <1>0, <1>4
  <2> QED BY <1>1, <2>1
<1>5. ASSUME NEW l \in Launches, NEW stop \in Stops, AgentEnd(l, stop),
             bus' = Append(bus, [type |-> "turn", conn |-> l, stop |-> stop])
      PROVE  Goal
  <2>1. CASE i \in 1..Len(bus)
    <3>1. bus'[i] = bus[i] BY <1>0, <1>5, <2>1
    <3> QED BY <1>1, <2>1, <3>1
  <2>2. CASE i \notin 1..Len(bus)
    <3>1. bus'[i].conn = l BY <1>0, <1>5, <2>2
    <3>2. /\ agent[l] = "busy" /\ agent' = [agent EXCEPT ![l] = "over"]
          /\ prompted' = prompted
      BY <1>5 DEF AgentEnd
    <3>3. l \in prompted' /\ agent'[l] = "over"
      BY <3>2 DEF AgentInv, BusyIsPrompted, TypeInv, ConnsOK
    <3> QED BY <3>1, <3>3 DEF Stopped
  <2> QED BY <2>1, <2>2
<1> QED BY <1>2, <1>3, <1>4, <1>5, BusMoves

\* What the event loop knows.
LEMMA LoopKeeps ==
  ASSUME TypeInv, [Next]_vars, ~Crash
  PROVE  \/ UNCHANGED loop \/ TakeTurn \/ TurnRetire
         \/ \E t \in Tasks : ReconcileRead(t)
         \/ loop'.pc \in {"idle", "flip"}
<1>1. CASE User \/ PumpStep \/ \E c \in cancels : CancelStep(c)
  BY <1>1 DEF User, Start, Retry, Return, Cancel, Requeue, Accept, CancelStep,
       CancelKill, CancelCleanup, PumpStep, PumpStart, PumpAutoDone, PumpAutoClaim,
       PumpEmpty, PumpNext
<1>2. ASSUME NEW l \in Launches, Forward(l) \/ Trouble(l) \/ SetupDone(l)
      PROVE  UNCHANGED loop
  BY <1>2, LaunchMoves
<1>3. ASSUME NEW l \in Launches, AgentStep(l) \/ WorkerTurn(l) \/ WorkerGone(l)
      PROVE  UNCHANGED loop
  BY <1>3 DEF AgentStep, AgentDie, IdleSweep, AgentReports, AgentAsk, UserAnswers,
       AgentEnd, WorkerTurn, WorkerGone
<1>4. CASE LoopStep
  <2>1. CASE TakeRequest
    <3>1. loop.pc = "idle" BY <2>1 DEF TakeRequest, LoopIdle, Idle
    <3>2. UNCHANGED loop \/ loop'.pc = "flip"
      BY <2>1 DEF TakeRequest, Track
    <3> QED BY <3>2
  <2>2. CASE TurnSettle \/ Flip \/ ReconcileSettle
    BY <2>2 DEF TurnSettle, Flip, ReconcileSettle, Idle
  <2>3. CASE ReconcilePump \/ \E t \in Tasks : AbandonSetup(t)
    BY <2>3 DEF ReconcilePump, AbandonSetup
  <2> QED BY <1>4, <2>1, <2>2, <2>3 DEF LoopStep, EventStep
<1>5. CASE Lag \/ Boot \/ UNCHANGED vars BY <1>5 DEF Lag, Boot, vars
<1> QED BY <1>1, <1>2, <1>3, <1>4, <1>5 DEF Next

\* A launch that has read its row keeps its generation.
LEMMA SeqStays ==
  ASSUME TypeInv, [Next]_vars, ~Crash, NEW l \in Launches,
         launch[l].pc \notin {"free", "lock"}
  PROVE  launch'[l].seq = launch[l].seq
BY EveryLaunchMoves, LaunchMoves

\* The completion the loop handles was on the bus, and belongs to the generation of
\* its connection.
LEMMA LoopTurnNext ==
  ASSUME TypeInv, GenInv, AgentInv, [Next]_vars, ~Crash PROVE LoopTurnIsOver'
<1> SUFFICES ASSUME loop'.pc \in {"turn", "settle"}
             PROVE  /\ loop'.conn \in prompted' /\ agent'[loop'.conn] \in {"over", "gone"}
                    /\ loop'.seq = launch'[loop'.conn].seq
  BY DEF LoopTurnIsOver, Stopped, SeqOf
<1>0. loop \in LoopState BY DEF TypeInv, ControlOK
<1>1. CASE (UNCHANGED loop \/ TurnRetire)
  <2>1. /\ loop.pc \in {"turn", "settle"} /\ loop'.conn = loop.conn
        /\ loop'.seq = loop.seq
    BY <1>0, <1>1 DEF TurnRetire, LoopState, Idle
  <2>2. Stopped(loop.conn) /\ loop.seq = launch[loop.conn].seq
    BY <2>1 DEF AgentInv, LoopTurnIsOver, SeqOf
  <2> PICK l \in Launches : l = loop.conn BY <1>0, <2>1, LoopFields
  <2>3. Stopped(l)' BY <2>2, StoppedStays
  <2>4. launch[l].pc \in {"release", "over"}
    BY <2>2 DEF Stopped, GenInv, PromptedReturned
  <2>5. launch'[l].seq = launch[l].seq BY <2>4, SeqStays
  <2> QED BY <2>1, <2>2, <2>3, <2>5 DEF Stopped
<1>2. CASE TakeTurn
  <2>1. bus # <<>> /\ Head(bus).type = "turn" /\ UNCHANGED <<prompted, agent, launch>>
    BY <1>2 DEF TakeTurn
  <2>2. 1 \in 1..Len(bus) /\ Head(bus) = bus[1] BY <2>1 DEF TypeInv, ConnsOK
  <2>3. Stopped(Head(bus).conn) BY <2>1, <2>2 DEF AgentInv, TurnsAreOver
  <2>4. loop'.conn = Head(bus).conn /\ loop'.seq = launch[Head(bus).conn].seq
    BY <1>2 DEF TakeTurn, SeqOf, Idle
  <2> QED BY <2>1, <2>3, <2>4 DEF Stopped
<1>3. ASSUME NEW t \in Tasks, ReconcileRead(t) PROVE FALSE
  BY <1>3 DEF ReconcileRead
<1> QED BY <1>1, <1>2, <1>3, LoopKeeps

\* What reconcile read of a connection that is gone is not undone by the await after
\* it: a generation that has left its connection does not take it up again.
LEMMA ReconcileNext ==
  ASSUME TypeInv, TypeInv', GenInv, AgentInv, [Next]_vars, ~Crash PROVE ReconcileHolds'
<1> SUFFICES ASSUME loop'.pc = "reconcile"
             PROVE  /\ agent'[loop'.conn] = "gone"
                    /\ row'[loop'.task].seq >= loop'.seq
                    /\ row'[loop'.task].seq = loop'.seq =>
                         /\ row'[loop'.task].status \notin Unlit
                         /\ row'[loop'.task].status \in Live
                              => row'[loop'.task].conn = loop'.conn
  BY DEF ReconcileHolds
<1>0. loop \in LoopState BY DEF TypeInv, ControlOK
<1>1. CASE UNCHANGED loop
  <2>1. /\ agent[loop.conn] = "gone" /\ row[loop.task].seq >= loop.seq
        /\ row[loop.task].seq = loop.seq =>
             /\ row[loop.task].status \notin Unlit
             /\ row[loop.task].status \in Live => row[loop.task].conn = loop.conn
    BY <1>1 DEF AgentInv, ReconcileHolds
  <2> PICK l \in Launches, t \in Tasks : l = loop.conn /\ t = loop.task
    BY <1>0, <1>1, LoopFields
  <2>2. agent'[l] = "gone"
    <3>1. launch[l].pc # "spawn"
      BY <2>1 DEF AgentInv, UnspawnedHasNone, Unspawned
    <3> QED BY <2>1, <3>1, EveryAgentMoves DEF AgentMove, Prompt
  <2>3. /\ row[t].seq \in Nat /\ row'[t].seq \in Nat /\ loop.seq \in Nat
    BY <1>0, <1>1, NatAssumption DEF TypeInv, RowInv, Row, Seqs, LoopState, Idle
  <2>4. \/ row'[t].seq > row[t].seq
        \/ /\ row'[t].seq = row[t].seq
           /\ row'[t].status \in Unlit => row[t].status \in Unlit
    BY EveryRowQuiet DEF RowsQuiet
  <2>5. ASSUME row'[t].seq = loop.seq, row'[t].status \in Live
        PROVE  row'[t].conn = loop.conn
    <3>1. row[t].seq = loop.seq /\ row[t].status \notin Unlit
      BY <2>1, <2>3, <2>4, <2>5
    <3>2. row[t].status \in Live
      BY <2>5, <3>1, LiveComes DEF StillExpected, Cas, Unlit, TypeInv
    <3> QED BY <2>1, <2>5, <3>1, <3>2, LiveStays
  <2> QED BY <1>1, <2>1, <2>2, <2>3, <2>4, <2>5
<1>2. ASSUME NEW t \in Tasks, ReconcileRead(t)
      PROVE  /\ agent'[loop'.conn] = "gone"
             /\ row'[loop'.task].seq >= loop'.seq
             /\ row'[loop'.task].seq = loop'.seq =>
                  /\ row'[loop'.task].status \notin Unlit
                  /\ row'[loop'.task].status \in Live
                       => row'[loop'.task].conn = loop'.conn
  <2>1. /\ row[t].status \in Live /\ agent[row[t].conn] = "gone"
        /\ loop'.conn = row[t].conn /\ loop'.task = t /\ loop'.seq = row[t].seq
        /\ UNCHANGED <<agent, row>>
    BY <1>2 DEF ReconcileRead
  <2>2. row[t].seq \in Nat BY SeqIsNat
  <2> QED BY <2>1, <2>2 DEF Live, Unlit
<1>3. ~TakeTurn /\ ~TurnRetire BY <1>0 DEF TakeTurn, TurnRetire, Idle, LoopState
<1> QED BY <1>1, <1>2, <1>3, LoopKeeps

\* The contexts of cancels stay until their cleanup.
LEMMA ContextStays ==
  ASSUME TypeInv, [Next]_vars, ~Crash, NEW c \in cancels
  PROVE  \/ \E d \in cancels' : d.conn = c.conn /\ d.seq = c.seq
         \/ CancelCleanup(c)
<1>1. CASE cancels \subseteq cancels' BY <1>1
<1>2. CASE KillStill BY <1>1, <1>2 DEF KillStill
<1>3. ASSUME NEW t \in Tasks, NEW l \in Launches, Return(t, l) \/ PumpNext(t, l)
      PROVE  cancels \subseteq cancels'
  BY <1>3 DEF Return, PumpNext
<1>4. ASSUME NEW l \in Launches, Forward(l) \/ Trouble(l) \/ SetupDone(l)
      PROVE  cancels \subseteq cancels'
  BY <1>4, LaunchMoves
<1>5. ASSUME NEW d \in cancels, CancelKill(d)
      PROVE  \E e \in cancels' : e.conn = c.conn /\ e.seq = c.seq
  <2>1. CASE d # c BY <1>5, <2>1 DEF CancelKill
  <2>2. CASE d = c
    <3>1. Cleanup(c) \in cancels' BY <1>5, <2>2 DEF CancelKill
    <3>2. Cleanup(c).conn = c.conn /\ Cleanup(c).seq = c.seq
      BY DEF Cleanup, TypeInv, ControlOK, Context
    <3> QED BY <3>1, <3>2
  <2> QED BY <2>1, <2>2
<1>6. ASSUME NEW d \in cancels, CancelCleanup(d)
      PROVE  (\E e \in cancels' : e.conn = c.conn /\ e.seq = c.seq) \/ CancelCleanup(c)
  BY <1>6 DEF CancelCleanup
<1> QED BY <1>1, <1>2, <1>3, <1>4, <1>5, <1>6, KillOthers DEF CancelStep

\* A cleanup disconnects the agent its context names.
LEMMA CleanupStops ==
  ASSUME TypeInv, AgentInv, NEW c \in cancels, CancelCleanup(c), NEW l \in Launches,
         c.conn = l, c.seq = SeqOf(l), Working(l)
  PROVE  ~Working(l)'
<1>1. l \in index BY DEF AgentInv, WorkingIsKnown
<1>2. Owns(c) BY <1>1 DEF Owns, SeqOf
<1>3. Drop(l) BY <1>2 DEF CancelCleanup
<1> QED BY <1>3, DropMove DEF Working

\* A connection that keeps working keeps its row or its cancel.
LEMMA AccountedStays ==
  ASSUME TypeInv, TypeInv', GenInv, Unbooted, AgentInv, [Next]_vars, ~Crash,
         NEW l \in Launches, Working(l), Working(l)'
  PROVE  Accounted(l)'
<1> DEFINE t == TaskOf(l)
<1>0. t \in Tasks BY TaskOfType
<1>1. Lit(l) BY DEF Working, Lit, AgentInv, BusyIsPrompted
<1>2. launch'[l].seq = launch[l].seq
  <2>1. launch[l].pc \notin {"free", "lock"} BY <1>1 DEF Lit, GenInv, PromptedReturned
  <2> QED BY <2>1, SeqStays
<1>3. ASSUME NEW c \in cancels, c.conn = l, c.seq = SeqOf(l) PROVE Accounted(l)'
  <2>1. ~CancelCleanup(c) BY <1>3, CleanupStops
  <2>2. PICK d \in cancels' : d.conn = c.conn /\ d.seq = c.seq BY <2>1, ContextStays
  <2> QED BY <1>2, <1>3, <2>2 DEF Accounted, SeqOf
<1>4. ASSUME row[t].status \in Live, row[t].seq = launch[l].seq, row[t].conn = l
      PROVE  Accounted(l)'
  <2>1. CASE row'[t].status \in Live
    <3>1. row'[t].seq = row[t].seq /\ row'[t].conn = row[t].conn
      BY <1>0, <1>4, <2>1, LiveStays
    <3> QED BY <1>2, <1>4, <2>1, <3>1 DEF Accounted, Cas, SeqOf, TaskOf
  <2>2. CASE Cancel(t)
    <3>1. Frozen(t) \in cancels' BY <2>2 DEF Cancel
    <3>2. Frozen(t).conn = l /\ Frozen(t).seq = launch'[l].seq
      BY <1>2, <1>4 DEF Frozen
    <3> QED BY <3>1, <3>2 DEF Accounted, SeqOf
  <2>3. ASSUME TurnSettle, t = TaskOf(loop.conn), Cas(t, Live, loop.seq) PROVE FALSE
    <3>0. loop \in LoopState BY DEF TypeInv, ControlOK
    <3> PICK m \in Launches : m = loop.conn BY <2>3, <3>0, LoopFields DEF TurnSettle
    <3>1. Stopped(m) /\ launch[m].seq = loop.seq
      BY <2>3 DEF TurnSettle, AgentInv, LoopTurnIsOver, SeqOf
    <3>2. Lit(m) /\ TaskOf(m) = t /\ launch[m].seq = launch[l].seq
      BY <1>4, <2>3, <3>1 DEF Stopped, Lit, Cas
    <3>3. m = l BY <1>1, <3>2 DEF GenInv, LitApart
    <3> QED BY <3>1, <3>3 DEF Stopped, Working
  <2>4. ASSUME ReconcileSettle, t = loop.task, Cas(t, Live, loop.seq) PROVE FALSE
    <3>1. agent[loop.conn] = "gone" /\ row[t].conn = loop.conn
      BY <2>4 DEF ReconcileSettle, AgentInv, ReconcileHolds, Cas
    <3> QED BY <1>4, <3>1 DEF Working
  <2>5. ~Boot BY DEF Boot, Unbooted, Working
  <2> QED BY <1>0, <1>4, <2>1, <2>2, <2>3, <2>4, <2>5, EveryRowMoves
        DEF RowMoves, Still, Live, Unlit, StillExpected, Cas, AbandonSetup
<1>5. Accounted(l) BY DEF AgentInv, WorkingIsAccounted
<1> QED BY <1>3, <1>4, <1>5 DEF Accounted, Cas, SeqOf

\* A connection that begins to work has its row: mark_running has just named it.
LEMMA AccountedNext ==
  ASSUME TypeInv, TypeInv', GenInv, Unbooted, AgentInv, [Next]_vars, ~Crash
  PROVE  WorkingIsAccounted'
<1> SUFFICES ASSUME NEW l \in Launches, Working(l)' PROVE Accounted(l)'
  BY DEF WorkingIsAccounted
<1>1. CASE Working(l) BY <1>1, AccountedStays
<1>2. CASE ~Working(l)
  <2>1. agent'[l] # "busy"
    BY <1>2, EveryAgentMoves DEF AgentMove, Working, Prompt, At
  <2>2. launch'[l].pc = "prompt" /\ agent'[l] = "up" BY <2>1 DEF Working
  <2>3. agent[l] = "up" BY <2>2, EveryAgentMoves DEF AgentMove
  <2>4. launch[l].pc # "prompt" BY <1>2, <2>3 DEF Working
  <2>5. Forward(l) \/ Trouble(l) \/ SetupDone(l) BY <2>2, <2>4, EveryLaunchMoves
  <2>6. Mark(l) /\ StillExpected(l) BY <2>2, <2>5, PcComes
  <2>7. launch'[l].seq = launch[l].seq BY <2>6, SeqStays DEF Mark, At
  <2>8. /\ row'[TaskOf(l)].status = "running" /\ row'[TaskOf(l)].conn = l
        /\ row'[TaskOf(l)].seq = launch[l].seq
    BY <2>6, TaskOfType
       DEF Mark, GoLive, StillExpected, Cas, SeqOf, TypeInv, RowInv, Row
  <2> QED BY <2>7, <2>8 DEF Accounted, Cas, SeqOf, TaskOf, Live
<1> QED BY <1>1, <1>2

\* AgentInv is inductive relative to types, generations and boot.
LEMMA AgentNext ==
  ASSUME TypeInv, TypeInv', GenInv, Unbooted, AgentInv, [Next]_vars PROVE AgentInv'
<1>1. CASE Crash BY <1>1, AgentCrash
<1>2. CASE ~Crash
  BY <1>2, UnspawnedNext, BusyNext, KnownNext, TurnsNext, LoopTurnNext, ReconcileNext,
     AccountedNext DEF AgentInv
<1> QED BY <1>1, <1>2

\* Every agent that works, or is about to, is accounted for by a live row or by the
\* context of a cancel, with what this rests on.
THEOREM AgentInvariant == Spec => []AgentInv
<1>1. TypeInv /\ TypeInv' /\ GenInv /\ Unbooted /\ AgentInv /\ [Next]_vars => AgentInv'
  BY AgentNext
<1> QED BY AgentInit, TypeInvariant, GenInvariant, BootInvariant, <1>1, PTL DEF Spec

\* No agent works for nobody: whoever cancels, fails, crashes or settles meanwhile,
\* an agent with a turn under way is named by the live row of its generation, or a
\* cancel with its connection is on its way to disconnect it (cancel_task, launch,
\* on_turn_complete, reconcile_once).
THEOREM NobodyOrphaned == Spec => []NoOrphanAgent
<1>1. AgentInv => NoOrphanAgent
  BY DEF AgentInv, WorkingIsAccounted, Working, Accounted, NoOrphanAgent
<1> QED BY AgentInvariant, <1>1, PTL
=============================================================================
