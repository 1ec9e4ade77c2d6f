----------------------- MODULE WorkTaskGenerationProofs -----------------------
(***************************************************************************)
(* A generation is prompted once, for every number of tasks, launches,     *)
(* generations, crashes and faults.                                        *)
(*                                                                         *)
(* OnePromptPerGeneration is not inductive: it says nothing of a launch    *)
(* that is about to prompt, nor why no other launch can follow it there.   *)
(* GenInv adds both.  A launch is lit from the moment mark_running has made*)
(* its row live; its generation is then at most the row's, and when it is  *)
(* the row's own, the row can no longer be queued or preparing in that     *)
(* generation, so that mark_running cannot succeed a second time.          *)
(***************************************************************************)
EXTENDS WorkTaskEngineProofs

USE DEF db, procs, conns, memory, control, history

Lit(l) == l \in prompted \/ launch[l].pc = "prompt"
Unlit == {"queued", "preparing"}

\* A launch whose prompt was sent has returned and stays so.
PromptedReturned == \A l \in prompted : launch[l].pc \in {"release", "over"}

\* The generation of a lit launch is past, or its row has left the setup.
LitIsPastSetup ==
  \A l \in Launches : Lit(l) =>
    /\ launch[l].seq <= row[TaskOf(l)].seq
    /\ launch[l].seq = row[TaskOf(l)].seq => row[TaskOf(l)].status \notin Unlit

\* Two lit launches of a task are of different generations.
LitApart ==
  \A l, m \in Launches :
    Lit(l) /\ Lit(m) /\ l # m /\ TaskOf(l) = TaskOf(m) => launch[l].seq # launch[m].seq

GenInv == PromptedReturned /\ LitIsPastSetup /\ LitApart

\* A row whose generation rises, or that keeps it and does not return to setup.
RowsQuiet ==
  \A t \in Tasks :
    \/ row'[t].seq > row[t].seq
    \/ /\ row'[t].seq = row[t].seq
       /\ row'[t].status \in Unlit => row[t].status \in Unlit

\* No launch becomes lit, and the lit ones keep their generation.
LaunchesQuiet ==
  /\ \A l \in Launches : Lit(l)' => Lit(l) /\ launch'[l].seq = launch[l].seq
  /\ \A l \in prompted' : launch'[l].pc \in {"release", "over"}

Quiet == RowsQuiet /\ LaunchesQuiet

\* Generations are numbers.
LEMMA SeqIsNat ==
  ASSUME TypeInv
  PROVE  /\ \A t \in Tasks : row[t].seq \in Nat
         /\ \A l \in Launches : launch[l].seq \in Nat
BY NatAssumption DEF TypeInv, RowInv, LaunchInv, Row, Launch, Seqs

\* A quiet step preserves the invariant.
LEMMA QuietStep == ASSUME TypeInv, TypeInv', GenInv, Quiet PROVE GenInv'
<1>1. PromptedReturned' BY DEF Quiet, LaunchesQuiet, PromptedReturned
<1>2. LitIsPastSetup'
  <2> SUFFICES ASSUME NEW l \in Launches, Lit(l)'
               PROVE  /\ launch'[l].seq <= row'[TaskOf(l)].seq
                      /\ launch'[l].seq = row'[TaskOf(l)].seq
                           => row'[TaskOf(l)].status \notin Unlit
    BY DEF LitIsPastSetup, TaskOf
  <2>1. Lit(l) /\ launch'[l].seq = launch[l].seq BY DEF Quiet, LaunchesQuiet
  <2>2. /\ launch[l].seq <= row[TaskOf(l)].seq
        /\ launch[l].seq = row[TaskOf(l)].seq => row[TaskOf(l)].status \notin Unlit
    BY <2>1 DEF GenInv, LitIsPastSetup
  <2>3. TaskOf(l) \in Tasks BY TaskOfType
  <2>4. /\ launch[l].seq \in Nat /\ row[TaskOf(l)].seq \in Nat
        /\ row'[TaskOf(l)].seq \in Nat
    BY <2>3, SeqIsNat DEF TypeInv, RowInv, Row, Seqs
  <2> QED BY <2>1, <2>2, <2>3, <2>4 DEF Quiet, RowsQuiet
<1>3. LitApart' BY DEF Quiet, LaunchesQuiet, GenInv, LitApart, TaskOf
<1> QED BY <1>1, <1>2, <1>3 DEF GenInv

\* The invariant holds of a board of tasks to do.
LEMMA GenInit == Init => GenInv
BY DEF Init, GenInv, PromptedReturned, LitIsPastSetup, LitApart, Lit

\* A launch that moves, but not to its prompt, and was not prompted or returns.
LEMMA MoveQuiet ==
  ASSUME TypeInv, GenInv, NEW l \in Launches, UNCHANGED prompted,
         launch[l].pc \notin {"release", "over"} \/ launch'[l].pc \in {"release", "over"},
         launch'[l].pc # "prompt",
         launch'[l].seq = launch[l].seq \/ ~Lit(l),
         \A m \in Launches : m # l => launch'[m] = launch[m]
  PROVE  LaunchesQuiet
BY DEF TypeInv, HistoryOK, GenInv, PromptedReturned, Lit, LaunchesQuiet

\* Nothing of the launches changes.
LEMMA StillQuiet ==
  ASSUME TypeInv, GenInv, UNCHANGED <<launch, prompted>> PROVE LaunchesQuiet
BY DEF TypeInv, HistoryOK, GenInv, PromptedReturned, Lit, LaunchesQuiet

\* Nothing of the generations changes.
LEMMA RowsStill == ASSUME TypeInv, UNCHANGED row PROVE RowsQuiet
BY DEF RowsQuiet

\* A claim opens a generation.
LEMMA ClaimQuiet ==
  ASSUME TypeInv, NEW t \in Tasks, NEW from, Claim(t, from) PROVE RowsQuiet
BY SeqIsNat DEF TypeInv, RowInv, Row, Claim, RowsQuiet

\* A run that ends does not go back to its setup.
LEMMA EndRunQuiet ==
  ASSUME TypeInv, NEW t \in Tasks, CancelRow(t) \/ FailRow(t) \/ SettleReview(t)
  PROVE  RowsQuiet
BY DEF TypeInv, RowInv, Row, CancelRow, FailRow, SettleReview, RowsQuiet, Unlit

\* A launch that returns without having prompted.
LEMMA LeaveQuiet ==
  ASSUME TypeInv, GenInv, NEW l \in Launches, Leave(l) \/ Err(l), UNCHANGED prompted,
         launch[l].pc \notin {"release", "over"}
  PROVE  LaunchesQuiet
<1>1. /\ launch'[l].pc \in {"release", "fail"} /\ launch'[l].seq = launch[l].seq
      /\ \A m \in Launches : m # l => launch'[m] = launch[m]
  BY DEF TypeInv, LaunchInv, Launch, Leave, Err, GoTo
<1> QED BY <1>1, MoveQuiet

\* A launch that goes on, short of its prompt.
LEMMA GoToQuiet ==
  ASSUME TypeInv, GenInv, NEW l \in Launches, NEW pc, GoTo(l, pc), UNCHANGED prompted,
         pc # "prompt", launch[l].pc \notin {"release", "over"}
  PROVE  LaunchesQuiet
<1>1. /\ launch'[l].pc = pc /\ launch'[l].seq = launch[l].seq
      /\ \A m \in Launches : m # l => launch'[m] = launch[m]
  BY DEF TypeInv, LaunchInv, Launch, GoTo
<1> QED BY <1>1, MoveQuiet

\* mark_running: the one step that lights a launch.
LEMMA MarkGen ==
  ASSUME TypeInv, TypeInv', GenInv, NEW l \in Launches, Mark(l) PROVE GenInv'
<1> DEFINE t == TaskOf(l)
<1>0. t \in Tasks BY TaskOfType
<1>1. CASE StillExpected(l)
  <2>1. /\ row[t].status = "preparing" /\ row[t].seq = launch[l].seq
        /\ row'[t].status = "running" /\ row'[t].seq = row[t].seq
        /\ \A u \in Tasks : u # t => row'[u] = row[u]
    BY <1>0, <1>1 DEF TypeInv, RowInv, Row, Mark, GoLive, StillExpected, Cas, SeqOf
  <2>2. /\ launch[l].pc = "mark" /\ launch'[l].pc = "prompt"
        /\ launch'[l].seq = launch[l].seq
        /\ \A m \in Launches : m # l => launch'[m] = launch[m]
        /\ prompted' = prompted
    BY <1>1 DEF TypeInv, LaunchInv, Launch, Mark, GoTo, At
  <2>3. ~Lit(l) BY <2>2 DEF GenInv, PromptedReturned, Lit
  <2>4. \A m \in Launches : m # l => (Lit(m)' <=> Lit(m)) BY <2>2 DEF Lit
  <2>5. \A m \in Launches : Lit(m) /\ TaskOf(m) = t => launch[m].seq < row[t].seq
    BY <1>0, <2>1, SeqIsNat DEF GenInv, LitIsPastSetup, Unlit
  <2>6. PromptedReturned'
    BY <2>2, <2>3 DEF GenInv, PromptedReturned, Lit, TypeInv, HistoryOK
  <2>7. LitIsPastSetup'
    BY <1>0, <2>1, <2>2, <2>4, SeqIsNat, TaskOfType
       DEF GenInv, LitIsPastSetup, Unlit, TaskOf
  <2>8. LitApart'
    <3>1. \A m \in Launches : Lit(m) /\ TaskOf(m) = t => launch[m].seq # launch[l].seq
      BY <1>0, <2>1, <2>5, SeqIsNat
    <3> SUFFICES ASSUME NEW m \in Launches, NEW k \in Launches, Lit(m)', Lit(k)', m # k,
                        TaskOf(m) = TaskOf(k)
                 PROVE  launch'[m].seq # launch'[k].seq
      BY DEF LitApart, TaskOf
    <3>2. CASE m # l /\ k # l BY <2>2, <2>4, <3>2 DEF GenInv, LitApart
    <3>3. CASE m = l BY <2>2, <2>4, <3>1, <3>3
    <3>4. CASE k = l BY <2>2, <2>4, <3>1, <3>4
    <3> QED BY <3>2, <3>3, <3>4
  <2> QED BY <2>6, <2>7, <2>8 DEF GenInv
<1>2. CASE ~StillExpected(l)
  <2>1. RowsQuiet BY <1>2 DEF Mark, RowsQuiet
  <2>2. LaunchesQuiet BY <1>2, LeaveQuiet DEF Mark, At
  <2> QED BY <2>1, <2>2, QuietStep DEF Quiet
<1> QED BY <1>1, <1>2

\* The user's requests are quiet.
LEMMA UserGen == ASSUME TypeInv, GenInv, User PROVE Quiet
<1> USE DEF Quiet
<1> PICK t \in Tasks : \/ Start(t) \/ Retry(t) \/ Cancel(t) \/ Requeue(t) \/ Accept(t)
                       \/ \E l \in Launches : Return(t, l)
  BY DEF User
<1>1. CASE Start(t) \/ Retry(t)
  BY <1>1, ClaimQuiet, StillQuiet DEF Start, Retry
<1>2. CASE Cancel(t)
  BY <1>2, EndRunQuiet, StillQuiet DEF Cancel
<1>3. CASE Requeue(t) \/ Accept(t)
  <2>1. RowsQuiet
    BY <1>3 DEF TypeInv, RowInv, Row, Requeue, Accept, RowsQuiet, Unlit
  <2> QED BY <1>3, <2>1, StillQuiet DEF Requeue, Accept
<1>4. ASSUME NEW l \in Launches, Return(t, l) PROVE Quiet
  <2>1. GoTo(l, "slot") /\ launch[l].pc = "free" BY <1>4 DEF Return, GoTo, Fresh
  <2> QED BY <1>4, <2>1, ClaimQuiet, GoToQuiet DEF Return
<1> QED BY <1>1, <1>2, <1>3, <1>4

\* The cleanups of cancels are quiet.
LEMMA CancelStepGen ==
  ASSUME TypeInv, GenInv, NEW c \in cancels, CancelStep(c) PROVE Quiet
BY RowsStill, StillQuiet DEF CancelStep, CancelKill, CancelCleanup, Quiet

\* The pump is quiet.
LEMMA PumpStepGen == ASSUME TypeInv, GenInv, PumpStep PROVE Quiet
<1> USE DEF Quiet
<1>1. CASE PumpStart \/ PumpAutoDone \/ PumpEmpty
  BY <1>1, RowsStill, StillQuiet DEF PumpStart, PumpAutoDone, PumpEmpty
<1>2. ASSUME NEW t \in Tasks, PumpAutoClaim(t) PROVE Quiet
  BY <1>2, ClaimQuiet, StillQuiet DEF PumpAutoClaim
<1>3. ASSUME NEW t \in Tasks, NEW l \in Launches, PumpNext(t, l) PROVE Quiet
  <2>1. GoTo(l, "lock") /\ launch[l].pc = "free" BY <1>3 DEF PumpNext, GoTo, Fresh
  <2> QED BY <1>3, <2>1, RowsStill, GoToQuiet DEF PumpNext
<1> QED BY <1>1, <1>2, <1>3 DEF PumpStep

\* A launch is quiet, except when mark_running succeeds.
LEMMA ForwardGen ==
  ASSUME TypeInv, GenInv, NEW l \in Launches, Forward(l), ~Mark(l) PROVE Quiet
<1> USE TaskOfType DEF At, SeqOf, Quiet
<1>1. CASE ClaimSlot(l) \/ EnterStale(l) \/ Gate(l) \/ StartInit(l) \/ InitKilled(l)
           \/ Compose(l)
  <2>1. RowsQuiet
    BY <1>1, RowsStill
       DEF ClaimSlot, EnterStale, Gate, StartInit, InitKilled, Compose
  <2>2. LaunchesQuiet
    BY <1>1, GoToQuiet, LeaveQuiet
       DEF ClaimSlot, EnterStale, Gate, StartInit, InitKilled, Compose
  <2> QED BY <2>1, <2>2
<1>2. CASE Enter(l)
  <2>1. launch[l].pc = "lock" /\ ~Lit(l)
    BY <1>2 DEF Enter, GenInv, PromptedReturned, Lit
  <2>2. /\ launch'[l].pc = "begin"
        /\ \A m \in Launches : m # l => launch'[m] = launch[m]
    BY <1>2 DEF Enter, TypeInv, LaunchInv, Launch
  <2> QED BY <1>2, <2>1, <2>2, RowsStill, MoveQuiet DEF Enter
<1>3. CASE BeginSetup(l) \/ Bind(l)
  <2>1. RowsQuiet
    BY <1>3 DEF TypeInv, RowInv, Row, BeginSetup, Bind, Cas, RowsQuiet, Unlit
  <2>2. LaunchesQuiet BY <1>3, GoToQuiet, LeaveQuiet DEF BeginSetup, Bind
  <2> QED BY <2>1, <2>2
<1>4. CASE Spawn(l)
  <2>1. CASE Leave(l)
    BY <1>4, <2>1, RowsStill, LeaveQuiet DEF Spawn
  <2>2. CASE ~Leave(l)
    <3>1. /\ launch[l].pc = "spawn" /\ launch'[l].pc \in {"bind", "compose"}
          /\ launch'[l].seq = launch[l].seq
          /\ \A m \in Launches : m # l => launch'[m] = launch[m]
      BY <1>4, <2>2 DEF Spawn, TypeInv, LaunchInv, Launch
    <3> QED BY <1>4, <3>1, RowsStill, MoveQuiet DEF Spawn
  <2> QED BY <2>1, <2>2
<1>5. CASE Prompt(l)
  <2>1. /\ launch[l].pc = "prompt" /\ launch'[l].pc = "release"
        /\ launch'[l].seq = launch[l].seq
        /\ \A m \in Launches : m # l => launch'[m] = launch[m]
        /\ prompted' = prompted \cup {l}
    BY <1>5 DEF Prompt, Leave, GoTo, TypeInv, LaunchInv, Launch
  <2>2. LaunchesQuiet
    BY <2>1 DEF TypeInv, HistoryOK, GenInv, PromptedReturned, Lit, LaunchesQuiet
  <2> QED BY <1>5, <2>2, RowsStill DEF Prompt
<1>6. CASE Fail(l)
  <2>1. RowsQuiet BY <1>6, EndRunQuiet, RowsStill DEF Fail
  <2>2. /\ launch[l].pc = "fail" /\ launch'[l].pc = "release"
        /\ launch'[l].seq = launch[l].seq
        /\ \A m \in Launches : m # l => launch'[m] = launch[m]
    BY <1>6 DEF Fail, TypeInv, LaunchInv, Launch
  <2> QED BY <1>6, <2>1, <2>2, MoveQuiet DEF Fail
<1>7. CASE Release(l)
  <2>1. /\ launch'[l].pc = "over" /\ launch'[l].seq = launch[l].seq
        /\ \A m \in Launches : m # l => launch'[m] = launch[m]
    BY <1>7 DEF Release, TypeInv, LaunchInv, Launch
  <2> QED BY <1>7, <2>1, RowsStill, MoveQuiet DEF Release
<1> QED BY <1>1, <1>2, <1>3, <1>4, <1>5, <1>6, <1>7 DEF Forward

\* So is a launch in trouble.
LEMMA TroubleGen ==
  ASSUME TypeInv, GenInv, NEW l \in Launches, Trouble(l) \/ SetupDone(l) PROVE Quiet
<1> USE DEF At, Quiet
<1>1. RowsQuiet
  BY RowsStill DEF Trouble, EnterRefused, SetupFailed, SpawnFailed, ComposeFailed,
                   MarkFailed, PromptRefused, SendFailed, FailFailed, SetupDone
<1>2. CASE EnterRefused(l)
  <2>1. launch[l].pc = "lock" /\ ~Lit(l)
    BY <1>2 DEF EnterRefused, GenInv, PromptedReturned, Lit
  <2>2. /\ launch'[l].pc = "fail"
        /\ \A m \in Launches : m # l => launch'[m] = launch[m]
    BY <1>2 DEF EnterRefused, TypeInv, LaunchInv, Launch
  <2> QED BY <1>1, <1>2, <2>1, <2>2, MoveQuiet DEF EnterRefused
<1>3. CASE SetupFailed(l) \/ SpawnFailed(l) \/ ComposeFailed(l) \/ MarkFailed(l)
           \/ PromptRefused(l) \/ SendFailed(l)
  BY <1>1, <1>3, LeaveQuiet
     DEF SetupFailed, SpawnFailed, ComposeFailed, MarkFailed, PromptRefused, SendFailed
<1>4. CASE FailFailed(l)
  <2>1. /\ launch[l].pc = "fail" /\ launch'[l].pc = "release"
        /\ launch'[l].seq = launch[l].seq
        /\ \A m \in Launches : m # l => launch'[m] = launch[m]
    BY <1>4 DEF FailFailed, TypeInv, LaunchInv, Launch
  <2> QED BY <1>1, <1>4, <2>1, MoveQuiet DEF FailFailed
<1>5. CASE SetupDone(l)
  BY <1>1, <1>5, GoToQuiet DEF SetupDone
<1> QED BY <1>2, <1>3, <1>4, <1>5 DEF Trouble

\* So are the agents and the lifecycle workers.
LEMMA AgentGen ==
  ASSUME TypeInv, GenInv, NEW l \in Launches,
         AgentStep(l) \/ WorkerTurn(l) \/ WorkerGone(l)
  PROVE  Quiet
<1>1. LaunchesQuiet
  BY StillQuiet DEF AgentStep, AgentDie, IdleSweep, AgentReports, AgentAsk, UserAnswers,
                    AgentEnd, WorkerTurn, WorkerGone
<1>2. RowsQuiet
  <2>1. CASE \E v \in Verdicts : AgentReports(l, v)
    BY <2>1 DEF TypeInv, RowInv, Row, AgentReports, RowsQuiet
  <2>2. CASE ~\E v \in Verdicts : AgentReports(l, v)
    BY <2>2, RowsStill DEF AgentStep, AgentDie, IdleSweep, AgentAsk, UserAnswers,
                           AgentEnd, WorkerTurn, WorkerGone
  <2> QED BY <2>1, <2>2
<1> QED BY <1>1, <1>2 DEF Quiet

\* So are the event loop and reconcile: an abandoned setup goes back to the queue
\* from preparing, where no lit launch is of its generation.
LEMMA LoopGen == ASSUME TypeInv, GenInv, LoopStep PROVE Quiet
<1> USE TaskOfType
<1>0. loop \in LoopState BY DEF TypeInv, ControlOK
<1>1. LaunchesQuiet
  BY StillQuiet DEF LoopStep, EventStep, TakeTurn, TurnRetire, TurnSettle, TakeRequest,
                    Flip, ReconcileSettle, ReconcilePump, ReconcileRead, AbandonSetup
<1>2. RowsQuiet
  <2>1. CASE TakeTurn \/ TurnRetire \/ TakeRequest \/ ReconcilePump
             \/ \E t \in Tasks : ReconcileRead(t)
    BY <2>1, RowsStill DEF TakeTurn, TurnRetire, TakeRequest, ReconcilePump, ReconcileRead
  <2>2. CASE TurnSettle
    <3>1. TaskOf(loop.conn) \in Tasks BY <1>0, <2>2, LoopFields DEF TurnSettle
    <3> QED BY <2>2, <3>1, EndRunQuiet, RowsStill DEF TurnSettle, SettleWith
  <2>3. CASE Flip
    <3>1. loop.task \in Tasks BY <1>0, <2>3, LoopFields DEF Flip
    <3> QED BY <2>3, <3>1 DEF TypeInv, RowInv, Row, Flip, RowsQuiet, Unlit
  <2>4. CASE ReconcileSettle
    <3>1. loop.task \in Tasks BY <1>0, <2>4, LoopFields DEF ReconcileSettle
    <3> QED BY <2>4, <3>1, EndRunQuiet, RowsStill DEF ReconcileSettle
  <2>5. CASE \E t \in Tasks : AbandonSetup(t)
    BY <2>5 DEF TypeInv, RowInv, Row, AbandonSetup, RowsQuiet, Unlit
  <2> QED BY <2>1, <2>2, <2>3, <2>4, <2>5 DEF LoopStep, EventStep
<1> QED BY <1>1, <1>2 DEF Quiet

\* So are lost events, crashes and boots.
LEMMA EnvironmentGen == ASSUME TypeInv, GenInv, Lag \/ Crash \/ Boot PROVE Quiet
<1>1. CASE Lag BY <1>1, RowsStill, StillQuiet DEF Lag, Quiet
<1>2. CASE Crash
  <2>1. \A l \in Launches :
          /\ launch'[l].seq = launch[l].seq
          /\ launch[l].pc # "free" => launch'[l].pc = "over"
          /\ launch[l].pc = "free" => launch'[l].pc = "free"
    BY <1>2 DEF Crash, TypeInv, LaunchInv, Launch
  <2>2. LaunchesQuiet
    BY <1>2, <2>1 DEF Crash, TypeInv, HistoryOK, GenInv, PromptedReturned, Lit,
                      LaunchesQuiet
  <2> QED BY <1>2, <2>2, RowsStill DEF Crash, Quiet
<1>3. CASE Boot
  <2>1. RowsQuiet BY <1>3 DEF Boot, TypeInv, RowInv, Row, RowsQuiet, Unlit
  <2> QED BY <1>3, <2>1, StillQuiet DEF Boot, Quiet
<1> QED BY <1>1, <1>2, <1>3

\* Every step preserves the invariant.
LEMMA GenNext == TypeInv /\ TypeInv' /\ GenInv /\ [Next]_vars => GenInv'
<1> SUFFICES ASSUME TypeInv, TypeInv', GenInv, [Next]_vars PROVE GenInv' OBVIOUS
<1>1. CASE UNCHANGED vars
  BY <1>1, RowsStill, StillQuiet, QuietStep DEF vars, Quiet
<1>2. ASSUME NEW l \in Launches, Mark(l) PROVE GenInv' BY <1>2, MarkGen
<1>3. CASE Next /\ ~\E l \in Launches : Mark(l)
  <2>1. Quiet
    BY <1>3, UserGen, CancelStepGen, PumpStepGen, ForwardGen, TroubleGen, AgentGen,
       LoopGen, EnvironmentGen DEF Next
  <2> QED BY <2>1, QuietStep
<1> QED BY <1>1, <1>2, <1>3

\* The invariant holds throughout.
THEOREM GenInvariant == Spec => []GenInv
<1>1. TypeInv /\ TypeInv' /\ GenInv /\ [Next]_vars => GenInv' BY GenNext
<1> QED BY GenInit, TypeInvariant, <1>1, PTL DEF Spec

\* No two launches ever prompt agents for the same generation of a task: run_seq,
\* bumped by every claim and compared by every conditional write, fences off the
\* launches of abandoned, cancelled and crashed setups, however many there are.
THEOREM PromptedOnce == Spec => []OnePromptPerGeneration
<1>1. TypeInv /\ GenInv => OnePromptPerGeneration
  BY DEF TypeInv, HistoryOK, GenInv, LitApart, Lit, OnePromptPerGeneration
<1> QED BY TypeInvariant, GenInvariant, <1>1, PTL
=============================================================================
