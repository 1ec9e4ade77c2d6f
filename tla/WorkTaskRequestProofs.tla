------------------------ MODULE WorkTaskRequestProofs ------------------------
(***************************************************************************)
(* The board tells the truth about who is waiting, for every number of     *)
(* tasks, launches, generations, requests, crashes and faults.             *)
(*                                                                         *)
(* AwaitingIsAccurate speaks of a run whose events are consumed and says   *)
(* nothing on the way there.  RequestInv follows each request from its     *)
(* agent over the bus into the engine's set, and the set through the flip  *)
(* into the row:                                                           *)
(*   - a request is published once and answered after that, so that what   *)
(*     the set has of it can be read off the request's state and the bus   *)
(*     (RequestsAreTold);                                                  *)
(*   - the row reads awaiting when the set of its run is not empty, except *)
(*     between the two halves of a flip (RowsTell);                        *)
(*   - sets and flips are of runs that were prompted (SetsArePrompted), so *)
(*     that a new run starts with an empty set and the events of the       *)
(*     latest run are not dropped as stale.                                *)
(* It holds of runs that are their task's latest: the engine drops the     *)
(* requests of an older one.                                               *)
(***************************************************************************)
EXTENDS WorkTaskSafetyProofs

USE DEF db, procs, conns, memory, control, history

----------------------------------------------------------------------------
(* The board and the requests: what the table, the engine's set and the bus *)
(* say of what an agent waits for                                           *)

Request(y, l, k) == [type |-> y, conn |-> l, key |-> k]

Holds(s, e) == \E i \in 1..Len(s) : s[i] = e
Single(s, e) == \A i, j \in 1..Len(s) : s[i] = e /\ s[j] = e => i = j
Before(s, e, f) == \A i, j \in 1..Len(s) : s[i] = e /\ s[j] = f => i < j

\* What the engine has of a run's requests.
View(l) == IF awaiting[TaskOf(l)].seq = SeqOf(l) THEN awaiting[TaskOf(l)].keys ELSE {}

\* Requests come from prompted agents, and no set or flip is of another run.
RequestsArePrompted ==
  \A i \in 1..Len(bus) : bus[i].type # "turn" => bus[i].conn \in prompted
UnpromptedIsQuiet == \A l \in Launches : l \notin prompted => asks[l] = [k \in Keys |-> "no"]
IsRun(t, s) == \E m \in prompted : TaskOf(m) = t /\ SeqOf(m) = s
SetsArePrompted ==
  /\ \A t \in Tasks : /\ IsFiniteSet(awaiting[t].keys)
                      /\ awaiting[t].seq # 0 => IsRun(t, awaiting[t].seq)
  /\ loop.pc = "flip" => IsRun(loop.task, loop.seq)

\* A live row names a launch of its task and its generation.
LiveNamesItsRun ==
  \A t \in Tasks : row[t].status \in Live =>
    /\ TaskOf(row[t].conn) = t /\ SeqOf(row[t].conn) = row[t].seq
    /\ launch[row[t].conn].pc \notin Unspawned

\* A request of the current run is on its way, or the set has it; and its
\* answer follows it.
Told(l, k) ==
  LET ask == Request("ask", l, k)
      answer == Request("answer", l, k)
  IN /\ Single(bus, ask) /\ Single(bus, answer) /\ Before(bus, ask, answer)
     /\ asks[l][k] = "no" => ~Holds(bus, ask) /\ ~Holds(bus, answer) /\ k \notin View(l)
     /\ asks[l][k] = "open" => ~Holds(bus, answer) /\ (k \in View(l) <=> ~Holds(bus, ask))
     /\ asks[l][k] = "closed" =>
          /\ Holds(bus, ask) => Holds(bus, answer) /\ k \notin View(l)
          /\ ~Holds(bus, ask) => (k \in View(l) <=> Holds(bus, answer))
RequestsAreTold ==
  \A l \in Launches : agent[l] = "busy" /\ SeqOf(l) = row[TaskOf(l)].seq =>
    \A k \in Keys : Told(l, k)

\* The row follows the set, but for the flip under way.
Flipping(l) == loop.pc = "flip" /\ loop.task = TaskOf(l) /\ loop.seq = SeqOf(l)
RowTells(l) ==
  IF Flipping(l)
  THEN /\ row[TaskOf(l)].status = IF loop.up THEN "running" ELSE "awaiting"
       /\ loop.up <=> View(l) # {}
  ELSE row[TaskOf(l)].status = "awaiting" <=> View(l) # {}
RowsTell ==
  \A l \in Launches : Working(l) /\ Cas(TaskOf(l), Live, SeqOf(l)) => RowTells(l)

RequestInv == /\ RequestsArePrompted /\ UnpromptedIsQuiet /\ SetsArePrompted
              /\ LiveNamesItsRun
              /\ ~lossy => RequestsAreTold /\ RowsTell

\* Publishing an event.
LEMMA AppendHolds ==
  ASSUME NEW S, NEW s \in Seq(S), NEW f \in S, NEW e
  PROVE  /\ Holds(Append(s, f), e) <=> Holds(s, e) \/ f = e
         /\ Single(s, e) /\ (f = e => ~Holds(s, e)) => Single(Append(s, f), e)
         /\ \A g : Before(s, e, g) /\ e # g /\ (f = e => ~Holds(s, g))
                     => Before(Append(s, f), e, g)
<1> DEFINE r == Append(s, f)
<1>1. /\ Len(s) \in Nat /\ Len(r) = Len(s) + 1 /\ r[Len(s) + 1] = f
      /\ \A i \in 1..Len(s) : r[i] = s[i]
  BY AppendProperties
<1>2. \A i \in 1..Len(r) : i \in 1..Len(s) \/ i = Len(s) + 1 BY <1>1
<1> HIDE DEF r
<1>3. Holds(r, e) <=> Holds(s, e) \/ f = e
  <2>1. ASSUME Holds(r, e) PROVE Holds(s, e) \/ f = e BY <1>1, <1>2, <2>1 DEF Holds
  <2>2. ASSUME Holds(s, e) PROVE Holds(r, e)
    <3>1. PICK i \in 1..Len(s) : s[i] = e BY <2>2 DEF Holds
    <3>2. i \in 1..Len(r) /\ r[i] = e BY <1>1, <3>1
    <3> QED BY <3>2 DEF Holds
  <2>3. ASSUME f = e PROVE Holds(r, e)
    <3>1. Len(s) + 1 \in 1..Len(r) BY <1>1
    <3> QED BY <1>1, <2>3, <3>1 DEF Holds
  <2> QED BY <2>1, <2>2, <2>3
<1>4. ASSUME Single(s, e), f = e => ~Holds(s, e) PROVE Single(r, e)
  BY <1>1, <1>2, <1>4 DEF Single, Holds
<1>5. ASSUME NEW g, Before(s, e, g), e # g, f = e => ~Holds(s, g) PROVE Before(r, e, g)
  BY <1>1, <1>2, <1>5 DEF Before, Holds
<1> QED BY <1>3, <1>4, <1>5 DEF r

\* Taking the first event.
LEMMA TailHolds ==
  ASSUME NEW S, NEW s \in Seq(S), s # <<>>, NEW e, Single(s, e)
  PROVE  /\ Holds(Tail(s), e) <=> Holds(s, e) /\ Head(s) # e
         /\ Single(Tail(s), e)
         /\ \A g : Before(s, e, g) => Before(Tail(s), e, g)
         /\ \A g : Before(s, e, g) /\ Head(s) = g => ~Holds(s, e)
<1> DEFINE r == Tail(s)
<1>1. /\ Len(s) \in Nat /\ Len(s) >= 1 /\ Len(r) = Len(s) - 1 /\ Head(s) = s[1]
      /\ \A i \in 1..Len(r) : r[i] = s[i + 1]
  BY HeadTailProperties
<1> HIDE DEF r
<1>2. \A i \in 1..Len(r) : i + 1 \in 1..Len(s) BY <1>1
<1>3. \A i \in 1..Len(s) : i = 1 \/ (i - 1 \in 1..Len(r) /\ r[i - 1] = s[i]) BY <1>1
<1>4. 1 \in 1..Len(s) BY <1>1
<1>5. Holds(r, e) <=> Holds(s, e) /\ Head(s) # e
  <2>1. ASSUME Holds(r, e) PROVE Holds(s, e) /\ Head(s) # e
    <3>1. PICK i \in 1..Len(r) : r[i] = e BY <2>1 DEF Holds
    <3>2. i + 1 \in 1..Len(s) /\ s[i + 1] = e BY <1>1, <1>2, <3>1
    <3>3. i + 1 # 1 BY <3>1
    <3> QED BY <1>1, <1>4, <3>2, <3>3 DEF Holds, Single
  <2>2. ASSUME Holds(s, e), Head(s) # e PROVE Holds(r, e)
    BY <1>1, <1>3, <2>2 DEF Holds
  <2> QED BY <2>1, <2>2
<1>6. Single(r, e)
  <2> SUFFICES ASSUME NEW i \in 1..Len(r), NEW j \in 1..Len(r), r[i] = e, r[j] = e
               PROVE  i = j
    BY DEF Single
  <2>1. i + 1 = j + 1 BY <1>1, <1>2 DEF Single
  <2> QED BY <1>1, <2>1
<1>7. ASSUME NEW g, Before(s, e, g) PROVE Before(r, e, g)
  <2> SUFFICES ASSUME NEW i \in 1..Len(r), NEW j \in 1..Len(r), r[i] = e, r[j] = g
               PROVE  i < j
    BY DEF Before
  <2>1. i + 1 < j + 1 BY <1>1, <1>2, <1>7 DEF Before
  <2> QED BY <1>1, <2>1
<1>8. ASSUME NEW g, Before(s, e, g), Head(s) = g PROVE ~Holds(s, e)
  BY <1>1, <1>4, <1>8 DEF Before, Holds
<1> QED BY <1>5, <1>6, <1>7, <1>8 DEF r

\* A request is raised or answered, or all are gone with a connection.
AsksMove(m) ==
  \/ asks'[m] = asks[m]
  \/ asks'[m] = [k \in Keys |-> "no"] /\ agent'[m] \notin {"up", "busy"}
  \/ \E k \in Keys : AgentAsk(m, k) \/ UserAnswers(m, k)

LEMMA DropAsks ==
  ASSUME TypeInv, NEW l \in Launches, Drop(l), NEW m \in Launches PROVE AsksMove(m)
<1>1. agent'[l] \notin {"up", "busy"} BY DropMove
<1> QED BY <1>1 DEF Drop, AsksMove, TypeInv, ConnsOK

LEMMA EveryAsksMove ==
  ASSUME TypeInv, AgentInv, [Next]_vars, ~Crash, NEW m \in Launches PROVE AsksMove(m)
<1>0. loop \in LoopState BY DEF TypeInv, ControlOK
<1>1. CASE UNCHANGED asks BY <1>1 DEF AsksMove
<1>2. CASE User \/ PumpStep \/ Lag \/ Boot \/ UNCHANGED vars
  BY <1>1, <1>2 DEF User, Start, Retry, Return, Cancel, Requeue, Accept, PumpStep,
       PumpStart, PumpAutoDone, PumpAutoClaim, PumpEmpty, PumpNext, Lag, Boot, vars
<1>3. ASSUME NEW c \in cancels, CancelStep(c) PROVE AsksMove(m)
  <2>1. CASE CancelCleanup(c) /\ Owns(c)
    <3>1. c.conn \in Launches BY <2>1 DEF Owns, TypeInv, MemoryOK
    <3> QED BY <2>1, <3>1, DropAsks DEF CancelCleanup
  <2> QED BY <1>1, <1>3, <2>1 DEF CancelStep, CancelKill, CancelCleanup
<1>4. ASSUME NEW l \in Launches, Forward(l) \/ Trouble(l) \/ SetupDone(l)
      PROVE  AsksMove(m)
  <2>1. UNCHANGED asks \/ Drop(l)
    BY <1>4 DEF Forward, Trouble, ClaimSlot, EnterStale, Enter, BeginSetup, Gate,
         StartInit, InitKilled, Spawn, Bind, Compose, Mark, Teardown, Prompt, Fail,
         Release, EnterRefused, SetupFailed, SpawnFailed, ComposeFailed, MarkFailed,
         PromptRefused, SendFailed, FailFailed, SetupDone
  <2> QED BY <1>1, <2>1, DropAsks
<1>5. ASSUME NEW l \in Launches, AgentStep(l) \/ WorkerTurn(l) \/ WorkerGone(l)
      PROVE  AsksMove(m)
  <2>1. CASE UNCHANGED asks \/ Drop(l) BY <1>1, <2>1, DropAsks
  <2>2. ASSUME NEW k \in Keys, AgentAsk(l, k) \/ UserAnswers(l, k) PROVE AsksMove(m)
    <3>1. CASE l = m BY <2>2, <3>1 DEF AsksMove
    <3>2. CASE l # m
      BY <2>2, <3>2 DEF AsksMove, AgentAsk, UserAnswers, TypeInv, ConnsOK
    <3> QED BY <3>1, <3>2
  <2> QED BY <1>5, <2>1, <2>2 DEF AgentStep, AgentDie, IdleSweep, AgentReports, AgentEnd,
                                  WorkerTurn, WorkerGone
<1>6. CASE LoopStep
  <2>1. CASE TurnRetire
    <3>1. loop.conn \in Launches BY <1>0, <2>1, LoopFields DEF TurnRetire
    <3> QED BY <2>1, <3>1, DropAsks DEF TurnRetire
  <2> QED BY <1>1, <1>6, <2>1 DEF LoopStep, EventStep, TakeTurn, TurnSettle, TakeRequest,
           Flip, ReconcileSettle, ReconcilePump, ReconcileRead, AbandonSetup
<1> QED BY <1>2, <1>3, <1>4, <1>5, <1>6 DEF Next

\* The engine's sets change with the events it takes, and with a connection that
\* is retired.
LEMMA SetSteps ==
  ASSUME TypeInv, AgentInv, [Next]_vars, ~Crash
  PROVE  \/ UNCHANGED <<awaiting, lossy>> \/ TakeRequest
         \/ Lag /\ lossy' /\ UNCHANGED awaiting
         \/ \E l \in Launches, t \in Tasks :
              Retire(l, t) /\ agent'[l] \notin {"up", "busy"}
<1>0. loop \in LoopState BY DEF TypeInv, ControlOK
<1>1. CASE User \/ PumpStep \/ Lag \/ Boot \/ UNCHANGED vars
  BY <1>1 DEF User, Start, Retry, Return, Cancel, Requeue, Accept, PumpStep,
       PumpStart, PumpAutoDone, PumpAutoClaim, PumpEmpty, PumpNext, Lag, Boot, vars
<1>2. ASSUME NEW c \in cancels, CancelStep(c)
      PROVE  \/ UNCHANGED <<awaiting, lossy>>
             \/ \E l \in Launches, t \in Tasks :
                  Retire(l, t) /\ agent'[l] \notin {"up", "busy"}
  <2>1. CASE CancelCleanup(c) /\ Owns(c)
    <3>1. c.conn \in Launches /\ c.task \in Tasks
      BY <2>1 DEF Owns, TypeInv, MemoryOK, ControlOK, Context
    <3>2. Retire(c.conn, c.task) /\ Drop(c.conn) BY <2>1 DEF CancelCleanup
    <3>3. agent'[c.conn] \notin {"up", "busy"} BY <3>1, <3>2, DropMove
    <3> QED BY <3>1, <3>2, <3>3
  <2> QED BY <1>2, <2>1 DEF CancelStep, CancelKill, CancelCleanup
<1>3. ASSUME NEW l \in Launches, Forward(l) \/ Trouble(l) \/ SetupDone(l)
      PROVE  UNCHANGED <<awaiting, lossy>>
  BY <1>3 DEF Forward, Trouble, ClaimSlot, EnterStale, Enter, BeginSetup, Gate,
       StartInit, InitKilled, Spawn, Bind, Compose, Mark, Teardown, Prompt, Fail,
       Release, EnterRefused, SetupFailed, SpawnFailed, ComposeFailed, MarkFailed,
       PromptRefused, SendFailed, FailFailed, SetupDone
<1>4. ASSUME NEW l \in Launches, AgentStep(l) \/ WorkerTurn(l) \/ WorkerGone(l)
      PROVE  UNCHANGED <<awaiting, lossy>>
  BY <1>4 DEF AgentStep, AgentDie, IdleSweep, AgentReports, AgentAsk, UserAnswers,
       AgentEnd, WorkerTurn, WorkerGone
<1>5. CASE TurnRetire
  <2>1. loop.conn \in Launches BY <1>0, <1>5, LoopFields DEF TurnRetire
  <2>2. Retire(loop.conn, TaskOf(loop.conn)) /\ Drop(loop.conn) BY <1>5 DEF TurnRetire
  <2>3. agent'[loop.conn] \notin {"up", "busy"} BY <2>1, <2>2, DropMove
  <2> QED BY <2>1, <2>2, <2>3, TaskOfType
<1>6. CASE ReconcileSettle
  <2>1. loop.conn \in Launches /\ loop.task \in Tasks
    BY <1>0, <1>6, LoopFields DEF ReconcileSettle
  <2>2. Retire(loop.conn, loop.task) /\ agent'[loop.conn] = "gone"
    BY <1>6 DEF ReconcileSettle, AgentInv, ReconcileHolds
  <2> QED BY <2>1, <2>2
<1>7. CASE LoopStep
  BY <1>5, <1>6, <1>7 DEF LoopStep, EventStep, TakeTurn, TurnSettle, Flip,
       ReconcilePump, ReconcileRead, AbandonSetup
<1> QED BY <1>1, <1>2, <1>3, <1>4, <1>7 DEF Next

\* A flip comes from a request and is done next.
LEMMA FlipSteps ==
  ASSUME TypeInv, [Next]_vars, ~Crash
  PROVE  \/ UNCHANGED loop \/ TakeRequest \/ Flip
         \/ loop.pc # "flip" /\ loop'.pc # "flip"
<1>0. loop \in LoopState BY DEF TypeInv, ControlOK
<1>1. CASE LoopStep
  BY <1>0, <1>1 DEF LoopStep, EventStep, LoopIdle, TakeTurn, TurnRetire, TurnSettle,
       ReconcileSettle, ReconcilePump, ReconcileRead, AbandonSetup, Idle, LoopState
<1>2. CASE User \/ PumpStep \/ \E c \in cancels : CancelStep(c)
  BY <1>2 DEF User, Start, Retry, Return, Cancel, Requeue, Accept, CancelStep,
       CancelKill, CancelCleanup, PumpStep, PumpStart, PumpAutoDone, PumpAutoClaim,
       PumpEmpty, PumpNext
<1>3. ASSUME NEW l \in Launches, Forward(l) \/ Trouble(l) \/ SetupDone(l)
      PROVE  UNCHANGED loop
  BY <1>3, LaunchMoves
<1>4. ASSUME NEW l \in Launches, AgentStep(l) \/ WorkerTurn(l) \/ WorkerGone(l)
      PROVE  UNCHANGED loop
  BY <1>4 DEF AgentStep, AgentDie, IdleSweep, AgentReports, AgentAsk, UserAnswers,
       AgentEnd, WorkerTurn, WorkerGone
<1>5. CASE Lag \/ Boot \/ UNCHANGED vars BY <1>5 DEF Lag, Boot, vars
<1> QED BY <1>1, <1>2, <1>3, <1>4, <1>5 DEF Next

\* A live row that stays live keeps its status, but for a flip.
LEMMA LiveFlips ==
  ASSUME TypeInv, [Next]_vars, NEW t \in Tasks,
         row[t].status \in Live, row'[t].status \in Live
  PROVE  row'[t].status = row[t].status \/ Flip
<1>1. CASE Boot BY <1>1 DEF Boot, TypeInv, RowInv, Row, Live, Interruptible
<1>2. CASE Cancel(t) BY <1>2 DEF Cancel, CancelRow, TypeInv, RowInv, Row, Live
<1>3. CASE ~Boot /\ ~Cancel(t)
  BY <1>3, EveryRowMoves DEF RowMoves, Still, Live, Unlit, StillExpected, Cas, AbandonSetup
<1> QED BY <1>1, <1>2, <1>3

\* What a process has lost stays lost.
LEMMA LossStays ==
  ASSUME TypeInv, AgentInv, [Next]_vars, ~Crash, ~lossy' PROVE ~lossy /\ ~Lag
<1>1. CASE TakeRequest BY <1>1 DEF TakeRequest, Lag
<1>2. ASSUME NEW l \in Launches, NEW t \in Tasks, Retire(l, t) PROVE ~lossy
  BY <1>2 DEF Retire
<1>3. ~Lag BY DEF Lag
<1> QED BY <1>1, <1>2, <1>3, SetSteps

\* A launch that is lit has read its row and keeps its generation.
LEMMA LitKeepsSeq ==
  ASSUME TypeInv, GenInv, [Next]_vars, ~Crash, NEW l \in Launches, Lit(l)
  PROVE  SeqOf(l)' = SeqOf(l)
<1>1. launch[l].pc \notin {"free", "lock"} BY DEF Lit, GenInv, PromptedReturned
<1> QED BY <1>1, SeqStays DEF SeqOf

\* The sets that were of a run stay so.
LEMMA RunStays ==
  ASSUME TypeInv, GenInv, [Next]_vars, ~Crash, NEW t, NEW s, IsRun(t, s)
  PROVE  IsRun(t, s)'
<1>1. PICK m \in prompted : TaskOf(m) = t /\ SeqOf(m) = s BY DEF IsRun
<1>2. m \in Launches BY DEF TypeInv, HistoryOK
<1>3. SeqOf(m)' = s BY <1>1, <1>2, LitKeepsSeq DEF Lit
<1>4. m \in prompted' BY PromptedMoves
<1> QED BY <1>1, <1>3, <1>4 DEF IsRun, TaskOf

\* The request at the head of the bus.
LEMMA HeadRequest ==
  ASSUME TypeInv, RequestsArePrompted, TakeRequest
  PROVE  \E y \in {"ask", "answer"}, m \in Launches, k \in Keys :
           /\ Head(bus) = Request(y, m, k) /\ m \in prompted
           /\ Head(bus).type = y /\ Head(bus).conn = m /\ Head(bus).key = k
<1>1. bus # <<>> /\ Head(bus).type # "turn" BY DEF TakeRequest
<1>2. bus \in Seq(Event) BY DEF TypeInv, ConnsOK
<1>3. 1 \in 1..Len(bus) /\ Head(bus) = bus[1] /\ Head(bus) \in Event BY <1>1, <1>2
<1>4. Head(bus).conn \in prompted BY <1>1, <1>3 DEF RequestsArePrompted
<1>5. PICK y \in {"ask", "answer"}, m \in Launches, k \in Keys :
        Head(bus) = [type |-> y, conn |-> m, key |-> k]
  BY <1>1, <1>3 DEF Event
<1> QED BY <1>4, <1>5 DEF Request

LEMMA RequestInit == Init => RequestInv
<1> SUFFICES ASSUME Init PROVE RequestInv OBVIOUS
<1>1. /\ bus = <<>> /\ loop.pc = "idle" /\ prompted = {}
      /\ \A l \in Launches : agent[l] = "none" /\ launch[l].pc = "free"
      /\ \A l \in Launches : asks[l] = [k \in Keys |-> "no"]
      /\ \A t \in Tasks : /\ row[t].status = "todo"
                          /\ awaiting[t].seq = 0 /\ awaiting[t].keys = {}
  BY DEF Init, Idle
<1>2. RequestsArePrompted BY <1>1 DEF RequestsArePrompted
<1>3. UnpromptedIsQuiet BY <1>1 DEF UnpromptedIsQuiet
<1>4. SetsArePrompted BY <1>1, FS_EmptySet DEF SetsArePrompted
<1>5. LiveNamesItsRun BY <1>1 DEF LiveNamesItsRun, Live
<1>6. RequestsAreTold BY <1>1 DEF RequestsAreTold
<1>7. RowsTell BY <1>1 DEF RowsTell, Working
<1> QED BY <1>2, <1>3, <1>4, <1>5, <1>6, <1>7 DEF RequestInv

LEMMA RequestsPromptedNext ==
  ASSUME TypeInv, AgentInv, RequestInv, [Next]_vars, ~Crash PROVE RequestsArePrompted'
<1> SUFFICES ASSUME NEW i \in 1..Len(bus'), bus'[i].type # "turn"
             PROVE  bus'[i].conn \in prompted'
  BY DEF RequestsArePrompted
<1>0. bus \in Seq(Event) BY DEF TypeInv, ConnsOK
<1>1. prompted \subseteq prompted' BY PromptedMoves
<1>2. ASSUME NEW j \in 1..Len(bus), bus'[i] = bus[j] PROVE bus'[i].conn \in prompted'
  BY <1>1, <1>2 DEF RequestInv, RequestsArePrompted
<1>3. CASE UNCHANGED bus BY <1>2, <1>3
<1>4. CASE bus # <<>> /\ bus' = Tail(bus)
  <2>1. i + 1 \in 1..Len(bus) /\ bus'[i] = bus[i + 1] BY <1>0, <1>4
  <2> QED BY <1>2, <2>1
<1>5. ASSUME NEW l \in Launches, NEW k \in Keys, AgentAsk(l, k) \/ UserAnswers(l, k)
      PROVE  bus'[i].conn \in prompted'
  <2>1. PICK y : bus' = Append(bus, [type |-> y, conn |-> l, key |-> k])
    BY <1>5 DEF AgentAsk, UserAnswers, Publish
  <2>2. l \in prompted BY <1>5 DEF AgentAsk, UserAnswers, AgentInv, BusyIsPrompted
  <2>3. CASE i \in 1..Len(bus)
    <3>1. bus'[i] = bus[i] BY <1>0, <2>1, <2>3
    <3> QED BY <1>2, <2>3, <3>1
  <2>4. CASE i \notin 1..Len(bus)
    <3>1. bus'[i].conn = l BY <1>0, <2>1, <2>4
    <3> QED BY <1>1, <2>2, <3>1
  <2> QED BY <2>3, <2>4
<1>6. ASSUME NEW l \in Launches, NEW stop \in Stops, AgentEnd(l, stop)
      PROVE  bus'[i].conn \in prompted'
  <2>1. bus' = Append(bus, [type |-> "turn", conn |-> l, stop |-> stop])
    BY <1>6 DEF AgentEnd, Publish
  <2>2. i \in 1..Len(bus) /\ bus'[i] = bus[i] BY <1>0, <2>1
  <2> QED BY <1>2, <2>2
<1> QED BY <1>3, <1>4, <1>5, <1>6, BusSteps DEF TakeTurn, TakeRequest, Lag

LEMMA UnpromptedNext ==
  ASSUME TypeInv, AgentInv, RequestInv, [Next]_vars, ~Crash PROVE UnpromptedIsQuiet'
<1> SUFFICES ASSUME NEW l \in Launches, l \notin prompted'
             PROVE  asks'[l] = [k \in Keys |-> "no"]
  BY DEF UnpromptedIsQuiet
<1>1. l \notin prompted BY PromptedMoves
<1>2. asks[l] = [k \in Keys |-> "no"] BY <1>1 DEF RequestInv, UnpromptedIsQuiet
<1>3. agent[l] # "busy" BY <1>1 DEF AgentInv, BusyIsPrompted
<1> QED BY <1>2, <1>3, EveryAsksMove DEF AsksMove, AgentAsk, UserAnswers

\* A set is of the run whose request it took.
LEMMA SetsNext ==
  ASSUME TypeInv, GenInv, AgentInv, RequestInv, [Next]_vars, ~Crash
  PROVE  SetsArePrompted'
<1>1. ASSUME NEW t \in Tasks
      PROVE  /\ IsFiniteSet(awaiting'[t].keys)
             /\ \A s : s = awaiting'[t].seq /\ s # 0 => IsRun(t, s)'
  <2>0. /\ IsFiniteSet(awaiting[t].keys)
        /\ awaiting[t].seq # 0 => IsRun(t, awaiting[t].seq)
    BY DEF RequestInv, SetsArePrompted
  <2>1. CASE awaiting'[t] = awaiting[t] BY <2>0, <2>1, RunStays
  <2>2. CASE awaiting'[t] = [seq |-> 0, keys |-> {}] BY <2>2, FS_EmptySet
  <2>3. CASE TakeRequest
    <3> PICK y \in {"ask", "answer"}, m \in Launches, k \in Keys :
          /\ m \in prompted /\ Head(bus).conn = m /\ Head(bus).key = k
          /\ Head(bus).type = y
      BY <2>3, HeadRequest DEF RequestInv
    <3>1. CASE awaiting'[t] # awaiting[t] /\ awaiting'[t] # [seq |-> 0, keys |-> {}]
      <4> DEFINE keys == IF awaiting[t].seq = SeqOf(m) THEN awaiting[t].keys ELSE {}
                 now == IF y = "ask" THEN keys \cup {k} ELSE keys \ {k}
      <4>1. Track(TaskOf(m), SeqOf(m), k, y = "ask")
        BY <2>3, <3>1 DEF TakeRequest
      <4>2. TaskOf(m) = t /\ awaiting'[t] = [seq |-> SeqOf(m), keys |-> now]
        BY <3>1, <4>1, TaskOfType DEF Track, Forgotten, TypeInv, MemoryOK
      <4>3. IsRun(t, SeqOf(m)) BY <4>2 DEF IsRun
      <4>4. IsFiniteSet(keys) BY <2>0, FS_EmptySet
      <4>5. IsFiniteSet(now)
        <5> HIDE DEF keys
        <5> QED BY <4>4, FS_AddElement, FS_RemoveElement
      <4>6. IsRun(t, SeqOf(m))' BY <4>3, RunStays, LitKeepsSeq DEF Lit
      <4>7. SeqOf(m)' = SeqOf(m) BY LitKeepsSeq DEF Lit
      <4> HIDE DEF now
      <4> QED BY <4>2, <4>5, <4>6, <4>7
    <3> QED BY <2>1, <2>2, <3>1
  <2>4. ASSUME NEW l \in Launches, NEW u \in Tasks, Retire(l, u)
        PROVE  awaiting'[t] = awaiting[t] \/ awaiting'[t] = [seq |-> 0, keys |-> {}]
    BY <2>4 DEF Retire, Forgotten, TypeInv, MemoryOK
  <2> QED BY <2>1, <2>2, <2>3, <2>4, SetSteps
<1>2. ASSUME loop'.pc = "flip" 
      PROVE  \A t, s : t = loop'.task /\ s = loop'.seq => IsRun(t, s)'
  <2>1. CASE UNCHANGED loop
    <3>1. IsRun(loop.task, loop.seq)
      BY <1>2, <2>1 DEF RequestInv, SetsArePrompted
    <3> QED BY <2>1, <3>1, RunStays
  <2>2. CASE TakeRequest
    <3> PICK y \in {"ask", "answer"}, m \in Launches, k \in Keys :
          /\ m \in prompted /\ Head(bus).conn = m /\ Head(bus).key = k
          /\ Head(bus).type = y
      BY <2>2, HeadRequest DEF RequestInv
    <3>0. loop.pc # "flip" BY <2>2 DEF TakeRequest, LoopIdle, Idle
    <3>1. Track(TaskOf(m), SeqOf(m), k, y = "ask")
      BY <1>2, <2>2, <3>0 DEF TakeRequest
    <3>2. loop'.task = TaskOf(m) /\ loop'.seq = SeqOf(m)
      BY <1>2, <3>0, <3>1 DEF Track
    <3>3. IsRun(TaskOf(m), SeqOf(m)) BY DEF IsRun
    <3>4. SeqOf(m)' = SeqOf(m) /\ m \in prompted' BY LitKeepsSeq, PromptedMoves DEF Lit
    <3> QED BY <3>2, <3>4 DEF IsRun, TaskOf
  <2>3. CASE Flip BY <1>2, <2>3 DEF Flip, Idle
  <2> QED BY <1>2, <2>1, <2>2, <2>3, FlipSteps
<1> QED BY <1>1, <1>2 DEF SetsArePrompted

\* mark_running names the launch that goes live.
LEMMA LiveNamesNext ==
  ASSUME TypeInv, TypeInv', RequestInv, [Next]_vars, ~Crash PROVE LiveNamesItsRun'
<1> SUFFICES ASSUME NEW t \in Tasks, row'[t].status \in Live
             PROVE  /\ TaskOf(row'[t].conn) = t /\ launch'[row'[t].conn].seq = row'[t].seq
                    /\ launch'[row'[t].conn].pc \notin Unspawned
  BY DEF LiveNamesItsRun, TaskOf, SeqOf
<1>1. ASSUME NEW l \in Launches, row'[t].conn = l, TaskOf(l) = t,
             launch'[l].seq = row'[t].seq, launch'[l].pc \notin Unspawned
      PROVE  /\ TaskOf(row'[t].conn) = t /\ launch'[row'[t].conn].seq = row'[t].seq
             /\ launch'[row'[t].conn].pc \notin Unspawned
  BY <1>1
<1>2. CASE row[t].status \in Live
  <2>1. row'[t].seq = row[t].seq /\ row'[t].conn = row[t].conn BY <1>2, LiveStays
  <2>2. PICK l \in Launches : row[t].conn = l
    BY <1>2 DEF TypeInv, RowInv, LiveIsBound
  <2>3. /\ TaskOf(l) = t /\ launch[l].seq = row[t].seq /\ launch[l].pc \notin Unspawned
    BY <1>2, <2>2 DEF RequestInv, LiveNamesItsRun, SeqOf
  <2>4. launch'[l].seq = launch[l].seq BY <2>3, SeqStays DEF Unspawned
  <2>5. launch'[l].pc \notin Unspawned
    BY <2>3, EveryLaunchMoves, PcComes DEF Unspawned
  <2> QED BY <1>1, <2>1, <2>2, <2>3, <2>4, <2>5
<1>3. CASE row[t].status \notin Live
  <2>1. PICK l \in Launches : /\ TaskOf(l) = t /\ Mark(l) /\ StillExpected(l)
                              /\ row'[t].seq = row[t].seq /\ row'[t].conn = l
    BY <1>3, LiveComes DEF TypeInv
  <2>2. launch'[l].pc = "prompt" /\ launch'[l].seq = row[t].seq
    BY <2>1 DEF Mark, StillExpected, Cas, GoTo, SeqOf, TypeInv, LaunchInv, Launch
  <2> QED BY <1>1, <2>1, <2>2 DEF Unspawned
<1> QED BY <1>2, <1>3

\* Another launch of the task that has prompted is of another generation.
LEMMA RunsApart ==
  ASSUME TypeInv, GenInv, NEW l \in Launches, Lit(l), NEW m \in prompted, m # l,
         TaskOf(m) = TaskOf(l)
  PROVE  SeqOf(m) # SeqOf(l)
<1>1. m \in Launches BY DEF TypeInv, HistoryOK
<1> QED BY <1>1 DEF GenInv, LitApart, Lit, SeqOf

\* Before its prompt, nothing is known of a run.
LEMMA UnpromptedView ==
  ASSUME TypeInv, GenInv, SetsArePrompted, NEW l \in Launches, launch[l].pc = "prompt"
  PROVE  View(l) = {} /\ ~Flipping(l)
<1>1. Lit(l) /\ l \notin prompted BY DEF Lit, GenInv, PromptedReturned
<1>2. ~IsRun(TaskOf(l), SeqOf(l)) BY <1>1, RunsApart DEF IsRun
<1>3. SeqOf(l) # 0 BY DEF TypeInv, LaunchInv, LockedHasSeq, Locked, SeqOf
<1> QED BY <1>2, <1>3, TaskOfType DEF SetsArePrompted, View, Flipping

\* The current run is the latest of its task.
LEMMA LatestRun ==
  ASSUME TypeInv, GenInv, NEW l \in Launches, SeqOf(l) = row[TaskOf(l)].seq, NEW s,
         IsRun(TaskOf(l), s)
  PROVE  s \in Nat /\ SeqOf(l) \in Nat /\ s <= SeqOf(l)
<1>1. PICK m \in prompted : TaskOf(m) = TaskOf(l) /\ SeqOf(m) = s BY DEF IsRun
<1>2. m \in Launches /\ Lit(m) BY <1>1 DEF TypeInv, HistoryOK, Lit
<1> QED BY <1>1, <1>2, SeqIsNat DEF GenInv, LitIsPastSetup, SeqOf

\* What the engine has of a run at work changes with the run's own requests only.
LEMMA ViewStays ==
  ASSUME TypeInv, GenInv, AgentInv, [Next]_vars, ~Crash, ~TakeRequest, ~lossy',
         NEW l \in Launches, Working(l), Working(l)'
  PROVE  View(l)' = View(l)
<1> DEFINE t == TaskOf(l)
<1>0. Lit(l) /\ t \in Tasks BY TaskOfType DEF Working, Lit, AgentInv, BusyIsPrompted
<1>1. SeqOf(l)' = SeqOf(l) BY <1>0, LitKeepsSeq
<1>2. CASE awaiting'[t] = awaiting[t] BY <1>1, <1>2 DEF View, TaskOf
<1>3. ASSUME NEW m \in Launches, NEW u \in Tasks, Retire(m, u),
             agent'[m] \notin {"up", "busy"}, u = t
      PROVE  View(l)' = View(l)
  <2>1. l # m BY <1>3 DEF Working
  <2>2. l \in index BY DEF AgentInv, WorkingIsKnown
  <2>3. l \in {x \in index \ {m} : TaskOf(x) = u} BY <1>3, <2>1, <2>2
  <2>4. \/ awaiting' = awaiting
        \/ awaiting' = Forgotten(t) /\ awaiting[t].seq # SeqOf(l)
    BY <1>3, <2>3 DEF Retire, SeqOf
  <2>5. CASE awaiting' = Forgotten(t) /\ awaiting[t].seq # SeqOf(l)
    <3>1. View(l) = {} BY <2>5 DEF View
    <3>2. awaiting'[t].keys = {}
      BY <1>0, <2>5 DEF Forgotten, TypeInv, MemoryOK
    <3>3. View(l)' = {} BY <3>2 DEF View, TaskOf
    <3> QED BY <3>1, <3>3
  <2> QED BY <1>2, <2>4, <2>5
<1>4. ASSUME NEW m \in Launches, NEW u \in Tasks, Retire(m, u), u # t
      PROVE  awaiting'[t] = awaiting[t]
  BY <1>0, <1>4 DEF Retire, Forgotten, TypeInv, MemoryOK
<1> QED BY <1>2, <1>3, <1>4, SetSteps

\* A request of the current run changes its set by that request, and flips the row
\* when the set becomes empty, or no longer is; one of another run does neither.
LEMMA TakenView ==
  ASSUME TypeInv, GenInv, AgentInv, RequestInv, TakeRequest,
         NEW l \in Launches, Working(l), SeqOf(l) = row[TaskOf(l)].seq,
         NEW y \in {"ask", "answer"}, NEW m \in prompted, NEW k \in Keys,
         Head(bus).type = y, Head(bus).conn = m, Head(bus).key = k
  PROVE  LET now == IF y = "ask" THEN View(l) \cup {k} ELSE View(l) \ {k}
         IN /\ m # l => View(l)' = View(l) /\ ~Flipping(l)'
            /\ m = l => /\ View(l)' = now
                        /\ IF Cardinality(now) = (IF y = "ask" THEN 1 ELSE 0)
                           THEN Flipping(l)' /\ loop'.up = (y = "ask")
                           ELSE ~Flipping(l)'
<1> DEFINE t == TaskOf(l)
           now == IF y = "ask" THEN View(l) \cup {k} ELSE View(l) \ {k}
<1>0. /\ t \in Tasks /\ Lit(l) /\ l \in index /\ m \in Launches
      /\ loop.pc # "flip" /\ launch' = launch
  BY TaskOfType DEF Working, Lit, AgentInv, BusyIsPrompted, WorkingIsKnown, TakeRequest,
                    LoopIdle, Idle, TypeInv, HistoryOK
<1>1. SeqOf(l)' = SeqOf(l) /\ SeqOf(m)' = SeqOf(m) BY <1>0 DEF SeqOf
<1>2. awaiting[t].seq \in Nat /\ SeqOf(l) \in Nat /\ SeqOf(m) \in Nat
  BY <1>0, SeqIsNat, NatAssumption DEF TypeInv, MemoryOK, Seqs, SeqOf
<1>3. ASSUME m # l PROVE View(l)' = View(l) /\ ~Flipping(l)'
  <2>1. TaskOf(m) = t => SeqOf(m) # SeqOf(l) BY <1>0, <1>3, RunsApart
  <2>2. TaskOf(m) = t => SeqOf(m) <= SeqOf(l) BY LatestRun DEF IsRun
  <2>3. CASE UNCHANGED <<awaiting, loop>>
    BY <1>0, <1>1, <2>3 DEF View, Flipping, TaskOf
  <2>4. CASE Track(TaskOf(m), SeqOf(m), k, y = "ask")
             /\ ~UNCHANGED <<awaiting, loop>>
    <3>1. loop' = loop \/ (loop'.task = TaskOf(m) /\ loop'.seq = SeqOf(m))
      BY <2>4 DEF Track
    <3>2. ~Flipping(l)' BY <1>0, <1>1, <2>1, <3>1 DEF Flipping, TaskOf
    <3>3. CASE TaskOf(m) # t
      <4>1. awaiting'[t] = awaiting[t]
        BY <1>0, <2>4, <3>3 DEF Track, Forgotten, TypeInv, MemoryOK
      <4> QED BY <1>1, <3>2, <4>1 DEF View, TaskOf
    <3>4. CASE TaskOf(m) = t
      <4>1. ~(SeqOf(m) < awaiting[t].seq) BY <2>4, <3>4 DEF Track
      <4>2. awaiting[t].seq # SeqOf(l) BY <1>2, <2>1, <2>2, <3>4, <4>1
      <4>3. awaiting'[t].seq = SeqOf(m) \/ awaiting'[t].keys = {}
        BY <1>0, <2>4, <3>4 DEF Track, Forgotten, TypeInv, MemoryOK
      <4>4. View(l) = {} /\ View(l)' = {}
        BY <1>1, <2>1, <3>4, <4>2, <4>3 DEF View, TaskOf
      <4> QED BY <3>2, <4>4
    <3> QED BY <3>3, <3>4
  <2> QED BY <2>3, <2>4 DEF TakeRequest
<1>4. ASSUME m = l
      PROVE  /\ View(l)' = now
             /\ IF Cardinality(now) = (IF y = "ask" THEN 1 ELSE 0)
                THEN Flipping(l)' /\ loop'.up = (y = "ask")
                ELSE ~Flipping(l)'
  <2>1. Track(t, SeqOf(l), k, y = "ask") BY <1>0, <1>4 DEF TakeRequest
  <2>2. ~(SeqOf(l) < awaiting[t].seq)
    <3>1. CASE awaiting[t].seq = 0 BY <1>2, <3>1
    <3>2. CASE awaiting[t].seq # 0
      <4>1. IsRun(t, awaiting[t].seq)
        BY <1>0, <3>2 DEF RequestInv, SetsArePrompted
      <4>2. awaiting[t].seq <= SeqOf(l) BY <4>1, LatestRun
      <4> QED BY <1>2, <4>2
    <3> QED BY <3>1, <3>2
  <2>3. /\ awaiting' = IF now = {} THEN Forgotten(t)
                       ELSE [awaiting EXCEPT ![t] = [seq |-> SeqOf(l), keys |-> now]]
        /\ loop' = IF Cardinality(now) = (IF y = "ask" THEN 1 ELSE 0)
                   THEN [pc |-> "flip", task |-> t, seq |-> SeqOf(l), up |-> y = "ask"]
                   ELSE loop
    BY <2>1, <2>2 DEF Track, View
  <2> HIDE DEF now
  <2>4. awaiting'[t] = IF now = {} THEN [seq |-> 0, keys |-> {}]
                       ELSE [seq |-> SeqOf(l), keys |-> now]
    BY <1>0, <2>3 DEF Forgotten, TypeInv, MemoryOK
  <2>5. View(l)' = now BY <1>1, <2>4 DEF View, TaskOf
  <2>6. IF Cardinality(now) = (IF y = "ask" THEN 1 ELSE 0)
        THEN Flipping(l)' /\ loop'.up = (y = "ask") ELSE ~Flipping(l)'
    BY <1>0, <1>1, <2>3 DEF Flipping, TaskOf
  <2> QED BY <2>5, <2>6
<1> QED BY <1>3, <1>4

\* A run that has not prompted has nothing on the bus.
LEMMA UnpromptedTold ==
  ASSUME TypeInv, GenInv, RequestInv, NEW l \in Launches, Prompt(l), NEW k \in Keys
  PROVE  Told(l, k)'
<1> DEFINE ask == Request("ask", l, k)
           answer == Request("answer", l, k)
<1>1. /\ launch[l].pc = "prompt" /\ UNCHANGED <<bus, asks, awaiting>>
      /\ launch'[l].seq = launch[l].seq
  BY DEF Prompt, At, Leave, GoTo, TypeInv, LaunchInv, Launch
<1>2. l \notin prompted BY <1>1 DEF GenInv, PromptedReturned
<1>3. asks'[l][k] = "no" BY <1>1, <1>2 DEF RequestInv, UnpromptedIsQuiet
<1>4. ~Holds(bus, ask) /\ ~Holds(bus, answer)
  BY <1>2 DEF Holds, Request, RequestInv, RequestsArePrompted
<1>5. View(l)' = {}
  <2>1. View(l) = {} BY <1>1, UnpromptedView DEF RequestInv
  <2> QED BY <1>1, <2>1 DEF View, SeqOf, TaskOf
<1>6. ~Holds(bus', ask) /\ ~Holds(bus', answer) BY <1>1, <1>4
<1>7. Single(bus', ask) /\ Single(bus', answer) /\ Before(bus', ask, answer)
  BY <1>6 DEF Holds, Single, Before
<1> HIDE DEF ask, answer
<1>8. ask = Request("ask", l, k) /\ answer = Request("answer", l, k) BY DEF ask, answer
<1> QED BY <1>3, <1>5, <1>6, <1>7, <1>8 DEF Told, Request

\* A run at work that is current was so before, and its requests were accounted for.
LEMMA ToldBefore ==
  ASSUME TypeInv, GenInv, AgentInv, RequestInv, ~lossy, [Next]_vars, ~Crash,
         NEW l \in Launches, agent'[l] = "busy", SeqOf(l)' = row'[TaskOf(l)].seq,
         ~Prompt(l)
  PROVE  /\ agent[l] = "busy" /\ Working(l) /\ Working(l)' /\ Lit(l)
         /\ SeqOf(l) = row[TaskOf(l)].seq
         /\ \A k \in Keys : Told(l, k)
<1>1. agent[l] = "busy" BY EveryAgentMoves DEF AgentMove
<1>2. Working(l) /\ Working(l)' /\ Lit(l)
  BY <1>1 DEF Working, Lit, AgentInv, BusyIsPrompted
<1>3. SeqOf(l)' = SeqOf(l) BY <1>2, LitKeepsSeq
<1>4. SeqOf(l) <= row[TaskOf(l)].seq /\ row[TaskOf(l)].seq <= row'[TaskOf(l)].seq
  <2>1. RowsQuiet BY EveryRowQuiet
  <2>2. row[TaskOf(l)].seq \in Nat BY SeqIsNat, TaskOfType
  <2>3. row'[TaskOf(l)].seq \in Nat BY <1>3, SeqIsNat DEF SeqOf
  <2> QED BY <1>2, <2>1, <2>2, <2>3, TaskOfType DEF RowsQuiet, GenInv, LitIsPastSetup, SeqOf
<1>5. SeqOf(l) = row[TaskOf(l)].seq
  <2>1. row[TaskOf(l)].seq \in Nat /\ SeqOf(l) \in Nat BY SeqIsNat, TaskOfType DEF SeqOf
  <2> QED BY <1>3, <1>4, <2>1
<1> QED BY <1>1, <1>2, <1>5 DEF RequestInv, RequestsAreTold

\* An event that is not of this request.
LEMMA OtherEvent ==
  ASSUME TypeInv, NEW l \in Launches, NEW k \in Keys, Told(l, k),
         NEW f \in Event, bus' = Append(bus, f),
         f # Request("ask", l, k), f # Request("answer", l, k),
         asks'[l][k] = asks[l][k], View(l)' = View(l)
  PROVE  Told(l, k)'
<1> DEFINE ask == Request("ask", l, k)
           answer == Request("answer", l, k)
<1>0. bus \in Seq(Event) BY DEF TypeInv, ConnsOK
<1>1. ask # answer BY DEF Request
<1>2. Single(bus, ask) /\ Single(bus, answer) /\ Before(bus, ask, answer) BY DEF Told
<1>3. /\ Holds(bus', ask) <=> Holds(bus, ask)
      /\ Holds(bus', answer) <=> Holds(bus, answer)
      /\ Single(bus', ask) /\ Single(bus', answer) /\ Before(bus', ask, answer)
  BY <1>0, <1>1, <1>2, AppendHolds
<1> QED BY <1>3 DEF Told, Request

\* A request is raised once, and answered after that.
LEMMA OwnRequest ==
  ASSUME TypeInv, NEW l \in Launches, NEW k \in Keys, NEW j \in Keys, Told(l, k),
         AgentAsk(l, j) \/ UserAnswers(l, j), View(l)' = View(l)
  PROVE  Told(l, k)'
<1> DEFINE ask == Request("ask", l, k)
           answer == Request("answer", l, k)
<1>0. bus \in Seq(Event) /\ asks[l] \in [Keys -> AskStates] BY DEF TypeInv, ConnsOK
<1>1. ask # answer /\ ask \in Event /\ answer \in Event BY DEF Request, Event
<1>2. Single(bus, ask) /\ Single(bus, answer) /\ Before(bus, ask, answer) BY DEF Told
<1>3. PICK y \in {"ask", "answer"} : /\ bus' = Append(bus, Request(y, l, j))
                                     /\ y = "ask" <=> AgentAsk(l, j)
  BY DEF AgentAsk, UserAnswers, Publish, Request
<1>4. CASE j # k
  <2>1. Request(y, l, j) \in Event BY DEF Request, Event
  <2>2. asks'[l][k] = asks[l][k]
    BY <1>0, <1>4 DEF AgentAsk, UserAnswers, TypeInv, ConnsOK
  <2>3. Request(y, l, j) # ask /\ Request(y, l, j) # answer BY <1>4 DEF Request
  <2> QED BY <1>3, <2>1, <2>2, <2>3, OtherEvent
<1>5. CASE j = k /\ y = "ask"
  <2>1. asks[l][k] = "no" /\ asks'[l][k] = "open" /\ bus' = Append(bus, ask)
    BY <1>0, <1>3, <1>5 DEF AgentAsk, TypeInv, ConnsOK
  <2>2. ~Holds(bus, ask) /\ ~Holds(bus, answer) /\ k \notin View(l) BY <2>1 DEF Told
  <2>3. /\ Holds(bus', ask) /\ ~Holds(bus', answer)
        /\ Single(bus', ask) /\ Single(bus', answer) /\ Before(bus', ask, answer)
    BY <1>0, <1>1, <1>2, <2>1, <2>2, AppendHolds
  <2> QED BY <2>1, <2>2, <2>3 DEF Told, Request
<1>6. CASE j = k /\ y = "answer"
  <2>1. asks[l][k] = "open" /\ asks'[l][k] = "closed" /\ bus' = Append(bus, answer)
    BY <1>0, <1>3, <1>6 DEF UserAnswers, TypeInv, ConnsOK
  <2>2. ~Holds(bus, answer) /\ (k \in View(l) <=> ~Holds(bus, ask)) BY <2>1 DEF Told
  <2>3. /\ Holds(bus', ask) <=> Holds(bus, ask)
        /\ Holds(bus', answer)
        /\ Single(bus', ask) /\ Single(bus', answer) /\ Before(bus', ask, answer)
    BY <1>0, <1>1, <1>2, <2>1, <2>2, AppendHolds
  <2> QED BY <2>1, <2>2, <2>3 DEF Told, Request
<1> QED BY <1>4, <1>5, <1>6

\* The engine takes an event.
LEMMA TakenEvent ==
  ASSUME TypeInv, NEW l \in Launches, NEW k \in Keys, Told(l, k),
         bus # <<>>, bus' = Tail(bus), asks'[l][k] = asks[l][k],
         LET ask == Request("ask", l, k)
             answer == Request("answer", l, k)
         IN \/ Head(bus) \notin {ask, answer} /\ (k \in View(l)' <=> k \in View(l))
            \/ Head(bus) = ask /\ k \in View(l)'
            \/ Head(bus) = answer /\ k \notin View(l)'
  PROVE  Told(l, k)'
<1> DEFINE ask == Request("ask", l, k)
           answer == Request("answer", l, k)
<1>0. bus \in Seq(Event) /\ asks[l] \in [Keys -> AskStates] BY DEF TypeInv, ConnsOK
<1>1. ask # answer BY DEF Request
<1>2. Single(bus, ask) /\ Single(bus, answer) /\ Before(bus, ask, answer) BY DEF Told
<1>3. /\ Holds(bus', ask) <=> Holds(bus, ask) /\ Head(bus) # ask
      /\ Holds(bus', answer) <=> Holds(bus, answer) /\ Head(bus) # answer
      /\ Single(bus', ask) /\ Single(bus', answer) /\ Before(bus', ask, answer)
      /\ Head(bus) = answer => ~Holds(bus, ask)
  BY <1>0, <1>2, TailHolds
<1>4. /\ Head(bus) = ask => Holds(bus, ask)
      /\ Head(bus) = answer => Holds(bus, answer)
  <2>1. 1 \in 1..Len(bus) /\ Head(bus) = bus[1] BY <1>0
  <2> QED BY <2>1 DEF Holds
<1>5. asks[l][k] \in {"no", "open", "closed"} BY <1>0 DEF AskStates
<1>6. /\ asks[l][k] = "no" => ~Holds(bus, ask) /\ ~Holds(bus, answer) /\ k \notin View(l)
      /\ asks[l][k] = "open" => ~Holds(bus, answer) /\ (k \in View(l) <=> ~Holds(bus, ask))
      /\ asks[l][k] = "closed" =>
           /\ Holds(bus, ask) => Holds(bus, answer) /\ k \notin View(l)
           /\ ~Holds(bus, ask) => (k \in View(l) <=> Holds(bus, answer))
  BY DEF Told
<1>7. CASE Head(bus) \notin {ask, answer} /\ (k \in View(l)' <=> k \in View(l))
  BY <1>3, <1>6, <1>7 DEF Told, Request
<1>8. CASE Head(bus) = ask /\ k \in View(l)'
  BY <1>1, <1>3, <1>4, <1>5, <1>6, <1>8 DEF Told, Request
<1>9. CASE Head(bus) = answer /\ k \notin View(l)'
  BY <1>1, <1>3, <1>4, <1>5, <1>6, <1>9 DEF Told, Request
<1> QED BY <1>7, <1>8, <1>9

\* Every request of the current run stays accounted for.
LEMMA ToldNext ==
  ASSUME TypeInv, GenInv, AgentInv, RequestInv, [Next]_vars, ~Crash, ~lossy'
  PROVE  RequestsAreTold'
<1> SUFFICES ASSUME NEW l \in Launches, agent'[l] = "busy",
                    SeqOf(l)' = row'[TaskOf(l)].seq, NEW k \in Keys
             PROVE  Told(l, k)'
  BY DEF RequestsAreTold, TaskOf
<1>0. ~lossy /\ ~Lag BY LossStays
<1>1. CASE Prompt(l) BY <1>1, UnpromptedTold
<1>2. CASE ~Prompt(l)
  <2>1. /\ agent[l] = "busy" /\ Working(l) /\ Working(l)' /\ Lit(l)
        /\ SeqOf(l) = row[TaskOf(l)].seq /\ Told(l, k)
    BY <1>0, <1>2, ToldBefore
  <2>2. ASSUME NEW j \in Keys, AgentAsk(l, j) \/ UserAnswers(l, j) PROVE Told(l, k)'
    <3>1. UNCHANGED <<awaiting, launch>> BY <2>2 DEF AgentAsk, UserAnswers
    <3>2. View(l)' = View(l) BY <3>1 DEF View, SeqOf, TaskOf
    <3> QED BY <2>1, <2>2, <3>2, OwnRequest
  <2>3. CASE ~\E j \in Keys : AgentAsk(l, j) \/ UserAnswers(l, j)
    <3>1. asks'[l][k] = asks[l][k] BY <2>3, EveryAsksMove DEF AsksMove
    <3>2. ~TakeRequest => View(l)' = View(l) BY <2>1, ViewStays
    <3>3. CASE UNCHANGED bus /\ ~TakeRequest
      <4>1. View(l)' = View(l) BY <3>2, <3>3
      <4> QED BY <2>1, <3>1, <3>3, <4>1 DEF Told, Request
    <3>4. ASSUME NEW m \in Launches, NEW j \in Keys, AgentAsk(m, j) \/ UserAnswers(m, j)
          PROVE  Told(l, k)'
      <4>1. m # l BY <2>3, <3>4
      <4>2. PICK y \in {"ask", "answer"} : bus' = Append(bus, Request(y, m, j))
        BY <3>4 DEF AgentAsk, UserAnswers, Publish, Request
      <4>3. /\ Request(y, m, j) \in Event /\ Request(y, m, j) # Request("ask", l, k)
            /\ Request(y, m, j) # Request("answer", l, k)
        BY <4>1 DEF Request, Event
      <4>4. UNCHANGED <<awaiting, launch>> BY <3>4 DEF AgentAsk, UserAnswers
      <4>5. View(l)' = View(l) BY <4>4 DEF View, SeqOf, TaskOf
      <4> QED BY <2>1, <3>1, <4>2, <4>3, <4>5, OtherEvent
    <3>5. ASSUME NEW m \in Launches, NEW stop \in Stops, AgentEnd(m, stop)
          PROVE  Told(l, k)'
      <4> DEFINE f == [type |-> "turn", conn |-> m, stop |-> stop]
      <4>1. bus' = Append(bus, f) /\ f \in Event
        BY <3>5 DEF AgentEnd, Publish, Event
      <4>2. f # Request("ask", l, k) /\ f # Request("answer", l, k) BY DEF Request
      <4>3. UNCHANGED <<awaiting, launch>> BY <3>5 DEF AgentEnd
      <4>4. View(l)' = View(l) BY <4>3 DEF View, SeqOf, TaskOf
      <4> HIDE DEF f
      <4> QED BY <2>1, <3>1, <4>1, <4>2, <4>4, OtherEvent
    <3>6. CASE TakeTurn
      <4>1. /\ bus # <<>> /\ bus' = Tail(bus) /\ Head(bus).type = "turn"
            /\ UNCHANGED <<awaiting, launch>>
        BY <3>6 DEF TakeTurn
      <4>2. View(l)' = View(l) BY <4>1 DEF View, SeqOf, TaskOf
      <4>3. Head(bus) \notin {Request("ask", l, k), Request("answer", l, k)}
        BY <4>1 DEF Request
      <4> QED BY <2>1, <3>1, <4>1, <4>2, <4>3, TakenEvent
    <3>7. CASE TakeRequest
      <4> PICK y \in {"ask", "answer"}, m \in Launches, j \in Keys :
            /\ Head(bus) = Request(y, m, j) /\ m \in prompted
            /\ Head(bus).type = y /\ Head(bus).conn = m /\ Head(bus).key = j
        BY <3>7, HeadRequest DEF RequestInv
      <4>1. bus # <<>> /\ bus' = Tail(bus) BY <3>7 DEF TakeRequest
      <4>2. /\ m # l => View(l)' = View(l)
            /\ m = l => View(l)' = IF y = "ask" THEN View(l) \cup {j} ELSE View(l) \ {j}
        BY <2>1, <3>7, TakenView
      <4>3. CASE m # l \/ j # k
        <5>1. Head(bus) \notin {Request("ask", l, k), Request("answer", l, k)}
          BY <4>3 DEF Request
        <5>2. k \in View(l)' <=> k \in View(l) BY <4>2, <4>3
        <5> QED BY <2>1, <3>1, <4>1, <5>1, <5>2, TakenEvent
      <4>4. CASE m = l /\ j = k
        <5>1. \/ Head(bus) = Request("ask", l, k) /\ k \in View(l)'
              \/ Head(bus) = Request("answer", l, k) /\ k \notin View(l)'
          BY <4>2, <4>4
        <5> QED BY <2>1, <3>1, <4>1, <5>1, TakenEvent
      <4> QED BY <4>3, <4>4
    <3> QED BY <1>0, <3>3, <3>4, <3>5, <3>6, <3>7, BusSteps
  <2> QED BY <2>2, <2>3
<1> QED BY <1>1, <1>2

\* A launch that has just gone live has nothing to wait for.
LEMMA RowTellsFirst ==
  ASSUME TypeInv', GenInv', SetsArePrompted', NEW l \in Launches,
         launch'[l].pc = "prompt", row'[TaskOf(l)].status = "running"
  PROVE  RowTells(l)'
<1>1. View(l)' = {} /\ ~Flipping(l)'
  <2>1. Lit(l)' /\ l \notin prompted' BY DEF Lit, GenInv, PromptedReturned
  <2>2. launch'[l].seq # 0 BY DEF TypeInv, LaunchInv, LockedHasSeq, Locked
  <2>3. prompted' \subseteq Launches BY DEF TypeInv, HistoryOK
  <2>4. \A m \in prompted' : TaskOf(m) = TaskOf(l) => launch'[m].seq # launch'[l].seq
    BY <2>1, <2>3 DEF GenInv, LitApart, Lit, TaskOf
  <2>5. ~IsRun(TaskOf(l), SeqOf(l))' BY <2>4 DEF IsRun, SeqOf, TaskOf
  <2>6. TaskOf(l)' \in Tasks BY TaskOfType DEF TaskOf
  <2>7. awaiting'[TaskOf(l)].seq # launch'[l].seq
    BY <2>2, <2>5, <2>6 DEF SetsArePrompted, IsRun, SeqOf, TaskOf
  <2>8. ~Flipping(l)' BY <2>5 DEF SetsArePrompted, Flipping, IsRun, SeqOf, TaskOf
  <2> QED BY <2>7, <2>8 DEF View, SeqOf, TaskOf
<1>2. row'[TaskOf(l)].status # "awaiting" OBVIOUS
<1> QED BY <1>1, <1>2 DEF RowTells, TaskOf

\* The row of a run at work was live in its generation before.
LEMMA LiveBefore ==
  ASSUME TypeInv, TypeInv', GenInv, AgentInv, [Next]_vars, ~Crash,
         NEW l \in Launches, Working(l), Cas(TaskOf(l), Live, SeqOf(l))'
  PROVE  Cas(TaskOf(l), Live, SeqOf(l)) /\ SeqOf(l)' = SeqOf(l)
<1> DEFINE t == TaskOf(l)
<1>0. Lit(l) /\ t \in Tasks BY TaskOfType DEF Working, Lit, AgentInv, BusyIsPrompted
<1>1. SeqOf(l)' = SeqOf(l) BY <1>0, LitKeepsSeq
<1>2. row'[t].status \in Live /\ row'[t].seq = SeqOf(l) BY <1>1 DEF Cas, TaskOf, SeqOf
<1>3. row[t].status \in Live
  <2> SUFFICES ASSUME row[t].status \notin Live PROVE FALSE OBVIOUS
  <2>1. PICK m \in Launches : StillExpected(m) /\ TaskOf(m) = t /\ row'[t].seq = row[t].seq
    BY <1>0, <1>2, LiveComes DEF TypeInv
  <2>2. row[t].status \in Unlit BY <2>1 DEF StillExpected, Cas, Unlit
  <2> QED BY <1>0, <1>2, <2>1, <2>2 DEF GenInv, LitIsPastSetup, SeqOf
<1>4. row'[t].seq = row[t].seq BY <1>0, <1>2, <1>3, LiveStays
<1> QED BY <1>1, <1>2, <1>3, <1>4 DEF Cas

\* The row of a run at work follows the set.
LEMMA RowTellsStays ==
  ASSUME TypeInv, TypeInv', GenInv, AgentInv, RequestInv, [Next]_vars, ~Crash, ~lossy',
         NEW l \in Launches, Working(l), Working(l)', Cas(TaskOf(l), Live, SeqOf(l))'
  PROVE  RowTells(l)'
<1> DEFINE t == TaskOf(l)
<1>0. t \in Tasks /\ ~lossy BY TaskOfType, LossStays
<1>1. /\ Cas(t, Live, SeqOf(l)) /\ SeqOf(l)' = SeqOf(l)
      /\ row[t].status \in Live /\ row'[t].status \in Live
  BY LiveBefore DEF Cas, TaskOf
<1>2. RowTells(l) BY <1>0, <1>1 DEF RequestInv, RowsTell
<1>3. CASE TakeRequest
  <2> PICK y \in {"ask", "answer"}, m \in Launches, j \in Keys :
        /\ Head(bus) = Request(y, m, j) /\ m \in prompted
        /\ Head(bus).type = y /\ Head(bus).conn = m /\ Head(bus).key = j
    BY <1>3, HeadRequest DEF RequestInv
  <2>1. ~Flipping(l) /\ UNCHANGED <<row, agent, launch>>
    BY <1>3 DEF TakeRequest, LoopIdle, Idle, Flipping
  <2>2. row[t].status = "awaiting" <=> View(l) # {} BY <1>2, <2>1 DEF RowTells
  <2>3. SeqOf(l) = row[t].seq BY <1>1 DEF Cas
  <2>4. CASE m # l
    <3>1. View(l)' = View(l) /\ ~Flipping(l)' BY <1>3, <2>3, <2>4, TakenView
    <3> QED BY <2>1, <2>2, <3>1 DEF RowTells, TaskOf
  <2>5. CASE m = l
    <3> DEFINE now == IF y = "ask" THEN View(l) \cup {j} ELSE View(l) \ {j}
    <3>1. /\ View(l)' = now
          /\ IF Cardinality(now) = (IF y = "ask" THEN 1 ELSE 0)
             THEN Flipping(l)' /\ loop'.up = (y = "ask") ELSE ~Flipping(l)'
      BY <1>3, <2>3, <2>5, TakenView
    <3>2. agent[l] = "busy"
      <4>1. launch[l].pc # "prompt" BY <2>5 DEF GenInv, PromptedReturned
      <4> QED BY <4>1 DEF Working
    <3>3. Told(l, j) BY <1>0, <2>3, <3>2 DEF RequestInv, RequestsAreTold
    <3>4. bus # <<>> /\ bus \in Seq(Event) BY <1>3 DEF TakeRequest, TypeInv, ConnsOK
    <3>5. Holds(bus, Head(bus))
      <4>1. 1 \in 1..Len(bus) /\ Head(bus) = bus[1] BY <3>4
      <4> QED BY <4>1 DEF Holds
    <3>6. IsFiniteSet(View(l))
      BY <1>0, FS_EmptySet DEF View, RequestInv, SetsArePrompted
    <3>7. asks[l][j] \in {"no", "open", "closed"}
      BY DEF TypeInv, ConnsOK, AskStates
    <3>8. CASE y = "ask"
      <4>1. Holds(bus, Request("ask", l, j)) BY <2>5, <3>5, <3>8
      <4>2. j \notin View(l) BY <3>3, <3>7, <4>1 DEF Told
      <4>3. Cardinality(now) = Cardinality(View(l)) + 1
        BY <3>6, <3>8, <4>2, FS_AddElement
      <4>4. Cardinality(View(l)) \in Nat /\ (Cardinality(View(l)) = 0 <=> View(l) = {})
        BY <3>6, FS_CardinalityType, FS_EmptySet
      <4>5. Cardinality(now) = 1 <=> View(l) = {} BY <4>3, <4>4
      <4>6. now # {} BY <3>8
      <4> HIDE DEF now
      <4>7. CASE View(l) = {}
        <5>1. Flipping(l)' /\ loop'.up BY <3>1, <3>8, <4>5, <4>7
        <5>2. row'[t].status = "running" BY <1>1, <2>1, <2>2, <4>7 DEF Live
        <5> QED BY <3>1, <4>6, <5>1, <5>2 DEF RowTells, TaskOf
      <4>8. CASE View(l) # {}
        <5>1. ~Flipping(l)' BY <3>1, <3>8, <4>5, <4>8
        <5>2. row'[t].status = "awaiting" BY <2>1, <2>2, <4>8
        <5> QED BY <3>1, <4>6, <5>1, <5>2 DEF RowTells, TaskOf
      <4> QED BY <4>7, <4>8
    <3>9. CASE y = "answer"
      <4>1. Holds(bus, Request("answer", l, j)) BY <2>5, <3>5, <3>9
      <4>2. ~Holds(bus, Request("ask", l, j))
        <5>1. /\ Single(bus, Request("ask", l, j))
              /\ Before(bus, Request("ask", l, j), Request("answer", l, j))
              /\ Head(bus) = Request("answer", l, j)
          BY <2>5, <3>3, <3>9 DEF Told
        <5> QED BY <3>4, <5>1, TailHolds
      <4>3. j \in View(l) BY <3>3, <3>7, <4>1, <4>2 DEF Told
      <4>4. IsFiniteSet(now) BY <3>6, <3>9, FS_RemoveElement
      <4>5. Cardinality(now) = 0 <=> now = {} BY <4>4, FS_EmptySet
      <4>6. row'[t].status = "awaiting"
        <5>1. View(l) # {} BY <4>3
        <5> QED BY <2>1, <2>2, <5>1
      <4> HIDE DEF now
      <4>7. CASE now = {}
        <5>1. Flipping(l)' /\ ~loop'.up BY <3>1, <3>9, <4>5, <4>7
        <5> QED BY <3>1, <4>6, <4>7, <5>1 DEF RowTells, TaskOf
      <4>8. CASE now # {}
        <5>1. ~Flipping(l)' BY <3>1, <3>9, <4>5, <4>8
        <5> QED BY <3>1, <4>6, <4>8, <5>1 DEF RowTells, TaskOf
      <4> QED BY <4>7, <4>8
    <3> QED BY <3>8, <3>9
  <2> QED BY <2>4, <2>5
<1>4. CASE ~TakeRequest
  <2>1. View(l)' = View(l) BY <1>4, ViewStays
  <2>2. CASE Flip
    <3>1. loop'.pc = "idle" BY <2>2 DEF Flip, Idle
    <3>2. ~Flipping(l)' BY <3>1 DEF Flipping
    <3>3. CASE Flipping(l)
      <4>1. /\ row[t].status = IF loop.up THEN "running" ELSE "awaiting"
            /\ loop.up <=> View(l) # {}
        BY <1>2, <3>3 DEF RowTells
      <4>2. loop.task = t /\ row[t].seq = loop.seq BY <1>1, <3>3 DEF Flipping, Cas
      <4>3. row'[t].status = IF loop.up THEN "awaiting" ELSE "running"
        BY <1>0, <2>2, <4>1, <4>2 DEF Flip, Cas, TypeInv, RowInv, Row
      <4> QED BY <2>1, <3>2, <4>1, <4>3 DEF RowTells, TaskOf
    <3>4. CASE ~Flipping(l)
      <4>1. loop.task # t \/ row[t].seq # loop.seq
        BY <1>1, <2>2, <3>4 DEF Flip, Flipping, Cas
      <4>2. row'[t].status = row[t].status
        BY <1>0, <2>2, <4>1 DEF Flip, Cas, TypeInv, RowInv, Row
      <4>3. row[t].status = "awaiting" <=> View(l) # {} BY <1>2, <3>4 DEF RowTells
      <4> QED BY <2>1, <3>2, <4>2, <4>3 DEF RowTells, TaskOf
    <3> QED BY <3>3, <3>4
  <2>3. CASE ~Flip
    <3>1. row'[t].status = row[t].status BY <1>0, <1>1, <2>3, LiveFlips
    <3>2. UNCHANGED loop \/ (loop.pc # "flip" /\ loop'.pc # "flip")
      BY <1>4, <2>3, FlipSteps
    <3>3. /\ Flipping(l)' <=> Flipping(l)
          /\ Flipping(l) => UNCHANGED loop
      BY <1>1, <3>2 DEF Flipping, TaskOf
    <3> QED BY <1>2, <2>1, <3>1, <3>3 DEF RowTells, TaskOf
  <2> QED BY <2>2, <2>3
<1> QED BY <1>3, <1>4

\* Every row follows the set of its run.
LEMMA RowsTellNext ==
  ASSUME TypeInv, TypeInv', GenInv, GenInv', AgentInv, RequestInv, SetsArePrompted',
         [Next]_vars, ~Crash, ~lossy'
  PROVE  RowsTell'
<1> SUFFICES ASSUME NEW l \in Launches, Working(l)', Cas(TaskOf(l), Live, SeqOf(l))'
             PROVE  RowTells(l)'
  BY DEF RowsTell, TaskOf, SeqOf
<1>1. CASE Working(l) BY <1>1, RowTellsStays
<1>2. CASE ~Working(l)
  <2>1. agent'[l] # "busy"
    BY <1>2, EveryAgentMoves DEF AgentMove, Working, Prompt, At
  <2>2. launch'[l].pc = "prompt" /\ agent'[l] = "up" BY <2>1 DEF Working
  <2>3. agent[l] = "up" BY <2>2, EveryAgentMoves DEF AgentMove
  <2>4. launch[l].pc # "prompt" BY <1>2, <2>3 DEF Working
  <2>5. Forward(l) \/ Trouble(l) \/ SetupDone(l) BY <2>2, <2>4, EveryLaunchMoves
  <2>6. Mark(l) /\ StillExpected(l) BY <2>2, <2>5, PcComes
  <2>7. row'[TaskOf(l)].status = "running"
    BY <2>6, TaskOfType DEF Mark, GoLive, TypeInv, RowInv, Row
  <2> QED BY <2>2, <2>7, RowTellsFirst
<1> QED BY <1>1, <1>2

\* A crash leaves no event, no set and no agent.
LEMMA RequestCrash == ASSUME TypeInv, RequestInv, Crash PROVE RequestInv'
<1>1. /\ bus' = <<>> /\ loop'.pc = "idle" /\ UNCHANGED <<row, prompted>>
      /\ \A l \in Launches : /\ agent'[l] \notin {"up", "busy"}
                             /\ asks'[l] = [k \in Keys |-> "no"]
      /\ \A t \in Tasks : awaiting'[t].seq = 0 /\ awaiting'[t].keys = {}
  BY DEF Crash, Idle
<1>2. RequestsArePrompted' BY <1>1 DEF RequestsArePrompted
<1>3. UnpromptedIsQuiet' BY <1>1 DEF UnpromptedIsQuiet
<1>4. SetsArePrompted' BY <1>1, FS_EmptySet DEF SetsArePrompted
<1>5. LiveNamesItsRun'
  <2> SUFFICES ASSUME NEW t \in Tasks, row[t].status \in Live
               PROVE  /\ TaskOf(row[t].conn) = t /\ launch'[row[t].conn].seq = row[t].seq
                      /\ launch'[row[t].conn].pc \notin Unspawned
    BY <1>1 DEF LiveNamesItsRun, TaskOf, SeqOf
  <2>1. PICK l \in Launches : row[t].conn = l BY DEF TypeInv, RowInv, LiveIsBound
  <2>2. /\ TaskOf(l) = t /\ launch[l].seq = row[t].seq /\ launch[l].pc \notin Unspawned
    BY <2>1 DEF RequestInv, LiveNamesItsRun, SeqOf
  <2>3. launch'[l].seq = launch[l].seq /\ launch'[l].pc \notin Unspawned
    BY <2>2 DEF Crash, Unspawned, TypeInv, LaunchInv, Launch
  <2> QED BY <2>1, <2>2, <2>3
<1>6. RequestsAreTold' BY <1>1 DEF RequestsAreTold
<1>7. RowsTell' BY <1>1 DEF RowsTell, Working
<1> QED BY <1>2, <1>3, <1>4, <1>5, <1>6, <1>7 DEF RequestInv

\* RequestInv is inductive relative to types, generations and agents.
LEMMA RequestNext ==
  ASSUME TypeInv, TypeInv', GenInv, GenInv', AgentInv, RequestInv, [Next]_vars
  PROVE  RequestInv'
<1>1. CASE Crash BY <1>1, RequestCrash
<1>2. CASE ~Crash
  <2>1. SetsArePrompted' BY <1>2, SetsNext
  <2>2. RequestsArePrompted' /\ UnpromptedIsQuiet' /\ LiveNamesItsRun'
    BY <1>2, RequestsPromptedNext, UnpromptedNext, LiveNamesNext
  <2>3. ASSUME ~lossy' PROVE RequestsAreTold' /\ RowsTell'
    BY <1>2, <2>1, <2>3, ToldNext, RowsTellNext
  <2> QED BY <2>1, <2>2, <2>3 DEF RequestInv
<1> QED BY <1>1, <1>2

\* Every request of a run at work is on the bus or in the engine's set, and the row
\* follows the set, with what this rests on.
THEOREM RequestInvariant == Spec => []RequestInv
<1>1. TypeInv /\ TypeInv' /\ GenInv /\ GenInv' /\ AgentInv /\ RequestInv /\ [Next]_vars
        => RequestInv'
  BY RequestNext
<1> QED BY RequestInit, TypeInvariant, GenInvariant, AgentInvariant, <1>1, PTL DEF Spec

\* The board tells the truth about who is waiting: whatever is retired, cancelled,
\* launched again or restarted meanwhile, once the events of a run are consumed its
\* row reads awaiting exactly when its agent has a request open (track_request,
\* flip_awaiting, retire_connection), in a process that has lost neither an event
\* nor the requests of a run.
THEOREM BoardTellsTruth == Spec => []AwaitingIsAccurate
<1>1. ASSUME TypeInv, AgentInv, RequestInv PROVE AwaitingIsAccurate
  <2> SUFFICES ASSUME NEW t \in Tasks, row[t].status \in Live, agent[row[t].conn] = "busy",
                      row[t].conn \in index, loop = Idle,
                      \A i \in 1..Len(bus) : bus[i].conn # row[t].conn, ~lossy
               PROVE  row[t].status = "awaiting"
                        <=> \E k \in Keys : asks[row[t].conn][k] = "open"
    BY <1>1 DEF AwaitingIsAccurate
  <2> USE <1>1
  <2>1. PICK l \in Launches : row[t].conn = l BY DEF TypeInv, RowInv, LiveIsBound
  <2>2. TaskOf(l) = t /\ SeqOf(l) = row[t].seq
    BY <2>1 DEF RequestInv, LiveNamesItsRun
  <2>3. RowTells(l)
    BY <2>1, <2>2 DEF RequestInv, RowsTell, Working, Cas
  <2>4. row[t].status = "awaiting" <=> View(l) # {}
    BY <2>2, <2>3 DEF RowTells, Flipping, Idle
  <2>5. \A k \in Keys : Told(l, k)
    BY <2>1, <2>2 DEF RequestInv, RequestsAreTold
  <2>6. \A k \in Keys : ~Holds(bus, Request("ask", l, k)) /\ ~Holds(bus, Request("answer", l, k))
    BY <2>1 DEF Holds, Request
  <2>7. \A k \in Keys : asks[l][k] \in {"no", "open", "closed"}
    BY DEF TypeInv, ConnsOK, AskStates
  <2>8. \A k \in Keys : asks[l][k] = "open" <=> k \in View(l)
    BY <2>5, <2>6, <2>7 DEF Told
  <2>9. View(l) \subseteq Keys BY <2>2 DEF View, TypeInv, MemoryOK
  <2> QED BY <2>1, <2>4, <2>8, <2>9
<1> QED BY TypeInvariant, AgentInvariant, RequestInvariant, <1>1, PTL
=============================================================================
