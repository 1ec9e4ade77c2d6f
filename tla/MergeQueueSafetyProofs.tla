------------------------ MODULE MergeQueueSafetyProofs ------------------------
(***************************************************************************)
(* What the merge queue promises.  Every step moves a task in one of a few *)
(* ways (Moves), each with a guard on the state it starts from; the safety *)
(* properties are read from the moves, the types of MergeQueueProofs, and  *)
(* from who holds the folder's lock.                                       *)
(***************************************************************************)
EXTENDS MergeQueueProofs

----------------------------------------------------------------------------
(* What a step may do to a task *)

SameRound(t) == row'[t].seq = row[t].seq /\ row'[t].kind = row[t].kind
SameOp(t)    == row'[t].op = row[t].op /\ row'[t].opt = row[t].opt
SameAsk(t)   == row'[t].pending = row[t].pending /\ wish'[t] = wish[t]
SameFlag(t)  == row'[t].error = row[t].error /\ (t \in latched' <=> t \in latched)
Goes(t, from, to) == row[t].status = from /\ row'[t].status = to

Still(t) == /\ row'[t].status = row[t].status
            /\ SameRound(t) /\ SameOp(t) /\ SameAsk(t) /\ SameFlag(t)
Reparked(t) == /\ Goes(t, "review", "review") /\ SameRound(t) /\ SameOp(t)
               /\ row'[t].pending.opt = wish'[t] /\ t \notin latched'
Withdrawn(t) == /\ Parked(t) /\ row'[t].status = row[t].status
                /\ SameRound(t) /\ SameOp(t) /\ SameFlag(t)
                /\ row'[t].pending = NoIntent /\ wish'[t] = "none"
Bannered(t) == /\ Goes(t, "review", "review") /\ SameRound(t) /\ SameOp(t) /\ SameAsk(t)
               /\ row'[t].error
TakenBack(t) == /\ Goes(t, "review", "queued")
                /\ row'[t].seq = row[t].seq + 1 /\ row'[t].kind = row[t].kind
                /\ row'[t].pending = NoIntent /\ wish'[t] = "none" /\ t \notin latched'
Reworked(t) == /\ \/ Goes(t, "queued", "preparing") \/ Goes(t, "preparing", "running")
                  \/ Goes(t, "running", "review")
               /\ SameRound(t) /\ SameAsk(t) /\ SameFlag(t)
Accepted(t) == /\ Goes(t, "review", "done") /\ row'[t].kind = "accepted"
               /\ row'[t].seq = row[t].seq
BegunBy(d, t) ==
  /\ At(d, "begin") /\ dsp[d].task = t /\ Mergeable(d) /\ Goes(t, "review", "merging")
  /\ row'[t].seq = row[t].seq + 1 /\ row'[t].kind = row[t].kind
  /\ row'[t].op = "land" /\ row'[t].opt = dsp[d].opt /\ row'[t].pending = NoIntent
  /\ wish'[t] = IF dsp[d].role = "click" THEN dsp[d].opt ELSE wish[t]
  /\ t \in latched' => t \in latched
  /\ Rest(d)
DeliveryBegun(t) == /\ Goes(t, "review", "merging") /\ row'[t].op = "deliver"
                    /\ row'[t].seq = row[t].seq + 1 /\ row'[t].kind = row[t].kind
                    /\ SameAsk(t) /\ t \notin latched'
Bounced(t) == /\ Goes(t, "merging", "review") /\ SameRound(t) /\ row'[t].error
              /\ row'[t].pending = row[t].pending
              /\ wish'[t] = IF Parked(t) THEN wish[t] ELSE "none"
HasLanded(t) == /\ Goes(t, "merging", "done") /\ t \in base
                /\ row'[t].kind = "merged" /\ row'[t].seq = row[t].seq
HasDelivered(t) ==
  /\ Goes(t, "merging", "done")
  /\ row'[t].kind = "delivered" /\ row'[t].seq = row[t].seq
  /\ \/ t \in pushed
     \/ delivery[t].pc = "settle" /\ row[t].seq = delivery[t].seq

Ends(t) == Bounced(t) \/ HasLanded(t) \/ HasDelivered(t)
Begins(t) == DeliveryBegun(t) \/ \E d \in Dispatchers : BegunBy(d, t)
Moves(t) == \/ Still(t) \/ Reparked(t) \/ Withdrawn(t) \/ Bannered(t) \/ TakenBack(t)
            \/ Reworked(t) \/ Accepted(t) \/ Begins(t) \/ Ends(t)

\* A task whose row and history stay has not moved.
LEMMA StaysStill ==
  ASSUME NEW t \in Tasks, row'[t] = row[t], wish'[t] = wish[t], t \in latched' <=> t \in latched
  PROVE  Still(t)
BY DEF Still, SameRound, SameOp, SameAsk, SameFlag

\* A step that leaves the table alone moves no task.
LEMMA TableStill == ASSUME NEW t \in Tasks, UNCHANGED table PROVE Still(t)
BY StaysStill DEF table

\* What the moves are read from.
LEMMA RowsAreTyped ==
  ASSUME TypeInv
  PROVE  /\ row \in [Tasks -> Row] /\ wish \in [Tasks -> Intents \cup {"none"}]
         /\ latched \in SUBSET Tasks
BY DEF TypeInv, Types, RowType, QueueType

\* A landing or a bounce moves its task, when it is merging.
LEMMA OutcomeMoves ==
  ASSUME TypeInv, NEW u \in Tasks, row[u].status = "merging",
         (Landed(u) /\ u \in base) \/ Bounce(u), NEW t \in Tasks
  PROVE  Still(t) \/ Ends(t)
<1> USE RowsAreTyped
<1>1. CASE t # u
  <2>1. row'[t] = row[t] /\ wish'[t] = wish[t] /\ (t \in latched' <=> t \in latched)
    BY <1>1 DEF Landed, Bounce
  <2> QED BY <2>1, StaysStill
<1>2. CASE t = u /\ Landed(u) /\ u \in base
  BY <1>2 DEF Ends, HasLanded, Goes, Landed, Row
<1>3. CASE t = u /\ Bounce(u)
  BY <1>3 DEF Ends, Bounced, Goes, Bounce, SameRound, Row, Parked
<1> QED BY <1>1, <1>2, <1>3

\* So does a settle.
LEMMA SettleMoves ==
  ASSUME TypeInv, NEW u \in Tasks, NEW pre, SettleFromGit(u, pre) \/ BackToReview(u),
         NEW t \in Tasks
  PROVE  Still(t) \/ Ends(t)
BY OutcomeMoves, TableStill DEF SettleFromGit, BackToReview, LandedCommit

\* A delivery that is taken for done moves its task.
LEMMA DeliveredMoves ==
  ASSUME TypeInv, NEW u \in Tasks, NEW s, Delivered(u, s),
         u \in pushed \/ (delivery[u].pc = "settle" /\ s = delivery[u].seq), NEW t \in Tasks
  PROVE  Still(t) \/ Ends(t)
<1> USE RowsAreTyped
<1>1. CASE ~Merging(u, s) BY <1>1, TableStill DEF Delivered
<1>2. CASE Merging(u, s)
  <2>1. CASE t # u
    <3>1. row'[t] = row[t] /\ wish'[t] = wish[t] /\ (t \in latched' <=> t \in latched)
      BY <1>2, <2>1 DEF Delivered
    <3> QED BY <3>1, StaysStill
  <2>2. CASE t = u
    <3>1. row[u].status = "merging" /\ row[u].seq = s BY <1>2 DEF Merging
    <3>2. /\ row'[u].status = "done" /\ row'[u].kind = "delivered"
          /\ row'[u].seq = row[u].seq
      <4>1. row' = [row EXCEPT ![u].status = "done", ![u].kind = "delivered",
                               ![u].error = FALSE]
        BY <1>2 DEF Delivered
      <4> QED BY <4>1 DEF Row
    <3>3. \/ u \in pushed
          \/ delivery[u].pc = "settle" /\ row[u].seq = delivery[u].seq
      BY <3>1
    <3>4. HasDelivered(u) BY <3>1, <3>2, <3>3 DEF HasDelivered, Goes
    <3> QED BY <2>2, <3>4 DEF Ends
  <2> QED BY <2>1, <2>2
<1> QED BY <1>1, <1>2

\* A dispatcher moves tasks by parking, beginning, withdrawing or refusing a merge.
LEMMA PumpMoves ==
  ASSUME TypeInv, NEW d \in Dispatchers, Pump(d) \/ Refused(d), NEW t \in Tasks
  PROVE  Moves(t)
<1> USE RowsAreTyped DEF At
<1> DEFINE u == dsp[d].task
<1>1. dsp[d].pc \in OrderPcs => u \in Tasks /\ dsp[d] \in Order
  BY OrderOf DEF Order
<1>2. CASE \/ Scan(d) \/ DrainNext(d) \/ DrainEmpty(d) \/ AutoRead(d) \/ TakeLock(d)
           \/ Check(d) \/ Refused(d)
  <2>1. UNCHANGED table
    BY <1>2 DEF Scan, DrainNext, DrainEmpty, AutoRead, TakeLock, Check, Refused
  <2> QED BY <2>1, TableStill DEF Moves
<1>3. CASE Park(d)
  <2>1. CASE UNCHANGED table BY <2>1, TableStill DEF Moves
  <2>2. CASE ~UNCHANGED table
    <3> DEFINE place == IF dsp[d].role = "queue" THEN dsp[d].claim.at
                        ELSE IF dsp[d].kept # 0 THEN dsp[d].kept ELSE clock + 1
    <3>1. /\ InReview(u, dsp[d].seq)
          /\ row' = [row EXCEPT ![u].pending = [opt |-> dsp[d].opt, at |-> place],
                                ![u].error = FALSE]
          /\ wish' = [wish EXCEPT ![u] = dsp[d].opt]
          /\ latched' = latched \ {u}
      BY <1>3, <2>2 DEF Park
    <3> HIDE DEF place
    <3>2. u \in Tasks BY <1>1, <1>3 DEF Park, OrderPcs, Locked
    <3> HIDE DEF u
    <3>3. CASE t = u
      BY <3>1, <3>2, <3>3 DEF Moves, Reparked, Goes, SameRound, SameOp, InReview, Row
    <3>4. CASE t # u
      <4>1. row'[t] = row[t] /\ wish'[t] = wish[t] /\ (t \in latched' <=> t \in latched)
        BY <3>1, <3>2, <3>4
      <4> QED BY <4>1, StaysStill DEF Moves
    <3> QED BY <3>3, <3>4
  <2> QED BY <2>1, <2>2
<1>4. CASE Begin(d)
  <2>1. CASE ~Mergeable(d)
    <3>1. UNCHANGED table BY <1>4, <2>1 DEF Begin
    <3> QED BY <3>1, TableStill DEF Moves
  <2>2. CASE Mergeable(d)
    <3>1. /\ row' = [row EXCEPT ![u] =
                       [status |-> "merging", seq |-> @.seq + 1, conn |-> 0,
                        error |-> FALSE, pending |-> NoIntent, op |-> "land",
                        opt |-> dsp[d].opt, pre |-> head, kind |-> @.kind]]
          /\ wish' = IF dsp[d].role = "click" THEN [wish EXCEPT ![u] = dsp[d].opt] ELSE wish
          /\ latched' = IF dsp[d].role = "click" THEN latched \ {u} ELSE latched
          /\ dsp[d].pc = "begin" /\ Rest(d)
      BY <1>4, <2>2 DEF Begin
    <3>2. u \in Tasks BY <1>1, <3>1 DEF OrderPcs, Locked
    <3>3. CASE t = u
      <4>1. row[u].status = "review" BY <2>2 DEF Mergeable, InReview
      <4>2. BegunBy(d, u)
        BY <2>2, <3>1, <3>2, <4>1 DEF BegunBy, Goes
      <4> QED BY <3>3, <4>2 DEF Moves, Begins
    <3>4. CASE t # u
      <4>1. row'[t] = row[t] /\ wish'[t] = wish[t] /\ (t \in latched' <=> t \in latched)
        BY <3>1, <3>2, <3>4
      <4> QED BY <4>1, StaysStill DEF Moves
    <3> QED BY <3>3, <3>4
  <2> QED BY <2>1, <2>2
<1>5. CASE RefuseClear(d)
  <2>1. u \in Tasks /\ Orderly(dsp[d], clock) /\ dsp[d].pc = "refuse"
    BY <1>1, <1>5, OrderOf DEF RefuseClear, OrderPcs
  <2>2. latched' = latched BY <1>5 DEF RefuseClear
  <2>3. CASE row[u].pending = dsp[d].claim
    <3>1. /\ row' = [row EXCEPT ![u].pending = NoIntent]
          /\ wish' = [wish EXCEPT ![u] = "none"]
      BY <1>5, <2>3 DEF RefuseClear
    <3>2. dsp[d].claim \in Queued
      BY <1>1, <2>1 DEF Orderly, IsSound, OrderPcs, Order
    <3>3. Parked(u) BY <2>3, <3>2, Bounds DEF Parked, NoIntent, Queued
    <3> HIDE DEF u
    <3>4. CASE t = u
      BY <2>1, <2>2, <3>1, <3>3, <3>4 DEF Moves, Withdrawn, SameRound, SameOp, SameFlag, Row
    <3>5. CASE t # u
      <4>1. row'[t] = row[t] /\ wish'[t] = wish[t]
        BY <2>1, <3>1, <3>5
      <4> QED BY <2>2, <4>1, StaysStill DEF Moves
    <3> QED BY <3>4, <3>5
  <2>4. CASE row[u].pending # dsp[d].claim
    <3>1. row' = row /\ wish' = wish BY <1>5, <2>4 DEF RefuseClear
    <3> QED BY <2>2, <3>1, StaysStill DEF Moves
  <2> QED BY <2>3, <2>4
<1>6. CASE Banner(d)
  <2>1. u \in Tasks BY <1>1, <1>6 DEF Banner, OrderPcs
  <2>2. wish' = wish BY <1>6 DEF Banner
  <2>3. CASE InReview(u, dsp[d].scanned)
    <3>1. row' = [row EXCEPT ![u].error = TRUE] /\ latched' = latched \cup {u}
      BY <1>6, <2>3 DEF Banner
    <3>2. row[u].status = "review" BY <2>3 DEF InReview
    <3> HIDE DEF u
    <3>3. CASE t = u
      BY <2>1, <2>2, <3>1, <3>2, <3>3
         DEF Moves, Bannered, Goes, SameRound, SameOp, SameAsk, Row
    <3>4. CASE t # u
      <4>1. row'[t] = row[t] /\ (t \in latched' <=> t \in latched) BY <2>1, <3>1, <3>4
      <4> QED BY <2>2, <4>1, StaysStill DEF Moves
    <3> QED BY <3>3, <3>4
  <2>4. CASE ~InReview(u, dsp[d].scanned)
    <3>1. row' = row /\ latched' = latched BY <1>6, <2>4 DEF Banner
    <3> QED BY <2>2, <3>1, StaysStill DEF Moves
  <2> QED BY <2>3, <2>4
<1> QED BY <1>2, <1>3, <1>4, <1>5, <1>6 DEF Pump

\* The user moves a task by withdrawing its merge, taking it back or accepting it.
LEMMA UserMoves ==
  ASSUME TypeInv, NEW u \in Tasks, User(u) \/ Rework(u), NEW t \in Tasks
  PROVE  Moves(t)
<1> USE RowsAreTyped
<1>1. CASE Deliver(u) \/ \E d \in Dispatchers, i \in Intents : Click(d, u, i)
  <2>1. UNCHANGED table BY <1>1 DEF Deliver, Click
  <2> QED BY <2>1, TableStill DEF Moves
<1>2. CASE t # u /\ (Unqueue(u) \/ TakeBack(u) \/ Complete(u) \/ Rework(u))
  <2>1. row'[t] = row[t] /\ wish'[t] = wish[t] /\ (t \in latched' <=> t \in latched)
    BY <1>2 DEF Unqueue, TakeBack, Complete, Rework, SetUp, GoLive, SettleReview
  <2> QED BY <2>1, StaysStill DEF Moves
<1>3. CASE t = u /\ Unqueue(u)
  <2>1. Withdrawn(u) BY <1>3 DEF Unqueue, Withdrawn, SameRound, SameOp, SameFlag, Row
  <2> QED BY <1>3, <2>1 DEF Moves
<1>4. CASE t = u /\ TakeBack(u)
  <2>1. TakenBack(u) BY <1>4 DEF TakeBack, TakenBack, Goes, Row
  <2> QED BY <1>4, <2>1 DEF Moves
<1>5. CASE t = u /\ Complete(u)
  <2>1. Accepted(u) BY <1>5 DEF Complete, Accepted, Goes, Row
  <2> QED BY <1>5, <2>1 DEF Moves
<1>6. CASE t = u /\ Rework(u)
  <2>1. Reworked(u)
    BY <1>6 DEF Rework, SetUp, GoLive, SettleReview, Reworked, Goes, SameRound, SameAsk,
                SameFlag, Row
  <2> QED BY <1>6, <2>1 DEF Moves
<1> QED BY <1>1, <1>2, <1>3, <1>4, <1>5, <1>6 DEF User

\* A launch names its connection on the row; one that fails sends the task back.
LEMMA LaunchMoves ==
  ASSUME TypeInv, NEW u \in Tasks, LaunchStep(u) \/ LaunchError(u), NEW t \in Tasks
  PROVE  Moves(t)
<1> USE RowsAreTyped
<1>1. CASE \/ LaunchStart(u) \/ LaunchSpawn(u) \/ LaunchPrompt(u) \/ LaunchRelease(u)
           \/ LaunchError(u)
  <2>1. UNCHANGED table
    BY <1>1 DEF LaunchStart, LaunchSpawn, LaunchPrompt, LaunchRelease, LaunchError
  <2> QED BY <2>1, TableStill DEF Moves
<1>2. CASE LaunchFail(u)
  <2>1. BackToReview(u) BY <1>2 DEF LaunchFail
  <2> QED BY <2>1, SettleMoves DEF Moves
<1>3. CASE LaunchBind(u) \/ LaunchMark(u)
  <2>1. /\ row' = [row EXCEPT ![u].conn = Gen(u)] \/ row' = row
        /\ wish' = wish /\ latched' = latched
    BY <1>3 DEF LaunchBind, LaunchMark
  <2>2. Still(t)
    BY <2>1 DEF Still, SameRound, SameOp, SameAsk, SameFlag, Row
  <2> QED BY <2>2 DEF Moves
<1> QED BY <1>1, <1>2, <1>3 DEF LaunchStep

\* The event loop moves a task by settling it.
LEMMA LoopMoves == ASSUME TypeInv, LoopStep, NEW t \in Tasks PROVE Moves(t)
<1>1. CASE ReadTurn \/ \E c \in turns : TakeTurn(c)
  <2>1. UNCHANGED table BY <1>1 DEF ReadTurn, TakeTurn
  <2> QED BY <2>1, TableStill DEF Moves
<1>2. CASE Settle
  <2>1. SettleFromGit(loop.task, loop.pre) /\ loop.pc = "settle" BY <1>2 DEF Settle
  <2>2. loop.task \in Tasks BY <2>1 DEF TypeInv, Types, LoopType, LoopState
  <2> QED BY <2>1, <2>2, SettleMoves DEF Moves
<1> QED BY <1>1, <1>2 DEF LoopStep

\* Recovery moves a task by settling it, or by what the forge says of its delivery.
LEMMA RecoverMoves ==
  ASSUME TypeInv, NEW u \in Tasks, RecoverList(u) \/ RecoverStep(u), NEW t \in Tasks
  PROVE  Moves(t)
<1>1. CASE RecoverList(u) \/ RecoverCheck(u) \/ RecoverRead(u)
  <2>1. UNCHANGED table BY <1>1 DEF RecoverList, RecoverCheck, RecoverRead
  <2> QED BY <2>1, TableStill DEF Moves
<1>2. CASE RecoverSettle(u)
  <2>1. SettleFromGit(u, recovery[u].pre) \/ UNCHANGED table BY <1>2 DEF RecoverSettle
  <2> QED BY <2>1, TableStill, SettleMoves DEF Moves
<1>3. CASE RecoverDelivery(u)
  <2>1. CASE u \in pushed /\ Delivered(u, recovery[u].seq)
    BY <2>1, DeliveredMoves DEF Moves
  <2>2. CASE UNCHANGED table BY <2>2, TableStill DEF Moves
  <2>3. CASE row[u].status = "merging" /\ Bounce(u) BY <2>3, OutcomeMoves DEF Moves
  <2> QED BY <1>3, <2>1, <2>2, <2>3 DEF RecoverDelivery, Merging
<1> QED BY <1>1, <1>2, <1>3 DEF RecoverStep

\* A delivery begins, is taken for done or sends its task back.
LEMMA DeliverMoves ==
  ASSUME TypeInv, NEW u \in Tasks, DeliverStep(u), NEW t \in Tasks
  PROVE  Moves(t)
<1> USE RowsAreTyped
<1>1. CASE DeliverClaim(u) \/ DeliverPush(u)
  <2>1. UNCHANGED table BY <1>1 DEF DeliverClaim, DeliverPush
  <2> QED BY <2>1, TableStill DEF Moves
<1>2. CASE DeliverBegin(u)
  <2>1. CASE ~InReview(u, delivery[u].seq)
    <3>1. UNCHANGED table BY <1>2, <2>1 DEF DeliverBegin
    <3> QED BY <3>1, TableStill DEF Moves
  <2>2. CASE InReview(u, delivery[u].seq)
    <3>1. /\ row' = [row EXCEPT ![u].status = "merging", ![u].seq = @ + 1,
                       ![u].conn = 0, ![u].error = FALSE, ![u].op = "deliver"]
          /\ latched' = latched \ {u} /\ wish' = wish
      BY <1>2, <2>2 DEF DeliverBegin
    <3>2. row[u].status = "review" BY <2>2 DEF InReview
    <3>3. CASE t # u
      <4>1. row'[t] = row[t] /\ (t \in latched' <=> t \in latched) BY <3>1, <3>3
      <4> QED BY <3>1, <4>1, StaysStill DEF Moves
    <3>4. CASE t = u
      <4>1. /\ row'[u].status = "merging" /\ row'[u].op = "deliver"
            /\ row'[u].seq = row[u].seq + 1 /\ row'[u].kind = row[u].kind
            /\ row'[u].pending = row[u].pending
        BY <3>1 DEF Row
      <4>2. DeliveryBegun(u)
        BY <3>1, <3>2, <4>1 DEF DeliveryBegun, Goes, SameAsk
      <4> QED BY <3>4, <4>2 DEF Moves, Begins
    <3> QED BY <3>3, <3>4
  <2> QED BY <2>1, <2>2
<1>3. CASE DeliverSettle(u)
  BY <1>3, DeliveredMoves DEF DeliverSettle, Delivering, Moves
<1>4. CASE DeliverBounce(u)
  <2>1. BackToReview(u) BY <1>4 DEF DeliverBounce
  <2> QED BY <2>1, SettleMoves DEF Moves
<1> QED BY <1>1, <1>2, <1>3, <1>4 DEF DeliverStep

\* Every step moves every task in one of these ways, or leaves it still.
LEMMA StepMoves == ASSUME TypeInv, [Next]_vars, NEW t \in Tasks PROVE Moves(t)
<1>1. CASE \E d \in Dispatchers : Pump(d) \/ Refused(d) BY <1>1, PumpMoves
<1>2. ASSUME NEW u \in Tasks,
             \/ User(u) \/ Rework(u) \/ LaunchStep(u) \/ LaunchError(u) \/ DeliverStep(u)
             \/ RecoverList(u) \/ RecoverStep(u)
      PROVE  Moves(t)
  BY <1>2, UserMoves, LaunchMoves, DeliverMoves, RecoverMoves
<1>3. CASE LoopStep BY <1>3, LoopMoves
<1>4. CASE \/ \E u \in Tasks, s \in Seqs : AgentStep(u, s)
           \/ \E c \in turns : LoseTurn(c)
           \/ Commit \/ Crash \/ UNCHANGED vars
  <2>1. UNCHANGED table
    BY <1>4 DEF AgentStep, AgentLands, AgentEnds, AgentDies, SweepIdle, LoseTurn, Commit, Crash,
                vars
  <2> QED BY <2>1, TableStill DEF Moves
<1> QED BY <1>1, <1>2, <1>3, <1>4 DEF Next

----------------------------------------------------------------------------
(* The user's last word *)

\* Where it is kept, status by status.
WishIsKept ==
  \A t \in Tasks :
    /\ row[t].status \in Afoot => row[t].pending = NoIntent /\ wish[t] = "none"
    /\ row[t].status = "merging" =>
         /\ row[t].op \in {"land", "deliver"}
         /\ row[t].op = "land" => row[t].pending = NoIntent
         /\ row[t].op = "deliver" => row[t].pending.opt = wish[t]
WishInv == LastWordWins /\ WishIsKept

\* What both say of one task.
WishOf(t) ==
  /\ Landing(t) => row[t].opt = IF wish[t] = "none" THEN "auto" ELSE wish[t]
  /\ row[t].status = "review" => row[t].pending.opt = wish[t]
  /\ row[t].status \in Afoot => row[t].pending = NoIntent /\ wish[t] = "none"
  /\ row[t].status = "merging" =>
       /\ row[t].op \in {"land", "deliver"}
       /\ row[t].op = "land" => row[t].pending = NoIntent
       /\ row[t].op = "deliver" => row[t].pending.opt = wish[t]

\* The invariant, task by task.
LEMMA WishByTask == WishInv <=> \A t \in Tasks : WishOf(t)
BY DEF WishInv, LastWordWins, WishIsKept, WishOf

\* A landing that begins carries the options of whoever asked for it.
LEMMA BegunOptions ==
  ASSUME TypeInv, NEW d \in Dispatchers, NEW t \in Tasks, BegunBy(d, t)
  PROVE  /\ dsp[d].role = "click" => dsp[d].opt \in Intents
         /\ dsp[d].role = "queue" => /\ row[t].pending = dsp[d].claim
                                     /\ dsp[d].opt = row[t].pending.opt
                                     /\ dsp[d].opt \in Intents
         /\ dsp[d].role = "auto" => /\ dsp[d].opt = "auto" /\ ~row[t].error
                                    /\ row[t].pending = NoIntent
         /\ dsp[d].role \in {"click", "queue", "auto"}
<1>1. dsp[d].pc \in OrderPcs /\ dsp[d].task = t /\ Mergeable(d)
  BY DEF BegunBy, At, OrderPcs, Locked
<1>2. Orderly(dsp[d], clock) /\ dsp[d] \in Order BY <1>1, OrderOf
<1> QED
  BY <1>1, <1>2 DEF Mergeable, SameIntent, Parked, Orderly, IsSound, Order, Queued

\* It stays kept however a task moves.
LEMMA WishMoves ==
  ASSUME TypeInv, NEW t \in Tasks, WishOf(t), Moves(t)
  PROVE  WishOf(t)'
<1> USE RowsAreTyped, Bounds DEF WishOf, Landing, Goes, NoIntent, Afoot
<1>1. CASE Still(t) BY <1>1 DEF Still, SameOp, SameAsk
<1>2. CASE Reparked(t) \/ Bannered(t) BY <1>2 DEF Reparked, Bannered, SameAsk
<1>3. CASE Withdrawn(t) BY <1>3 DEF Withdrawn, SameOp, Parked
<1>4. CASE TakenBack(t) \/ Reworked(t) \/ Accepted(t)
  BY <1>4 DEF TakenBack, Reworked, Accepted, SameAsk
<1>5. CASE DeliveryBegun(t) BY <1>5 DEF DeliveryBegun, SameAsk
<1>6. ASSUME NEW d \in Dispatchers, BegunBy(d, t) PROVE WishOf(t)'
  <2>1. /\ row[t].pending.opt = wish[t] /\ row'[t].status = "merging"
        /\ row'[t].op = "land" /\ row'[t].opt = dsp[d].opt /\ row'[t].pending = NoIntent
        /\ wish'[t] = IF dsp[d].role = "click" THEN dsp[d].opt ELSE wish[t]
    BY <1>6 DEF BegunBy
  <2>2. row'[t].opt = IF wish'[t] = "none" THEN "auto" ELSE wish'[t]
    BY <1>6, <2>1, BegunOptions
  <2> QED BY <2>1, <2>2
<1>7. CASE Bounced(t) BY <1>7 DEF Bounced, Parked
<1>8. CASE HasLanded(t) \/ HasDelivered(t) BY <1>8 DEF HasLanded, HasDelivered
<1> QED BY <1>1, <1>2, <1>3, <1>4, <1>5, <1>6, <1>7, <1>8 DEF Moves, Begins, Ends

\* Those that wait at the start are parked with the options asked for.
LEMMA WishInit == Init => WishInv
<1> SUFFICES ASSUME Init PROVE WishInv OBVIOUS
<1> PICK place \in [Waiting -> 1..clock], opt \in [Waiting -> Intents] :
      /\ row = [t \in Tasks |->
                  InitRow(IF t \in Waiting THEN [opt |-> opt[t], at |-> place[t]]
                          ELSE NoIntent)]
      /\ wish = [t \in Tasks |-> IF t \in Waiting THEN opt[t] ELSE "none"]
  BY DEF Init
<1>1. \A t \in Tasks : /\ row[t].status = "review"
                       /\ row[t].pending.opt = wish[t]
  BY DEF InitRow, NoIntent
<1> QED BY <1>1, WishByTask DEF WishOf, Landing, Afoot

\* Every step keeps the last word.
LEMMA WishNext == TypeInv /\ WishInv /\ [Next]_vars => WishInv'
<1> SUFFICES ASSUME TypeInv, WishInv, [Next]_vars PROVE WishInv' OBVIOUS
<1>1. \A t \in Tasks : WishOf(t)' BY StepMoves, WishMoves, WishByTask
<1> QED BY <1>1 DEF WishInv, LastWordWins, WishIsKept, WishOf, Landing

----------------------------------------------------------------------------
(* A failed attempt waits for a human *)

\* It keeps its banner while the task is in review.
LatchOf(t) == t \in latched => /\ row[t].status = "review" => row[t].error
                               /\ row[t].status \notin Afoot
LatchInv == \A t \in Tasks : LatchOf(t)

\* However a task moves, it comes back to review with a banner or forgotten.
LEMMA LatchMoves ==
  ASSUME TypeInv, NEW t \in Tasks, LatchOf(t), Moves(t)
  PROVE  LatchOf(t)'
<1> USE DEF LatchOf, Goes, SameFlag, Afoot
<1>1. CASE Still(t) \/ Reparked(t) \/ Withdrawn(t) \/ Bannered(t)
  BY <1>1 DEF Still, Reparked, Withdrawn, Bannered
<1>2. CASE TakenBack(t) \/ Reworked(t) \/ Accepted(t)
  BY <1>2 DEF TakenBack, Reworked, Accepted
<1>3. CASE Begins(t) BY <1>3 DEF Begins, DeliveryBegun, BegunBy
<1>4. CASE Ends(t) BY <1>4 DEF Ends, Bounced, HasLanded, HasDelivered
<1> QED BY <1>1, <1>2, <1>3, <1>4 DEF Moves

\* Every step keeps the latch.
LEMMA LatchNext == TypeInv /\ LatchInv /\ [Next]_vars => LatchInv'
BY StepMoves, LatchMoves DEF LatchInv

\* Only a dispatch begins a landing.
LEMMA OnlyBegin ==
  ASSUME NEW t \in Tasks, Moves(t), Landing(t)', ~Landing(t)
  PROVE  \E d \in Dispatchers : BegunBy(d, t)
<1> USE DEF Landing, Goes
<1>1. ~Still(t) BY DEF Still, SameOp
<1>2. ~Reparked(t) /\ ~Withdrawn(t) /\ ~Bannered(t) /\ ~TakenBack(t) /\ ~Reworked(t)
  BY DEF Reparked, Withdrawn, Bannered, TakenBack, Reworked, SameOp
<1>3. ~Accepted(t) /\ ~Ends(t) /\ ~DeliveryBegun(t)
  BY DEF Accepted, Ends, Bounced, HasLanded, HasDelivered, DeliveryBegun
<1> QED BY <1>1, <1>2, <1>3 DEF Moves, Begins

\* An unattended landing does not begin over a banner.
LEMMA RetryNext ==
  ASSUME TypeInv, LatchInv, [Next]_vars, NEW t \in Tasks,
         Landing(t)', row'[t].opt = "auto", t \in latched
  PROVE  Landing(t)
<1> SUFFICES ASSUME ~Landing(t) PROVE FALSE OBVIOUS
<1>1. PICK d \in Dispatchers : BegunBy(d, t) BY StepMoves, OnlyBegin
<1>2. dsp[d].opt = "auto" /\ row[t].status = "review"
  BY <1>1 DEF BegunBy, Goes
<1>3. ~row[t].error BY <1>1, <1>2, BegunOptions, Bounds
<1> QED BY <1>2, <1>3 DEF LatchInv, LatchOf

----------------------------------------------------------------------------
(* The folder's slot *)

\* The folder lock, and what is known under it once the slot was found free.
OneHolder == \A d, e \in Dispatchers : dsp[d].pc \in Locked /\ dsp[e].pc \in Locked => d = e
Cleared(d) == dsp[d].pc \in {"check", "begin"}
SlotIsFree == \A d \in Dispatchers : Cleared(d) => \A t \in Tasks : ~Landing(t)
SlotInv == OneHolder /\ SlotIsFree /\ OneLanding

\* Nobody comes under the lock.
NoEntry == \A d \in Dispatchers : /\ dsp'[d].pc \in Locked => dsp[d].pc \in Locked
                                  /\ Cleared(d)' => Cleared(d)
\* A dispatcher takes the lock, which was free, and looks at the slot.
Entry(d) == /\ LockFree /\ \A e \in Dispatchers \ {d} : dsp'[e] = dsp[e]
            /\ Cleared(d)' => \A t \in Tasks : ~Landing(t)
            /\ UNCHANGED row

\* One dispatcher moves, to a place outside the lock, or further under it.
LEMMA BecomeLock ==
  ASSUME TypeInv, NEW d \in Dispatchers, NEW s, Become(d, s),
         s.pc \in Locked => dsp[d].pc \in Locked,
         s.pc \in {"check", "begin"} => Cleared(d)
  PROVE  NoEntry
<1>1. \A e \in Dispatchers : dsp'[e] = IF e = d THEN s ELSE dsp[e]
  BY DEF Become, TypeInv, DspInv, DspType
<1> QED BY <1>1 DEF NoEntry, Cleared

\* What a dispatcher becomes without an order is outside the lock.
LEMMA OutsideLock ==
  ASSUME TypeInv, NEW d \in Dispatchers,
         Rest(d) \/ Become(d, Scanning) \/ Superseded(d) \/ Missed(d) \/ Proceed(d)
  PROVE  NoEntry
<1>1. [pc |-> "idle"].pc \notin Locked \cup {"check", "begin"} BY DEF Locked
<1>2. Scanning.pc \notin Locked \cup {"check", "begin"} BY DEF Locked, Scanning
<1>3. [pc |-> "queue", snap |-> dsp[d].snap].pc \notin Locked \cup {"check", "begin"}
  BY DEF Locked
<1> QED
  BY <1>1, <1>2, <1>3, BecomeLock DEF Rest, Superseded, Missed, Proceed

\* An order that goes on.
LEMMA ResumeLock ==
  ASSUME TypeInv, NEW d \in Dispatchers, dsp[d].pc \in OrderPcs, NEW pc, Resume(d, pc),
         pc \in Locked => dsp[d].pc \in Locked,
         pc \in {"check", "begin"} => Cleared(d)
  PROVE  NoEntry
<1> DEFINE s == [dsp[d] EXCEPT !.pc = pc]
<1>1. dsp[d] \in Order BY OrderOf
<1>2. s.pc = pc BY <1>1 DEF Order
<1>3. Become(d, s) BY DEF Resume, Become
<1> HIDE DEF s
<1> QED BY <1>2, <1>3, BecomeLock

\* A dispatcher that has read a row has the lock before it.
LEMMA DispatchOutside ==
  ASSUME NEW role, NEW t, NEW scanned, NEW opt, NEW claim, NEW snap
  PROVE  LET o == Dispatch(role, t, scanned, opt, claim, snap)
         IN  /\ o.pc = "lock" /\ [o EXCEPT !.pc = "refuse"].pc = "refuse"
             /\ [o EXCEPT !.pc = "auto"].pc = "auto"
BY DEF Dispatch

\* The moves of a dispatcher: only one of them takes the lock.
LEMMA PumpLock ==
  ASSUME TypeInv, NEW d \in Dispatchers, Pump(d) \/ Refused(d)
  PROVE  NoEntry \/ Entry(d)
<1> USE DEF At
<1> "lock" \notin Locked /\ "refuse" \notin Locked /\ "auto" \notin Locked
    /\ "banner" \notin Locked /\ "queue" \notin Locked
  BY DEF Locked
<1>1. CASE Scan(d) BY <1>1, OutsideLock DEF Scan
<1>2. CASE DrainNext(d)
  <2> DEFINE e == OldestOf(dsp[d].snap)
             rest == dsp[d].snap \ {e}
             order == Dispatch("queue", e.task, e.seq, e.claim.opt, e.claim, rest)
  <2>1. \/ Become(d, order) \/ Become(d, [pc |-> "queue", snap |-> rest])
        \/ Become(d, [order EXCEPT !.pc = "refuse"])
    BY <1>2 DEF DrainNext
  <2>2. order.pc = "lock" /\ [order EXCEPT !.pc = "refuse"].pc = "refuse"
    BY DispatchOutside
  <2> HIDE DEF order, rest, e
  <2>3. CASE Become(d, order) BY <2>2, <2>3, BecomeLock
  <2>4. CASE Become(d, [pc |-> "queue", snap |-> rest]) BY <2>4, BecomeLock
  <2>5. CASE Become(d, [order EXCEPT !.pc = "refuse"]) BY <2>2, <2>5, BecomeLock
  <2> QED BY <2>1, <2>3, <2>4, <2>5
<1>3. CASE DrainEmpty(d)
  <2>1. CASE Rest(d) BY <2>1, OutsideLock
  <2>2. ASSUME NEW t \in Tasks,
               Become(d, [Dispatch("auto", t, row[t].seq, "auto", NoIntent, {})
                            EXCEPT !.pc = "auto"])
        PROVE  NoEntry
    <3> DEFINE s == [Dispatch("auto", t, row[t].seq, "auto", NoIntent, {})
                       EXCEPT !.pc = "auto"]
    <3>1. s.pc = "auto" BY DispatchOutside
    <3>2. Become(d, s) BY <2>2
    <3> HIDE DEF s
    <3> QED BY <3>1, <3>2, BecomeLock
  <2> QED BY <1>3, <2>1, <2>2 DEF DrainEmpty, Candidates
<1>4. CASE AutoRead(d)
  <2> DEFINE s == [dsp[d] EXCEPT !.pc = "lock", !.seq = row[dsp[d].task].seq]
  <2>1. CASE Rest(d) BY <2>1, OutsideLock
  <2>2. CASE dsp' = [dsp EXCEPT ![d].pc = "lock", ![d].seq = row[dsp[d].task].seq]
    <3>1. dsp[d] \in Order BY <1>4, OrderOf DEF AutoRead, OrderPcs
    <3>2. s.pc = "lock" BY <3>1 DEF Order
    <3>3. Become(d, s) BY <2>2 DEF Become, TypeInv, DspInv, DspType
    <3> HIDE DEF s
    <3> QED BY <3>2, <3>3, BecomeLock
  <2> QED BY <1>4, <2>1, <2>2 DEF AutoRead
<1>5. CASE TakeLock(d)
  <2>1. dsp[d] \in Order BY <1>5, OrderOf DEF TakeLock, OrderPcs
  <2>2. CASE Rest(d) BY <2>2, OutsideLock
  <2>3. ASSUME NEW pc \in Locked, Resume(d, pc), pc = "park" \/ ~AnyMerging
        PROVE  Entry(d)
    <3>1. dsp'[d].pc = pc /\ \A e \in Dispatchers \ {d} : dsp'[e] = dsp[e]
      BY <2>1, <2>3 DEF Resume, TypeInv, DspInv, DspType, Order
    <3>2. Cleared(d)' => ~AnyMerging
      BY <2>3, <3>1 DEF Cleared
    <3> QED BY <1>5, <3>1, <3>2 DEF TakeLock, Entry, AnyMerging, Landing, table
  <2>4. "check" \in Locked /\ "park" \in Locked BY DEF Locked
  <2> QED BY <1>5, <2>2, <2>3, <2>4 DEF TakeLock
<1>6. CASE Park(d)
  BY <1>6, OutsideLock DEF Park
<1>7. CASE Check(d)
  <2>1. dsp[d].pc \in OrderPcs /\ dsp[d].pc \in Locked /\ Cleared(d)
    BY <1>7 DEF Check, OrderPcs, Locked, Cleared
  <2> QED BY <1>7, <2>1, OutsideLock, ResumeLock DEF Check
<1>8. CASE Refused(d)
  <2>1. dsp[d].pc \in OrderPcs BY <1>8 DEF Refused, OrderPcs, Locked
  <2>2. dsp[d] \in Order BY <2>1, OrderOf
  <2>3. CASE Rest(d) BY <2>3, OutsideLock
  <2>4. CASE Resume(d, "banner") BY <2>1, <2>4, ResumeLock
  <2>5. CASE dsp' = [dsp EXCEPT ![d].pc = "refuse", ![d].next = "idle"]
    <3> DEFINE s == [dsp[d] EXCEPT !.pc = "refuse", !.next = "idle"]
    <3>1. s.pc = "refuse" BY <2>2 DEF Order
    <3>2. Become(d, s) BY <2>5 DEF Become, TypeInv, DspInv, DspType
    <3> HIDE DEF s
    <3> QED BY <3>1, <3>2, BecomeLock
  <2>6. dsp[d].role \in {"click", "queue", "auto"} BY <2>2 DEF Order
  <2> QED BY <1>8, <2>3, <2>4, <2>5, <2>6 DEF Refused
<1>9. CASE Begin(d)
  BY <1>9, OutsideLock DEF Begin
<1>10. CASE RefuseClear(d)
  <2>1. dsp[d].pc \in OrderPcs BY <1>10 DEF RefuseClear, OrderPcs
  <2> QED BY <1>10, <2>1, OutsideLock, ResumeLock DEF RefuseClear
<1>11. CASE Banner(d)
  BY <1>11, OutsideLock DEF Banner
<1> QED
  BY <1>1, <1>2, <1>3, <1>4, <1>5, <1>6, <1>7, <1>8, <1>9, <1>10, <1>11 DEF Pump

\* A click waits for the lock; all other steps leave the dispatchers alone, or
\* are a restart, which frees the lock.
LEMMA StepLock ==
  ASSUME TypeInv, [Next]_vars PROVE NoEntry \/ \E d \in Dispatchers : Entry(d)
<1>1. CASE UNCHANGED dsp BY <1>1 DEF NoEntry, Cleared
<1>2. ASSUME NEW d \in Dispatchers, NEW t \in Tasks, NEW i \in Intents, Click(d, t, i)
      PROVE  NoEntry
  <2> DEFINE s == Dispatch("click", t, row[t].seq, i, NoIntent, {})
  <2>1. s.pc = "lock" BY DispatchOutside
  <2>2. Become(d, s) BY <1>2 DEF Click
  <2> HIDE DEF s
  <2> QED BY <2>1, <2>2, BecomeLock DEF Locked
<1>3. CASE Crash
  BY <1>3 DEF Crash, NoEntry, Cleared, Locked
<1>4. CASE \E t \in Tasks :
             \/ Unqueue(t) \/ TakeBack(t) \/ Complete(t) \/ Deliver(t) \/ Rework(t)
             \/ LaunchStep(t) \/ LaunchError(t)
  <2>1. UNCHANGED dsp
    BY <1>4 DEF Unqueue, TakeBack, Complete, Deliver, Rework, LaunchStep, LaunchStart,
                LaunchSpawn, LaunchBind, LaunchMark, LaunchPrompt, LaunchFail, LaunchRelease,
                LaunchError
  <2> QED BY <1>1, <2>1
<1>5. CASE \E t \in Tasks : DeliverStep(t) \/ RecoverList(t) \/ RecoverStep(t)
  <2>1. UNCHANGED dsp
    BY <1>5 DEF DeliverStep, DeliverClaim, DeliverBegin, DeliverPush, DeliverSettle,
                DeliverBounce, RecoverList, RecoverStep, RecoverCheck, RecoverRead,
                RecoverSettle, RecoverDelivery
  <2> QED BY <1>1, <2>1
<1>6. CASE \/ \E t \in Tasks, s \in Seqs : AgentStep(t, s)
           \/ \E c \in turns : LoseTurn(c)
           \/ LoopStep \/ Commit \/ UNCHANGED vars
  <2>1. UNCHANGED dsp
    BY <1>6 DEF AgentStep, AgentLands, AgentEnds, AgentDies, SweepIdle, LoseTurn, LoopStep,
                ReadTurn, TakeTurn, Settle, Commit, vars
  <2> QED BY <1>1, <2>1
<1>7. CASE \E d \in Dispatchers : Pump(d) \/ Refused(d) BY <1>7, PumpLock
<1> QED BY <1>1, <1>2, <1>3, <1>4, <1>5, <1>6, <1>7 DEF Next, User

\* Who begins a landing leaves the lock.
LEMMA SlotNext == TypeInv /\ SlotInv /\ [Next]_vars => SlotInv'
<1> SUFFICES ASSUME TypeInv, SlotInv, [Next]_vars PROVE SlotInv' OBVIOUS
<1>1. ASSUME NEW t \in Tasks, Landing(t)', ~Landing(t)
      PROVE  \E d \in Dispatchers : BegunBy(d, t)
  BY <1>1, StepMoves, OnlyBegin
<1>2. ASSUME NEW d \in Dispatchers, NEW t \in Tasks, BegunBy(d, t)
      PROVE  /\ Cleared(d) /\ dsp[d].pc \in Locked /\ dsp[d].task = t
             /\ \A e \in Dispatchers : dsp'[e].pc \notin Locked
  <2>1. Cleared(d) /\ dsp[d].pc \in Locked /\ dsp[d].task = t
    BY <1>2 DEF BegunBy, At, Cleared, Locked
  <2>2. \A e \in Dispatchers : dsp'[e] = IF e = d THEN [pc |-> "idle"] ELSE dsp[e]
    BY <1>2 DEF BegunBy, Rest, Become, TypeInv, DspInv, DspType
  <2>3. dsp'[d].pc \notin Locked BY <2>2 DEF Locked
  <2>4. \A e \in Dispatchers : e # d => dsp[e].pc \notin Locked
    BY <2>1 DEF SlotInv, OneHolder
  <2> QED BY <2>1, <2>2, <2>3, <2>4
<1>3. OneHolder'
  <2>1. CASE NoEntry BY <2>1 DEF NoEntry, SlotInv, OneHolder
  <2>2. CASE \E d \in Dispatchers : Entry(d) BY <2>2 DEF Entry, LockFree, OneHolder
  <2> QED BY <2>1, <2>2, StepLock
<1>4. SlotIsFree'
  <2> SUFFICES ASSUME NEW d \in Dispatchers, Cleared(d)', NEW t \in Tasks, Landing(t)'
               PROVE  FALSE
    BY DEF SlotIsFree, Landing, Cleared
  <2>1. Landing(t)
    <3> SUFFICES ASSUME ~Landing(t) PROVE FALSE OBVIOUS
    <3>1. dsp'[d].pc \in Locked BY DEF Cleared, Locked
    <3> QED BY <1>1, <1>2, <3>1
  <2>2. ~Cleared(d) BY <2>1 DEF SlotInv, SlotIsFree
  <2>3. ~NoEntry BY <2>2 DEF NoEntry
  <2>4. PICK e \in Dispatchers : Entry(e) BY <2>3, StepLock
  <2>5. e = d BY <2>2, <2>4 DEF Entry, Cleared
  <2> QED BY <2>1, <2>4, <2>5 DEF Entry
<1>5. OneLanding'
  <2> SUFFICES ASSUME NEW t \in Tasks, NEW u \in Tasks, Landing(t)', Landing(u)'
               PROVE  t = u
    BY DEF OneLanding, Landing
  <2>1. CASE Landing(t) /\ Landing(u) BY <2>1 DEF SlotInv, OneLanding
  <2>2. ASSUME NEW v \in Tasks, NEW w \in Tasks, Landing(v)', ~Landing(v), Landing(w)'
        PROVE  v = w
    <3>1. PICK d \in Dispatchers : BegunBy(d, v) BY <1>1, <2>2
    <3>2. ~Landing(w) BY <1>2, <3>1 DEF SlotInv, SlotIsFree
    <3>3. PICK e \in Dispatchers : BegunBy(e, w) BY <1>1, <2>2, <3>2
    <3> QED BY <1>2, <3>1, <3>3 DEF SlotInv, OneHolder
  <2> QED BY <2>1, <2>2
<1> QED BY <1>3, <1>4, <1>5 DEF SlotInv

\* Generations only grow, and those that begin are new.
LEMMA MovesGrow ==
  ASSUME NEW t \in Tasks, Moves(t), row[t].seq \in Nat
  PROVE  /\ row'[t].seq \in Nat /\ row[t].seq <= row'[t].seq
         /\ row'[t].status = "merging" =>
              row[t].status = "merging" \/ row[t].seq < row'[t].seq
<1> USE DEF Goes, SameRound
<1>1. CASE Still(t) \/ Reparked(t) \/ Withdrawn(t) \/ Bannered(t)
  BY <1>1 DEF Still, Reparked, Withdrawn, Bannered
<1>2. CASE TakenBack(t) \/ Reworked(t) \/ Accepted(t)
  BY <1>2 DEF TakenBack, Reworked, Accepted
<1>3. CASE Begins(t) BY <1>3 DEF Begins, DeliveryBegun, BegunBy
<1>4. CASE Ends(t) BY <1>4 DEF Ends, Bounced, HasLanded, HasDelivered
<1> QED BY <1>1, <1>2, <1>3, <1>4 DEF Moves

----------------------------------------------------------------------------
(* Done is true *)

\* What done rests on: a row has an end only when it is done, and a delivery that
\* has pushed, and whose generation is still the row's, has its pull request.
EndIsEarned ==
  \A t \in Tasks :
    /\ row[t].kind # "none" => row[t].status = "done"
    /\ delivery[t].seq <= row[t].seq
    /\ delivery[t].pc = "settle" /\ Merging(t, delivery[t].seq) => t \in pushed
DoneInv == DoneIsTrue /\ EndIsEarned

DoneOf(t) ==
  /\ row[t].kind = "merged" => t \in base
  /\ row[t].kind = "delivered" => t \in pushed
  /\ row[t].kind # "none" => row[t].status = "done"
  /\ delivery[t].seq <= row[t].seq
  /\ delivery[t].pc = "settle" /\ Merging(t, delivery[t].seq) => t \in pushed

\* The invariant, task by task.
LEMMA DoneByTask == DoneInv <=> \A t \in Tasks : DoneOf(t)
BY DEF DoneInv, DoneIsTrue, EndIsEarned, DoneOf

\* Work leaves the base branch and the pull request only with a returned task.
Kept(t) == /\ t \in base => t \in base' \/ row'[t].status = "queued"
           /\ t \in pushed => t \in pushed' \/ row'[t].status = "queued"

\* Only a return takes work away.
LEMMA StepKeeps ==
  ASSUME TypeInv, [Next]_vars, NEW t \in Tasks PROVE Kept(t)
<1> USE DEF Kept
<1>1. CASE UNCHANGED git BY <1>1 DEF git
<1>2. ASSUME NEW u \in Tasks, TakeBack(u) PROVE Kept(t)
  <2>1. CASE t # u BY <1>2, <2>1 DEF TakeBack
  <2>2. CASE t = u
    <3>1. row'[u].status = "queued" BY <1>2, RowsAreTyped DEF TakeBack, Row
    <3> QED BY <2>2, <3>1
  <2> QED BY <2>1, <2>2
<1>3. CASE \/ \E u \in Tasks, s \in Seqs : AgentLands(u, s)
           \/ \E u \in Tasks : DeliverPush(u)
  BY <1>3 DEF AgentLands, DeliverPush
<1>4. CASE \/ \E u \in Tasks : Unqueue(u) \/ Complete(u) \/ Deliver(u) \/ Rework(u)
                               \/ LaunchStep(u) \/ LaunchError(u)
           \/ \E u \in Tasks, d \in Dispatchers, i \in Intents : Click(d, u, i)
  <2>1. UNCHANGED git
    BY <1>4 DEF Unqueue, Complete, Deliver, Rework, LaunchStep, LaunchStart,
                LaunchSpawn, LaunchBind, LaunchMark, LaunchPrompt, LaunchFail, LaunchRelease,
                LaunchError, Click
  <2> QED BY <1>1, <2>1
<1>5. CASE \E u \in Tasks : \/ DeliverClaim(u) \/ DeliverBegin(u) \/ DeliverSettle(u)
                            \/ DeliverBounce(u) \/ RecoverList(u) \/ RecoverStep(u)
  <2>1. UNCHANGED git
    BY <1>5 DEF DeliverClaim, DeliverBegin, DeliverSettle, DeliverBounce, RecoverList,
                RecoverStep, RecoverCheck, RecoverRead, RecoverSettle, RecoverDelivery
  <2> QED BY <1>1, <2>1
<1>6. CASE \/ \E u \in Tasks, s \in Seqs : AgentEnds(u, s) \/ AgentDies(u, s) \/ SweepIdle(u, s)
           \/ \E c \in turns : LoseTurn(c)
           \/ LoopStep \/ Crash \/ UNCHANGED vars
  <2>1. UNCHANGED git
    BY <1>6 DEF AgentEnds, AgentDies, SweepIdle, LoseTurn, LoopStep,
                ReadTurn, TakeTurn, Settle, Crash, vars
  <2> QED BY <1>1, <2>1
<1>7. CASE \E d \in Dispatchers : Pump(d) \/ Refused(d)
  <2>1. UNCHANGED git
    BY <1>7 DEF Pump, Scan, DrainNext, DrainEmpty, AutoRead, TakeLock, Park, Check, Begin,
                RefuseClear, Banner, Refused
  <2> QED BY <1>1, <2>1
<1>8. CASE Commit BY <1>8 DEF Commit
<1> QED BY <1>1, <1>2, <1>3, <1>4, <1>5, <1>6, <1>7, <1>8
        DEF Next, User, DeliverStep, AgentStep

\* What a step may do to a delivery.
DeliveryMoves(t) ==
  \/ delivery'[t] = delivery[t]
  \/ delivery'[t].pc # "settle" /\ delivery'[t].seq <= row'[t].seq
  \/ delivery'[t].seq = delivery[t].seq /\ t \in pushed'

\* A delivery learns of its push before it settles, and is of no later generation
\* than the row.
LEMMA DeliveryStepMoves ==
  ASSUME TypeInv, EndIsEarned, NEW u \in Tasks, DeliverStep(u) \/ Deliver(u), NEW t \in Tasks
  PROVE  DeliveryMoves(t)
<1> USE DEF DeliveryMoves, Delivering
<1>1. /\ delivery \in [Tasks -> DeliveryState] /\ row \in [Tasks -> Row]
      /\ delivery[u].seq \in Nat /\ row[u].seq \in Nat /\ delivery[u].seq <= row[u].seq
  BY Bounds DEF TypeInv, Types, DeliveryType, DeliveryState, RowType, Row, EndIsEarned
<1>2. CASE t # u
  <2>1. delivery'[t] = delivery[t]
    BY <1>1, <1>2 DEF DeliverStep, DeliverClaim, DeliverBegin, DeliverPush, DeliverSettle,
                      DeliverBounce, Deliver, DeliverLeave
  <2> QED BY <2>1
<1>3. CASE t = u
  <2>1. row'[u].seq \in Nat /\ row[u].seq <= row'[u].seq
    <3>1. Moves(u) BY StepMoves DEF Next, User
    <3> QED BY <3>1, <1>1, MovesGrow
  <2>2. CASE delivery' = [delivery EXCEPT ![u] = [pc |-> "none", seq |-> 0]]
    BY <1>1, <1>3, <2>1, <2>2
  <2>3. ASSUME NEW pc, delivery' = [delivery EXCEPT ![u].pc = pc], pc # "settle"
        PROVE  DeliveryMoves(u)
    BY <1>1, <2>1, <2>3 DEF DeliveryState
  <2>4. CASE DeliverClaim(u) BY <1>3, <2>2, <2>3, <2>4 DEF DeliverClaim
  <2>5. CASE DeliverBounce(u) BY <1>3, <2>2, <2>5 DEF DeliverBounce, DeliverLeave
  <2>6. CASE DeliverSettle(u)
    BY <1>3, <2>2, <2>3, <2>6 DEF DeliverSettle, DeliverLeave
  <2>7. CASE DeliverPush(u)
    <3>1. CASE delivery' = [delivery EXCEPT ![u].pc = "settle"] /\ pushed' = pushed \cup {u}
      BY <1>1, <1>3, <3>1 DEF DeliveryState
    <3> QED BY <1>3, <2>3, <2>7, <3>1 DEF DeliverPush
  <2>8. CASE Deliver(u)
    <3>1. delivery' = [delivery EXCEPT ![u] = [pc |-> "checks", seq |-> row[u].seq]]
      BY <2>8 DEF Deliver
    <3> QED BY <1>1, <1>3, <2>1, <3>1
  <2>9. CASE DeliverBegin(u)
    <3>1. CASE ~InReview(u, delivery[u].seq)
      BY <1>3, <2>2, <2>9, <3>1 DEF DeliverBegin, DeliverLeave
    <3>2. CASE InReview(u, delivery[u].seq)
      <4>1. /\ delivery' = [delivery EXCEPT ![u] = [pc |-> "push", seq |-> @.seq + 1]]
            /\ row' = [row EXCEPT ![u].status = "merging", ![u].seq = @ + 1,
                         ![u].conn = 0, ![u].error = FALSE, ![u].op = "deliver"]
        BY <2>9, <3>2 DEF DeliverBegin
      <4>2. row'[u].seq = row[u].seq + 1 BY <1>1, <4>1 DEF Row
      <4>3. delivery'[u].pc = "push" /\ delivery'[u].seq = delivery[u].seq + 1
        BY <1>1, <4>1
      <4> QED BY <1>1, <1>3, <4>2, <4>3
    <3> QED BY <3>1, <3>2
  <2> QED BY <2>4, <2>5, <2>6, <2>7, <2>8, <2>9 DEF DeliverStep
<1> QED BY <1>2, <1>3

\* So does every step: the others leave deliveries alone, a restart forgets them.
LEMMA StepDeliveryMoves ==
  ASSUME TypeInv, EndIsEarned, [Next]_vars, NEW t \in Tasks
  PROVE  DeliveryMoves(t)
<1>1. CASE UNCHANGED delivery BY <1>1 DEF DeliveryMoves
<1>2. CASE Crash
  <2>1. delivery'[t] = [pc |-> "none", seq |-> 0] BY <1>2 DEF Crash
  <2>2. row'[t].seq \in Nat
    BY <1>2, Bounds DEF Crash, table, TypeInv, Types, RowType, Row
  <2> QED BY <2>1, <2>2 DEF DeliveryMoves
<1>3. CASE \E u \in Tasks : DeliverStep(u) \/ Deliver(u)
  BY <1>3, DeliveryStepMoves
<1>4. CASE \/ \E u \in Tasks : Unqueue(u) \/ TakeBack(u) \/ Complete(u) \/ Rework(u)
                               \/ LaunchStep(u) \/ LaunchError(u)
           \/ \E u \in Tasks, d \in Dispatchers, i \in Intents : Click(d, u, i)
  <2>1. UNCHANGED delivery
    BY <1>4 DEF engine, Unqueue, TakeBack, Complete, Rework, LaunchStep, LaunchStart,
                LaunchSpawn, LaunchBind, LaunchMark, LaunchPrompt, LaunchFail, LaunchRelease,
                LaunchError, Click
  <2> QED BY <1>1, <2>1
<1>5. CASE \E u \in Tasks : RecoverList(u) \/ RecoverStep(u)
  <2>1. UNCHANGED delivery
    BY <1>5 DEF RecoverList, RecoverStep, RecoverCheck, RecoverRead, RecoverSettle,
                RecoverDelivery
  <2> QED BY <1>1, <2>1
<1>6. CASE \/ \E u \in Tasks, s \in Seqs : AgentStep(u, s)
           \/ \E c \in turns : LoseTurn(c)
           \/ LoopStep \/ Commit \/ UNCHANGED vars
  <2>1. UNCHANGED delivery
    BY <1>6 DEF engine, AgentStep, AgentLands, AgentEnds, AgentDies, SweepIdle, LoseTurn,
                LoopStep, ReadTurn, TakeTurn, Settle, Commit, vars
  <2> QED BY <1>1, <2>1
<1>7. CASE \E d \in Dispatchers : Pump(d) \/ Refused(d)
  <2>1. UNCHANGED delivery
    BY <1>7 DEF engine, Pump, Scan, DrainNext, DrainEmpty, AutoRead, TakeLock, Park, Check,
                Begin, RefuseClear, Banner, Refused
  <2> QED BY <1>1, <2>1
<1> QED BY <1>2, <1>3, <1>4, <1>5, <1>6, <1>7 DEF Next, User

\* A task is done by a settle that has found its work on the base branch, by a
\* delivery whose pull request shows it, or by the user.
LEMMA DoneMoves ==
  ASSUME TypeInv, NEW t \in Tasks, DoneOf(t), Moves(t), Kept(t), DeliveryMoves(t)
  PROVE  DoneOf(t)'
<1>1. row[t].seq \in Nat /\ delivery[t].seq \in Nat
  BY Bounds DEF TypeInv, Types, DeliveryType, DeliveryState, RowType, Row
<1>2. /\ row'[t].seq \in Nat /\ row[t].seq <= row'[t].seq
      /\ row'[t].status = "merging" => row[t].status = "merging" \/ row[t].seq < row'[t].seq
  BY <1>1, MovesGrow
<1>3. /\ row'[t].kind = "merged" => t \in base'
      /\ row'[t].kind = "delivered" => t \in pushed'
      /\ row'[t].kind # "none" => row'[t].status = "done"
  <2> USE DEF DoneOf, Kept, Goes, SameRound
  <2>1. CASE Still(t) \/ Reparked(t) \/ Withdrawn(t) \/ Bannered(t)
    BY <2>1 DEF Still, Reparked, Withdrawn, Bannered
  <2>2. CASE TakenBack(t) \/ Reworked(t) \/ Accepted(t)
    BY <2>2 DEF TakenBack, Reworked, Accepted
  <2>3. CASE Begins(t) BY <2>3 DEF Begins, DeliveryBegun, BegunBy
  <2>4. CASE Bounced(t) \/ HasLanded(t) BY <2>4 DEF Bounced, HasLanded
  <2>5. CASE HasDelivered(t) BY <2>5 DEF HasDelivered, Merging
  <2> QED BY <2>1, <2>2, <2>3, <2>4, <2>5 DEF Moves, Ends
<1>4. row'[t].kind = "none" \/ row'[t].status = "done" BY <1>3
<1>5. CASE delivery'[t] = delivery[t]
  <2>1. delivery'[t].seq <= row'[t].seq BY <1>1, <1>2, <1>5 DEF DoneOf
  <2>2. ASSUME delivery[t].pc = "settle", row'[t].status = "merging",
               row'[t].seq = delivery[t].seq
        PROVE  t \in pushed'
    <3>1. row[t].seq = delivery[t].seq /\ row[t].status = "merging"
      BY <1>1, <1>2, <2>2 DEF DoneOf
    <3> QED BY <2>2, <3>1 DEF DoneOf, Merging, Kept
  <2> QED BY <1>3, <1>5, <2>1, <2>2 DEF DoneOf, Merging
<1>6. CASE delivery'[t].pc # "settle" /\ delivery'[t].seq <= row'[t].seq
  BY <1>3, <1>6 DEF DoneOf
<1>7. CASE delivery'[t].seq = delivery[t].seq /\ t \in pushed'
  <2>1. delivery'[t].seq <= row'[t].seq BY <1>1, <1>2, <1>7 DEF DoneOf
  <2> QED BY <1>3, <1>7, <2>1 DEF DoneOf
<1> QED BY <1>5, <1>6, <1>7 DEF DeliveryMoves

\* Every step keeps the ends true.
LEMMA DoneNext == TypeInv /\ DoneInv /\ [Next]_vars => DoneInv'
<1> SUFFICES ASSUME TypeInv, DoneInv, [Next]_vars PROVE DoneInv' OBVIOUS
<1>1. \A t \in Tasks : DoneOf(t) /\ Kept(t) /\ DeliveryMoves(t) /\ Moves(t)
  BY DoneByTask, StepKeeps, StepDeliveryMoves, StepMoves DEF DoneInv
<1>2. \A t \in Tasks : DoneOf(t)' BY <1>1, DoneMoves
<1> QED BY <1>2 DEF DoneInv, DoneIsTrue, EndIsEarned, DoneOf, Merging

----------------------------------------------------------------------------
(* The lifecycle: a step writes one row at most, and moves it as it may *)

\* Only the row of t changes.
OnlyRow(t) == \A u \in Tasks : u # t => row'[u] = row[u]

\* Whoever settles a task writes its row alone.
LEMMA SettleRow ==
  ASSUME TypeInv, NEW t \in Tasks, NEW x,
         SettleFromGit(t, x) \/ BackToReview(t) \/ Bounce(t) \/ Delivered(t, x)
         \/ UNCHANGED table
  PROVE  OnlyRow(t)
BY RowsAreTyped
   DEF OnlyRow, SettleFromGit, BackToReview, Landed, Bounce, Delivered, table

\* So does a dispatcher, whose task has a row.
LEMMA PumpRow ==
  ASSUME TypeInv, NEW d \in Dispatchers, Pump(d) \/ Refused(d)
  PROVE  UNCHANGED row \/ \E t \in Tasks : OnlyRow(t)
<1> USE RowsAreTyped DEF At
<1>1. CASE \/ Scan(d) \/ DrainNext(d) \/ DrainEmpty(d) \/ AutoRead(d) \/ TakeLock(d)
           \/ Check(d) \/ Refused(d)
  BY <1>1 DEF Scan, DrainNext, DrainEmpty, AutoRead, TakeLock, Check, Refused, table
<1>2. CASE Park(d) \/ Begin(d) \/ RefuseClear(d) \/ Banner(d)
  <2>1. dsp[d].pc \in OrderPcs
    BY <1>2 DEF Park, Begin, RefuseClear, Banner, OrderPcs, Locked
  <2>2. dsp[d].task \in Tasks BY <2>1, OrderOf DEF Order
  <2>3. OnlyRow(dsp[d].task)
    BY <1>2, <2>2 DEF OnlyRow, Park, Begin, RefuseClear, Banner, table
  <2> QED BY <2>2, <2>3
<1> QED BY <1>1, <1>2 DEF Pump

\* And every other step.
LEMMA OneRow ==
  ASSUME TypeInv, [Next]_vars
  PROVE  UNCHANGED row \/ \E t \in Tasks : OnlyRow(t)
<1> USE RowsAreTyped
<1>1. CASE \E d \in Dispatchers : Pump(d) \/ Refused(d) BY <1>1, PumpRow
<1>2. ASSUME NEW t \in Tasks, User(t) \/ Rework(t) PROVE OnlyRow(t)
  BY <1>2 DEF OnlyRow, User, Unqueue, TakeBack, Complete, Deliver, Click, Rework, SetUp,
              GoLive, SettleReview, table
<1>3. ASSUME NEW t \in Tasks, LaunchStep(t) \/ LaunchError(t) PROVE OnlyRow(t)
  <2>1. CASE LaunchFail(t) BY <2>1, SettleRow DEF LaunchFail
  <2>2. CASE ~LaunchFail(t)
    BY <1>3, <2>2 DEF OnlyRow, LaunchStep, LaunchStart, LaunchSpawn, LaunchBind, LaunchMark,
                      LaunchPrompt, LaunchRelease, LaunchError, table
  <2> QED BY <2>1, <2>2
<1>4. ASSUME NEW t \in Tasks, DeliverStep(t) PROVE OnlyRow(t)
  <2>1. CASE DeliverSettle(t) \/ DeliverBounce(t)
    BY <2>1, SettleRow DEF DeliverSettle, DeliverBounce
  <2>2. CASE DeliverClaim(t) \/ DeliverBegin(t) \/ DeliverPush(t)
    BY <2>2 DEF OnlyRow, DeliverClaim, DeliverBegin, DeliverPush, table
  <2> QED BY <1>4, <2>1, <2>2 DEF DeliverStep
<1>5. ASSUME NEW t \in Tasks, RecoverList(t) \/ RecoverStep(t) PROVE OnlyRow(t)
  <2>1. CASE RecoverSettle(t) \/ RecoverDelivery(t)
    BY <2>1, SettleRow DEF RecoverSettle, RecoverDelivery
  <2>2. CASE RecoverList(t) \/ RecoverCheck(t) \/ RecoverRead(t)
    BY <2>2 DEF OnlyRow, RecoverList, RecoverCheck, RecoverRead, table
  <2> QED BY <1>5, <2>1, <2>2 DEF RecoverStep
<1>6. CASE Settle
  <2>1. loop.task \in Tasks BY <1>6 DEF Settle, TypeInv, Types, LoopType, LoopState
  <2> QED BY <1>6, <2>1, SettleRow DEF Settle
<1>7. CASE \/ ReadTurn \/ \E c \in turns : TakeTurn(c) \/ LoseTurn(c)
           \/ \E t \in Tasks, s \in Seqs : AgentStep(t, s)
           \/ Commit \/ Crash \/ UNCHANGED vars
  BY <1>7 DEF ReadTurn, TakeTurn, LoseTurn, AgentStep, AgentLands, AgentEnds, AgentDies,
              SweepIdle, Commit, Crash, vars, table
<1> QED BY <1>1, <1>2, <1>3, <1>4, <1>5, <1>6, <1>7 DEF Next, LoopStep

\* A step of the lifecycle, or a stutter.
Steps == [Lifecycle!NextLifecycle]_(Lifecycle!lifecycle)

\* What the lifecycle sees of a step that writes one row.
LEMMA OneRowMaps ==
  ASSUME NEW t \in Tasks, OnlyRow(t), NEW from, NEW to, Goes(t, from, to)
  PROVE  /\ row'[t].seq = row[t].seq => Lifecycle!Move(t, {from}, to)
         /\ row'[t].seq = row[t].seq + 1 => Lifecycle!NewRun(t, {from}, to)
<1>1. [u \in Tasks |-> row'[u].status]
        = [[u \in Tasks |-> row[u].status] EXCEPT ![t] = to]
  BY DEF OnlyRow, Goes
<1>2. row'[t].seq = row[t].seq
        => [u \in Tasks |-> row'[u].seq] = [u \in Tasks |-> row[u].seq]
  BY DEF OnlyRow
<1>3. row'[t].seq = row[t].seq + 1
        => [u \in Tasks |-> row'[u].seq] = [[u \in Tasks |-> row[u].seq] EXCEPT ![t] = @ + 1]
  BY DEF OnlyRow
<1> QED BY <1>1, <1>2, <1>3 DEF Lifecycle!Move, Lifecycle!NewRun, Goes

\* Status and generation stay.
LEMMA SameMaps ==
  ASSUME \A t \in Tasks : row'[t].status = row[t].status /\ row'[t].seq = row[t].seq
  PROVE  Steps
<1>1. [u \in Tasks |-> row'[u].status] = [u \in Tasks |-> row[u].status] OBVIOUS
<1>2. [u \in Tasks |-> row'[u].seq] = [u \in Tasks |-> row[u].seq] OBVIOUS
<1> QED BY <1>1, <1>2 DEF Steps, Lifecycle!lifecycle

\* Each way to move a task is a transition of the lifecycle, or none.
LEMMA MovesMap ==
  ASSUME NEW t \in Tasks, OnlyRow(t), Moves(t) PROVE Steps
<1> USE DEF Steps, Lifecycle!NextLifecycle
<1>1. CASE Still(t) \/ Reparked(t) \/ Withdrawn(t) \/ Bannered(t)
  <2>1. \A u \in Tasks : row'[u].status = row[u].status /\ row'[u].seq = row[u].seq
    BY <1>1 DEF OnlyRow, Still, Reparked, Withdrawn, Bannered, SameRound, Goes
  <2> QED BY <2>1, SameMaps
<1>2. CASE TakenBack(t)
  <2>1. Lifecycle!NewRun(t, {"review"}, "queued") BY <1>2, OneRowMaps DEF TakenBack
  <2>2. Lifecycle!ClaimRun(t) BY <2>1 DEF Lifecycle!ClaimRun, Lifecycle!NewRun
  <2> QED BY <2>2
<1>3. CASE Reworked(t)
  <2>1. Lifecycle!SetUp(t) \/ Lifecycle!GoLive(t) \/ Lifecycle!Move(t, {"running"}, "review")
    BY <1>3, OneRowMaps DEF Reworked, SameRound, Lifecycle!SetUp, Lifecycle!GoLive
  <2>2. Lifecycle!Move(t, {"running"}, "review") => Lifecycle!Settle(t)
    BY DEF Lifecycle!Settle, Lifecycle!Move
  <2> QED BY <2>1, <2>2
<1>4. CASE Accepted(t)
  <2>1. Lifecycle!Accept(t) BY <1>4, OneRowMaps DEF Accepted, Lifecycle!Accept
  <2> QED BY <2>1
<1>5. CASE Begins(t)
  <2>1. Goes(t, "review", "merging") /\ row'[t].seq = row[t].seq + 1
    BY <1>5 DEF Begins, DeliveryBegun, BegunBy
  <2>2. Lifecycle!StartMerge(t) BY <2>1, OneRowMaps DEF Lifecycle!StartMerge
  <2> QED BY <2>2
<1>6. CASE Bounced(t)
  <2>1. Lifecycle!Bounce(t) BY <1>6, OneRowMaps DEF Bounced, SameRound, Lifecycle!Bounce
  <2> QED BY <2>1
<1>7. CASE HasLanded(t) \/ HasDelivered(t)
  <2>1. Lifecycle!Land(t)
    BY <1>7, OneRowMaps DEF HasLanded, HasDelivered, Lifecycle!Land
  <2> QED BY <2>1
<1> QED BY <1>1, <1>2, <1>3, <1>4, <1>5, <1>6, <1>7 DEF Moves, Ends

\* Every step maps to a transition or a stutter.
LEMMA StepMaps == TypeInv /\ [Next]_vars => Steps
<1> SUFFICES ASSUME TypeInv, [Next]_vars PROVE Steps OBVIOUS
<1>1. CASE UNCHANGED row BY <1>1, SameMaps
<1>2. ASSUME NEW t \in Tasks, OnlyRow(t) PROVE Steps BY <1>2, StepMoves, MovesMap
<1> QED BY <1>1, <1>2, OneRow

----------------------------------------------------------------------------
(* The properties of every behaviour *)

\* A queued merge begins in the order of its scan.
LEMMA InLineNext ==
  ASSUME TypeInv, SlotInv, [Next]_vars, NEW d \in Dispatchers, NEW t \in Tasks,
         At(d, "begin"), dsp[d].role = "queue", Landing(t)', ~Landing(t),
         NEW e \in dsp[d].snap
  PROVE  row[t].pending.at <= e.claim.at
<1>1. PICK f \in Dispatchers : BegunBy(f, t) BY StepMoves, OnlyBegin
<1>2. f = d BY <1>1 DEF BegunBy, At, Locked, SlotInv, OneHolder
<1>3. row[t].pending = dsp[d].claim BY <1>1, <1>2, BegunOptions
<1>4. dsp[d].pc \in OrderPcs BY DEF At, OrderPcs, Locked
<1>5. IsInOrder(dsp[d]) BY <1>4, OrderOf DEF Orderly
<1> QED BY <1>3, <1>4, <1>5 DEF IsInOrder

\* The slot, the last word, the latch and the ends are as they begin.
LEMMA SafetyInit == Init => SlotInv /\ LatchInv /\ DoneInv
BY Bounds DEF Init, SlotInv, OneHolder, SlotIsFree, Cleared, OneLanding, Landing, Locked,
              LatchInv, LatchOf, Afoot, DoneInv, DoneIsTrue, EndIsEarned, Merging, InitRow

\* The slot is held by one dispatcher in every state.
LEMMA SlotInvariant == Spec => [](TypeInv /\ SlotInv)
BY TypeInit, SafetyInit, TypeNext, SlotNext, PTL DEF Spec

\* The latch holds in every state.
LEMMA LatchInvariant == Spec => [](TypeInv /\ LatchInv)
BY TypeInit, SafetyInit, TypeNext, LatchNext, PTL DEF Spec

\* The folder lands one task at a time, however clicks, the queue, unattended
\* merges, recovery and restarts interleave: whoever begins a landing holds the
\* folder's git lock since it found the slot free.
THEOREM FolderLandsOne == Spec => []OneLanding
<1>1. SlotInv => OneLanding BY DEF SlotInv
<1> QED BY <1>1, SlotInvariant, PTL

\* A landing carries the options the user asked for last, an unattended one begins
\* only when nothing was asked, and a parked merge is neither lost nor brought back.
THEOREM UserHasLastWord == Spec => []LastWordWins
<1>1. TypeInv /\ WishInv /\ [Next]_vars => TypeInv' /\ WishInv' BY TypeNext, WishNext
<1>2. WishInv => LastWordWins BY DEF WishInv
<1> QED BY <1>1, <1>2, TypeInit, WishInit, PTL DEF Spec

\* A task that is done as merged has its work on the base branch, and one that is
\* done as delivered has its pull request, whatever settled it.
THEOREM DoneStaysTrue == Spec => []DoneIsTrue
<1>1. TypeInv /\ DoneInv /\ [Next]_vars => TypeInv' /\ DoneInv' BY TypeNext, DoneNext
<1>2. DoneInv => DoneIsTrue BY DEF DoneInv
<1> QED BY <1>1, <1>2, TypeInit, SafetyInit, PTL DEF Spec

\* No unattended landing begins for a task whose last attempt failed, until the
\* user has acted on it.
THEOREM FailureWaits == Spec => NoUnattendedRetry
<1>1. TypeInv /\ LatchInv /\ [Next]_vars
      => [\A t \in Tasks : Landing(t)' /\ row'[t].opt = "auto" /\ t \in latched
                             => Landing(t)]_vars
  BY RetryNext DEF vars
<1> QED BY <1>1, LatchInvariant, PTL DEF Spec, NoUnattendedRetry

\* The queue is served in the order of its scan: what a drain has still to look at
\* came after the merge it begins.
THEOREM QueueIsFair == Spec => InLine
<1>1. TypeInv /\ SlotInv /\ [Next]_vars
      => [\A d \in Dispatchers, t \in Tasks :
            /\ At(d, "begin") /\ dsp[d].role = "queue" /\ dsp[d].task = t
            /\ Landing(t)' /\ ~Landing(t)
            => \A e \in dsp[d].snap : row[t].pending.at <= e.claim.at]_vars
  BY InLineNext
<1> QED BY <1>1, SlotInvariant, PTL DEF Spec, InLine

\* Dispatches, settles, recovery and deliveries move a row only as the lifecycle
\* allows, whatever they have read of it before: a landing that comes late, a bounce
\* of what is done and a settle of another round are all refused by the writes.
THEOREM MergesKeepLifecycle == Spec => MergesByLifecycle
<1>1. TypeInv /\ [Next]_vars => Steps BY StepMaps
<1> QED BY <1>1, TypeInvariant, PTL DEF Spec, MergesByLifecycle, Steps
===============================================================================
