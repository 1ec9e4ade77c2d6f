------------------------ MODULE DelegationBrokerProofs ------------------------
(***************************************************************************)
(* The delegation broker for every number of calls and connections of the  *)
(* parent.  Three tables carry the proofs: CallStep says what a step does  *)
(* to the calls, RunStep what it does to the runs, the results and the     *)
(* settlements, VerdictStep what it does to the first ends.  Each part of  *)
(* the inductive invariant follows from the tables; only the children, the *)
(* queues of their workers and the books of the completed-cache are looked *)
(* at action by action.                                                    *)
(***************************************************************************)
EXTENDS DelegationBroker, FiniteSetTheorems, WellFoundedInduction, TLAPS

----------------------------------------------------------------------------
(* The calls *)

Over == {"parked", "closing", "done"}

\* What holds of a call by itself.
Placed(r) ==
  /\ r.pc # "idle" => r.task \in Calls
  /\ r.pc \in {"idle", "dispatched", "gate"} => ~r.claim
  /\ r.pc \in {"spawned", "sent", "parked"} => r.conn \in Calls
  /\ r.pc = "closing" => r.claim
  /\ r.pc # "sent" => r.early.turn = "none" /\ ~r.early.dead
  /\ r.pc \in {"idle", "dispatched"} => r.early = NoEarly

CallInv == /\ call \in [Calls -> Call]
           /\ \A c \in Calls : Placed(call[c])

USE DEF Tasks

LEMMA CallInit == ASSUME CallAssumption, BoundAssumption, Init PROVE CallInv
<1>1. Idle \in Call /\ Placed(Idle)
  BY CallAssumption, BoundAssumption DEF CallAssumption, BoundAssumption, Call, Idle,
     CallPcs, SetupPcs, Parents, Early, NoEarly, Placed
<1> QED BY <1>1 DEF Init, CallInv

LEMMA OneMoves ==
  ASSUME CallInv, NEW c \in Calls, NEW r \in Call, Placed(r), call' = [call EXCEPT ![c] = r]
  PROVE  CallInv'
  BY DEF CallInv

LEMMA CallTypes ==
  ASSUME NEW r \in Call
  PROVE  /\ \A pc \in CallPcs : [r EXCEPT !.pc = pc] \in Call
         /\ \A pc \in CallPcs, k \in Calls : [r EXCEPT !.pc = pc, !.conn = k] \in Call
         /\ \A pc \in CallPcs, b \in BOOLEAN : [r EXCEPT !.pc = pc, !.claim = b] \in Call
         /\ \A pc \in CallPcs, b \in BOOLEAN : [[r EXCEPT !.late = b] EXCEPT !.pc = pc] \in Call
         /\ \A pc \in CallPcs, e \in Early : [r EXCEPT !.pc = pc, !.early = e] \in Call
<1>0. ASSUME NEW pc \in CallPcs PROVE  [r EXCEPT !.pc = pc] \in Call BY DEF Call
<1>1. ASSUME NEW pc \in CallPcs, NEW k \in Calls
      PROVE  [r EXCEPT !.pc = pc, !.conn = k] \in Call
  BY DEF Call
<1>2. ASSUME NEW pc \in CallPcs, NEW k \in BOOLEAN
      PROVE  [r EXCEPT !.pc = pc, !.claim = k] \in Call
  BY DEF Call
<1>3. ASSUME NEW pc \in CallPcs, NEW k \in BOOLEAN
      PROVE  [[r EXCEPT !.late = k] EXCEPT !.pc = pc] \in Call
  BY DEF Call
<1>4. ASSUME NEW pc \in CallPcs, NEW k \in Early
      PROVE  [r EXCEPT !.pc = pc, !.early = k] \in Call
  BY DEF Call
<1> QED BY <1>0, <1>1, <1>2, <1>3, <1>4

LEMMA GoMoves ==
  ASSUME CallInv, NEW c \in Calls, NEW pc \in CallPcs, Go(c, pc),
         Placed([call[c] EXCEPT !.pc = pc])
  PROVE  CallInv'
<1>1. [call[c] EXCEPT !.pc = pc] \in Call BY DEF CallInv, Call
<1> QED BY <1>1, OneMoves DEF Go

LEMMA ReturnMoves ==
  ASSUME CallInv, NEW c \in Calls, Return(c), call[c].pc \notin {"idle", "sent"}
  PROVE  CallInv'
<1>1. Returned(c) \in {"closing", "done"} /\ (Returned(c) = "closing" => call[c].claim)
  BY DEF Returned
<1>2. Placed([call[c] EXCEPT !.pc = Returned(c)])
  BY <1>1 DEF CallInv, Call, Placed
<1> QED BY <1>1, <1>2, GoMoves DEF Return, CallPcs

LEMMA WithTypes ==
  ASSUME NEW e \in Early
  PROVE  /\ \A end \in Outcomes : WithTurn(e, end) \in Early
         /\ WithDeath(e) \in Early /\ WithCancel(e) \in Early
BY DEF Early, WithTurn, WithDeath, WithCancel

LEMMA EarlyMoves ==
  ASSUME CallInv, NEW S \in SUBSET Calls, NEW early \in [S -> Early], Buffered(early),
         \A c \in S : \/ At(c, "sent")
                      \/ /\ call[c].pc \in SetupPcs
                         /\ early[c].turn = "none" /\ ~early[c].dead
  PROVE  CallInv'
<1>1. \A c \in S : /\ [call[c] EXCEPT !.early = early[c]] \in Call
                   /\ Placed([call[c] EXCEPT !.early = early[c]])
  BY DEF CallInv, Call, Placed, At, SetupPcs
<1> QED BY <1>1 DEF CallInv, Buffered

LEMMA FlagMoves == ASSUME CallInv, NEW p, Flag(p) PROVE CallInv'
<1> DEFINE early == [c \in FlaggedBy(p) |-> WithCancel(call[c].early)]
<1>1. \A c \in FlaggedBy(p) :
        call[c].early \in Early /\ call[c].pc \in SetupPcs /\ Placed(call[c])
  BY DEF CallInv, Call, FlaggedBy, Inflight
<1>2. early \in [FlaggedBy(p) -> Early] BY <1>1, WithTypes
<1>3. \A c \in FlaggedBy(p) : \/ At(c, "sent")
                              \/ early[c].turn = "none" /\ ~early[c].dead
  BY <1>1 DEF Placed, At, WithCancel
<1>4. FlaggedBy(p) \in SUBSET Calls BY DEF FlaggedBy
<1> QED BY <1>1, <1>2, <1>3, <1>4, EarlyMoves DEF Flag

LEMMA CallNext ==
  ASSUME CallAssumption, StopAssumption, BoundAssumption, CallInv, [Next]_vars
  PROVE  CallInv'
<1> USE DEF At
<1>1. ASSUME NEW c \in Calls, NEW p \in Parents, NEW t \in Tasks, Dispatch(c, p, t)
      PROVE  CallInv'
  <2> DEFINE r == [Idle EXCEPT !.pc = "dispatched", !.task = t, !.par = p]
  <2>1. r \in Call /\ Placed(r)
    BY CallAssumption, BoundAssumption DEF CallAssumption, BoundAssumption, Call, Idle,
       CallPcs, SetupPcs, Parents, Early, NoEarly, Placed
  <2> QED BY <1>1, <2>1, OneMoves DEF Dispatch
<1>2. ASSUME NEW c \in Calls, Enter(c) PROVE CallInv'
  <2>1. CASE Go(c, "done")
    <3>1. Placed([call[c] EXCEPT !.pc = "done"]) BY <1>2 DEF CallInv, Call, Placed, Enter
    <3> QED BY <2>1, <3>1, GoMoves DEF CallPcs
  <2>2. ASSUME NEW pc \in {"gate", "ready"}, NEW late \in BOOLEAN,
               call' = [call EXCEPT ![c] = [[call[c] EXCEPT !.late = late] EXCEPT !.pc = pc]]
        PROVE  CallInv'
    <3> DEFINE r == [[call[c] EXCEPT !.late = late] EXCEPT !.pc = pc]
    <3>1. r \in Call BY CallTypes DEF CallInv, CallPcs, SetupPcs
    <3>2. Placed(r) BY <1>2 DEF CallInv, Call, Placed, Enter
    <3> QED BY <2>2, <3>1, <3>2, OneMoves
  <2> QED BY <1>2, <2>1, <2>2 DEF Enter
<1>3. ASSUME NEW c \in Calls, MemGate(c) PROVE CallInv'
  <2>1. CASE Return(c) BY <1>3, <2>1, ReturnMoves DEF MemGate
  <2>2. CASE call' = [call EXCEPT ![c].pc = "row", ![c].claim = Free(c)]
    <3> DEFINE r == [call[c] EXCEPT !.pc = "row", !.claim = Free(c)]
    <3>1. r \in Call BY CallTypes DEF CallInv, CallPcs, SetupPcs, Free
    <3>2. Placed(r) BY <1>3 DEF CallInv, Call, Placed, Free, MemGate
    <3> QED BY <2>2, <3>1, <3>2, OneMoves
  <2> QED BY <1>3, <2>1, <2>2 DEF MemGate, Gate
<1>4. ASSUME NEW c \in Calls, RowGate(c) PROVE CallInv'
  <2>1. Placed([call[c] EXCEPT !.pc = "ready"]) BY <1>4 DEF CallInv, Call, Placed, RowGate
  <2> QED BY <1>4, <2>1, ReturnMoves, GoMoves DEF RowGate, CallPcs, SetupPcs
<1>5. ASSUME NEW c \in Calls, NoSpawn(c) PROVE CallInv' BY <1>5, ReturnMoves DEF NoSpawn
<1>6. ASSUME NEW c \in Calls, Spawn(c) PROVE CallInv'
  <2>1. ASSUME NEW k \in Calls, call' = [call EXCEPT ![c].pc = "spawned", ![c].conn = k]
        PROVE  CallInv'
    <3> DEFINE r == [call[c] EXCEPT !.pc = "spawned", !.conn = k]
    <3>1. r \in Call BY CallTypes DEF CallInv, CallPcs, SetupPcs
    <3>2. Placed(r) BY <1>6 DEF CallInv, Call, Placed, Spawn
    <3> QED BY <2>1, <3>1, <3>2, OneMoves
  <2> QED BY <1>6, <2>1 DEF Spawn, Serving
<1>7. ASSUME NEW c \in Calls, Send(c) PROVE CallInv'
  <2>1. Placed([call[c] EXCEPT !.pc = "sent"]) BY <1>7 DEF CallInv, Call, Placed, Send
  <2> QED BY <1>7, <2>1, GoMoves DEF Send, CallPcs, SetupPcs
<1>8. ASSUME NEW c \in Calls, NEW pc \in Over, call[c].pc \in {"spawned", "sent"},
             pc = "closing" => call[c].claim,
             call' = [call EXCEPT ![c].pc = pc, ![c].early = NoEarly]
      PROVE  CallInv'
  <2> DEFINE r == [call[c] EXCEPT !.pc = pc, !.early = NoEarly]
  <2>0. NoEarly \in Early BY DEF Early, NoEarly
  <2>1. r \in Call BY <2>0, CallTypes DEF CallInv, Over, CallPcs
  <2>2. Placed(r) BY <1>8 DEF CallInv, Call, Placed, NoEarly, Over
  <2> QED BY <1>8, <2>1, <2>2, OneMoves
<1>9. ASSUME NEW c \in Calls, SendError(c) PROVE CallInv'
  BY <1>8, <1>9 DEF SendError, Returned, Over
<1>10. ASSUME NEW c \in Calls, Park(c) PROVE CallInv'
  BY <1>8, <1>10 DEF Park, Parked, Returned, Over
<1>11. ASSUME NEW c \in Calls, SecondCheck(c) PROVE CallInv'
  BY <1>11, ReturnMoves DEF SecondCheck
<1>12. ASSUME NEW c \in Calls, Release(c) PROVE CallInv'
  <2>1. Placed([call[c] EXCEPT !.pc = "done"]) BY <1>12 DEF CallInv, Call, Placed, Release
  <2> QED BY <1>12, <2>1, GoMoves DEF Release, CallPcs
<1>13. ASSUME NEW k \in Calls, CompleteCall(k) PROVE CallInv'
  <2> DEFINE S == ReservedFor(conn[k].task)
             early == [d \in S |-> WithTurn(call[d].early, worker[k].end)]
  <2>1. CASE UNCHANGED call BY <2>1 DEF CallInv
  <2>2. CASE Buffered(early)
    <3>1. S \in SUBSET Calls /\ \A d \in S : At(d, "sent") BY DEF ReservedFor, Reserved
    <3>2. \A d \in S : call[d].early \in Early BY <3>1 DEF CallInv, Call
    <3>3. early \in [S -> Early] BY <1>13, <3>2, WithTypes DEF CompleteCall
    <3> QED BY <2>2, <3>1, <3>3, EarlyMoves
  <2> QED BY <1>13, <2>1, <2>2 DEF CompleteCall
<1>14. ASSUME NEW k \in Calls, ChildGone(k) PROVE CallInv'
  <2> DEFINE S == ReservedOn(k)
             early == [d \in S |-> WithDeath(call[d].early)]
  <2>1. CASE UNCHANGED call BY <2>1 DEF CallInv
  <2>2. CASE BufferFailure(k)
    <3>1. S \in SUBSET Calls /\ \A d \in S : At(d, "sent") BY DEF ReservedOn, Reserved
    <3>2. \A d \in S : call[d].early \in Early BY <3>1 DEF CallInv, Call
    <3>3. early \in [S -> Early] BY <3>2, WithTypes
    <3> QED BY <2>2, <3>1, <3>3, EarlyMoves DEF BufferFailure
  <2> QED BY <1>14, <2>1, <2>2 DEF ChildGone
<1>15. ASSUME NEW p \in Parents, CancelByParentTurn(p) \/ CancelByParent(p) PROVE CallInv'
  BY <1>15, FlagMoves DEF CancelByParentTurn, CancelByParent
<1>16. CASE UNCHANGED call BY <1>16 DEF CallInv
<1> QED BY <1>1, <1>2, <1>3, <1>4, <1>5, <1>6, <1>7, <1>9, <1>10, <1>11, <1>12, <1>13, <1>14,
           <1>15, <1>16, ZenonT(60)
        DEF Next, vars, Setup, Settlement, Worker, ParentEnds, CancelHandle, BufferHandle,
            Tell, Disconnect, WorkerReads, ChildDies, TurnEnds, CancelTask, Connect,
            CloseParent, ParentDies, Revoke, Leave

----------------------------------------------------------------------------
(* What a step does to the calls *)

Same(c) == /\ call'[c].task = call[c].task /\ call'[c].par = call[c].par
           /\ call'[c].claim = call[c].claim
Kept(c) == Same(c) /\ call'[c].conn = call[c].conn /\ call'[c].late = call[c].late
Goes(c, from, to) == At(c, from) /\ call'[c].pc = to

Stays(c) ==
  /\ Kept(c) /\ call'[c].pc = call[c].pc
  /\ ~Inflight(c) => call'[c] = call[c]
  /\ Flagged(c) => call'[c].early.cancel

Dispatched(c) ==
  /\ Goes(c, "idle", "dispatched") /\ ~call'[c].claim
  /\ LET t == call'[c].task
     IN \/ t = c
        \/ t \in Calls /\ call[t].pc = "done" /\ call[t].task = t
Entered(c) ==
  /\ Same(c) /\ call'[c].conn = call[c].conn
  /\ At(c, "dispatched") /\ call'[c].pc = IF Resumes(c) THEN "gate" ELSE "ready"
  /\ call'[c].late = (parent[call[c].par].phase = "swept") /\ call'[c].early = call[c].early
Claimed(c) ==
  LET t == call[c].task
  IN /\ Goes(c, "gate", "row")
     /\ call'[c].task = t /\ call'[c].par = call[c].par /\ call'[c].conn = call[c].conn
     /\ call'[c].late = call[c].late /\ call'[c].early = call[c].early
     /\ call'[c].claim = (t \notin resuming) /\ resuming' = resuming \cup {t}
     /\ running[t] = NoCall \/ cache.rec[t] # NoRecord
Readied(c) == /\ Goes(c, "row", "ready") /\ call[c].claim /\ Kept(c)
              /\ call'[c].early = call[c].early
Spawns(c) == /\ Goes(c, "ready", "spawned") /\ Same(c) /\ call'[c].late = call[c].late
             /\ call'[c].early = call[c].early
Sends(c) == /\ Goes(c, "spawned", "sent") /\ Kept(c) /\ ~Flagged(c)
            /\ call'[c].early = call[c].early
Parks(c) == Goes(c, "sent", "parked") /\ Kept(c) /\ ~Flagged(c)
Returns(c) == /\ call[c].pc \notin {"idle", "closing", "done"}
              /\ call'[c].pc = Returned(c) /\ Kept(c)
Released(c) == Goes(c, "closing", "done") /\ Kept(c) /\ resuming' = resuming \ {call[c].task}

MovesAlone(c) ==
  /\ \A d \in Calls \ {c} : call'[d] = call[d]
  /\ \/ Claimed(c) \/ Released(c)
     \/ /\ Dispatched(c) \/ Entered(c) \/ Readied(c) \/ Spawns(c) \/ Sends(c) \/ Parks(c)
           \/ Returns(c)
        /\ resuming' = resuming
CallStep == \/ (\A c \in Calls : Stays(c)) /\ resuming' = resuming
            \/ \E c \in Calls : MovesAlone(c)

LEMMA BuffersStay ==
  ASSUME CallInv, NEW S \in SUBSET Calls, NEW early, Buffered(early), DOMAIN early = S,
         \A c \in S : Inflight(c) /\ (Flagged(c) => early[c].cancel)
  PROVE  \A c \in Calls : Stays(c)
BY DEF CallInv, Call, Buffered, Stays, Kept, Same, Flagged

LEMMA CompleteStays ==
  ASSUME CallInv, NEW k \in Calls, CompleteCall(k)
  PROVE  \A c \in Calls : Stays(c)
<1> DEFINE E == [d \in ReservedFor(conn[k].task) |-> WithTurn(call[d].early, worker[k].end)]
<1>1. /\ ReservedFor(conn[k].task) \in SUBSET Calls /\ DOMAIN E = ReservedFor(conn[k].task)
      /\ \A c \in ReservedFor(conn[k].task) : Inflight(c) /\ E[c].cancel = Flagged(c)
  BY DEF ReservedFor, Reserved, At, Inflight, SetupPcs, Flagged, WithTurn
<1>2. Buffered(E) => \A c \in Calls : Stays(c) BY <1>1, BuffersStay
<1>3. UNCHANGED call => \A c \in Calls : Stays(c) BY DEF Stays, Kept, Same, Flagged
<1> QED BY <1>2, <1>3 DEF CompleteCall

LEMMA GoneStays ==
  ASSUME CallInv, NEW k \in Calls, ChildGone(k)
  PROVE  \A c \in Calls : Stays(c)
<1> DEFINE E == [d \in ReservedOn(k) |-> WithDeath(call[d].early)]
<1>1. /\ ReservedOn(k) \in SUBSET Calls /\ DOMAIN E = ReservedOn(k)
      /\ \A c \in ReservedOn(k) : Inflight(c) /\ E[c].cancel = Flagged(c)
  BY DEF ReservedOn, Reserved, At, Inflight, SetupPcs, Flagged, WithDeath
<1>2. Buffered(E) => \A c \in Calls : Stays(c) BY <1>1, BuffersStay
<1>3. UNCHANGED call => \A c \in Calls : Stays(c) BY DEF Stays, Kept, Same, Flagged
<1> QED BY <1>2, <1>3 DEF ChildGone, BufferFailure

LEMMA FlagStays ==
  ASSUME CallInv, NEW p, Flag(p)
  PROVE  \A c \in Calls : Stays(c)
<1> DEFINE E == [c \in FlaggedBy(p) |-> WithCancel(call[c].early)]
<1>1. /\ FlaggedBy(p) \in SUBSET Calls /\ DOMAIN E = FlaggedBy(p)
      /\ \A c \in FlaggedBy(p) : Inflight(c) /\ E[c].cancel
  BY DEF FlaggedBy, WithCancel
<1>2. Buffered(E) => \A c \in Calls : Stays(c) BY <1>1, BuffersStay
<1> QED BY <1>2 DEF Flag

LEMMA CallSteps ==
  ASSUME CallInv, [Next]_vars
  PROVE  CallStep
<1> USE DEF At
<1>0. \A c \in Calls : call[c] \in Call /\ Placed(call[c]) BY DEF CallInv
<1>1. ASSUME NEW c \in Calls, NEW p \in Parents, NEW t \in Tasks, Dispatch(c, p, t)
      PROVE  CallStep
  <2>1. call'[c] = [Idle EXCEPT !.pc = "dispatched", !.task = t, !.par = p]
    BY <1>1 DEF CallInv, Dispatch
  <2>2. call'[c].pc = "dispatched" /\ call'[c].task = t /\ ~call'[c].claim
    BY <2>1 DEF Idle
  <2>3. /\ call[c].pc = "idle"
        /\ t = c \/ (call[t].pc = "done" /\ call[t].task = t)
    BY <1>1 DEF Dispatch
  <2>4. Dispatched(c) BY <2>2, <2>3 DEF Dispatched, Goes
  <2> QED BY <1>1, <2>4 DEF CallInv, CallStep, MovesAlone, Dispatch, pending
<1>2. ASSUME NEW c \in Calls, Enter(c) PROVE CallStep
  <2>1. CASE Go(c, "done")
    <3>1. Returns(c)
      BY <1>0, <1>2, <2>1 DEF CallInv, Call, Returns, Returned, Kept, Same, Enter, Go, Placed
    <3> QED BY <1>2, <2>1, <3>1 DEF CallInv, CallStep, MovesAlone, Enter, Go, pending
  <2>2. CASE call' = [call EXCEPT ![c] =
                        [[call[c] EXCEPT !.late = parent[call[c].par].phase = "swept"]
                           EXCEPT !.pc = IF Resumes(c) THEN "gate" ELSE "ready"]]
    <3>1. Entered(c) BY <1>2, <2>2 DEF CallInv, Call, Entered, Same, Enter, Resumes
    <3> QED BY <1>2, <2>2, <3>1 DEF CallInv, CallStep, MovesAlone, Enter, pending
  <2> QED BY <1>2, <2>1, <2>2 DEF Enter
<1>3. ASSUME NEW c \in Calls, Return(c), call[c].pc \notin {"idle", "closing", "done"},
             resuming' = resuming
      PROVE  CallStep
  <2>1. Returns(c) BY <1>3 DEF CallInv, Call, Returns, Kept, Same, Return, Go
  <2> QED BY <1>3, <2>1 DEF CallInv, CallStep, MovesAlone, Return, Go
<1>4. ASSUME NEW c \in Calls, MemGate(c) PROVE CallStep
  <2>1. CASE Return(c) /\ UNCHANGED resuming BY <1>3, <1>4, <2>1 DEF MemGate
  <2>2. CASE ~(Return(c) /\ UNCHANGED resuming)
    <3>1. call' = [call EXCEPT ![c].pc = "row", ![c].claim = Free(c)]
      BY <1>4, <2>2 DEF MemGate, Gate
    <3>2. Claimed(c)
      BY <1>4, <2>2, <3>1 DEF CallInv, Call, Claimed, Goes, MemGate, Gate, Free
    <3> QED BY <3>1, <3>2 DEF CallInv, CallStep, MovesAlone
  <2> QED BY <2>1, <2>2
<1>5. ASSUME NEW c \in Calls, RowGate(c) PROVE CallStep
  <2>1. CASE Return(c) BY <1>3, <1>5, <2>1 DEF RowGate, pending
  <2>2. CASE call[c].claim /\ Go(c, "ready")
    <3>1. Readied(c) BY <1>5, <2>2 DEF CallInv, Call, Readied, Goes, Kept, Same, Go, RowGate
    <3> QED BY <1>5, <2>2, <3>1 DEF CallInv, CallStep, MovesAlone, Go, RowGate, pending
  <2> QED BY <1>5, <2>1, <2>2 DEF RowGate
<1>6. ASSUME NEW c \in Calls, NoSpawn(c) PROVE CallStep BY <1>3, <1>6 DEF NoSpawn, pending
<1>7. ASSUME NEW c \in Calls, Spawn(c) PROVE CallStep
  <2>1. ASSUME NEW k, call' = [call EXCEPT ![c].pc = "spawned", ![c].conn = k]
        PROVE  CallStep
    <3>1. call'[c] = [call[c] EXCEPT !.pc = "spawned", !.conn = k] BY <2>1 DEF CallInv
    <3>2. Spawns(c) BY <1>0, <1>7, <3>1 DEF Call, Spawns, Goes, Same, Spawn
    <3> QED BY <1>7, <2>1, <3>2 DEF CallInv, CallStep, MovesAlone, Spawn, pending
  <2> QED BY <1>7, <2>1 DEF Spawn
<1>8. ASSUME NEW c \in Calls, Send(c) PROVE CallStep
  <2>1. Sends(c) BY <1>8 DEF CallInv, Call, Sends, Goes, Kept, Same, Send, Go
  <2> QED BY <1>8, <2>1 DEF CallInv, CallStep, MovesAlone, Send, Go, pending
<1>9. ASSUME NEW c \in Calls, call[c].pc \in {"spawned", "sent"}, resuming' = resuming,
             call' = [call EXCEPT ![c].pc = Returned(c), ![c].early = NoEarly]
      PROVE  CallStep
  <2>1. Returns(c) BY <1>9 DEF CallInv, Call, Returns, Kept, Same
  <2> QED BY <1>9, <2>1 DEF CallInv, CallStep, MovesAlone
<1>10. ASSUME NEW c \in Calls, SendError(c) PROVE CallStep BY <1>9, <1>10 DEF SendError, pending
<1>11. ASSUME NEW c \in Calls, Park(c) PROVE CallStep
  <2>1. CASE Parked(c, Returned(c)) BY <1>9, <1>11, <2>1 DEF Park, Parked
  <2>2. CASE Fate(c) = "running" /\ Parked(c, "parked")
    <3>1. ~Flagged(c) BY <2>2 DEF Fate
    <3>2. Parks(c) BY <1>11, <2>2, <3>1 DEF CallInv, Call, Parks, Goes, Kept, Same, Park, Parked
    <3> QED BY <1>11, <2>2, <3>2 DEF CallInv, CallStep, MovesAlone, Park, Parked
  <2> QED BY <1>11, <2>1, <2>2 DEF Park
<1>12. ASSUME NEW c \in Calls, SecondCheck(c) PROVE CallStep BY <1>3, <1>12 DEF SecondCheck
<1>13. ASSUME NEW c \in Calls, Release(c) PROVE CallStep
  <2>1. Released(c) BY <1>13 DEF CallInv, Call, Released, Goes, Kept, Same, Release, Go
  <2> QED BY <1>13, <2>1 DEF CallInv, CallStep, MovesAlone, Release, Go
<1>14. CASE UNCHANGED call /\ UNCHANGED resuming
  BY <1>14 DEF CallStep, Stays, Kept, Same, Flagged
<1>15. ASSUME NEW k \in Calls, CompleteCall(k) \/ ChildGone(k) PROVE CallStep
  BY <1>15, CompleteStays, GoneStays DEF CompleteCall, ChildGone, CallStep
<1>16. ASSUME NEW p \in Parents, CancelByParentTurn(p) \/ CancelByParent(p) PROVE CallStep
  BY <1>16, FlagStays DEF CancelByParentTurn, CancelByParent, CallStep
<1> QED BY <1>1, <1>2, <1>4, <1>5, <1>6, <1>7, <1>8, <1>10, <1>11, <1>12, <1>13, <1>14, <1>15,
           <1>16, ZenonT(60)
        DEF Next, vars, pending, Setup, Settlement, Worker, ParentEnds, CancelHandle,
            BufferHandle, Tell, Disconnect, WorkerReads, ChildDies, TurnEnds, CancelTask,
            Connect, CloseParent, ParentDies, Revoke, Leave

----------------------------------------------------------------------------
(* The children's connections *)

Event == [stop: Stops \cup {"gone"}, run: Calls \cup {NoCall}]
Ended == [end: Outcomes \cup {"idle"}, run: Calls \cup {NoCall}]

Used(k) ==
  /\ conn[k].state = "none" => events[k] = <<>> /\ worker[k].end = "idle"
  /\ conn[k].state # "none" => conn[k].task \in Calls
  /\ conn[k].state # "up" => conn[k].turn = NoCall

ConnInv == /\ conn \in [Calls -> Conn]
           /\ events \in [Calls -> Seq(Event)]
           /\ worker \in [Calls -> Ended]
           /\ \A k \in Calls : Used(k)

LEMMA ConnInit == Init => ConnInv
  BY DEF Init, ConnInv, Conn, NoConn, Ended, NoEnd, Used

LEMMA ConnTypes ==
  ASSUME NEW r \in Conn
  PROVE  /\ \A turn \in Calls \cup {NoCall}, b \in BOOLEAN :
              [r EXCEPT !.turn = turn, !.asked = b] \in Conn
         /\ \A b \in BOOLEAN : [r EXCEPT !.asked = b] \in Conn
         /\ [r EXCEPT !.state = "gone", !.turn = NoCall, !.asked = FALSE] \in Conn
<1>1. ASSUME NEW turn \in Calls \cup {NoCall}, NEW b \in BOOLEAN
      PROVE  [r EXCEPT !.turn = turn, !.asked = b] \in Conn
  BY DEF Conn
<1>2. ASSUME NEW b \in BOOLEAN PROVE [r EXCEPT !.asked = b] \in Conn BY DEF Conn
<1>3. [r EXCEPT !.state = "gone", !.turn = NoCall, !.asked = FALSE] \in Conn BY DEF Conn
<1> QED BY <1>1, <1>2, <1>3

\* A connection that leaves the map leaves an event behind.
LEMMA WithoutKeeps ==
  ASSUME ConnInv, NEW K, \A k \in K : Mapped(k), Without(K),
         UNCHANGED worker
  PROVE  ConnInv'
<1>1. conn' \in [Calls -> Conn] BY ConnTypes DEF ConnInv, Without
<1>2. [stop |-> "gone", run |-> NoCall] \in Event BY DEF Event
<1>3. events' \in [Calls -> Seq(Event)]
  <2>1. \A k \in Calls : Append(events[k], [stop |-> "gone", run |-> NoCall]) \in Seq(Event)
    BY <1>2 DEF ConnInv
  <2> QED BY <2>1 DEF ConnInv, Without
<1>4. ASSUME NEW k \in Calls PROVE Used(k)'
  BY DEF ConnInv, Conn, Without, Used, Mapped
<1> QED BY <1>1, <1>3, <1>4 DEF ConnInv

LEMMA ConnNext ==
  ASSUME CallAssumption, StopAssumption, CallInv, ConnInv, [Next]_vars
  PROVE  ConnInv'
<1> USE DEF At
<1>0. \A c \in Calls : call[c] \in Call /\ Placed(call[c]) BY DEF CallInv
<1>1. CASE UNCHANGED <<conn, events, worker>> BY <1>1 DEF ConnInv, Used
<1>2. ASSUME NEW c \in Calls, Spawn(c) PROVE ConnInv'
  <2>1. CASE UNCHANGED conn BY <1>1, <1>2, <2>1 DEF Spawn
  <2>2. CASE conn' = [conn EXCEPT ![c] = [NoConn EXCEPT !.state = "up", !.task = call[c].task]]
    <3>1. call[c].task \in Calls BY <1>0, <1>2 DEF Spawn, Placed
    <3>2. conn'[c] = [state |-> "up", task |-> call[c].task, turn |-> NoCall, asked |-> FALSE]
      BY <2>2 DEF ConnInv, NoConn
    <3>3. conn' \in [Calls -> Conn]
      <4>1. [state |-> "up", task |-> call[c].task, turn |-> NoCall, asked |-> FALSE] \in Conn
        BY <3>1 DEF Conn
      <4>2. conn' \in [Calls -> Conn \cup {conn'[c]}] BY <2>2 DEF ConnInv
      <4> QED BY <3>2, <4>1, <4>2
    <3>4. ASSUME NEW k \in Calls PROVE Used(k)' 
      BY <1>2, <2>2, <3>1, <3>2 DEF ConnInv, Used, Spawn
    <3> QED BY <1>2, <3>3, <3>4 DEF ConnInv, Spawn
  <2> QED BY <1>2, <2>1, <2>2 DEF Spawn
<1>3. ASSUME NEW k \in Calls, NEW turn \in Calls \cup {NoCall}, NEW asked \in BOOLEAN,
             NEW s \in Seq(Event), Mapped(k), UNCHANGED worker,
             conn' = [conn EXCEPT ![k].turn = turn, ![k].asked = asked],
             events' = [events EXCEPT ![k] = s]
      PROVE  ConnInv'
  <2>1. conn' \in [Calls -> Conn]
    <3>1. [conn[k] EXCEPT !.turn = turn, !.asked = asked] \in Conn BY ConnTypes DEF ConnInv
    <3> QED BY <1>3, <3>1 DEF ConnInv
  <2>2. ASSUME NEW j \in Calls PROVE Used(j)'
    BY <1>3 DEF ConnInv, Conn, Used, Mapped
  <2> QED BY <1>3, <2>1, <2>2 DEF ConnInv
<1>4. ASSUME NEW k \in Calls, NEW turn \in Calls \cup {NoCall}, NEW asked \in BOOLEAN,
             Mapped(k), UNCHANGED <<events, worker>>,
             conn' = [conn EXCEPT ![k].turn = turn, ![k].asked = asked]
      PROVE  ConnInv'
  <2>1. conn' \in [Calls -> Conn]
    <3>1. [conn[k] EXCEPT !.turn = turn, !.asked = asked] \in Conn BY ConnTypes DEF ConnInv
    <3> QED BY <1>4, <3>1 DEF ConnInv
  <2>2. ASSUME NEW j \in Calls PROVE Used(j)'
    BY <1>4 DEF ConnInv, Conn, Used, Mapped
  <2> QED BY <1>4, <2>1, <2>2 DEF ConnInv
<1>5. ASSUME NEW c \in Calls, Send(c) PROVE ConnInv'
  <2>1. call[c].conn \in Calls BY <1>0, <1>5 DEF Send, Placed
  <2> QED BY <1>4, <1>5, <2>1 DEF Send, Admits
<1>6. ASSUME NEW c \in Calls, SendError(c) PROVE ConnInv'
  BY <1>6, WithoutKeeps DEF SendError
<1>7. ASSUME NEW c \in Calls, Tell(c) PROVE ConnInv'
  <2>1. ASSUME NEW k \in Calls, Mapped(k), k = call[c].conn,
               conn' = [conn EXCEPT ![k].asked = conn[k].turn # NoCall]
        PROVE  ConnInv'
    <3>1. conn' \in [Calls -> Conn]
      <4>1. [conn[k] EXCEPT !.asked = conn[k].turn # NoCall] \in Conn BY ConnTypes DEF ConnInv
      <4> QED BY <2>1, <4>1 DEF ConnInv
    <3>2. ASSUME NEW j \in Calls PROVE Used(j)'
      BY <1>7, <2>1 DEF ConnInv, Conn, Used, Mapped, Tell
    <3> QED BY <1>7, <3>1, <3>2 DEF ConnInv, Tell
  <2>2. call[c].conn \notin Calls => UNCHANGED conn
    BY <1>7 DEF Tell, ConnInv
  <2> QED BY <1>1, <1>7, <2>1, <2>2 DEF Tell
<1>8. ASSUME NEW c \in Calls, Disconnect(c) PROVE ConnInv'
  BY <1>8, WithoutKeeps DEF Disconnect
<1>9. ASSUME NEW k \in Calls, NEW stop \in Stops, TurnEnds(k, stop) PROVE ConnInv'
  <2>1. conn[k].turn \in Calls \cup {NoCall} BY DEF ConnInv, Conn
  <2>2. [stop |-> stop, run |-> conn[k].turn] \in Event BY <2>1 DEF Event
  <2>3. Append(events[k], [stop |-> stop, run |-> conn[k].turn]) \in Seq(Event)
    BY <2>2 DEF ConnInv
  <2> QED BY <1>3, <1>9, <2>3 DEF TurnEnds
<1>10. ASSUME NEW k \in Calls, ChildDies(k) PROVE ConnInv'
  BY <1>10, WithoutKeeps DEF ChildDies
<1>11. ASSUME NEW k \in Calls, NEW w \in Ended, events[k] # <<>>, UNCHANGED conn,
              events' = [events EXCEPT ![k] = Tail(@)],
              worker' = worker \/ worker' = [worker EXCEPT ![k] = w]
       PROVE  ConnInv'
  <2>1. events' \in [Calls -> Seq(Event)] BY <1>11 DEF ConnInv
  <2>2. ASSUME NEW j \in Calls PROVE Used(j)' BY <1>11 DEF ConnInv, Used
  <2> QED BY <1>11, <2>1, <2>2 DEF ConnInv
<1>12. ASSUME NEW k \in Calls, WorkerReads(k) PROVE ConnInv'
  <2>1. Head(events[k]) \in Event BY <1>12 DEF ConnInv, WorkerReads, Heard
  <2>2. [end |-> EndOf(Head(events[k]).stop), run |-> Head(events[k]).run] \in Ended
    BY <2>1 DEF Event, Ended, EndOf, Outcomes
  <2> QED BY <1>11, <1>12, <2>2 DEF WorkerReads, Heard
<1>13. ASSUME NEW k \in Calls, CompleteCall(k) PROVE ConnInv'
  <2>1. NoEnd \in Ended /\ NoEnd.end = "idle" BY DEF NoEnd, Ended
  <2>2. ASSUME NEW j \in Calls PROVE Used(j)' BY <1>13, <2>1 DEF ConnInv, Used, CompleteCall
  <2> QED BY <1>13, <2>1, <2>2 DEF ConnInv, CompleteCall
<1>14. ASSUME NEW k \in Calls, ChildGone(k) PROVE ConnInv'
  BY <1>11, <1>14 DEF ChildGone, Heard, ConnInv
<1> QED BY <1>1, <1>2, <1>5, <1>6, <1>7, <1>8, <1>9, <1>10, <1>12, <1>13, <1>14, ZenonT(60)
        DEF Next, vars, pending, child, Setup, Settlement, Worker, ParentEnds, CancelHandle,
            BufferHandle, CancelTask, Connect, CloseParent, ParentDies, Revoke, Leave,
            Dispatch, Enter, MemGate, RowGate, NoSpawn, Park, SecondCheck, Release,
            CancelByParentTurn, CancelByParent

----------------------------------------------------------------------------
(* Runs and results *)

MaybeRec == Record \cup {NoRecord}
Recs     == [Tasks -> MaybeRec]
Lasts(old, new) == \A t \in Tasks : new[t] \in {old[t], NoRecord}

LEMMA EvictedRec ==
  ASSUME NEW ch, NEW p, ch.rec \in Recs
  PROVE  Evicted(ch, p).rec \in Recs /\ Lasts(ch.rec, Evicted(ch, p).rec)
BY DEF Evicted, Shortened, Recs, MaybeRec, Lasts

LEMMA InsertRec ==
  ASSUME NEW ch, ch.rec \in Recs, NEW c \in Calls, call[c].task \in Tasks,
         call[c].par \in Parents, NEW status \in Outcomes
  PROVE  LET new == InsertCompleted(ch, c, status).rec
         IN /\ new \in Recs
            /\ \A t \in Tasks \ {call[c].task} : new[t] \in {ch.rec[t], NoRecord}
            /\ new[call[c].task] \in
                 {NoRecord, [par |-> call[c].par, status |-> status, run |-> c]}
<1> DEFINE r == [par |-> call[c].par, status |-> status, run |-> c]
           rec == [ch.rec EXCEPT ![call[c].task] = r]
           mid == [rec |-> rec,
                   order |-> [ch.order EXCEPT ![call[c].par] = Append(@, call[c].task)],
                   bytes |-> [ch.bytes EXCEPT ![call[c].par] = @ + Text(status)]]
<1>1. r \in MaybeRec BY DEF MaybeRec, Record
<1>2. mid.rec \in Recs /\ mid.rec = rec BY <1>1 DEF Recs
<1>3. Evicted(mid, call[c].par).rec \in Recs /\ Lasts(rec, Evicted(mid, call[c].par).rec)
  BY <1>2, EvictedRec
<1>4. InsertCompleted(ch, c, status) = Evicted(mid, call[c].par) BY DEF InsertCompleted
<1> HIDE DEF mid
<1> QED BY <1>2, <1>3, <1>4 DEF Recs, Lasts

LEMMA RemoveRec ==
  ASSUME NEW ch, ch.rec \in Recs, NEW t \in Tasks
  PROVE  LET new == RemoveCompleted(ch, t).rec
         IN /\ new \in Recs /\ Lasts(ch.rec, new) /\ new[t] = NoRecord
BY DEF RemoveCompleted, Recs, MaybeRec, Lasts

LEMMA DropRec ==
  ASSUME NEW ch, ch.rec \in Recs, NEW p
  PROVE  DropCompleted(ch, p).rec \in Recs /\ Lasts(ch.rec, DropCompleted(ch, p).rec)
BY DEF DropCompleted, Recs, MaybeRec, Lasts

LEMMA DrainRec ==
  ASSUME CallInv, cache.rec \in Recs, NEW S \in SUBSET Calls, DrainCanceled(S)
  PROVE  /\ cache'.rec \in Recs
         /\ \A t \in Tasks :
              \/ cache'.rec[t] \in {cache.rec[t], NoRecord}
              \/ /\ running[t] \in S
                 /\ cache'.rec[t].status = "canceled" /\ cache'.rec[t].run = running[t]
<1>1. CASE S = {} BY <1>1 DEF DrainCanceled, Recs
<1>2. ASSUME NEW c \in S, NEW s \in SetToSeqs(S), cache' = InsertCanceled(s, call[c].par)
      PROVE  /\ cache'.rec \in Recs
             /\ \A t \in Tasks :
                  \/ cache'.rec[t] \in {cache.rec[t], NoRecord}
                  \/ /\ running[t] \in S
                     /\ cache'.rec[t].status = "canceled" /\ cache'.rec[t].run = running[t]
  <2> DEFINE Rec(d) == [par |-> call[c].par, status |-> "canceled", run |-> d]
             rec == [t \in Tasks |-> IF running[t] \in Range(s) THEN Rec(running[t])
                                     ELSE cache.rec[t]]
             mid == [rec |-> rec,
                     order |-> [cache.order EXCEPT ![call[c].par] =
                                  @ \o [i \in DOMAIN s |-> call[s[i]].task]],
                     bytes |-> cache.bytes]
  <2>1. Range(s) \subseteq S BY <1>2 DEF SetToSeqs, Range
  <2>2. call[c].par \in Parents BY DEF CallInv, Call
  <2>3. \A d \in S : Rec(d) \in MaybeRec BY <2>2 DEF MaybeRec, Record, Outcomes
  <2>4. rec \in Recs BY <2>1, <2>3 DEF Recs
  <2>5. mid.rec = rec OBVIOUS
  <2>6. cache' = Evicted(mid, call[c].par) BY <1>2 DEF InsertCanceled
  <2> HIDE DEF mid
  <2>7. cache'.rec \in Recs /\ Lasts(rec, cache'.rec) BY <2>4, <2>5, <2>6, EvictedRec
  <2>8. ASSUME NEW t \in Tasks, cache'.rec[t] \notin {cache.rec[t], NoRecord}
        PROVE  /\ running[t] \in S
               /\ cache'.rec[t].status = "canceled" /\ cache'.rec[t].run = running[t]
    <3>1. cache'.rec[t] = rec[t] BY <2>7, <2>8 DEF Lasts
    <3>2. running[t] \in Range(s) BY <2>8, <3>1
    <3>3. cache'.rec[t] = Rec(running[t]) BY <3>1, <3>2
    <3> QED BY <2>1, <3>2, <3>3
  <2> QED BY <2>7, <2>8
<1> QED BY <1>1, <1>2 DEF DrainCanceled

----------------------------------------------------------------------------
(* What a step does to the runs and the results *)

RunInv ==
  /\ running \in [Tasks -> Calls \cup {NoCall}]
  /\ cache.rec \in Recs
  /\ teardown \in [Calls -> Teardown]
  /\ verdict \in [Calls -> Outcomes \cup {"none"}]
  /\ \A t \in Tasks : running[t] # NoCall =>
       call[running[t]].task = t /\ call[running[t]].pc \in Over
  /\ \A t \in Tasks : cache.rec[t] # NoRecord =>
       call[cache.rec[t].run].task = t /\ call[cache.rec[t].run].pc \in Over
  /\ \A c \in Calls : teardown[c].step # "none" => call[c].pc \in Over

\* A result is recorded of a run that settles, or of a call that was too late to run.
Hears(r, status) == verdict'[r] = IF verdict[r] = "none" THEN status ELSE verdict[r]
Recorded(t) ==
  LET r == cache'.rec[t].run
      status == cache'.rec[t].status
  IN /\ r \in Calls /\ call[r].task = t /\ call'[r].pc \in Over
     /\ \/ running[t] = r /\ running'[t] = NoCall /\ Hears(r, status)
        \/ /\ At(r, "parked") /\ running[t] # NoCall /\ running'[t] = NoCall
           /\ Hears(r, status)
        \/ /\ At(r, "sent") /\ running' = running
           /\ Fate(r) # "running" /\ status = EarlyOutcome(r) /\ verdict' = verdict
Settled == \A t \in Tasks : /\ running'[t] \in {running[t], NoCall}
                            /\ \/ cache'.rec[t] \in {cache.rec[t], NoRecord}
                               \/ Recorded(t)
Started == \E c \in Calls :
             /\ Parks(c) /\ Fate(c) = "running" /\ verdict' = verdict
             /\ running' = [running EXCEPT ![call[c].task] = c]
             /\ Lasts(cache.rec, cache'.rec)
             /\ Resumes(c) => cache'.rec[call[c].task] = NoRecord
RunStep ==
  /\ running' \in [Tasks -> Calls \cup {NoCall}]
  /\ cache'.rec \in Recs
  /\ teardown' \in [Calls -> Teardown]
  /\ verdict' \in [Calls -> Outcomes \cup {"none"}]
  /\ Settled \/ Started
  /\ \A c \in Calls : teardown'[c].step # "none"
                      => teardown[c].step # "none" \/ call'[c].pc \in Over

LEMMA OverStays ==
  ASSUME CallInv, CallStep, NEW c \in Calls, call[c].pc \in Over
  PROVE  call'[c].pc \in Over /\ Kept(c)
BY ZenonT(60)
DEF CallStep, MovesAlone, Stays, Dispatched, Entered, Claimed, Readied, Spawns, Sends, Parks,
       Returns, Returned, Released, Goes, At, Kept, Same, Over

LEMMA TearDownType ==
  ASSUME RunInv, NEW S, NEW cancel \in BOOLEAN, TearDown(S, cancel)
  PROVE  /\ teardown' \in [Calls -> Teardown]
         /\ \A c \in Calls : teardown'[c].step # "none" => teardown[c].step # "none" \/ c \in S
BY DEF RunInv, TearDown, Settle, Teardown

LEMMA RunsFacts ==
  ASSUME CallInv, RunInv, NEW c \in Calls, Runs(c)
  PROVE  call[c].task \in Tasks /\ running[call[c].task] = c /\ call[c].pc \in Over
<1>1. call[c].task \in Tasks BY DEF CallInv, Call, Runs
<1> QED BY <1>1, CallAssumption DEF CallAssumption, RunInv, Runs

LEMMA DrainStep ==
  ASSUME CallInv, RunInv, CallStep, NEW S \in SUBSET Calls, DrainCanceled(S),
         NEW cancel \in BOOLEAN, TearDown(S, cancel), \A c \in S : Runs(c),
         NEW T, verdict' = Keep(verdict, T, "canceled"), S \subseteq T
  PROVE  RunStep
<1>1. running' \in [Tasks -> Calls \cup {NoCall}] BY DEF RunInv, DrainCanceled, Drained
<1>2. \A c \in S : call'[c].pc \in Over
  <2>1. \A c \in S : call[c].pc \in Over BY RunsFacts
  <2> QED BY <2>1, OverStays
<1>3. verdict' \in [Calls -> Outcomes \cup {"none"}] BY DEF Keep, RunInv, Outcomes
<1>4. ASSUME NEW t \in Tasks PROVE /\ running'[t] \in {running[t], NoCall}
                                   /\ \/ cache'.rec[t] \in {cache.rec[t], NoRecord}
                                      \/ Recorded(t)
  <2>1. \/ cache'.rec[t] \in {cache.rec[t], NoRecord}
        \/ /\ running[t] \in S
           /\ cache'.rec[t].status = "canceled" /\ cache'.rec[t].run = running[t]
    BY DrainRec DEF RunInv
  <2>2. running'[t] \in {running[t], NoCall} /\ (running[t] \in S => running'[t] = NoCall)
    BY DEF DrainCanceled, Drained
  <2>3. ASSUME running[t] \in S PROVE /\ call[running[t]].task = t
                                      /\ Hears(running[t], "canceled")
    <3>1. running[t] \in Calls /\ running[t] # NoCall BY <2>3, CallAssumption DEF CallAssumption
    <3>2. call[running[t]].task = t BY <3>1 DEF RunInv
    <3>3. Hears(running[t], "canceled") BY <2>3, <3>1 DEF Hears, Keep
    <3> QED BY <3>2, <3>3
  <2> QED BY <1>2, <2>1, <2>2, <2>3 DEF Recorded
<1> QED BY <1>1, <1>2, <1>3, <1>4, DrainRec, TearDownType DEF RunStep, Settled, RunInv

LEMMA InsertStep ==
  ASSUME CallInv, RunInv, CallStep, NEW ch, ch.rec \in Recs, Lasts(cache.rec, ch.rec),
         NEW c \in Calls, call[c].task \in Tasks, NEW status \in Outcomes,
         cache' = InsertCompleted(ch, c, status)
  PROVE  /\ cache'.rec \in Recs
         /\ \A t \in Tasks :
              \/ cache'.rec[t] \in {cache.rec[t], NoRecord}
              \/ /\ t = call[c].task
                 /\ cache'.rec[t].status = status /\ cache'.rec[t].run = c
<1>1. call[c].par \in Parents BY DEF CallInv, Call
<1>2. /\ cache'.rec \in Recs
      /\ \A t \in Tasks \ {call[c].task} : cache'.rec[t] \in {ch.rec[t], NoRecord}
      /\ cache'.rec[call[c].task] \in
           {NoRecord, [par |-> call[c].par, status |-> status, run |-> c]}
  BY <1>1, InsertRec
<1> QED BY <1>2 DEF Lasts

LEMMA RunSteps ==
  ASSUME CallInv, ConnInv, RunInv, CallStep, [Next]_vars
  PROVE  RunStep
<1> USE DEF At
<1>0. /\ \A c \in Calls : call[c] \in Call /\ Placed(call[c])
      /\ \A c \in Calls : call[c].par \in Parents
  BY DEF CallInv, Call
<1>1. CASE UNCHANGED <<running, cache, teardown, verdict>>
  BY <1>1 DEF RunInv, RunStep, Settled
<1>2. ASSUME NEW c \in Calls, NEW d \in Teardown, teardown' = [teardown EXCEPT ![c] = d],
             d.step = "none" \/ teardown[c].step # "none",
             UNCHANGED <<running, cache, verdict>>
      PROVE  RunStep
  BY <1>2 DEF RunInv, RunStep, Settled
<1>3. ASSUME NEW c \in Calls, Tell(c) PROVE RunStep
  <2>1. [teardown[c] EXCEPT !.step = "cut"] \in Teardown BY DEF RunInv, Teardown
  <2> QED BY <1>2, <1>3, <2>1 DEF Tell, pending
<1>4. ASSUME NEW c \in Calls, Disconnect(c) PROVE RunStep
  <2>1. NoTeardown \in Teardown /\ NoTeardown.step = "none" BY DEF NoTeardown, Teardown
  <2> QED BY <1>2, <1>4, <2>1 DEF Disconnect, pending, past
<1>5. ASSUME NEW c \in Calls, Park(c) PROVE RunStep
  <2>0. call[c].task \in Tasks /\ At(c, "sent") BY <1>0, <1>5 DEF Park, Placed
  <2>1. Stale(c).rec \in Recs /\ Lasts(cache.rec, Stale(c).rec)
        /\ (Resumes(c) => Stale(c).rec[call[c].task] = NoRecord)
    BY <2>0, RemoveRec DEF Stale, RunInv, Lasts
  <2>2. verdict' = verdict BY <1>5 DEF Park, past
  <2>3. CASE /\ Fate(c) = "running" /\ running' = [running EXCEPT ![call[c].task] = c]
             /\ cache' = Stale(c) /\ Parked(c, "parked") /\ UNCHANGED teardown
    <3>1. Parks(c)
      BY <1>0, <2>0, <2>3 DEF CallInv, Call, Parks, Goes, Kept, Same, Parked, Fate
    <3>2. Started BY <2>1, <2>2, <2>3, <3>1 DEF Started
    <3> QED BY <2>0, <2>1, <2>2, <2>3, <3>2 DEF RunInv, RunStep
  <2>4. CASE /\ Fate(c) # "running" /\ UNCHANGED running
             /\ cache' = InsertCompleted(Stale(c), c, EarlyOutcome(c))
             /\ teardown' = [teardown EXCEPT ![c] = Settle(Fate(c) = "parent", TRUE)]
             /\ Parked(c, Returned(c))
    <3>1. EarlyOutcome(c) \in Outcomes
      BY <1>0 DEF Call, Early, EarlyOutcome, End, Outcomes
    <3>2. call'[c].pc \in Over BY <2>4 DEF CallInv, Call, Parked, Returned, Over
    <3>3. Settle(Fate(c) = "parent", TRUE) \in Teardown BY DEF Settle, Teardown
    <3>4. /\ cache'.rec \in Recs
          /\ \A t \in Tasks :
               \/ cache'.rec[t] \in {cache.rec[t], NoRecord}
               \/ /\ t = call[c].task
                  /\ cache'.rec[t].status = EarlyOutcome(c) /\ cache'.rec[t].run = c
      BY <2>0, <2>1, <2>4, <3>1, InsertStep
    <3>5. Settled BY <2>0, <2>2, <2>4, <3>2, <3>4 DEF Settled, Recorded
    <3> QED BY <2>2, <2>4, <3>2, <3>3, <3>4, <3>5 DEF RunInv, RunStep
  <2> QED BY <1>5, <2>3, <2>4 DEF Park
<1>6. ASSUME NEW c \in Calls, SecondCheck(c) PROVE RunStep
  <2> DEFINE t == call[c].task
  <2>0. t \in Tasks /\ At(c, "parked") BY <1>0, <1>6 DEF SecondCheck, Placed
  <2>1. CASE UNCHANGED <<running, cache, teardown, verdict>> BY <1>1, <2>1
  <2>2. CASE /\ running[t] # NoCall /\ running' = [running EXCEPT ![t] = NoCall]
             /\ cache' = InsertCompleted(cache, c, "canceled")
             /\ teardown' = [teardown EXCEPT ![c] = Settle(TRUE, TRUE)]
             /\ verdict' = Keep(verdict, {c}, "canceled")
    <3>1. call'[c].pc \in Over BY <2>0, OverStays DEF Over
    <3>2. Settle(TRUE, TRUE) \in Teardown BY DEF Settle, Teardown
    <3>3. /\ cache'.rec \in Recs
          /\ \A u \in Tasks :
               \/ cache'.rec[u] \in {cache.rec[u], NoRecord}
               \/ u = t /\ cache'.rec[u].status = "canceled" /\ cache'.rec[u].run = c
      BY <2>0, <2>2, InsertStep DEF RunInv, Lasts, Outcomes
    <3>4. /\ verdict' \in [Calls -> Outcomes \cup {"none"}]
          /\ Hears(c, "canceled")
      BY <2>2 DEF Keep, Hears, RunInv, Outcomes
    <3>5. Settled BY <2>0, <2>2, <3>1, <3>3, <3>4 DEF Settled, Recorded, RunInv
    <3> QED BY <2>0, <2>2, <3>1, <3>2, <3>3, <3>4, <3>5, ZenonT(60) DEF RunInv, RunStep
  <2> QED BY <1>6, <2>1, <2>2 DEF SecondCheck
<1>7. ASSUME NEW k \in Calls, CompleteCall(k) PROVE RunStep
  <2> DEFINE t == conn[k].task
             c == running[t]
             end == worker[k].end
  <2>0. t \in Tasks /\ end \in Outcomes
    BY <1>7 DEF ConnInv, Used, CompleteCall, Outcomes
  <2>1. verdict' \in [Calls -> Outcomes \cup {"none"}]
    BY <1>7, <2>0 DEF CompleteCall, Keep, RunInv
  <2>2. CASE UNCHANGED <<running, cache, teardown>>
    BY <2>1, <2>2 DEF RunInv, RunStep, Settled
  <2>3. ASSUME NEW u \in Tasks, NEW d \in Calls, running[u] = d, call[d].task = u,
               call[d].pc \in Over, running' = [running EXCEPT ![u] = NoCall],
               cache' = InsertCompleted(cache, d, end), TearDown({d}, FALSE), Hears(d, end)
        PROVE  RunStep
    <3>1. call'[d].pc \in Over BY <2>3, OverStays
    <3>2. Lasts(cache.rec, cache.rec) /\ cache.rec \in Recs BY DEF Lasts, RunInv
    <3>3. /\ cache'.rec \in Recs
          /\ \A v \in Tasks :
               \/ cache'.rec[v] \in {cache.rec[v], NoRecord}
               \/ v = u /\ cache'.rec[v].status = end /\ cache'.rec[v].run = d
      BY <2>0, <2>3, <3>2, InsertStep
    <3>4. Settled BY <2>0, <2>3, <3>1, <3>3, ZenonT(60) DEF Settled, Recorded, RunInv
    <3>5. /\ teardown' \in [Calls -> Teardown]
          /\ \A e \in Calls : teardown'[e].step # "none"
                              => teardown[e].step # "none" \/ e \in {d}
      BY <2>3, TearDownType
    <3> QED BY <2>1, <2>3, <3>1, <3>3, <3>4, <3>5 DEF RunInv, RunStep
  <2>4. CASE /\ c # NoCall /\ running' = [running EXCEPT ![t] = NoCall]
             /\ cache' = InsertCompleted(cache, c, end) /\ TearDown({c}, FALSE)
    <3>1. c \in Calls /\ call[c].task = t /\ call[c].pc \in Over
      BY <2>0, <2>4 DEF RunInv
    <3>2. Hears(c, end) BY <1>7, <2>4, <3>1 DEF CompleteCall, Keep, Hears
    <3> QED BY <2>0, <2>3, <2>4, <3>1, <3>2
  <2> QED BY <1>7, <2>2, <2>4 DEF CompleteCall
<1>8. ASSUME NEW k \in Calls, ChildGone(k) PROVE RunStep
  <2> DEFINE R == {c \in Calls : Runs(c) /\ call[c].conn = k}
             T == IF R = {} THEN ReservedOn(k) ELSE R
  <2>1. /\ DrainCanceled(R) /\ TearDown(R, FALSE) /\ verdict' = Keep(verdict, T, "canceled")
    BY <1>8 DEF ChildGone
  <2>2. R \in SUBSET Calls /\ R \subseteq T /\ \A c \in R : Runs(c) OBVIOUS
  <2> QED BY <2>1, <2>2, DrainStep
<1>9. ASSUME NEW c \in Calls, CancelHandle(c) PROVE RunStep
  <2>1. CASE Runs(c) BY <1>9, <2>1, DrainStep DEF CancelHandle
  <2> QED BY <1>1, <1>9, <2>1 DEF CancelHandle
<1>10. ASSUME NEW p \in Parents, NEW t \in Tasks, CancelTask(p, t) PROVE RunStep
  <2>1. running[t] \in Calls /\ call[running[t]].task = t BY <1>10 DEF CancelTask, RunInv
  <2>2. Runs(running[t]) BY <2>1, CallAssumption DEF CallAssumption, Runs
  <2> QED BY <1>10, <2>1, <2>2, DrainStep DEF CancelTask
<1>11. ASSUME NEW p \in Parents, CancelByParentTurn(p) PROVE RunStep
  <2>1. RunsOf(p) \in SUBSET Calls /\ \A c \in RunsOf(p) : Runs(c) BY DEF RunsOf
  <2> QED BY <1>11, <2>1, DrainStep DEF CancelByParentTurn, Stopped
<1>12. ASSUME NEW p \in Parents, CancelByParent(p) PROVE RunStep
  <2>1. running' \in [Tasks -> Calls \cup {NoCall}]
        /\ \A t \in Tasks : running'[t] \in {running[t], NoCall}
    BY <1>12 DEF CancelByParent, Drained, RunInv
  <2>2. cache'.rec \in Recs /\ Lasts(cache.rec, cache'.rec)
    BY <1>12, DropRec DEF CancelByParent, RunInv
  <2>3. verdict' \in [Calls -> Outcomes \cup {"none"}]
    BY <1>12 DEF CancelByParent, Stopped, Keep, RunInv, Outcomes
  <2>4. \A c \in RunsOf(p) : c \in Calls /\ call'[c].pc \in Over
    BY RunsFacts, OverStays DEF RunsOf
  <2>5. /\ teardown' \in [Calls -> Teardown]
        /\ \A c \in Calls : teardown'[c].step # "none"
                            => teardown[c].step # "none" \/ call'[c].pc \in Over
    BY <1>12, <2>4, TearDownType DEF CancelByParent
  <2> QED BY <2>1, <2>2, <2>3, <2>5 DEF RunStep, Settled, Lasts
<1> QED BY <1>1, <1>3, <1>4, <1>5, <1>6, <1>7, <1>8, <1>9, <1>10, <1>11, <1>12, ZenonT(60)
        DEF Next, vars, pending, child, past, Setup, Settlement, Worker, ParentEnds,
            BufferHandle, WorkerReads, ChildDies, TurnEnds, Connect, CloseParent,
            ParentDies, Revoke, Leave, Dispatch, Enter, MemGate, RowGate, NoSpawn, Spawn,
            Send, SendError, Release

LEMMA TaskStays ==
  ASSUME CallInv, CallStep, NEW c \in Calls, call[c].pc # "idle"
  PROVE  call'[c].task = call[c].task /\ call'[c].par = call[c].par /\ call'[c].pc # "idle"
BY ZenonT(60)
DEF CallStep, MovesAlone, Stays, Dispatched, Entered, Claimed, Readied, Spawns, Sends, Parks,
       Returns, Returned, Released, Goes, At, Kept, Same

LEMMA RunInit == ASSUME CallAssumption, Init PROVE RunInv
  BY CallAssumption DEF CallAssumption, Init, RunInv, Recs, MaybeRec, NoRecord, NoTeardown,
     Teardown, Outcomes

LEMMA RunNext == ASSUME CallInv, RunInv, CallStep, RunStep PROVE RunInv'
<1>1. ASSUME NEW t \in Tasks, running'[t] # NoCall
      PROVE  call'[running'[t]].task = t /\ call'[running'[t]].pc \in Over
  <2>1. CASE running'[t] = running[t]
    <3>1. /\ running[t] \in Calls /\ call[running[t]].task = t
          /\ call[running[t]].pc \in Over
      BY <1>1, <2>1 DEF RunInv
    <3> QED BY <2>1, <3>1, OverStays DEF Kept, Same
  <2>2. ASSUME NEW c \in Calls, Parks(c), running' = [running EXCEPT ![call[c].task] = c],
               running'[t] # running[t]
        PROVE  call'[running'[t]].task = t /\ call'[running'[t]].pc \in Over
    <3>1. t = call[c].task /\ running'[t] = c BY <2>2 DEF RunInv
    <3> QED BY <2>2, <3>1 DEF Parks, Goes, Kept, Same, Over
  <2> QED BY <1>1, <2>1, <2>2 DEF RunStep, Settled, Started
<1>2. ASSUME NEW t \in Tasks, cache'.rec[t] # NoRecord
      PROVE  call'[cache'.rec[t].run].task = t /\ call'[cache'.rec[t].run].pc \in Over
  <2>1. CASE cache'.rec[t] = cache.rec[t]
    <3> DEFINE r == cache.rec[t].run
    <3>1. cache.rec[t] \in Record BY <1>2, <2>1 DEF RunInv, Recs, MaybeRec
    <3>2. r \in Calls /\ call[r].task = t /\ call[r].pc \in Over
      BY <1>2, <2>1, <3>1 DEF RunInv, Record
    <3> QED BY <2>1, <3>2, OverStays DEF Kept, Same
  <2>2. CASE Recorded(t)
    <3>1. \A r \in Calls : call'[r].pc \in Over /\ call[r].task = t /\ r = cache'.rec[t].run
                             => call'[r].task = t
      <4>1. \A r \in Calls : call'[r].pc \in Over => call[r].pc # "idle"
        BY ZenonT(60)
        DEF CallStep, MovesAlone, Stays, Dispatched, Entered, Claimed, Readied, Spawns,
               Sends, Parks, Returns, Returned, Released, Goes, At, Kept, Same, Over
      <4> QED BY <4>1, TaskStays
    <3> QED BY <2>2, <3>1 DEF Recorded
  <2> QED BY <1>2, <2>1, <2>2 DEF RunStep, Settled, Started, Lasts
<1>3. \A c \in Calls : teardown'[c].step # "none" => call'[c].pc \in Over
  BY OverStays DEF RunStep, RunInv
<1> QED BY <1>1, <1>2, <1>3 DEF RunStep, RunInv

----------------------------------------------------------------------------
(* One run per task *)

\* A resumption that has the claim of its task.
Holds(c) == call[c].claim /\ call[c].pc # "done"
Waits(c) == call[c].pc \in {"ready", "spawned", "sent"} \/ (At(c, "row") /\ call[c].claim)

HoldersHold == \A c \in Calls : Holds(c) => Resumes(c) /\ call[c].task \in resuming
OneHolder   == \A c, d \in Calls : Holds(c) /\ Holds(d) /\ call[c].task = call[d].task => c = d
ResumesOld  == \A c \in Calls : call[c].pc # "idle" /\ Resumes(c) =>
                 LET t == call[c].task IN call[t].pc = "done" /\ call[t].task = t
ClaimFirst  == \A c \in Calls : /\ Resumes(c) /\ (Waits(c) \/ At(c, "parked")) => call[c].claim
                                /\ call[c].pc \in {"gate", "row"} => Resumes(c)
WaitsAlone  == \A c \in Calls : /\ Waits(c) => running[call[c].task] = NoCall
                                /\ At(c, "parked") => running[call[c].task] \in {NoCall, c}
NoStale     == \A t \in Tasks : running[t] # NoCall => cache.rec[t] = NoRecord

ClaimInv == HoldersHold /\ OneHolder /\ ResumesOld /\ ClaimFirst /\ WaitsAlone /\ NoStale

LEMMA ClaimInit == ASSUME CallAssumption, Init PROVE ClaimInv
<1>1. \A c \in Calls : call[c].pc = "idle" /\ ~call[c].claim BY DEF Init, Idle
<1>2. \A t \in Tasks : running[t] = NoCall BY DEF Init
<1> QED BY <1>1, <1>2 DEF ClaimInv, HoldersHold, OneHolder, ResumesOld, ClaimFirst, WaitsAlone,
        NoStale, Holds, Waits, At

\* Nobody else works on the task of a call that is past the gate.
Busy(c) == Waits(c) \/ At(c, "parked")

LEMMA BusyAlone ==
  ASSUME CallInv, ClaimInv, NEW c \in Calls, NEW d \in Calls, Busy(c), Busy(d),
         call[c].task = call[d].task
  PROVE  c = d
<1>1. \A e \in Calls : Busy(e) /\ Resumes(e) => Holds(e)
  BY DEF ClaimInv, ClaimFirst, Busy, Waits, At, Holds
<1>2. \A e \in Calls : Busy(e) => call[e].pc \notin {"idle", "done"} BY DEF Busy, Waits, At
<1>3. CASE Resumes(c) /\ Resumes(d) BY <1>1, <1>3 DEF ClaimInv, OneHolder
<1>4. CASE ~Resumes(c) /\ ~Resumes(d) BY <1>4 DEF Resumes
<1>5. CASE ~Resumes(c) /\ Resumes(d) BY <1>2, <1>5 DEF ClaimInv, ResumesOld, Resumes
<1>6. CASE Resumes(c) /\ ~Resumes(d) BY <1>2, <1>6 DEF ClaimInv, ResumesOld, Resumes
<1> QED BY <1>3, <1>4, <1>5, <1>6

\* A task whose first call is still under way has neither run nor result.
LEMMA NewTask ==
  ASSUME CallInv, RunInv, ClaimInv, NEW c \in Calls, call[c].task = c,
         call[c].pc \notin Over
  PROVE  running[c] = NoCall /\ cache.rec[c] = NoRecord
<1>1. \A r \in Calls : ~(call[r].task = c /\ call[r].pc \in Over)
  <2> SUFFICES ASSUME NEW r \in Calls, call[r].task = c, call[r].pc \in Over PROVE FALSE
    OBVIOUS
  <2>1. r # c /\ Resumes(r) /\ call[r].pc # "idle" BY DEF Resumes, Over
  <2> QED BY <2>1 DEF ClaimInv, ResumesOld, Over
<1>2. cache.rec[c] # NoRecord => cache.rec[c].run \in Calls
  BY DEF RunInv, Recs, MaybeRec, Record
<1> QED BY <1>1, <1>2 DEF RunInv

LEMMA DoneStays ==
  ASSUME CallInv, CallStep, NEW c \in Calls, call[c].pc = "done"
  PROVE  call'[c].pc = "done" /\ Kept(c)
BY ZenonT(60)
DEF CallStep, MovesAlone, Stays, Dispatched, Entered, Claimed, Readied, Spawns, Sends, Parks,
       Returns, Returned, Released, Goes, At, Kept, Same

LEMMA HolderWas ==
  ASSUME CallInv, CallStep, NEW c \in Calls, Holds(c)'
  PROVE  \/ Holds(c) /\ Same(c)
         \/ Claimed(c) /\ call[c].task \notin resuming
<1> USE DEF Goes, At, Kept, Same, Holds
<1>1. CASE Claimed(c)
  BY <1>1 DEF Claimed
<1>2. CASE Dispatched(c) \/ Released(c) BY <1>2 DEF Dispatched, Released
<1>3. CASE Entered(c) \/ Readied(c) \/ Spawns(c) \/ Sends(c) \/ Parks(c) \/ Returns(c)
  BY <1>3 DEF Entered, Readied, Spawns, Sends, Parks, Returns
<1>4. CASE Stays(c) \/ call'[c] = call[c] BY <1>4 DEF Stays
<1> QED BY <1>1, <1>2, <1>3, <1>4, ZenonT(60) DEF CallStep, MovesAlone

LEMMA ParksAlone ==
  ASSUME CallInv, CallStep, NEW c \in Calls, Parks(c)
  PROVE  \A d \in Calls \ {c} : call'[d] = call[d]
BY ZenonT(60) DEF CallStep, MovesAlone, Stays, Parks, Goes, At

LEMMA HoldersNext == ASSUME CallInv, ClaimInv, CallStep PROVE HoldersHold' /\ OneHolder'
<1>1. ASSUME NEW c \in Calls, NEW d \in Calls, Holds(c)', Holds(d)', c # d,
             call'[c].task = call'[d].task
      PROVE  FALSE
  <2>1. Holds(c) \/ Holds(d)
    BY <1>1, HolderWas DEF CallStep, MovesAlone, Claimed, Goes, At, Holds, Stays
  <2>2. CASE Holds(c) /\ Holds(d)
    BY <1>1, <2>2, HolderWas DEF ClaimInv, OneHolder, Same, Claimed
  <2>3. CASE Holds(c) /\ ~Holds(d)
    BY <1>1, <2>3, HolderWas DEF ClaimInv, HoldersHold, OneHolder, Same, Claimed
  <2>4. CASE ~Holds(c) /\ Holds(d)
    BY <1>1, <2>4, HolderWas DEF ClaimInv, HoldersHold, OneHolder, Same, Claimed
  <2> QED BY <2>1, <2>2, <2>3, <2>4
<1>2. ASSUME NEW c \in Calls, Holds(c)'
      PROVE  call'[c].task # c /\ call'[c].task \in resuming'
  <2>1. CASE Claimed(c)
    BY <2>1 DEF ClaimInv, ClaimFirst, Claimed, Goes, At, Resumes
  <2>2. CASE Holds(c) /\ Same(c)
    <3>1. call[c].task # c /\ call[c].task \in resuming /\ call'[c].task = call[c].task
      BY <2>2 DEF ClaimInv, HoldersHold, Resumes, Same
    <3>2. ASSUME NEW d \in Calls, Released(d), call[d].task = call[c].task PROVE FALSE
      <4>1. Holds(d) BY <3>2 DEF CallInv, Placed, Released, Goes, At, Holds
      <4>2. c = d BY <2>2, <3>2, <4>1 DEF ClaimInv, OneHolder
      <4> QED BY <1>2, <3>2, <4>2 DEF Holds, Released, Goes
    <3> QED BY <3>1, <3>2, ZenonT(60) DEF CallStep, MovesAlone, Claimed, Released
  <2> QED BY <1>2, <2>1, <2>2, HolderWas
<1> QED BY <1>1, <1>2 DEF HoldersHold, OneHolder, Resumes

LEMMA ResumesNext == ASSUME CallInv, ClaimInv, CallStep PROVE ResumesOld'
<1> SUFFICES ASSUME NEW c \in Calls, call'[c].pc # "idle", call'[c].task # c
             PROVE  LET t == call'[c].task IN call'[t].pc = "done" /\ call'[t].task = t
  BY DEF ResumesOld, Resumes
<1> DEFINE t == call'[c].task
<1>1. t \in Calls /\ call[t].pc = "done" /\ call[t].task = t
  <2>1. CASE call[c].pc = "idle"
    BY <2>1, ZenonT(60)
    DEF CallStep, MovesAlone, Stays, Kept, Dispatched, Entered, Claimed, Readied, Spawns,
           Sends, Parks, Returns, Released, Goes, At
  <2>2. CASE call[c].pc # "idle"
    <3>1. t = call[c].task BY <2>2, TaskStays
    <3>2. t \in Calls BY <2>2, <3>1 DEF CallInv, Placed
    <3> QED BY <2>2, <3>1, <3>2 DEF ClaimInv, ResumesOld, Resumes
  <2> QED BY <2>1, <2>2
<1> QED BY <1>1, DoneStays DEF Kept, Same

LEMMA ClaimNext ==
  ASSUME CallInv, RunInv, ClaimInv, CallStep, RunStep
  PROVE  ClaimInv'
<1> USE DEF At, Goes
<1>1. HoldersHold' /\ OneHolder' BY HoldersNext
<1>2. ResumesOld' BY ResumesNext
<1>3. ClaimFirst'
  <2> SUFFICES ASSUME NEW c \in Calls
               PROVE  /\ Resumes(c)' /\ (Waits(c)' \/ At(c, "parked")') => call'[c].claim
                      /\ call'[c].pc \in {"gate", "row"} => Resumes(c)'
    BY DEF ClaimFirst
  <2>1. CASE Stays(c) \/ call'[c] = call[c]
    BY <2>1 DEF ClaimInv, ClaimFirst, Stays, Kept, Same, Resumes, Waits
  <2>2. CASE Dispatched(c) \/ Released(c) \/ Returns(c)
    BY <2>2 DEF Dispatched, Released, Returns, Returned, Waits
  <2>3. CASE Entered(c) \/ Claimed(c) \/ Readied(c)
    BY <2>3 DEF ClaimInv, ClaimFirst, Entered, Claimed, Readied, Kept, Same, Resumes, Waits
  <2>4. CASE Spawns(c) \/ Sends(c) \/ Parks(c)
    BY <2>4 DEF ClaimInv, ClaimFirst, Spawns, Sends, Parks, Kept, Same, Resumes, Waits
  <2> QED BY <2>1, <2>2, <2>3, <2>4, ZenonT(60) DEF CallStep, MovesAlone
<1>4. ASSUME NEW c \in Calls, Waits(c)' PROVE running'[call'[c].task] = NoCall
  <2> DEFINE t == call'[c].task
  <2>1. t \in Tasks /\ running[t] = NoCall
    <3>1. CASE Waits(c)
      <4>1. call[c].task = t /\ call[c].task \in Tasks
        BY <3>1, TaskStays DEF Waits, CallInv, Placed
      <4> QED BY <3>1, <4>1 DEF ClaimInv, WaitsAlone
    <3>2. CASE Claimed(c)
      <4>1. call[c].task = t /\ call[c].task \in Tasks
        BY <3>2 DEF Claimed, CallInv, Placed
      <4> QED BY <3>2, <4>1 DEF Claimed, ClaimInv, NoStale
    <3>3. CASE Entered(c)
      <4>1. call[c].task = t /\ call[c].task = c
        BY <1>4, <3>3 DEF Entered, Same, Resumes, Waits
      <4> QED BY <3>3, <4>1, NewTask DEF Entered, Over
    <3> QED
      BY <1>4, <3>1, <3>2, <3>3, ZenonT(60)
      DEF CallStep, MovesAlone, Stays, Dispatched, Readied, Spawns,
         Sends, Parks, Returns, Returned, Released, Kept, Same, Waits
  <2>2. ASSUME NEW d \in Calls, Parks(d), running' = [running EXCEPT ![call[d].task] = d],
               call[d].task = t
        PROVE  FALSE
    <3>1. c # d BY <1>4, <2>2 DEF Parks, Waits
    <3>2. call'[c] = call[c] BY <2>2, <3>1, ParksAlone
    <3>3. Busy(c) /\ Busy(d) BY <1>4, <2>2, <3>2 DEF Busy, Waits, Parks
    <3> QED BY <2>2, <3>1, <3>2, <3>3, BusyAlone
  <2> QED BY <2>1, <2>2 DEF RunStep, Settled, Started, RunInv
<1>5. ASSUME NEW c \in Calls, At(c, "parked")'
      PROVE  running'[call'[c].task] \in {NoCall, c}
  <2> DEFINE t == call'[c].task
  <2>1. t \in Tasks /\ t = call[c].task /\ running[t] \in {NoCall, c} /\ Busy(c)
    <3>1. Busy(c)
      BY <1>5, ZenonT(60)
      DEF CallStep, MovesAlone, Stays, Dispatched, Entered, Claimed, Readied, Spawns,
         Sends, Parks, Returns, Returned, Released, Kept, Same, Waits, Busy
    <3>2. t = call[c].task /\ call[c].task \in Tasks
      BY <3>1, TaskStays DEF Busy, Waits, CallInv, Placed
    <3> QED BY <3>1, <3>2 DEF Busy, ClaimInv, WaitsAlone
  <2>2. ASSUME NEW d \in Calls, Parks(d), running' = [running EXCEPT ![call[d].task] = d],
               call[d].task = t
        PROVE  c = d
    BY <2>1, <2>2, BusyAlone DEF Busy, Waits, Parks
  <2> QED BY <2>1, <2>2 DEF RunStep, Settled, Started, RunInv
<1>6. NoStale'
  <2> SUFFICES ASSUME NEW t \in Tasks, running'[t] # NoCall PROVE cache'.rec[t] = NoRecord
    BY DEF NoStale
  <2>1. CASE Settled
    <3>1. running[t] # NoCall /\ cache.rec[t] = NoRecord
      BY <2>1 DEF Settled, ClaimInv, NoStale
    <3>2. ASSUME Recorded(t) PROVE FALSE
      <4> DEFINE r == cache'.rec[t].run
      <4>1. r \in Calls /\ call[r].task = t /\ At(r, "sent")
        BY <3>2 DEF Recorded
      <4> QED BY <3>1, <4>1 DEF ClaimInv, WaitsAlone, Waits
    <3> QED BY <2>1, <3>1, <3>2 DEF Settled
  <2>2. ASSUME NEW c \in Calls, Parks(c), running' = [running EXCEPT ![call[c].task] = c],
               Lasts(cache.rec, cache'.rec),
               Resumes(c) => cache'.rec[call[c].task] = NoRecord
        PROVE  cache'.rec[t] = NoRecord
    <3>1. CASE t # call[c].task
      BY <2>2, <3>1 DEF RunInv, ClaimInv, NoStale, Lasts
    <3>2. CASE t = call[c].task /\ Resumes(c) BY <2>2, <3>2
    <3>3. CASE t = call[c].task /\ ~Resumes(c)
      <4>1. cache.rec[t] = NoRecord BY <2>2, <3>3, NewTask DEF Resumes, Parks, Over
      <4> QED BY <2>2, <4>1 DEF Lasts
    <3> QED BY <3>1, <3>2, <3>3
  <2> QED BY <2>1, <2>2 DEF RunStep, Started
<1> QED BY <1>1, <1>2, <1>3, <1>4, <1>5, <1>6 DEF ClaimInv, WaitsAlone, Resumes

----------------------------------------------------------------------------
(* Children go with their parent *)

ParentRow  == [phase: {"absent", "up", "revoked", "swept"}, mapped: BOOLEAN]
ParentType == parent \in [Parents -> ParentRow]
NewlySwept(p) == parent'[p].phase = "swept" /\ parent[p].phase # "swept"
Swept(c) == parent[call[c].par].phase = "swept" /\ ~call[c].late
SweepInv == /\ ParentType
            /\ \A c \in Calls : Swept(c) => (Inflight(c) => Flagged(c)) /\ ~Runs(c)

LEMMA SweepInit == ASSUME CallAssumption, BoundAssumption, Init PROVE SweepInv
BY CallAssumption DEF CallAssumption, BoundAssumption, Init, SweepInv, ParentType, ParentRow,
   Swept, Parents, Inflight, Idle, SetupPcs, Runs

LEMMA RunWas ==
  ASSUME CallInv, CallInv', RunInv, CallStep, RunStep, NEW c \in Calls, Runs(c)'
  PROVE  Runs(c) \/ (Parks(c) /\ Fate(c) = "running")
<1> DEFINE t == call'[c].task
<1>2. t # NoCall /\ running'[t] = c BY DEF Runs
<1>3. ASSUME t \in Tasks, running[t] = c PROVE Runs(c)
  BY <1>3, CallAssumption DEF CallAssumption, RunInv, Runs
<1>4. t \in Tasks BY <1>2 DEF CallInv, Call
<1>5. CASE Settled BY <1>2, <1>3, <1>4, <1>5, CallAssumption DEF CallAssumption, Settled
<1>6. ASSUME NEW d \in Calls, Parks(d), Fate(d) = "running",
             running' = [running EXCEPT ![call[d].task] = d]
      PROVE  Runs(c) \/ (Parks(c) /\ Fate(c) = "running")
  <2>1. CASE d = c BY <1>6, <2>1
  <2>2. CASE d # c BY <1>2, <1>3, <1>4, <1>6, <2>2 DEF RunInv
  <2> QED BY <2>1, <2>2
<1> QED BY <1>5, <1>6 DEF RunStep, Started

LEMMA SweepNext ==
  ASSUME CallInv, CallInv', RunInv, SweepInv, CallStep, RunStep, [Next]_vars
  PROVE  SweepInv'
<1> USE DEF At, ParentRow, NewlySwept
<1>0. \A c \in Calls : call[c].par \in Parents BY DEF CallInv, Call
<1>1. ASSUME NEW p \in Parents, CancelByParent(p) PROVE SweepInv'
  <2>1. ParentType' BY <1>1 DEF SweepInv, ParentType, CancelByParent
  <2>2. \A q \in Parents \ {p} : parent'[q] = parent[q]
    BY <1>1 DEF CancelByParent, SweepInv, ParentType
  <2>3. ASSUME NEW c \in Calls
        PROVE  /\ call'[c].par = call[c].par /\ call'[c].late = call[c].late
               /\ call'[c].pc = call[c].pc /\ call'[c].task = call[c].task
               /\ Inflight(c) /\ (Flagged(c) \/ call[c].par = p) => call'[c].early.cancel
    BY <1>1 DEF CancelByParent, Flag, Buffered, FlaggedBy, Flagged, WithCancel, CallInv, Call
  <2>4. ASSUME NEW c \in Calls, Runs(c)' PROVE Runs(c) /\ call[c].par # p
    <3>1. call[c].task # NoCall /\ call[c].task \in Tasks BY <2>3, <2>4 DEF Runs, CallInv, Call
    <3>2. running'[call[c].task] = c BY <2>3, <2>4 DEF Runs
    <3>3. running[call[c].task] = c /\ c \notin RunsOf(p)
      BY <1>1, <3>1, <3>2, CallAssumption DEF CallAssumption, CancelByParent, Drained
    <3> QED BY <3>1, <3>3 DEF RunsOf, Runs
  <2>5. ASSUME NEW c \in Calls, Swept(c)' PROVE (Inflight(c)' => Flagged(c)') /\ ~Runs(c)'
    <3>1. CASE call[c].par = p
      BY <2>3, <2>4, <3>1 DEF Inflight, Flagged
    <3>2. CASE call[c].par # p
      <4>1. Swept(c) BY <1>0, <2>2, <2>3, <2>5, <3>2 DEF Swept
      <4> QED BY <2>3, <2>4, <4>1 DEF SweepInv, Inflight, Flagged
    <3> QED BY <3>1, <3>2
  <2> QED BY <2>1, <2>5 DEF SweepInv
<1>2. ASSUME \A p \in Parents : ~NewlySwept(p),
             ParentType'
      PROVE  SweepInv'
  <2> SUFFICES ASSUME NEW c \in Calls, Swept(c)'
               PROVE  (Inflight(c)' => Flagged(c)') /\ ~Runs(c)'
    BY <1>2 DEF SweepInv
  <2>1. CASE Swept(c)
    <3>1. ~Parks(c) BY <2>1 DEF SweepInv, Parks, Goes, Inflight, SetupPcs
    <3>2. ~Runs(c)' BY <2>1, <3>1, RunWas DEF SweepInv
    <3>3. Inflight(c) \/ ~Inflight(c)'
      BY <2>1, ZenonT(60)
      DEF Swept, Inflight, SetupPcs, CallStep, MovesAlone, Stays, Dispatched, Entered,
         Claimed, Readied, Spawns, Sends, Parks, Returns, Returned, Released, Goes
    <3>4. Flagged(c) /\ Inflight(c)' => Flagged(c)'
      BY DEF Flagged, Inflight, SetupPcs, CallStep, MovesAlone, Stays, Dispatched, Entered,
         Claimed, Readied, Spawns, Sends, Parks, Returns, Returned, Released, Goes
    <3> QED BY <2>1, <3>2, <3>3, <3>4 DEF SweepInv
  <2>2. CASE ~Swept(c)
    <3>1. Dispatched(c)
      <4>1. CASE call[c].pc = "idle"
        BY <1>0, <1>2, <2>2, <4>1, ZenonT(60)
        DEF Swept, CallStep, MovesAlone, Stays, Kept, Same, Entered,
           Claimed, Readied, Spawns, Sends, Parks, Returns, Released, Goes
      <4>2. CASE call[c].pc # "idle"
        <5>1. parent[call[c].par].phase = "swept" BY <1>0, <1>2, <4>2, TaskStays DEF Swept
        <5>2. call[c].late /\ ~call'[c].late BY <2>2, <5>1 DEF Swept
        <5> QED BY <5>1, <5>2, ZenonT(60) DEF CallStep, MovesAlone, Stays, Kept, Entered,
                   Claimed, Readied, Spawns, Sends, Parks, Returns, Released, Goes
      <4> QED BY <4>1, <4>2
    <3>2. ~Inflight(c)' BY <3>1 DEF Dispatched, Goes, Inflight, SetupPcs
    <3>3. ~Runs(c)'
      <4>1. ~Runs(c) BY <3>1, RunsFacts DEF Dispatched, Goes, Over
      <4> QED BY <3>1, <4>1, RunWas DEF Dispatched, Parks, Goes
    <3> QED BY <3>2, <3>3
  <2> QED BY <2>1, <2>2
<1>3. (\A p \in Parents : ~CancelByParent(p))
        => ParentType' /\ \A p \in Parents : ~NewlySwept(p)
  <2>1. CASE UNCHANGED parent BY <2>1 DEF SweepInv, ParentType
  <2>2. ASSUME NEW p \in Parents,
               Connect(p) \/ CloseParent(p) \/ Revoke(p) \/ ParentDies(p) \/ Leave(p)
        PROVE  ParentType' /\ \A q \in Parents : ~NewlySwept(q)
    <3>1. ASSUME NEW d \in ParentRow,
                 d.phase = "swept" => parent[p].phase = "swept",
                 parent' = [parent EXCEPT ![p] = d]
          PROVE  ParentType' /\ \A q \in Parents : ~NewlySwept(q)
      BY <3>1 DEF SweepInv, ParentType
    <3>2. CASE Connect(p) BY <3>1, <3>2 DEF Connect
    <3>3. CASE CloseParent(p)
      <4>1. [parent[p] EXCEPT !.mapped = FALSE] \in ParentRow
        BY DEF SweepInv, ParentType
      <4> QED BY <3>1, <3>3, <4>1 DEF CloseParent, SweepInv, ParentType
    <3>4. CASE Leave(p)
      <4>1. [parent[p] EXCEPT !.mapped = FALSE] \in ParentRow
        BY DEF SweepInv, ParentType
      <4> QED BY <3>1, <3>4, <4>1 DEF Leave, SweepInv, ParentType
    <3>5. CASE Revoke(p) \/ ParentDies(p)
      <4>1. [parent[p] EXCEPT !.phase = "revoked"] \in ParentRow
        BY DEF SweepInv, ParentType
      <4>2. [parent[p] EXCEPT !.phase = "revoked"].phase = "revoked"
        BY DEF SweepInv, ParentType
      <4> QED BY <3>1, <3>5, <4>1, <4>2 DEF Revoke, ParentDies
    <3> QED BY <2>2, <3>2, <3>3, <3>4, <3>5
  <2> QED
    BY <2>1, <2>2, ZenonT(60)
    DEF Next, vars, Setup, Settlement, Worker, ParentEnds, CancelHandle, BufferHandle, Tell,
        Disconnect, WorkerReads, ChildDies, TurnEnds, CancelTask, Dispatch, Enter, MemGate,
        RowGate, NoSpawn, Spawn, Send, SendError, Park, SecondCheck, Release, CompleteCall,
        ChildGone, CancelByParentTurn
<1> QED BY <1>1, <1>2, <1>3

----------------------------------------------------------------------------
(* No child is left behind *)

InSetup(k)  == call[k].pc \in {"spawned", "sent"} /\ call[k].conn = k
Settling(c) == teardown[c].step # "none"
OrphanInv == \A k \in Calls : Mapped(k) =>
               InSetup(k) \/ \E c \in Calls : call[c].conn = k /\ (Runs(c) \/ Settling(c))

\* A run that is taken out is settled, and a settlement ends with the child.
Answered ==
  /\ \A c \in Calls : Runs(c) => Runs(c)' \/ Settling(c)'
  /\ \A c \in Calls :
       Settling(c) => Settling(c)' \/ ~(call[c].conn \in Calls /\ Mapped(call[c].conn)')

LEMMA OrphanInit == Init => OrphanInv
BY DEF Init, OrphanInv, Mapped, NoConn

LEMMA AnsweredKeeps ==
  ASSUME CallInv, RunInv, CallStep, OrphanInv, Answered, NEW k \in Calls, Mapped(k), Mapped(k)',
         InSetup(k) => InSetup(k)' \/ (call'[k].conn = k /\ (Runs(k)' \/ Settling(k)'))
  PROVE  InSetup(k)' \/ \E c \in Calls : call'[c].conn = k /\ (Runs(c)' \/ Settling(c)')
<1>1. CASE InSetup(k) BY <1>1
<1>2. ASSUME NEW c \in Calls, call[c].conn = k, Runs(c) \/ Settling(c)
      PROVE  call'[c].conn = k /\ (Runs(c)' \/ Settling(c)')
  <2>1. call[c].pc \in Over BY <1>2, RunsFacts DEF RunInv, Settling
  <2>2. call'[c].conn = k BY <1>2, <2>1, OverStays DEF Kept
  <2> QED BY <1>2, <2>2 DEF Answered
<1> QED BY <1>1, <1>2 DEF OrphanInv

LEMMA TearDownAnswers ==
  ASSUME CallInv, RunInv, CallStep, NEW S, NEW cancel, TearDown(S, cancel),
         \A t \in Tasks : running'[t] = running[t] \/ running[t] \in S
  PROVE  Answered /\ \A c \in S \cap Calls : Settling(c)'
<1>1. ASSUME NEW c \in Calls, Runs(c) PROVE Runs(c)' \/ c \in S
  <2>1. call[c].task \in Tasks /\ running[call[c].task] = c /\ call[c].pc \in Over
    BY <1>1, RunsFacts
  <2>2. call'[c].task = call[c].task BY <2>1, OverStays DEF Kept, Same
  <2> QED BY <1>1, <2>1, <2>2 DEF Runs
<1>2. \A c \in Calls : (c \in S => Settling(c)') /\ (Settling(c) => Settling(c)')
  BY DEF TearDown, Settling, Settle
<1> QED BY <1>1, <1>2 DEF Answered

LEMMA QuietAnswers ==
  ASSUME CallInv, RunInv, CallStep, UNCHANGED running,
         \A c \in Calls : Settling(c) => Settling(c)'
  PROVE  Answered
<1>1. ASSUME NEW c \in Calls, Runs(c) PROVE Runs(c)'
  <2>1. call[c].pc \in Over BY <1>1, RunsFacts
  <2>2. call'[c].task = call[c].task BY <2>1, OverStays DEF Kept, Same
  <2> QED BY <1>1, <2>2 DEF Runs
<1> QED BY <1>1 DEF Answered

LEMMA OrphanNext ==
  ASSUME CallInv, ConnInv, RunInv, ClaimInv, OrphanInv, CallStep, RunStep, [Next]_vars
  PROVE  OrphanInv'
<1> USE DEF At
<1>0. \A c \in Calls : call[c] \in Call /\ Placed(call[c]) BY DEF CallInv
<1>1. ASSUME Answered, \A k \in Calls : Mapped(k)' => Mapped(k),
             \A k \in Calls : InSetup(k) => \/ InSetup(k)' \/ ~Mapped(k)'
                                            \/ call'[k].conn = k /\ (Runs(k)' \/ Settling(k)')
      PROVE  OrphanInv'
  BY <1>1, AnsweredKeeps DEF OrphanInv
<1>2. ASSUME NEW c \in Calls, Spawn(c) PROVE OrphanInv'
  <2>1. Answered BY <1>2, QuietAnswers DEF Spawn, pending, Settling
  <2>2. \A k \in Calls \ {c} : call'[k] = call[k] /\ conn'[k] = conn[k]
    BY <1>2 DEF CallInv, ConnInv, Spawn
  <2>3. conn' # conn => InSetup(c)' BY <1>2 DEF Spawn, CallInv, Call, InSetup
  <2>4. ASSUME NEW k \in Calls, Mapped(k)'
        PROVE  InSetup(k)' \/ \E d \in Calls : call'[d].conn = k /\ (Runs(d)' \/ Settling(d)')
    <3>1. CASE k = c /\ conn' # conn BY <2>3, <3>1
    <3>2. CASE ~(k = c /\ conn' # conn)
      <4>1. Mapped(k) BY <2>2, <2>4, <3>2 DEF Mapped
      <4>2. InSetup(k) => InSetup(k)' BY <1>2, <2>2 DEF Spawn, InSetup
      <4> QED BY <2>1, <2>4, <4>1, <4>2, AnsweredKeeps
    <3> QED BY <3>1, <3>2
  <2> QED BY <2>4 DEF OrphanInv
<1>3. ASSUME NEW c \in Calls, SendError(c) PROVE OrphanInv'
  <2>1. Answered BY <1>3, QuietAnswers DEF SendError, pending, Settling
  <2>2. \A k \in Calls : Mapped(k)' => Mapped(k) BY <1>3 DEF SendError, Without, Mapped
  <2>3. \A k \in Calls \ {c} : call'[k] = call[k] BY <1>3 DEF SendError, CallInv
  <2>4. InSetup(c) => ~Mapped(c)'
    <3>1. conn[c] \in Conn BY DEF ConnInv
    <3>2. CASE InSetup(c) /\ Mapped(c)
      <4>1. ~Spares(c) BY <3>2 DEF InSetup, Spares, Fresh
      <4>2. conn'[c] = [conn[c] EXCEPT !.state = "gone", !.turn = NoCall, !.asked = FALSE]
        BY <1>3, <3>2, <4>1 DEF SendError, Without
      <4>3. conn'[c].state = "gone" BY <3>1, <4>2 DEF Conn
      <4> QED BY <4>3 DEF Mapped
    <3>3. CASE ~Mapped(c)
      <4>1. conn'[c] = conn[c] BY <1>3, <3>3 DEF SendError, Without
      <4> QED BY <3>3, <4>1 DEF Mapped
    <3> QED BY <3>2, <3>3
  <2> QED BY <1>1, <2>1, <2>2, <2>3, <2>4 DEF InSetup
<1>4. ASSUME NEW c \in Calls, Park(c) PROVE OrphanInv'
  <2>0. call[c].task \in Tasks /\ running[call[c].task] = NoCall
    BY <1>0, <1>4 DEF Park, Placed, ClaimInv, WaitsAlone, Waits
  <2>1. \A k \in Calls : Mapped(k)' => Mapped(k) BY <1>4 DEF Park, child, Mapped
  <2>2. \A k \in Calls \ {c} : call'[k] = call[k] BY <1>4 DEF Park, Parked, CallInv
  <2>3. call'[c].conn = call[c].conn /\ call'[c].task = call[c].task
    <3>1. ASSUME NEW pc, Parked(c, pc)
          PROVE  call'[c].conn = call[c].conn /\ call'[c].task = call[c].task
      BY <3>1 DEF Parked, CallInv, Call
    <3> QED BY <1>4, <3>1 DEF Park
  <2>4. CASE running' = [running EXCEPT ![call[c].task] = c] /\ UNCHANGED teardown
    <3>1. Runs(c)' BY <2>0, <2>3, <2>4, CallAssumption DEF CallAssumption, Runs, RunInv
    <3>2. ASSUME NEW d \in Calls, Runs(d) PROVE Runs(d)'
      <4>1. call[d].task \in Tasks /\ running[call[d].task] = d /\ call[d].pc \in Over
        BY <3>2, RunsFacts
      <4>2. call'[d].task = call[d].task BY <4>1, OverStays DEF Kept, Same
      <4>3. call[d].task # call[c].task
        BY <2>0, <4>1, CallAssumption DEF CallAssumption
      <4> QED BY <2>4, <3>2, <4>1, <4>2, <4>3 DEF Runs, RunInv
    <3>3. Answered BY <2>4, <3>2 DEF Answered, Settling
    <3> QED BY <1>1, <2>1, <2>2, <2>3, <3>1, <3>3 DEF InSetup
  <2>5. CASE /\ UNCHANGED running
             /\ teardown' = [teardown EXCEPT ![c] = Settle(Fate(c) = "parent", TRUE)]
    <3>1. Settling(c)' /\ \A d \in Calls : Settling(d) => Settling(d)'
      BY <2>5 DEF Settling, Settle, RunInv
    <3>2. Answered BY <2>5, <3>1, QuietAnswers
    <3> QED BY <1>1, <2>1, <2>2, <2>3, <3>1, <3>2 DEF InSetup
  <2> QED BY <1>4, <2>4, <2>5 DEF Park
<1>5. ASSUME NEW c \in Calls, SecondCheck(c) PROVE OrphanInv'
  <2> DEFINE t == call[c].task
  <2>0. t \in Tasks /\ running[t] \in {NoCall, c}
    BY <1>0, <1>5 DEF SecondCheck, Placed, ClaimInv, WaitsAlone
  <2>1. \A k \in Calls : Mapped(k)' => Mapped(k) BY <1>5 DEF SecondCheck, child, Mapped
  <2>2. \A k \in Calls : InSetup(k) => InSetup(k)'
    BY <1>5 DEF SecondCheck, Return, Go, CallInv, InSetup
  <2>3. CASE UNCHANGED <<running, teardown>>
    BY <1>1, <2>1, <2>2, <2>3, QuietAnswers DEF Settling
  <2>4. CASE /\ running' = [running EXCEPT ![t] = NoCall]
             /\ teardown' = [teardown EXCEPT ![c] = Settle(TRUE, TRUE)]
    <3>1. Settling(c)' /\ \A d \in Calls : Settling(d) => Settling(d)'
      BY <2>4 DEF Settling, Settle, RunInv
    <3>2. ASSUME NEW d \in Calls, Runs(d), d # c PROVE Runs(d)'
      <4>1. call[d].task \in Tasks /\ running[call[d].task] = d /\ call[d].pc \in Over
        BY <3>2, RunsFacts
      <4>2. call'[d].task = call[d].task BY <4>1, OverStays DEF Kept, Same
      <4>3. call[d].task # t BY <2>0, <3>2, <4>1, CallAssumption DEF CallAssumption
      <4> QED BY <2>4, <3>2, <4>1, <4>2, <4>3 DEF Runs, RunInv
    <3>3. Answered BY <3>1, <3>2 DEF Answered
    <3> QED BY <1>1, <2>1, <2>2, <3>3
  <2> QED BY <1>5, <2>3, <2>4 DEF SecondCheck
<1>6. ASSUME NEW c \in Calls, Tell(c) PROVE OrphanInv'
  <2>1. \A d \in Calls : Settling(d) => Settling(d)' BY <1>6 DEF Tell, Settling, RunInv, Teardown
  <2>2. Answered BY <1>6, <2>1, QuietAnswers DEF Tell, pending
  <2>3. \A k \in Calls : Mapped(k)' => Mapped(k) BY <1>6 DEF Tell, Mapped, ConnInv, Conn
  <2>4. \A k \in Calls : InSetup(k) => InSetup(k)' BY <1>6 DEF Tell, InSetup
  <2> QED BY <1>1, <2>2, <2>3, <2>4
<1>7. ASSUME NEW c \in Calls, Disconnect(c) PROVE OrphanInv'
  <2>1. \A k \in Calls : Mapped(k)' => Mapped(k) BY <1>7 DEF Disconnect, Without, Mapped
  <2>2. \A k \in Calls : InSetup(k) => InSetup(k)' BY <1>7 DEF Disconnect, InSetup
  <2>3. Runs(c) => Runs(c)' BY <1>7 DEF Disconnect, pending, Runs
  <2>4. \A d \in Calls : Runs(d) => Runs(d)' BY <1>7 DEF Disconnect, pending, Runs
  <2>5. \A d \in Calls \ {c} : Settling(d) => Settling(d)'
    BY <1>7 DEF Disconnect, Settling, RunInv
  <2>6. ASSUME NEW k \in Calls, k = call[c].conn PROVE ~Mapped(k)'
    <3>1. conn[k] \in Conn BY DEF ConnInv
    <3>2. CASE Mapped(k)
      <4>1. conn'[k] = [conn[k] EXCEPT !.state = "gone", !.turn = NoCall, !.asked = FALSE]
        BY <1>7, <2>6, <3>2 DEF Disconnect, Without
      <4>2. conn'[k].state = "gone" BY <3>1, <4>1 DEF Conn
      <4> QED BY <4>2 DEF Mapped
    <3>3. CASE ~Mapped(k)
      <4>1. conn'[k] = conn[k] BY <1>7, <3>3 DEF Disconnect, Without
      <4> QED BY <3>3, <4>1 DEF Mapped
    <3> QED BY <3>2, <3>3
  <2>7. Answered
    <3>1. call' = call BY <1>7 DEF Disconnect
    <3>2. call[c].conn \in Calls => ~Mapped(call[c].conn)' BY <2>6, <3>1
    <3>3. ASSUME NEW d \in Calls, Settling(d)
          PROVE  Settling(d)' \/ ~(call[d].conn \in Calls /\ Mapped(call[d].conn)')
      BY <2>5, <3>2, <3>3
    <3> QED BY <2>4, <3>3 DEF Answered
  <2> QED BY <1>1, <2>1, <2>2, <2>7
<1>8. ASSUME NEW S \in SUBSET Calls, NEW cancel, TearDown(S, cancel), UNCHANGED conn,
             \A t \in Tasks : running'[t] = running[t] \/ running[t] \in S,
             \A k \in Calls : InSetup(k) => InSetup(k)'
      PROVE  OrphanInv'
  <2>1. Answered BY <1>8, TearDownAnswers
  <2> QED BY <1>1, <1>8, <2>1 DEF Mapped
<1>9. ASSUME UNCHANGED <<running, teardown>>, \A k \in Calls : Mapped(k)' => Mapped(k),
             \A k \in Calls : InSetup(k) => InSetup(k)'
       PROVE  OrphanInv'
  BY <1>1, <1>9, QuietAnswers DEF Settling
<1>10. ASSUME NEW S, DrainCanceled(S) \/ Drained(S), NEW t \in Tasks
       PROVE  running'[t] = running[t] \/ running[t] \in S
  BY <1>10 DEF DrainCanceled, Drained
<1>11. (\A c \in Calls : Stays(c)) => \A k \in Calls : InSetup(k) => InSetup(k)'
  BY DEF Stays, Kept, InSetup
<1>12. ASSUME NEW S \in SUBSET Calls, NEW cancel, TearDown(S, cancel), UNCHANGED conn,
              DrainCanceled(S) \/ Drained(S), \A c \in Calls : Stays(c)
       PROVE  OrphanInv'
  BY <1>8, <1>10, <1>11, <1>12
<1>13. CASE UNCHANGED <<running, teardown, conn>> /\ \A k \in Calls : InSetup(k) => InSetup(k)'
  BY <1>9, <1>13 DEF Mapped
<1>14. ASSUME NEW k \in Calls, CompleteCall(k) PROVE OrphanInv'
  <2>0. \A c \in Calls : Stays(c)
    BY <1>14, CompleteStays
  <2>1. CASE running[conn[k].task] = NoCall
    BY <1>11, <1>13, <1>14, <2>0, <2>1 DEF CompleteCall
  <2>2. CASE running[conn[k].task] # NoCall
    <3>1. conn[k].task \in Tasks BY <1>14 DEF CompleteCall, ConnInv, Used, Outcomes
    <3>2. running[conn[k].task] \in Calls BY <2>2, <3>1 DEF RunInv
    <3>3. TearDown({running[conn[k].task]}, FALSE) /\ UNCHANGED conn
      BY <1>14, <2>2 DEF CompleteCall
    <3>4. \A t \in Tasks : running'[t] = running[t] \/ running[t] \in {running[conn[k].task]}
      BY <1>14, <2>2 DEF CompleteCall, RunInv
    <3> QED BY <1>8, <1>11, <2>0, <3>2, <3>3, <3>4
  <2> QED BY <2>1, <2>2
<1>15. ASSUME NEW k \in Calls, ChildGone(k) PROVE OrphanInv'
  <2>1. {c \in Calls : Runs(c) /\ call[c].conn = k} \in SUBSET Calls OBVIOUS
  <2> QED BY <1>12, <1>15, <2>1, GoneStays DEF ChildGone
<1>16. ASSUME NEW p \in Parents, CancelByParentTurn(p) \/ CancelByParent(p) PROVE OrphanInv'
  <2>1. RunsOf(p) \in SUBSET Calls BY DEF RunsOf
  <2>2. Flag(p) /\ (DrainCanceled(RunsOf(p)) \/ Drained(RunsOf(p))) /\ TearDown(RunsOf(p), TRUE)
        /\ UNCHANGED conn
    BY <1>16 DEF CancelByParentTurn, CancelByParent, child
  <2> QED BY <1>12, <2>1, <2>2, FlagStays
<1>17. ASSUME NEW c \in Calls, CancelHandle(c) PROVE OrphanInv'
  <2>0. \A d \in Calls : Stays(d) BY <1>17 DEF CancelHandle, Stays, Kept, Same, Flagged
  <2>1. CASE ~Runs(c)
    BY <1>11, <1>13, <1>17, <2>0, <2>1 DEF CancelHandle, child
  <2>2. CASE Runs(c)
    BY <1>12, <1>17, <2>0, <2>2 DEF CancelHandle, child
  <2> QED BY <2>1, <2>2
<1>18. ASSUME NEW p \in Parents, NEW t \in Tasks, CancelTask(p, t) PROVE OrphanInv'
  <2>0. \A d \in Calls : Stays(d) BY <1>18 DEF CancelTask, Stays, Kept, Same, Flagged
  <2>1. running[t] \in Calls BY <1>18 DEF CancelTask, RunInv
  <2> QED BY <1>12, <1>18, <2>0, <2>1 DEF CancelTask, child
<1>19. ASSUME NEW k \in Calls, ChildDies(k) PROVE OrphanInv'
  <2>1. \A j \in Calls : Mapped(j)' => Mapped(j) BY <1>19 DEF ChildDies, Without, Mapped
  <2> QED BY <1>9, <1>19, <2>1 DEF ChildDies, pending, InSetup
<1>20. ASSUME NEW k \in Calls, NEW stop \in Stops, TurnEnds(k, stop) PROVE OrphanInv'
  <2>1. \A j \in Calls : Mapped(j)' => Mapped(j)
    BY <1>20 DEF TurnEnds, Mapped, ConnInv, Conn
  <2> QED BY <1>9, <1>20, <2>1 DEF TurnEnds, pending, InSetup
<1>21. ASSUME NEW c \in Calls, Send(c) PROVE OrphanInv'
  <2>1. \A j \in Calls : Mapped(j)' => Mapped(j)
    BY <1>21 DEF Send, Mapped, ConnInv, Conn
  <2>2. \A k \in Calls : InSetup(k) => InSetup(k)'
    BY <1>21 DEF Send, Go, CallInv, Call, InSetup
  <2> QED BY <1>9, <1>21, <2>1, <2>2 DEF Send, pending
<1>22. ASSUME NEW c \in Calls, call[c].pc \notin {"spawned", "sent"},
              \A d \in Calls \ {c} : call'[d] = call[d],
              UNCHANGED <<running, teardown, conn>>
       PROVE  OrphanInv'
  BY <1>13, <1>22 DEF InSetup
<1>23. ASSUME NEW c \in Calls, Enter(c) \/ MemGate(c) \/ RowGate(c) \/ NoSpawn(c) \/ Release(c)
       PROVE  OrphanInv'
  <2>1. \A d \in Calls \ {c} : call'[d] = call[d]
    BY <1>23 DEF Enter, MemGate, Gate, RowGate, NoSpawn, Release, Go, Return, CallInv
  <2> QED BY <1>22, <1>23, <2>1
          DEF Enter, MemGate, RowGate, NoSpawn, Release, pending, child
<1>24. ASSUME NEW c \in Calls, NEW p \in Parents, NEW t \in Tasks, Dispatch(c, p, t)
       PROVE  OrphanInv'
  BY <1>22, <1>24 DEF Dispatch, pending, child, CallInv
<1>25. CASE UNCHANGED <<running, teardown, conn, call>> BY <1>13, <1>25 DEF InSetup
<1> QED BY <1>2, <1>3, <1>4, <1>5, <1>6, <1>7, <1>14, <1>15, <1>16, <1>17, <1>18, <1>19, <1>20,
           <1>21, <1>23, <1>24, <1>25, ZenonT(60)
        DEF Next, vars, pending, child, Setup, Settlement, Worker, ParentEnds, BufferHandle,
            WorkerReads, Connect, CloseParent, ParentDies, Revoke, Leave

----------------------------------------------------------------------------
(* One end per run: the turn of a run is with the agent, in the queue of its *)
(* connection's worker or in the worker's hands, and nowhere twice           *)

Out == Over \cup {"sent"}
Owned(k) == {c \in Calls : call[c].conn = k /\ call[c].pc \in Out}

\* Of a connection, its worker and the worker's queue; O are the runs it serves.
Line(O, cn, w, q) ==
  /\ cn.turn # NoCall => cn.turn \in O
  /\ w = NoEnd \/ (w.end \in Outcomes /\ w.run \in O /\ w.run # cn.turn)
  /\ \A i \in 1..Len(q) :
       IF q[i].stop = "gone" THEN i = Len(q) /\ cn.state = "gone" /\ q[i].run = NoCall
       ELSE q[i].run \in O /\ q[i].run # cn.turn /\ q[i].run # w.run
  /\ \A i, j \in 1..Len(q) : q[i].run = q[j].run => i = j

NotYet == {"idle", "dispatched", "gate", "row", "ready"}
LineInv == /\ \A k \in Calls : Line(Owned(k), conn[k], worker[k], events[k])
           /\ \A c \in Calls : call[c].pc \in NotYet => conn[c].state = "none"

LEMMA LineMore ==
  ASSUME NEW O, NEW P, O \subseteq P, NEW cn, NEW new, NEW w, NEW q, Line(O, cn, w, q),
         new.turn = cn.turn, new.state = cn.state
  PROVE  Line(P, new, w, q)
BY DEF Line

LEMMA LineSends ==
  ASSUME NEW O \in SUBSET Calls, NEW P \in SUBSET Calls, O \subseteq P, NEW c \in P, c \notin O,
         NEW cn, NEW new, NEW w, NEW q, Line(O, cn, w, q),
         cn.turn = NoCall, new.turn = c, new.state = cn.state
  PROVE  Line(P, new, w, q)
BY CallAssumption DEF CallAssumption, Line, NoEnd

LEMMA LineEnds ==
  ASSUME NEW O \in SUBSET Calls, NEW cn, NEW new, NEW w, NEW q \in Seq(Event), NEW stop \in Stops,
         Line(O, cn, w, q), cn.turn # NoCall, cn.state # "gone",
         new.turn = NoCall, new.state = cn.state
  PROVE  Line(O, new, w, Append(q, [stop |-> stop, run |-> cn.turn]))
<1> DEFINE e == [stop |-> stop, run |-> cn.turn]
           r == Append(q, e)
<1>1. Len(r) = Len(q) + 1 /\ r[Len(r)] = e /\ \A i \in 1..Len(q) : r[i] = q[i]
  BY DEF Event
<1>2. cn.turn \in O /\ stop # "gone" BY StopAssumption DEF StopAssumption, Line
<1>3. \A i \in 1..Len(q) : /\ q[i].stop # "gone" /\ q[i].run \in O
                           /\ q[i].run # cn.turn /\ q[i].run # w.run
  BY DEF Line
<1>4. w.run # cn.turn BY DEF Line, NoEnd
<1>5. NoCall \notin O BY CallAssumption DEF CallAssumption
<1>6. \A i \in 1..Len(r) : /\ r[i].stop # "gone" /\ r[i].run \in O
                           /\ r[i].run # NoCall /\ r[i].run # w.run
  <2> SUFFICES ASSUME NEW i \in 1..Len(r)
               PROVE  /\ r[i].stop # "gone" /\ r[i].run \in O
                      /\ r[i].run # NoCall /\ r[i].run # w.run
    OBVIOUS
  <2>1. CASE i \in 1..Len(q) BY <1>1, <1>3, <1>5, <2>1
  <2>2. CASE i \notin 1..Len(q)
    <3>1. i = Len(r) BY <1>1, <2>2
    <3>2. r[i] = e BY <1>1, <3>1
    <3> QED BY <1>2, <1>4, <1>5, <3>2
  <2> QED BY <2>1, <2>2
<1>7. ASSUME NEW i \in 1..Len(r), NEW j \in 1..Len(r), r[i].run = r[j].run PROVE i = j
  <2>1. \A m \in 1..Len(r) : m \in 1..Len(q) \/ m = Len(r) BY <1>1
  <2>2. CASE i \in 1..Len(q) /\ j \in 1..Len(q) BY <1>1, <1>7, <2>2 DEF Line
  <2>3. \A m \in 1..Len(q) : r[m].run # r[Len(r)].run BY <1>1, <1>3
  <2> QED BY <1>7, <2>1, <2>2, <2>3
<1> HIDE DEF r
<1>8. new.turn = NoCall /\ new.state = cn.state OBVIOUS
<1>9. w = NoEnd \/ (w.end \in Outcomes /\ w.run \in O /\ w.run # NoCall) BY <1>5 DEF Line
<1>10. Line(O, new, w, r) BY <1>6, <1>7, <1>8, <1>9 DEF Line
<1> QED BY <1>10 DEF r

LEMMA LineGone ==
  ASSUME NEW O \in SUBSET Calls, NEW cn, NEW new, NEW w, NEW q \in Seq(Event),
         Line(O, cn, w, q), cn.state # "gone", new.turn = NoCall, new.state = "gone"
  PROVE  Line(O, new, w, Append(q, [stop |-> "gone", run |-> NoCall]))
<1> DEFINE e == [stop |-> "gone", run |-> NoCall]
           r == Append(q, e)
<1>1. Len(r) = Len(q) + 1 /\ r[Len(r)] = e /\ \A i \in 1..Len(q) : r[i] = q[i]
  BY DEF Event
<1>2. NoCall \notin O BY CallAssumption DEF CallAssumption
<1>3. \A i \in 1..Len(q) : q[i].stop # "gone" /\ q[i].run \in O /\ q[i].run # w.run
  BY DEF Line
<1>4. \A m \in 1..Len(r) : m \in 1..Len(q) \/ m = Len(r) BY <1>1
<1>5. ASSUME NEW i \in 1..Len(r), NEW j \in 1..Len(r), r[i].run = r[j].run PROVE i = j
  <2>1. CASE i \in 1..Len(q) /\ j \in 1..Len(q) BY <1>1, <1>5, <2>1 DEF Line
  <2>2. \A m \in 1..Len(q) : r[m].run # r[Len(r)].run BY <1>1, <1>2, <1>3
  <2> QED BY <1>4, <1>5, <2>1, <2>2
<1>6. ASSUME NEW i \in 1..Len(r)
      PROVE  IF r[i].stop = "gone" THEN i = Len(r) /\ new.state = "gone" /\ r[i].run = NoCall
             ELSE r[i].run \in O /\ r[i].run # NoCall /\ r[i].run # w.run
  <2>1. CASE i \in 1..Len(q) BY <1>1, <1>2, <1>3, <2>1
  <2>2. CASE i = Len(r) BY <1>1, <2>2
  <2> QED BY <1>4, <2>1, <2>2
<1> HIDE DEF r
<1>7. w = NoEnd \/ (w.end \in Outcomes /\ w.run \in O /\ w.run # NoCall) BY <1>2 DEF Line
<1>8. Line(O, new, w, r) BY <1>5, <1>6, <1>7 DEF Line
<1> QED BY <1>8 DEF r

\* The worker takes the first event, and drops it or keeps the end it brings.
LEMMA LineTail ==
  ASSUME NEW O \in SUBSET Calls, NEW cn, NEW q \in Seq(Event), q # <<>>, Line(O, cn, NoEnd, q)
  PROVE  /\ Line(O, cn, NoEnd, Tail(q))
         /\ Head(q).stop = "gone" => Tail(q) = <<>> /\ cn.state = "gone"
         /\ \A end \in Outcomes :
              Head(q).stop # "gone" => Line(O, cn, [end |-> end, run |-> Head(q).run], Tail(q))
<1> DEFINE r == Tail(q)
<1>1. /\ Len(r) = Len(q) - 1 /\ Len(r) \in Nat /\ Head(q) = q[1] /\ 1 \in 1..Len(q)
      /\ \A i \in 1..Len(r) : r[i] = q[i + 1] /\ i + 1 \in 1..Len(q) /\ i + 1 # 1
  BY DEF Event
<1>2. Head(q).stop = "gone" => r = <<>> /\ cn.state = "gone"
  <2>1. Head(q).stop = "gone" => Len(q) = 1 /\ cn.state = "gone" BY <1>1 DEF Line
  <2> QED BY <1>1, <2>1
<1> HIDE DEF r
<1>3. ASSUME NEW i \in 1..Len(r), NEW j \in 1..Len(r), r[i].run = r[j].run PROVE i = j
  <2>1. q[i + 1].run = q[j + 1].run BY <1>1, <1>3
  <2>2. i + 1 = j + 1 BY <1>1, <2>1 DEF Line
  <2> QED BY <1>1, <2>2
<1>4. ASSUME NEW i \in 1..Len(r) PROVE r[i].run # Head(q).run
  <2>1. q[i + 1].run # q[1].run BY <1>1 DEF Line
  <2> QED BY <1>1, <2>1
<1>5. ASSUME NEW i \in 1..Len(r)
      PROVE  IF r[i].stop = "gone" THEN i = Len(r) /\ cn.state = "gone" /\ r[i].run = NoCall
             ELSE r[i].run \in O /\ r[i].run # cn.turn /\ r[i].run # NoEnd.run
  <2>1. IF q[i + 1].stop = "gone"
        THEN i + 1 = Len(q) /\ cn.state = "gone" /\ q[i + 1].run = NoCall
        ELSE q[i + 1].run \in O /\ q[i + 1].run # cn.turn /\ q[i + 1].run # NoEnd.run
    BY <1>1 DEF Line
  <2> QED BY <1>1, <2>1
<1>7. Head(q).stop # "gone" => Head(q).run \in O /\ Head(q).run # cn.turn BY <1>1 DEF Line
<1>8. cn.turn # NoCall => cn.turn \in O BY DEF Line
<1>9. Line(O, cn, NoEnd, r) BY <1>3, <1>5, <1>8 DEF Line
<1>10. ASSUME NEW end \in Outcomes, Head(q).stop # "gone"
       PROVE  Line(O, cn, [end |-> end, run |-> Head(q).run], r)
  BY <1>3, <1>4, <1>5, <1>7, <1>8, <1>10 DEF Line
<1> QED BY <1>2, <1>9, <1>10 DEF r

LEMMA LineDone ==
  ASSUME NEW O \in SUBSET Calls, NEW cn, NEW w, NEW q, Line(O, cn, w, q)
  PROVE  Line(O, cn, NoEnd, q)
BY CallAssumption DEF CallAssumption, Line, NoEnd

LEMMA OutStays ==
  ASSUME CallInv, CallStep, NEW c \in Calls, call[c].pc \in Out
  PROVE  call'[c].pc \in Out /\ Kept(c)
BY ZenonT(60)
DEF CallStep, MovesAlone, Stays, Dispatched, Entered, Claimed, Readied, Spawns, Sends, Parks,
       Returns, Returned, Released, Goes, At, Kept, Same, Over, Out

LEMMA NotYetWas ==
  ASSUME CallInv, CallStep, NEW c \in Calls, call'[c].pc \in NotYet
  PROVE  call[c].pc \in NotYet
BY ZenonT(60)
DEF CallStep, MovesAlone, Stays, Dispatched, Entered, Claimed, Readied, Spawns, Sends, Parks,
       Returns, Returned, Released, Goes, At, NotYet

LEMMA LineInit == Init => LineInv
<1> SUFFICES ASSUME Init PROVE LineInv OBVIOUS
<1>1. \A k \in Calls : conn[k] = NoConn /\ worker[k] = NoEnd /\ events[k] = <<>> BY DEF Init
<1>2. NoConn.turn = NoCall /\ NoConn.state = "none" BY DEF NoConn
<1> QED BY <1>1, <1>2 DEF LineInv, Line

LEMMA LineNext ==
  ASSUME CallInv, ConnInv, LineInv, CallStep, [Next]_vars
  PROVE  LineInv'
<1> USE DEF At
<1>0. \A k \in Calls : Owned(k) \subseteq Owned(k)' BY OutStays DEF Owned, Kept
<1>1. \A k \in Calls : Owned(k) \in SUBSET Calls /\ Owned(k)' \in SUBSET Calls BY DEF Owned
<1>2. ASSUME NEW k \in Calls, UNCHANGED <<events[k], worker[k]>>,
             conn'[k].turn = conn[k].turn, conn'[k].state = conn[k].state
      PROVE  Line(Owned(k)', conn'[k], worker'[k], events'[k])
  <2>1. Line(Owned(k), conn[k], worker[k], events[k]) BY DEF LineInv
  <2>2. Line(Owned(k)', conn'[k], worker[k], events[k]) BY <1>0, <1>2, <2>1, LineMore
  <2> QED BY <1>2, <2>2
<1>3. ASSUME \A k \in Calls : Line(Owned(k)', conn'[k], worker'[k], events'[k]),
             \A c \in Calls : /\ conn[c].state = "none" /\ call'[c].pc \in NotYet
                                => conn'[c].state = "none"
      PROVE  LineInv'
  BY <1>3, NotYetWas DEF LineInv
<1>4. ASSUME UNCHANGED <<events, worker>>,
             \A k \in Calls : conn'[k].turn = conn[k].turn /\ conn'[k].state = conn[k].state
      PROVE  LineInv'
  BY <1>2, <1>3, <1>4
<1>5. CASE UNCHANGED <<conn, events, worker>> BY <1>4, <1>5
<1>6. ASSUME NEW c \in Calls, Spawn(c) PROVE LineInv'
  <2>1. CASE UNCHANGED conn BY <1>5, <1>6, <2>1 DEF Spawn
  <2>2. CASE conn' # conn
    <3>1. /\ conn'[c] = [NoConn EXCEPT !.state = "up", !.task = call[c].task]
          /\ \A k \in Calls \ {c} : conn'[k] = conn[k]
      BY <1>6, <2>2 DEF Spawn, ConnInv
    <3>2. conn'[c].turn = NoCall BY <3>1 DEF NoConn
    <3>3. conn[c].state = "none" /\ events[c] = <<>> /\ worker[c] = NoEnd
      <4>1. conn[c].state = "none" BY <1>6 DEF Spawn, LineInv, NotYet
      <4>2. events[c] = <<>> /\ worker[c].end = "idle" BY <4>1 DEF ConnInv, Used
      <4>3. Line(Owned(c), conn[c], worker[c], events[c]) BY DEF LineInv
      <4> QED BY <4>1, <4>2, <4>3 DEF Line, Outcomes
    <3>4. Line(Owned(c)', conn'[c], worker'[c], events'[c])
      BY <1>6, <3>2, <3>3 DEF Spawn, Line
    <3>5. call'[c].pc = "spawned" BY <1>6 DEF Spawn, CallInv, Call
    <3> QED BY <1>2, <1>3, <1>6, <3>1, <3>4, <3>5 DEF Spawn, NotYet
  <2> QED BY <2>1, <2>2
<1>7. ASSUME NEW c \in Calls, Send(c) PROVE LineInv'
  <2> SUFFICES ASSUME NEW k \in Calls, k = call[c].conn PROVE LineInv'
    BY <1>7 DEF Send, CallInv, Placed
  <2>0. conn[k].turn = NoCall BY <1>7 DEF Send, Admits
  <2>1. \A j \in Calls : conn'[j].state = conn[j].state /\ (j # k => conn'[j] = conn[j])
    BY <1>7 DEF Send, ConnInv, Conn
  <2>2. conn'[k].turn = c BY <1>7 DEF Send, ConnInv, Conn
  <2>3. c \in Owned(k)' /\ c \notin Owned(k)
    BY <1>7 DEF Owned, Out, Over, Send, Go, CallInv, Call
  <2>4. Line(Owned(k), conn[k], worker[k], events[k]) BY DEF LineInv
  <2>5. Line(Owned(k)', conn'[k], worker[k], events[k])
    BY <1>0, <1>1, <2>0, <2>1, <2>2, <2>3, <2>4, LineSends
  <2>6. UNCHANGED <<events, worker>> BY <1>7 DEF Send
  <2>7. ASSUME NEW j \in Calls PROVE Line(Owned(j)', conn'[j], worker'[j], events'[j])
    <3>1. CASE j = k BY <2>5, <2>6, <3>1
    <3>2. CASE j # k BY <1>2, <2>1, <2>6, <3>2
    <3> QED BY <3>1, <3>2
  <2> QED BY <1>3, <2>1, <2>7
<1>8. ASSUME NEW K, \A k \in K : Mapped(k), Without(K), UNCHANGED worker PROVE LineInv'
  <2>1. ASSUME NEW k \in Calls, k \in K
        PROVE  Line(Owned(k)', conn'[k], worker'[k], events'[k]) /\ conn[k].state # "none"
    <3>1. conn[k] \in Conn /\ events[k] \in Seq(Event) BY DEF ConnInv
    <3>2. conn'[k] = [conn[k] EXCEPT !.state = "gone", !.turn = NoCall, !.asked = FALSE]
          /\ events'[k] = Append(events[k], [stop |-> "gone", run |-> NoCall])
      BY <1>8, <2>1 DEF Without
    <3>3. conn'[k].state = "gone" /\ conn'[k].turn = NoCall BY <3>1, <3>2 DEF Conn
    <3>4. conn[k].state = "up" BY <1>8, <2>1 DEF Mapped
    <3>5. Line(Owned(k)', conn[k], worker[k], events[k]) BY <1>0, LineMore DEF LineInv
    <3>6. ASSUME NEW O \in SUBSET Calls, NEW cn, NEW new, NEW q \in Seq(Event),
                 Line(O, cn, worker[k], q), cn.state # "gone",
                 new.turn = NoCall, new.state = "gone"
          PROVE  Line(O, new, worker[k], Append(q, [stop |-> "gone", run |-> NoCall]))
      BY <3>6, LineGone
    <3>7. Owned(k)' \in SUBSET Calls BY <1>1
    <3>8. Line(Owned(k)', conn'[k], worker[k],
               Append(events[k], [stop |-> "gone", run |-> NoCall]))
      BY <3>1, <3>3, <3>4, <3>5, <3>6, <3>7
    <3> QED BY <1>8, <3>2, <3>4, <3>8
  <2>2. ASSUME NEW k \in Calls, k \notin K PROVE conn'[k] = conn[k] /\ events'[k] = events[k]
    BY <1>8, <2>2 DEF Without
  <2> QED BY <1>2, <1>3, <1>8, <2>1, <2>2
<1>9. ASSUME NEW k \in Calls, NEW stop \in Stops, TurnEnds(k, stop) PROVE LineInv'
  <2>1. conn[k] \in Conn /\ events[k] \in Seq(Event) BY DEF ConnInv
  <2>2. /\ conn'[k].turn = NoCall /\ conn'[k].state = conn[k].state
        /\ events'[k] = Append(events[k], [stop |-> stop, run |-> conn[k].turn])
        /\ \A j \in Calls \ {k} : conn'[j] = conn[j] /\ events'[j] = events[j]
    BY <1>9, <2>1 DEF TurnEnds, ConnInv, Conn
  <2>3. Line(Owned(k)', conn[k], worker[k], events[k]) BY <1>0, LineMore DEF LineInv
  <2>4. conn[k].state # "gone" /\ conn[k].turn # NoCall BY <1>9 DEF TurnEnds, Mapped
  <2>5. Line(Owned(k)', conn'[k], worker[k], events'[k])
    BY <1>1, <2>1, <2>2, <2>3, <2>4, LineEnds
  <2> QED BY <1>2, <1>3, <1>9, <2>2, <2>5 DEF TurnEnds
<1>10. ASSUME NEW k \in Calls, WorkerReads(k) \/ ChildGone(k) PROVE LineInv'
  <2> DEFINE q == events[k]
             w == [end |-> EndOf(Head(q).stop), run |-> Head(q).run]
  <2>1. /\ UNCHANGED conn /\ worker[k] = NoEnd /\ q # <<>> /\ q \in Seq(Event)
        /\ events'[k] = Tail(q)
        /\ \A j \in Calls \ {k} : worker'[j] = worker[j] /\ events'[j] = events[j]
    BY <1>10 DEF WorkerReads, ChildGone, Heard, ConnInv
  <2>2. worker'[k] = NoEnd \/ (Head(q).stop # "gone" /\ worker'[k] = w)
    BY <1>10, <2>1, StopAssumption DEF StopAssumption, WorkerReads, ChildGone, Heard, ConnInv
  <2>3. EndOf(Head(q).stop) \in Outcomes BY DEF EndOf, Outcomes
  <2>4. Line(Owned(k)', conn[k], NoEnd, q) BY <1>0, <2>1, LineMore DEF LineInv
  <2>5. Line(Owned(k)', conn[k], worker'[k], Tail(q))
    BY <1>1, <2>1, <2>2, <2>3, <2>4, LineTail
  <2> QED BY <1>2, <1>3, <2>1, <2>5
<1>11. ASSUME NEW k \in Calls, CompleteCall(k) PROVE LineInv'
  <2>1. /\ UNCHANGED <<conn, events>> /\ worker'[k] = NoEnd
        /\ \A j \in Calls \ {k} : worker'[j] = worker[j]
    BY <1>11 DEF CompleteCall, ConnInv
  <2>2. Line(Owned(k)', conn[k], worker[k], events[k]) BY <1>0, LineMore DEF LineInv
  <2>3. Line(Owned(k)', conn[k], NoEnd, events[k]) BY <1>1, <2>2, LineDone
  <2> QED BY <1>2, <1>3, <2>1, <2>3
<1>12. ASSUME NEW c \in Calls, SendError(c) \/ Disconnect(c) PROVE LineInv'
  BY <1>8, <1>12 DEF SendError, Disconnect
<1>13. ASSUME NEW k \in Calls, ChildDies(k) PROVE LineInv' BY <1>8, <1>13 DEF ChildDies
<1>14. ASSUME NEW c \in Calls, Tell(c) PROVE LineInv'
  <2>1. ASSUME NEW k \in Calls
        PROVE  conn'[k].turn = conn[k].turn /\ conn'[k].state = conn[k].state
    <3>1. conn[k] \in Conn BY DEF ConnInv
    <3>2. CASE UNCHANGED conn BY <3>2
    <3>3. ASSUME NEW j, NEW b, conn' = [conn EXCEPT ![j].asked = b]
          PROVE  conn'[k].turn = conn[k].turn /\ conn'[k].state = conn[k].state
      <4>1. CASE k = j
        <5>1. conn'[k] = [conn[k] EXCEPT !.asked = b] BY <3>3, <4>1 DEF ConnInv
        <5> QED BY <3>1, <5>1 DEF Conn
      <4>2. CASE k # j BY <3>3, <4>2 DEF ConnInv
      <4> QED BY <4>1, <4>2
    <3> QED BY <1>14, <3>2, <3>3 DEF Tell
  <2> QED BY <1>4, <1>14, <2>1 DEF Tell
<1> QED BY <1>5, <1>6, <1>7, <1>9, <1>10, <1>11, <1>12, <1>13, <1>14, ZenonT(60)
        DEF Next, vars, pending, child, Setup, Settlement, Worker, ParentEnds, CancelHandle,
            BufferHandle, CancelTask, Connect, CloseParent, ParentDies, Revoke, Leave,
            Dispatch, Enter, MemGate, RowGate, NoSpawn, Park, SecondCheck, Release,
            CancelByParentTurn, CancelByParent

----------------------------------------------------------------------------
(* The first end wins *)

RunsIn(q) == {q[i].run : i \in 1..Len(q)}
Held(k) == {conn[k].turn, worker[k].run} \cup RunsIn(events[k])

LEMMA HeldTail ==
  ASSUME NEW q \in Seq(Event), q # <<>>
  PROVE  RunsIn(Tail(q)) \subseteq RunsIn(q) /\ Head(q).run \in RunsIn(q)
<1>1. /\ Len(q) \in Nat \ {0} /\ Len(Tail(q)) = Len(q) - 1 /\ Head(q) = q[1]
      /\ \A i \in 1..Len(Tail(q)) : Tail(q)[i] = q[i + 1]
  BY DEF Event
<1>2. \A i \in 1..Len(Tail(q)) : i + 1 \in 1..Len(q) BY <1>1
<1> QED BY <1>1, <1>2 DEF RunsIn

LEMMA HeldAppend ==
  ASSUME NEW q \in Seq(Event), NEW e
  PROVE  RunsIn(Append(q, e)) \subseteq RunsIn(q) \cup {e.run}
<1>1. /\ Len(Append(q, e)) = Len(q) + 1 /\ Len(q) \in Nat
      /\ \A i \in 1..(Len(q) + 1) : Append(q, e)[i] = IF i <= Len(q) THEN q[i] ELSE e
  BY DEF Event
<1> QED BY <1>1 DEF RunsIn

\* A run's turn is in nobody's hands before its prompt is sent.
LEMMA HeldNext ==
  ASSUME CallInv, ConnInv, [Next]_vars, NEW k \in Calls, NEW c \in Calls, c \in Held(k)'
  PROVE  c \in Held(k) \/ At(c, "spawned")
<1> USE DEF At
<1>0. c # NoCall /\ conn[k] \in Conn /\ events[k] \in Seq(Event)
  BY CallAssumption DEF CallAssumption, ConnInv
<1>1. ASSUME UNCHANGED <<events, worker>>, conn'[k].turn \in {conn[k].turn, NoCall}
      PROVE  c \in Held(k)
  BY <1>0, <1>1 DEF Held
<1>2. ASSUME NEW d \in Calls, Spawn(d) PROVE c \in Held(k)
  <2>1. conn'[k].turn \in {conn[k].turn, NoCall} BY <1>2 DEF Spawn, ConnInv, NoConn
  <2> QED BY <1>1, <1>2, <2>1 DEF Spawn
<1>3. ASSUME NEW d \in Calls, Send(d) PROVE c \in Held(k) \/ At(c, "spawned")
  <2>1. conn'[k].turn \in {conn[k].turn, d} BY <1>3 DEF Send, ConnInv, Conn
  <2> QED BY <1>3, <2>1 DEF Send, Held
<1>4. ASSUME NEW K, Without(K), UNCHANGED worker PROVE c \in Held(k)
  <2>1. conn'[k].turn \in {conn[k].turn, NoCall} BY <1>0, <1>4 DEF Without, Conn
  <2>2. RunsIn(events'[k]) \subseteq RunsIn(events[k]) \cup {NoCall}
    <3>1. CASE k \in K
      <4>1. events'[k] = Append(events[k], [stop |-> "gone", run |-> NoCall])
        BY <1>4, <3>1 DEF Without
      <4> QED BY <1>0, <4>1, HeldAppend
    <3>2. CASE k \notin K BY <1>4, <3>2 DEF Without
    <3> QED BY <3>1, <3>2
  <2> QED BY <1>0, <1>4, <2>1, <2>2 DEF Held
<1>5. ASSUME NEW j \in Calls, NEW stop \in Stops, TurnEnds(j, stop) PROVE c \in Held(k)
  <2>1. CASE j # k
    BY <1>1, <1>5, <2>1 DEF TurnEnds, ConnInv, Held
  <2>2. CASE j = k
    <3>1. /\ conn'[k].turn = NoCall
          /\ events'[k] = Append(events[k], [stop |-> stop, run |-> conn[k].turn])
      BY <1>0, <1>5, <2>2 DEF TurnEnds, ConnInv, Conn
    <3>2. RunsIn(events'[k]) \subseteq RunsIn(events[k]) \cup {conn[k].turn}
      BY <1>0, <3>1, HeldAppend
    <3> QED BY <1>0, <1>5, <3>1, <3>2 DEF TurnEnds, Held
  <2> QED BY <2>1, <2>2
<1>6. ASSUME NEW j \in Calls, WorkerReads(j) \/ ChildGone(j) PROVE c \in Held(k)
  <2>1. conn' = conn BY <1>6 DEF WorkerReads, ChildGone
  <2>2. CASE j # k
    <3>1. events'[k] = events[k] /\ worker'[k] = worker[k]
      BY <1>6, <2>2 DEF WorkerReads, ChildGone, ConnInv
    <3> QED BY <2>1, <3>1 DEF Held
  <2>3. CASE j = k
    <3>1. events[k] # <<>> /\ events'[k] = Tail(events[k])
      BY <1>6, <2>3 DEF WorkerReads, ChildGone, Heard, ConnInv
    <3>2. worker'[k].run \in {worker[k].run, Head(events[k]).run}
      <4>1. \/ worker' = worker
            \/ worker' = [worker EXCEPT ![k] = [end |-> EndOf(Head(events[k]).stop),
                                                run |-> Head(events[k]).run]]
        BY <1>6, <2>3 DEF WorkerReads, ChildGone
      <4> QED BY <4>1 DEF ConnInv
    <3> QED BY <1>0, <2>1, <3>1, <3>2, HeldTail DEF Held
  <2> QED BY <2>2, <2>3
<1>7. ASSUME NEW j \in Calls, CompleteCall(j) PROVE c \in Held(k)
  <2>1. conn' = conn /\ events' = events BY <1>7 DEF CompleteCall
  <2>2. worker'[k].run \in {worker[k].run, NoCall} BY <1>7 DEF CompleteCall, ConnInv, NoEnd
  <2> QED BY <1>0, <2>1, <2>2 DEF Held
<1>8. ASSUME NEW d \in Calls, SendError(d) \/ Disconnect(d) PROVE c \in Held(k)
  BY <1>4, <1>8 DEF SendError, Disconnect
<1>9. ASSUME NEW j \in Calls, ChildDies(j) PROVE c \in Held(k) BY <1>4, <1>9 DEF ChildDies
<1>10. ASSUME NEW d \in Calls, Tell(d) PROVE c \in Held(k)
  <2>1. CASE UNCHANGED conn BY <1>1, <1>10, <2>1 DEF Tell
  <2>2. ASSUME NEW j, NEW b, conn' = [conn EXCEPT ![j].asked = b]
        PROVE  conn'[k].turn = conn[k].turn
    <3>1. CASE k = j
      <4>1. conn'[k] = [conn[k] EXCEPT !.asked = b] BY <2>2, <3>1 DEF ConnInv
      <4> QED BY <1>0, <4>1 DEF Conn
    <3>2. CASE k # j BY <2>2, <3>2 DEF ConnInv
    <3> QED BY <3>1, <3>2
  <2> QED BY <1>1, <1>10, <2>1, <2>2 DEF Tell
<1>11. CASE UNCHANGED <<conn, events, worker>> BY <1>1, <1>11
<1> QED BY <1>2, <1>3, <1>5, <1>6, <1>7, <1>8, <1>9, <1>10, <1>11, ZenonT(60)
        DEF Next, vars, pending, child, Setup, Settlement, Worker, ParentEnds, CancelHandle,
            BufferHandle, CancelTask, Connect, CloseParent, ParentDies, Revoke, Leave,
            Dispatch, Enter, MemGate, RowGate, NoSpawn, Park, SecondCheck, Release,
            CancelByParentTurn, CancelByParent

\* A call that is reserved has been told the end that its park will record, and an
\* end that came early is in nobody's hands any more.
Told(c) ==
  /\ verdict[c] = IF Fate(c) = "running" THEN "none" ELSE EarlyOutcome(c)
  /\ End(c) # "none" => c \notin Held(call[c].conn)

Unheard   == \A c \in Calls : call[c].pc \notin Out => verdict[c] = "none"
SentTold  == \A c \in Calls : At(c, "sent") /\ c \notin misled => Told(c)
RunsOn    == \A c \in Calls : Runs(c) /\ c \notin misled => verdict[c] = "none"
EndInv    == Unheard /\ SentTold /\ RunsOn /\ FirstEndWins

LEMMA EndInit == ASSUME CallAssumption, Init PROVE EndInv
BY CallAssumption DEF CallAssumption, Init, EndInv, Unheard, SentTold, RunsOn, FirstEndWins, Runs,
   Idle, At

VerdictStep ==
  /\ misled \subseteq misled'
  /\ \A c \in Calls : \/ verdict'[c] = verdict[c]
                      \/ verdict[c] = "none" /\ call[c].pc \in Out /\ ~Runs(c)'

LEMMA KeepStep ==
  ASSUME CallInv, CallInv', RunInv, CallStep, RunStep, NEW S \in SUBSET Calls, NEW status,
         verdict' = Keep(verdict, S, status), misled \subseteq misled',
         \A c \in S : \/ At(c, "sent") /\ call'[c].pc = "sent"
                      \/ call[c].pc \in Over /\ running'[call[c].task] = NoCall
  PROVE  VerdictStep
<1> SUFFICES ASSUME NEW c \in S PROVE call[c].pc \in Out /\ ~Runs(c)'
  BY DEF VerdictStep, Keep
<1>1. CASE At(c, "sent") /\ call'[c].pc = "sent"
  BY <1>1, RunWas, RunsFacts DEF At, Out, Over, Parks, Goes
<1>2. CASE call[c].pc \in Over /\ running'[call[c].task] = NoCall
  <2>1. call'[c].task = call[c].task BY <1>2, OverStays DEF Kept, Same
  <2> QED BY <1>2, <2>1, CallAssumption DEF CallAssumption, Runs, Out
<1> QED BY <1>1, <1>2

LEMMA DrainedStep ==
  ASSUME CallInv, RunInv, NEW S, Drained(S), NEW c \in Calls, c \in S, Runs(c)
  PROVE  call[c].pc \in Over /\ running'[call[c].task] = NoCall
BY RunsFacts DEF Drained

LEMMA VerdictNext ==
  ASSUME CallInv, CallInv', ConnInv, RunInv, ClaimInv, CallStep, RunStep, [Next]_vars
  PROVE  VerdictStep
<1> USE DEF At
<1>1. CASE UNCHANGED <<verdict, misled>> BY <1>1 DEF VerdictStep
<1>2. ASSUME NEW c \in Calls, SecondCheck(c) PROVE VerdictStep
  <2>1. call[c].task \in Tasks /\ {c} \in SUBSET Calls BY <1>2 DEF SecondCheck, CallInv, Placed
  <2>2. CASE verdict' = Keep(verdict, {c}, "canceled")
             /\ running' = [running EXCEPT ![call[c].task] = NoCall]
    <3>1. call[c].pc \in Over /\ running'[call[c].task] = NoCall
      BY <1>2, <2>1, <2>2 DEF SecondCheck, Over, RunInv
    <3> QED BY <1>2, <2>1, <2>2, <3>1, KeepStep DEF SecondCheck
  <2> QED BY <1>1, <1>2, <2>2 DEF SecondCheck
<1>3. ASSUME NEW k \in Calls, CompleteCall(k) PROVE VerdictStep
  <2> DEFINE t == conn[k].task
             hit == IF running[t] # NoCall THEN {running[t]} ELSE ReservedFor(t)
  <2>1. verdict' = Keep(verdict, hit, worker[k].end) /\ misled \subseteq misled'
    BY <1>3 DEF CompleteCall
  <2>2. t \in Tasks BY <1>3 DEF CompleteCall, ConnInv, Used, Outcomes
  <2>3. CASE running[t] # NoCall
    <3>1. /\ running[t] \in Calls /\ call[running[t]].task = t
          /\ call[running[t]].pc \in Over
      BY <2>2, <2>3 DEF RunInv
    <3>2. running'[t] = NoCall BY <1>3, <2>2, <2>3 DEF CompleteCall, RunInv
    <3> QED BY <2>1, <2>3, <3>1, <3>2, KeepStep
  <2>4. CASE running[t] = NoCall
    <3>1. \A c \in ReservedFor(t) : call[c].pc = "sent" /\ call'[c].pc = "sent"
      BY <1>3, CompleteStays DEF ReservedFor, Reserved, Stays
    <3>2. ReservedFor(t) \in SUBSET Calls BY DEF ReservedFor
    <3> QED BY <2>1, <2>4, <3>1, <3>2, KeepStep
  <2> QED BY <2>3, <2>4
<1>4. ASSUME NEW k \in Calls, ChildGone(k) PROVE VerdictStep
  <2> DEFINE R == {c \in Calls : Runs(c) /\ call[c].conn = k}
             T == IF R = {} THEN ReservedOn(k) ELSE R
  <2>1. verdict' = Keep(verdict, T, "canceled") /\ misled \subseteq misled'
    BY <1>4 DEF ChildGone
  <2>2. CASE R # {}
    <3>1. \A c \in R : call[c].pc \in Over /\ running'[call[c].task] = NoCall
      BY <1>4, DrainedStep DEF ChildGone, DrainCanceled
    <3> QED BY <2>1, <2>2, <3>1, KeepStep
  <2>3. CASE R = {}
    <3>1. \A c \in ReservedOn(k) : call[c].pc = "sent" /\ call'[c].pc = "sent"
      BY <1>4, GoneStays DEF ReservedOn, Reserved, Stays
    <3>2. ReservedOn(k) \in SUBSET Calls BY DEF ReservedOn
    <3> QED BY <2>1, <2>3, <3>1, <3>2, KeepStep
  <2> QED BY <2>2, <2>3
<1>5. ASSUME NEW c \in Calls, Runs(c), DrainCanceled({c}), UNCHANGED misled,
             verdict' = Keep(verdict, {c}, "canceled")
      PROVE  VerdictStep
  BY <1>5, DrainedStep, KeepStep DEF DrainCanceled
<1>6. ASSUME NEW c \in Calls, CancelHandle(c) PROVE VerdictStep
  BY <1>1, <1>5, <1>6 DEF CancelHandle
<1>7. ASSUME NEW p \in Parents, NEW t \in Tasks, CancelTask(p, t) PROVE VerdictStep
  <2>1. running[t] \in Calls /\ call[running[t]].task = t BY <1>7 DEF CancelTask, RunInv
  <2>2. Runs(running[t]) BY <2>1, CallAssumption DEF CallAssumption, Runs
  <2> QED BY <1>5, <1>7, <2>1, <2>2 DEF CancelTask
<1>8. ASSUME NEW p \in Parents, CancelByParentTurn(p) \/ CancelByParent(p) PROVE VerdictStep
  <2> DEFINE S == RunsOf(p) \cup {c \in FlaggedBy(p) : Reserved(c)}
  <2>1. /\ verdict' = Keep(verdict, S, "canceled") /\ misled' = misled
        /\ Drained(RunsOf(p)) /\ Flag(p)
    BY <1>8 DEF CancelByParentTurn, CancelByParent, Stopped, DrainCanceled
  <2>2. S \in SUBSET Calls BY DEF RunsOf, FlaggedBy
  <2>3. \A c \in RunsOf(p) : call[c].pc \in Over /\ running'[call[c].task] = NoCall
    BY <2>1, DrainedStep DEF RunsOf
  <2>4. \A c \in FlaggedBy(p) : Reserved(c) => At(c, "sent") /\ call'[c].pc = "sent"
    BY <2>1, FlagStays DEF FlaggedBy, Reserved, Stays
  <2> QED BY <2>1, <2>2, <2>3, <2>4, KeepStep
<1> QED BY <1>1, <1>2, <1>3, <1>4, <1>6, <1>7, <1>8, ZenonT(60)
        DEF Next, vars, past, Setup, Settlement, Worker, ParentEnds, BufferHandle, Tell,
            Disconnect, WorkerReads, ChildDies, TurnEnds, Connect, CloseParent, ParentDies,
            Revoke, Leave, Dispatch, Enter, MemGate, RowGate, NoSpawn, Spawn, Send, SendError,
            Park, Release

\* What else happens leaves a reserved call alone.
LEMMA SentKeeps ==
  ASSUME CallInv, RunInv, CallStep, [Next]_vars, NEW c \in Calls, At(c, "sent"),
         call'[c].pc = "sent"
  PROVE  \/ call'[c] = call[c] /\ verdict'[c] = verdict[c]
         \/ \E k \in Calls : CompleteCall(k) \/ ChildGone(k)
         \/ \E p \in Parents : CancelByParentTurn(p) \/ CancelByParent(p)
<1> USE DEF At
<1>0. ~Runs(c) BY RunsFacts DEF Over
<1>1. ASSUME UNCHANGED <<call, verdict>> PROVE call'[c] = call[c] /\ verdict'[c] = verdict[c]
  BY <1>1
<1>2. ASSUME NEW d \in Calls, call[d].pc # "sent", \A e \in Calls \ {d} : call'[e] = call[e],
             \A e \in Calls \ {d} : verdict'[e] = verdict[e]
      PROVE  call'[c] = call[c] /\ verdict'[c] = verdict[c]
  BY <1>2
<1>3. ASSUME NEW d \in Calls, Enter(d) \/ MemGate(d) \/ RowGate(d) \/ NoSpawn(d) \/ Spawn(d)
                              \/ Send(d) \/ SendError(d) \/ SecondCheck(d) \/ Release(d)
      PROVE  call'[c] = call[c] /\ verdict'[c] = verdict[c]
  <2>1. call[d].pc # "sent"
    BY <1>3 DEF Enter, MemGate, RowGate, NoSpawn, Spawn, Send, SendError, SecondCheck, Release
  <2>2. \A e \in Calls \ {d} : call'[e] = call[e]
    BY <1>3 DEF Enter, MemGate, Gate, RowGate, NoSpawn, Spawn, Send, SendError, SecondCheck,
       Release, Go, Return, CallInv
  <2>3. \A e \in Calls \ {d} : verdict'[e] = verdict[e]
    <3>1. verdict' = verdict \/ verdict' = Keep(verdict, {d}, "canceled")
      BY <1>3 DEF Enter, MemGate, RowGate, NoSpawn, Spawn, Send, SendError, SecondCheck,
         Release, past
    <3> QED BY <3>1 DEF Keep
  <2> QED BY <1>2, <2>1, <2>2, <2>3
<1>4. ASSUME NEW d \in Calls, NEW p \in Parents, NEW t \in Tasks, Dispatch(d, p, t)
      PROVE  call'[c] = call[c] /\ verdict'[c] = verdict[c]
  BY <1>2, <1>4 DEF Dispatch, past, CallInv
<1>5. ASSUME NEW d \in Calls, Park(d) PROVE call'[c] = call[c] /\ verdict'[c] = verdict[c]
  <2>1. ASSUME NEW pc \in Over, call' = [call EXCEPT ![d].pc = pc, ![d].early = NoEarly]
        PROVE  call'[c] = call[c]
    <3>1. c = d => call'[c].pc = pc BY <2>1 DEF CallInv, Call
    <3> QED BY <2>1, <3>1 DEF Over, CallInv
  <2> QED BY <1>5, <2>1 DEF Park, Parked, Returned, Over, past
<1>6. ASSUME NEW d \in Calls, CancelHandle(d)
      PROVE  call'[c] = call[c] /\ verdict'[c] = verdict[c]
  <2>1. /\ call' = call
        /\ \/ verdict' = verdict
           \/ Runs(d) /\ verdict' = Keep(verdict, {d}, "canceled")
    BY <1>6 DEF CancelHandle
  <2> QED BY <1>0, <2>1 DEF Keep
<1>7. ASSUME NEW p \in Parents, NEW t \in Tasks, CancelTask(p, t)
      PROVE  call'[c] = call[c] /\ verdict'[c] = verdict[c]
  <2>1. running[t] # c BY <1>7 DEF CancelTask, RunInv, Over
  <2> QED BY <1>7, <2>1 DEF CancelTask, Keep, RunInv
<1> QED BY <1>1, <1>3, <1>4, <1>5, <1>6, <1>7, ZenonT(60)
        DEF Next, vars, past, Setup, Settlement, Worker, ParentEnds, BufferHandle, Tell,
            Disconnect, WorkerReads, ChildDies, TurnEnds, Connect, CloseParent, ParentDies,
            Revoke, Leave

LEMMA SentNext ==
  ASSUME CallInv, ConnInv, RunInv, LineInv, EndInv, CallStep, VerdictStep, [Next]_vars
  PROVE  SentTold'
<1> USE DEF At
<1> SUFFICES ASSUME NEW c \in Calls, call'[c].pc = "sent", c \notin misled' PROVE Told(c)'
  BY DEF SentTold
<1>1. CASE call[c].pc # "sent"
  <2>1. Sends(c)
    BY <1>1, ZenonT(60)
    DEF CallStep, MovesAlone, Stays, Dispatched, Entered, Claimed, Readied, Spawns, Sends,
       Parks, Returns, Returned, Released, Goes
  <2>2. /\ call'[c].early = call[c].early /\ call[c].early.turn = "none" /\ ~call[c].early.dead
        /\ ~call[c].early.cancel
    BY <2>1 DEF Sends, Goes, CallInv, Placed, Flagged
  <2>3. verdict'[c] = "none"
    BY <2>1 DEF Sends, Goes, VerdictStep, EndInv, Unheard, Out, Over
  <2> QED BY <2>2, <2>3 DEF Told, Fate, End, Flagged
<1>2. CASE call[c].pc = "sent"
  <2>0. c \notin misled /\ Told(c)
    BY <1>2 DEF VerdictStep, EndInv, SentTold
  <2>1. call[c].conn \in Calls /\ call'[c].conn = call[c].conn
    BY <1>2, OutStays DEF CallInv, Placed, Out, Kept
  <2>2. ASSUME NEW k \in Calls, k = call[c].conn PROVE c \in Held(k)' => c \in Held(k)
    BY <1>2, HeldNext
  <2>3. ASSUME call'[c] = call[c], verdict'[c] = verdict[c] PROVE Told(c)'
    <3>1. ASSUME NEW k \in Calls, k = call[c].conn, End(c) # "none" PROVE c \notin Held(k)'
      BY <2>0, <2>2, <3>1 DEF Told
    <3>2. Fate(c)' = Fate(c) /\ End(c)' = End(c) /\ EarlyOutcome(c)' = EarlyOutcome(c)
      BY <2>3 DEF Fate, End, EarlyOutcome, Flagged
    <3> QED BY <2>0, <2>1, <2>3, <3>1, <3>2 DEF Told
  <2>4. ASSUME NEW k \in Calls, CompleteCall(k) PROVE Told(c)'
    <3> DEFINE t == conn[k].task
               end == worker[k].end
               hit == IF running[t] # NoCall THEN {running[t]} ELSE ReservedFor(t)
    <3>0. /\ t \in Tasks /\ end \in Outcomes /\ worker[k] # NoEnd
          /\ worker' = [worker EXCEPT ![k] = NoEnd] /\ UNCHANGED <<conn, events>>
          /\ verdict' = Keep(verdict, hit, end) /\ misled' = misled \cup (hit \ {worker[k].run})
      BY <2>4 DEF CompleteCall, ConnInv, Used, Outcomes, NoEnd
    <3>1. CASE c \notin hit
      <4>1. call'[c] = call[c] BY <2>4, <3>1 DEF CompleteCall, Buffered
      <4> QED BY <2>3, <3>0, <3>1, <4>1 DEF Keep
    <3>2. CASE c \in hit
      <4>1. running[t] = NoCall /\ c \in ReservedFor(t)
        BY <1>2, <3>0, <3>2 DEF RunInv, Over
      <4>2. c = worker[k].run BY <3>0, <3>2
      <4>3. Line(Owned(k), conn[k], worker[k], events[k]) BY DEF LineInv
      <4>4. call[c].conn = k /\ c # conn[k].turn
        BY <3>0, <4>2, <4>3 DEF Line, Owned
      <4>5. c # NoCall BY CallAssumption DEF CallAssumption
      <4>6. c \notin RunsIn(events[k])
        BY <4>2, <4>3, <4>5 DEF Line, RunsIn
      <4>7. c \notin Held(k)'
        <5>1. worker'[k] = NoEnd /\ conn'[k] = conn[k] /\ events'[k] = events[k]
          BY <3>0 DEF ConnInv
        <5> QED BY <4>4, <4>5, <4>6, <5>1 DEF Held, NoEnd
      <4>8. End(c) = "none" BY <2>0, <4>2, <4>4 DEF Told, Held
      <4>9. call'[c].early = WithTurn(call[c].early, end)
        BY <2>4, <4>1 DEF CompleteCall, Buffered, CallInv, Call
      <4>10. verdict'[c] = IF verdict[c] = "none" THEN end ELSE verdict[c]
        BY <3>0, <3>2 DEF Keep
      <4>11. verdict[c] = IF Flagged(c) THEN "canceled" ELSE "none"
        BY <2>0, <4>8 DEF Told, Fate, EarlyOutcome
      <4>12. /\ End(c)' = "turn" /\ Flagged(c)' = Flagged(c)
             /\ call'[c].early.turn = end /\ "turn" \notin call'[c].early.before
        BY <3>0, <4>9 DEF End, Flagged, WithTurn, Outcomes
      <4>13. /\ Fate(c)' = IF Flagged(c) THEN "parent" ELSE "child"
             /\ EarlyOutcome(c)' = IF Flagged(c) THEN "canceled" ELSE end
        BY <4>12 DEF Fate, EarlyOutcome
      <4>14. call'[c].conn = k BY <2>1, <4>4
      <4> QED BY <3>0, <4>7, <4>10, <4>11, <4>13, <4>14 DEF Told, Outcomes
    <3> QED BY <3>1, <3>2
  <2>5. ASSUME NEW k \in Calls, ChildGone(k) PROVE Told(c)'
    <3> DEFINE R == {d \in Calls : Runs(d) /\ call[d].conn = k}
               T == IF R = {} THEN ReservedOn(k) ELSE R
    <3>0. verdict' = Keep(verdict, T, "canceled") BY <2>5 DEF ChildGone
    <3>1. CASE c \notin T
      <4>1. call'[c] = call[c] BY <2>5, <3>1 DEF ChildGone, BufferFailure, Buffered
      <4> QED BY <2>3, <3>0, <3>1, <4>1 DEF Keep
    <3>2. CASE c \in T
      <4>1. R = {} /\ c \in ReservedOn(k)
        BY <1>2, <3>2, RunsFacts DEF Over
      <4>2. call[c].conn = k BY <4>1 DEF ReservedOn
      <4>3. c # NoCall BY CallAssumption DEF CallAssumption
      <4>4. c \notin Held(k)'
        <5>1. /\ worker[k] = NoEnd /\ events[k] # <<>> /\ Head(events[k]).stop = "gone"
              /\ events'[k] = Tail(events[k]) /\ worker' = worker /\ conn' = conn
              /\ events[k] \in Seq(Event)
          BY <2>5 DEF ChildGone, Heard, ConnInv
        <5>2. Line(Owned(k), conn[k], NoEnd, events[k]) /\ Owned(k) \in SUBSET Calls
          BY <5>1 DEF LineInv, Owned
        <5>3. Tail(events[k]) = <<>> /\ conn[k].state = "gone" BY <5>1, <5>2, LineTail
        <5>4. conn[k].turn = NoCall BY <5>3 DEF ConnInv, Used
        <5>5. RunsIn(<<>>) = {} BY DEF RunsIn
        <5>6. conn'[k].turn = NoCall BY <5>1, <5>4
        <5>7. worker'[k].run = NoCall BY <5>1 DEF NoEnd
        <5>8. RunsIn(events'[k]) = {} BY <5>1, <5>3, <5>5
        <5> QED BY <4>3, <5>6, <5>7, <5>8 DEF Held
      <4>5. call'[c].early = WithDeath(call[c].early)
        BY <2>5, <4>1 DEF ChildGone, BufferFailure, Buffered, CallInv, Call
      <4>6. verdict'[c] = IF verdict[c] = "none" THEN "canceled" ELSE verdict[c]
        BY <3>0, <3>2 DEF Keep
      <4>7. call'[c].conn = k BY <2>1, <4>2
      <4>8. /\ call'[c].early.turn = call[c].early.turn /\ call'[c].early.dead
            /\ Flagged(c)' = Flagged(c)
            /\ "turn" \in call'[c].early.before <=> "turn" \in call[c].early.before
        BY <4>5 DEF WithDeath, Flagged
      <4>9. CASE call[c].early.turn # "none"
        <5>1. End(c)' = "turn" /\ End(c) = "turn" BY <4>8, <4>9 DEF End
        <5>2. Fate(c)' = Fate(c) /\ Fate(c) # "running" /\ EarlyOutcome(c)' = EarlyOutcome(c)
          BY <4>8, <5>1 DEF Fate, EarlyOutcome
        <5>3. EarlyOutcome(c) # "none" BY <4>9 DEF EarlyOutcome
        <5> QED BY <2>0, <4>4, <4>6, <4>7, <5>2, <5>3 DEF Told
      <4>10. CASE call[c].early.turn = "none"
        <5>1. End(c)' = "dead" /\ End(c) # "turn" BY <4>8, <4>10 DEF End
        <5>2. Fate(c)' # "running" /\ EarlyOutcome(c)' = "canceled"
          BY <5>1 DEF Fate, EarlyOutcome
        <5>3. verdict[c] \in {"none", "canceled"} BY <2>0, <5>1 DEF Told, EarlyOutcome
        <5> QED BY <4>4, <4>6, <4>7, <5>2, <5>3 DEF Told
      <4> QED BY <4>9, <4>10
    <3> QED BY <3>1, <3>2
  <2>6. ASSUME NEW p \in Parents, CancelByParentTurn(p) \/ CancelByParent(p) PROVE Told(c)'
    <3> DEFINE S == RunsOf(p) \cup {d \in FlaggedBy(p) : Reserved(d)}
    <3>0. verdict' = Keep(verdict, S, "canceled") /\ Flag(p)
      BY <2>6 DEF CancelByParentTurn, CancelByParent, Stopped
    <3>1. c \notin RunsOf(p) BY <1>2, RunsFacts DEF RunsOf, Over
    <3>2. CASE c \notin FlaggedBy(p)
      <4>1. call'[c] = call[c] BY <3>0, <3>2 DEF Flag, Buffered
      <4> QED BY <2>3, <3>0, <3>1, <3>2, <4>1 DEF Keep
    <3>3. CASE c \in FlaggedBy(p)
      <4>1. ~Flagged(c) BY <3>3 DEF FlaggedBy
      <4>2. call'[c].early = WithCancel(call[c].early)
        BY <3>0, <3>3 DEF Flag, Buffered, CallInv, Call
      <4>3. /\ call'[c].early.turn = call[c].early.turn
            /\ call'[c].early.dead = call[c].early.dead /\ Flagged(c)'
            /\ "turn" \in call'[c].early.before <=> call[c].early.turn # "none"
            /\ "dead" \in call'[c].early.before <=> call[c].early.dead
        BY <4>2 DEF WithCancel, Flagged
      <4>4. verdict'[c] = IF verdict[c] = "none" THEN "canceled" ELSE verdict[c]
        BY <1>2, <3>0, <3>3 DEF Keep, Reserved
      <4>5. End(c)' = End(c) /\ (End(c) # "none" => End(c) \in call'[c].early.before)
        BY <4>3 DEF End
      <4>6. ASSUME NEW k \in Calls, k = call[c].conn, End(c) # "none" PROVE c \notin Held(k)'
        BY <2>0, <2>2, <4>6 DEF Told
      <4>7. CASE End(c) = "none"
        <5>1. verdict[c] = "none" BY <2>0, <4>1, <4>7 DEF Told, Fate
        <5>2. Fate(c)' = "parent" BY <4>3, <4>5, <4>7 DEF Fate
        <5>3. EarlyOutcome(c)' = "canceled" BY <5>2 DEF EarlyOutcome
        <5> QED BY <4>4, <4>5, <4>7, <5>1, <5>2, <5>3 DEF Told
      <4>8. CASE End(c) # "none"
        <5>1. Fate(c) = "child" /\ Fate(c)' = "child" BY <4>1, <4>5, <4>8 DEF Fate
        <5>2. EarlyOutcome(c)' = EarlyOutcome(c) BY <4>3, <4>5, <5>1 DEF EarlyOutcome
        <5>3. EarlyOutcome(c) # "none" BY DEF EarlyOutcome, End
        <5>4. verdict'[c] = EarlyOutcome(c) BY <2>0, <4>4, <5>1, <5>3 DEF Told
        <5> QED BY <2>1, <4>6, <4>8, <5>1, <5>2, <5>4 DEF Told
      <4> QED BY <4>7, <4>8
    <3> QED BY <3>2, <3>3
  <2> QED BY <1>2, <2>3, <2>4, <2>5, <2>6, SentKeeps
<1> QED BY <1>1, <1>2

LEMMA EndNext ==
  ASSUME CallInv, CallInv', ConnInv, RunInv, ClaimInv, LineInv, EndInv,
         CallStep, RunStep, VerdictStep, [Next]_vars
  PROVE  EndInv'
<1>1. Unheard'
  <2> SUFFICES ASSUME NEW c \in Calls, call'[c].pc \notin Out PROVE verdict'[c] = "none"
    BY DEF Unheard, Out, Over
  <2>1. call[c].pc \notin Out BY OutStays
  <2> QED BY <2>1 DEF VerdictStep, EndInv, Unheard
<1>2. SentTold' BY SentNext
<1>3. RunsOn'
  <2> SUFFICES ASSUME NEW c \in Calls, Runs(c)', c \notin misled' PROVE verdict'[c] = "none"
    BY DEF RunsOn
  <2>1. verdict'[c] = verdict[c] /\ c \notin misled BY DEF VerdictStep
  <2>2. CASE Runs(c) BY <2>1, <2>2 DEF EndInv, RunsOn
  <2>3. CASE Parks(c) /\ Fate(c) = "running"
    BY <2>1, <2>3 DEF Parks, Goes, EndInv, SentTold, Told
  <2> QED BY <2>2, <2>3, RunWas
<1>4. FirstEndWins'
  <2> SUFFICES ASSUME NEW t \in Tasks, cache'.rec[t] # NoRecord,
                      cache'.rec[t].run \notin misled'
               PROVE  cache'.rec[t].status = verdict'[cache'.rec[t].run]
    BY DEF FirstEndWins
  <2>1. cache'.rec[t].run \notin misled BY DEF VerdictStep
  <2>2. CASE cache'.rec[t] = cache.rec[t]
    <3>1. cache.rec[t] \in Record BY <2>2 DEF RunInv, Recs, MaybeRec
    <3>2. cache.rec[t].run \in Calls /\ cache.rec[t].status # "none"
      BY <3>1 DEF Record, Outcomes
    <3>3. cache.rec[t].status = verdict[cache.rec[t].run]
      BY <2>1, <2>2 DEF EndInv, FirstEndWins
    <3> QED BY <2>2, <3>2, <3>3 DEF VerdictStep
  <2>3. CASE Recorded(t)
    <3> SUFFICES ASSUME NEW r \in Calls, r = cache'.rec[t].run
                 PROVE  cache'.rec[t].status = verdict'[r]
      BY <2>3 DEF Recorded
    <3>1. CASE running[t] = r /\ Hears(r, cache'.rec[t].status)
      <4>1. Runs(r) BY <2>3, <3>1, CallAssumption DEF CallAssumption, Recorded, Runs
      <4> QED BY <2>1, <3>1, <4>1 DEF EndInv, RunsOn, Hears
    <3>2. CASE At(r, "parked") /\ running[t] # NoCall /\ Hears(r, cache'.rec[t].status)
      <4>1. running[t] = r BY <2>3, <3>2 DEF Recorded, ClaimInv, WaitsAlone
      <4> QED BY <3>1, <3>2, <4>1
    <3>3. CASE /\ At(r, "sent") /\ Fate(r) # "running"
               /\ cache'.rec[t].status = EarlyOutcome(r) /\ verdict' = verdict
      BY <2>1, <3>3 DEF EndInv, SentTold, Told
    <3> QED BY <2>3, <3>1, <3>2, <3>3 DEF Recorded
  <2> QED BY <2>2, <2>3 DEF RunStep, Settled, Started, Lasts
<1> QED BY <1>1, <1>2, <1>3, <1>4 DEF EndInv

----------------------------------------------------------------------------
(* Lines of results *)

Once(q) == \A i, j \in DOMAIN q : q[i] = q[j] => i = j

LEMMA InLine ==
  ASSUME NEW q \in Seq(Tasks)
  PROVE  \A t : t \in Range(q) <=> \E i \in 1..Len(q) : t = q[i]
<1>1. DOMAIN q = 1..Len(q) OBVIOUS
<1> QED BY <1>1 DEF Range

LEMMA LineIsFinite ==
  ASSUME NEW q \in Seq(Tasks), Once(q)
  PROVE  IsFiniteSet(Range(q)) /\ Cardinality(Range(q)) = Len(q)
<1>1. q \in Surjection(1..Len(q), Range(q)) /\ q \in Injection(1..Len(q), Range(q))
  BY DEF Once, Surjection, Injection, IsInjective, Range
<1>2. IsFiniteSet(1..Len(q)) /\ Cardinality(1..Len(q)) = Len(q)
  <2>1. Len(q) \in Nat OBVIOUS
  <2>2. 1 \in Int /\ Len(q) \in Int BY <2>1
  <2>3. /\ IsFiniteSet(1..Len(q))
        /\ Cardinality(1..Len(q)) = IF 1 > Len(q) THEN 0 ELSE Len(q) - 1 + 1
    BY <2>2, FS_Interval
  <2> QED BY <2>1, <2>3
<1> DEFINE T == Range(q)
<1> HIDE DEF T
<1>3. IsFiniteSet(T) BY <1>1, <1>2, FS_Surjection DEF T
<1>4. Cardinality(T) = Cardinality(1..Len(q)) <=> q \in Injection(1..Len(q), T)
  BY <1>1, <1>2, FS_Surjection DEF T
<1> QED BY <1>1, <1>2, <1>3, <1>4 DEF T

LEMMA LineSplits ==
  ASSUME NEW q \in Seq(Tasks), Once(q), NEW n \in 0..Len(q)
  PROVE  LET out == SubSeq(q, 1, n)
             rest == SubSeq(q, n + 1, Len(q))
         IN /\ out \in Seq(Tasks) /\ rest \in Seq(Tasks) /\ Once(rest)
            /\ Range(out) \subseteq Range(q) /\ Range(rest) = Range(q) \ Range(out)
<1> DEFINE out == SubSeq(q, 1, n)
           rest == SubSeq(q, n + 1, Len(q))
<1>1. /\ out \in Seq(Tasks) /\ Len(out) = n /\ \A i \in 1..n : out[i] = q[i]
      /\ rest \in Seq(Tasks) /\ Len(rest) = Len(q) - n
      /\ \A i \in 1..(Len(q) - n) : rest[i] = q[n + i]
  OBVIOUS
<1> HIDE DEF out, rest
<1>2. Once(rest)
  <2> SUFFICES ASSUME NEW i \in 1..(Len(q) - n), NEW j \in 1..(Len(q) - n), rest[i] = rest[j]
               PROVE  i = j
    BY <1>1 DEF Once
  <2>1. q[n + i] = q[n + j] BY <1>1
  <2>2. n + i \in DOMAIN q /\ n + j \in DOMAIN q OBVIOUS
  <2>3. n + i = n + j BY <2>1, <2>2 DEF Once
  <2> QED BY <2>3
<1>a. \A t : t \in Range(out) <=> \E i \in 1..n : t = q[i] BY <1>1, InLine
<1>b. \A t : t \in Range(rest) <=> \E i \in 1..(Len(q) - n) : t = q[n + i]
  <2>1. \A t : t \in Range(rest) <=> \E i \in 1..Len(rest) : t = rest[i] BY <1>1, InLine
  <2>2. \A t : t \in Range(rest) <=> \E i \in 1..(Len(q) - n) : t = rest[i] BY <1>1, <2>1
  <2>3. \A i \in 1..(Len(q) - n) : rest[i] = q[n + i] BY <1>1
  <2> QED BY <2>2, <2>3, Zenon
<1>c. \A t : t \in Range(q) <=> \E i \in 1..Len(q) : t = q[i] BY InLine
<1>3. Range(out) \subseteq Range(q)
  <2>1. \A i \in 1..n : i \in 1..Len(q) OBVIOUS
  <2> QED BY <1>a, <1>c, <2>1
<1>4. Range(rest) \subseteq Range(q)
  <2>1. \A i \in 1..(Len(q) - n) : n + i \in 1..Len(q) OBVIOUS
  <2> QED BY <1>b, <1>c, <2>1
<1>5. Range(rest) \cap Range(out) = {}
  <2>1. \A i \in 1..n, j \in 1..(Len(q) - n) : q[i] # q[n + j] BY DEF Once
  <2> QED BY <1>a, <1>b, <2>1
<1>6. Range(q) \subseteq Range(out) \cup Range(rest)
  <2>1. \A i \in 1..Len(q) : i \in 1..n \/ (i - n \in 1..(Len(q) - n) /\ n + (i - n) = i)
    OBVIOUS
  <2> QED BY <1>a, <1>b, <1>c, <2>1
<1> QED BY <1>1, <1>2, <1>3, <1>4, <1>5, <1>6 DEF out, rest

LEMMA LineConcat ==
  ASSUME NEW q \in Seq(Tasks), NEW s \in Seq(Tasks), Once(q), Once(s),
         Range(q) \cap Range(s) = {}
  PROVE  q \o s \in Seq(Tasks) /\ Once(q \o s) /\ Range(q \o s) = Range(q) \cup Range(s)
<1> DEFINE u == q \o s
<1>1. /\ u \in Seq(Tasks) /\ Len(u) = Len(q) + Len(s)
      /\ \A i \in 1..Len(q) : u[i] = q[i]
      /\ \A i \in (Len(q) + 1)..Len(u) : u[i] = s[i - Len(q)]
  OBVIOUS
<1> HIDE DEF u
<1>2. \A i \in 1..Len(q) : u[i] \in Range(q) BY <1>1 DEF Range
<1>3. \A i \in (Len(q) + 1)..Len(u) : i - Len(q) \in DOMAIN s /\ u[i] \in Range(s)
  BY <1>1 DEF Range
<1>4. \A i \in DOMAIN u : i \in 1..Len(q) \/ i \in (Len(q) + 1)..Len(u) BY <1>1
<1>5. Once(u)
  <2> SUFFICES ASSUME NEW i \in DOMAIN u, NEW j \in DOMAIN u, u[i] = u[j] PROVE i = j
    BY DEF Once
  <2>1. CASE i \in 1..Len(q) /\ j \in 1..Len(q) BY <1>1, <2>1 DEF Once
  <2>2. CASE i \in (Len(q) + 1)..Len(u) /\ j \in (Len(q) + 1)..Len(u)
    <3>1. s[i - Len(q)] = s[j - Len(q)] BY <1>1, <2>2
    <3>2. i - Len(q) = j - Len(q) BY <1>3, <2>2, <3>1 DEF Once
    <3> QED BY <2>2, <3>2
  <2>3. CASE i \in 1..Len(q) /\ j \in (Len(q) + 1)..Len(u) BY <1>2, <1>3, <2>3
  <2>4. CASE i \in (Len(q) + 1)..Len(u) /\ j \in 1..Len(q) BY <1>2, <1>3, <2>4
  <2> QED BY <1>4, <2>1, <2>2, <2>3, <2>4
<1>6. Range(u) \subseteq Range(q) \cup Range(s)
  <2>1. \A i \in DOMAIN u : u[i] \in Range(q) \cup Range(s) BY <1>2, <1>3, <1>4
  <2> QED BY <2>1 DEF Range
<1>7. Range(q) \subseteq Range(u)
  <2>1. \A i \in DOMAIN q : i \in DOMAIN u /\ q[i] = u[i] BY <1>1
  <2> QED BY <2>1 DEF Range
<1>8. Range(s) \subseteq Range(u)
  <2>1. \A i \in 1..Len(s) : /\ Len(q) + i \in (Len(q) + 1)..Len(u)
                              /\ Len(q) + i \in 1..Len(u) /\ (Len(q) + i) - Len(q) = i
    BY <1>1
  <2>2. \A i \in 1..Len(s) : s[i] = u[Len(q) + i] BY <1>1, <2>1
  <2>3. \A t : t \in Range(s) <=> \E i \in 1..Len(s) : t = s[i] BY InLine
  <2>4. \A t : t \in Range(u) <=> \E i \in 1..Len(u) : t = u[i] BY <1>1, InLine
  <2> QED BY <2>1, <2>2, <2>3, <2>4
<1> QED BY <1>1, <1>5, <1>6, <1>7, <1>8 DEF u

LEMMA LineRetains ==
  ASSUME NEW q \in Seq(Tasks), Once(q), NEW t \in Tasks
  PROVE  /\ Retained(q, t) \in Seq(Tasks) /\ Once(Retained(q, t))
         /\ Range(Retained(q, t)) = Range(q) \ {t}
<1>1. CASE t \notin Range(q) BY <1>1 DEF Retained
<1>2. CASE t \in Range(q)
  <2>1. PICK i \in DOMAIN q : q[i] = t /\ i = CHOOSE k \in DOMAIN q : q[k] = t
    BY <1>2 DEF Range
  <2> DEFINE a == SubSeq(q, 1, i)
             front == SubSeq(q, 1, i - 1)
             back == SubSeq(q, i + 1, Len(q))
  <2>2. Retained(q, t) = front \o back BY <1>2, <2>1 DEF Retained, RemoveAt
  <2>3. /\ front \in Seq(Tasks) /\ Len(front) = i - 1
        /\ \A k \in 1..(i - 1) : front[k] = q[k]
    OBVIOUS
  <2>4. /\ back \in Seq(Tasks) /\ Once(back) /\ a \in Seq(Tasks)
        /\ Range(a) \subseteq Range(q) /\ Range(back) = Range(q) \ Range(a)
    BY LineSplits
  <2>5. Len(a) = i /\ \A k \in 1..i : a[k] = q[k] OBVIOUS
  <2> HIDE DEF a, front, back
  <2>6. Range(front) = Range(a) \ {t}
    <3>1. Range(a) = {q[k] : k \in 1..i} BY <2>4, <2>5 DEF Range
    <3>2. Range(front) = {q[k] : k \in 1..(i - 1)} BY <2>3 DEF Range
    <3>3. \A k \in 1..(i - 1) : k \in 1..i /\ q[k] # t BY <2>1 DEF Once
    <3>4. \A k \in 1..i : k \in 1..(i - 1) \/ q[k] = t BY <2>1
    <3> QED BY <3>1, <3>2, <3>3, <3>4
  <2>7. Once(front)
    <3> SUFFICES ASSUME NEW j \in 1..(i - 1), NEW k \in 1..(i - 1), front[j] = front[k]
                 PROVE  j = k
      BY <2>3 DEF Once
    <3> QED BY <2>3 DEF Once
  <2>8. t \in Range(a)
    <3>1. i \in 1..i BY <2>1
    <3> QED BY <2>1, <2>4, <2>5, <3>1, InLine
  <2> QED BY <2>2, <2>3, <2>4, <2>6, <2>7, <2>8, LineConcat
<1> QED BY <1>1, <1>2

----------------------------------------------------------------------------
(* The books of the completed-cache *)

Cache == [rec: Recs, order: [Parents -> Seq(Tasks)], bytes: [Parents -> Nat]]

\* A parent's line lists each of its results once; its bytes are those it retains.
BooksAt(ch, p) ==
  LET q == ch.order[p]
  IN /\ Once(q) /\ Range(q) = {t \in Tasks : ch.rec[t].par = p}
     /\ ch.bytes[p] = Texts(ch.rec, Range(q))
Books(ch) == ch \in Cache /\ \A p \in Parents : BooksAt(ch, p)

LEMMA TextsSplit ==
  ASSUME NEW rec, NEW S, IsFiniteSet(S), NEW T \in SUBSET S
  PROVE  /\ Texts(rec, S) \in Nat /\ Texts(rec, T) \in Nat /\ Texts(rec, S \ T) \in Nat
         /\ Texts(rec, S) = Texts(rec, T) + Texts(rec, S \ T)
<1> DEFINE Done(U) == {t \in U : rec[t].status = "done"}
<1>1. Done(S) = Done(T) \cup Done(S \ T) /\ Done(T) \cap Done(S \ T) = {} OBVIOUS
<1>2. IsFiniteSet(Done(S)) /\ IsFiniteSet(Done(T)) /\ IsFiniteSet(Done(S \ T))
  <2>1. /\ Done(S) \in SUBSET S /\ Done(T) \in SUBSET S /\ Done(S \ T) \in SUBSET S
    OBVIOUS
  <2> QED BY <2>1, FS_Subset
<1>3. /\ Texts(rec, S) = Cardinality(Done(S)) /\ Texts(rec, T) = Cardinality(Done(T))
      /\ Texts(rec, S \ T) = Cardinality(Done(S \ T))
  BY DEF Texts
<1> HIDE DEF Done
<1>4. /\ Cardinality(Done(S)) \in Nat /\ Cardinality(Done(T)) \in Nat
      /\ Cardinality(Done(S \ T)) \in Nat
  BY <1>2, FS_CardinalityType
<1>5. Cardinality(Done(S)) = Cardinality(Done(T)) + Cardinality(Done(S \ T)) - Cardinality({})
  BY <1>1, <1>2, FS_Union
<1>6. Cardinality({}) = 0 BY FS_EmptySet
<1> QED BY <1>3, <1>4, <1>5, <1>6

LEMMA TextsSame ==
  ASSUME NEW rec, NEW new, NEW S,
         \A t \in S : (rec[t].status = "done") <=> (new[t].status = "done")
  PROVE  Texts(rec, S) = Texts(new, S)
<1>1. {t \in S : rec[t].status = "done"} = {t \in S : new[t].status = "done"} OBVIOUS
<1> QED BY <1>1 DEF Texts

LEMMA TextsOne ==
  ASSUME NEW rec, NEW t
  PROVE  Texts(rec, {t}) = Text(rec[t].status)
<1>1. CASE rec[t].status = "done"
  <2>1. {u \in {t} : rec[u].status = "done"} = {t} BY <1>1
  <2> QED BY <1>1, <2>1, FS_Singleton DEF Texts, Text
<1>2. CASE rec[t].status # "done"
  <2>1. {u \in {t} : rec[u].status = "done"} = {} BY <1>2
  <2> QED BY <1>2, <2>1, FS_EmptySet DEF Texts, Text
<1> QED BY <1>1, <1>2

LEMMA ShortenedBooks ==
  ASSUME NEW ch, Books(ch), NEW p \in Parents, NEW n \in 0..Len(ch.order[p])
  PROVE  Books(Shortened(ch, p, n))
<1> DEFINE q == ch.order[p]
           out == Range(SubSeq(q, 1, n))
           rest == SubSeq(q, n + 1, Len(q))
           rec == [t \in Tasks |-> IF t \in out THEN NoRecord ELSE ch.rec[t]]
           order == [ch.order EXCEPT ![p] = rest]
           bytes == [ch.bytes EXCEPT ![p] = @ - Texts(ch.rec, out)]
<1>0. Shortened(ch, p, n) = [rec |-> rec, order |-> order, bytes |-> bytes] BY DEF Shortened
<1>1. /\ ch.rec \in Recs /\ ch.order \in [Parents -> Seq(Tasks)]
      /\ ch.bytes \in [Parents -> Nat] /\ q \in Seq(Tasks)
      /\ Once(q) /\ Range(q) = {t \in Tasks : ch.rec[t].par = p}
      /\ ch.bytes[p] = Texts(ch.rec, Range(q))
  BY DEF Books, BooksAt, Cache
<1>2. /\ rest \in Seq(Tasks) /\ Once(rest) /\ out \subseteq Range(q)
      /\ Range(rest) = Range(q) \ out
  BY <1>1, LineSplits
<1>3. IsFiniteSet(Range(q)) BY <1>1, LineIsFinite
<1>4. /\ Texts(ch.rec, Range(rest)) \in Nat
      /\ ch.bytes[p] - Texts(ch.rec, out) = Texts(ch.rec, Range(rest))
  BY <1>1, <1>2, <1>3, TextsSplit
<1> HIDE DEF q, out, rest
<1>5. rec \in Recs BY <1>1 DEF Recs, MaybeRec
<1>6. order \in [Parents -> Seq(Tasks)] BY <1>1, <1>2
<1>7. bytes \in [Parents -> Nat] BY <1>1, <1>4
<1>8. [rec |-> rec, order |-> order, bytes |-> bytes] \in Cache BY <1>5, <1>6, <1>7 DEF Cache
<1>9. /\ order[p] = rest /\ bytes[p] = Texts(ch.rec, Range(rest))
      /\ \A r \in Parents \ {p} : order[r] = ch.order[r] /\ bytes[r] = ch.bytes[r]
      /\ \A t \in Tasks : rec[t] = IF t \in out THEN NoRecord ELSE ch.rec[t]
  BY <1>1, <1>4
<1> HIDE DEF rec, order, bytes
<1>10. /\ \A t \in Tasks : rec[t].par = p <=> t \in Range(rest)
       /\ \A t \in Tasks, r \in Parents \ {p} : rec[t].par = r <=> ch.rec[t].par = r
  <2>1. \A r \in Parents : NoRecord.par # r
    BY BoundAssumption DEF NoRecord, Parents, BoundAssumption
  <2>2. \A t \in Tasks : /\ t \in Range(q) <=> ch.rec[t].par = p
                         /\ t \in out => ch.rec[t].par = p
                         /\ t \in Range(rest) <=> ch.rec[t].par = p /\ t \notin out
    BY <1>1, <1>2
  <2> QED BY <1>9, <2>1, <2>2
<1>11. /\ Once(order[p]) /\ Range(order[p]) = {t \in Tasks : rec[t].par = p}
       /\ bytes[p] = Texts(rec, Range(order[p]))
  <2>1. \A t \in Range(rest) : rec[t] = ch.rec[t] BY <1>1, <1>2, <1>9
  <2>2. Texts(rec, Range(rest)) = Texts(ch.rec, Range(rest)) BY <2>1, TextsSame
  <2> QED BY <1>1, <1>2, <1>9, <1>10, <2>2
<1>12. ASSUME NEW r \in Parents \ {p}
       PROVE  /\ Once(order[r]) /\ Range(order[r]) = {t \in Tasks : rec[t].par = r}
              /\ bytes[r] = Texts(rec, Range(order[r]))
  <2>1. /\ Once(ch.order[r]) /\ Range(ch.order[r]) = {t \in Tasks : ch.rec[t].par = r}
        /\ ch.bytes[r] = Texts(ch.rec, Range(ch.order[r]))
    BY DEF Books, BooksAt
  <2>2. \A t \in Range(ch.order[r]) : rec[t] = ch.rec[t] BY <1>1, <1>2, <1>9, <2>1
  <2>3. Texts(rec, Range(ch.order[r])) = Texts(ch.rec, Range(ch.order[r]))
    BY <2>2, TextsSame
  <2> QED BY <1>9, <1>10, <2>1, <2>3
<1>13. ASSUME NEW r \in Parents PROVE BooksAt(Shortened(ch, p, n), r)
  <2>1. /\ Shortened(ch, p, n).rec = rec /\ Shortened(ch, p, n).order = order
        /\ Shortened(ch, p, n).bytes = bytes
    BY <1>0
  <2>2. CASE r = p BY <1>11, <2>1, <2>2 DEF BooksAt
  <2>3. CASE r # p BY <1>12, <2>1, <2>3 DEF BooksAt
  <2> QED BY <2>2, <2>3
<1> QED BY <1>0, <1>8, <1>13 DEF Books

LEMMA LeastNumber ==
  ASSUME NEW T \in SUBSET Nat, T # {}
  PROVE  \E m \in T : \A n \in T : m <= n
<1>1. PICK m \in T : \A n \in T : ~(<<n, m>> \in OpToRel(<, Nat))
  BY WFMin, NatLessThanWellFounded, Zenon
<1>2. \A n \in T : ~(n < m) BY <1>1 DEF OpToRel
<1> QED BY <1>2

\* Eviction ends: with one result left at the latest.
LEMMA EvictedBooks ==
  ASSUME NEW ch, Books(ch), NEW p \in Parents
  PROVE  Books(Evicted(ch, p))
<1> DEFINE q == ch.order[p]
           Oldest(n) == Range(SubSeq(q, 1, n))
           Fits(n) == ch.bytes[p] - Texts(ch.rec, Oldest(n)) <= Cap \/ Len(q) - n <= 1
           T == {k \in 0..Len(q) : Fits(k)}
           n == CHOOSE k \in 0..Len(q) : Fits(k) /\ \A j \in 0..(k - 1) : ~Fits(j)
<1>0. Evicted(ch, p) = IF Cap = 0 THEN ch ELSE Shortened(ch, p, n) BY DEF Evicted
<1>1. Len(q) \in Nat BY DEF Books, Cache
<1>2. Fits(Len(q)) BY <1>1
<1> HIDE DEF Fits
<1>3. T \in SUBSET Nat /\ T # {} BY <1>1, <1>2
<1>4. PICK m \in T : \A k \in T : m <= k BY <1>3, LeastNumber
<1>5. m \in 0..Len(q) /\ Fits(m) /\ \A j \in 0..(m - 1) : ~Fits(j)
  <2>1. m \in 0..Len(q) /\ Fits(m) OBVIOUS
  <2>2. ASSUME NEW j \in 0..(m - 1), Fits(j) PROVE FALSE
    <3>1. j \in 0..Len(q) /\ j < m BY <1>1, <2>1
    <3>2. j \in T BY <2>2, <3>1
    <3> QED BY <1>1, <1>4, <2>1, <3>1, <3>2
  <2> QED BY <2>1, <2>2
<1>6. n \in 0..Len(q) BY <1>5
<1> HIDE DEF n
<1> QED BY <1>0, <1>6, ShortenedBooks

LEMMA AppendIs ==
  ASSUME NEW q \in Seq(Tasks), NEW t \in Tasks
  PROVE  Append(q, t) = q \o <<t>>
OBVIOUS

\* New results go to the end of their parent's line.
LEMMA AppendBooks ==
  ASSUME NEW ch, Books(ch), NEW p \in Parents, NEW s \in Seq(Tasks), Once(s),
         NEW rec \in Recs,
         \A t \in Range(s) : ch.rec[t] = NoRecord /\ rec[t].par = p,
         \A t \in Tasks \ Range(s) : rec[t] = ch.rec[t]
  PROVE  Books([rec |-> rec, order |-> [ch.order EXCEPT ![p] = @ \o s],
                bytes |-> [ch.bytes EXCEPT ![p] = @ + Texts(rec, Range(s))]])
<1> DEFINE q == ch.order[p]
           order == [ch.order EXCEPT ![p] = @ \o s]
           bytes == [ch.bytes EXCEPT ![p] = @ + Texts(rec, Range(s))]
           new == [rec |-> rec, order |-> order, bytes |-> bytes]
<1>1. /\ ch.rec \in Recs /\ ch.order \in [Parents -> Seq(Tasks)]
      /\ ch.bytes \in [Parents -> Nat] /\ q \in Seq(Tasks)
      /\ Once(q) /\ Range(q) = {t \in Tasks : ch.rec[t].par = p}
      /\ ch.bytes[p] = Texts(ch.rec, Range(q))
  BY DEF Books, BooksAt, Cache
<1>2. \A r \in Parents : NoRecord.par # r
  BY BoundAssumption DEF NoRecord, Parents, BoundAssumption
<1>3. Range(q) \cap Range(s) = {} /\ Range(s) \subseteq Tasks
  <2>1. Range(s) \subseteq Tasks BY DEF Range
  <2> QED BY <1>1, <1>2, <2>1
<1>4. q \o s \in Seq(Tasks) /\ Once(q \o s) /\ Range(q \o s) = Range(q) \cup Range(s)
  BY <1>1, <1>3, LineConcat
<1>5. /\ Texts(rec, Range(s)) \in Nat
      /\ ch.bytes[p] + Texts(rec, Range(s)) = Texts(rec, Range(q \o s))
  <2>1. IsFiniteSet(Range(q \o s)) BY <1>4, LineIsFinite
  <2>2. Range(q) = Range(q \o s) \ Range(s) /\ Range(s) \in SUBSET Range(q \o s)
    BY <1>3, <1>4
  <2>3. /\ Texts(rec, Range(q \o s)) \in Nat /\ Texts(rec, Range(q)) \in Nat
        /\ Texts(rec, Range(s)) \in Nat
        /\ Texts(rec, Range(q \o s)) = Texts(rec, Range(s)) + Texts(rec, Range(q))
    BY <2>1, <2>2, TextsSplit
  <2>4. \A t \in Range(q) : rec[t] = ch.rec[t] BY <1>1, <1>3
  <2>5. Texts(ch.rec, Range(q)) = Texts(rec, Range(q)) BY <2>4, TextsSame
  <2> QED BY <1>1, <2>3, <2>5
<1>6. order \in [Parents -> Seq(Tasks)] BY <1>1, <1>4
<1>7. bytes \in [Parents -> Nat] BY <1>1, <1>5
<1>8. new \in Cache BY <1>6, <1>7 DEF Cache
<1>9. /\ order[p] = q \o s /\ bytes[p] = Texts(rec, Range(q \o s))
      /\ \A r \in Parents \ {p} : order[r] = ch.order[r] /\ bytes[r] = ch.bytes[r]
  BY <1>1, <1>5
<1>10. new.rec = rec /\ new.order = order /\ new.bytes = bytes OBVIOUS
<1> HIDE DEF order, bytes, new, q
<1>11. \A t \in Tasks : /\ rec[t].par = p <=> t \in Range(q) \cup Range(s)
                        /\ \A r \in Parents \ {p} : rec[t].par = r <=> ch.rec[t].par = r
  BY <1>1, <1>2, <1>3
<1>12. BooksAt(new, p)
  <2>1. Range(order[p]) = {t \in Tasks : rec[t].par = p}
    BY <1>1, <1>3, <1>4, <1>9, <1>11
  <2> QED BY <1>4, <1>9, <1>10, <2>1 DEF BooksAt
<1>13. ASSUME NEW r \in Parents \ {p} PROVE BooksAt(new, r)
  <2>1. /\ Once(ch.order[r]) /\ Range(ch.order[r]) = {t \in Tasks : ch.rec[t].par = r}
        /\ ch.bytes[r] = Texts(ch.rec, Range(ch.order[r]))
    BY DEF Books, BooksAt
  <2>2. \A t \in Range(ch.order[r]) : rec[t] = ch.rec[t] BY <1>2, <2>1
  <2>3. Texts(rec, Range(ch.order[r])) = Texts(ch.rec, Range(ch.order[r]))
    BY <2>2, TextsSame
  <2>4. Range(order[r]) = {t \in Tasks : rec[t].par = r} BY <1>9, <1>11, <2>1
  <2> QED BY <1>9, <1>10, <2>1, <2>3, <2>4 DEF BooksAt
<1> QED BY <1>8, <1>12, <1>13 DEF Books, new, order, bytes

LEMMA InsertBooks ==
  ASSUME NEW ch, Books(ch), NEW c \in Calls, call[c].task \in Tasks, call[c].par \in Parents,
         NEW status \in Outcomes, ch.rec[call[c].task] = NoRecord
  PROVE  Books(InsertCompleted(ch, c, status))
<1> DEFINE t == call[c].task
           p == call[c].par
           r == [par |-> p, status |-> status, run |-> c]
           rec == [ch.rec EXCEPT ![t] = r]
           s == <<t>>
           mid == [rec |-> rec, order |-> [ch.order EXCEPT ![p] = @ \o s],
                   bytes |-> [ch.bytes EXCEPT ![p] = @ + Texts(rec, Range(s))]]
<1>1. s \in Seq(Tasks) /\ Once(s) /\ Range(s) = {t} BY DEF Once, Range
<1>2. ch.rec \in Recs /\ r \in MaybeRec /\ ch.order \in [Parents -> Seq(Tasks)]
  BY DEF Books, Cache, Record, MaybeRec
<1>3. rec \in Recs /\ rec[t] = r /\ \A u \in Tasks \ {t} : rec[u] = ch.rec[u]
  BY <1>2 DEF Recs
<1>4. Texts(rec, Range(s)) = Text(status)
  <2>1. Texts(rec, {t}) = Text(rec[t].status) BY TextsOne
  <2> QED BY <1>1, <1>3, <2>1
<1>5. Append(ch.order[p], t) = ch.order[p] \o s
  <2>1. ch.order[p] \in Seq(Tasks) BY <1>2
  <2> QED BY <2>1, AppendIs
<1>6. InsertCompleted(ch, c, status) = Evicted(mid, p)
  BY <1>4, <1>5 DEF InsertCompleted
<1>7. Books(mid)
  <2>1. \A u \in Range(s) : ch.rec[u] = NoRecord /\ rec[u].par = p BY <1>1, <1>3
  <2>2. \A u \in Tasks \ Range(s) : rec[u] = ch.rec[u] BY <1>1, <1>3
  <2> HIDE DEF rec, s
  <2> QED BY <1>1, <1>3, <2>1, <2>2, AppendBooks
<1> HIDE DEF mid
<1> QED BY <1>6, <1>7, EvictedBooks

LEMMA RemoveBooks ==
  ASSUME NEW ch, Books(ch), NEW t \in Tasks
  PROVE  Books(RemoveCompleted(ch, t))
<1>1. CASE ch.rec[t] = NoRecord BY <1>1 DEF RemoveCompleted
<1>2. CASE ch.rec[t] # NoRecord
  <2> DEFINE p == ch.rec[t].par
             q == ch.order[p]
             rest == Retained(q, t)
             rec == [ch.rec EXCEPT ![t] = NoRecord]
             order == [ch.order EXCEPT ![p] = rest]
             bytes == [ch.bytes EXCEPT ![p] = @ - Text(ch.rec[t].status)]
             new == [rec |-> rec, order |-> order, bytes |-> bytes]
  <2>0. RemoveCompleted(ch, t) = new BY <1>2 DEF RemoveCompleted
  <2>1. p \in Parents BY <1>2 DEF Books, Cache, Recs, MaybeRec, Record
  <2>2. /\ ch.rec \in Recs /\ ch.order \in [Parents -> Seq(Tasks)]
        /\ ch.bytes \in [Parents -> Nat] /\ q \in Seq(Tasks)
        /\ Once(q) /\ Range(q) = {u \in Tasks : ch.rec[u].par = p}
        /\ ch.bytes[p] = Texts(ch.rec, Range(q))
    BY <2>1 DEF Books, BooksAt, Cache
  <2>3. rest \in Seq(Tasks) /\ Once(rest) /\ Range(rest) = Range(q) \ {t}
    BY <2>2, LineRetains
  <2>4. /\ Texts(ch.rec, Range(rest)) \in Nat
        /\ ch.bytes[p] - Text(ch.rec[t].status) = Texts(ch.rec, Range(rest))
    <3>1. IsFiniteSet(Range(q)) /\ {t} \in SUBSET Range(q) BY <2>2, LineIsFinite
    <3>2. ASSUME NEW S, IsFiniteSet(S), NEW T \in SUBSET S, NEW old
          PROVE  /\ Texts(old, S \ T) \in Nat
                 /\ Texts(old, S) - Texts(old, T) = Texts(old, S \ T)
      <4>1. Texts(old, S \ T) \in Nat /\ Texts(old, T) \in Nat BY <3>2, TextsSplit
      <4>2. Texts(old, S) = Texts(old, T) + Texts(old, S \ T) BY <3>2, TextsSplit
      <4> QED BY <4>1, <4>2
    <3>3. Texts(ch.rec, {t}) = Text(ch.rec[t].status) BY TextsOne
    <3>4. /\ Texts(ch.rec, Range(q) \ {t}) \in Nat
          /\ Texts(ch.rec, Range(q)) - Texts(ch.rec, {t}) = Texts(ch.rec, Range(q) \ {t})
      BY <3>1, <3>2
    <3> QED BY <2>2, <2>3, <3>3, <3>4
  <2> HIDE DEF rest, q
  <2>5. rec \in Recs BY <2>2 DEF Recs, MaybeRec
  <2>6. order \in [Parents -> Seq(Tasks)] BY <2>1, <2>2, <2>3
  <2>7. bytes \in [Parents -> Nat] BY <2>1, <2>2, <2>4
  <2>8. new \in Cache BY <2>5, <2>6, <2>7 DEF Cache
  <2>9. /\ order[p] = rest /\ bytes[p] = Texts(ch.rec, Range(rest))
        /\ \A r \in Parents \ {p} : order[r] = ch.order[r] /\ bytes[r] = ch.bytes[r]
        /\ rec[t] = NoRecord /\ \A u \in Tasks \ {t} : rec[u] = ch.rec[u]
    BY <2>1, <2>2, <2>4 DEF Recs
  <2>10. new.rec = rec /\ new.order = order /\ new.bytes = bytes OBVIOUS
  <2>11. \A r \in Parents : NoRecord.par # r
    BY BoundAssumption DEF NoRecord, Parents, BoundAssumption
  <2>12. t \in Range(q) BY <2>2
  <2>13. p = ch.rec[t].par OBVIOUS
  <2> HIDE DEF order, bytes, new, rec, p
  <2>14. BooksAt(new, p)
    <3>1. Range(rest) = {u \in Tasks : rec[u].par = p} BY <2>1, <2>2, <2>3, <2>9, <2>11
    <3>2. \A u \in Range(rest) : rec[u] = ch.rec[u] BY <2>2, <2>3, <2>9
    <3>3. Texts(rec, Range(rest)) = Texts(ch.rec, Range(rest)) BY <3>2, TextsSame
    <3> QED BY <2>3, <2>9, <2>10, <3>1, <3>3 DEF BooksAt
  <2>15. ASSUME NEW r \in Parents \ {p} PROVE BooksAt(new, r)
    <3>1. /\ Once(ch.order[r]) /\ Range(ch.order[r]) = {u \in Tasks : ch.rec[u].par = r}
          /\ ch.bytes[r] = Texts(ch.rec, Range(ch.order[r]))
      BY DEF Books, BooksAt
    <3>2. \A u \in Range(ch.order[r]) : rec[u] = ch.rec[u] BY <2>9, <2>13, <3>1
    <3>3. Texts(rec, Range(ch.order[r])) = Texts(ch.rec, Range(ch.order[r]))
      BY <3>2, TextsSame
    <3>4. Range(order[r]) = {u \in Tasks : rec[u].par = r} BY <2>9, <2>11, <2>13, <3>1
    <3> QED BY <2>9, <2>10, <3>1, <3>3, <3>4 DEF BooksAt
  <2> QED BY <2>0, <2>8, <2>14, <2>15 DEF Books
<1> QED BY <1>1, <1>2

LEMMA DropBooks ==
  ASSUME NEW ch, Books(ch), NEW p \in Parents
  PROVE  Books(DropCompleted(ch, p))
<1> DEFINE q == ch.order[p]
           n == Len(q)
<1>1. /\ q \in Seq(Tasks) /\ n \in 0..Len(q) /\ ch.bytes \in [Parents -> Nat]
      /\ ch.bytes[p] = Texts(ch.rec, Range(q))
  BY DEF Books, BooksAt, Cache
<1>2. SubSeq(q, 1, n) = q /\ SubSeq(q, n + 1, Len(q)) = <<>> BY <1>1
<1>3. Books(Shortened(ch, p, n)) BY <1>1, ShortenedBooks
<1>4. ch.bytes[p] - Texts(ch.rec, Range(q)) = 0 BY <1>1
<1>5. Shortened(ch, p, n) = DropCompleted(ch, p)
  BY <1>2, <1>4 DEF Shortened, DropCompleted
<1> QED BY <1>3, <1>5

\* Finitely many tasks run: those a cancel drains have an order.
Live     == {t \in Tasks : running[t] # NoCall}
BooksInv == Books(cache) /\ IsFiniteSet(Live)

LEMMA BooksInit == ASSUME Init PROVE BooksInv
<1>1. Live = {} BY DEF Init, Live
<1>2. Books(cache)
  <2>1. cache \in Cache BY DEF Init, Cache, Recs, MaybeRec
  <2>2. ASSUME NEW p \in Parents PROVE BooksAt(cache, p)
    <3>1. cache.order[p] = <<>> /\ cache.bytes[p] = 0 /\ \A t \in Tasks : cache.rec[t] = NoRecord
      BY DEF Init
    <3>2. NoRecord.par # p BY BoundAssumption DEF NoRecord, Parents, BoundAssumption
    <3>3. Range(<<>>) = {} /\ Once(<<>>) BY DEF Range, Once
    <3>4. Texts(cache.rec, {}) = 0
      <4>1. {t \in {} : cache.rec[t].status = "done"} = {} OBVIOUS
      <4> QED BY <4>1, FS_EmptySet DEF Texts
    <3> QED BY <3>1, <3>2, <3>3, <3>4 DEF BooksAt
  <2> QED BY <2>1, <2>2 DEF Books
<1> QED BY <1>1, <1>2, FS_EmptySet DEF BooksInv

LEMMA LiveNext ==
  ASSUME RunInv, RunStep, IsFiniteSet(Live)
  PROVE  IsFiniteSet(Live')
<1>1. ASSUME Settled PROVE IsFiniteSet(Live')
  <2>1. Live' \in SUBSET Live BY <1>1 DEF Settled, Live
  <2> QED BY <2>1, FS_Subset
<1>2. ASSUME NEW c \in Calls, running' = [running EXCEPT ![call[c].task] = c]
      PROVE  IsFiniteSet(Live')
  <2>1. Live' \in SUBSET (Live \cup {call[c].task}) BY <1>2 DEF RunInv, Live
  <2>2. IsFiniteSet(Live \cup {call[c].task}) BY FS_AddElement
  <2> QED BY <2>1, <2>2, FS_Subset
<1> QED BY <1>1, <1>2 DEF RunStep, Started

\* The runs a cancel drains, in whatever order.
LEMMA DrainBooks ==
  ASSUME CallInv, RunInv, ClaimInv, BooksInv, NEW S \in SUBSET Calls, \A c \in S : Runs(c),
         DrainCanceled(S)
  PROVE  Books(cache')
<1>1. CASE S = {} BY <1>1 DEF DrainCanceled, BooksInv
<1>2. ASSUME NEW c \in S, NEW s \in SetToSeqs(S), cache' = InsertCanceled(s, call[c].par)
      PROVE  Books(cache')
  <2> DEFINE p == call[c].par
             n == Cardinality(S)
             line == [i \in DOMAIN s |-> call[s[i]].task]
             Rec(d) == [par |-> p, status |-> "canceled", run |-> d]
             rec == [t \in Tasks |-> IF running[t] \in Range(s) THEN Rec(running[t])
                                     ELSE cache.rec[t]]
             mid == [rec |-> rec, order |-> [cache.order EXCEPT ![p] = @ \o line],
                     bytes |-> [cache.bytes EXCEPT ![p] = @ + Texts(rec, Range(line))]]
  <2>1. p \in Parents BY DEF CallInv, Call
  <2>2. \A d \in S : /\ call[d].task \in Tasks /\ running[call[d].task] = d
                     /\ call[d].task \in Live
    BY RunsFacts, CallAssumption DEF CallAssumption, Live
  <2>3. IsFiniteSet(S)
    <3> DEFINE f == [d \in S |-> call[d].task]
    <3>1. f \in Injection(S, Live) BY <2>2 DEF Injection, IsInjective
    <3> QED BY <3>1, FS_Injection DEF BooksInv
  <2>4. n \in Nat BY <2>3, FS_CardinalityType
  <2>5. /\ s \in [1..n -> S] /\ \A i, j \in 1..n : s[i] = s[j] => i = j
    BY <1>2 DEF SetToSeqs
  <2>6. Range(s) \subseteq S BY <2>5 DEF Range
  <2> HIDE DEF n
  <2>7. line \in Seq(Tasks)
    <3>1. line \in [1..n -> Tasks] BY <2>2, <2>5
    <3> QED BY <2>4, <3>1
  <2>8. Once(line)
    <3> SUFFICES ASSUME NEW i \in 1..n, NEW j \in 1..n, line[i] = line[j] PROVE i = j
      BY <2>5 DEF Once
    <3>1. call[s[i]].task = call[s[j]].task BY <2>5
    <3>2. s[i] = s[j] BY <2>2, <2>5, <3>1
    <3> QED BY <2>5, <3>2
  <2>9. \A t \in Tasks : t \in Range(line) <=> running[t] \in Range(s)
    <3>1. ASSUME NEW i \in 1..n PROVE /\ s[i] \in S /\ line[i] = call[s[i]].task
                                      /\ running[line[i]] = s[i] /\ s[i] \in Range(s)
      BY <2>2, <2>5 DEF Range
    <3>2. \A t : t \in Range(line) => \E i \in 1..n : t = line[i] BY <2>5 DEF Range
    <3>3. \A d : d \in Range(s) => \E i \in 1..n : d = s[i] BY <2>5 DEF Range
    <3>4. \A i \in 1..n : line[i] \in Range(line) BY <2>5 DEF Range
    <3>5. ASSUME NEW t \in Tasks, NEW i \in 1..n, running[t] = s[i] PROVE t = line[i]
      <4>1. s[i] \in Calls /\ s[i] # NoCall
        BY <3>1, CallAssumption DEF CallAssumption
      <4>2. call[running[t]].task = t BY <3>5, <4>1 DEF RunInv
      <4> QED BY <3>1, <3>5, <4>2
    <3>6. ASSUME NEW t \in Tasks, t \in Range(line) PROVE running[t] \in Range(s)
      BY <3>1, <3>2, <3>6
    <3>7. ASSUME NEW t \in Tasks, running[t] \in Range(s) PROVE t \in Range(line)
      <4>1. PICK i \in 1..n : running[t] = s[i] BY <3>3, <3>7
      <4> QED BY <3>4, <3>5, <4>1
    <3> QED BY <3>6, <3>7
  <2>10. \A t \in Range(line) : /\ t \in Tasks /\ running[t] \in Range(s)
                                /\ cache.rec[t] = NoRecord
    <3>1. Range(line) \subseteq Tasks BY <2>2, <2>5 DEF Range
    <3>2. \A t \in Tasks : running[t] \in Range(s) => running[t] # NoCall
      BY <2>6, CallAssumption DEF CallAssumption
    <3> QED BY <2>9, <3>1, <3>2 DEF ClaimInv, NoStale
  <2>11. \A d \in S : Rec(d) \in MaybeRec BY <2>1 DEF MaybeRec, Record, Outcomes
  <2>12. rec \in Recs BY <2>6, <2>11 DEF Recs, RunInv
  <2>13. \A t \in Range(line) : rec[t].par = p /\ rec[t].status = "canceled" BY <2>10
  <2>14. \A t \in Tasks \ Range(line) : rec[t] = cache.rec[t] BY <2>9
  <2> HIDE DEF line, rec, p
  <2>15. Books(mid)
    BY <2>1, <2>7, <2>8, <2>10, <2>12, <2>13, <2>14, AppendBooks DEF BooksInv
  <2>16. Texts(rec, Range(line)) = 0
    <3>1. {t \in Range(line) : rec[t].status = "done"} = {} BY <2>13
    <3> QED BY <3>1, FS_EmptySet DEF Texts
  <2>17. [cache.bytes EXCEPT ![p] = @ + Texts(rec, Range(line))] = cache.bytes
    <3>1. cache.bytes \in [Parents -> Nat] BY DEF BooksInv, Books, Cache
    <3> QED BY <2>1, <2>16, <3>1
  <2>18. cache' = Evicted(mid, p) BY <1>2, <2>17 DEF InsertCanceled, line, rec, p
  <2> HIDE DEF mid
  <2> QED BY <2>1, <2>15, <2>18, EvictedBooks
<1> QED BY <1>1, <1>2 DEF DrainCanceled

LEMMA BooksNext ==
  ASSUME CallInv, ConnInv, RunInv, ClaimInv, BooksInv, RunStep, [Next]_vars
  PROVE  BooksInv'
<1>0. /\ Books(cache) /\ \A t \in Tasks : running[t] # NoCall => cache.rec[t] = NoRecord
      /\ \A c \in Calls : call[c].par \in Parents
  BY DEF BooksInv, ClaimInv, NoStale, CallInv, Call
<1>1. ASSUME UNCHANGED cache PROVE Books(cache')
  BY <1>0, <1>1
<1>2. ASSUME NEW c \in Calls, Park(c) PROVE Books(cache')
  <2> DEFINE t == call[c].task
  <2>1. t \in Tasks BY <1>2 DEF CallInv, Placed, Park, At
  <2>2. Books(Stale(c)) BY <1>0, <2>1, RemoveBooks DEF Stale
  <2>3. Stale(c).rec[t] = NoRecord
    <3>1. CASE Resumes(c)
      <4>1. RemoveCompleted(cache, t).rec[t] = NoRecord BY <2>1, RemoveRec DEF RunInv
      <4> QED BY <3>1, <4>1 DEF Stale
    <3>2. CASE ~Resumes(c) BY <1>2, <3>2, NewTask DEF Stale, Resumes, Park, At, Over
    <3> QED BY <3>1, <3>2
  <2>4. EarlyOutcome(c) \in Outcomes BY DEF CallInv, Call, Early, EarlyOutcome, End, Outcomes
  <2>5. Books(InsertCompleted(Stale(c), c, EarlyOutcome(c)))
    BY <1>0, <2>1, <2>2, <2>3, <2>4, InsertBooks
  <2> QED BY <1>2, <2>2, <2>5 DEF Park
<1>3. ASSUME NEW c \in Calls, SecondCheck(c) PROVE Books(cache')
  <2> DEFINE t == call[c].task
  <2>1. t \in Tasks BY <1>3 DEF CallInv, Placed, SecondCheck, At
  <2>2. CASE running[t] # NoCall /\ cache' = InsertCompleted(cache, c, "canceled")
    BY <1>0, <2>1, <2>2, InsertBooks DEF Outcomes
  <2> QED BY <1>0, <1>3, <2>2 DEF SecondCheck
<1>4. ASSUME NEW k \in Calls, CompleteCall(k) PROVE Books(cache')
  <2> DEFINE t == conn[k].task
             c == running[t]
  <2>1. t \in Tasks /\ worker[k].end \in Outcomes
    BY <1>4 DEF ConnInv, Used, CompleteCall, Outcomes
  <2>2. CASE c # NoCall /\ cache' = InsertCompleted(cache, c, worker[k].end)
    <3>1. c \in Calls /\ call[c].task = t BY <2>1, <2>2 DEF RunInv
    <3>2. cache.rec[t] = NoRecord BY <1>0, <2>1, <2>2
    <3> QED BY <1>0, <2>1, <2>2, <3>1, <3>2, InsertBooks
  <2> QED BY <1>0, <1>4, <2>2 DEF CompleteCall
<1>5. ASSUME NEW k \in Calls, ChildGone(k) PROVE Books(cache')
  <2> DEFINE R == {c \in Calls : Runs(c) /\ call[c].conn = k}
  <2>1. DrainCanceled(R) BY <1>5 DEF ChildGone
  <2>2. R \in SUBSET Calls /\ \A c \in R : Runs(c) OBVIOUS
  <2> HIDE DEF R
  <2> QED BY <2>1, <2>2, DrainBooks
<1>6. ASSUME NEW c \in Calls, CancelHandle(c) PROVE Books(cache')
  <2>1. CASE Runs(c) BY <1>6, <2>1, DrainBooks DEF CancelHandle
  <2> QED BY <1>0, <1>6, <2>1 DEF CancelHandle
<1>7. ASSUME NEW p \in Parents, NEW t \in Tasks, CancelTask(p, t) PROVE Books(cache')
  <2>1. running[t] \in Calls /\ call[running[t]].task = t BY <1>7 DEF CancelTask, RunInv
  <2>2. Runs(running[t]) BY <2>1, CallAssumption DEF CallAssumption, Runs
  <2> QED BY <1>7, <2>1, <2>2, DrainBooks DEF CancelTask
<1>8. ASSUME NEW p \in Parents, CancelByParentTurn(p) PROVE Books(cache')
  <2>1. RunsOf(p) \in SUBSET Calls /\ \A c \in RunsOf(p) : Runs(c) BY DEF RunsOf
  <2> QED BY <1>8, <2>1, DrainBooks DEF CancelByParentTurn
<1>9. ASSUME NEW p \in Parents, CancelByParent(p) PROVE Books(cache')
  BY <1>0, <1>9, DropBooks DEF CancelByParent
<1>10. Books(cache')
  BY <1>1, <1>2, <1>3, <1>4, <1>5, <1>6, <1>7, <1>8, <1>9, ZenonT(60)
  DEF Next, vars, pending, child, past, Setup, Settlement, Worker, ParentEnds,
      BufferHandle, WorkerReads, ChildDies, TurnEnds, Connect, CloseParent,
      ParentDies, Revoke, Leave, Dispatch, Enter, MemGate, RowGate, NoSpawn, Spawn,
      Send, SendError, Release, Tell, Disconnect
<1> QED BY <1>10, LiveNext DEF BooksInv

----------------------------------------------------------------------------
(* The rest of the state *)

Rows    == {"none", "in_progress", "pending_review", "cancelled"}
Handles == {"none", "missed", "buffered", "spent"}
Cards   == [open: SUBSET Calls, closed: SUBSET Calls]
RestInv ==
  /\ handle \in [Calls -> Handles] /\ convRow \in [Tasks -> Rows] /\ shown \in Cards
  /\ resuming \in SUBSET Tasks /\ misled \in SUBSET Calls /\ losses \in 0..MaxLosses

LEMMA RestInit == ASSUME BoundAssumption, Init PROVE RestInv
BY DEF BoundAssumption, Init, RestInv, Handles, Rows, Cards

LEMMA HandleNext ==
  ASSUME handle \in [Calls -> Handles], [Next]_vars
  PROVE  handle' \in [Calls -> Handles]
<1>1. ASSUME NEW c \in Calls, Enter(c) \/ SecondCheck(c) \/ CancelHandle(c) \/ BufferHandle(c)
      PROVE  handle' \in [Calls -> Handles]
  BY <1>1 DEF Enter, SecondCheck, CancelHandle, BufferHandle, Handles
<1>2. CASE UNCHANGED handle BY <1>2
<1> QED BY <1>1, <1>2, ZenonT(60)
    DEF Next, vars, Setup, Settlement, Worker, ParentEnds, WorkerReads, ChildDies, TurnEnds,
        Connect, CloseParent, CompleteCall, ChildGone, ParentDies, Revoke, Leave, Dispatch,
        MemGate, RowGate, NoSpawn, Spawn, CancelTask, Send, SendError, Park, Release, Tell,
        Disconnect, CancelByParentTurn, CancelByParent

LEMMA RowNext ==
  ASSUME convRow \in [Tasks -> Rows], [Next]_vars
  PROVE  convRow' \in [Tasks -> Rows]
<1>1. ASSUME NEW c \in Calls, Send(c) PROVE convRow' \in [Tasks -> Rows]
  BY <1>1 DEF Send, Rows
<1>2. ASSUME NEW c \in Calls, Tell(c) PROVE convRow' \in [Tasks -> Rows]
  BY <1>2 DEF Tell, Rows
<1>3. ASSUME NEW k \in Calls, WorkerReads(k) PROVE convRow' \in [Tasks -> Rows]
  BY <1>3 DEF WorkerReads, Rows
<1>4. ASSUME NEW k \in Calls, ChildGone(k) PROVE convRow' \in [Tasks -> Rows]
  BY <1>4 DEF ChildGone, Rows
<1>5. CASE UNCHANGED convRow BY <1>5
<1> QED BY <1>1, <1>2, <1>3, <1>4, <1>5, ZenonT(60)
    DEF Next, vars, child, Setup, Settlement, Worker, ParentEnds, ChildDies, TurnEnds,
        Connect, CloseParent, CompleteCall, ParentDies, Revoke, Leave, Dispatch, Enter,
        SecondCheck, CancelHandle, BufferHandle, MemGate, RowGate, NoSpawn, Spawn,
        CancelTask, SendError, Park, Release, Disconnect, CancelByParentTurn, CancelByParent

LEMMA CardNext ==
  ASSUME shown \in Cards, [Next]_vars
  PROVE  shown' \in Cards
<1>1. ASSUME NEW c \in Calls, Send(c) \/ Tell(c) PROVE shown' \in Cards
  BY <1>1 DEF Send, Tell, Cards
<1>2. CASE UNCHANGED shown BY <1>2
<1> QED BY <1>1, <1>2, ZenonT(60)
    DEF Next, vars, past, Setup, Settlement, Worker, ParentEnds, ChildDies, TurnEnds,
        Connect, CloseParent, CompleteCall, ParentDies, Revoke, Leave, Dispatch, Enter,
        SecondCheck, CancelHandle, BufferHandle, MemGate, RowGate, NoSpawn, Spawn,
        CancelTask, SendError, Park, Release, Disconnect, CancelByParentTurn, CancelByParent,
        WorkerReads, ChildGone

LEMMA MisledNext ==
  ASSUME RunInv, ConnInv, misled \in SUBSET Calls, [Next]_vars
  PROVE  misled' \in SUBSET Calls
<1>1. ASSUME NEW k \in Calls, CompleteCall(k) PROVE misled' \in SUBSET Calls
  <2>1. conn[k].task \in Tasks BY <1>1 DEF ConnInv, Used, CompleteCall, Outcomes
  <2>2. running[conn[k].task] # NoCall => running[conn[k].task] \in Calls
    BY <2>1 DEF RunInv
  <2>3. ReservedFor(conn[k].task) \in SUBSET Calls BY DEF ReservedFor
  <2> QED BY <1>1, <2>2, <2>3 DEF CompleteCall
<1>2. CASE UNCHANGED misled BY <1>2
<1> QED BY <1>1, <1>2, ZenonT(60)
    DEF Next, vars, past, Setup, Settlement, Worker, ParentEnds, ChildDies, TurnEnds,
        Connect, CloseParent, ParentDies, Revoke, Leave, Dispatch, Enter,
        SecondCheck, CancelHandle, BufferHandle, MemGate, RowGate, NoSpawn, Spawn, Send, Tell,
        CancelTask, SendError, Park, Release, Disconnect, CancelByParentTurn, CancelByParent,
        WorkerReads, ChildGone

LEMMA LossNext ==
  ASSUME BoundAssumption, losses \in 0..MaxLosses, [Next]_vars
  PROVE  losses' \in 0..MaxLosses
<1>1. CASE losses < MaxLosses /\ losses' = losses + 1 BY <1>1 DEF BoundAssumption
<1>2. CASE UNCHANGED losses BY <1>2
<1> QED BY <1>1, <1>2, ZenonT(60)
    DEF Next, vars, Setup, Settlement, Worker, ParentEnds, ChildDies, TurnEnds,
        Connect, CloseParent, CompleteCall, ParentDies, Revoke, Leave, Dispatch, Enter,
        SecondCheck, CancelHandle, BufferHandle, MemGate, RowGate, NoSpawn, Spawn, Send, Tell,
        CancelTask, SendError, Park, Release, Disconnect, CancelByParentTurn, CancelByParent,
        WorkerReads, ChildGone

LEMMA RestNext ==
  ASSUME BoundAssumption, CallInv, ConnInv, RunInv, RestInv, CallStep, [Next]_vars
  PROVE  RestInv'
<1>1. resuming' \in SUBSET Tasks
  <2>1. ASSUME NEW c \in Calls, Claimed(c) PROVE resuming' \in SUBSET Tasks
    <3>1. call[c].task \in Tasks BY <2>1 DEF Claimed, Goes, At, CallInv, Placed
    <3> QED BY <2>1, <3>1 DEF Claimed, RestInv
  <2>2. ASSUME NEW c \in Calls, Released(c) PROVE resuming' \in SUBSET Tasks
    BY <2>2 DEF Released, RestInv
  <2>3. CASE resuming' = resuming BY <2>3 DEF RestInv
  <2> QED BY <2>1, <2>2, <2>3, ZenonT(60) DEF CallStep, MovesAlone
<1> QED BY <1>1, HandleNext, RowNext, CardNext, MisledNext, LossNext DEF RestInv

LEMMA TypesAre ==
  ASSUME CallInv, ConnInv, RunInv, SweepInv, BooksInv, RestInv
  PROVE  TypeOK
<1>1. events \in [Calls -> Seq([stop: Stops \cup {"gone"}, run: Calls \cup {NoCall}])]
  BY DEF ConnInv, Event
<1>2. worker \in [Calls -> [end: Outcomes \cup {"idle"}, run: Calls \cup {NoCall}]]
  BY DEF ConnInv, Ended
<1>3. cache \in [rec: [Tasks -> Record \cup {NoRecord}],
                 order: [Parents -> Seq(Tasks)], bytes: [Parents -> Nat]]
  BY DEF BooksInv, Books, Cache, Recs, MaybeRec
<1>4. parent \in [Parents -> [phase: {"absent", "up", "revoked", "swept"}, mapped: BOOLEAN]]
  BY DEF SweepInv, ParentType, ParentRow
<1> QED BY <1>1, <1>2, <1>3, <1>4
    DEF TypeOK, CallInv, ConnInv, RunInv, RestInv, Handles, Rows, Cards

LEMMA Balances ==
  ASSUME ClaimInv, BooksInv
  PROVE  BooksBalance
<1>1. ASSUME NEW p \in Parents
      PROVE  LET q == cache.order[p]
             IN /\ Range(q) = {t \in Tasks : cache.rec[t].par = p}
                /\ Len(q) = Cardinality(Range(q))
                /\ cache.bytes[p] = Texts(cache.rec, Range(q))
  <2>1. cache.order[p] \in Seq(Tasks) BY DEF BooksInv, Books, Cache
  <2>2. BooksAt(cache, p) BY DEF BooksInv, Books
  <2> QED BY <2>1, <2>2, LineIsFinite DEF BooksAt
<1> QED BY <1>1 DEF BooksBalance, ClaimInv, NoStale
----------------------------------------------------------------------------
(* The theorems *)

\* The parts lean on each other: who owns a run is told by the claims, the end it
\* got by where its turn is, and a child by the run or the settlement it has.
Inv == /\ CallInv /\ ConnInv /\ RunInv /\ ClaimInv /\ SweepInv /\ OrphanInv
       /\ LineInv /\ EndInv /\ BooksInv /\ RestInv

LEMMA InvInit == Init => Inv
BY CallInit, ConnInit, RunInit, ClaimInit, SweepInit, OrphanInit, LineInit, EndInit,
   BooksInit, RestInit, CallAssumption, BoundAssumption
   DEF Inv

LEMMA InvNext == Inv /\ [Next]_vars => Inv'
<1> SUFFICES ASSUME Inv, [Next]_vars PROVE Inv'
  OBVIOUS
<1> USE DEF Inv
<1>1. CallInv'
  BY CallNext, CallAssumption, StopAssumption, BoundAssumption
<1>2. ConnInv' BY ConnNext, CallAssumption, StopAssumption
<1>3. CallStep BY CallSteps
<1>4. RunStep BY <1>3, RunSteps
<1>5. RunInv' BY <1>3, <1>4, RunNext
<1>6. ClaimInv' BY <1>3, <1>4, ClaimNext
<1>7. SweepInv' BY <1>1, <1>3, <1>4, SweepNext
<1>8. OrphanInv' BY <1>3, <1>4, OrphanNext
<1>9. LineInv' BY <1>3, LineNext
<1>10. VerdictStep BY <1>1, <1>3, <1>4, VerdictNext
<1>11. EndInv' BY <1>1, <1>3, <1>4, <1>10, EndNext
<1>12. BooksInv' BY <1>4, BooksNext
<1>13. RestInv' BY <1>3, RestNext, BoundAssumption
<1> QED BY <1>1, <1>2, <1>5, <1>6, <1>7, <1>8, <1>9, <1>11, <1>12, <1>13

LEMMA InvHolds == Spec => []Inv
<1>1. Init => Inv BY InvInit
<1>2. Inv /\ [Next]_vars => Inv' BY InvNext
<1> QED BY <1>1, <1>2, PTL DEF Spec

\* The whole state is of its types: no step of the broker, of a worker or of a
\* connection leaves a record, a queue or a row that the others could not read.
THEOREM BrokerTypes == Spec => []TypeOK
<1>1. Inv => TypeOK BY TypesAre DEF Inv
<1> QED BY <1>1, InvHolds, PTL

\* insert_completed, evict_completed_over_cap, remove_completed and
\* drop_completed_for_parent keep the three maps of the completed-cache in step:
\* each parent's line lists each of its results once, its bytes are the texts it
\* retains, and a task that runs has no old result.
THEOREM BooksAgree == Spec => []BooksBalance
<1>1. Inv => BooksBalance BY Balances DEF Inv
<1> QED BY <1>1, InvHolds, PTL

\* start_delegation and resume_delegation never put two runs of one task under way,
\* between the gate of a resumption and the end of the run.
THEOREM RunsAlone == Spec => []OneRunPerTask
<1>1. Inv => OneRunPerTask
  <2> SUFFICES ASSUME Inv, NEW c \in Calls, NEW d \in Calls, c # d,
                      call[c].task = call[d].task, Under(c), Under(d)
               PROVE  FALSE
    BY DEF OneRunPerTask
  <2> USE DEF Inv
  <2>1. \A e \in Calls : Runs(e) => running[call[e].task] = e /\ call[e].task # NoCall
    BY DEF Runs
  <2>2. \A e \in Calls : Under(e) /\ ~Runs(e) => Busy(e) /\ running[call[e].task] = NoCall
    BY DEF Under, Busy, Waits, ClaimInv, WaitsAlone
  <2>3. CASE Runs(c) /\ Runs(d) BY <2>1, <2>3
  <2>4. CASE ~Runs(c) /\ ~Runs(d) BY <2>2, <2>4, BusyAlone
  <2>5. CASE Runs(c) /\ ~Runs(d)
    BY <2>1, <2>2, <2>5, CallAssumption DEF CallAssumption
  <2>6. CASE ~Runs(c) /\ Runs(d)
    BY <2>1, <2>2, <2>6, CallAssumption DEF CallAssumption
  <2> QED BY <2>3, <2>4, <2>5, <2>6
<1> QED BY <1>1, InvHolds, PTL

\* After cancel_by_parent no task of that connection runs, but those whose call
\* passed register_inflight behind the sweep.
THEOREM ChildrenGo == Spec => []ChildrenGoWithParent
<1>1. Inv => ChildrenGoWithParent
  BY DEF Inv, SweepInv, Swept, ChildrenGoWithParent
<1> QED BY <1>1, InvHolds, PTL

\* Every child in the manager's map is answered for by a set-up, a run or a
\* settlement, whoever cancels, dies or resumes in between.
THEOREM ChildrenAnswered == Spec => []NoOrphanChild
<1>1. Inv => NoOrphanChild
  BY DEF Inv, OrphanInv, InSetup, Settling, NoOrphanChild, Answers
<1> QED BY <1>1, InvHolds, PTL

\* What the completed-cache tells of a run is the first end of it that reached the
\* broker, before its park (arrival stamps) or after it (one removal from running).
THEOREM FirstEnd == Spec => []FirstEndWins
<1>1. Inv => FirstEndWins BY DEF Inv, EndInv
<1> QED BY <1>1, InvHolds, PTL
==============================================================================
