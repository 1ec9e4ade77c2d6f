--------------------------- MODULE AutomationEngine ---------------------------
(***************************************************************************)
(* The automation engine: a saved prompt is fired by its schedule or by    *)
(* hand.  A fire writes a run row, launches an agent with a conversation   *)
(* of its own, and leaves; the run is settled later, by whoever comes      *)
(* first:                                                                  *)
(*                                                                         *)
(*  - the engine's loop, when the turn of the run's connection completes;  *)
(*  - the loop's reconcile, from the status the connection's lifecycle     *)
(*    worker left on the conversation, or because the agent is gone, or    *)
(*    because the run is long overdue;                                     *)
(*  - cancel_run, which settles first and tears down afterwards;           *)
(*  - the launch, when it fails; the boot, after a crash.                  *)
(*                                                                         *)
(* One automation.  A run is named by its fire, and so are the connection  *)
(* and the conversation the fire makes.  Time is counted in the instants   *)
(* of the automation's cron expression.                                    *)
(***************************************************************************)
EXTENDS Naturals, FiniteSets, Sequences

CONSTANTS
  MaxRuns,    \* model bound: fires
  ByHand,     \* model bound: those of them that may be by hand
  MaxTime,    \* model bound: instants of the schedule
  MaxLaunches,\* model bound: fires that start a run
  MaxEdits,   \* model bound: edits of the automation
  MaxFaults   \* model bound: things that come in between: restarts, agents that
              \* die, completions the bus drops, writes that fail, what the user
              \* does to a conversation or by a deletion

ASSUME BoundAssumption ==
  /\ MaxRuns \in Nat /\ ByHand \in SUBSET (1..MaxRuns) /\ MaxTime \in Nat /\ MaxLaunches \in Nat
  /\ MaxEdits \in Nat /\ MaxFaults \in Nat

VARIABLES
  auto,    \* the automation's row
  now,     \* the schedule's instants that have passed
  edit,    \* per edit of the automation, what it is about to write
  run,     \* automation_run: the status, and whether a conversation is attached
  fire,    \* per run, its fire: where it is; the instant of the schedule it is for,
           \* and when it was claimed
  lock,    \* who holds the automation's fire_lock
  index,   \* the engine's connection_id -> run
  conn,    \* the runs' connections in the manager
  conv,    \* the status of the runs' conversations
  bus,     \* per connection, the completion the loop has not taken up
  worker,  \* per connection, what its lifecycle worker has not taken up
  cancel,  \* per run, where its cancel_run is
  loop,    \* where the engine's loop is
  past     \* history: runs whose work was done, conversations the user marked as
           \* finished, those a restart or the user left in progress, failures
           \* the user saw, faults so far

schedule == <<now, edit>>
parties == <<index, conn, conv, bus, worker>>
vars == <<auto, schedule, run, fire, lock, parties, cancel, loop, past>>

----------------------------------------------------------------------------
(* Types *)

Runs  == 1..MaxRuns
Edits == 1..MaxEdits
NoRun == 0

Stops    == {"end_turn", "refusal", "cancelled"}
Settled  == {"succeeded", "failed", "cancelled"}
Statuses == Settled \cup {"none", "running", "skipped"}
Finished == {"pending_review", "completed"}
ConvStatuses == {"none", "in_progress", "cancelled"} \cup Finished

FirePcs == {"idle", "waiting", "launching", "queued", "gated", "spawned",
            "indexed", "attached", "prompting", "failing", "done", "overdue"}
EditPcs == {"idle", "ready", "back", "over"}
CancelPcs == {"none", "waiting", "ask", "cut", "done"}
LoopPcs == {"idle", "cut", "listed", "owned", "reading", "deciding"}

Free == <<"free">>
Holders == {Free} \cup ({"fire", "cancel"} \X Runs)

NoConn == [state |-> "none", linked |-> FALSE, turn |-> FALSE, asked |-> FALSE]
Idle   == [pc |-> "idle", run |-> NoRun, conv |-> "none", owned |-> FALSE,
           hopeless |-> FALSE]

TypeOK ==
  /\ auto \in [enabled: BOOLEAN, deleted: BOOLEAN, next: 0..(MaxTime + 1),
               unseen: 0..Cardinality(Runs)]
  /\ now \in 0..MaxTime
  /\ edit \in [Edits -> [pc: EditPcs, on: BOOLEAN, next: 0..(MaxTime + 1)]]
  /\ run \in [Runs -> [status: Statuses, conv: BOOLEAN]]
  /\ fire \in [Runs -> [pc: FirePcs, slot: 0..MaxTime, at: 0..MaxTime]]
  /\ lock \in Holders
  /\ index \in SUBSET Runs
  /\ conn \in [Runs -> [state: {"none", "up", "gone"}, linked: BOOLEAN, turn: BOOLEAN,
                        asked: BOOLEAN]]
  /\ conv \in [Runs -> ConvStatuses]
  /\ bus \in [Runs -> Stops \cup {"none"}]
  /\ worker \in [Runs -> Seq(Stops \cup {"gone"})]
  /\ cancel \in [Runs -> CancelPcs]
  /\ loop \in [pc: LoopPcs, run: Runs \cup {NoRun}, conv: ConvStatuses, owned: BOOLEAN,
              hopeless: BOOLEAN]
  /\ past \in [earned: SUBSET Runs, vouched: SUBSET Runs, left: SUBSET Runs,
               seen: SUBSET Runs, faults: 0..MaxFaults]

Init ==
  /\ auto = [enabled |-> TRUE, deleted |-> FALSE, next |-> 1, unseen |-> 0]
  /\ now = 0
  /\ edit = [e \in Edits |-> [pc |-> "idle", on |-> FALSE, next |-> 0]]
  /\ run = [r \in Runs |-> [status |-> "none", conv |-> FALSE]]
  /\ fire = [r \in Runs |-> [pc |-> "idle", slot |-> 0, at |-> 0]]
  /\ lock = Free
  /\ index = {}
  /\ conn = [r \in Runs |-> NoConn]
  /\ conv = [r \in Runs |-> "none"]
  /\ bus = [r \in Runs |-> "none"]
  /\ worker = [r \in Runs |-> <<>>]
  /\ cancel = [r \in Runs |-> "none"]
  /\ loop = Idle
  /\ past = [earned |-> {}, vouched |-> {}, left |-> {}, seen |-> {}, faults |-> 0]

----------------------------------------------------------------------------
(* Building blocks *)

Running(r) == run[r].status = "running"
Active == {r \in Runs : Running(r)}
Up(r) == conn[r].state = "up"
At(r, pc) == fire[r].pc = pc
Go(r, pc) == fire' = [fire EXCEPT ![r].pc = pc]

\* settle_run: the run, if it is running still, and the automation's row, in
\* one transaction.
SettleAnyhow(r, status) ==
  /\ run' = [run EXCEPT ![r].status = status]
  /\ auto' = [auto EXCEPT !.unseen = @ + IF status = "failed" THEN 1 ELSE 0]
SettleRun(r, status) ==
  IF Running(r)
  THEN /\ run' = [run EXCEPT ![r].status = status]
       /\ auto' = [auto EXCEPT !.unseen = @ + IF status = "failed" THEN 1 ELSE 0]
  ELSE UNCHANGED <<run, auto>>

\* What goes wrong; a write that fails is known to its caller only.
Fault == past.faults < MaxFaults /\ past' = [past EXCEPT !.faults = @ + 1]
Settle(r, status) ==
  \/ SettleRun(r, status) /\ UNCHANGED past
  \/ Running(r) /\ Fault /\ UNCHANGED <<run, auto>>

\* A connection without a turn: up, or out of the manager's map.
Quiet(r, state) == [state |-> state, linked |-> conn[r].linked, turn |-> FALSE, asked |-> FALSE]

\* ConnectionManager::disconnect: out of the map, the worker hears of it later.
Disconnect(r) ==
  IF Up(r)
  THEN /\ conn' = [conn EXCEPT ![r] = Quiet(r, "gone")]
       /\ worker' = [worker EXCEPT ![r] = Append(@, "gone")]
  ELSE UNCHANGED <<conn, worker>>

\* Fires are numbered as they come.
Fresh(r) == At(r, "idle") /\ \A s \in 1..(r - 1) : ~At(s, "idle")
Launched(r) == fire[r].pc \in {"done", "overdue"}

\* compute_next_run, strictly after its argument.
NextButOne(t) == t + 2
NextAfter(t) == t + 1

\* The claim goes on from the present.  A mutant replays what was missed.
CatchUpEach == NextAfter(auto.next)
CatchUp == NextAfter(now)

----------------------------------------------------------------------------
(* Firing *)

\* The tick of the schedule: list_due, then claim_due, which reads the row again.
Claim(r) ==
  /\ loop.pc = "idle" /\ Fresh(r)
  /\ auto.enabled /\ ~auto.deleted /\ auto.next # 0 /\ auto.next <= now
  /\ auto' = [auto EXCEPT !.next = CatchUp]
  /\ fire' = [fire EXCEPT ![r] = [pc |-> "waiting", slot |-> auto.next, at |-> now]]
  /\ UNCHANGED <<schedule, run, lock, parties, cancel, loop, past>>

\* Run now.
Click(r) ==
  /\ r \in ByHand /\ Fresh(r) /\ ~auto.deleted
  /\ Go(r, "waiting")
  /\ UNCHANGED <<auto, schedule, run, lock, parties, cancel, loop, past>>

\* Under the fire_lock: the overlap guard, then the run row.  When start_run fails
\* after it wrote the row, the fire gives up and leaves the row to reconcile.
Started == {r \in Runs : run[r].status \in Settled \cup {"running"}}
Overlap == Active # {}
Begin(r) ==
  /\ At(r, "waiting") /\ lock = Free
  /\ \/ auto.deleted /\ Go(r, "done") /\ UNCHANGED <<run, lock, past>>
     \/ /\ ~auto.deleted /\ Overlap
        /\ run' = [run EXCEPT ![r].status = "skipped"]
        /\ Go(r, "done") /\ UNCHANGED <<lock, past>>
     \/ /\ ~auto.deleted /\ ~Overlap /\ Cardinality(Started) < MaxLaunches
        /\ run' = [run EXCEPT ![r].status = "running"]
        /\ \/ Go(r, "launching") /\ lock' = <<"fire", r>> /\ UNCHANGED past
           \/ Fault /\ Go(r, "done") /\ UNCHANGED lock
  /\ UNCHANGED <<auto, schedule, parties, cancel, loop>>

\* An automation that files a work task: the task, then the settlement.
FileTask(r) ==
  /\ At(r, "launching")
  /\ past' = [past EXCEPT !.earned = @ \cup {r}]
  /\ Go(r, "queued")
  /\ UNCHANGED <<auto, schedule, run, lock, parties, cancel, loop>>

SettleTask(r) ==
  /\ At(r, "queued")
  /\ \/ /\ SettleRun(r, "succeeded") /\ Go(r, "done") /\ lock' = Free /\ UNCHANGED past
     \/ /\ Running(r) /\ Fault /\ Go(r, "failing") /\ UNCHANGED <<run, auto, lock>>
  /\ UNCHANGED <<schedule, parties, cancel, loop>>

\* The configuration, the working tree, the environment, the agent's program or
\* the spawn refuse.
LaunchFails(r) ==
  /\ fire[r].pc \in {"launching", "gated"}
  /\ Go(r, "failing")
  /\ UNCHANGED <<auto, schedule, run, lock, parties, cancel, loop, past>>

\* run_no_longer_running, before the agent is spawned and before it is prompted.
NoLongerRunning(r) == ~Running(r)

Gate(r) ==
  /\ At(r, "launching")
  /\ IF NoLongerRunning(r) THEN Go(r, "done") /\ lock' = Free
     ELSE Go(r, "gated") /\ UNCHANGED lock
  /\ UNCHANGED <<auto, schedule, run, parties, cancel, loop, past>>

Spawn(r) ==
  /\ At(r, "gated")
  /\ conn' = [conn EXCEPT ![r].state = "up"]
  /\ Go(r, "spawned")
  /\ UNCHANGED <<auto, schedule, run, lock, index, conv, bus, worker, cancel, loop, past>>

\* The conversation, then the index: before the prompt, so that a fast completion
\* finds it there.
CreateConversation(r) ==
  /\ At(r, "spawned")
  /\ \/ /\ conv' = [conv EXCEPT ![r] = "in_progress"]
        /\ index' = index \cup {r}
        /\ Go(r, "indexed") /\ UNCHANGED <<conn, worker, past>>
     \/ Fault /\ Disconnect(r) /\ Go(r, "failing") /\ UNCHANGED <<index, conv>>
  /\ UNCHANGED <<auto, schedule, run, lock, bus, cancel, loop>>

Attach(r) ==
  /\ At(r, "indexed")
  /\ \/ run' = [run EXCEPT ![r].conv = TRUE] /\ UNCHANGED past
     \/ Fault /\ UNCHANGED run
  /\ Go(r, "attached")
  /\ UNCHANGED <<auto, schedule, lock, parties, cancel, loop>>

\* Out of the index, disconnected, and the conversation canceled.
AbandonConnection(r) == index' = index \ {r} /\ Disconnect(r) /\ UNCHANGED conv
Abandon(r) ==
  /\ index' = index \ {r}
  /\ Disconnect(r)
  /\ conv' = [conv EXCEPT ![r] = "cancelled"]

LastGate(r) ==
  /\ At(r, "attached")
  /\ IF NoLongerRunning(r) THEN Abandon(r) /\ Go(r, "done") /\ lock' = Free
     ELSE Go(r, "prompting") /\ UNCHANGED <<index, conn, conv, worker, lock>>
  /\ UNCHANGED <<auto, schedule, run, bus, cancel, loop, past>>

\* send_prompt_linked: the conversation is linked and in progress; or the prompt is
\* refused, by a connection that is gone or by one that is not.
Prompt(r) ==
  /\ At(r, "prompting")
  /\ \/ /\ Up(r)
        /\ conn' = [conn EXCEPT ![r] = [state |-> "up", linked |-> TRUE,
                                          turn |-> TRUE, asked |-> FALSE]]
        /\ conv' = [conv EXCEPT ![r] = "in_progress"]
        /\ Go(r, "done") /\ lock' = Free /\ UNCHANGED <<index, worker, past>>
     \/ /\ IF Up(r) THEN Fault ELSE UNCHANGED past
        /\ Abandon(r) /\ Go(r, "failing") /\ UNCHANGED lock
  /\ UNCHANGED <<auto, schedule, run, bus, cancel, loop>>

\* run_automation settles a launch that failed.
FailRun(r) ==
  /\ At(r, "failing")
  /\ Settle(r, "failed")
  /\ Go(r, "done") /\ lock' = Free
  /\ UNCHANGED <<schedule, parties, cancel, loop>>

----------------------------------------------------------------------------
(* The agent, its connection and its lifecycle worker *)

TurnEnds(r, stop) ==
  /\ Up(r) /\ conn[r].turn
  /\ stop = "cancelled" => conn[r].asked
  /\ conn' = [conn EXCEPT ![r] = Quiet(r, "up")]
  /\ bus' = [bus EXCEPT ![r] = stop]
  /\ worker' = [worker EXCEPT ![r] = Append(@, stop)]
  /\ past' = [past EXCEPT !.earned = IF stop = "end_turn" THEN @ \cup {r} ELSE @]
  /\ UNCHANGED <<auto, schedule, run, fire, lock, index, conv, cancel, loop>>

AgentDies(r) ==
  /\ Up(r) /\ Fault /\ Disconnect(r)
  /\ UNCHANGED <<auto, schedule, run, fire, lock, index, conv, bus, cancel, loop>>

\* The bus lags: the loop never sees the completion.
Lag(r) ==
  /\ bus[r] # "none" /\ Fault
  /\ bus' = [bus EXCEPT ![r] = "none"]
  /\ UNCHANGED <<auto, schedule, run, fire, lock, index, conn, conv, worker, cancel, loop>>

\* sweep_idle: a connection without a turn is left alone for too long.
SweepIdle(r) ==
  /\ Up(r) /\ ~conn[r].turn /\ Launched(r)
  /\ Disconnect(r)
  /\ UNCHANGED <<auto, schedule, run, fire, lock, index, conv, bus, cancel, loop, past>>

\* ConnectionManager::cancel: the agent is asked, a linked conversation that is
\* in progress is canceled.
AskToStop(r) ==
  /\ conn' = [conn EXCEPT ![r].asked = conn[r].turn]
  /\ conv' = [conv EXCEPT ![r] = IF conn[r].linked /\ @ = "in_progress" THEN "cancelled" ELSE @]

\* The stop button of the conversation's tab.
UserStops(r) ==
  /\ Up(r) /\ conn[r].turn /\ ~conn[r].asked
  /\ AskToStop(r)
  /\ UNCHANGED <<auto, schedule, run, fire, lock, index, bus, worker, cancel, loop, past>>

Heard(r, stops) == worker[r] # <<>> /\ Head(worker[r]) \in stops

\* The end of a turn counts while the connection is in the map.
WorkerTurn(r) ==
  /\ Heard(r, Stops)
  /\ worker' = [worker EXCEPT ![r] = Tail(@)]
  /\ conv' = [conv EXCEPT ![r] = CASE ~Up(r) -> @
                                   [] Head(worker[r]) = "end_turn" -> "pending_review"
                                   [] Head(worker[r]) = "refusal" -> "cancelled"
                                   [] OTHER -> @]
  /\ UNCHANGED <<auto, schedule, run, fire, lock, index, conn, bus, cancel, loop, past>>

WorkerGone(r) ==
  /\ Heard(r, {"gone"})
  /\ worker' = [worker EXCEPT ![r] = Tail(@)]
  /\ conv' = [conv EXCEPT ![r] = IF conn[r].linked /\ @ = "in_progress" THEN "cancelled" ELSE @]
  /\ UNCHANGED <<auto, schedule, run, fire, lock, index, conn, bus, cancel, loop, past>>

----------------------------------------------------------------------------
(* The engine's loop *)

\* classify_stop_reason.
Outcome(stop) == CASE stop = "end_turn" -> "succeeded" [] stop = "cancelled" -> "cancelled"
                   [] OTHER -> "failed"

\* A completion: on_event, up to the settlement.
OnEvent(r) ==
  /\ loop.pc = "idle" /\ bus[r] # "none"
  /\ bus' = [bus EXCEPT ![r] = "none"]
  /\ IF r \in index
     THEN Settle(r, Outcome(bus[r])) /\ loop' = [loop EXCEPT !.pc = "cut", !.run = r]
     ELSE UNCHANGED <<run, auto, past, loop>>
  /\ UNCHANGED <<schedule, fire, lock, index, conn, conv, worker, cancel>>

\* One prompt, one turn, then disconnect.
Cut ==
  /\ loop.pc = "cut"
  /\ index' = index \ {loop.run}
  /\ Disconnect(loop.run)
  /\ loop' = Idle
  /\ UNCHANGED <<auto, schedule, run, fire, lock, conv, bus, cancel, past>>

\* reconcile_once reads the active run, with its conversation if it has one...
List(r) ==
  /\ loop.pc = "idle" /\ Running(r)
  /\ loop' = [Idle EXCEPT !.pc = "listed", !.run = r,
                          !.conv = IF run[r].conv THEN "in_progress" ELSE "none"]
  /\ UNCHANGED <<auto, schedule, run, fire, lock, parties, cancel, past>>

\* ... then the index and the clock...
SortOut ==
  /\ loop.pc = "listed"
  /\ LET owned == loop.run \in index
     IN loop' = [loop EXCEPT !.pc = IF owned THEN "owned" ELSE "reading", !.owned = owned,
                             !.hopeless = owned \/ At(loop.run, "overdue")]
  /\ UNCHANGED <<auto, schedule, run, fire, lock, parties, cancel, past>>

\* ... then the manager: a run it owns is left to on_event while its connection
\* lives...
LivesAlways(r) == TRUE
LivesNever(r) == FALSE
Lives(r) == Up(r)
LookUp ==
  /\ loop.pc = "owned"
  /\ loop' = IF Lives(loop.run) THEN Idle ELSE [loop EXCEPT !.pc = "reading"]
  /\ UNCHANGED <<auto, schedule, run, fire, lock, parties, cancel, past>>

\* ... and the status of the conversation.
ReadConversation ==
  /\ loop.pc = "reading"
  /\ loop' = [loop EXCEPT !.pc = "deciding", !.conv = IF @ = "none" THEN "none" ELSE conv[loop.run]]
  /\ UNCHANGED <<auto, schedule, run, fire, lock, parties, cancel, past>>

\* settle_from_conversation; a run whose worker is lost, or that is overdue,
\* fails.  A mutant takes any conversation for a success.
VerdictAny(status, hopeless) ==
  CASE status # "none" -> "succeeded" [] hopeless -> "failed" [] OTHER -> "none"
Verdict(status, hopeless) ==
  CASE status \in Finished -> "succeeded"
    [] status = "cancelled" \/ hopeless -> "failed"
    [] OTHER -> "none"

Conclude ==
  /\ loop.pc = "deciding"
  /\ LET v == Verdict(loop.conv, loop.hopeless)
     IN IF v = "none" THEN UNCHANGED <<run, auto, past>> ELSE Settle(loop.run, v)
  /\ index' = IF loop.owned THEN index \ {loop.run} ELSE index
  /\ loop' = Idle
  /\ UNCHANGED <<schedule, fire, lock, conn, conv, bus, worker, cancel>>

----------------------------------------------------------------------------
(* cancel_run *)

\* Settled first, whatever the launch is doing.
CancelRun(r) ==
  /\ cancel[r] = "none" /\ run[r].status \in Settled \cup {"running"}
  /\ SettleRun(r, "cancelled")
  /\ cancel' = [cancel EXCEPT ![r] = "waiting"]
  /\ UNCHANGED <<schedule, fire, lock, parties, loop, past>>

\* Then torn down, when no launch is under way.
CancelLock(r) ==
  /\ cancel[r] = "waiting" /\ lock = Free
  /\ lock' = <<"cancel", r>>
  /\ cancel' = [cancel EXCEPT ![r] = IF r \in index THEN "ask" ELSE "cut"]
  /\ UNCHANGED <<auto, schedule, run, fire, parties, loop, past>>

CancelAsk(r) ==
  /\ cancel[r] = "ask"
  /\ IF Up(r) THEN AskToStop(r) ELSE UNCHANGED <<conn, conv>>
  /\ cancel' = [cancel EXCEPT ![r] = "cut"]
  /\ UNCHANGED <<auto, schedule, run, fire, lock, index, bus, worker, loop, past>>

\* Disconnected, if it was there, and the conversation brought to an end.
CancelCut(r) ==
  /\ cancel[r] = "cut"
  /\ index' = index \ {r}
  /\ IF r \in index THEN Disconnect(r) ELSE UNCHANGED <<conn, worker>>
  /\ conv' = [conv EXCEPT ![r] = IF run[r].conv /\ @ = "in_progress" THEN "cancelled" ELSE @]
  /\ cancel' = [cancel EXCEPT ![r] = "done"]
  /\ lock' = Free
  /\ UNCHANGED <<auto, schedule, run, fire, bus, loop, past>>

----------------------------------------------------------------------------
(* The user, the time and the process *)

\* update and set_enabled read the row and compute the next instant anew from the
\* clock...
SetEnabled(e, on) ==
  /\ ~auto.deleted /\ edit[e].pc = "idle" /\ Fault
  /\ edit' = [edit EXCEPT ![e] = [pc |-> "ready", on |-> on,
                                     next |-> IF on THEN NextAfter(now) ELSE 0]]
  /\ UNCHANGED <<auto, now, run, fire, lock, parties, cancel, loop>>

\* An edit that is over says nothing any more.
Over == [pc |-> "over", on |-> FALSE, next |-> 0]

\* ... and write it, whatever was claimed or deleted since.  History: whether that
\* takes the schedule back to where it was claimed already.
TakesBack(e) == edit[e].next # 0 /\ \E r \in Runs : edit[e].next <= fire[r].at
WriteEdit(e) ==
  /\ edit[e].pc = "ready"
  /\ auto' = [auto EXCEPT !.enabled = edit[e].on, !.next = edit[e].next]
  /\ edit' = [edit EXCEPT ![e] = IF TakesBack(e) THEN [@ EXCEPT !.pc = "back"] ELSE Over]
  /\ UNCHANGED <<now, run, fire, lock, parties, cancel, loop, past>>

Delete ==
  /\ ~auto.deleted /\ Fault
  /\ auto' = [auto EXCEPT !.deleted = TRUE, !.enabled = FALSE, !.next = 0]
  /\ UNCHANGED <<schedule, run, fire, lock, parties, cancel, loop>>

\* mark_all_seen: the user opens the view.
MarkSeen ==
  /\ auto.unseen > 0
  /\ auto' = [auto EXCEPT !.unseen = 0]
  /\ past' = [past EXCEPT !.seen = {r \in Runs : run[r].status = "failed"}]
  /\ UNCHANGED <<schedule, run, fire, lock, parties, cancel, loop>>

\* update_conversation_status: from the sidebar or the header, in any status and
\* into any.
MarkConversation(r, status) ==
  /\ conv[r] # "none" /\ status # conv[r]
  /\ past.faults < MaxFaults
  /\ conv' = [conv EXCEPT ![r] = status]
  /\ past' = [past EXCEPT !.faults = @ + 1,
                          !.vouched = IF status \in Finished THEN @ \cup {r} ELSE @,
                          !.left = IF status = "in_progress" THEN @ \cup {r} ELSE @]
  /\ UNCHANGED <<auto, schedule, run, fire, lock, index, conn, bus, worker, cancel, loop>>

\* MAX_RUN_MINUTES pass; no launch takes as long, and for a run the engine owns
\* it makes no difference.
GrowOld(r) ==
  /\ At(r, "done") /\ Running(r) /\ r \notin index
  /\ Go(r, "overdue")
  /\ UNCHANGED <<auto, schedule, run, lock, parties, cancel, loop, past>>

Tick ==
  /\ now < MaxTime
  /\ now' = now + 1
  /\ UNCHANGED <<auto, edit, run, fire, lock, parties, cancel, loop, past>>

\* The process dies and boots: boot_reconcile_interrupted fails what was running.
Restart ==
  /\ past.faults < MaxFaults
  /\ run' = [r \in Runs |-> IF Running(r) THEN [run[r] EXCEPT !.status = "failed"] ELSE run[r]]
  /\ auto' = [auto EXCEPT !.unseen = @ + Cardinality(Active)]
  /\ edit' = [e \in Edits |-> IF edit[e].pc = "ready" THEN Over ELSE edit[e]]
  /\ fire' = [r \in Runs |-> IF At(r, "idle") THEN fire[r] ELSE [fire[r] EXCEPT !.pc = "done"]]
  /\ lock' = Free
  /\ index' = {}
  /\ conn' = [r \in Runs |-> IF Up(r) THEN [NoConn EXCEPT !.state = "gone"] ELSE conn[r]]
  /\ bus' = [r \in Runs |-> "none"]
  /\ worker' = [r \in Runs |-> <<>>]
  /\ cancel' = [r \in Runs |-> IF cancel[r] = "none" THEN "none" ELSE "done"]
  /\ loop' = Idle
  /\ past' = [past EXCEPT !.faults = @ + 1,
                          !.left = @ \cup {r \in Runs : conv[r] = "in_progress"}]
  /\ UNCHANGED <<now, conv>>

----------------------------------------------------------------------------
Launch(r) ==
  \/ Begin(r) \/ FileTask(r) \/ SettleTask(r) \/ LaunchFails(r)
  \/ Gate(r) \/ Spawn(r) \/ CreateConversation(r) \/ Attach(r)
  \/ LastGate(r) \/ Prompt(r) \/ FailRun(r)
Cancelling(r) == CancelLock(r) \/ CancelAsk(r) \/ CancelCut(r)
Worker(r) == WorkerTurn(r) \/ WorkerGone(r)
Reconcile == (\E r \in Runs : List(r)) \/ SortOut \/ LookUp \/ ReadConversation \/ Conclude
Editing == \E e \in Edits : WriteEdit(e) \/ \E on \in BOOLEAN : SetEnabled(e, on)
Marking == \E r \in Runs, status \in ConvStatuses \ {"none"} : MarkConversation(r, status)
User == Editing \/ Marking \/ Delete \/ MarkSeen

Next ==
  \/ \E r \in Runs : \/ Claim(r) \/ Click(r) \/ Launch(r)
                     \/ AgentDies(r) \/ Lag(r) \/ SweepIdle(r) \/ UserStops(r) \/ GrowOld(r)
                     \/ Worker(r) \/ OnEvent(r)
                     \/ CancelRun(r) \/ Cancelling(r)
  \/ \E r \in Runs, stop \in Stops : TurnEnds(r, stop)
  \/ Cut \/ Reconcile \/ User \/ Tick \/ Restart

Spec == Init /\ [][Next]_vars

\* Tasks run on, agents end their turns, runs grow old and the sweep of idle
\* connections is switched on: none of this goes on for ever, so that it is enough
\* if one of those that are ready is taken.  The loop's select takes each ready
\* branch again and again.
Onward ==
  \/ Cut
  \/ \E r \in Runs : \/ ~Launched(r) /\ Launch(r)
                     \/ Launched(r) /\ (GrowOld(r) \/ SweepIdle(r))
                     \/ cancel[r] # "done" /\ Cancelling(r)
                     \/ worker[r] # <<>> /\ Worker(r)
                     \/ conn[r].turn /\ \E stop \in Stops : TurnEnds(r, stop)
Fairness == WF_vars(Onward) /\ WF_vars(Reconcile)
FairSpec == Spec /\ Fairness

----------------------------------------------------------------------------
(* Safety *)

\* An agent works for a run that is running, or the run's cancel is about to stop
\* it: nobody else settles a run from under a working agent.
AgentServesRun ==
  \A r \in Runs : Up(r) /\ conn[r].turn =>
    Running(r) \/ cancel[r] \in {"waiting", "ask", "cut"}

\* The fires that an instant went into, on time or as one of those a late fire
\* catches up with; the edits that took the schedule back to it.
Fires(t) == {r \in Runs : fire[r].slot \in 1..t /\ t <= fire[r].at}
Backs(t) == {e \in Edits : edit[e].pc = "back" /\ edit[e].next <= t}

\* An instant goes into one fire, although a process that was down or busy may find
\* several to catch up with; and into one more for each edit whose write came after
\* the claim of what it had computed before.
InstantFiresOnce ==
  \A t \in 1..MaxTime : Cardinality(Fires(t)) <= 1 + Cardinality(Backs(t))

\* The badge counts each failure once, whoever settled it.
BadgeCounts ==
  auto.unseen = Cardinality({r \in Runs : run[r].status = "failed"} \ past.seen)

\* A run that succeeded did: its turn ended by itself, or its task was filed, or the
\* user marked its conversation as finished.
SuccessIsEarned ==
  \A r \in Runs : run[r].status = "succeeded" => r \in past.earned \cup past.vouched

----------------------------------------------------------------------------
(* Liveness *)

\* Every run is settled, although its completion, its agent or a write is lost: the
\* overlap guard, whichever runs keep it shut, opens again and again.
RunEnds == []<>(Active = {})

\* Again and again nothing is left of the runs that are settled: neither an agent nor an
\* entry in the index nor a conversation in progress, except where the process was
\* restarted under it or the user marked it so.
NothingLeft(r) ==
  /\ ~Up(r) /\ r \notin index
  /\ conv[r] = "in_progress" => r \in past.left
Uncleared == {r \in Runs : ~Running(r) /\ ~NothingLeft(r)}
RunIsCleared == []<>(Uncleared = {})
==============================================================================
