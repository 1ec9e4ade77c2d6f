---------------------------- MODULE WorkTaskEngine ----------------------------
(***************************************************************************)
(* The work-task engine of one project folder: the rows of the work_task   *)
(* table and the concurrent parties that move them.                        *)
(*                                                                         *)
(*  - the user: start, retry, return, cancel, requeue, accept;             *)
(*  - the pump (pump_folder), which gives queued tasks a launch slot under *)
(*    the folder's concurrency limit;                                      *)
(*  - launches (TaskEngine::launch), one process each, which prepare the   *)
(*    worktree, spawn an agent and send it the prompt, under the task's    *)
(*    lock.  A launch owns one slot token, at most one agent connection    *)
(*    and creates at most one conversation: <<t, n>>, the n-th launch of   *)
(*    task t, names all four;                                              *)
(*  - the agents, which work, ask, finish or die;                          *)
(*  - the event loop (on_event, reconcile_once), a single task that        *)
(*    consumes the event bus and may lose events (Lagged);                 *)
(*  - the lifecycle subscriber, the other consumer of the bus, with one    *)
(*    worker per connection, which keeps the conversation's status;        *)
(*  - cancel cleanups, crash and restart.                                  *)
(*                                                                         *)
(* Each action is one atomic piece of the code: one SQL transaction, one   *)
(* critical section of a mutex, or one call into the connection manager;   *)
(* everything between two awaits on shared state belongs to the action     *)
(* that precedes it.  Merging, deliveries, delegated children and context  *)
(* compaction are not here: a reviewed task is accepted or returned.       *)
(***************************************************************************)
EXTENDS Naturals, FiniteSets, Sequences

CONSTANTS
  Tasks,          \* the folder's tasks
  Keys,           \* blocking requests an agent may raise (each one once)
  Stops,          \* stop reasons a turn may end with
  Verdicts,       \* verdicts, other than success, an agent may report
  MaxConcurrent,  \* the folder's max_concurrent; 0 means unlimited
  AutoProcess,    \* the folder's auto_process setting
  NoLaunch,       \* the absence of a launch, a connection or a conversation
  MaxLaunches,    \* model bound: launches per task
  MaxSeq,         \* model bound: generations per task
  MaxBus,         \* model bound: events of agents the engine is behind
  MaxCleanups,    \* model bound: cancel cleanups under way at a time
  MaxFaults       \* model bound: dead agents, lost events, failed writes and
                  \* restarts

Launches == Tasks \X (1..MaxLaunches)

ASSUME NatAssumption == /\ MaxConcurrent \in Nat /\ MaxLaunches \in Nat
                        /\ MaxSeq \in Nat /\ MaxBus \in Nat
                        /\ MaxCleanups \in Nat
                        /\ MaxFaults \in Nat
ASSUME SettingAssumption == AutoProcess \in BOOLEAN
ASSUME AgentAssumption == /\ Stops \subseteq {"end_turn", "cancelled", "other"}
                          /\ Verdicts \subseteq {"blocked"}
ASSUME NoLaunchAssumption == NoLaunch \notin Launches
ASSUME TaskAssumption == IsFiniteSet(Tasks)

VARIABLES
  row,        \* the table: status, run_seq, connection, conversation, verdict
  convStatus, \* conversation.status, by the launch that created it
  launch,     \* the launch processes
  taskLock,   \* TaskEngine.task_locks: task -> the launch that holds it
  agent,      \* the connections, as the connection manager sees them
  asks,       \* per connection and key: has the request been raised, answered
  index,      \* TaskEngine.index: connections registered for correlation
  launching,  \* TaskEngine.launching: task -> owner of its launch slot
  setup,      \* TaskEngine.setup_children: task -> kill slot
  awaiting,   \* TaskEngine.awaiting: task -> outstanding requests
  bus,        \* events the engine has not consumed, in publication order
  worker,     \* events a connection's lifecycle worker has not consumed
  loop,       \* the event loop between two awaits
  pump,       \* pump_folder between two awaits, and whether a pass is owed
  cancels,    \* cancel cleanups that have not finished
  booted,     \* boot_reconcile_interrupted has run in this process
  prompted,   \* history: launches whose prompt reached their agent
  direct,     \* history: launches a return started without the pump
  lossy,      \* history: this process lost an event, or the requests of a run
  failures    \* history: dead agents, lost events, failed writes and restarts so far

db      == <<row, convStatus>>
procs   == <<launch, taskLock>>
conns   == <<agent, asks, bus, worker>>
memory  == <<index, launching, setup, awaiting>>
control == <<loop, pump, cancels, booted>>
history == <<prompted, direct, lossy, failures>>
vars    == <<db, procs, conns, memory, control, history>>

----------------------------------------------------------------------------
(* Types *)

Statuses == {"todo", "queued", "preparing", "running", "awaiting", "review",
             "merging", "done", "failed", "canceled"}
Live          == {"running", "awaiting"}
Interruptible == {"queued", "preparing", "running", "awaiting"}
Cancelable    == {"todo", "queued", "preparing", "running", "awaiting",
                  "review", "failed"}

MaybeLaunch == Launches \cup {NoLaunch}
Seqs == 0..MaxSeq

Row == [status: Statuses, seq: Seqs, conn: MaybeLaunch, conv: MaybeLaunch,
        verdict: {"none"} \cup Verdicts]

\* Where a launch stands; "free" has not been spawned, "over" has returned.
Pcs == {"free", "slot", "lock", "begin", "gate", "setup", "init", "spawn",
        "bind", "compose", "mark", "prompt", "fail", "release", "over"}
\* The stretch of TaskEngine::launch that holds the task lock.
Locked == {"begin", "gate", "setup", "init", "spawn", "bind", "compose",
           "mark", "prompt"}
\* seq is LaunchSeq: 0 until the launch has read its row.
Launch == [pc: Pcs, seq: Seqs, conv: MaybeLaunch, resumed: BOOLEAN,
           error: BOOLEAN]

ConvStatuses == {"in_progress", "pending_review", "cancelled"}
\* "up": connected, not prompting yet; "busy": a turn is in flight; "over":
\* connected, turn complete; "gone": no longer in the manager.
AgentPhases == {"none", "up", "busy", "over", "gone"}
AskStates   == {"no", "open", "closed"}

Event == [type: {"turn"}, conn: Launches, stop: Stops]
           \cup [type: {"ask", "answer"}, conn: Launches, key: Keys]
Context == [task: Tasks, seq: Seqs, conn: MaybeLaunch, conv: MaybeLaunch,
            step: {"kill", "cleanup"}]
Idle == [pc |-> "idle"]
LoopState == {Idle}
  \cup [pc: {"turn", "settle"}, conn: Launches, seq: Seqs, stop: Stops]
  \cup [pc: {"flip"}, task: Tasks, seq: Seqs, up: BOOLEAN]
  \cup [pc: {"reconcile"}, task: Tasks, seq: Seqs, conn: Launches,
        conv: MaybeLaunch]
PumpState == [pc: {"idle", "auto", "next"},
              seen: SUBSET Tasks, owed: BOOLEAN]

TableOK == /\ row \in [Tasks -> Row]
           /\ convStatus \in [Launches -> ConvStatuses]

ProcsOK == /\ launch \in [Launches -> Launch]
           /\ taskLock \in [Tasks -> MaybeLaunch]

ConnsOK == /\ agent \in [Launches -> AgentPhases]
           /\ asks \in [Launches -> [Keys -> AskStates]]
           /\ bus \in Seq(Event)
           /\ worker \in [Launches -> Seq(Stops \cup {"gone"})]

MemoryOK == /\ index \in SUBSET Launches
            /\ launching \in [Tasks -> MaybeLaunch]
            /\ setup \in [Tasks -> [seq: Seqs, kill: BOOLEAN]]
            /\ awaiting \in [Tasks -> [seq: Seqs, keys: SUBSET Keys]]

ControlOK == /\ loop \in LoopState
             /\ pump \in PumpState
             /\ cancels \in SUBSET Context
             /\ booted \in BOOLEAN

HistoryOK == /\ prompted \in SUBSET Launches
             /\ direct \in SUBSET Launches
             /\ lossy \in BOOLEAN
             /\ failures \in 0..MaxFaults

\* A live row names its connection and its conversation: reconcile skips a live
\* row without a connection, and such a task would be stuck.
LiveIsBound == \A t \in Tasks : row[t].status \in Live =>
                 row[t].conn \in Launches /\ row[t].conv \in Launches

\* A launch that holds its task's lock knows its generation.
LockedHasSeq == \A l \in Launches : launch[l].pc \in Locked => launch[l].seq > 0

\* The type invariant of the table, the processes and the engine's memory.
TypeOK == /\ TableOK /\ ProcsOK /\ ConnsOK /\ MemoryOK /\ ControlOK /\ HistoryOK
          /\ LiveIsBound /\ LockedHasSeq

----------------------------------------------------------------------------
(* The initial state: a board of tasks to do, and a process that has booted *)

Init ==
  /\ row = [t \in Tasks |-> [status |-> "todo", seq |-> 0, conn |-> NoLaunch,
                             conv |-> NoLaunch, verdict |-> "none"]]
  /\ convStatus = [l \in Launches |-> "in_progress"]
  /\ launch = [l \in Launches |-> [pc |-> "free", seq |-> 0, conv |-> NoLaunch,
                                   resumed |-> FALSE, error |-> FALSE]]
  /\ taskLock = [t \in Tasks |-> NoLaunch]
  /\ agent = [l \in Launches |-> "none"]
  /\ asks = [l \in Launches |-> [k \in Keys |-> "no"]]
  /\ index = {}
  /\ launching = [t \in Tasks |-> NoLaunch]
  /\ setup = [t \in Tasks |-> [seq |-> 0, kill |-> FALSE]]
  /\ awaiting = [t \in Tasks |-> [seq |-> 0, keys |-> {}]]
  /\ bus = <<>>
  /\ worker = [l \in Launches |-> <<>>]
  /\ loop = Idle
  /\ pump = [pc |-> "idle", seen |-> {}, owed |-> FALSE]
  /\ cancels = {}
  /\ booted = TRUE
  /\ prompted = {} /\ direct = {}
  /\ lossy = FALSE /\ failures = 0

----------------------------------------------------------------------------
(* Conditional writes of the service layer *)

TaskOf(l) == l[1]

\* The WHERE clause of an engine write: expected status and run_seq.
CasSeqOnly(t, from, s) == row[t].seq = s  \* mutant: the status is not checked
Cas(t, from, s) == row[t].status \in from /\ row[t].seq = s

\* Mutant: a claim that keeps the generation.
ClaimSameRun(t, from) ==
  /\ row[t].status = from
  /\ row' = [row EXCEPT ![t].status = "queued", ![t].verdict = "none"]

\* claim_inner and auto_claim_next: every claim opens a new generation.
Claim(t, from) ==
  /\ row[t].status = from
  /\ row[t].seq < MaxSeq
  /\ row' = [row EXCEPT ![t].status = "queued", ![t].seq = @ + 1,
                        ![t].verdict = "none"]

\* cancel_in_transaction: the execution is frozen before the row forgets it.
CancelRow(t) ==
  row' = [row EXCEPT ![t].status = "canceled", ![t].conn = NoLaunch]

FailRow(t) == row' = [row EXCEPT ![t].status = "failed", ![t].conn = NoLaunch]

SettleReview(t) ==
  row' = [row EXCEPT ![t].status = "review", ![t].conn = NoLaunch]

PumpOwed == pump' = [pump EXCEPT !.owed = TRUE]

Faulty == failures < MaxFaults /\ failures' = failures + 1

----------------------------------------------------------------------------
(* The user *)

\* start, start_all, a plan that falls due.
Start(t) ==
  /\ Claim(t, "todo")
  /\ PumpOwed
  /\ UNCHANGED <<convStatus, procs, conns, memory, loop, cancels, booted, history>>

Retry(t) ==
  /\ Claim(t, "failed")
  /\ PumpOwed
  /\ UNCHANGED <<convStatus, procs, conns, memory, loop, cancels, booted, history>>

\* The next unused launch of t.
Fresh(t, l) == /\ TaskOf(l) = t
               /\ launch[l].pc = "free"
               /\ \A n \in 1..MaxLaunches : n < l[2] => launch[<<t, n>>].pc # "free"

\* return_task: the claim, then a launch of its own that does not wait for the
\* pump and has yet to claim its slot.
Return(t, l) ==
  /\ Fresh(t, l)
  /\ Claim(t, "review")
  /\ launch' = [launch EXCEPT ![l].pc = "slot"]
  /\ direct' = direct \cup {l}
  /\ UNCHANGED <<convStatus, taskLock, conns, memory, control, prompted,
                 lossy, failures>>

\* Mutant: the context is read after the row has forgotten its execution.
FrozenLate(t) == [task |-> t, seq |-> row[t].seq, conn |-> NoLaunch,
                  conv |-> row[t].conv, step |-> "kill"]
\* CanceledExecutionContext.
Frozen(t) == [task |-> t, seq |-> row[t].seq, conn |-> row[t].conn,
              conv |-> row[t].conv, step |-> "kill"]

\* cancel: the transaction freezes the execution it cancels; the cleanup works
\* from that context only.
Cancel(t) ==
  /\ row[t].status \in Cancelable /\ Cardinality(cancels) < MaxCleanups
  /\ cancels' = cancels \cup {Frozen(t)}
  /\ CancelRow(t)
  /\ UNCHANGED <<convStatus, procs, conns, memory, loop, pump, booted, history>>

Requeue(t) ==
  /\ row[t].status = "canceled"
  /\ row' = [row EXCEPT ![t].status = "todo", ![t].conv = NoLaunch]
  /\ UNCHANGED <<convStatus, procs, conns, memory, control, history>>

Accept(t) ==
  /\ row[t].status = "review"
  /\ row' = [row EXCEPT ![t].status = "done"]
  /\ UNCHANGED <<convStatus, procs, conns, memory, control, history>>

----------------------------------------------------------------------------
(* Connections *)

\* A disconnect, or a death: the manager forgets the connection, and the
\* worker of a connection linked to a conversation learns of it.
Drop(l) ==
  /\ agent' = [agent EXCEPT ![l] = IF @ = "none" THEN @ ELSE "gone"]
  /\ worker' = IF agent[l] \in {"none", "gone"} \/ l \notin prompted THEN worker
               ELSE [worker EXCEPT ![l] = Append(@, "gone")]
  /\ asks' = [asks EXCEPT ![l] = [k \in Keys |-> "no"]]

Forgotten(t) == [awaiting EXCEPT ![t] = [seq |-> 0, keys |-> {}]]

\* Mutant: the requests go with any connection of the task.
RetireAll(l, t) == index' = index \ {l} /\ awaiting' = Forgotten(t) /\ UNCHANGED lossy

\* retire_connection: the outstanding requests of a task go with the last of
\* its connections; while another connection m of the task survives, they stay
\* when they are of m's generation.  The code asks one survivor, as if there were
\* no more: requests of another one are lost.
Retire(l, t) ==
  LET survivors == {m \in index \ {l} : TaskOf(m) = t}
      Keeps(m) == awaiting[t].seq = launch[m].seq
  IN /\ index' = index \ {l}
     /\ \/ survivors = {} /\ awaiting' = Forgotten(t) /\ UNCHANGED lossy
        \/ \E m \in survivors :
             IF Keeps(m) THEN UNCHANGED <<awaiting, lossy>>
             ELSE /\ awaiting' = Forgotten(t)
                  /\ lossy' = (lossy \/ \E n \in survivors : Keeps(n))

----------------------------------------------------------------------------
(* Cancel cleanup *)

Cleanup(c) == [c EXCEPT !.step = "cleanup"]

\* Mutant: the kill waits for the task lock, like the rest of the cleanup.
CancelKillLocked(c) ==
  /\ c \in cancels /\ c.step = "kill"
  /\ taskLock[c.task] = NoLaunch
  /\ cancels' = (cancels \ {c}) \cup {Cleanup(c)}
  /\ setup' = IF setup[c.task].seq = c.seq /\ c.seq > 0
              THEN [setup EXCEPT ![c.task].kill = TRUE] ELSE setup
  /\ UNCHANGED <<db, procs, conns, index, launching, awaiting, loop, pump,
                 booted, history>>

\* kill_setup_child: before the task lock, which the setup may hold for long.
CancelKill(c) ==
  /\ c \in cancels /\ c.step = "kill"
  /\ cancels' = (cancels \ {c}) \cup {Cleanup(c)}
  /\ setup' = IF setup[c.task].seq = c.seq /\ c.seq > 0
              THEN [setup EXCEPT ![c.task].kill = TRUE] ELSE setup
  /\ UNCHANGED <<db, procs, conns, index, launching, awaiting, loop, pump,
                 booted, history>>

\* Mutant: the registration is compared with the row's current generation.
OwnsCurrent(c) == c.conn \in index /\ row[c.task].seq = c.seq
Owns(c) == c.conn \in index /\ launch[c.conn].seq = c.seq

\* The rest of cleanup_canceled_execution, under the task lock: shed the frozen
\* connection when it is still registered for the cancelled generation, cancel
\* its conversation unless a newer generation took it over, pump.
CancelCleanup(c) ==
  LET orphan == /\ c.conv # NoLaunch
                /\ ~(row[c.task].seq # c.seq /\ row[c.task].conv = c.conv)
                /\ convStatus[c.conv] = "in_progress"
  IN /\ c \in cancels /\ c.step = "cleanup"
     /\ taskLock[c.task] = NoLaunch
     /\ cancels' = cancels \ {c}
     /\ IF Owns(c) THEN Retire(c.conn, c.task) /\ Drop(c.conn)
        ELSE UNCHANGED <<index, awaiting, lossy, agent, worker, asks>>
     /\ convStatus' = IF orphan THEN [convStatus EXCEPT ![c.conv] = "cancelled"]
                      ELSE convStatus
     /\ PumpOwed
     /\ UNCHANGED <<row, procs, bus, launching, setup, loop, booted, prompted,
                    direct, failures>>

----------------------------------------------------------------------------
(* The pump: pump_folder, serialized by the folder's pump lock.  Concurrent *)
(* callers wait for the lock, so that they amount to a pass that is owed.   *)
(* The boot reconcile is the first statement of a process: requests may be  *)
(* accepted before it, but no launch gets going.                            *)

\* Mutant: a launch that still waits for the task lock is not seen.
InFlightLocked == {t \in Tasks : taskLock[t] # NoLaunch}
\* The pass begins to launch: it sees the launches in flight as they are now.
InFlight == {t \in Tasks : launching[t] # NoLaunch}

PumpStart ==
  /\ pump.pc = "idle" /\ pump.owed /\ booted
  /\ pump' = IF AutoProcess THEN [pc |-> "auto", seen |-> {}, owed |-> FALSE]
             ELSE [pc |-> "next", seen |-> InFlight, owed |-> FALSE]
  /\ UNCHANGED <<db, procs, conns, memory, loop, cancels, booted, history>>

Budgeted == {"queued", "preparing", "running", "awaiting", "merging"}

\* auto_claim_next, one transaction: the claim is rolled back when it would
\* exceed the budget, which counts the task just claimed.
WithinBudget(t) ==
  MaxConcurrent > 0 =>
    Cardinality({u \in Tasks : row[u].status \in Budgeted} \cup {t})
      <= MaxConcurrent

PumpAutoClaim(t) ==
  /\ pump.pc = "auto"
  /\ WithinBudget(t)
  /\ Claim(t, "todo")
  /\ UNCHANGED <<convStatus, procs, conns, memory, control, history>>

PumpAutoDone ==
  /\ pump.pc = "auto"
  /\ \A t \in Tasks : row[t].status = "todo" /\ row[t].seq < MaxSeq
                      => ~WithinBudget(t)
  /\ pump' = [pump EXCEPT !.pc = "next", !.seen = InFlight]
  /\ UNCHANGED <<db, procs, conns, memory, loop, cancels, booted, history>>

\* The launches in flight when the iteration began and, from the table, the
\* launched tasks: together the active ones.
ActiveLaunched == {t \in Tasks : row[t].status \in {"running", "awaiting", "merging"}}
\* Mutant: the launches in flight are not counted.
AtLimitRunning ==
  MaxConcurrent # 0 /\ Cardinality(ActiveLaunched) >= MaxConcurrent
AtLimit ==
  /\ MaxConcurrent # 0
  /\ Cardinality(ActiveLaunched) + Cardinality(pump.seen) >= MaxConcurrent

\* next_queued and claim_launch_slot; the launch runs as a task of its own.
PumpNext(t, l) ==
  /\ pump.pc = "next" /\ ~AtLimit
  /\ row[t].status = "queued" /\ t \notin pump.seen
  /\ Fresh(t, l)
  /\ launch' = [launch EXCEPT ![l].pc = "lock"]
  /\ launching' = [launching EXCEPT ![t] = l]
  /\ pump' = [pump EXCEPT !.seen = InFlight \cup {t}]
  /\ UNCHANGED <<db, taskLock, conns, index, setup, awaiting, loop, cancels,
                 booted, history>>

PumpEmpty ==
  /\ pump.pc = "next"
  /\ AtLimit \/ \A t \in Tasks : row[t].status = "queued" => t \in pump.seen
  /\ pump' = [pump EXCEPT !.pc = "idle", !.seen = {}]
  /\ UNCHANGED <<db, procs, conns, memory, loop, cancels, booted, history>>

----------------------------------------------------------------------------
(* Launches: spawn_launch_owned and TaskEngine::launch *)

SeqOf(l) == launch[l].seq
At(l, pc) == launch[l].pc = pc
GoTo(l, pc) == launch' = [launch EXCEPT ![l].pc = pc]

Unlock(l) == taskLock' = [taskLock EXCEPT ![TaskOf(l)] = NoLaunch]

\* launch returns Ok (nothing to do, or lost to somebody else) or Err.
Leave(l) == GoTo(l, "release") /\ Unlock(l)
Err(l)   == GoTo(l, "fail") /\ Unlock(l)

\* The launch of a return claims its slot when its task first runs.
ClaimSlot(l) ==
  /\ At(l, "slot") /\ booted
  /\ launching' = [launching EXCEPT ![TaskOf(l)] = l]
  /\ GoTo(l, "lock")
  /\ UNCHANGED <<db, taskLock, conns, index, setup, awaiting, control, history>>

\* The lock, the row and its expected status.  A launch that finds the row
\* moved on returns before it has a generation.
EnterStale(l) ==
  /\ At(l, "lock") /\ taskLock[TaskOf(l)] = NoLaunch
  /\ row[TaskOf(l)].status # "queued"
  /\ GoTo(l, "release")
  /\ UNCHANGED <<db, taskLock, conns, memory, control, history>>

\* No agent configured, an unknown agent or an empty prompt: nothing was done.
EnterRefused(l) ==
  /\ At(l, "lock") /\ taskLock[TaskOf(l)] = NoLaunch
  /\ row[TaskOf(l)].status = "queued"
  /\ launch' = [launch EXCEPT ![l].pc = "fail", ![l].seq = row[TaskOf(l)].seq]
  /\ UNCHANGED <<db, taskLock, conns, memory, control, history>>

\* Mutant: only the shell of the init command opens the kill slot.
ReserveLate(t, s) == UNCHANGED setup
\* reserve_setup_slot: the kill slot is open before the row reads preparing.
ReserveSetup(t, s) == setup' = [setup EXCEPT ![t] = [seq |-> s, kill |-> FALSE]]

Enter(l) ==
  LET t == TaskOf(l)
  IN /\ At(l, "lock") /\ taskLock[t] = NoLaunch
     /\ row[t].status = "queued"
     /\ launch' = [launch EXCEPT ![l].pc = "begin", ![l].seq = row[t].seq,
                                 ![l].conv = row[t].conv]
     /\ taskLock' = [taskLock EXCEPT ![t] = l]
     /\ ReserveSetup(t, row[t].seq)
     /\ UNCHANGED <<db, conns, index, launching, awaiting, control, history>>

\* begin_setup, lost to a cancel or won.
BeginSetup(l) ==
  LET t == TaskOf(l)
  IN /\ At(l, "begin")
     /\ IF Cas(t, {"queued"}, SeqOf(l))
        THEN /\ row' = [row EXCEPT ![t].status = "preparing", ![t].conn = NoLaunch]
             /\ GoTo(l, "gate") /\ UNCHANGED taskLock
        ELSE Leave(l) /\ UNCHANGED row
     /\ UNCHANGED <<convStatus, conns, memory, control, history>>

StillExpected(l) == Cas(TaskOf(l), {"preparing"}, SeqOf(l))

\* The cancel gate before the worktree.
Gate(l) ==
  /\ At(l, "gate")
  /\ IF StillExpected(l) THEN GoTo(l, "setup") /\ UNCHANGED taskLock ELSE Leave(l)
  /\ UNCHANGED <<db, conns, memory, control, history>>

\* The worktree is ready and needs its init command: run_setup_shell starts a
\* child unless a cancel has been here first.
StartInit(l) ==
  LET t == TaskOf(l)
  IN /\ At(l, "setup")
     /\ IF setup[t].kill THEN Err(l) /\ UNCHANGED setup
        ELSE /\ setup' = [setup EXCEPT ![t].seq = SeqOf(l)]
             /\ GoTo(l, "init") /\ UNCHANGED taskLock
     /\ UNCHANGED <<db, conns, index, launching, awaiting, control, history>>

\* No init command is due (none configured, or the marker is present), or the
\* child exited with 0.
SetupDone(l) ==
  /\ At(l, "setup") \/ At(l, "init")
  /\ GoTo(l, "spawn")
  /\ UNCHANGED <<db, taskLock, conns, memory, control, history>>

\* The worktree could not be made, or the child failed by itself.
SetupFailed(l) ==
  /\ At(l, "setup") \/ At(l, "init")
  /\ Err(l)
  /\ UNCHANGED <<db, conns, memory, control, history>>

\* The child of a killed setup dies and its launch with it.
InitKilled(l) ==
  /\ At(l, "init") /\ setup[TaskOf(l)].kill
  /\ Err(l)
  /\ UNCHANGED <<db, conns, memory, control, history>>

\* The second gate, then the agent: resumed in the session of the task's
\* conversation, or fresh (also when the resume failed) with a new one.
Spawn(l) ==
  /\ At(l, "spawn")
  /\ IF StillExpected(l)
     THEN /\ agent' = [agent EXCEPT ![l] = "up"]
          /\ \/ /\ launch[l].conv # NoLaunch
                /\ launch' = [launch EXCEPT ![l].pc = "bind", ![l].resumed = TRUE]
             \/ launch' = [launch EXCEPT ![l].pc = "compose", ![l].conv = l]
          /\ UNCHANGED taskLock
     ELSE Leave(l) /\ UNCHANGED agent
  /\ UNCHANGED <<db, asks, bus, worker, memory, control, history>>

\* The environment, the agent's installation, the spawn or the new conversation
\* failed; an agent already spawned for it is disconnected.
SpawnFailed(l) ==
  /\ At(l, "spawn") /\ StillExpected(l)
  /\ Err(l)
  /\ UNCHANGED <<db, conns, memory, control, history>>

\* mark_preparing_live, for a resumed session only: the row names its live
\* coordinates before the prompt.  Losing the write disconnects.
Bind(l) ==
  LET t == TaskOf(l)
  IN /\ At(l, "bind")
     /\ IF StillExpected(l)
        THEN /\ row' = [row EXCEPT ![t].conn = l, ![t].conv = launch[l].conv]
             /\ GoTo(l, "compose")
             /\ UNCHANGED <<taskLock, agent, worker, asks>>
        ELSE Leave(l) /\ Drop(l) /\ UNCHANGED row
     /\ UNCHANGED <<convStatus, bus, memory, control, history>>

\* The prompt is composed and the connection registered before it is sent.
Compose(l) ==
  /\ At(l, "compose")
  /\ index' = index \cup {l}
  /\ GoTo(l, "mark")
  /\ UNCHANGED <<db, taskLock, conns, launching, setup, awaiting, control, history>>

\* compose_prompt failed: the one path that abandons a connection.
ComposeFailed(l) ==
  /\ At(l, "compose")
  /\ Err(l)
  /\ UNCHANGED <<db, conns, memory, control, history>>

\* The teardown of a launch that never prompted: forget_connection, disconnect
\* and, for a conversation of its own, cancel_conversation.
Teardown(l) ==
  /\ index' = index \ {l}
  /\ Drop(l)
  /\ convStatus' = IF launch[l].resumed THEN convStatus
                   ELSE [convStatus EXCEPT ![launch[l].conv] = "cancelled"]

\* The columns mark_running writes; the mutant forgets the connection.
GoLiveUnnamed(l, t) ==
  row' = [row EXCEPT ![t].status = "running", ![t].conv = launch[l].conv]
GoLive(l, t) ==
  row' = [row EXCEPT ![t].status = "running", ![t].conn = l,
                     ![t].conv = launch[l].conv]

\* mark_running: won, or lost to a cancel or a newer generation.
Mark(l) ==
  LET t == TaskOf(l)
  IN /\ At(l, "mark")
     /\ IF StillExpected(l)
        THEN /\ GoLive(l, t)
             /\ GoTo(l, "prompt")
             /\ UNCHANGED <<taskLock, index, agent, worker, asks, convStatus>>
        ELSE Leave(l) /\ Teardown(l) /\ UNCHANGED row
     /\ UNCHANGED <<bus, launching, setup, awaiting, control, history>>

\* mark_running could not write.
MarkFailed(l) ==
  /\ At(l, "mark") /\ Faulty
  /\ Err(l) /\ Teardown(l)
  /\ UNCHANGED <<row, bus, launching, setup, awaiting, control, prompted,
                 direct, lossy>>

\* send_prompt_linked: the conversation reads in_progress, the agent works.
Prompt(l) ==
  /\ At(l, "prompt") /\ agent[l] = "up"
  /\ agent' = [agent EXCEPT ![l] = "busy"]
  /\ convStatus' = [convStatus EXCEPT ![launch[l].conv] = "in_progress"]
  /\ prompted' = prompted \cup {l}
  /\ Leave(l)
  /\ UNCHANGED <<row, asks, bus, worker, memory, control, direct,
                 lossy, failures>>

\* The prompt is refused before the conversation's status is touched (the
\* connection is gone, the session cannot be hydrated) ...
PromptRefused(l) ==
  /\ At(l, "prompt")
  /\ Err(l) /\ Teardown(l)
  /\ UNCHANGED <<row, bus, launching, setup, awaiting, control, history>>

\* ... or the send fails after it, which rolls the conversation back.
SendFailed(l) ==
  /\ At(l, "prompt") /\ agent[l] = "up"
  /\ Err(l)
  /\ index' = index \ {l}
  /\ agent' = [agent EXCEPT ![l] = "gone"]
  /\ worker' = [worker EXCEPT ![l] = Append(@, "gone")]
  /\ convStatus' = [convStatus EXCEPT ![launch[l].conv] = "cancelled"]
  /\ UNCHANGED <<row, asks, bus, launching, setup, awaiting, control, history>>

\* The launch is over, in error: fail the generation it read, if it read one
\* and the row has neither gone live nor moved on.
Fail(l) ==
  LET t == TaskOf(l)
  IN /\ At(l, "fail")
     /\ IF SeqOf(l) > 0 /\ Cas(t, {"queued", "preparing"}, SeqOf(l))
        THEN FailRow(t) ELSE UNCHANGED row
     /\ launch' = [launch EXCEPT ![l].pc = "release", ![l].error = TRUE]
     /\ UNCHANGED <<convStatus, taskLock, conns, memory, control, history>>

\* The write of the failure failed (unwrap_or(false)).
FailFailed(l) ==
  /\ At(l, "fail") /\ Faulty
  /\ launch' = [launch EXCEPT ![l].pc = "release", ![l].error = TRUE]
  /\ UNCHANGED <<db, taskLock, conns, memory, control, prompted,
                 direct, lossy>>

\* Slots are given up by their owner only, then an error pumps.
ReleaseSlot(l) ==
  launching' = [launching EXCEPT ![TaskOf(l)] = IF @ = l THEN NoLaunch ELSE @]

Release(l) ==
  LET t == TaskOf(l)
  IN /\ At(l, "release")
     /\ setup' = IF SeqOf(l) > 0 /\ setup[t].seq = SeqOf(l)
                 THEN [setup EXCEPT ![t] = [seq |-> 0, kill |-> FALSE]] ELSE setup
     /\ ReleaseSlot(l)
     /\ launch' = [launch EXCEPT ![l].pc = "over", ![l].error = FALSE,
                                ![l].resumed = FALSE]
     /\ IF launch[l].error THEN PumpOwed ELSE UNCHANGED pump
     /\ UNCHANGED <<db, taskLock, conns, index, awaiting, loop, cancels, booted,
                    history>>

----------------------------------------------------------------------------
(* Agents *)

Publish(e) == bus' = Append(bus, e)

\* A permission, a question or a plan to approve: the turn blocks on it.
AgentAsk(l, k) ==
  /\ agent[l] = "busy" /\ asks[l][k] = "no" /\ Len(bus) < MaxBus
  /\ asks' = [asks EXCEPT ![l][k] = "open"]
  /\ Publish([type |-> "ask", conn |-> l, key |-> k])
  /\ UNCHANGED <<db, procs, agent, worker, memory, control, history>>

UserAnswers(l, k) ==
  /\ agent[l] = "busy" /\ asks[l][k] = "open" /\ Len(bus) < MaxBus
  /\ asks' = [asks EXCEPT ![l][k] = "closed"]
  /\ Publish([type |-> "answer", conn |-> l, key |-> k])
  /\ UNCHANGED <<db, procs, agent, worker, memory, control, history>>

\* task_complete: record_complete, then set_verdict.
AgentReports(l, v) ==
  /\ agent[l] = "busy" /\ l \in index
  /\ Cas(TaskOf(l), Live, SeqOf(l))
  /\ row' = [row EXCEPT ![TaskOf(l)].verdict = v]
  /\ UNCHANGED <<convStatus, procs, conns, memory, control, history>>

\* The turn completes; a turn the user stopped has had its conversation
\* cancelled by manager.cancel.
AgentEnd(l, stop) ==
  /\ agent[l] = "busy"
  /\ stop = "end_turn" => \A k \in Keys : asks[l][k] # "open"
  /\ agent' = [agent EXCEPT ![l] = "over"]
  /\ Publish([type |-> "turn", conn |-> l, stop |-> stop])
  /\ worker' = IF stop = "cancelled" THEN worker
               ELSE [worker EXCEPT ![l] = Append(@, stop)]
  /\ convStatus' = IF stop = "cancelled" /\ convStatus[launch[l].conv] = "in_progress"
                   THEN [convStatus EXCEPT ![launch[l].conv] = "cancelled"]
                   ELSE convStatus
  /\ UNCHANGED <<row, procs, asks, memory, control, history>>

AgentDie(l) ==
  /\ agent[l] \in {"up", "busy", "over"} /\ Faulty
  /\ Drop(l)
  /\ UNCHANGED <<db, procs, bus, memory, control, prompted, direct, lossy>>

\* sweep_idle: a connection with no turn in flight, long unused.
IdleSweep(l) ==
  /\ agent[l] \in {"up", "over"} /\ launch[l].pc \notin Locked
  /\ Drop(l)
  /\ UNCHANGED <<db, procs, bus, memory, control, history>>

----------------------------------------------------------------------------
(* The lifecycle subscriber's workers *)

\* TurnComplete: nothing is written once the connection has left the manager
\* (and nothing for a cancelled turn, which AgentEnd does not hand over).
WorkerTurn(l) ==
  /\ worker[l] # <<>> /\ Head(worker[l]) # "gone"
  /\ worker' = [worker EXCEPT ![l] = Tail(@)]
  /\ convStatus' =
       IF agent[l] = "gone" THEN convStatus
       ELSE [convStatus EXCEPT ![launch[l].conv] =
               IF Head(worker[l]) = "end_turn" THEN "pending_review" ELSE "cancelled"]
  /\ UNCHANGED <<row, procs, agent, asks, bus, memory, control, history>>

\* handle_terminal_event: InProgress -> Cancelled.
WorkerGone(l) ==
  /\ worker[l] # <<>> /\ Head(worker[l]) = "gone"
  /\ worker' = [worker EXCEPT ![l] = Tail(@)]
  /\ convStatus' = [convStatus EXCEPT ![launch[l].conv] =
                      IF @ = "in_progress" THEN "cancelled" ELSE @]
  /\ UNCHANGED <<row, procs, agent, asks, bus, memory, control, history>>

----------------------------------------------------------------------------
(* The event loop: run_task_engine, once the boot reconcile is done *)

LoopIdle == loop = Idle /\ booted

\* on_turn_complete, first half: which generation is this connection?
TakeTurn ==
  /\ LoopIdle /\ bus # <<>> /\ Head(bus).type = "turn"
  /\ bus' = Tail(bus)
  /\ loop' = IF Head(bus).conn \in index
             THEN [pc |-> "turn", conn |-> Head(bus).conn,
                   seq |-> SeqOf(Head(bus).conn), stop |-> Head(bus).stop]
             ELSE Idle
  /\ UNCHANGED <<db, procs, agent, asks, worker, memory, pump, cancels, booted,
                 history>>

TurnRetire ==
  /\ loop.pc = "turn"
  /\ Retire(loop.conn, TaskOf(loop.conn))
  /\ Drop(loop.conn)
  /\ loop' = [loop EXCEPT !.pc = "settle"]
  /\ UNCHANGED <<db, procs, bus, launching, setup, pump, cancels, booted,
                 prompted, direct, failures>>

\* on_turn_complete, second half: the outcome follows the stop reason, and for
\* end_turn the verdict the generation reported.
SettleWith(t, s, stop) ==
  CASE ~Cas(t, Live, s)      -> UNCHANGED row
    [] OTHER -> CASE stop = "cancelled" -> CancelRow(t)
                  [] stop = "other" \/ row[t].verdict = "blocked" -> FailRow(t)
                  [] OTHER -> SettleReview(t)

TurnSettle ==
  /\ loop.pc = "settle"
  /\ SettleWith(TaskOf(loop.conn), loop.seq, loop.stop)
  /\ loop' = Idle
  /\ PumpOwed
  /\ UNCHANGED <<convStatus, procs, conns, memory, cancels, booted, history>>

\* track_request: the set changes now, the row on the set's edges.  An event of
\* a generation older than the set's is dropped.
Track(t, s, k, up) ==
  LET keys == IF awaiting[t].seq = s THEN awaiting[t].keys ELSE {}
      now == IF up THEN keys \cup {k} ELSE keys \ {k}
  IN IF s < awaiting[t].seq THEN UNCHANGED <<awaiting, loop>>
     ELSE /\ awaiting' = IF now = {} THEN Forgotten(t)
                         ELSE [awaiting EXCEPT ![t] = [seq |-> s, keys |-> now]]
          /\ loop' = IF Cardinality(now) = (IF up THEN 1 ELSE 0)
                     THEN [pc |-> "flip", task |-> t, seq |-> s, up |-> up] ELSE loop

TakeRequest ==
  /\ LoopIdle /\ bus # <<>> /\ Head(bus).type # "turn"
  /\ bus' = Tail(bus)
  /\ IF Head(bus).conn \in index
     THEN Track(TaskOf(Head(bus).conn), SeqOf(Head(bus).conn), Head(bus).key,
                Head(bus).type = "ask")
     ELSE UNCHANGED <<awaiting, loop>>
  /\ UNCHANGED <<db, procs, agent, asks, worker, index, launching, setup, pump,
                 cancels, booted, history>>

\* flip_awaiting: running <-> awaiting_input for the given generation.
Flip ==
  LET from == IF loop.up THEN "running" ELSE "awaiting"
      to == IF loop.up THEN "awaiting" ELSE "running"
  IN /\ loop.pc = "flip"
     /\ row' = IF Cas(loop.task, {from}, loop.seq)
               THEN [row EXCEPT ![loop.task].status = to] ELSE row
     /\ loop' = Idle
     /\ UNCHANGED <<convStatus, procs, conns, memory, pump, cancels, booted, history>>

\* The broadcast channel overflows: its oldest event is gone.
Lag ==
  /\ bus # <<>> /\ Faulty
  /\ bus' = Tail(bus)
  /\ lossy' = TRUE
  /\ UNCHANGED <<db, procs, agent, asks, worker, memory, control, prompted,
                 direct>>

----------------------------------------------------------------------------
(* reconcile_once, on its tick in the event loop *)

\* Mutant: tasks that wait for the user are not looked at.
ReconcileReadRunning(t) ==
  /\ LoopIdle
  /\ row[t].status = "running" /\ row[t].conn # NoLaunch
  /\ agent[row[t].conn] = "gone"
  /\ loop' = [pc |-> "reconcile", task |-> t, seq |-> row[t].seq,
              conn |-> row[t].conn, conv |-> row[t].conv]
  /\ UNCHANGED <<db, procs, conns, memory, pump, cancels, booted, history>>

\* A live row whose connection has left the manager.
ReconcileRead(t) ==
  /\ LoopIdle
  /\ row[t].status \in Live /\ row[t].conn # NoLaunch
  /\ agent[row[t].conn] = "gone"
  /\ loop' = [pc |-> "reconcile", task |-> t, seq |-> row[t].seq,
              conn |-> row[t].conn, conv |-> row[t].conv]
  /\ UNCHANGED <<db, procs, conns, memory, pump, cancels, booted, history>>

\* Its TurnComplete will not come: settle from the conversation's status.
ReconcileSettle ==
  LET t == loop.task
  IN /\ loop.pc = "reconcile"
     /\ Retire(loop.conn, t)
     /\ IF ~Cas(t, Live, loop.seq) THEN UNCHANGED row
        ELSE CASE convStatus[loop.conv] = "pending_review" -> SettleReview(t)
               [] convStatus[loop.conv] = "cancelled"      -> CancelRow(t)
               [] OTHER                                    -> FailRow(t)
     /\ loop' = Idle
     /\ UNCHANGED <<convStatus, procs, conns, launching, setup, pump, cancels,
                    booted, prompted, direct, failures>>

\* abandon_setup: a preparing row that no launch in flight owns.
AbandonSetup(t) ==
  /\ LoopIdle
  /\ row[t].status = "preparing" /\ launching[t] = NoLaunch
  /\ row' = [row EXCEPT ![t].status = "queued"]
  /\ UNCHANGED <<convStatus, procs, conns, memory, control, history>>

\* folders_with_pending; the mutant forgets the queue.
PendingTodo == {t \in Tasks : AutoProcess /\ row[t].status = "todo"}
Pending == {t \in Tasks : \/ row[t].status = "queued"
                          \/ AutoProcess /\ row[t].status = "todo"}

\* A backlog that no event announced.
ReconcilePump ==
  /\ LoopIdle /\ ~pump.owed
  /\ Pending # {}
  /\ PumpOwed
  /\ UNCHANGED <<db, procs, conns, memory, loop, cancels, booted, history>>

----------------------------------------------------------------------------
(* Crash and restart *)

\* The process stops: its memory, its launches and its agents are gone.
Crash ==
  /\ Faulty
  /\ launch' = [l \in Launches |-> IF launch[l].pc = "free" THEN launch[l]
                                   ELSE [launch[l] EXCEPT !.pc = "over",
                                           !.error = FALSE, !.resumed = FALSE]]
  /\ taskLock' = [t \in Tasks |-> NoLaunch]
  /\ agent' = [l \in Launches |-> IF agent[l] = "none" THEN "none" ELSE "gone"]
  /\ worker' = [l \in Launches |-> <<>>]
  /\ asks' = [l \in Launches |-> [k \in Keys |-> "no"]]
  /\ bus' = <<>>
  /\ index' = {}
  /\ launching' = [t \in Tasks |-> NoLaunch]
  /\ setup' = [t \in Tasks |-> [seq |-> 0, kill |-> FALSE]]
  /\ awaiting' = [t \in Tasks |-> [seq |-> 0, keys |-> {}]]
  /\ loop' = Idle
  /\ pump' = [pc |-> "idle", seen |-> {}, owed |-> FALSE]
  /\ cancels' = {}
  /\ booted' = FALSE
  /\ lossy' = FALSE
  /\ UNCHANGED <<db, prompted, direct>>

\* boot_reconcile_interrupted: nothing that needs a process has survived.
Boot ==
  /\ ~booted
  /\ booted' = TRUE
  /\ row' = [t \in Tasks |->
              IF row[t].status \in Interruptible
              THEN [row[t] EXCEPT !.status = "failed", !.conn = NoLaunch] ELSE row[t]]
  /\ UNCHANGED <<convStatus, procs, conns, memory, loop, pump, cancels, history>>

----------------------------------------------------------------------------
(* Specification *)

User == \E t \in Tasks :
          \/ Start(t) \/ Retry(t) \/ Cancel(t) \/ Requeue(t) \/ Accept(t)
          \/ \E l \in Launches : Return(t, l)

CancelStep(c) == CancelKill(c) \/ CancelCleanup(c)

PumpStep == \/ PumpStart \/ PumpAutoDone \/ PumpEmpty
            \/ \E t \in Tasks :
                 PumpAutoClaim(t) \/ \E l \in Launches : PumpNext(t, l)

\* What a launch does when all goes well, and when it does not.
Forward(l) ==
  \/ ClaimSlot(l) \/ EnterStale(l) \/ Enter(l) \/ BeginSetup(l) \/ Gate(l)
  \/ StartInit(l) \/ InitKilled(l) \/ Spawn(l) \/ Bind(l) \/ Compose(l) \/ Mark(l)
  \/ Prompt(l) \/ Fail(l) \/ Release(l)
Trouble(l) ==
  \/ EnterRefused(l) \/ SetupFailed(l) \/ SpawnFailed(l) \/ ComposeFailed(l)
  \/ MarkFailed(l) \/ PromptRefused(l) \/ SendFailed(l) \/ FailFailed(l)

AgentStep(l) ==
  \/ AgentDie(l) \/ IdleSweep(l)
  \/ \E v \in Verdicts : AgentReports(l, v)
  \/ \E k \in Keys : AgentAsk(l, k) \/ UserAnswers(l, k)
  \/ \E stop \in Stops : AgentEnd(l, stop)

EventStep == \/ TakeTurn \/ TurnRetire \/ TurnSettle \/ TakeRequest \/ Flip
             \/ ReconcileSettle
LoopStep == \/ EventStep \/ ReconcilePump
            \/ \E t \in Tasks : ReconcileRead(t) \/ AbandonSetup(t)

Next ==
  \/ User
  \/ \E c \in cancels : CancelStep(c)
  \/ PumpStep
  \/ \E l \in Launches : \/ Forward(l) \/ Trouble(l) \/ SetupDone(l) \/ AgentStep(l)
                         \/ WorkerTurn(l) \/ WorkerGone(l)
  \/ LoopStep
  \/ Lag
  \/ Crash
  \/ Boot

Spec == Init /\ [][Next]_vars

----------------------------------------------------------------------------
(* Safety *)

\* A generation is prompted once: run_seq and the conditional writes keep the
\* pump, a return's own launch, an abandoned setup and a slow failure from
\* setting two agents on the same run of a task.
OnePromptPerGeneration ==
  \A l, m \in prompted :
    l # m /\ TaskOf(l) = TaskOf(m) => launch[l].seq # launch[m].seq

\* No agent works for nobody: the connection of a busy agent is the one its
\* live row names, or a cancel that froze that connection has yet to clean up.
NoOrphanAgent ==
  \A l \in Launches : agent[l] = "busy" =>
    \/ Cas(TaskOf(l), Live, SeqOf(l)) /\ row[TaskOf(l)].conn = l
    \/ \E c \in cancels : c.conn = l /\ c.seq = SeqOf(l)

\* The board tells the truth about who is waiting: once the events of a run
\* are consumed, its row reads awaiting exactly when its agent has a request
\* open.  (A lost event is not repaired: see the README.)
AwaitingIsAccurate ==
  \A t \in Tasks :
    LET l == row[t].conn
    IN row[t].status \in Live /\ agent[l] = "busy" /\ l \in index /\ loop = Idle
       /\ (\A i \in 1..Len(bus) : bus[i].conn # l) /\ ~lossy
       => (row[t].status = "awaiting" <=> \E k \in Keys : asks[l][k] = "open")

\* A task whose launches have all been the pump's.  The launch of a return does
\* not wait for the pump: until it claims its slot the pump may launch the same
\* generation, and the later of the two claims takes the slot of the other.
PumpedOnly(t) == \A l \in direct : TaskOf(l) # t

\* The pump never launches twice: from its claim to its release, a launch owns
\* the slot of its task, whatever is cancelled, requeued, retried or abandoned
\* meanwhile, so that reconcile never requeues a setup that is under way.
SlotIsOwned ==
  \A l \in Launches :
    launch[l].pc \notin {"free", "over"} /\ PumpedOnly(TaskOf(l))
      => launching[TaskOf(l)] = l

\* max_concurrent bounds the tasks that run or have a launch in flight, those
\* that a return launched aside.
LaunchBudget ==
  MaxConcurrent > 0 =>
    Cardinality({t \in Tasks :
                   /\ PumpedOnly(t)
                   /\ row[t].status \in Live \/ launching[t] # NoLaunch})
      <= MaxConcurrent

\* A cancel stops a setup in time: whenever an init command runs for a
\* generation the row has left, its kill has been requested, or the cancel that
\* will request it is under way.
SetupIsKillable ==
  \A l \in Launches :
    launch[l].pc = "init" /\ ~StillExpected(l) /\ PumpedOnly(TaskOf(l)) =>
      \/ setup[TaskOf(l)] = [seq |-> SeqOf(l), kill |-> TRUE]
      \/ \E c \in cancels : c.task = TaskOf(l) /\ c.seq = SeqOf(l) /\ c.step = "kill"

\* A setup is never taken for an orphan: while a launch works on a preparing
\* row, its task has an owned slot, so that reconcile leaves it alone.  The code
\* says so of every launch; it is not so when a return and the pump both
\* launched the task: see the README.
PreparingIsOwned ==
  \A l \in Launches :
    launch[l].pc \in Locked /\ StillExpected(l) => launching[TaskOf(l)] # NoLaunch

\* A task in review has been worked on: the prompt of this very generation has
\* reached an agent.
ReviewIsEarned ==
  \A t \in Tasks : row[t].status = "review" =>
    \E l \in prompted : TaskOf(l) = t /\ SeqOf(l) = row[t].seq

\* The rows move as a work task's life prescribes.
Lifecycle == INSTANCE WorkTaskLifecycle WITH
  status <- [t \in Tasks |-> row[t].status], seq <- [t \in Tasks |-> row[t].seq]
ImplementsLifecycle == Lifecycle!LifecycleSpec

----------------------------------------------------------------------------
(* Liveness.  The scheduler runs every task that is ready, the lock and the  *)
(* bus are fair, reconcile and the idle sweep tick for ever.  Nothing is     *)
(* assumed of the user, of an init command, of an agent's work, of failures. *)

Fairness ==
  /\ WF_vars(PumpStep)
  /\ \A l \in Launches : WF_vars(Forward(l) \/ PromptRefused(l))
  /\ WF_vars(\E l \in Launches : IdleSweep(l))
  /\ \A t \in Tasks : /\ WF_vars(\E c \in cancels : c.task = t /\ CancelStep(c))
                      /\ WF_vars(ReconcileRead(t))
                      /\ WF_vars(AbandonSetup(t))
  /\ WF_vars(EventStep)
  /\ WF_vars(ReconcilePump)
  /\ WF_vars(Boot)

FairSpec == Spec /\ Fairness

\* Every queued task is taken up: a slot whose release told nobody, a pass that
\* skipped the task or a restart only delay it.
QueuedLeaves == \A t \in Tasks : row[t].status = "queued" ~> row[t].status # "queued"

\* A run whose agent is done, idle for good or dead ends, although its event
\* may be lost: the idle sweep and reconcile make up for it.
EndedRunSettles ==
  \A t \in Tasks :
    LET ended == /\ row[t].status \in Live /\ row[t].conn # NoLaunch
                 /\ agent[row[t].conn] \in {"over", "gone"}
    IN ended ~> ~ended

\* An agent whose run is cancelled is stopped.
CancelStops ==
  \A l \in Launches :
    agent[l] = "busy" /\ row[TaskOf(l)].status = "canceled" ~> agent[l] # "busy"

\* So is the init command of a cancelled setup, for which the cancel's cleanup
\* cannot wait: the launch holds the task lock all along.
SetupStops ==
  \A t \in Tasks :
    LET initing == \E l \in Launches : TaskOf(l) = t /\ At(l, "init")
    IN initing /\ row[t].status = "canceled" ~> ~initing
=============================================================================
