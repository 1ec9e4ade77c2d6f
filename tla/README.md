# Dextra: a TLA+ verification project

This directory holds TLA+ modules that model the concurrent core of the
back end under `src/src-tauri/src`, the TLC configurations that check them on
small instances, and proofs, checked by TLAPS, that hold for all values of the
constants.  Paths below are relative to `src/src-tauri/src` unless they start
with `src/`; `engine.rs` is `work_task/engine.rs`, `service` is
`db/service/work_task_service.rs`, `broker.rs` is `acp/delegation/broker.rs`.

## 1. Inventory

The program is a desktop (Tauri) and web back end that runs coding agents: it
starts agent processes, keeps their sessions, and drives a board of *work
tasks*, each worked on by an agent in its own git worktree.

| Component | State | Operations | Interacts with | What makes it correct |
|---|---|---|---|---|
| Work task lifecycle (`db/entities/work_task.rs`, `service`) | one row per task: status, `run_seq`, connection, conversation, verdict, `pending_merge`, `merge_state` | conditional UPDATEs guarded by expected status and `run_seq` | called by everybody below | rows move only along the pipeline; a new run is a new generation |
| Work task engine (`work_task/engine.rs`) | `index`, `launching`, `setup_children`, `awaiting`, `task_locks`, folder pump locks | start, retry, return, cancel, requeue, complete, merge, deliver; pump; launch; event loop; reconcile; boot | rows, connection manager, event bus | one agent per generation, no orphan agent, the concurrency limit, no stuck task |
| Connection manager (`acp/manager.rs`) | map of connections, prompting flags | spawn, prompt, cancel a turn, disconnect, idle sweep | agents, bus, conversation rows | a prompt is admitted once, a refused prompt is rolled back |
| Lifecycle subscriber (`acp/lifecycle.rs`) | one worker and queue per connection | writes `conversation.status` at the end of a turn or connection | bus, conversation rows | order per connection, no write after the connection left |
| Event bus and session streams (`acp/internal_bus.rs`, `event_stream.rs`, `session_state.rs`) | broadcast channels, replay ring per session | publish, subscribe, attach with replay | everybody | a late subscriber sees a snapshot and every later event once |
| Merge queue and deliveries (`engine.rs`, `service`, `work_task/git.rs`) | `pending_merge`, `merge_state`, `merging` in-flight set, folder git lock | queue, edit, withdraw, drain, auto merge, settle from git, recover; deliver a pull request | rows, git, launches | one merge per folder, intents neither lost nor stale |
| Context compaction (`engine.rs` 2400-2455, `work_task/compact.rs`) | a fence per connection | compact a resumed session before a prompt | engine, manager | the completion of the compaction turn is not taken for the task's |
| Automations (`automation/engine.rs`, `db/service/automation_service.rs`) | automation and run rows, index of connections, one fire lock per automation | claim a due instant, run now, launch, settle, reconcile, cancel, edit, boot | manager, bus, conversation rows | an instant goes into one fire, and one more per edit that took it back; a run always settles, and rightly, and nothing is left of it |
| Delegation (`acp/delegation/broker.rs`, `listener.rs`) | running tasks, set-ups in flight, early ends, claims of resumptions, completed results by parent | delegate, resume, status, the cancels of client, task, turn and parent, completion | manager, lifecycle workers, companion process | one run per task, one outcome per run, children go with their parents |
| Questions and plan approvals (`acp/question.rs`, `plan_approval.rs`) | pending tables | ask, answer, abort | agents, front end | each question is answered or aborted once |
| Agent connection (`acp/connection.rs`, `agent_process.rs`) | process, pipes, loop state | external protocol | manager | driver; not modelled |
| Terminals, chat channels, forges, parsers, registry, updater, browser, file watching, transfer, web handlers, front end | see `PROJECT.json` | | | I/O, adapters, pure data handling; not modelled |

What is hard: the row of a work task is shared by six kinds of parties (user
requests, pump, launches, event loop, reconcile, cancel cleanups) which all read,
await and then write; agents and events are lost; an init command may hold the
task lock for ten minutes; the process may stop anywhere.  The broker keeps its
tables under one lock, but a set-up crosses five awaits, at each of which the
child may end and four kinds of cancel may come.  The run of an automation is
settled by whoever comes first of five.  `PROJECT.json` lists each hazard at its
line.

## 2. Plan

1. `WorkTaskLifecycle` - abstract specification of the rows. **done**
2. `WorkTaskEngine` - the engine of one folder, without merging. **done**,
   with `MCWorkTaskEngine` and five configurations.
3. `WorkTaskEngineProofs`, `WorkTaskGenerationProofs`, `WorkTaskSafetyProofs`,
   `WorkTaskRequestProofs`. **done**
4. `MergeQueue` - merge slot, intents, auto merge, recovery, deliveries.
   **done**, with `MCMergeQueue` and four configurations, `MergeQueueProofs`
   and `MergeQueueSafetyProofs`, which also has that it moves rows as
   `WorkTaskLifecycle` allows.
5. `DelegationBroker` - calls, resumptions, cancels and the completed-cache.
   **done**, with `MCDelegationBroker`, two configurations and
   `DelegationBrokerProofs`.
6. `AutomationEngine` - fires, launches and settlements of an automation.
   **done**, with `MCAutomationEngine`, a configuration and
   `AutomationEngineProofs`.
7. `CompactionFence` and `SessionStream` (attach and replay) are left.
8. Every invariant and every action property that a passing run checks is proved.
   Left for a proof: an abstract specification of a delegated task, which
   `RunStep` of `DelegationBrokerProofs` comes close to.

## 3. Modules

### `WorkTaskLifecycle` (abstract)

Two variables, `status` and `seq` (the column `run_seq`), one action per
transition that the service layer offers.  It says nothing of processes: it is
the contract that two modules are shown to keep, `WorkTaskEngine` from the start of
a task on (`ImplementsLifecycle`), `MergeQueue` from its review on
(`MergesByLifecycle`, which speaks of the steps, since a merge begins with tasks
that have had their first round).

### `WorkTaskEngine`

One project folder.  A *launch* is the pair `<<t, n>>`, the n-th launch process
of task t; since a launch owns one slot token, at most one connection and
creates at most one conversation, the same pair names all four.

| Variable | Code |
|---|---|
| `row` | the `work_task` row |
| `convStatus` | `conversation.status` |
| `launch`, `taskLock` | the spawned `launch` futures; `task_locks` |
| `agent`, `asks` | connections in the manager, requests their agents have open |
| `index`, `launching`, `setup`, `awaiting` | `TaskEngine.index`, `launching`, `setup_children`, `awaiting` |
| `bus`, `worker` | what the engine, and a lifecycle worker, have not consumed |
| `loop`, `pump`, `cancels`, `booted` | the event loop, the pump and the cleanups between two awaits |
| `lossy` | history: this process has lost an event, or the requests of a run (`retire_connection`, section 5) |

Actions are the atomic pieces of the code: one SQL transaction, one critical
section, one call into the manager.  For instance a launch goes through
`Enter` (lock, row, kill slot), `BeginSetup` (queued to preparing), `Gate`,
`StartInit`/`SetupDone`/`SetupFailed`/`InitKilled`, `Spawn` (second gate and
agent), `Bind` (resumed session only), `Compose` (register in the index),
`Mark` (preparing to running), `Prompt`, then `Fail` and `Release`; each can
lose to a cancel or to a newer generation.

Choices a reader should know:

- *Pump callers coalesce.*  `pump_folder` is serialized by a lock; any number
  of waiting callers amounts to a pass that is owed (`pump.owed`).  The set of
  launches in flight is a snapshot taken when an iteration starts
  (`pump.seen`), as in the code.  The order of the queue is abstracted: any
  queued task may be next.
- *Events.*  The bus is a FIFO; the engine's receiver may lose the oldest
  event (`Lag`), the lifecycle workers, one per connection, run at their own
  pace.  A tool call of an agent is answered before its turn ends, so
  `AgentReports` is atomic.
- *Boot.*  `boot_reconcile_interrupted` is the first statement of a process:
  requests may be accepted before it, but no launch gets going (`booted`).
- *A cancel's cleanup* works from the context its transaction froze; the kill
  of a setup comes before the task lock, the rest under it.
- *Retiring a connection*: with several surviving connections the code looks
  at one of them, in hash-map order; the model takes any.  When it is not the one
  whose run is live, that run's requests are forgotten, and `lossy` says so.

### `MergeQueue`

How the reviewed tasks of one folder reach the base branch or a pull request.
It takes the life of a task up where `WorkTaskEngine` leaves it, in review, and
reduces a returned task's next round to the steps of its row (`Rework`): queued,
preparing, running, review.

| Variable | Code |
|---|---|
| `row` | the columns of the row that merging uses: status, `run_seq`, connection, `last_error` (is there a banner), `pending_merge` (`pending`), `merge_state` (`op`, `opt`, `pre`) |
| `base`, `head`, `pushed` | git and the forge: the tasks the base branch contains, how many commits it has, the tasks whose pull request is up to date |
| `dsp` | the calls of `merge_task_inner` under way, of a click, a drain or a sweep |
| `launch`, `agent`, `index`, `turns` | the launch of each merge generation, its agent, the engine's index, completions not consumed |
| `inflight` | `TaskEngine.merging`, the claims in flight |
| `loop`, `recovery`, `delivery` | `on_turn_complete`, `recover_merging` (one per task), `deliver_pr` (one per task) between two awaits |
| `wish`, `latched` | history: the merge the user last asked for, the tasks whose last attempt failed |

A dispatch goes through `Click`, or `Scan`, `DrainNext`, or `DrainEmpty`,
`AutoRead`; then `TakeLock` (the folder lock, which it holds in `check`, `park`
and `begin`), `Park` or `Check`/`Refused`, and `Begin`, which hands the claim to
the launch.  `RefuseClear` and `Banner` are the two writes of
`refuse_queued_merge`.  Choices a reader should know:

- *Pumps.*  `merge_pump` is spawned after every settle and on every tick; any
  idle dispatcher may scan at any time.  The code scans a changed queue again
  up to three times; the model any number of times, or not at all.
- *Settles* take and release the folder lock within their step: what git says
  is read and written with the lock held.
- *Git* either contains a task's work or not; an agent lands what it was asked
  to and moves `head`; `Commit` is anybody else's commit.  A round that is taken
  back has new work, which neither `base` nor `pushed` contains.
- *Places in line* are timestamps in the code, numbers here.

### `DelegationBroker`

One parent conversation, its connections 1, 2, ... and the tasks it delegates.
A *call* names its handle, the connection it spawns if it does and, when it
delegates, the task it creates; a run of a task is the call that started or
resumed it.

| Variable | Code |
|---|---|
| `call` | the calls of `start_delegation` and `resume_delegation` under way: where, for which task and parent, on which connection, whether they hold the claim, and (`early`) what reached the broker for them before the park: the outcome of the child's turn, its death, the cancel of the parent, and which of the child's ends are older than the cancel |
| `running`, `cache`, `resuming` | `PendingInner.running`; `completed`, `completed_order` and `completed_bytes`; `resuming` |
| `handle` | `pre_canceled`: what became of the client's cancel of a call |
| `conn`, `events`, `worker` | the children in the manager; what a child's lifecycle worker has not consumed; what it is about to tell the broker |
| `convRow` | `conversation.status` of the children |
| `teardown` | the settlements of runs (`finalize_parent_cancel`, `teardown_canceled_child`) between two awaits |
| `parent` | per connection of the parent: its token and its place in the manager |
| `shown`, `verdict`, `misled` | history: the cards open and closed, the first end of each run that reached the broker, the runs that got the end of an earlier one |

A call goes through `Dispatch`, `Enter` (registered as in flight), for a
resumption `MemGate` (memory, claim) and `RowGate`, then `Spawn`, `Send`
(reserve, prompt), `Park` (the first of what arrived decides) and
`SecondCheck`; `NoSpawn` and `SendError` are its errors.  `CompleteCall` and
`ChildGone` are the ends of a child, `CancelHandle`, `CancelTask`,
`CancelByParentTurn` and `CancelByParent` the cancels.  What the broker does
under its lock is one step.  Choices a reader should know:

- *Bytes* are counted in results that have a text: only a completed turn
  leaves one.  `Cap` 0 is no cap, as in the code.
- *Cancel tokens.*  Set-ups are flagged with a stamp.  The park compares it with
  the stamp of one end of the child; `before` keeps the outcomes of those
  comparisons.
- *Leaving the line.*  `Retained` removes one occurrence of a task where
  `order.retain` removes all: a line lists a task once, which `BooksBalance`
  says and `BooksAgree` proves.
- *A late call* (`late`): a dispatch may reach `register_inflight` after its
  parent was swept, the gap the comment at `broker.rs` 2299-2308 documents.
- *A lost cancel.*  `cancel_by_external_handle` (`broker.rs` 3126) gives the
  lock back before it buffers the handle, the call's last look at the buffer can
  come between (`CancelHandle`, `SecondCheck`, `BufferHandle`): the handle stays
  buffered and the run goes on to its own end.
- *An end of the wrong run.*  `complete_call` knows the task, not the run: the
  end of an earlier run still with its worker can be taken for the run of a
  resumption.  `misled` records it, `FirstEndWins` leaves those runs out.

### `AutomationEngine`

One automation.  A *run* is named by its fire, and so are the connection and the
conversation the fire makes; fires are numbered as they come.

| Variable | Code |
|---|---|
| `auto`, `run` | the rows: enabled, deleted, next instant, badge; status and whether a conversation is attached |
| `now` | the instants of the cron expression that have passed |
| `edit` | the calls of `update` and `set_enabled`: what they have computed and are about to write |
| `fire`, `lock` | the calls of `run_automation`, with the instant they are for and when it was claimed; the automation's `fire_lock` |
| `index`, `conn`, `conv` | the engine's index, the connections, `conversation.status` |
| `bus`, `worker` | completions the loop, and events a lifecycle worker, have not consumed |
| `cancel`, `loop` | `cancel_run` per run and the engine's loop between two awaits |
| `past` | history: runs whose work was done, conversations the user marked as finished, those a restart or the user left in progress, failures the user has seen, faults |

A fire goes through `Claim` or `Click`, `Begin` (overlap guard and run row),
`Gate`, `Spawn`, `CreateConversation`, `Attach`, `LastGate` and `Prompt`;
`FileTask` and `SettleTask` are the automations that file a work task.  A run is
settled by `OnEvent`, by `Conclude` (the end of `List`, `SortOut`, `LookUp`,
`ReadConversation`: reconcile reads row, index, manager and conversation one
after the other), by `CancelRun`, by `FailRun` or by `Restart`.  Choices:

- *A write that fails* is a fault of `Settle`, `Attach`, `CreateConversation` and
  `Begin` (the row is there and `start_run` cannot read it back): the caller goes
  on as the code does.  So is a prompt that is refused by a connection that is up.
- *Edits* take two steps: `SetEnabled` reads the row and computes the next instant
  from the clock, `WriteEdit` writes both without a condition
  (`automation_service.rs` 337, 356), and a claim or a deletion may come between.
  An edit keeps the cron expression.
- *Marks.*  `MarkConversation` is `update_conversation_status`: the sidebar and the
  header offer every status, on a conversation in progress too, and reconcile
  takes a conversation that is marked as finished for a run that succeeded.
- *Overdue.*  `GrowOld` is the passing of `MAX_RUN_MINUTES`; no launch takes as
  long, and for a run in the index the clock makes no difference.
- *The sweep of idle connections* is what recovers a completion that was lost
  while its connection lives; see fairness.

### Proof modules

`WorkTaskEngineProofs` (types and the refinement), `WorkTaskGenerationProofs`,
`WorkTaskSafetyProofs` and `WorkTaskRequestProofs` for the engine,
`MergeQueueProofs` (types) and `MergeQueueSafetyProofs` for the merge queue,
`AutomationEngineProofs` for the automations, `DelegationBrokerProofs` for the
broker, see section 6.

## 4. Runs

Bounds of `WorkTaskEngine`: `MaxLaunches` launches and `MaxSeq` generations per
task, `MaxBus` request events the engine is behind (completions are always
accepted), `MaxCleanups` cancel cleanups under way at a time, `MaxFaults` dead
agents, lost events, failed writes and restarts, together.  `NoLaunch` is the
null value.  Two generations and two launches of one task are what the hazards
of the list need, but for the launch slots: finding 3 takes a third launch.  The
budget needs two tasks.

| Run | Instance | Shows |
|---|---|---|
| `engine_handover` | 1 task, 2 generations, 2 launches, an agent with two requests; 1.3 M states | `TypeOK`, `OnePromptPerGeneration`, `NoOrphanAgent`, `SetupIsKillable`, `SlotIsOwned`, `AwaitingIsAccurate` |
| `engine_budget` | two tasks, `max_concurrent` 1, `auto_process`, turns that are cancelled, a verdict; 0.75 M states | `LaunchBudget` |
| `engine_liveness` | one generation, two launches, a request, 1 fault or restart, `FairSpec`; 76 K states | `ImplementsLifecycle`, `QueuedLeaves`, `EndedRunSettles`, `CancelStops`, `SetupStops` |
| `engine_review` | expected violation | finding 1 |
| `engine_ownership` | 3 launches; expected violation | finding 3 |
| `merge_slot` | 2 queued tasks, 2 dispatchers, 2 sets of options, 1 further request; 1.8 M states | `OneLanding`, `LastWordWins`, `InLine` |
| `merge_auto` | 1 task, 3 generations, 2 dispatchers, `auto_merge`, foreign commits, a fault, a crash; 1.1 M states | `TypeOK`, `DoneIsTrue`, `NoUnattendedRetry`, `MergesByLifecycle` |
| `merge_settle` | 2 tasks, one of an issue, 1 dispatcher, a fault, a crash, `FairSpec`; 61 K states | `QueueDrains`, `MergeSettles` |
| `merge_dispatch` | expected violation | finding 2 |
| `delegation` | 3 calls, two of which delegate or resume and one resumes and may be cancelled by its client, a cap of one result; 1.0 M states | `TypeOK`, `BooksBalance`, `FirstEndWins`, `OneRunPerTask`, `NoOrphanChild` |
| `delegation_parents` | 2 calls, 2 connections of the parent, turns that fail or are cancelled, one connection lost, `FairSpec` | `ChildrenGoWithParent`, `RunSettles`, `CardCloses`, `ChildrenFollowParent` |
| `automation` | 2 fires, the second of which may be by hand, 2 instants, 1 launched run, 1 fault, restart, edit or mark, `FairSpec`; 0.61 M states | `TypeOK`, `AgentServesRun`, `InstantFiresOnce`, `BadgeCounts`, `SuccessIsEarned`, `RunEnds`, `RunIsCleared` |

For the merge runs, `MaxSeq` generations per task, `MaxAsks` merges, returns and
deliveries the user asks for (those found waiting at the start included),
`MaxHead` commits on the base, `MaxCrashes` and `MaxFaults`; `Room` keeps the
bound on generations from stopping a dispatch half-way.  Two tasks contend for
one slot, and the second dispatcher is what a first one can lose to; in
`merge_slot` both tasks are found in line, as a third one has left them.
`merge_auto` has no task of an issue, so `DoneIsTrue` and `MergesByLifecycle` are
model-checked of landings; of deliveries they are proved (`DoneStaysTrue`,
`MergesKeepLifecycle`).

For the broker, `Starts` are the calls that may delegate (every call may
resume), `Cancelable` those whose client may cancel them, `MaxParents` the
connections of the parent one after the other, `MaxLosses` the connections, of
children and of the parent, that die or are closed from outside.  Three calls
are two tasks that compete for the cache and a resumption, or a task resumed
twice at a time.  For the automation, `MaxRuns` fires, of which `ByHand` may be by
hand and `MaxLaunches` get past the overlap guard, `MaxTime` instants, `MaxEdits`
edits, and `MaxFaults`, which counts restarts, agents that die, completions the
bus drops, writes that fail, prompts that are refused, deletions, edits and marks
together.  Two fires are what the overlap guard and the claim of an instant can
go wrong for, whichever of them is by hand: the guard does not ask.  With two
instants a claim may come late and catch up, and with one edit an instant may
fire twice: both happen in the run, and so does a success that only a mark
accounts for.  More launches, edits and faults are what the proofs are for.

Every task, every call that may do the same, and every request of an agent, is
interchangeable: the safety runs that have two use symmetry; the liveness runs
and the refinement do not.  Deadlock is not checked: a board whose tasks are all
done or canceled, with the bounded launches used up, a parent that is gone, and
an automation whose bounded fires are over, really have nothing to do.

**Fairness** (`FairSpec`).  Tokio runs every task that is ready: weak fairness
of the pump, of each launch, of the cancel cleanups of each task, of the event
loop and of boot.  The reconcile tick and the idle sweep recur for ever: weak
fairness of `ReconcileRead`, `AbandonSetup`, `ReconcilePump`, `IdleSweep`.
Nothing is assumed of the user, of an init command (`SetupDone` may never
come), of an agent's work, of failures.  `EndedRunSettles` does not even need
the lifecycle workers to run: reconcile settles whatever they wrote.

In `MergeQueue` the same holds of each dispatcher, each launch, each delivery,
the event loop, and of `recover_merging` and the idle sweep, which recur.
`QueueDrains` adds its own premise: the agents that land others do not work for
ever.  `MergeSettles` counts a working agent as progress.

The broker's calls, its settlements and the lifecycle workers run on, and the
guard of a connection whose loop has ended does; a child may work for ever, and
`RunSettles` and `CardCloses` start when nobody works on the run any more.  In
`AutomationEngine` launches, cancels, workers and the engine's loop run on; agents
end their turns, runs grow old, and the sweep of idle connections is switched on
(`DEXTRA_ACP_IDLE_TIMEOUT_SECS`).  These are one disjunction, `Onward`, under one
weak fairness: a fire takes finitely many such steps, so that it asks no more than
a fairness of each would, and TLC is quicker with it.  Reconcile, which recurs for
ever, has its own.  No fairness of a completion on the bus is
assumed (`OnEvent`): whatever it does not settle, reconcile has to.  `RunEnds` says
that time and again no run is running, since any one of them closes the overlap
guard, and `RunIsCleared` that time and again nothing is left of those that are
settled; with finitely many runs that is to say that each one ends and is cleared.

`SlotIsOwned`, `SetupIsKillable` and `LaunchBudget` are stated of tasks whose
launches have all been the pump's (`PumpedOnly`): the launch of a return does
not wait for the pump by design, and finding 3 is what comes of it.
`PreparingIsOwned` is the code's own, unrestricted claim.  Faults and restarts
are left out of `engine_handover` and `engine_budget` to make room for requests
and for a second task; the proofs of their properties have them.  `InLine` compares places in line and not waiting times:
with three tasks a refused merge that keeps its old place is parked again while a
later one is on its way, and a task whose launch is in flight is passed over, so
that who waited longest is not always next.  `AwaitingIsAccurate` is stated for
processes that lost no event and no requests of a run (`~lossy`): a lost request or
answer is not repaired until the run ends, although the code logs `reconcile will
recover` (`engine.rs` 474-484); how a run's requests are lost is in section 5.

## 5. Findings

1. *A refused follow-up lands in review.*  A returned task resumes its
   conversation, whose status is still the `pending_review` of the earlier
   round.  When the agent dies between `mark_running` and the prompt, the prompt
   is refused; the failing launch cannot fail the row, which is already
   `running`; reconcile then finds a live row without a connection and settles
   it from that stale status (`engine.rs` 5709): the task is back in review and
   nobody worked on the feedback.  Run `engine_review`.
2. *Recovery meets a fresh dispatch.*  `merge_task_inner` claims the in-flight
   registry to "keep recovery away from the dispatch window" (`engine.rs` 3721).
   `recover_merging` asks the registry first and reads the row afterwards.  When
   the claim of a failed launch is given back in between and the user merges
   again, recovery reads the new generation, finds no connection on it, and
   bounces it while its launch is under way: neither `merge_landed` nor
   `back_to_review` is bound to a generation there, and a check of the
   registry after the row was read would do.  Run `merge_dispatch`.
3. *A setup nobody owns.*  A return queues its row and spawns a launch that
   claims its slot later (`engine.rs` 1040); a pump pass may launch the same
   generation meanwhile, and `claim_launch_slot` (1000) overwrites whatever is
   there.  The two serialize on the task lock, and one of them finds the row
   taken; but when the one that holds the slot fails and the user retries, the
   other goes through the new generation, and the release of the failed one drops
   the slot under it, which the comments at 1011 and 1072 say cannot be: reconcile
   may queue a live setup again.  With three launches the same double claim lets a
   pass count such a task as idle, and gives the kill slot of a setup to
   nobody, so that `LaunchBudget` and `SetupIsKillable` hold of the pump's
   launches only.  Run `engine_ownership`.

Divergences seen while modelling, which no run states:

- `retire_connection` (`engine.rs` 2823-2850) looks at one of the surviving
  connections of a task, whichever the hash map has first, as if there were only
  one.  With three generations registered (the cleanups of two cancels lag), it
  may be the other cancelled one: then the requests of the live run are dropped,
  and one answer later the card reads running while the agent is still parked,
  against the comment above it ("clearing it while another generation still owns
  the row would drop ITS pending permissions").  TLC finds it in an instance with
  three launches and two cleanups, too large to be kept as a run.  The model takes
  the step and remembers it (`lossy`); `AwaitingIsAccurate` speaks of processes
  that have not taken it, and holds of those for any number of launches
  (`BoardTellsTruth`).
- `on_turn_complete` turns an `end_turn` with a reported `blocked` into a failure
  (`engine.rs` 2965).  When that event is lost, `reconcile_once` (5714) settles
  the same run into review without reading the verdict.
- `begin_delivery` (`service` 2074) leaves `pending_merge` alone, against
  `work_task.rs` 88-91 ("a task that leaves review never carries a stale
  intent").  When the delivery bounces, the pump dispatches the merge.
- The comment of `refuse_queued_merge` (`engine.rs` 5216-5222) has both its
  writes bound to the refused intent; the second, `set_review_error`, is bound to
  the generation only, so that a merge queued between the two gets the banner of
  the older one.
- `automation/engine.rs` 8-11 has reconcile recover a lost completion at the next
  tick.  A run whose connection is in the index and lives is left alone; it is
  the idle sweep that ends it, which can be switched off, or held off by a tab
  that keeps the session alive.
- `claim_due` advances the schedule by a compare-and-swap so that "exactly one
  runner fires the slot" (`automation_service.rs` 611-613), but `update` and
  `set_enabled` write the instant they computed an await ago without a condition
  (337, 356).  The edit computes instant 1, instant 1 passes, it is claimed, the
  edit writes it back and the next tick claims it again.  `InstantFiresOnce` counts
  that: a further fire for each such edit, and for nothing else.
- A user may mark the conversation of a run that is still running
  (`commands/conversations.rs` 2603-2628).  When the agent is then gone, or its
  index entry lost, reconcile reads the mark (`automation/engine.rs` 880) and
  settles a run as succeeded no turn of which ended.  `SuccessIsEarned` names that
  case.
- `on_event` disconnects the agent at once.  If the lifecycle worker has not read
  the completion by then, the conversation of a run that succeeded reads
  `cancelled` and not `pending_review`.
- The broker: the record of a task whose parent is gone may still be cached after
  `drop_completed_for_parent`; a failed task becomes resumable once its record is
  evicted, or from another connection of the parent; the terminal event of an
  earlier connection cancels the row of a run that was resumed since.

## 6. Proofs

The proofs about the engine assume only the named assumptions of
`WorkTaskEngine` on its constants: bounds are naturals, `AutoProcess` is a
Boolean, the stop reasons and verdicts are those the code knows, `NoLaunch` is
not a launch, and the folder has finitely many tasks (needed to count them).
Those about merging assume those of `MergeQueue`: bounds are naturals, the tasks
found in line at the start are finitely many, were asked for, and leave room for
their generation, and no intent of the user's is called `none` or `auto`.  Those
about the automations assume `BoundAssumption` of `AutomationEngine`: bounds are
naturals.  Those about the broker assume those of `DelegationBroker`: `NoCall` is
not a call, `Starts` and `Cancelable` are calls, the stops are those the workers
tell apart, bounds are naturals and the parent has a connection.  The calls need
not be finitely many: that the runs under way are is part of the invariant.  No
proof assumes fairness.

- `TypeCorrect` (`Spec => []TypeOK`), through the inductive `TypeInv`.  TypeOK
  itself is not inductive: that a live row names a connection and a conversation
  needs that a launch past its spawn has a conversation, and that a locked
  launch knows its generation; the events and the loop carry connections whose
  launches exist.  `TypeInv` has one named part per group of variables, and one
  lemma per group of actions.
- `PromptedOnce` (`Spec => []OnePromptPerGeneration`), through `GenInv`: a
  prompted launch has returned or is returning; a launch that may still prompt
  is apart, in generation or by the row's status, from every launch of its task
  that has been lit, that is, has made the row live or been prompted.  The
  argument is the one the code relies on: `begin_setup` and `mark_running` are
  conditional on status and `run_seq`, a row that has been live in a generation
  never returns to `queued` or `preparing` in that generation, and a claim opens
  a new one.
- `EngineImplementsLifecycle` (`Spec => ImplementsLifecycle`): each action maps
  to one transition of `WorkTaskLifecycle` or a stutter; `Boot` maps to
  `FailInterrupted`.
- `PumpOwnsSlots` (`Spec => []SlotIsOwned`), through `SlotInv`.  That a launch of
  the pump keeps its slot needs to know that nobody else gives it away:
  `SlotsSeen`, that a pass which is about to launch has in `seen` every slot the
  pump has given (a slot given later than the snapshot is given by the pass
  itself, which then takes a new one); `LockHeld` and `SlotlessIsDirect`, that the
  lock is held by the launch it was given to and a launch without a slot is a
  return's.
- `BudgetHolds` (`Spec => []LaunchBudget`): relative to `SlotInv`, the limit is
  inductive as it stands.  The tasks counted are those that are live or hold a
  slot; a row goes live by `mark_running` of a launch that already counts, and a
  pass that gives a slot has just found fewer than the limit.  This is the only
  proof that counts, with the library's facts on cardinality.
- `CancelReachesSetup` (`Spec => []SetupIsKillable`), through `KillInv`, which asks
  for the kill from the gate on, when there is no child yet, and says that the kill
  slot belongs to the launch inside the lock: a cancel after the gate finds the
  slot reserved, one before it is seen by the gate.  A cancel that starts before
  the boot reconcile meets no setup (`Unbooted`).
- `NobodyOrphaned` (`Spec => []NoOrphanAgent`), through `AgentInv`.  What could
  orphan an agent is a settlement behind an await: the completion on the bus, the
  loop between its two awaits, a reconcile that has read a row.  `TurnsAreOver`
  and `LoopTurnIsOver` say that a completion comes from an agent that has stopped;
  `ReconcileHolds` that what reconcile read is still so, or its generation is
  past.  `WorkingIsAccounted` extends the property to the launch that is about to
  prompt, and `WorkingIsKnown` has it registered, so that the cleanup of a cancel
  finds it.  Uses `GenInv` and `Unbooted`.
- `BoardTellsTruth` (`Spec => []AwaitingIsAccurate`), through `RequestInv`.  The row
  is written from a table in memory, the table from events on a bus, and the events
  come from an agent; what each knows of a request lags behind the one before.
  `RequestsAreTold` says that whatever happened to a request is told by somebody:
  the last event of it on the bus, or the engine's table once it has none.
  `RowsTell` says it of the row: it shows what the table says, or the event loop
  holds the flip that will make it so.  Both need that nobody else speaks for a run
  (`SetsArePrompted`, `UnpromptedIsQuiet`: what is said of a connection was said by
  its agent after its prompt; `LiveNamesItsRun`: a live row names the connection
  that serves its generation), for which a connection of an earlier generation
  that is retired must not take the entries of the live one with it, as in section
  5.  TLC checked `RequestInv` first: the whole of an instance with two events on
  the bus, and random behaviours with three launches and two cleanups.

Of `MergeQueue`, all its safety properties, from one classification of what a
step may do to a task (`Moves`, lemma by lemma for each action):

- `MergeTypeCorrect` (`Spec => []TypeOK`), through `TypeInv`: a generation is
  given only where `Room` left one, so the operations under way are counted in.
- `FolderLandsOne` (`Spec => []OneLanding`), through `SlotInv`: one dispatcher at
  a time is inside the folder lock (`OneHolder`), and past its look at the slot
  nothing is landing (`SlotIsFree`).
- `UserHasLastWord` (`Spec => []LastWordWins`), through `WishInv`, which follows
  the wish of the user status by status (`WishIsKept`).
- `DoneStaysTrue` (`Spec => []DoneIsTrue`), through `DoneInv`: a delivery about to
  settle has pushed, or its generation is past.
- `FailureWaits` (`Spec => NoUnattendedRetry`), through `LatchInv`: a task whose
  last attempt failed keeps its banner while it is in review, and the sweep looks
  for the banner again under the lock.
- `QueueIsFair` (`Spec => InLine`), from what a drain holds of its scan.
- `MergesKeepLifecycle` (`Spec => MergesByLifecycle`): a step writes one row at most
  (`OneRow`), and each way to move a task is one transition of `WorkTaskLifecycle`
  or leaves status and generation alone.  What makes it true is the guard in the
  writes: a settle and a recovery that both took the row for merging come one after
  the other, and without the condition on the status in `merge_back_to_review`
  the second would send a landed task back to review (in nineteen steps, which is
  the mutant of `merge_auto`).

Of `AutomationEngine`, all its invariants:

- `TypesHold` (`Spec => []TypeOK`), through `TypeInv`, which leaves the bound of
  the badge to `BadgeInv`.
- `InstantOnce` (`Spec => []InstantFiresOnce`), through `SlotInv`: the fires an
  instant went into, and one more if the schedule has it due, are at most one more
  than the edits that took the schedule back.  A claim moves the instants it
  catches up with from due to fired, and what it leaves due is later than all of
  them, since `compute_next_run` is strictly after the present.  A write of an
  edit may make an instant due again; if the instant went into a fire, the edit
  had computed a time no later than a claim, and so counts.
- `SuccessEarned` (`Spec => []SuccessIsEarned`), through `EarnedInv`: wherever a
  settlement as succeeded takes its evidence from (the completion on the bus, the
  one the lifecycle worker has yet to read, the conversation, what reconcile has
  read of it, a task about to be settled as filed), the work behind it is done or
  the user marked the conversation.  No step undoes work or a mark, so evidence
  that is stale is still true.
- `BadgeRight` (`Spec => []BadgeCounts`), through `BadgeInv`: what the user saw
  fail stays failed, and a fire that has not begun has no run that its begin
  could overwrite.  `SettleRun` finds the run running, so it was not among those
  that failed and the count grows by exactly one.
- `AgentServes` (`Spec => []AgentServesRun`), through `ServeInv`.  A connection
  that is up is on its way into the index or in it; a turn begins once, at the end
  of the launch, under the fire_lock, where the run is running or a cancel waits
  for the lock; a completion on the bus means that the turn is over.  The part
  that makes it inductive is `Looked`: the loop concludes only of a run it found
  in the index, with a conversation, or overdue, and by then its connection is
  gone; since no step brings one back (`LaterStays`), what reconcile read stays
  good enough although run, index, manager and conversation were read one after
  the other.

Of `DelegationBroker`, all its invariants, from one invariant `Inv` of ten parts.
Three tables say what any step does: `CallStep` to the calls, `RunStep` to the runs,
the results and the settlements, `VerdictStep` to the first ends.  Most parts
follow from the tables, without looking at the actions again.

- `RunsAlone` (`Spec => []OneRunPerTask`), through `ClaimInv`.  A resumption past
  its gate holds the claim of its task until it returns and no task has two
  holders (`OneHolder`); the call that created the task has returned by then
  (`ResumesOld`).  So two calls that are setting up a run of one task are the
  same (`BusyAlone`), and while there is one the task has no run (`WaitsAlone`).
- `ChildrenGo` (`Spec => []ChildrenGoWithParent`), through `SweepInv`: under a
  swept connection a set-up is flagged, so that its park does not start a run.
  The sweep flags and drains in one step; were it two, a call could park between.
- `ChildrenAnswered` (`Spec => []NoOrphanChild`), through `OrphanInv`: a run that
  is taken out of `running` has a settlement that ends with the child's
  disconnect (`Answered`), and a set-up that fails disconnects the child itself.
- `FirstEnd` (`Spec => []FirstEndWins`), through `EndInv`, which speaks of the
  calls before the park too: what they have buffered is an end that the history
  agrees with.  It needs `LineInv`, that the turn of a run is with the agent, in
  the queue of its connection's worker or in the worker's hands, and in one place
  only; else a run could be told its end twice.
- `BooksAgree` (`Spec => []BooksBalance`), through `BooksInv`: parent by parent,
  the line lists its results once and the bytes are the texts of the line
  (`BooksAt`).  The eviction is the least number of the oldest results after which
  the rest fits; that there is one follows from the order of the naturals.  The
  drain of a cancel appends the results of its runs in an order the code does not
  fix, and that there is an order needs the runs to be finitely many.
- `BrokerTypes` (`Spec => []TypeOK`), from the parts above and `RestInv`.  That the
  bytes stay natural numbers, although each removal subtracts, is `BooksInv`.

Only model-checked: liveness, of all modules (fairness and ENABLED are beyond the
prover).  `ReviewIsEarned`, `PreparingIsOwned` and `DispatchIsSpared` are what the
code claims and a run refutes.

## 7. Not modelled

Of merging: the worktree cleanup that follows a landing, the forge write-back,
strategies and messages, pull requests that others close or merge while the
program is down, and preflight as a gate of the auto merge (it only ever holds a
candidate back).  In `MergeQueue` a reviewed task is merged, delivered, returned or
completed, and a returned one comes back: that it may be cancelled, or fail, or be
caught by a restart, is in `WorkTaskEngine`.  In `WorkTaskEngine` a reviewed task is accepted or returned.
Further: delegated children, compaction, preflight after a review, templates,
plans other than the start they cause, titles, statistics and notifications.

Of the broker: the tracker that matches tool calls of the parent with delegations
(`broker.rs` 1265-2225, data about cards), the status query and its wait, changes
of the limits at run time, the cap on buffered handles, the lag of the bus, and
users who drive a child's session in a tab of their own.  Nor the database errors of
the lifecycle worker (`lifecycle.rs` 152-188, 294, 416-424), which lose the end of a
turn: `RunSettles` and `CardCloses` are checked without them.

Of the marks a user or a chat channel puts on a conversation, only those on the
conversations of an automation: that reconcile takes a marked conversation for a
finished round of a work task too (`engine.rs` 5714) is not in `WorkTaskEngine`.
There, `Bind` has no database error, and the boot reconcile is one step which
precedes every launch (`booted`): in the code the order in which the tasks are
spawned, and time, see to that.  In `MergeQueue` a crash between the two writes of
`refuse_queued_merge` loses the refused request without a banner, which the model
has and no property speaks of.

Of automations: edits of the cron expression or the kind of trigger,
`last_run_status` (two writes of `start_run`, which a cancel can
overtake), the pruning of old runs, working trees, drafts, the parsing of cron
expressions, several automations at once, requests that come before the boot has
reconciled, and launches that take longer than `MAX_RUN_MINUTES`.

And the components of section 1 that the plan has left or that are plain I/O.
