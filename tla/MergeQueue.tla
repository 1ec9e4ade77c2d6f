------------------------------ MODULE MergeQueue ------------------------------
(***************************************************************************)
(* How the reviewed tasks of one project folder reach its base branch, or  *)
(* a pull request.  A folder lands one task at a time: merge_task begins a *)
(* merge generation under the folder's git lock, or parks the user's       *)
(* request on the row (pending_merge) while the slot is busy.              *)
(*                                                                         *)
(*  - dispatchers run merge_task_inner: for a click, for the oldest queued *)
(*    merge (drain_merge_queue) or for an unattended one (auto_merge_sweep)*)
(*  - the launch of a merge generation spawns an agent in the task's       *)
(*    worktree and prompts it to land the work itself;                     *)
(*  - the event loop settles a generation whose turn completed, from what  *)
(*    git says of the base branch;                                         *)
(*  - recover_merging, started by every reconcile tick and at boot, settles*)
(*    the merging rows it takes for abandoned;                             *)
(*  - deliver_pr pushes the task's branch instead: the row is merging too. *)
(*                                                                         *)
(* The generation s of task t has at most one agent, which <<t, s>> names. *)
(* A pump (merge_pump) runs after every settle and on every tick: here, at *)
(* any time, and it does not wait for the launch it starts, whose failure  *)
(* only makes it scan again.  A returned task comes back to review by the  *)
(* steps of its row alone, WorkTaskEngine has who takes them and what they *)
(* may meet.  Like the engine, all of this moves a row only as the         *)
(* lifecycle of WorkTaskLifecycle allows.                                  *)
(***************************************************************************)
EXTENDS Naturals, FiniteSets

CONSTANTS
  Tasks,       \* the folder's tasks
  Sourced,     \* those that came from an issue: they may be delivered
  Waiting,     \* those whose merge is queued when we begin to watch
  Intents,     \* the options of a merge (message, worktree, instructions)
  Dispatchers, \* the calls of merge_task that may run at a time
  AutoMerge,   \* the folder's auto_merge setting
  MaxSeq,      \* model bound: generations per task
  MaxAsks,     \* model bound: merges, returns and deliveries the user asks for
  MaxHead,     \* model bound: commits on the base branch
  MaxCrashes,  \* model bound: restarts
  MaxFaults    \* model bound: failed launches, dead agents, lost completions

ASSUME TaskAssumption == Sourced \subseteq Tasks /\ Waiting \subseteq Tasks
ASSUME BoundAssumption == /\ MaxSeq \in Nat \ {0} /\ MaxAsks \in Nat
                          /\ MaxHead \in Nat /\ MaxCrashes \in Nat
                          /\ MaxFaults \in Nat
ASSUME WaitingAssumption == /\ IsFiniteSet(Waiting) /\ Cardinality(Waiting) <= MaxAsks
                            /\ Waiting # {} => MaxSeq > 1
ASSUME SettingAssumption == AutoMerge \in BOOLEAN
ASSUME IntentAssumption == {"none", "auto"} \cap Intents = {}

VARIABLES
  row,       \* the table
  base,      \* git: the tasks whose work the base branch contains
  head,      \* git: the number of commits on the base branch
  pushed,    \* forge: the tasks whose work their pull request shows
  dsp,       \* the dispatchers
  launch,    \* per task, the launch of its merge generation
  agent,     \* per task and generation, its agent's connection
  index,     \* TaskEngine.index: the agents registered for correlation
  inflight,  \* TaskEngine.merging: who holds a task's in-flight claim
  turns,     \* completions the event loop has not consumed
  loop,      \* the event loop between two awaits
  recovery,  \* per task, recover_merging between two awaits
  delivery,  \* per task, deliver_pr between two awaits
  clock,     \* places given in the queue
  wish,      \* history: the merge the user last asked for and did not get
  latched,   \* history: tasks whose last attempt failed, not touched since
  crashes,   \* history: restarts so far
  faults,    \* history: failed launches, dead agents, lost completions so far
  asks       \* history: merges, returns and deliveries asked for so far

bounds   == <<crashes, faults, asks>>
table    == <<row, clock, wish, latched>>
git      == <<base, head, pushed>>
agents   == <<agent, index, turns>>
engine   == <<loop, recovery, delivery, inflight>>
vars     == <<table, git, dsp, launch, agents, engine, bounds>>

----------------------------------------------------------------------------
(* Types *)

NoIntent == [opt |-> "none", at |-> 0]
Queued == [opt: Intents, at: 1..MaxAsks]
Claims == Queued \cup {NoIntent}
NoRecovery == [pc |-> "idle", seq |-> 0, pre |-> 0]
Seqs == 1..MaxSeq

\* opt is what the merge state records: the options of the generation.
\* Afoot is a returned task on its way back to review.
Afoot == {"queued", "preparing", "running"}
Row == [status: Afoot \cup {"review", "merging", "done"}, seq: Seqs,
        conn: 0..MaxSeq, error: BOOLEAN, pending: Claims,
        op: {"none", "land", "deliver"}, opt: Intents \cup {"none", "auto"},
        pre: 0..MaxHead, kind: {"none", "merged", "delivered", "accepted"}]

Scanned == [task: Tasks, seq: Seqs, claim: Queued]
Locked == {"check", "park", "begin"}
Dispatcher ==
  {[pc |-> "idle"]}
  \cup [pc: {"queue", "autos"}, snap: SUBSET Scanned]
  \cup [pc: {"auto", "lock", "refuse", "banner"} \cup Locked,
        role: {"click", "queue", "auto"}, task: Tasks, seq: Seqs, scanned: Seqs,
        opt: Intents \cup {"auto"}, claim: Claims, kept: 0..MaxAsks,
        snap: SUBSET Scanned, next: {"idle", "queue"}]

LaunchPcs == {"none", "start", "spawn", "bind", "mark", "prompt", "fail", "release"}
Launch == [pc: LaunchPcs, seq: 0..MaxSeq]
Phases == {"none", "up", "busy", "over", "gone"}

TypeOK ==
  /\ row \in [Tasks -> Row]
  /\ base \in SUBSET Tasks /\ head \in 0..MaxHead /\ pushed \in SUBSET Tasks
  /\ dsp \in [Dispatchers -> Dispatcher]
  /\ launch \in [Tasks -> Launch]
  /\ agent \in [Tasks -> [Seqs -> Phases]]
  /\ index \in SUBSET (Tasks \X Seqs) /\ turns \in SUBSET (Tasks \X Seqs)
  /\ inflight \in [Tasks -> {"no", "dispatch", "launch", "delivery"}]
  /\ loop \in {[pc |-> "idle"]} \cup [pc: {"turn"}, task: Tasks, seq: Seqs]
                \cup [pc: {"settle"}, task: Tasks, seq: Seqs, pre: 0..MaxHead]
  /\ recovery \in [Tasks -> [pc: {"idle", "listed", "free", "lock", "forge"},
                             seq: 0..MaxSeq, pre: 0..MaxHead]]
  /\ delivery \in [Tasks -> [pc: {"none", "checks", "begin", "push", "settle", "bounce"},
                             seq: 0..MaxSeq]]
  /\ clock \in 0..MaxAsks
  /\ wish \in [Tasks -> Intents \cup {"none"}]
  /\ latched \in SUBSET Tasks
  /\ crashes \in 0..MaxCrashes /\ faults \in 0..MaxFaults /\ asks \in 0..MaxAsks

----------------------------------------------------------------------------
(* The initial state: a column of reviewed tasks, some of them in line *)

InitRow(pending) == [status |-> "review", seq |-> 1, conn |-> 0, error |-> FALSE,
                     pending |-> pending, op |-> "none", opt |-> "none",
                     pre |-> 0, kind |-> "none"]

Init ==
  /\ clock = Cardinality(Waiting) /\ asks = Cardinality(Waiting)
  /\ \E place \in [Waiting -> 1..clock], opt \in [Waiting -> Intents] :
       /\ \A t, u \in Waiting : t # u => place[t] # place[u]
       /\ row = [t \in Tasks |->
                    InitRow(IF t \in Waiting THEN [opt |-> opt[t], at |-> place[t]]
                            ELSE NoIntent)]
       /\ wish = [t \in Tasks |-> IF t \in Waiting THEN opt[t] ELSE "none"]
  /\ base = {} /\ head = 0 /\ pushed = {}
  /\ dsp = [d \in Dispatchers |-> [pc |-> "idle"]]
  /\ launch = [t \in Tasks |-> [pc |-> "none", seq |-> 0]]
  /\ agent = [t \in Tasks |-> [s \in Seqs |-> "none"]]
  /\ index = {} /\ turns = {}
  /\ inflight = [t \in Tasks |-> "no"]
  /\ loop = [pc |-> "idle"]
  /\ recovery = [t \in Tasks |-> NoRecovery]
  /\ delivery = [t \in Tasks |-> [pc |-> "none", seq |-> 0]]
  /\ latched = {}
  /\ crashes = 0 /\ faults = 0

----------------------------------------------------------------------------
(* Conditional writes of the service layer *)

InReview(t, s) == row[t].status = "review" /\ row[t].seq = s
Merging(t, s)  == row[t].status = "merging" /\ row[t].seq = s
Parked(t) == row[t].pending # NoIntent

\* Mutant: the writes of a queue dispatch are not bound to its intent.
AnyIntent(d) == TRUE

\* The pending intent a dispatch of the queue is bound to; clicks are not.
SameIntent(d) == dsp[d].role = "queue" => row[dsp[d].task].pending = dsp[d].claim

\* Mutant: a dispatch is not bound to the generation it has read.
MergeableAnyRound(d) ==
  LET t == dsp[d].task
  IN /\ row[t].status = "review" /\ SameIntent(d)
     /\ dsp[d].role = "auto" => ~row[t].error /\ ~Parked(t)

\* Mutant: an unattended merge does not look at the banner when it begins.
MergeableOverBanner(d) ==
  LET t == dsp[d].task
  IN /\ InReview(t, dsp[d].seq) /\ SameIntent(d)
     /\ dsp[d].role = "auto" => ~Parked(t)

\* begin_merge: an unattended one leaves a banner and a parked merge alone.
Mergeable(d) ==
  LET t == dsp[d].task
  IN /\ InReview(t, dsp[d].seq) /\ SameIntent(d)
     /\ dsp[d].role = "auto" => ~row[t].error /\ ~Parked(t)

Faulty == faults < MaxFaults /\ faults' = faults + 1 /\ UNCHANGED <<crashes, asks>>

Ask == asks < MaxAsks /\ asks' = asks + 1 /\ UNCHANGED <<crashes, faults>>

\* Model bound: n more generations, so that what is begun can be ended.
Room(t, n) == row[t].seq + n <= MaxSeq

\* merge_landed and merge_back_to_review are conditional on the status only.
\* Either way the wish has been served or has failed with a banner.
Landed(t) ==
  /\ row' = [row EXCEPT ![t].status = "done", ![t].kind = "merged"]
  /\ wish' = [wish EXCEPT ![t] = IF Parked(t) THEN @ ELSE "none"]
  /\ UNCHANGED <<clock, latched>>
Bounce(t) ==
  /\ row' = [row EXCEPT ![t].status = "review", ![t].error = TRUE,
                        ![t].op = "none", ![t].opt = "none", ![t].pre = 0]
  /\ wish' = [wish EXCEPT ![t] = IF Parked(t) THEN @ ELSE "none"]
  /\ latched' = latched \cup {t}
  /\ UNCHANGED clock

\* Mutant: a task goes back to review from wherever it is.
BackAnyway(t) == Bounce(t)

BackToReview(t) == IF row[t].status = "merging" THEN Bounce(t) ELSE UNCHANGED table

\* Mutant: a base that has moved is taken for a landing.
MovedBase(t, pre) == head # pre

\* merge_landed_commit: the base has moved and contains the task's work.
LandedCommit(t, pre) == head # pre /\ t \in base

\* What a settle writes; git may refuse to answer.
SettleFromGit(t, pre) ==
  \/ LandedCommit(t, pre) /\ IF row[t].status = "merging" THEN Landed(t)
                             ELSE UNCHANGED table
  \/ BackToReview(t)

----------------------------------------------------------------------------
(* Dispatchers: merge_task_inner and the pump around it *)

Become(d, state) == dsp' = [dsp EXCEPT ![d] = state]
Rest(d)          == Become(d, [pc |-> "idle"])
Resume(d, pc)    == dsp' = [dsp EXCEPT ![d].pc = pc]
At(d, pc)        == dsp[d].pc = pc

\* The folder's git lock; settles take and release it within their step.
LockFree == \A d \in Dispatchers : dsp[d].pc \notin Locked
AnyMerging == \E t \in Tasks : row[t].status = "merging"

\* A dispatcher that has read the row of t: bound to its generation, it keeps
\* the place in the queue the row held at that moment.
Dispatch(role, t, scanned, opt, claim, snap) ==
  [pc |-> "lock", role |-> role, task |-> t, seq |-> row[t].seq,
   scanned |-> scanned, opt |-> opt, claim |-> claim,
   kept |-> row[t].pending.at, snap |-> snap,
   next |-> IF role = "queue" THEN "queue" ELSE "idle"]

\* The rest of the drain, when there is one.
Proceed(d) == Become(d, IF dsp[d].next = "queue"
                        THEN [pc |-> "queue", snap |-> dsp[d].snap] ELSE [pc |-> "idle"])

\* A click on merge, or a change of a queued one.
Click(d, t, i) ==
  /\ At(d, "idle") /\ row[t].status = "review"
  /\ Room(t, 1) /\ Ask
  /\ Become(d, Dispatch("click", t, row[t].seq, i, NoIntent, {}))
  /\ UNCHANGED <<table, git, launch, agents, engine>>

\* The queue as the table shows it: tasks in review with a parked intent.
Queue == {t \in Tasks : row[t].status = "review" /\ Parked(t)}
Scanning == [pc |-> "queue",
             snap |-> {[task |-> t, seq |-> row[t].seq, claim |-> row[t].pending] :
                         t \in Queue}]

\* merge_pump begins: a scan of the queue, unless the slot is taken.
Scan(d) ==
  /\ At(d, "idle") /\ ~AnyMerging
  /\ Become(d, Scanning)
  /\ UNCHANGED <<table, git, launch, agents, engine, bounds>>

\* Mutant: newest place first.
NewestOf(snap) == CHOOSE e \in snap : \A f \in snap : f.claim.at <= e.claim.at

\* queue_order: oldest place first.
OldestOf(snap) == CHOOSE e \in snap : \A f \in snap : e.claim.at <= f.claim.at

\* The next queued merge: dispatched, refused since its worktree is gone, or
\* skipped since its task has left review.
DrainNext(d) ==
  /\ At(d, "queue") /\ dsp[d].snap # {}
  /\ LET e == OldestOf(dsp[d].snap)
         rest == dsp[d].snap \ {e}
         order == Dispatch("queue", e.task, e.seq, e.claim.opt, e.claim, rest)
     IN \/ /\ row[e.task].status = "review"
           /\ Become(d, order)
        \/ /\ row[e.task].status # "review"
           /\ Become(d, [pc |-> "queue", snap |-> rest])
        \/ Become(d, [order EXCEPT !.pc = "refuse"])
  /\ UNCHANGED <<table, git, launch, agents, engine, bounds>>

\* An empty queue hands the slot to auto_merge_sweep: one of its candidates, if
\* its worktree and its preflight allow.
Candidates == {t \in Tasks \ Sourced : row[t].status = "review" /\ ~row[t].error
                                       /\ ~Parked(t) /\ Room(t, 1)}
DrainEmpty(d) ==
  /\ At(d, "queue") /\ dsp[d].snap = {}
  /\ IF AutoMerge /\ ~AnyMerging
     THEN \/ Rest(d)
          \/ \E t \in Candidates :
               Become(d, [Dispatch("auto", t, row[t].seq, "auto", NoIntent, {})
                            EXCEPT !.pc = "auto"])
     ELSE Rest(d)
  /\ UNCHANGED <<table, git, launch, agents, engine, bounds>>

\* merge_task_inner reads the candidate's row again.
AutoRead(d) ==
  LET t == dsp[d].task
  IN /\ At(d, "auto")
     /\ IF row[t].status = "review" /\ Room(t, 1)
        THEN dsp' = [dsp EXCEPT ![d].pc = "lock", ![d].seq = row[t].seq]
        ELSE Rest(d)
     /\ UNCHANGED <<table, git, launch, agents, engine, bounds>>

\* Mutant: the slot is looked at without the folder's git lock.
TakeNoLock(d) ==
  /\ At(d, "lock")
  /\ IF ~AnyMerging THEN Resume(d, "check")
     ELSE IF dsp[d].role = "auto" THEN Rest(d) ELSE Resume(d, "park")
  /\ UNCHANGED <<table, git, launch, agents, engine, bounds>>

\* Under the lock: is the slot busy?  Unattended merges do not queue.
TakeLock(d) ==
  /\ At(d, "lock") /\ LockFree
  /\ IF ~AnyMerging THEN Resume(d, "check")
     ELSE IF dsp[d].role = "auto" THEN Rest(d) ELSE Resume(d, "park")
  /\ UNCHANGED <<table, git, launch, agents, engine, bounds>>

\* The intent is no longer the one the queue was scanned with: the queue is
\* scanned again, a few times at most.
Superseded(d) == Rest(d) \/ (~AnyMerging /\ Become(d, Scanning))

\* A miss of the queue's claim is a race to lose quietly.
Missed(d) == IF dsp[d].role = "queue" THEN Superseded(d) ELSE Rest(d)

\* queue_merge: a place in line, or the one already held.
Park(d) ==
  LET t == dsp[d].task
      place == IF dsp[d].role = "queue" THEN dsp[d].claim.at
               ELSE IF dsp[d].kept # 0 THEN dsp[d].kept ELSE clock + 1
  IN /\ At(d, "park")
     /\ IF InReview(t, dsp[d].seq) /\ SameIntent(d)
        THEN /\ row' = [row EXCEPT ![t].pending = [opt |-> dsp[d].opt, at |-> place],
                                   ![t].error = FALSE]
             /\ clock' = IF place > clock THEN place ELSE clock
             /\ wish' = [wish EXCEPT ![t] = dsp[d].opt]
             /\ latched' = latched \ {t}
             /\ Rest(d)
        ELSE Missed(d) /\ UNCHANGED table
     /\ UNCHANGED <<git, launch, agents, engine, bounds>>

\* The project folder is as the merge wants it, and nobody holds the task.
Check(d) ==
  LET t == dsp[d].task
  IN /\ At(d, "check")
     /\ IF inflight[t] = "no"
        THEN /\ Resume(d, "begin")
             /\ inflight' = [inflight EXCEPT ![t] = "dispatch"]
        ELSE Proceed(d) /\ UNCHANGED inflight
     /\ UNCHANGED <<table, git, launch, agents, loop, recovery, delivery, bounds>>

\* Another branch, staged changes: a queued or an unattended merge leaves the
\* reason on its row, a click answers with it.
Refused(d) ==
  /\ At(d, "check")
  /\ CASE dsp[d].role = "click" -> Rest(d)
       [] dsp[d].role = "queue" -> dsp' = [dsp EXCEPT ![d].pc = "refuse", ![d].next = "idle"]
       [] dsp[d].role = "auto"  -> Resume(d, "banner")
  /\ UNCHANGED <<table, git, launch, agents, engine, bounds>>

\* begin_merge, then the launch, to which the claim passes.
Begin(d) ==
  LET t == dsp[d].task
  IN /\ At(d, "begin")
     /\ IF Mergeable(d)
        THEN /\ row' = [row EXCEPT ![t] =
                          [status |-> "merging", seq |-> @.seq + 1, conn |-> 0,
                           error |-> FALSE, pending |-> NoIntent, op |-> "land",
                           opt |-> dsp[d].opt, pre |-> head, kind |-> @.kind]]
             /\ wish' = IF dsp[d].role = "click" THEN [wish EXCEPT ![t] = dsp[d].opt]
                        ELSE wish
             /\ latched' = IF dsp[d].role = "click" THEN latched \ {t} ELSE latched
             /\ launch' = [launch EXCEPT ![t] = [pc |-> "start", seq |-> 0]]
             /\ inflight' = [inflight EXCEPT ![t] = "launch"]
             /\ Rest(d)
             /\ UNCHANGED clock
        ELSE /\ inflight' = [inflight EXCEPT ![t] = "no"]
             /\ Missed(d)
             /\ UNCHANGED <<table, launch>>
     /\ UNCHANGED <<git, agents, loop, recovery, delivery, bounds>>

\* refuse_queued_merge, its first write: clear_queued_merge, bound to the
\* intent; a miss means that the user has changed it.
RefuseClear(d) ==
  LET t == dsp[d].task
  IN /\ At(d, "refuse")
     /\ IF row[t].pending = dsp[d].claim
        THEN /\ row' = [row EXCEPT ![t].pending = NoIntent]
             /\ wish' = [wish EXCEPT ![t] = "none"]
             /\ Resume(d, "banner")
        ELSE Superseded(d) /\ UNCHANGED <<row, wish>>
     /\ UNCHANGED <<clock, latched, git, launch, agents, engine, bounds>>

\* set_review_error; after a missing worktree the drain goes on.
Banner(d) ==
  LET t == dsp[d].task
  IN /\ At(d, "banner")
     /\ IF InReview(t, dsp[d].scanned)
        THEN /\ row' = [row EXCEPT ![t].error = TRUE]
             /\ latched' = latched \cup {t}
        ELSE UNCHANGED <<row, latched>>
     /\ Proceed(d)
     /\ UNCHANGED <<clock, wish, git, launch, agents, engine, bounds>>

----------------------------------------------------------------------------
(* The user *)

Unqueue(t) ==
  /\ row[t].status = "review" /\ Parked(t)
  /\ row' = [row EXCEPT ![t].pending = NoIntent]
  /\ wish' = [wish EXCEPT ![t] = "none"]
  /\ UNCHANGED <<clock, latched, git, dsp, launch, agents, engine, bounds>>

\* return_task: the claim clears the request, and the next round will have
\* work the base does not contain.
TakeBack(t) ==
  /\ row[t].status = "review" /\ Room(t, 1) /\ Ask
  /\ row' = [row EXCEPT ![t].status = "queued", ![t].seq = @ + 1,
                        ![t].error = FALSE, ![t].pending = NoIntent]
  /\ wish' = [wish EXCEPT ![t] = "none"]
  /\ latched' = latched \ {t}
  /\ base' = base \ {t} /\ pushed' = pushed \ {t}
  /\ UNCHANGED <<clock, head, dsp, launch, agents, engine>>

\* begin_setup drops the last connection, mark_running, settle_review.
SetUp(t) ==
  /\ row[t].status = "queued"
  /\ row' = [row EXCEPT ![t].status = "preparing", ![t].conn = 0]
GoLive(t) ==
  /\ row[t].status = "preparing"
  /\ row' = [row EXCEPT ![t].status = "running"]
SettleReview(t) ==
  /\ row[t].status = "running"
  /\ row' = [row EXCEPT ![t].status = "review", ![t].conn = 0]

Rework(t) ==
  /\ SetUp(t) \/ GoLive(t) \/ SettleReview(t)
  /\ UNCHANGED <<clock, wish, latched, git, dsp, launch, agents, engine, bounds>>

\* complete_task, under the folder lock: nothing to land.
Complete(t) ==
  /\ row[t].status = "review" /\ LockFree
  /\ row' = [row EXCEPT ![t].status = "done", ![t].kind = "accepted",
                        ![t].error = FALSE, ![t].pending = NoIntent]
  /\ wish' = [wish EXCEPT ![t] = "none"]
  /\ UNCHANGED <<clock, latched, git, dsp, launch, agents, engine, bounds>>

\* Somebody commits to the base branch.
Commit ==
  /\ head < MaxHead
  /\ head' = head + 1
  /\ UNCHANGED <<base, pushed, table, dsp, launch, agents, engine, bounds>>

----------------------------------------------------------------------------
(* The launch of a merge generation: TaskEngine::launch, under the task lock, *)
(* on the one generation that holds the task's in-flight claim                *)

LaunchAt(t, pc) == launch[t].pc = pc
LaunchTo(t, pc) == launch' = [launch EXCEPT ![t].pc = pc]
Gen(t) == launch[t].seq
Phase(t, s, phase) == agent' = [agent EXCEPT ![t][s] = phase]

\* The row, its generation and the cancel gates: is it still ours to merge?
StillMerging(t) == Merging(t, Gen(t))

LaunchStart(t) ==
  /\ LaunchAt(t, "start")
  /\ launch' = [launch EXCEPT ![t] =
                  IF row[t].status = "merging" THEN [pc |-> "spawn", seq |-> row[t].seq]
                  ELSE [pc |-> "release", seq |-> 0]]
  /\ UNCHANGED <<table, git, dsp, agents, engine, bounds>>

\* The agent resumes the task's session, or opens one.
LaunchSpawn(t) ==
  /\ LaunchAt(t, "spawn")
  /\ IF StillMerging(t)
     THEN Phase(t, Gen(t), "up") /\ (LaunchTo(t, "bind") \/ LaunchTo(t, "mark"))
     ELSE LaunchTo(t, "release") /\ UNCHANGED agent
  /\ UNCHANGED <<table, git, dsp, index, turns, engine, bounds>>

\* mark_merging_live, for a resumed session before its context is compacted.
LaunchBind(t) ==
  /\ LaunchAt(t, "bind")
  /\ IF StillMerging(t)
     THEN /\ row' = [row EXCEPT ![t].conn = Gen(t)]
          /\ LaunchTo(t, "mark") /\ UNCHANGED agent
     ELSE LaunchTo(t, "release") /\ Phase(t, Gen(t), "gone") /\ UNCHANGED row
  /\ UNCHANGED <<clock, wish, latched, git, dsp, index, turns, engine, bounds>>

\* The connection is registered, then mark_merging_live once more.
LaunchMark(t) ==
  /\ LaunchAt(t, "mark")
  /\ IF StillMerging(t)
     THEN /\ row' = [row EXCEPT ![t].conn = Gen(t)]
          /\ index' = index \cup {<<t, Gen(t)>>}
          /\ LaunchTo(t, "prompt") /\ UNCHANGED agent
     ELSE /\ LaunchTo(t, "release") /\ Phase(t, Gen(t), "gone")
          /\ UNCHANGED <<row, index>>
  /\ UNCHANGED <<clock, wish, latched, git, dsp, turns, engine, bounds>>

LaunchPrompt(t) ==
  /\ LaunchAt(t, "prompt") /\ agent[t][Gen(t)] = "up"
  /\ Phase(t, Gen(t), "busy")
  /\ LaunchTo(t, "release")
  /\ UNCHANGED <<table, git, dsp, index, turns, engine, bounds>>

\* No worktree, no agent, a refused prompt: the agent, if any, is let go.
LaunchError(t) ==
  /\ launch[t].pc \in {"start", "spawn", "bind", "mark", "prompt"}
  /\ IF Gen(t) > 0 /\ agent[t][Gen(t)] = "gone" THEN UNCHANGED bounds ELSE Faulty
  /\ LaunchTo(t, "fail")
  /\ agent' = IF Gen(t) > 0 /\ agent[t][Gen(t)] = "up"
              THEN [agent EXCEPT ![t][Gen(t)] = "gone"] ELSE agent
  /\ index' = index \ {<<t, Gen(t)>>}
  /\ UNCHANGED <<table, git, dsp, turns, engine>>

\* spawn_merge_launch: a failed launch sends the row back to review.
LaunchFail(t) ==
  /\ LaunchAt(t, "fail")
  /\ BackToReview(t)
  /\ LaunchTo(t, "release")
  /\ UNCHANGED <<git, dsp, agents, engine, bounds>>

\* Mutant: the claim of the dispatch is not given back.
LaunchReleaseLeak(t) ==
  /\ LaunchAt(t, "release")
  /\ launch' = [launch EXCEPT ![t] = [pc |-> "none", seq |-> 0]]
  /\ UNCHANGED <<table, git, dsp, agents, engine, bounds>>

\* release_in_flight, at the end of every launch.
LaunchRelease(t) ==
  /\ LaunchAt(t, "release")
  /\ launch' = [launch EXCEPT ![t] = [pc |-> "none", seq |-> 0]]
  /\ inflight' = [inflight EXCEPT ![t] = "no"]
  /\ UNCHANGED <<table, git, dsp, agents, loop, recovery, delivery, bounds>>

----------------------------------------------------------------------------
(* The agents of merge generations, and git *)

AgentLands(t, s) ==
  /\ agent[t][s] = "busy" /\ t \notin base /\ head < MaxHead
  /\ base' = base \cup {t} /\ head' = head + 1
  /\ UNCHANGED <<pushed, table, dsp, launch, agents, engine, bounds>>

AgentEnds(t, s) ==
  /\ agent[t][s] = "busy"
  /\ Phase(t, s, "over")
  /\ turns' = turns \cup {<<t, s>>}
  /\ UNCHANGED <<table, git, dsp, launch, index, engine, bounds>>

AgentDies(t, s) ==
  /\ Faulty
  /\ agent[t][s] \in {"up", "busy"}
  /\ Phase(t, s, "gone")
  /\ UNCHANGED <<table, git, dsp, launch, index, turns, engine>>

\* sweep_idle: a connection whose turn is over and that nobody uses is closed.
SweepIdle(t, s) ==
  /\ agent[t][s] = "over"
  /\ Phase(t, s, "gone")
  /\ UNCHANGED <<table, git, dsp, launch, index, turns, engine, bounds>>

\* Lagged: the engine never sees the completion.
LoseTurn(c) ==
  /\ Faulty
  /\ turns' = turns \ {c}
  /\ UNCHANGED <<table, git, dsp, launch, agent, index, engine>>

----------------------------------------------------------------------------
(* The event loop: on_turn_complete of a merge generation *)

LoopTo(state) == loop' = state

TakeTurn(c) ==
  /\ loop.pc = "idle"
  /\ turns' = turns \ {c}
  /\ index' = index \ {c}
  /\ IF c \in index
     THEN /\ Phase(c[1], c[2], "gone")
          /\ LoopTo([pc |-> "turn", task |-> c[1], seq |-> c[2]])
     ELSE UNCHANGED <<agent, loop>>
  /\ UNCHANGED <<table, git, dsp, launch, recovery, delivery, inflight, bounds>>

\* The row decides how this completion is settled.
ReadTurn ==
  LET t == loop.task
  IN /\ loop.pc = "turn"
     /\ IF Merging(t, loop.seq)
        THEN LoopTo([pc |-> "settle", task |-> t, seq |-> loop.seq, pre |-> row[t].pre])
        ELSE LoopTo([pc |-> "idle"])
     /\ UNCHANGED <<table, git, dsp, launch, agents, recovery, delivery, inflight, bounds>>

\* settle_merge_generation, under the folder lock.
Settle ==
  /\ loop.pc = "settle" /\ LockFree
  /\ SettleFromGit(loop.task, loop.pre)
  /\ LoopTo([pc |-> "idle"])
  /\ UNCHANGED <<git, dsp, launch, agents, recovery, delivery, inflight, bounds>>

----------------------------------------------------------------------------
(* recover_merging *)

Recovering(t, pc) == recovery[t].pc = pc
RecoverTo(t, pc)  == recovery' = [recovery EXCEPT ![t].pc = pc]
RecoverEnd(t)     == recovery' = [recovery EXCEPT ![t] = NoRecovery]

\* A tick, or boot, lists the merging rows.
RecoverList(t) ==
  /\ Recovering(t, "idle") /\ row[t].status = "merging"
  /\ RecoverTo(t, "listed")
  /\ UNCHANGED <<table, git, dsp, launch, agents, loop, delivery, inflight, bounds>>

\* A dispatch or a delivery in flight is left alone.
RecoverCheck(t) ==
  /\ Recovering(t, "listed")
  /\ IF inflight[t] = "no" THEN RecoverTo(t, "free") ELSE RecoverEnd(t)
  /\ UNCHANGED <<table, git, dsp, launch, agents, loop, delivery, inflight, bounds>>

\* Mutant: a row that names a connection is taken for alive.
Named(t) == row[t].conn > 0

\* So is a generation whose agent is connected; a dead one is retired.
Alive(t) == row[t].conn > 0 /\ agent[t][row[t].conn] # "gone"
RecoverRead(t) ==
  /\ Recovering(t, "free")
  /\ IF row[t].status = "merging" /\ ~Alive(t)
     THEN /\ index' = index \ {<<t, row[t].conn>>}
          /\ recovery' = [recovery EXCEPT ![t] =
                            [pc |-> IF row[t].op = "deliver" THEN "forge" ELSE "lock",
                             seq |-> row[t].seq, pre |-> row[t].pre]]
     ELSE RecoverEnd(t) /\ UNCHANGED index
  /\ UNCHANGED <<table, git, dsp, launch, agent, turns, loop, delivery, inflight, bounds>>

\* Under the folder lock, if the row is still what was read.
RecoverSettle(t) ==
  /\ Recovering(t, "lock") /\ LockFree
  /\ IF Merging(t, recovery[t].seq)
     THEN SettleFromGit(t, recovery[t].pre) ELSE UNCHANGED table
  /\ RecoverEnd(t)
  /\ UNCHANGED <<git, dsp, launch, agents, loop, delivery, inflight, bounds>>

----------------------------------------------------------------------------
(* deliver_pr and recover_delivery *)

Delivering(t, pc) == delivery[t].pc = pc

\* complete_delivered, bound to the generation.
Delivered(t, s) ==
  IF Merging(t, s)
  THEN /\ row' = [row EXCEPT ![t].status = "done", ![t].kind = "delivered",
                             ![t].error = FALSE]
       /\ UNCHANGED <<clock, wish, latched>>
  ELSE UNCHANGED table

Deliver(t) ==
  /\ t \in Sourced /\ Delivering(t, "none") /\ row[t].status = "review"
  /\ Room(t, 2) /\ Ask
  /\ delivery' = [delivery EXCEPT ![t] = [pc |-> "checks", seq |-> row[t].seq]]
  /\ UNCHANGED <<table, git, dsp, launch, agents, loop, recovery, inflight>>

\* The worktree is clean and its base is published, or not; the claim.
DeliverClaim(t) ==
  /\ Delivering(t, "checks")
  /\ \/ /\ inflight[t] = "no"
        /\ inflight' = [inflight EXCEPT ![t] = "delivery"]
        /\ delivery' = [delivery EXCEPT ![t].pc = "begin"]
     \/ /\ delivery' = [delivery EXCEPT ![t] = [pc |-> "none", seq |-> 0]]
        /\ UNCHANGED inflight
  /\ UNCHANGED <<table, git, dsp, launch, agents, loop, recovery, bounds>>

DeliverLeave(t) == /\ delivery' = [delivery EXCEPT ![t] = [pc |-> "none", seq |-> 0]]
                   /\ inflight' = [inflight EXCEPT ![t] = "no"]

\* begin_delivery: a new generation; the parked intent is not touched.
DeliverBegin(t) ==
  /\ Delivering(t, "begin")
  /\ IF InReview(t, delivery[t].seq)
     THEN /\ row' = [row EXCEPT ![t].status = "merging", ![t].seq = @ + 1,
                       ![t].conn = 0, ![t].error = FALSE, ![t].op = "deliver"]
          /\ latched' = latched \ {t}
          /\ delivery' = [delivery EXCEPT ![t] = [pc |-> "push", seq |-> @.seq + 1]]
          /\ UNCHANGED <<clock, wish, inflight>>
     ELSE DeliverLeave(t) /\ UNCHANGED table
  /\ UNCHANGED <<git, dsp, launch, agents, loop, recovery, bounds>>

\* The push and the pull request, or a failure on the way.
DeliverPush(t) ==
  /\ Delivering(t, "push")
  /\ \/ /\ pushed' = pushed \cup {t}
        /\ delivery' = [delivery EXCEPT ![t].pc = "settle"]
     \/ /\ delivery' = [delivery EXCEPT ![t].pc = "bounce"]
        /\ UNCHANGED pushed
  /\ UNCHANGED <<base, head, table, dsp, launch, agents, loop, recovery, inflight, bounds>>

DeliverSettle(t) ==
  /\ Delivering(t, "settle")
  /\ Delivered(t, delivery[t].seq)
  /\ IF Merging(t, delivery[t].seq) THEN DeliverLeave(t)
     ELSE /\ delivery' = [delivery EXCEPT ![t].pc = "bounce"]
          /\ UNCHANGED inflight
  /\ UNCHANGED <<git, dsp, launch, agents, loop, recovery, bounds>>

DeliverBounce(t) ==
  /\ Delivering(t, "bounce")
  /\ BackToReview(t)
  /\ DeliverLeave(t)
  /\ UNCHANGED <<git, dsp, launch, agents, loop, recovery, bounds>>

\* recover_delivery: the forge tells whether the push had happened.
RecoverDelivery(t) ==
  /\ Recovering(t, "forge")
  /\ \/ t \in pushed /\ Delivered(t, recovery[t].seq)
     \/ IF Merging(t, recovery[t].seq) THEN Bounce(t) ELSE UNCHANGED table
  /\ RecoverEnd(t)
  /\ UNCHANGED <<git, dsp, launch, agents, loop, delivery, inflight, bounds>>

----------------------------------------------------------------------------
(* Crash and specification *)

\* The process stops; the next one recovers what it finds merging, which is a
\* tick like any other.
Crash ==
  /\ crashes < MaxCrashes
  /\ crashes' = crashes + 1
  /\ dsp' = [d \in Dispatchers |-> [pc |-> "idle"]]
  /\ launch' = [t \in Tasks |-> [pc |-> "none", seq |-> 0]]
  /\ agent' = [t \in Tasks |-> [s \in Seqs |->
                 IF agent[t][s] = "none" THEN "none" ELSE "gone"]]
  /\ index' = {} /\ turns' = {}
  /\ inflight' = [t \in Tasks |-> "no"]
  /\ loop' = [pc |-> "idle"] /\ recovery' = [t \in Tasks |-> NoRecovery]
  /\ delivery' = [t \in Tasks |-> [pc |-> "none", seq |-> 0]]
  /\ UNCHANGED <<table, git, faults, asks>>

Pump(d) ==
  \/ Scan(d) \/ DrainNext(d) \/ DrainEmpty(d) \/ AutoRead(d) \/ TakeLock(d) \/ Park(d)
  \/ Check(d) \/ Begin(d) \/ RefuseClear(d) \/ Banner(d)

User(t) == \/ Unqueue(t) \/ TakeBack(t) \/ Complete(t) \/ Deliver(t)
           \/ \E d \in Dispatchers, i \in Intents : Click(d, t, i)

LaunchStep(t) == \/ LaunchStart(t) \/ LaunchSpawn(t) \/ LaunchBind(t) \/ LaunchMark(t)
                 \/ LaunchPrompt(t) \/ LaunchFail(t) \/ LaunchRelease(t)

AgentStep(t, s) == \/ AgentLands(t, s) \/ AgentEnds(t, s) \/ AgentDies(t, s)
                   \/ SweepIdle(t, s)

LoopStep == ReadTurn \/ Settle \/ \E c \in turns : TakeTurn(c)

RecoverStep(t) == RecoverCheck(t) \/ RecoverRead(t) \/ RecoverSettle(t) \/ RecoverDelivery(t)

DeliverStep(t) == \/ DeliverClaim(t) \/ DeliverBegin(t) \/ DeliverPush(t)
                  \/ DeliverSettle(t) \/ DeliverBounce(t)

Next ==
  \/ \E d \in Dispatchers : Pump(d) \/ Refused(d)
  \/ \E t \in Tasks : \/ User(t) \/ Rework(t) \/ LaunchStep(t) \/ LaunchError(t)
                       \/ DeliverStep(t) \/ RecoverList(t) \/ RecoverStep(t)
                       \/ \E s \in Seqs : AgentStep(t, s)
  \/ \E c \in turns : LoseTurn(c)
  \/ LoopStep
  \/ Commit \/ Crash

Spec == Init /\ [][Next]_vars

----------------------------------------------------------------------------
(* Safety *)

\* The folder's one merge slot: at most one task is being landed.  Clicks, the
\* queue, the sweep, recovery and crashes all get at it.
Landing(t) == row[t].status = "merging" /\ row[t].op = "land"
OneLanding == \A t, u \in Tasks : Landing(t) /\ Landing(u) => t = u

\* The user's last word wins: a landing carries the options last asked for, an
\* unattended one happens only when nothing was asked, and a parked merge is
\* neither lost nor brought back after it was withdrawn.
LastWordWins ==
  \A t \in Tasks :
    /\ Landing(t) => row[t].opt = IF wish[t] = "none" THEN "auto" ELSE wish[t]
    /\ row[t].status = "review" => row[t].pending.opt = wish[t]

\* done is true of the outside world: the base branch contains the work of a
\* merged task and a pull request that of a delivered one.
DoneIsTrue ==
  \A t \in Tasks : /\ row[t].kind = "merged" => t \in base
                   /\ row[t].kind = "delivered" => t \in pushed

\* A failed attempt waits for a human: no unattended landing of a task whose
\* last attempt failed, until the user has acted on it.
NoUnattendedRetry ==
  [][\A t \in Tasks : Landing(t)' /\ row'[t].opt = "auto" /\ t \in latched
                        => Landing(t)]_vars

\* First come, first served: a queued merge begins at the place its drain has
\* scanned, and all that this drain has still to look at came later.
InLine ==
  [][\A d \in Dispatchers, t \in Tasks :
       /\ At(d, "begin") /\ dsp[d].role = "queue" /\ dsp[d].task = t
       /\ Landing(t)' /\ ~Landing(t)
       => \A e \in dsp[d].snap : row[t].pending.at <= e.claim.at]_vars

\* A dispatch is left to itself from begin_merge to its prompt: its row leaves
\* merging only when its own launch has failed.
DispatchIsSpared ==
  [][\A t \in Tasks :
       Landing(t) /\ inflight[t] = "launch" /\ ~(launch[t].pc \in {"fail", "release"})
       => row'[t].status = "merging" \/ crashes' # crashes]_vars

\* The lifecycle is kept: dispatches, settles, recovery and deliveries, with what
\* they have read long ago, move a row only along the pipeline, and only a new
\* round or a new merge counts as a generation.  No late write undoes done.
Lifecycle == INSTANCE WorkTaskLifecycle WITH status <- [t \in Tasks |-> row[t].status],
                                             seq <- [t \in Tasks |-> row[t].seq]
MergesByLifecycle == [][Lifecycle!NextLifecycle]_(Lifecycle!lifecycle)

----------------------------------------------------------------------------
(* Liveness: the scheduler and the ticks, nothing of users, agents or failures *)

Fairness ==
  /\ \A d \in Dispatchers : WF_vars(Pump(d))
  /\ \A t \in Tasks : /\ WF_vars(LaunchStep(t) \/ LaunchError(t))
                      /\ WF_vars(DeliverStep(t))
                      /\ WF_vars(RecoverList(t) \/ RecoverStep(t))
                      /\ \A s \in Seqs : WF_vars(SweepIdle(t, s))
  /\ WF_vars(LoopStep)
FairSpec == Spec /\ Fairness

Working(t) == \E s \in Seqs : agent[t][s] = "busy"

\* A queued merge gets its turn, if the agents that land others always end.
QueueDrains ==
  (\A t \in Tasks : []<>~Working(t))
    => \A t \in Tasks : t \in Queue ~> t \notin Queue

\* merging is never for ever: whatever was lost, a landing whose agent is done
\* or dead settles.
MergeSettles ==
  \A t \in Tasks : row[t].status = "merging" ~> row[t].status # "merging" \/ Working(t)
==============================================================================
