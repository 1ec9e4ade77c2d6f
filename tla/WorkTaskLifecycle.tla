-------------------------- MODULE WorkTaskLifecycle --------------------------
(***************************************************************************)
(* What a work task promises, whoever moves it: the pipeline               *)
(*                                                                         *)
(*   todo -> queued -> preparing -> running <-> awaiting_input             *)
(*        -> review -> merging -> done        (failed / canceled aside)    *)
(*                                                                         *)
(* and the generation counter run_seq that every new run bumps.  It is the *)
(* abstract specification the engine modules implement: one action per     *)
(* transition the service layer offers, with nothing of the engine's       *)
(* processes, locks and events.                                            *)
(***************************************************************************)
EXTENDS Naturals

CONSTANT Tasks

VARIABLES status,  \* the column work_task.status
          seq      \* the column work_task.run_seq

lifecycle == <<status, seq>>

Statuses == {"todo", "queued", "preparing", "running", "awaiting", "review",
             "merging", "done", "failed", "canceled"}

\* The statuses a user may still cancel: everything live except merging.
Cancelable == {"todo", "queued", "preparing", "running", "awaiting",
               "review", "failed"}

\* The statuses that lose their process with a restart.
Interruptible == {"queued", "preparing", "running", "awaiting"}

InitLifecycle == /\ status = [t \in Tasks |-> "todo"]
                 /\ seq = [t \in Tasks |-> 0]

Move(t, from, to) == /\ status[t] \in from
                     /\ status' = [status EXCEPT ![t] = to]
                     /\ seq' = seq

NewRun(t, from, to) == /\ status[t] \in from
                       /\ status' = [status EXCEPT ![t] = to]
                       /\ seq' = [seq EXCEPT ![t] = @ + 1]

\* A run is claimed from todo, from failed (retry) or from review (return).
ClaimRun(t)   == NewRun(t, {"todo", "failed", "review"}, "queued")
SetUp(t)      == Move(t, {"queued"}, "preparing")
AbandonSetUp(t) == Move(t, {"preparing"}, "queued")
GoLive(t)     == Move(t, {"preparing"}, "running")
Block(t)      == Move(t, {"running"}, "awaiting")
Unblock(t)    == Move(t, {"awaiting"}, "running")
Settle(t)     == Move(t, {"running", "awaiting"}, "review")
Fail(t)       == Move(t, Interruptible, "failed")
Cancel(t)     == Move(t, Cancelable, "canceled")
Requeue(t)    == Move(t, {"canceled"}, "todo")
Accept(t)     == Move(t, {"review"}, "done")
StartMerge(t) == NewRun(t, {"review"}, "merging")
Land(t)       == Move(t, {"merging"}, "done")
Bounce(t)     == Move(t, {"merging"}, "review")

\* A restart fails every interruptible row in one statement.
FailInterrupted ==
  /\ status' = [t \in Tasks |-> IF status[t] \in Interruptible
                                THEN "failed" ELSE status[t]]
  /\ seq' = seq

NextLifecycle ==
  \/ \E t \in Tasks :
       \/ ClaimRun(t) \/ SetUp(t) \/ AbandonSetUp(t) \/ GoLive(t)
       \/ Block(t) \/ Unblock(t) \/ Settle(t) \/ Fail(t) \/ Cancel(t)
       \/ Requeue(t) \/ Accept(t) \/ StartMerge(t) \/ Land(t) \/ Bounce(t)
  \/ FailInterrupted

LifecycleSpec == InitLifecycle /\ [][NextLifecycle]_lifecycle
==============================================================================
