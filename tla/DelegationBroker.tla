--------------------------- MODULE DelegationBroker ---------------------------
(***************************************************************************)
(* The delegation broker: a parent agent hands tasks to child agents with  *)
(* delegate_to_agent and brings interrupted ones back with                 *)
(* resume_delegation.  A call sets a child up (register, spawn, reserve,   *)
(* send the prompt, park) and returns; the child's end reaches the broker  *)
(* later, through the lifecycle worker of the child's connection.  During  *)
(* the set-up and afterwards                                               *)
(*                                                                         *)
(*  - the child's turn ends or the child dies, before or after the park;   *)
(*  - the parent's turn is canceled, or the parent's connection goes;      *)
(*  - the MCP client cancels the call, by the handle of the call;          *)
(*  - the parent cancels the task, by the task's name, or resumes it;      *)
(*  - a second connection of the same parent conversation takes over.      *)
(*                                                                         *)
(* A call names its handle, the connection it spawns, if it does, and, for *)
(* delegate_to_agent, the task it creates: the task's child conversation   *)
(* and its delegation_call_id.  A run of a task is the call that started   *)
(* or resumed it.  The generations 1, 2, ... of the parent are its         *)
(* connections.  Everything the broker does under its lock is one step.    *)
(***************************************************************************)
EXTENDS Naturals, FiniteSets, Sequences, SequencesExt

CONSTANTS
  Calls,      \* the calls of delegate_to_agent and resume_delegation
  Starts,     \* those of them that may be delegate_to_agent
  NoCall,
  Cap,        \* completed_cap_bytes, in results that have a text; 0 is no cap
  Stops,      \* how turns end: a subset of end_turn, failed and cancelled
  MaxParents, \* model bound: connections of the parent conversation
  Cancelable, \* model bound: the calls whose client may cancel them
  MaxLosses   \* model bound: connections, of children and parents, that are closed
              \* from outside or die

ASSUME CallAssumption ==
  NoCall \notin Calls /\ Starts \subseteq Calls /\ Cancelable \subseteq Calls
ASSUME StopAssumption == Stops \subseteq {"end_turn", "failed", "cancelled"}
ASSUME BoundAssumption ==
  Cap \in Nat /\ MaxParents \in Nat \ {0} /\ MaxLosses \in Nat

VARIABLES
  call,     \* the calls under way
  running,  \* PendingInner.running: the run of each task
  cache,    \* PendingInner.completed, completed_order and completed_bytes
  resuming, \* PendingInner.resuming
  handle,   \* per call: what became of the client's cancel of it
  conn,     \* the children's connections in the manager
  events,   \* per child, what its lifecycle worker has not consumed
  worker,   \* per child, what the worker is about to tell the broker
  convRow,  \* conversation.status of each task's child
  teardown, \* per run, what is left to do of its settlement
  parent,   \* per generation of the parent, its connection
  shown,    \* history: the runs announced to the parent, and those closed again
  verdict,  \* history: per run, the first end of it that reached the broker
  misled,   \* history: runs that got the end of an earlier run of their task
  losses    \* connections closed from outside or dead so far

pending == <<running, cache, resuming>>
child   == <<conn, events, worker, convRow>>
past    == <<shown, verdict, misled>>
vars == <<call, pending, handle, child, teardown, parent, past, losses>>

Tasks   == Calls
Parents == 1..MaxParents

----------------------------------------------------------------------------
(* Types *)

Outcomes == {"done", "failed", "canceled"}

NoRecord == [par |-> 0, status |-> "none", run |-> NoCall]
Record   == [par: Parents, status: Outcomes, run: Calls]

SetupPcs == {"gate", "row", "ready", "spawned", "sent"}
CallPcs  == SetupPcs \cup {"idle", "dispatched", "parked", "closing", "done"}

\* What came before the park: the outcome of the child's turn, its death, the
\* cancel of the parent; and, of the arrival stamps, which of the child's two ends
\* are older than the cancel.
Early == [turn: Outcomes \cup {"none"}, dead: BOOLEAN, cancel: BOOLEAN,
          before: SUBSET {"turn", "dead"}]
NoEarly == [turn |-> "none", dead |-> FALSE, cancel |-> FALSE, before |-> {}]

Call == [pc: CallPcs, task: Calls \cup {NoCall}, par: Parents, conn: Calls \cup {NoCall},
         claim: BOOLEAN, late: BOOLEAN, early: Early]
Idle == [pc |-> "idle", task |-> NoCall, par |-> 1, conn |-> NoCall,
         claim |-> FALSE, late |-> FALSE, early |-> NoEarly]

Conn == [state: {"none", "up", "gone"}, task: Calls \cup {NoCall},
         turn: Calls \cup {NoCall}, asked: BOOLEAN]
NoConn == [state |-> "none", task |-> NoCall, turn |-> NoCall, asked |-> FALSE]

NoEnd == [end |-> "idle", run |-> NoCall]

Teardown == [step: {"tell", "cut", "none"}, cancel: BOOLEAN, inline: BOOLEAN]
NoTeardown == [step |-> "none", cancel |-> FALSE, inline |-> FALSE]

TypeOK ==
  /\ call \in [Calls -> Call]
  /\ running \in [Tasks -> Calls \cup {NoCall}]
  /\ cache \in [rec: [Tasks -> Record \cup {NoRecord}],
                order: [Parents -> Seq(Tasks)], bytes: [Parents -> Nat]]
  /\ resuming \in SUBSET Tasks
  /\ handle \in [Calls -> {"none", "missed", "buffered", "spent"}]
  /\ conn \in [Calls -> Conn]
  /\ events \in [Calls -> Seq([stop: Stops \cup {"gone"}, run: Calls \cup {NoCall}])]
  /\ worker \in [Calls -> [end: Outcomes \cup {"idle"}, run: Calls \cup {NoCall}]]
  /\ convRow \in [Tasks -> {"none", "in_progress", "pending_review", "cancelled"}]
  /\ teardown \in [Calls -> Teardown]
  /\ parent \in [Parents -> [phase: {"absent", "up", "revoked", "swept"}, mapped: BOOLEAN]]
  /\ shown \in [open: SUBSET Calls, closed: SUBSET Calls]
  /\ verdict \in [Calls -> Outcomes \cup {"none"}]
  /\ misled \in SUBSET Calls
  /\ losses \in 0..MaxLosses

Init ==
  /\ call = [c \in Calls |-> Idle]
  /\ running = [t \in Tasks |-> NoCall]
  /\ cache = [rec |-> [t \in Tasks |-> NoRecord],
              order |-> [p \in Parents |-> <<>>], bytes |-> [p \in Parents |-> 0]]
  /\ resuming = {}
  /\ handle = [c \in Calls |-> "none"]
  /\ conn = [k \in Calls |-> NoConn]
  /\ events = [k \in Calls |-> <<>>]
  /\ worker = [k \in Calls |-> NoEnd]
  /\ convRow = [t \in Tasks |-> "none"]
  /\ teardown = [c \in Calls |-> NoTeardown]
  /\ parent = [p \in Parents |-> [phase |-> IF p = 1 THEN "up" ELSE "absent", mapped |-> p = 1]]
  /\ shown = [open |-> {}, closed |-> {}]
  /\ verdict = [c \in Calls |-> "none"]
  /\ misled = {}
  /\ losses = 0

----------------------------------------------------------------------------
(* The completed-cache: per parent a FIFO, evicted by the bytes it retains *)

Text(status) == IF status = "done" THEN 1 ELSE 0
Texts(rec, S) == Cardinality({t \in S : rec[t].status = "done"})

\* The n oldest results of a parent leave.
Shortened(ch, p, n) ==
  LET q == ch.order[p]
      out == Range(SubSeq(q, 1, n))
  IN [rec |-> [t \in Tasks |-> IF t \in out THEN NoRecord ELSE ch.rec[t]],
      order |-> [ch.order EXCEPT ![p] = SubSeq(q, n + 1, Len(q))],
      bytes |-> [ch.bytes EXCEPT ![p] = @ - Texts(ch.rec, out)]]

\* evict_completed_over_cap: the newest result always stays.
Evicted(ch, p) ==
  LET q == ch.order[p]
      Oldest(n) == Range(SubSeq(q, 1, n))
      Fits(n) == ch.bytes[p] - Texts(ch.rec, Oldest(n)) <= Cap \/ Len(q) - n <= 1
      n == CHOOSE k \in 0..Len(q) : Fits(k) /\ \A j \in 0..(k - 1) : ~Fits(j)
  IN IF Cap = 0 THEN ch ELSE Shortened(ch, p, n)

InsertCompleted(ch, c, status) ==
  LET t == call[c].task
      p == call[c].par
  IN Evicted([rec |-> [ch.rec EXCEPT ![t] = [par |-> p, status |-> status, run |-> c]],
              order |-> [ch.order EXCEPT ![p] = Append(@, t)],
              bytes |-> [ch.bytes EXCEPT ![p] = @ + Text(status)]], p)

\* order.retain, of a line that lists a task once (BooksBalance).
Retained(q, t) ==
  IF t \in Range(q) THEN RemoveAt(q, CHOOSE i \in DOMAIN q : q[i] = t) ELSE q

\* Mutants of RemoveCompleted: the line keeps the task; every result counts.
RemoveCompletedKeepOrder(ch, t) == [ch EXCEPT !.rec[t] = NoRecord]
RemoveCompletedByOne(ch, t) ==
  LET r == ch.rec[t]
  IN IF r = NoRecord THEN ch
     ELSE [rec |-> [ch.rec EXCEPT ![t] = NoRecord],
           order |-> [ch.order EXCEPT ![r.par] = Retained(@, t)],
           bytes |-> [ch.bytes EXCEPT ![r.par] = @ - 1]]

RemoveCompleted(ch, t) ==
  LET r == ch.rec[t]
  IN IF r = NoRecord THEN ch
     ELSE [rec |-> [ch.rec EXCEPT ![t] = NoRecord],
           order |-> [ch.order EXCEPT ![r.par] = Retained(@, t)],
           bytes |-> [ch.bytes EXCEPT ![r.par] = @ - Text(r.status)]]

DropCompleted(ch, p) ==
  [rec |-> [t \in Tasks |-> IF t \in Range(ch.order[p]) THEN NoRecord ELSE ch.rec[t]],
   order |-> [ch.order EXCEPT ![p] = <<>>], bytes |-> [ch.bytes EXCEPT ![p] = 0]]

----------------------------------------------------------------------------
(* What reaches the broker *)

At(c, pc) == call[c].pc = pc
Resumes(c) == call[c].task # c
Inflight(c) == call[c].pc \in SetupPcs
Reserved(c) == At(c, "sent")
Runs(c) == call[c].task # NoCall /\ running[call[c].task] = c
Mapped(k) == conn[k].state = "up"
Flagged(c) == call[c].early.cancel

Go(c, pc) == call' = [call EXCEPT ![c].pc = pc]

\* A claimed call gives its claim back before it returns.
Returned(c) == IF call[c].claim THEN "closing" ELSE "done"
Return(c) == Go(c, Returned(c))

Keep(v, S, status) == [c \in Calls |-> IF c \in S /\ v[c] = "none" THEN status ELSE v[c]]

Settle(cancel, inline) ==
  [step |-> "tell", cancel |-> cancel, inline |-> inline]

\* drain_and_record_canceled of runs of one parent: the map's order is arbitrary.
\* A canceled result has no text, so that evicting once is evicting each time.
InsertCanceled(s, p) ==
  LET Rec(c) == [par |-> p, status |-> "canceled", run |-> c]
  IN Evicted([rec |-> [t \in Tasks |-> IF running[t] \in Range(s) THEN Rec(running[t])
                                       ELSE cache.rec[t]],
              order |-> [cache.order EXCEPT ![p] = @ \o [i \in DOMAIN s |-> call[s[i]].task]],
              bytes |-> cache.bytes], p)
Drained(S) == running' = [t \in Tasks |-> IF running[t] \in S THEN NoCall ELSE running[t]]
DrainCanceled(S) ==
  /\ Drained(S)
  /\ IF S = {} THEN UNCHANGED cache
     ELSE \E c \in S, s \in SetToSeqs(S) : cache' = InsertCanceled(s, call[c].par)

\* What drains a run spawns its settlement; a mutant forgets to tell.
TearDownQuietly(S, cancel) ==
  teardown' = [c \in Calls |-> IF c \in S THEN [Settle(cancel, FALSE) EXCEPT !.step = "cut"]
                               ELSE teardown[c]]
TearDown(S, cancel) ==
  teardown' = [c \in Calls |-> IF c \in S THEN Settle(cancel, FALSE) ELSE teardown[c]]

\* What a call has buffered: the end of a turn replaces an earlier one and takes a
\* new stamp, so does a death; the first cancel keeps its stamp.
WithTurn(e, end) == [turn |-> end, dead |-> e.dead, cancel |-> e.cancel,
                     before |-> e.before \ {"turn"}]
WithDeath(e) == [turn |-> e.turn, dead |-> TRUE, cancel |-> e.cancel,
                 before |-> e.before \ {"dead"}]
WithCancel(e) == [turn |-> e.turn, dead |-> e.dead, cancel |-> TRUE,
                  before |-> {k \in {"turn", "dead"} : IF k = "turn" THEN e.turn # "none"
                                                       ELSE e.dead}]
Buffered(early) ==
  call' = [c \in Calls |-> IF c \in DOMAIN early THEN [call[c] EXCEPT !.early = early[c]]
                           ELSE call[c]]

\* mark_inflight_canceled_for_parent.  Mutants pass over the calls that are
\* reserved, or over all.
FlaggedBeforeSend(p) ==
  {c \in Calls : Inflight(c) /\ ~Reserved(c) /\ call[c].par = p /\ ~Flagged(c)}
FlaggedBy(p) == {c \in Calls : Inflight(c) /\ call[c].par = p /\ ~Flagged(c)}
FlagNone(p) == UNCHANGED call
Flag(p) == Buffered([c \in FlaggedBy(p) |-> WithCancel(call[c].early)])

RunsOf(p) == {c \in Calls : Runs(c) /\ call[c].par = p}

----------------------------------------------------------------------------
(* The set-up of a call: start_delegation and resume_delegation *)

\* The listener looks the parent's token up.  A task is known by the report of
\* the call that created it.
Dispatch(c, p, t) ==
  /\ At(c, "idle") /\ parent[p].phase = "up"
  /\ \/ t = c /\ c \in Starts
     \/ call[t].pc = "done" /\ call[t].task = t /\ convRow[t] # "none"
  /\ call' = [call EXCEPT ![c] = [Idle EXCEPT !.pc = "dispatched", !.task = t, !.par = p]]
  /\ UNCHANGED <<pending, handle, child, teardown, parent, past, losses>>

\* The listener needs the parent's conversation; register_inflight, then
\* take_pre_canceled_handle, then the settings and the depth limit of a new task.
Enter(c) ==
  LET p == call[c].par
      heard == parent[p].mapped /\ handle[c] = "buffered"
      entered == [call[c] EXCEPT !.late = parent[p].phase = "swept"]
  IN /\ At(c, "dispatched")
     /\ handle' = IF heard THEN [handle EXCEPT ![c] = "spent"] ELSE handle
     /\ \/ parent[p].mapped /\ ~heard
           /\ call' = [call EXCEPT ![c] = [entered EXCEPT !.pc = IF Resumes(c) THEN "gate" ELSE "ready"]]
        \/ (~parent[p].mapped \/ heard \/ ~Resumes(c)) /\ Go(c, "done")
     /\ UNCHANGED <<pending, child, teardown, parent, past, losses>>

\* The gate of a resume: only a canceled task of the caller, or one that is
\* not in memory, goes on.  A failed claim is refused behind the row.
Gate(c, free) ==
  LET t == call[c].task
      r == cache.rec[t]
  IN \/ /\ r # NoRecord /\ (r.par # call[c].par \/ r.status # "canceled" \/ ~free)
        /\ Return(c) /\ UNCHANGED resuming
     \/ r = NoRecord /\ running[t] # NoCall /\ Return(c) /\ UNCHANGED resuming
     \/ /\ \/ r = NoRecord /\ running[t] = NoCall
           \/ r # NoRecord /\ r.par = call[c].par /\ r.status = "canceled" /\ free
        /\ call' = [call EXCEPT ![c].pc = "row", ![c].claim = free]
        /\ resuming' = resuming \cup {t}

\* Whether the claim is free; a mutant does not ask.
FreeAlways(c) == TRUE
Free(c) == call[c].task \notin resuming

MemGate(c) ==
  /\ At(c, "gate") /\ Gate(c, Free(c))
  /\ UNCHANGED <<running, cache, handle, child, teardown, parent, past, losses>>

\* The row decides: canceled, or left in progress by nobody who lives.
Resumable(t) ==
  \/ convRow[t] = "cancelled"
  \/ convRow[t] = "in_progress" /\ ~\E k \in Calls : Mapped(k) /\ conn[k].task = t

RowGate(c) ==
  /\ At(c, "row")
  /\ IF call[c].claim /\ Resumable(call[c].task) THEN Go(c, "ready") ELSE Return(c)
  /\ UNCHANGED <<pending, handle, child, teardown, parent, past, losses>>

\* The first checkpoint, take_inflight_cancel, or the spawn itself fails.
NoSpawn(c) ==
  /\ At(c, "ready")
  /\ Return(c)
  /\ UNCHANGED <<pending, handle, child, teardown, parent, past, losses>>

\* A child is spawned for a parent that is there; a resume takes the connection
\* that still serves the session, if there is one.
Serving(t) == {k \in Calls : Mapped(k) /\ conn[k].task = t}
Spawn(c) ==
  LET t == call[c].task
  IN /\ At(c, "ready") /\ ~Flagged(c) /\ parent[call[c].par].mapped
     /\ \/ \E k \in Serving(t) :
             /\ Resumes(c)
             /\ call' = [call EXCEPT ![c].pc = "spawned", ![c].conn = k]
             /\ UNCHANGED conn
        \/ /\ Resumes(c) => Serving(t) = {}
           /\ call' = [call EXCEPT ![c].pc = "spawned", ![c].conn = c]
           /\ conn' = [conn EXCEPT ![c] = [NoConn EXCEPT !.state = "up", !.task = t]]
     /\ UNCHANGED <<pending, handle, events, worker, convRow, teardown, parent, past, losses>>

Fresh(c) == call[c].conn = c
Admits(k) == Mapped(k) /\ conn[k].turn = NoCall

\* A connection leaves the manager's map: disconnected, or by itself.
Without(K) ==
  /\ conn' = [k \in Calls |-> IF k \in K THEN [conn[k] EXCEPT !.state = "gone", !.turn = NoCall,
                                                              !.asked = FALSE]
                              ELSE conn[k]]
  /\ events' = [k \in Calls |-> IF k \in K THEN Append(events[k], [stop |-> "gone", run |-> NoCall])
                                ELSE events[k]]

\* The second checkpoint passed, the call is reserved and its prompt admitted:
\* the row is in progress, the parent's card is open.
Send(c) ==
  LET k == call[c].conn
  IN /\ At(c, "spawned") /\ ~Flagged(c) /\ Admits(k)
     /\ conn' = [conn EXCEPT ![k].turn = c, ![k].asked = FALSE]
     /\ convRow' = [convRow EXCEPT ![call[c].task] = "in_progress"]
     /\ shown' = [shown EXCEPT !.open = @ \cup {c}]
     /\ Go(c, "sent")
     /\ UNCHANGED <<pending, handle, events, worker, teardown, parent, verdict, misled, losses>>

\* The parent's cancel came first, or the prompt is refused: unreserve,
\* deregister, and a fresh child is disconnected.
SparesAll(c) == TRUE
Spares(c) == ~Fresh(c)
SendError(c) ==
  /\ At(c, "spawned") /\ (Flagged(c) \/ ~Admits(call[c].conn))
  /\ call' = [call EXCEPT ![c].pc = Returned(c), ![c].early = NoEarly]
  /\ Without({k \in {c} : Mapped(k) /\ ~Spares(c)})
  /\ UNCHANGED <<pending, handle, worker, convRow, teardown, parent, past, losses>>

\* The park decides by arrival: the end of the child's turn, or else its death, if
\* it is older than the cancel of the parent.
End(c) == LET e == call[c].early
          IN IF e.turn # "none" THEN "turn" ELSE IF e.dead THEN "dead" ELSE "none"
\* A mutant of Fate: the parent's cancel beats what came before it.
FateCancelWins(c) ==
  CASE Flagged(c) -> "parent" [] ~Flagged(c) /\ End(c) # "none" -> "child"
    [] OTHER -> "running"

Fate(c) ==
  CASE End(c) = "none" /\ ~Flagged(c) -> "running"
    [] End(c) # "none" /\ (Flagged(c) => End(c) \in call[c].early.before) -> "child"
    [] OTHER -> "parent"

\* What is recorded of a run that is over before the park.
EarlyOutcome(c) ==
  IF Fate(c) = "child" /\ End(c) = "turn" THEN call[c].early.turn ELSE "canceled"

Parked(c, pc) == call' = [call EXCEPT ![c].pc = pc, ![c].early = NoEarly]
Stale(c) == IF Resumes(c) THEN RemoveCompleted(cache, call[c].task) ELSE cache
Park(c) ==
  /\ At(c, "sent")
  /\ \/ /\ Fate(c) = "running"
        /\ running' = [running EXCEPT ![call[c].task] = c]
        /\ cache' = Stale(c) /\ Parked(c, "parked") /\ UNCHANGED teardown
     \/ /\ Fate(c) # "running" /\ UNCHANGED running
        /\ cache' = InsertCompleted(Stale(c), c, EarlyOutcome(c))
        /\ teardown' = [teardown EXCEPT ![c] = Settle(Fate(c) = "parent", TRUE)]
        /\ Parked(c, Returned(c))
  /\ UNCHANGED <<resuming, handle, child, parent, past, losses>>

\* take_pre_canceled_handle after the park, then the acknowledgement.
SecondCheck(c) ==
  LET t == call[c].task
  IN /\ At(c, "parked")
     /\ Return(c)
     /\ handle' = IF handle[c] = "buffered" THEN [handle EXCEPT ![c] = "spent"] ELSE handle
     /\ IF handle[c] = "buffered" /\ running[t] # NoCall
        THEN /\ running' = [running EXCEPT ![t] = NoCall]
             /\ cache' = InsertCompleted(cache, c, "canceled")
             /\ teardown' = [teardown EXCEPT ![c] = Settle(TRUE, TRUE)]
             /\ verdict' = Keep(verdict, {c}, "canceled")
        ELSE UNCHANGED <<running, cache, teardown, verdict>>
     /\ UNCHANGED <<resuming, child, parent, shown, misled, losses>>

\* The claim goes back when the gated part has returned.
Release(c) ==
  /\ At(c, "closing") /\ ~(teardown[c].inline /\ teardown[c].step # "none")
  /\ resuming' = resuming \ {call[c].task}
  /\ Go(c, "done")
  /\ UNCHANGED <<running, cache, handle, child, teardown, parent, past, losses>>

----------------------------------------------------------------------------
(* Settlements: the parent is told, the child's turn canceled, the child cut *)

\* The card of the parent's tool call and the DelegationCompleted event; then
\* ConnectionManager::cancel: the agent is asked, a row in progress is canceled,
\* or an error if the connection is no longer there.
Tell(c) ==
  LET k == call[c].conn
  IN /\ teardown[c].step = "tell"
     /\ teardown' = [teardown EXCEPT ![c].step = "cut"]
     /\ shown' = [shown EXCEPT !.closed = @ \cup {c}]
     /\ IF teardown[c].cancel /\ Mapped(k)
        THEN /\ conn' = [conn EXCEPT ![k].asked = conn[k].turn # NoCall]
             /\ convRow' = [convRow EXCEPT ![conn[k].task] =
                              IF @ = "in_progress" THEN "cancelled" ELSE @]
        ELSE UNCHANGED <<conn, convRow>>
     /\ UNCHANGED <<call, pending, handle, events, worker, parent, verdict, misled, losses>>

Disconnect(c) ==
  /\ teardown[c].step = "cut"
  /\ teardown' = [teardown EXCEPT ![c] = NoTeardown]
  /\ Without({k \in {call[c].conn} : Mapped(k)})
  /\ UNCHANGED <<call, pending, handle, worker, convRow, parent, past, losses>>

----------------------------------------------------------------------------
(* The children, and the lifecycle workers of their connections *)

\* The turn of a child ends by itself, or because it was asked to.
TurnEnds(k, stop) ==
  /\ Mapped(k) /\ conn[k].turn # NoCall
  /\ stop = "cancelled" => conn[k].asked
  /\ conn' = [conn EXCEPT ![k].turn = NoCall, ![k].asked = FALSE]
  /\ events' = [events EXCEPT ![k] = Append(@, [stop |-> stop, run |-> conn[k].turn])]
  /\ UNCHANGED <<call, pending, handle, worker, convRow, teardown, parent, past, losses>>

ChildDies(k) ==
  /\ Mapped(k) /\ losses < MaxLosses
  /\ Without({k}) /\ losses' = losses + 1
  /\ UNCHANGED <<call, pending, handle, worker, convRow, teardown, parent, past>>

EndOf(stop) == CASE stop = "end_turn" -> "done" [] stop = "failed" -> "failed"
                 [] OTHER -> "canceled"

\* handle_event: the end of a turn is written to the row, then forwarded; it
\* counts for nothing once its connection left the map.
Heard(k, stops) == worker[k] = NoEnd /\ events[k] # <<>> /\ Head(events[k]).stop \in stops
WorkerReads(k) ==
  LET e == Head(events[k])
      t == conn[k].task
  IN /\ Heard(k, Stops)
     /\ events' = [events EXCEPT ![k] = Tail(@)]
     /\ IF Mapped(k)
        THEN /\ worker' = [worker EXCEPT ![k] = [end |-> EndOf(e.stop), run |-> e.run]]
             /\ convRow' = [convRow EXCEPT ![t] =
                  CASE e.stop = "end_turn" -> "pending_review"
                    [] e.stop = "failed" -> "cancelled" [] OTHER -> @]
        ELSE UNCHANGED <<worker, convRow>>
     /\ UNCHANGED <<call, pending, handle, conn, teardown, parent, past, losses>>

ReservedFor(t) == {c \in Calls : Reserved(c) /\ call[c].task = t}

\* complete_call, by the task: a running one settles, a reserved one is
\* buffered, any other end is nobody's.
CompleteCall(k) ==
  LET t == conn[k].task
      end == worker[k].end
      c == running[t]
      S == ReservedFor(t)
  IN /\ end \in Outcomes
     /\ worker' = [worker EXCEPT ![k] = NoEnd]
     /\ IF c # NoCall
        THEN /\ running' = [running EXCEPT ![t] = NoCall]
             /\ cache' = InsertCompleted(cache, c, end)
             /\ TearDown({c}, FALSE)
             /\ UNCHANGED call
        ELSE /\ Buffered([d \in S |-> WithTurn(call[d].early, end)])
             /\ UNCHANGED <<running, cache, teardown>>
     /\ LET hit == IF c # NoCall THEN {c} ELSE S
        IN /\ verdict' = Keep(verdict, hit, end)
           /\ misled' = misled \cup (hit \ {worker[k].run})
     /\ UNCHANGED <<resuming, handle, conn, events, convRow, parent, shown, losses>>

\* handle_terminal_event, then cancel_by_child_connection, by the connection.
ReservedOn(k) == {c \in Calls : Reserved(c) /\ call[c].conn = k}
ForgetFailure(k) == UNCHANGED call
BufferFailure(k) == Buffered([d \in ReservedOn(k) |-> WithDeath(call[d].early)])
ChildGone(k) ==
  LET R == {c \in Calls : Runs(c) /\ call[c].conn = k}
  IN /\ Heard(k, {"gone"})
     /\ events' = [events EXCEPT ![k] = Tail(@)]
     /\ convRow' = [convRow EXCEPT ![conn[k].task] =
                      IF @ = "in_progress" THEN "cancelled" ELSE @]
     /\ DrainCanceled(R) /\ TearDown(R, FALSE)
     /\ IF R = {} THEN BufferFailure(k) ELSE UNCHANGED call
     /\ verdict' = Keep(verdict, IF R = {} THEN ReservedOn(k) ELSE R, "canceled")
     /\ UNCHANGED <<resuming, handle, conn, worker, parent, shown, misled, losses>>

----------------------------------------------------------------------------
(* Cancels *)

\* cancel_by_external_handle: nothing runs under the handle yet, or any more.
CancelHandle(c) ==
  /\ c \in Cancelable /\ ~At(c, "idle") /\ handle[c] = "none"
  /\ parent[call[c].par].phase = "up"
  /\ IF Runs(c)
     THEN /\ handle' = [handle EXCEPT ![c] = "spent"]
          /\ DrainCanceled({c}) /\ TearDown({c}, TRUE)
          /\ verdict' = Keep(verdict, {c}, "canceled")
     ELSE /\ handle' = [handle EXCEPT ![c] = "missed"]
          /\ UNCHANGED <<running, cache, teardown, verdict>>
  /\ UNCHANGED <<call, resuming, child, parent, shown, misled, losses>>

\* buffer_pre_canceled_handle, under a lock of its own.
BufferHandle(c) ==
  /\ handle[c] = "missed"
  /\ handle' = [handle EXCEPT ![c] = "buffered"]
  /\ UNCHANGED <<call, pending, child, teardown, parent, past, losses>>

\* cancel_task_by_id: a running task of the caller.
CancelTask(p, t) ==
  LET c == running[t]
  IN /\ parent[p].phase = "up" /\ call[t].pc = "done"
     /\ c # NoCall /\ call[c].par = p
     /\ DrainCanceled({c}) /\ TearDown({c}, TRUE)
     /\ verdict' = Keep(verdict, {c}, "canceled")
     /\ UNCHANGED <<call, resuming, handle, child, parent, shown, misled, losses>>

Stopped(p) == Keep(verdict, RunsOf(p) \cup {c \in FlaggedBy(p) : Reserved(c)}, "canceled")

\* cancel_by_parent_turn: set-ups are flagged and runs drained under one lock.
CancelByParentTurn(p) ==
  /\ parent[p].phase = "up"
  /\ FlaggedBy(p) # {} \/ RunsOf(p) # {}
  /\ Flag(p) /\ DrainCanceled(RunsOf(p)) /\ TearDown(RunsOf(p), TRUE)
  /\ verdict' = Stopped(p)
  /\ UNCHANGED <<resuming, handle, child, parent, shown, misled, losses>>

----------------------------------------------------------------------------
(* The parent's connections *)

Connect(p) ==
  /\ parent[p].phase = "absent" /\ p > 1 /\ ~parent[p - 1].mapped
  /\ parent' = [parent EXCEPT ![p] = [phase |-> "up", mapped |-> TRUE]]
  /\ UNCHANGED <<call, pending, handle, child, teardown, past, losses>>

\* disconnect takes it out of the map at once, its loop ends later.
CloseParent(p) ==
  /\ parent[p].phase = "up" /\ parent[p].mapped /\ losses < MaxLosses
  /\ parent' = [parent EXCEPT ![p].mapped = FALSE]
  /\ losses' = losses + 1
  /\ UNCHANGED <<call, pending, handle, child, teardown, past>>

\* The loop has ended: its token is revoked.
Revoke(p) ==
  /\ parent[p].phase = "up" /\ ~parent[p].mapped
  /\ parent' = [parent EXCEPT ![p].phase = "revoked"]
  /\ UNCHANGED <<call, pending, handle, child, teardown, past, losses>>

ParentDies(p) ==
  /\ parent[p].phase = "up" /\ parent[p].mapped /\ losses < MaxLosses
  /\ parent' = [parent EXCEPT ![p].phase = "revoked"]
  /\ losses' = losses + 1
  /\ UNCHANGED <<call, pending, handle, child, teardown, past>>

\* cancel_by_parent: no record of its tasks is kept.
CancelByParent(p) ==
  /\ parent[p].phase = "revoked"
  /\ parent' = [parent EXCEPT ![p].phase = "swept"]
  /\ Flag(p)
  /\ Drained(RunsOf(p))
  /\ cache' = DropCompleted(cache, p)
  /\ TearDown(RunsOf(p), TRUE)
  /\ verdict' = Stopped(p)
  /\ UNCHANGED <<resuming, handle, child, shown, misled, losses>>

\* The cleanup guard of a parent whose loop ended by itself.
Leave(p) ==
  /\ parent[p].phase = "swept" /\ parent[p].mapped
  /\ parent' = [parent EXCEPT ![p].mapped = FALSE]
  /\ UNCHANGED <<call, pending, handle, child, teardown, past, losses>>

----------------------------------------------------------------------------
Setup(c) ==
  \/ Enter(c) \/ MemGate(c) \/ RowGate(c) \/ NoSpawn(c) \/ Spawn(c)
  \/ Send(c) \/ SendError(c) \/ Park(c) \/ SecondCheck(c) \/ Release(c)
Settlement(c) == Tell(c) \/ Disconnect(c)
Worker(k) == WorkerReads(k) \/ CompleteCall(k) \/ ChildGone(k)
ParentEnds(p) == Revoke(p) \/ CancelByParent(p) \/ Leave(p)

Next ==
  \/ \E c \in Calls : Setup(c) \/ Settlement(c) \/ CancelHandle(c) \/ BufferHandle(c)
  \/ \E c \in Calls, p \in Parents, t \in Tasks : Dispatch(c, p, t)
  \/ \E k \in Calls : Worker(k) \/ ChildDies(k)
  \/ \E k \in Calls, stop \in Stops : TurnEnds(k, stop)
  \/ \E p \in Parents, t \in Tasks : CancelTask(p, t)
  \/ \E p \in Parents : \/ CancelByParentTurn(p) \/ Connect(p) \/ CloseParent(p)
                        \/ ParentDies(p) \/ ParentEnds(p)

Spec == Init /\ [][Next]_vars

Fairness ==
  /\ \A c \in Calls : WF_vars(Setup(c)) /\ WF_vars(Settlement(c)) /\ WF_vars(BufferHandle(c))
  /\ \A k \in Calls : WF_vars(Worker(k))
  /\ \A p \in Parents : WF_vars(ParentEnds(p))
FairSpec == Spec /\ Fairness

----------------------------------------------------------------------------
(* Safety *)

\* The books of the completed-cache balance: each parent's line lists each of
\* its results once, its bytes are those of the texts it retains, and a task
\* that runs has no result that would be reported in its place.
BooksBalance ==
  /\ \A p \in Parents :
       LET q == cache.order[p]
       IN /\ Range(q) = {t \in Tasks : cache.rec[t].par = p}
          /\ Len(q) = Cardinality(Range(q))
          /\ cache.bytes[p] = Texts(cache.rec, Range(q))
  /\ \A t \in Tasks : running[t] # NoCall => cache.rec[t] = NoRecord

\* What is recorded of a run is the first end of it that reached the broker,
\* be it the end of its turn, its child's death or a cancel, before the park or
\* after it.
FirstEndWins ==
  \A t \in Tasks : cache.rec[t] # NoRecord =>
    cache.rec[t].status = verdict[cache.rec[t].run] \/ cache.rec[t].run \in misled

\* A task has one run at a time: past the gate, parked or being undone.
Under(c) == \/ call[c].pc \in {"ready", "spawned", "sent"}
            \/ Runs(c)
OneRunPerTask ==
  \A c, d \in Calls : c # d /\ call[c].task = call[d].task /\ call[c].task # NoCall
                        => ~(Under(c) /\ Under(d))

\* No child is left in the manager that neither a set-up, nor a run, nor a
\* settlement answers for.
Answers(c, k) == /\ call[c].conn = k
                 /\ \/ call[c].pc \in {"spawned", "sent"}
                    \/ Runs(c) \/ teardown[c].step # "none"
NoOrphanChild == \A k \in Calls : Mapped(k) => \E c \in Calls : Answers(c, k)

\* Once a parent connection has been swept, none of its tasks runs, but those
\* whose call reached the broker after the sweep.
ChildrenGoWithParent ==
  \A c \in Calls : Runs(c) /\ parent[call[c].par].phase = "swept" => call[c].late

----------------------------------------------------------------------------
(* Liveness *)

\* A run whose child's turn has ended, or whose child is gone, settles.
WorksOn(c) == \E k \in Calls : conn[k].turn = c
RunSettles == \A c \in Calls : Runs(c) /\ ~WorksOn(c) ~> ~Runs(c)

\* The parent's card of a run is closed once nobody works on the run.
CardCloses ==
  \A c \in Calls : c \in shown.open /\ ~WorksOn(c) ~> c \in shown.closed

\* The children of a swept parent leave.
ChildrenFollowParent ==
  \A c \in Calls : parent[call[c].par].phase = "swept" /\ ~call[c].late
                     ~> conn[c].state \in {"none", "gone"} \/ call[c].late
                        \/ \E d \in Calls : d # c /\ call[d].conn = c
==============================================================================
