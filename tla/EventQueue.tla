---------------------------- MODULE EventQueue ----------------------------
(***************************************************************************)
(* The issue bot's event queue: the rows of the durable table (db.py), the *)
(* WorkerPool with its dispatcher, its tasks and its shutdown (queue.py),  *)
(* the slot pool (slot_pool.py), the worker threads with the omp processes *)
(* they drive and the cancel hooks they arm (worker.py, cancellation.py),  *)
(* and the callers that submit, replay and cancel events (server.py,       *)
(* cli.py, manual_triage.py).                                              *)
(*                                                                         *)
(* The database outlives the process; everything else is lost when the     *)
(* process dies, except omp processes, which are reaped at the next start. *)
(* One action is one segment of Python between two awaits, one transaction *)
(* of a database thread, or one segment of a worker thread between two     *)
(* operations another thread can see.  The deployment modelled is the one  *)
(* with a slot pool.                                                       *)
(***************************************************************************)
EXTENDS Naturals

CONSTANTS
  Events,     \* delivery ids
  Issues,     \* issue keys
  IssueOf,    \* the issue of each delivery (a delivery without one is its own issue)
  Manual,     \* the deliveries that are an operator's manual triage
  Slots,      \* the slot uids, max_concurrency of them
  MaxRetries, \* event_max_retries
  None        \* no event, no slot

ASSUME QueueAssumption ==
  /\ IssueOf \in [Events -> Issues]
  /\ Manual \subseteq Events
  /\ MaxRetries \in Nat
  /\ None \notin Events \cup Slots

VARIABLES
  row,         \* the events table: state, attempts, and whether available_at is still to come
  older,       \* pairs of deliveries of the table, the first received before the second
  pool,        \* the process: "down", "reaped", "up", "draining", "interrupting", "stopped"
  disp,        \* the dispatcher: where it is, and the event it has claimed
  wakeup,      \* _wakeup is set
  inflight,    \* _inflight: issues with a task
  task,        \* each event's _run_event
  slot,        \* the slot an event was given
  free,        \* the slots nobody has
  thread,      \* the worker thread in _run_rpc_blocking
  agent,       \* the slot uid an event's omp process runs under, or None
  hooks,       \* _cancel_hooks
  cancelled,   \* _cancelled
  interrupted, \* _shutdown_cancelled
  kill,        \* tasks stop() has cancelled, the CancelledError not delivered yet
  still,       \* tasks stop() has yet to interrupt
  firing       \* the event whose hook stop() awaits

table  == <<row, older>>
tasks  == <<inflight, task, slot, free>>
agents == <<thread, agent, hooks>>
stop   == <<kill, still, firing>>
vars   == <<table, pool, disp, wakeup, tasks, agents, cancelled, interrupted, stop>>

RowStates  == {"absent", "queued", "running", "done", "failed", "skipped"}
Inactive   == {"done", "failed", "skipped"}
PoolStates == {"down", "reaped", "up", "draining", "interrupting", "stopped"}
DispSteps  == {"off", "poll", "claimed", "pause", "wait", "orphan"}
Running    == {"slot", "setup", "agent", "wrapup"}  \* a task whose row it owns
Holding    == {"setup", "agent", "wrapup"}          \* a task with a slot
Alive      == {"starting", "spawned", "arming", "running"}

\* Attempts count up to MaxRetries + 1: only the comparison with MaxRetries is read.
Rows == [state : RowStates, attempts : 0 .. MaxRetries + 1, delayed : BOOLEAN]

NoRow == [state |-> "absent", attempts |-> 0, delayed |-> FALSE]

Least(a, b) == IF a <= b THEN a ELSE b

\* The tasks, threads and requests of a process that is not running.
Init ==
  /\ row = [e \in Events |-> NoRow]
  /\ older = {}
  /\ pool = "down"
  /\ disp = [at |-> "off", ev |-> None]
  /\ wakeup = FALSE
  /\ inflight = {}
  /\ task = [e \in Events |-> "none"]
  /\ slot = [e \in Events |-> None]
  /\ free = Slots
  /\ thread = [e \in Events |-> "none"]
  /\ agent = [e \in Events |-> None]
  /\ hooks = {}
  /\ cancelled = {}
  /\ interrupted = {}
  /\ kill = {}
  /\ still = {}
  /\ firing = None

---------------------------------------------------------------------------
(* Submitting, replaying and cancelling events.                            *)

\* The server's own routes wake the dispatcher; the command line, a process of
\* its own, writes the table only.
Woken == \/ pool = "up" /\ wakeup' = TRUE
         \/ UNCHANGED wakeup

\* The row of e is written anew, and is the latest.
Received(e) ==
  (older \cap ((Events \ {e}) \X Events)) \cup ({f \in Events \ {e} : row[f].state # "absent"} \X {e})

\* A webhook is recorded, queued or skipped; a delivery already in the table
\* is ignored.
Record(e) ==
  /\ pool = "up"
  /\ e \notin Manual
  /\ row[e].state = "absent"
  /\ \/ /\ row' = [row EXCEPT ![e].state = "queued"]
        /\ wakeup' = TRUE
     \/ /\ row' = [row EXCEPT ![e].state = "skipped"]
        /\ UNCHANGED wakeup
  /\ older' = Received(e)
  /\ UNCHANGED <<pool, disp, tasks, agents, cancelled, interrupted, stop>>

Requeue(r) == [r EXCEPT !.state = "queued", !.delayed = FALSE]

\* POST /replay, POST /api/trigger (retry) and the command line's replay.
Replay(e) ==
  /\ row[e].state \in Inactive
  /\ row' = [row EXCEPT ![e] = Requeue(@)]
  /\ Woken
  /\ UNCHANGED <<older, pool, disp, tasks, agents, cancelled, interrupted, stop>>

\* The state is checked again in the transaction that replaces the row, so the
\* check before the issue is fetched from GitHub decides nothing.
ManualTriage(e) ==
  /\ e \in Manual
  /\ row[e].state \in Inactive \cup {"absent"}
  /\ row' = [row EXCEPT ![e] = [NoRow EXCEPT !.state = "queued"]]
  /\ older' = Received(e)
  /\ Woken
  /\ UNCHANGED <<pool, disp, tasks, agents, cancelled, interrupted, stop>>

\* The hook kills the omp process off the loop; what may happen before it is
\* dead may happen before the request as well.
CancelEvent(e) ==
  /\ pool = "up"
  /\ row[e].state = "running"
  /\ cancelled' = cancelled \cup {e}
  /\ hooks' = hooks \ {e}
  /\ agent' = IF e \in hooks THEN [agent EXCEPT ![e] = None] ELSE agent
  /\ UNCHANGED <<table, pool, disp, wakeup, tasks, thread, interrupted, stop>>

---------------------------------------------------------------------------
(* Start, and the dispatcher.                                              *)

\* Mutant: a start that trusts the last process to have left nothing behind.
ReapsNothing ==
  /\ pool = "down"
  /\ pool' = "reaped"
  /\ UNCHANGED <<table, disp, wakeup, tasks, agents, cancelled, interrupted, stop>>

ReapAllSlots ==
  /\ pool = "down"
  /\ pool' = "reaped"
  /\ agent' = [e \in Events |-> None]
  /\ UNCHANGED <<table, disp, wakeup, tasks, thread, hooks, cancelled, interrupted, stop>>

ResetStuckRunning ==
  [e \in Events |-> IF row[e].state = "running" THEN Requeue(row[e]) ELSE row[e]]

Start ==
  /\ pool = "reaped"
  /\ pool' = "up"
  /\ row' = ResetStuckRunning
  /\ disp' = [at |-> "poll", ev |-> None]
  /\ UNCHANGED <<older, wakeup, tasks, agents, cancelled, interrupted, stop>>

Claimable(e) ==
  /\ row[e].state = "queued"
  /\ ~row[e].delayed
  /\ \A f \in Events : IssueOf[f] = IssueOf[e] => row[f].state # "running"

NextEvent(e) ==
  /\ Claimable(e)
  /\ \A f \in Events : Claimable(f) => <<f, e>> \notin older

Claimed(e) == [row EXCEPT ![e].state = "running",
                          ![e].attempts = Least(@ + 1, MaxRetries + 1)]

\* The transaction of the claim thread; the lock is held until the dispatcher
\* has seen the row.
Claim(e) ==
  /\ disp.at = "poll"
  /\ NextEvent(e)
  /\ row' = Claimed(e)
  /\ disp' = [at |-> "claimed", ev |-> e]
  /\ UNCHANGED <<older, pool, wakeup, tasks, agents, cancelled, interrupted, stop>>

NothingToClaim ==
  /\ disp.at = "poll"
  /\ \A e \in Events : ~Claimable(e)
  /\ disp' = [disp EXCEPT !.at = "wait"]
  /\ wakeup' = FALSE
  /\ UNCHANGED <<table, pool, tasks, agents, cancelled, interrupted, stop>>

\* Whether a database thread of the dispatcher may be at work: it claims, or puts
\* a row back.
InThread == \/ disp.at = "poll"
            \/ disp.at = "claimed" /\ IssueOf[disp.ev] \in inflight

\* The claim, or putting the row back, raises: "dispatch loop crashed".
ClaimRaises ==
  /\ InThread
  /\ disp' = [disp EXCEPT !.at = "off"]
  /\ UNCHANGED <<table, pool, wakeup, tasks, agents, cancelled, interrupted, stop>>

\* Mutant: a claim is dispatched without a look at _inflight.
DispatchAlways(e) ==
  /\ disp = [at |-> "claimed", ev |-> e]
  /\ inflight' = inflight \cup {IssueOf[e]}
  /\ task' = [task EXCEPT ![e] = "slot"]
  /\ disp' = [at |-> "poll", ev |-> None]
  /\ UNCHANGED <<table, pool, wakeup, slot, free, agents, cancelled, interrupted, stop>>

Dispatch(e) ==
  /\ disp = [at |-> "claimed", ev |-> e]
  /\ IssueOf[e] \notin inflight
  /\ inflight' = inflight \cup {IssueOf[e]}
  /\ task' = [task EXCEPT ![e] = "slot"]
  /\ disp' = [at |-> "poll", ev |-> None]
  /\ UNCHANGED <<table, pool, wakeup, slot, free, agents, cancelled, interrupted, stop>>

\* Another task still has the issue: the row is put back.
PutBack(e) ==
  /\ disp = [at |-> "claimed", ev |-> e]
  /\ IssueOf[e] \in inflight
  /\ row' = [row EXCEPT ![e] = Requeue(@)]
  /\ disp' = [at |-> "pause", ev |-> None]
  /\ UNCHANGED <<older, pool, wakeup, tasks, agents, cancelled, interrupted, stop>>

PauseEnds ==
  /\ disp.at = "pause"
  /\ disp' = [disp EXCEPT !.at = "wait"]
  /\ wakeup' = FALSE
  /\ UNCHANGED <<table, pool, tasks, agents, cancelled, interrupted, stop>>

Polls ==
  /\ disp' = [disp EXCEPT !.at = "poll"]
  /\ UNCHANGED <<table, pool, wakeup, tasks, agents, cancelled, interrupted, stop>>

WaitWoken == disp.at = "wait" /\ wakeup /\ Polls

\* Mutant: a wait without the 10 s fallback.
WaitForWakeup == FALSE /\ Polls

WaitTimesOut == disp.at = "wait" /\ ~wakeup /\ Polls

\* The backoff of a retry is over.
BackoffElapses(e) ==
  /\ row[e].state = "queued" /\ row[e].delayed
  /\ row' = [row EXCEPT ![e].delayed = FALSE]
  /\ UNCHANGED <<older, pool, disp, wakeup, tasks, agents, cancelled, interrupted, stop>>

---------------------------------------------------------------------------
(* A task: _run_event, around the task's own awaits.                       *)

\* A step of the task, which a cancellation that is pending would preempt.
At(e, places) == task[e] \in places /\ e \notin kill

AcquireSlot(e, s) ==
  /\ At(e, {"slot"})
  /\ s \in free
  /\ free' = free \ {s}
  /\ slot' = [slot EXCEPT ![e] = s]
  /\ task' = [task EXCEPT ![e] = "setup"]
  /\ UNCHANGED <<table, pool, disp, wakeup, inflight, agents, cancelled, interrupted, stop>>

\* The workspace is ready: the blocking driver goes to a worker thread.
StartThread(e) ==
  /\ At(e, {"setup"})
  /\ task' = [task EXCEPT ![e] = "agent"]
  /\ thread' = [thread EXCEPT ![e] = "starting"]
  /\ UNCHANGED <<table, pool, disp, wakeup, inflight, slot, free, agent, hooks,
                 cancelled, interrupted, stop>>

\* The task goes on with the thread's result.
ThreadReturned(e) ==
  /\ At(e, {"agent"})
  /\ thread[e] = "ok"
  /\ thread' = [thread EXCEPT ![e] = "none"]
  /\ task' = [task EXCEPT ![e] = "wrapup"]
  /\ UNCHANGED <<table, pool, disp, wakeup, inflight, slot, free, agent, hooks,
                 cancelled, interrupted, stop>>

Reap(s) == [e \in Events |-> IF agent[e] = s THEN None ELSE agent[e]]

\* Mutant: the slot is given back whether or not one was acquired.
ForgetReleasesAny(e) ==
  /\ task' = [task EXCEPT ![e] = "cleanup"]
  /\ cancelled' = cancelled \ {e}
  /\ interrupted' = interrupted \ {e}
  /\ kill' = kill \ {e}
  /\ hooks' = hooks \ {e}
  /\ IF task[e] \in Holding
     THEN agent' = Reap(slot[e]) /\ free' = free \cup {slot[e]}
     ELSE free' = free \cup {slot[e]} /\ UNCHANGED agent
  /\ LET detached == thread[e] \in Alive
     IN  /\ slot' = [slot EXCEPT ![e] = IF detached THEN @ ELSE None]
         /\ thread' = [thread EXCEPT ![e] = IF detached THEN @ ELSE "none"]
  /\ UNCHANGED <<older, pool, disp, wakeup, inflight, still, firing>>

\* Mutant: the mark of the cancel stays behind.
ForgetKeepsMark(e) ==
  /\ task' = [task EXCEPT ![e] = "cleanup"]
  /\ UNCHANGED cancelled
  /\ interrupted' = interrupted \ {e}
  /\ kill' = kill \ {e}
  /\ hooks' = hooks \ {e}
  /\ IF task[e] \in Holding
     THEN agent' = Reap(slot[e]) /\ free' = free \cup {slot[e]}
     ELSE UNCHANGED <<agent, free>>
  /\ LET detached == thread[e] \in Alive
     IN  /\ slot' = [slot EXCEPT ![e] = IF detached THEN @ ELSE None]
         /\ thread' = [thread EXCEPT ![e] = IF detached THEN @ ELSE "none"]
  /\ UNCHANGED <<older, pool, disp, wakeup, inflight, still, firing>>

\* The `finally` of the task, up to its first await.  A thread the task no longer
\* waits for goes on with the slot it was given.
Forget(e) ==
  /\ task' = [task EXCEPT ![e] = "cleanup"]
  /\ cancelled' = cancelled \ {e}
  /\ interrupted' = interrupted \ {e}
  /\ kill' = kill \ {e}
  /\ hooks' = hooks \ {e}
  /\ IF task[e] \in Holding
     THEN agent' = Reap(slot[e]) /\ free' = free \cup {slot[e]}
     ELSE UNCHANGED <<agent, free>>
  /\ LET detached == thread[e] \in Alive
     IN  /\ slot' = [slot EXCEPT ![e] = IF detached THEN @ ELSE None]
         /\ thread' = [thread EXCEPT ![e] = IF detached THEN @ ELSE "none"]
  /\ UNCHANGED <<older, pool, disp, wakeup, inflight, still, firing>>

\* Whether the task may end here by itself: nothing is left for a thread, or the
\* thread has raised.
EndsByItself(e) == At(e, {"setup", "wrapup"})
RaisesInThread(e) == At(e, {"agent"}) /\ thread[e] = "error"

Mark(e, state) == row' = [row EXCEPT ![e].state = state]

\* Mutant: a run that ends well is done, cancelled or not.
SucceedAnyway(e) ==
  /\ EndsByItself(e)
  /\ Mark(e, "done")
  /\ Forget(e)

Succeed(e) ==
  /\ EndsByItself(e)
  /\ Mark(e, IF e \in cancelled THEN "failed" ELSE "done")
  /\ Forget(e)

RetryLater(e) == [row EXCEPT ![e].state = "queued", ![e].delayed = TRUE]

\* Mutant: the whole shutdown masks failures, not only the interrupted tasks.
FailureMasked(e) ==
  IF pool \in {"draining", "interrupting"} THEN UNCHANGED row
  ELSE IF e \in cancelled THEN Mark(e, "failed")
  ELSE IF row[e].attempts \in 1 .. MaxRetries THEN row' = RetryLater(e)
  ELSE Mark(e, "failed")

\* What the `except Exception` branch leaves in the table.
Failure(e) ==
  IF e \in interrupted THEN UNCHANGED row
  ELSE IF e \in cancelled THEN Mark(e, "failed")
  ELSE IF row[e].attempts \in 1 .. MaxRetries THEN row' = RetryLater(e)
  ELSE Mark(e, "failed")

Fail(e) ==
  /\ EndsByItself(e) \/ RaisesInThread(e)
  /\ Failure(e)
  /\ Forget(e)

\* CancelledError is no Exception: the row stays as it is.  A workspace operation
\* runs to its end first.
Killed(e) ==
  /\ e \in kill
  /\ task[e] \in Running
  /\ UNCHANGED row
  /\ Forget(e)

LockFree == disp.at \notin {"claimed", "pause"}

\* The caches are dropped, and the issue is released.
Release(e) ==
  /\ At(e, {"cleanup"})
  /\ LockFree
  /\ task' = [task EXCEPT ![e] = "none"]
  /\ inflight' = inflight \ {IssueOf[e]}
  /\ UNCHANGED <<table, pool, disp, wakeup, slot, free, agents, cancelled, interrupted, stop>>

\* A task cancelled in its `finally` keeps its issue for as long as the process lives.
KilledInCleanup(e) ==
  /\ e \in kill
  /\ task[e] = "cleanup"
  /\ task' = [task EXCEPT ![e] = "none"]
  /\ kill' = kill \ {e}
  /\ UNCHANGED <<table, pool, disp, wakeup, inflight, slot, free, agents,
                 cancelled, interrupted, still, firing>>

---------------------------------------------------------------------------
(* A worker thread: _run_rpc_blocking.                                     *)

\* The thread is over; nobody waits for the result of a detached one.
ThreadEnds(e, how) ==
  /\ agent' = [agent EXCEPT ![e] = None]
  /\ hooks' = hooks \ {e}
  /\ IF task[e] = "agent"
     THEN /\ thread' = [thread EXCEPT ![e] = how]
          /\ UNCHANGED slot
     ELSE /\ thread' = [thread EXCEPT ![e] = "none"]
          /\ slot' = [slot EXCEPT ![e] = None]
  /\ UNCHANGED <<table, pool, disp, wakeup, inflight, task, free, cancelled, interrupted, stop>>

Spawn(e) ==
  /\ thread[e] = "starting"
  /\ thread' = [thread EXCEPT ![e] = "spawned"]
  /\ agent' = [agent EXCEPT ![e] = slot[e]]
  /\ UNCHANGED <<table, pool, disp, wakeup, tasks, hooks, cancelled, interrupted, stop>>

StartupFails(e) ==
  /\ thread[e] = "starting" \/ thread[e] = "spawned"
  /\ ThreadEnds(e, "error")

\* _arm_cancel looks for a cancellation first, and stores the hook after that: the
\* event loop may run in between.
ArmChecks(e) ==
  /\ thread[e] = "spawned" /\ agent[e] # None
  /\ IF e \in cancelled
     THEN /\ agent' = [agent EXCEPT ![e] = None]
          /\ thread' = [thread EXCEPT ![e] = "running"]
     ELSE /\ thread' = [thread EXCEPT ![e] = "arming"]
          /\ UNCHANGED agent
  /\ UNCHANGED <<table, pool, disp, wakeup, tasks, hooks, cancelled, interrupted, stop>>

ArmStores(e) ==
  /\ thread[e] = "arming"
  /\ thread' = [thread EXCEPT ![e] = "running"]
  /\ hooks' = hooks \cup {e}
  /\ UNCHANGED <<table, pool, disp, wakeup, tasks, agent, cancelled, interrupted, stop>>

\* The turn ends, with a result only if the process was not killed.
AgentEnds(e, how) ==
  /\ thread[e] = "running"
  /\ how = "ok" => agent[e] # None
  /\ ThreadEnds(e, how)

---------------------------------------------------------------------------
(* The end of the process.                                                 *)

Tasks == {e \in Events : task[e] # "none"}

\* The dispatcher is cancelled, but not its database thread.  What it has claimed
\* stays "running".
Stop ==
  /\ pool = "up"
  /\ pool' = IF Tasks = {} THEN "stopped" ELSE "draining"
  /\ \E at \in {"off"} \cup {a \in {"orphan"} : InThread} : disp' = [disp EXCEPT !.at = at]
  /\ UNCHANGED <<table, wakeup, tasks, agents, cancelled, interrupted, stop>>

\* The thread of the cancelled dispatcher claims a row for nobody.
OrphanClaims(e) ==
  /\ disp = [at |-> "orphan", ev |-> None]
  /\ NextEvent(e)
  /\ row' = Claimed(e)
  /\ disp' = [at |-> "off", ev |-> e]
  /\ UNCHANGED <<older, pool, wakeup, tasks, agents, cancelled, interrupted, stop>>

\* It puts back the row the dispatcher had claimed.
OrphanPutsBack(e) ==
  /\ disp = [at |-> "orphan", ev |-> e]
  /\ row' = [row EXCEPT ![e] = Requeue(@)]
  /\ disp' = [at |-> "off", ev |-> None]
  /\ UNCHANGED <<older, pool, wakeup, tasks, agents, cancelled, interrupted, stop>>

Drained ==
  /\ pool = "draining"
  /\ Tasks = {}
  /\ pool' = "stopped"
  /\ UNCHANGED <<table, disp, wakeup, tasks, agents, cancelled, interrupted, stop>>

DrainTimesOut ==
  /\ pool = "draining"
  /\ Tasks # {}
  /\ pool' = "interrupting"
  /\ still' = Tasks
  /\ UNCHANGED <<table, disp, wakeup, tasks, agents, cancelled, interrupted, kill, firing>>

Interrupt(e) ==
  /\ pool = "interrupting" /\ firing = None
  /\ e \in still
  /\ still' = still \ {e}
  /\ interrupted' = interrupted \cup ({e} \cap Tasks)
  /\ firing' = IF e \in Tasks \cap hooks THEN e ELSE None
  /\ hooks' = IF e \in Tasks THEN hooks \ {e} ELSE hooks
  /\ kill' = kill \cup ({e} \cap (Tasks \ hooks))
  /\ UNCHANGED <<table, pool, disp, wakeup, tasks, thread, agent, cancelled>>

HookFires ==
  /\ firing # None
  /\ agent' = [agent EXCEPT ![firing] = None]
  /\ firing' = None
  /\ UNCHANGED <<table, pool, disp, wakeup, tasks, thread, hooks, cancelled, interrupted,
                 kill, still>>

\* stop() returns after kill_timeout at the latest; only a workspace operation can
\* hold a cancellation up for that long.
StopReturns ==
  /\ pool = "interrupting"
  /\ still = {} /\ firing = None
  /\ \A e \in kill : task[e] = "setup"
  /\ pool' = "stopped"
  /\ UNCHANGED <<table, disp, wakeup, tasks, agents, cancelled, interrupted, stop>>

\* The process is gone; some of its omp processes may be left.
Down ==
  /\ pool' = "down"
  /\ disp' = [at |-> "off", ev |-> None]
  /\ wakeup' = FALSE
  /\ inflight' = {}
  /\ task' = [e \in Events |-> "none"]
  /\ slot' = [e \in Events |-> None]
  /\ free' = Slots
  /\ thread' = [e \in Events |-> "none"]
  /\ \E left \in SUBSET Events :
       agent' = [e \in Events |-> IF e \in left THEN agent[e] ELSE None]
  /\ hooks' = {} /\ cancelled' = {} /\ interrupted' = {}
  /\ kill' = {} /\ still' = {} /\ firing' = None
  /\ UNCHANGED table

Exit  == pool = "stopped" /\ Down
Crash == pool \notin {"down", "stopped"} /\ Down

---------------------------------------------------------------------------

Submits(e)    == Record(e) \/ Replay(e) \/ ManualTriage(e)
Dispatches(e) == Claim(e) \/ Dispatch(e) \/ PutBack(e)
TaskStep(e)   == \/ \E s \in Slots : AcquireSlot(e, s)
                 \/ StartThread(e) \/ ThreadReturned(e)
                 \/ Succeed(e) \/ Fail(e) \/ Killed(e)
                 \/ Release(e) \/ KilledInCleanup(e)
ThreadStep(e) == \/ Spawn(e) \/ StartupFails(e) \/ ArmChecks(e) \/ ArmStores(e)
                 \/ \E how \in {"ok", "error"} : AgentEnds(e, how)
Orphan(e)     == OrphanClaims(e) \/ OrphanPutsBack(e)
EventStep(e)  == Dispatches(e) \/ Orphan(e) \/ BackoffElapses(e) \/ TaskStep(e) \/ ThreadStep(e)
PoolStep      == \/ ReapAllSlots \/ Start
                 \/ NothingToClaim \/ PauseEnds \/ WaitWoken \/ WaitTimesOut
                 \/ Drained \/ DrainTimesOut \/ (\E e \in Events : Interrupt(e))
                 \/ HookFires \/ StopReturns \/ Exit

Next ==
  \/ PoolStep \/ Stop \/ Crash \/ ClaimRaises
  \/ \E e \in Events : Submits(e) \/ CancelEvent(e) \/ EventStep(e)

Spec == Init /\ [][Next]_vars

---------------------------------------------------------------------------
(* Properties.                                                             *)

TypeOK ==
  /\ row \in [Events -> Rows]
  /\ older \subseteq Events \X Events
  /\ pool \in PoolStates
  /\ disp \in [at : DispSteps, ev : Events \cup {None}]
  /\ wakeup \in BOOLEAN
  /\ inflight \subseteq Issues
  /\ task \in [Events -> Running \cup {"none", "cleanup"}]
  /\ slot \in [Events -> Slots \cup {None}]
  /\ free \subseteq Slots
  /\ thread \in [Events -> Alive \cup {"none", "ok", "error"}]
  /\ agent \in [Events -> Slots \cup {None}]
  /\ hooks \subseteq Events /\ cancelled \subseteq Events /\ interrupted \subseteq Events
  /\ kill \subseteq Events /\ still \subseteq Events /\ firing \in Events \cup {None}

\* Something of the process still works on the event, or an omp process does.
Busy(e) == task[e] # "none" \/ thread[e] \in Alive \/ agent[e] # None

(* A running row blocks every other event of its issue, so it has an owner: *)
(* while the pool is up, or drains without having interrupted anything, a   *)
(* task in its try block or the dispatcher, the last row claimed by one that*)
(* died or was stopped included.  A failure during the drain is recorded    *)
(* like any other (queue.py:69-76).                                         *)
RunningHasOwner ==
  pool \in {"up", "draining"} =>
    \A e \in Events : row[e].state = "running" => task[e] \in Running \/ disp.ev = e

(* An operator's cancel stops the run it was meant for, and no later one:   *)
(* the mark of a cancel does not outlive the row's way to a settled state,  *)
(* whatever window of the run the request fell into.                        *)
CancelIsSpent ==
  \A e \in cancelled : row[e].state \in {"queued", "running"}

(* No request to cancel is lost: as long as the process lives and is not    *)
(* stopping, the mark goes only together with the row's end in "failed".    *)
CancelLands ==
  [][\A e \in cancelled :
       pool = "up" /\ pool' \in {"up", "draining", "stopped"}
         => e \in cancelled' \/ row'[e].state = "failed"]_vars

(* While the pool is up an omp process runs under the slot its own task     *)
(* holds, and no two tasks hold one slot: a process never works beside the  *)
(* next user of its uid, not even one left over by a crash.                 *)
SlotIsOwn ==
  pool = "up" =>
    /\ \A e \in Events : agent[e] # None => task[e] \in Holding /\ agent[e] = slot[e]
    /\ \A e, f \in Events : task[e] \in Holding /\ task[f] \in Holding /\ slot[e] = slot[f]
                              => e = f

(* The queue keeps the bot's promise (EventService): one piece of work per  *)
(* issue at a time, counting tasks that clean up, threads that were         *)
(* detached and processes a crash left behind; nothing settles without work.*)
Status ==
  [e \in Events |->
     IF Busy(e) THEN "working"
     ELSE CASE row[e].state = "absent"   -> "absent"
            [] row[e].state \in Inactive -> "settled"
            [] OTHER                     -> "waiting"]

Service == INSTANCE EventService WITH status <- Status

ServiceSpec == Service!Spec

---------------------------------------------------------------------------
(* Liveness.                                                               *)

\* The service's own steps: timeouts bound every one of them, and a supervisor
\* starts the process again.  The lock the dispatcher and the releases share wakes
\* its waiters in turn.
Fairness ==
  /\ WF_vars(ReapAllSlots) /\ WF_vars(Start)
  /\ WF_vars(\E e \in Events : Dispatches(e))
  /\ WF_vars(NothingToClaim \/ PauseEnds \/ WaitWoken \/ WaitTimesOut)
  /\ WF_vars(Drained \/ DrainTimesOut \/ (\E e \in Events : Interrupt(e)))
  /\ WF_vars(HookFires) /\ WF_vars(StopReturns) /\ WF_vars(Exit)
  /\ \A e \in Events :
       /\ WF_vars(BackoffElapses(e)) /\ WF_vars(TaskStep(e)) /\ WF_vars(ThreadStep(e))
       /\ SF_vars(Release(e))

LiveSpec == Spec /\ Fairness

\* An operator asks again, the process is stopped or dies, a claim raises.
Disturbs == Stop \/ Crash \/ ClaimRaises \/ \E e \in Events : Replay(e) \/ ManualTriage(e)

\* The dispatcher has died of an exception; only a restart brings it back.
DispatcherDead == pool = "up" /\ disp.at = "off"

(* An event that is queued or running is settled in the end, across retries, *)
(* restarts and cancels, once operators and crashes let the bot work in      *)
(* peace and unless its dispatcher has died.                                 *)
EventsSettle ==
  <>[][~Disturbs]_vars =>
    \A e \in Events : row[e].state \in {"queued", "running"}
                        ~> (row[e].state \in Inactive \/ DispatcherDead)
=============================================================================
