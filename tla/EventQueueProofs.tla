------------------------- MODULE EventQueueProofs -------------------------
(***************************************************************************)
(* Proofs about the issue bot's event queue (EventQueue).  One inductive   *)
(* invariant, QueueInv, relates the table, the dispatcher, the tasks, the  *)
(* threads and the omp processes; TypeOK, RunningHasOwner, CancelIsSpent   *)
(* and SlotIsOwn follow from it, CancelLands from it and the actions.      *)
(* Every step that keeps it either begins no work and settles nothing      *)
(* (WorkOnly), or is a step of the callers or a dispatch, which are steps  *)
(* of EventService: so EventQueue implements EventService.                 *)
(***************************************************************************)
EXTENDS EventQueue, TLAPS

\* A process that is not up has no task and no thread; once its slots are reaped no
\* omp process is left either.
Quiet ==
  pool \in {"down", "reaped"} =>
    /\ inflight = {} /\ hooks = {} /\ cancelled = {}
    /\ free = Slots
    /\ \A e \in Events : task[e] = "none" /\ thread[e] = "none" /\ slot[e] = None
    /\ pool = "reaped" => \A e \in Events : agent[e] = None

\* Before the drain timed out nothing has been interrupted.
Calm ==
  pool \notin {"interrupting", "stopped"} =>
    interrupted = {} /\ kill = {} /\ still = {} /\ firing = None

\* What the dispatcher has claimed is running, and no task of its own works on it.
DispOk ==
  /\ pool # "up" => disp.at \in {"off", "orphan"}
  /\ pool \in {"down", "reaped"} => disp = [at |-> "off", ev |-> None]
  /\ disp.at \in {"poll", "pause", "wait"} => disp.ev = None
  /\ disp.at = "claimed" => disp.ev # None
  /\ disp.ev # None => row[disp.ev].state = "running" /\ task[disp.ev] \in {"none", "cleanup"}

\* A thread is one a task waits for, unless the task was killed.
ThreadOk ==
  \A e \in Events :
    /\ thread[e] \in {"ok", "error"} => task[e] = "agent"
    /\ thread[e] # "none" => task[e] \in {"agent", "cleanup", "none"}
    /\ thread[e] # "none" /\ pool \notin {"interrupting", "stopped"} => task[e] = "agent"
    /\ thread[e] \in Alive => slot[e] # None

\* An omp process has a thread that drives it, under the slot of that thread.
AgentOk ==
  \A e \in Events : agent[e] # None /\ pool # "down" =>
     thread[e] \in {"spawned", "arming", "running"} /\ agent[e] = slot[e]

\* A task with a slot has it for itself.
SlotOk ==
  /\ \A e \in Events : task[e] \in Holding => slot[e] \in Slots \ free
  /\ \A e, f \in Events : task[e] \in Holding /\ task[f] \in Holding /\ slot[e] = slot[f] => e = f

\* A task has its issue for itself, in _inflight.
IssueOk ==
  /\ \A e \in Events : task[e] # "none" => IssueOf[e] \in inflight
  /\ \A e, f \in Events : task[e] # "none" /\ task[f] # "none" /\ IssueOf[e] = IssueOf[f] => e = f

\* The row of a task in its try block is running.
OwnOk == \A e \in Events : task[e] \in Running => row[e].state = "running"

\* Only deliveries of the table are worked on.
Known == \A e \in Events : row[e].state = "absent" => ~Busy(e)

QueueInv ==
  /\ TypeOK /\ Quiet /\ Calm /\ DispOk /\ ThreadOk /\ AgentOk /\ SlotOk /\ IssueOk /\ OwnOk
  /\ Known /\ RunningHasOwner /\ CancelIsSpent

\* A step that begins no work, and lets a row move only between waiting states, except
\* where work goes on.
WorkOnly ==
  \A e \in Events :
    /\ Busy(e)' => Busy(e)
    /\ row'[e].state = "absent" => row[e].state = "absent"
    /\ \/ Busy(e)
       \/ row'[e].state = row[e].state
       \/ {row[e].state, row'[e].state} \subseteq {"queued", "running"}

LEMMA InitQueueInv ==
  ASSUME Init PROVE QueueInv
<1>1. NoRow \in Rows
  BY QueueAssumption DEF NoRow, Rows, RowStates
<1>2. TypeOK
  BY <1>1 DEF Init, TypeOK, PoolStates, DispSteps
<1>3. \A e \in Events : row[e].state = "absent" /\ ~Busy(e)
  BY DEF Init, NoRow, Busy, Alive
<1>4. Quiet /\ Calm /\ DispOk /\ ThreadOk /\ AgentOk /\ SlotOk /\ IssueOk
  BY DEF Init, Quiet, Calm, DispOk, ThreadOk, AgentOk, SlotOk, IssueOk, Holding, Alive
<1>5. OwnOk /\ Known /\ RunningHasOwner /\ CancelIsSpent
  BY <1>3 DEF Init, OwnOk, Known, RunningHasOwner, CancelIsSpent, Running
<1> QED BY <1>2, <1>4, <1>5 DEF QueueInv

---------------------------------------------------------------------------
(* Rows: what an update leaves of a row is a row.                          *)

LEMMA RowFields ==
  /\ Rows = [state : RowStates, attempts : 0 .. MaxRetries + 1, delayed : BOOLEAN]
  /\ NoRow \in Rows
BY QueueAssumption DEF Rows, NoRow, RowStates

LEMMA RowState ==
  ASSUME NEW r \in Rows, NEW s \in RowStates PROVE [r EXCEPT !.state = s] \in Rows
<1> DEFINE A == 0 .. MaxRetries + 1
<1>1. Rows = [state : RowStates, attempts : A, delayed : BOOLEAN]
  BY RowFields
<1> HIDE DEF A
<1> QED BY <1>1

LEMMA RowDelay ==
  ASSUME NEW r \in Rows, NEW b \in BOOLEAN PROVE [r EXCEPT !.delayed = b] \in Rows
<1> DEFINE A == 0 .. MaxRetries + 1
<1>1. Rows = [state : RowStates, attempts : A, delayed : BOOLEAN]
  BY RowFields
<1> HIDE DEF A
<1> QED BY <1>1

LEMMA RowQueued ==
  ASSUME NEW r \in Rows, NEW b \in BOOLEAN
  PROVE [r EXCEPT !.state = "queued", !.delayed = b] \in Rows
<1> DEFINE A == 0 .. MaxRetries + 1
<1>1. Rows = [state : RowStates, attempts : A, delayed : BOOLEAN]
  BY RowFields
<1>2. "queued" \in RowStates
  BY DEF RowStates
<1> HIDE DEF A
<1> QED BY <1>1, <1>2

LEMMA RowClaimed ==
  ASSUME NEW r \in Rows
  PROVE [r EXCEPT !.state = "running", !.attempts = Least(@ + 1, MaxRetries + 1)] \in Rows
<1> DEFINE A == 0 .. MaxRetries + 1
<1>1. Rows = [state : RowStates, attempts : A, delayed : BOOLEAN]
  BY RowFields
<1>2. Least(r.attempts + 1, MaxRetries + 1) \in A
  BY QueueAssumption DEF Rows, Least
<1>3. "running" \in RowStates
  BY DEF RowStates
<1> HIDE DEF A
<1> QED BY <1>1, <1>2, <1>3

LEMMA MarkType ==
  ASSUME TypeOK, NEW e \in Events, NEW s \in RowStates, Mark(e, s) PROVE row' \in [Events -> Rows]
BY RowState DEF TypeOK, Mark

LEMMA FailureType ==
  ASSUME TypeOK, NEW e \in Events, Failure(e) PROVE row' \in [Events -> Rows]
<1>1. ASSUME NEW s \in RowStates, Mark(e, s) PROVE row' \in [Events -> Rows]
  BY <1>1, RowState DEF TypeOK, Mark
<1>2. RetryLater(e) \in [Events -> Rows]
  BY RowQueued DEF TypeOK, RetryLater
<1> QED BY <1>1, <1>2 DEF TypeOK, Failure, RowStates

LEMMA ClaimedType ==
  ASSUME TypeOK, NEW e \in Events PROVE Claimed(e) \in [Events -> Rows]
BY RowClaimed DEF TypeOK, Claimed

LEMMA ForgetType ==
  ASSUME QueueInv, NEW e \in Events, row' \in [Events -> Rows], Forget(e) PROVE TypeOK'
<1>1. task' \in [Events -> Running \cup {"none", "cleanup"}]
  BY DEF QueueInv, TypeOK, Forget
<1>2. agent' \in [Events -> Slots \cup {None}] /\ free' \subseteq Slots
  BY DEF QueueInv, TypeOK, SlotOk, Forget, Reap
<1>3. /\ slot' \in [Events -> Slots \cup {None}]
      /\ thread' \in [Events -> Alive \cup {"none", "ok", "error"}]
  BY DEF QueueInv, TypeOK, Forget
<1> QED BY <1>1, <1>2, <1>3 DEF QueueInv, TypeOK, Forget

---------------------------------------------------------------------------
(* The callers.                                                            *)

LEMMA RecordType ==
  ASSUME QueueInv, NEW e \in Events, Record(e) PROVE TypeOK'
<1>1. PICK s \in {"queued", "skipped"} : row' = [row EXCEPT ![e].state = s]
  BY DEF Record
<1>2. [row[e] EXCEPT !.state = s] \in Rows
  BY RowState DEF QueueInv, TypeOK, RowStates
<1>3. row' \in [Events -> Rows]
  BY <1>1, <1>2 DEF QueueInv, TypeOK
<1>4. wakeup' \in BOOLEAN
  BY DEF QueueInv, TypeOK, Record
<1> QED BY <1>3, <1>4 DEF QueueInv, TypeOK, Record, Received, tasks, agents, stop

LEMMA RecordDisp ==
  ASSUME QueueInv, NEW e \in Events, Record(e) PROVE DispOk'
<1>1. \A f \in Events : row[f].state = "running" => row'[f].state = "running"
  BY DEF QueueInv, TypeOK, Record
<1>2. disp.ev # None => disp.ev \in Events
  BY DEF QueueInv, TypeOK
<1>3. UNCHANGED <<pool, disp, task>>
  BY DEF Record, tasks
<1> QED BY <1>1, <1>2, <1>3 DEF QueueInv, DispOk

LEMMA RecordTasks ==
  ASSUME QueueInv, NEW e \in Events, Record(e) PROVE (IssueOk /\ OwnOk /\ Known)'
<1>1. \A f \in Events : /\ row[f].state = "running" => row'[f].state = "running"
                        /\ row'[f].state = "absent" => row[f].state = "absent"
  BY DEF QueueInv, TypeOK, Record
<1> QED BY <1>1 DEF QueueInv, IssueOk, OwnOk, Known, Busy, Record, tasks, agents

LEMMA RecordOwners ==
  ASSUME QueueInv, NEW e \in Events, Record(e) PROVE (RunningHasOwner /\ CancelIsSpent)'
<1>1. \A f \in Events \ {e} : row'[f] = row[f]
  BY DEF QueueInv, TypeOK, Record
<1>2. row[e].state = "absent" /\ row'[e].state # "running"
  BY DEF QueueInv, TypeOK, Rows, Record
<1>3. e \notin cancelled
  BY <1>2 DEF QueueInv, CancelIsSpent
<1> QED BY <1>1, <1>2, <1>3 DEF QueueInv, TypeOK, RunningHasOwner, CancelIsSpent, Record, tasks

LEMMA RecordStep ==
  ASSUME QueueInv, NEW e \in Events, Record(e) PROVE QueueInv'
<1>1. TypeOK'
  BY RecordType
<1>2. (Quiet /\ Calm)'
  BY DEF QueueInv, Quiet, Calm, Record, stop
<1>3. DispOk'
  BY RecordDisp
<1>4. (ThreadOk /\ AgentOk /\ SlotOk)'
  BY DEF QueueInv, ThreadOk, AgentOk, SlotOk, Record, tasks, agents
<1>5. (IssueOk /\ OwnOk /\ Known)'
  BY RecordTasks
<1>6. (RunningHasOwner /\ CancelIsSpent)'
  BY RecordOwners
<1> QED BY <1>1, <1>2, <1>3, <1>4, <1>5, <1>6 DEF QueueInv

LEMMA ReplayType ==
  ASSUME QueueInv, NEW e \in Events, Replay(e) PROVE TypeOK'
<1>1. row' \in [Events -> Rows]
  BY RowQueued DEF QueueInv, TypeOK, Replay, Requeue, RowStates
<1> QED BY <1>1 DEF QueueInv, TypeOK, Replay, Woken, tasks, agents, stop

LEMMA ReplayStep ==
  ASSUME QueueInv, NEW e \in Events, Replay(e) PROVE QueueInv'
<1>1. TypeOK'
  BY ReplayType
<1>2. (Quiet /\ Calm)'
  BY DEF QueueInv, Quiet, Calm, Replay, tasks, agents, stop
<1>3. DispOk'
  BY DEF QueueInv, DispOk, Replay, tasks, Inactive
<1>4. (ThreadOk /\ AgentOk /\ SlotOk)'
  BY DEF QueueInv, ThreadOk, AgentOk, SlotOk, Replay, tasks, agents
<1>5. (IssueOk /\ OwnOk /\ Known)'
  BY DEF QueueInv, IssueOk, OwnOk, Known, Busy, Replay, Requeue, tasks, agents, Inactive
<1>6. (RunningHasOwner /\ CancelIsSpent)'
  BY DEF QueueInv, RunningHasOwner, CancelIsSpent, Replay, Requeue, tasks
<1> QED BY <1>1, <1>2, <1>3, <1>4, <1>5, <1>6 DEF QueueInv

LEMMA ManualTriageType ==
  ASSUME QueueInv, NEW e \in Events, ManualTriage(e) PROVE TypeOK'
<1>1. NoRow \in Rows /\ [NoRow EXCEPT !.state = "queued"] \in Rows
  BY RowFields, RowState DEF RowStates
<1>2. row' \in [Events -> Rows]
  BY <1>1 DEF QueueInv, TypeOK, ManualTriage
<1> QED BY <1>2 DEF QueueInv, TypeOK, ManualTriage, Received, Woken, tasks, agents, stop

LEMMA ManualTriageStep ==
  ASSUME QueueInv, NEW e \in Events, ManualTriage(e) PROVE QueueInv'
<1>1. TypeOK'
  BY ManualTriageType
<1>2. (Quiet /\ Calm)'
  BY DEF QueueInv, Quiet, Calm, ManualTriage, tasks, agents, stop
<1>3. DispOk'
  BY DEF QueueInv, DispOk, ManualTriage, tasks, Inactive
<1>4. (ThreadOk /\ AgentOk /\ SlotOk)'
  BY DEF QueueInv, ThreadOk, AgentOk, SlotOk, ManualTriage, tasks, agents
<1>5. (IssueOk /\ OwnOk /\ Known)'
  BY DEF QueueInv, IssueOk, OwnOk, Known, Busy, ManualTriage, tasks, agents, Inactive
<1>6. (RunningHasOwner /\ CancelIsSpent)'
  BY DEF QueueInv, RunningHasOwner, CancelIsSpent, ManualTriage, tasks
<1> QED BY <1>1, <1>2, <1>3, <1>4, <1>5, <1>6 DEF QueueInv

LEMMA CancelEventStep ==
  ASSUME QueueInv, NEW e \in Events, CancelEvent(e) PROVE QueueInv' /\ WorkOnly
<1>1. TypeOK'
  BY DEF QueueInv, TypeOK, CancelEvent, table, tasks, stop
<1>2. (Quiet /\ Calm)'
  BY DEF QueueInv, Quiet, Calm, CancelEvent, stop
<1>3. DispOk'
  BY DEF QueueInv, DispOk, CancelEvent, table, tasks
<1>4. (ThreadOk /\ AgentOk /\ SlotOk)'
  BY DEF QueueInv, ThreadOk, AgentOk, SlotOk, CancelEvent, tasks
<1>5. (IssueOk /\ OwnOk /\ Known)'
  BY DEF QueueInv, IssueOk, OwnOk, Known, Busy, CancelEvent, table, tasks
<1>6. (RunningHasOwner /\ CancelIsSpent)'
  BY DEF QueueInv, RunningHasOwner, CancelIsSpent, CancelEvent, table, tasks
<1>7. WorkOnly
  BY DEF QueueInv, WorkOnly, Busy, CancelEvent, table, tasks
<1> QED BY <1>1, <1>2, <1>3, <1>4, <1>5, <1>6, <1>7 DEF QueueInv

---------------------------------------------------------------------------
(* Start, and the dispatcher.                                              *)

LEMMA ReapAllSlotsStep ==
  ASSUME QueueInv, ReapAllSlots PROVE QueueInv' /\ WorkOnly
<1>1. TypeOK'
  BY DEF QueueInv, TypeOK, ReapAllSlots, table, tasks, stop, PoolStates
<1>2. (Quiet /\ Calm)'
  BY DEF QueueInv, Quiet, Calm, ReapAllSlots, tasks, stop
<1>3. DispOk'
  BY DEF QueueInv, DispOk, ReapAllSlots
<1>4. (ThreadOk /\ AgentOk /\ SlotOk)'
  BY DEF QueueInv, ThreadOk, AgentOk, SlotOk, ReapAllSlots, tasks
<1>5. (IssueOk /\ OwnOk /\ Known)'
  BY DEF QueueInv, IssueOk, OwnOk, Known, Busy, ReapAllSlots, table, tasks
<1>6. (RunningHasOwner /\ CancelIsSpent)'
  BY DEF QueueInv, RunningHasOwner, CancelIsSpent, ReapAllSlots, table
<1>7. WorkOnly
  BY DEF QueueInv, WorkOnly, Busy, ReapAllSlots, table, tasks
<1> QED BY <1>1, <1>2, <1>3, <1>4, <1>5, <1>6, <1>7 DEF QueueInv

LEMMA StartType ==
  ASSUME QueueInv, Start PROVE TypeOK'
<1>1. row' \in [Events -> Rows]
  BY RowQueued DEF QueueInv, TypeOK, Start, ResetStuckRunning, Requeue, RowStates
<1> QED BY <1>1 DEF QueueInv, TypeOK, Start, PoolStates, DispSteps, tasks, agents, stop

LEMMA StartOwners ==
  ASSUME QueueInv, Start PROVE (RunningHasOwner /\ CancelIsSpent)'
<1>1. \A e \in Events : row'[e].state # "running"
  BY DEF QueueInv, TypeOK, Start, ResetStuckRunning, Requeue, Rows
<1>2. cancelled' = {}
  BY DEF QueueInv, Quiet, Start
<1> QED BY <1>1, <1>2 DEF RunningHasOwner, CancelIsSpent

LEMMA StartWork ==
  ASSUME QueueInv, Start PROVE WorkOnly
<1>1. \A e \in Events : Busy(e)' => Busy(e)
  BY DEF Busy, Start, tasks, agents
<1>2. ASSUME NEW e \in Events
      PROVE row'[e].state = IF row[e].state = "running" THEN "queued" ELSE row[e].state
  <2>1. row'[e] = IF row[e].state = "running" THEN Requeue(row[e]) ELSE row[e]
    BY DEF Start, ResetStuckRunning
  <2>2. Requeue(row[e]).state = "queued"
    BY DEF QueueInv, TypeOK, Rows, Requeue
  <2> QED BY <2>1, <2>2
<1> QED BY <1>1, <1>2 DEF WorkOnly

LEMMA StartStep ==
  ASSUME QueueInv, Start PROVE QueueInv' /\ WorkOnly
<1>1. TypeOK'
  BY StartType
<1>2. (Quiet /\ Calm)'
  BY Zenon DEF QueueInv, Quiet, Calm, Start, stop
<1>3. DispOk'
  BY Zenon DEF QueueInv, DispOk, Start
<1>4. (ThreadOk /\ AgentOk /\ SlotOk)'
  BY Zenon DEF QueueInv, ThreadOk, AgentOk, SlotOk, Start, tasks, agents
<1>5. (IssueOk /\ OwnOk /\ Known)'
  BY Zenon DEF QueueInv, IssueOk, OwnOk, Known, Busy, Start, tasks, agents, Quiet,
     Running, Alive
<1>6. (RunningHasOwner /\ CancelIsSpent)'
  BY StartOwners
<1>7. WorkOnly
  BY StartWork
<1> QED BY <1>1, <1>2, <1>3, <1>4, <1>5, <1>6, <1>7 DEF QueueInv

LEMMA ClaimType ==
  ASSUME QueueInv, NEW e \in Events, Claim(e) PROVE TypeOK'
BY ClaimedType DEF QueueInv, TypeOK, Claim, DispSteps, tasks, agents, stop

LEMMA ClaimStep ==
  ASSUME QueueInv, NEW e \in Events, Claim(e) PROVE QueueInv' /\ WorkOnly
<1>1. TypeOK'
  BY ClaimType
<1>2. (Quiet /\ Calm)'
  BY DEF QueueInv, Quiet, Calm, Claim, tasks, agents, stop
<1>3. DispOk'
  BY QueueAssumption DEF QueueInv, DispOk, Claim, NextEvent, Claimed, tasks, Claimable,
     TypeOK, OwnOk
<1>4. (ThreadOk /\ AgentOk /\ SlotOk)'
  BY DEF QueueInv, ThreadOk, AgentOk, SlotOk, Claim, tasks, agents
<1>5. (IssueOk /\ OwnOk /\ Known)'
  BY DEF QueueInv, IssueOk, OwnOk, Known, Busy, Claim, Claimed, tasks, agents, TypeOK
<1>6. (RunningHasOwner /\ CancelIsSpent)'
  BY QueueAssumption DEF QueueInv, RunningHasOwner, CancelIsSpent, Claim, Claimed,
     tasks, TypeOK, DispOk
<1>7. WorkOnly
  BY DEF QueueInv, WorkOnly, Busy, Claim, NextEvent, Claimed, tasks, agents, Claimable,
     TypeOK
<1> QED BY <1>1, <1>2, <1>3, <1>4, <1>5, <1>6, <1>7 DEF QueueInv

LEMMA NothingToClaimStep ==
  ASSUME QueueInv, NothingToClaim PROVE QueueInv' /\ WorkOnly
<1>1. TypeOK'
  BY Zenon DEF QueueInv, TypeOK, NothingToClaim, table, tasks, agents, stop, DispSteps
<1>2. (Quiet /\ Calm)'
  BY DEF QueueInv, Quiet, Calm, NothingToClaim, tasks, agents, stop
<1>3. DispOk'
  BY DEF QueueInv, DispOk, NothingToClaim
<1>4. (ThreadOk /\ AgentOk /\ SlotOk)'
  BY DEF QueueInv, ThreadOk, AgentOk, SlotOk, NothingToClaim, tasks, agents
<1>5. (IssueOk /\ OwnOk /\ Known)'
  BY DEF QueueInv, IssueOk, OwnOk, Known, Busy, NothingToClaim, table, tasks, agents
<1>6. (RunningHasOwner /\ CancelIsSpent)'
  BY DEF QueueInv, RunningHasOwner, CancelIsSpent, NothingToClaim, table, tasks
<1>7. WorkOnly
  BY DEF QueueInv, WorkOnly, Busy, NothingToClaim, table, tasks, agents
<1> QED BY <1>1, <1>2, <1>3, <1>4, <1>5, <1>6, <1>7 DEF QueueInv

LEMMA ClaimRaisesStep ==
  ASSUME QueueInv, ClaimRaises PROVE QueueInv' /\ WorkOnly
<1>1. TypeOK'
  BY DEF QueueInv, TypeOK, ClaimRaises, table, tasks, agents, stop, DispSteps
<1>2. (Quiet /\ Calm)'
  BY DEF QueueInv, Quiet, Calm, ClaimRaises, tasks, agents, stop
<1>3. DispOk'
  BY DEF QueueInv, DispOk, ClaimRaises, table, tasks
<1>4. (ThreadOk /\ AgentOk /\ SlotOk)'
  BY DEF QueueInv, ThreadOk, AgentOk, SlotOk, ClaimRaises, tasks, agents
<1>5. (IssueOk /\ OwnOk /\ Known)'
  BY DEF QueueInv, IssueOk, OwnOk, Known, Busy, ClaimRaises, table, tasks, agents
<1>6. (RunningHasOwner /\ CancelIsSpent)'
  BY DEF QueueInv, RunningHasOwner, CancelIsSpent, ClaimRaises, table, tasks
<1>7. WorkOnly
  BY DEF QueueInv, WorkOnly, Busy, ClaimRaises, table, tasks, agents
<1> QED BY <1>1, <1>2, <1>3, <1>4, <1>5, <1>6, <1>7 DEF QueueInv

LEMMA DispatchType ==
  ASSUME QueueInv, NEW e \in Events, Dispatch(e) PROVE TypeOK'
<1>1. IssueOf[e] \in Issues
  BY QueueAssumption
<1> QED BY <1>1 DEF QueueInv, TypeOK, Dispatch, Running, DispSteps, table, agents, stop

LEMMA DispatchStep ==
  ASSUME QueueInv, NEW e \in Events, Dispatch(e) PROVE QueueInv'
<1>1. TypeOK'
  BY DispatchType
<1>2. (Quiet /\ Calm)'
  BY DEF QueueInv, Quiet, Calm, Dispatch, stop, DispOk
<1>3. DispOk'
  BY DEF QueueInv, DispOk, Dispatch
<1>4. (ThreadOk /\ AgentOk /\ SlotOk)'
  BY DEF QueueInv, ThreadOk, AgentOk, SlotOk, Dispatch, agents, DispOk, Holding
<1>5. (IssueOk /\ OwnOk /\ Known)'
  BY DEF QueueInv, IssueOk, OwnOk, Known, Busy, Dispatch, table, agents, DispOk
<1>6. (RunningHasOwner /\ CancelIsSpent)'
  BY DEF QueueInv, RunningHasOwner, CancelIsSpent, Dispatch, table, TypeOK, Running
<1> QED BY <1>1, <1>2, <1>3, <1>4, <1>5, <1>6 DEF QueueInv

LEMMA PutBackType ==
  ASSUME QueueInv, NEW e \in Events, PutBack(e) PROVE TypeOK'
<1>1. row' \in [Events -> Rows]
  BY RowQueued DEF QueueInv, TypeOK, PutBack, Requeue, RowStates
<1> QED BY <1>1 DEF QueueInv, TypeOK, PutBack, DispSteps, tasks, agents, stop

LEMMA PutBackStep ==
  ASSUME QueueInv, NEW e \in Events, PutBack(e) PROVE QueueInv' /\ WorkOnly
<1>1. TypeOK'
  BY PutBackType
<1>2. (Quiet /\ Calm)'
  BY DEF QueueInv, Quiet, Calm, PutBack, stop
<1>3. DispOk'
  BY DEF QueueInv, DispOk, PutBack
<1>4. (ThreadOk /\ AgentOk /\ SlotOk)'
  BY DEF QueueInv, ThreadOk, AgentOk, SlotOk, PutBack, tasks, agents
<1>5. (IssueOk /\ OwnOk /\ Known)'
  BY DEF QueueInv, IssueOk, OwnOk, Known, Busy, PutBack, Requeue, tasks, agents, DispOk,
     Running
<1>6. (RunningHasOwner /\ CancelIsSpent)'
  BY DEF QueueInv, RunningHasOwner, CancelIsSpent, PutBack, Requeue, tasks, TypeOK
<1>7. WorkOnly
  BY DEF QueueInv, WorkOnly, Busy, PutBack, Requeue, tasks, agents, DispOk
<1> QED BY <1>1, <1>2, <1>3, <1>4, <1>5, <1>6, <1>7 DEF QueueInv

LEMMA PauseEndsStep ==
  ASSUME QueueInv, PauseEnds PROVE QueueInv' /\ WorkOnly
<1>1. TypeOK'
  BY Zenon DEF QueueInv, TypeOK, PauseEnds, table, tasks, agents, stop, DispSteps
<1>2. (Quiet /\ Calm)'
  BY DEF QueueInv, Quiet, Calm, PauseEnds, tasks, agents, stop
<1>3. DispOk'
  BY DEF QueueInv, DispOk, PauseEnds
<1>4. (ThreadOk /\ AgentOk /\ SlotOk)'
  BY DEF QueueInv, ThreadOk, AgentOk, SlotOk, PauseEnds, tasks, agents
<1>5. (IssueOk /\ OwnOk /\ Known)'
  BY DEF QueueInv, IssueOk, OwnOk, Known, Busy, PauseEnds, table, tasks, agents
<1>6. (RunningHasOwner /\ CancelIsSpent)'
  BY DEF QueueInv, RunningHasOwner, CancelIsSpent, PauseEnds, table, tasks
<1>7. WorkOnly
  BY DEF QueueInv, WorkOnly, Busy, PauseEnds, table, tasks, agents
<1> QED BY <1>1, <1>2, <1>3, <1>4, <1>5, <1>6, <1>7 DEF QueueInv

LEMMA WaitWokenStep ==
  ASSUME QueueInv, WaitWoken PROVE QueueInv' /\ WorkOnly
<1>1. TypeOK'
  BY DEF QueueInv, TypeOK, WaitWoken, Polls, table, tasks, agents, stop, DispSteps
<1>2. (Quiet /\ Calm)'
  BY DEF QueueInv, Quiet, Calm, WaitWoken, Polls, tasks, agents, stop
<1>3. DispOk'
  BY DEF QueueInv, DispOk, WaitWoken, Polls
<1>4. (ThreadOk /\ AgentOk /\ SlotOk)'
  BY DEF QueueInv, ThreadOk, AgentOk, SlotOk, WaitWoken, Polls, tasks, agents
<1>5. (IssueOk /\ OwnOk /\ Known)'
  BY DEF QueueInv, IssueOk, OwnOk, Known, Busy, WaitWoken, Polls, table, tasks, agents
<1>6. (RunningHasOwner /\ CancelIsSpent)'
  BY DEF QueueInv, RunningHasOwner, CancelIsSpent, WaitWoken, Polls, table, tasks
<1>7. WorkOnly
  BY DEF QueueInv, WorkOnly, Busy, WaitWoken, Polls, table, tasks, agents
<1> QED BY <1>1, <1>2, <1>3, <1>4, <1>5, <1>6, <1>7 DEF QueueInv

LEMMA WaitTimesOutStep ==
  ASSUME QueueInv, WaitTimesOut PROVE QueueInv' /\ WorkOnly
<1>1. TypeOK'
  BY DEF QueueInv, TypeOK, WaitTimesOut, Polls, table, tasks, agents, stop, DispSteps
<1>2. (Quiet /\ Calm)'
  BY DEF QueueInv, Quiet, Calm, WaitTimesOut, Polls, tasks, agents, stop
<1>3. DispOk'
  BY DEF QueueInv, DispOk, WaitTimesOut, Polls
<1>4. (ThreadOk /\ AgentOk /\ SlotOk)'
  BY DEF QueueInv, ThreadOk, AgentOk, SlotOk, WaitTimesOut, Polls, tasks, agents
<1>5. (IssueOk /\ OwnOk /\ Known)'
  BY DEF QueueInv, IssueOk, OwnOk, Known, Busy, WaitTimesOut, Polls, table, tasks,
     agents
<1>6. (RunningHasOwner /\ CancelIsSpent)'
  BY DEF QueueInv, RunningHasOwner, CancelIsSpent, WaitTimesOut, Polls, table, tasks
<1>7. WorkOnly
  BY DEF QueueInv, WorkOnly, Busy, WaitTimesOut, Polls, table, tasks, agents
<1> QED BY <1>1, <1>2, <1>3, <1>4, <1>5, <1>6, <1>7 DEF QueueInv

LEMMA BackoffElapsesType ==
  ASSUME QueueInv, NEW e \in Events, BackoffElapses(e) PROVE TypeOK'
<1>1. row' \in [Events -> Rows]
  BY RowDelay DEF QueueInv, TypeOK, BackoffElapses, RowStates
<1> QED BY <1>1 DEF QueueInv, TypeOK, BackoffElapses, tasks, agents, stop

LEMMA BackoffElapsesStep ==
  ASSUME QueueInv, NEW e \in Events, BackoffElapses(e) PROVE QueueInv' /\ WorkOnly
<1>1. TypeOK'
  BY BackoffElapsesType
<1>2. (Quiet /\ Calm)'
  BY DEF QueueInv, Quiet, Calm, BackoffElapses, tasks, agents, stop
<1>3. DispOk'
  BY DEF QueueInv, DispOk, BackoffElapses, tasks
<1>4. (ThreadOk /\ AgentOk /\ SlotOk)'
  BY DEF QueueInv, ThreadOk, AgentOk, SlotOk, BackoffElapses, tasks, agents
<1>5. (IssueOk /\ OwnOk /\ Known)'
  BY DEF QueueInv, IssueOk, OwnOk, Known, Busy, BackoffElapses, tasks, agents
<1>6. (RunningHasOwner /\ CancelIsSpent)'
  BY DEF QueueInv, RunningHasOwner, CancelIsSpent, BackoffElapses, tasks
<1>7. WorkOnly
  BY DEF QueueInv, WorkOnly, Busy, BackoffElapses, tasks, agents
<1> QED BY <1>1, <1>2, <1>3, <1>4, <1>5, <1>6, <1>7 DEF QueueInv

---------------------------------------------------------------------------
(* A task.                                                                 *)

LEMMA AcquireSlotStep ==
  ASSUME QueueInv, NEW e \in Events, NEW s \in Slots, AcquireSlot(e, s) PROVE QueueInv' /\ WorkOnly
<1>1. TypeOK'
  BY DEF QueueInv, TypeOK, AcquireSlot, table, agents, stop, Running
<1>2. (Quiet /\ Calm)'
  BY DEF QueueInv, Quiet, Calm, AcquireSlot, At, stop
<1>3. DispOk'
  BY DEF QueueInv, DispOk, AcquireSlot, At, table
<1>4. (ThreadOk /\ AgentOk /\ SlotOk)'
  BY DEF QueueInv, ThreadOk, AgentOk, SlotOk, AcquireSlot, At, agents, TypeOK, Alive
<1>5. (IssueOk /\ OwnOk /\ Known)'
  BY DEF QueueInv, IssueOk, OwnOk, Known, Busy, AcquireSlot, At, table, agents, TypeOK
<1>6. (RunningHasOwner /\ CancelIsSpent)'
  BY DEF QueueInv, RunningHasOwner, CancelIsSpent, AcquireSlot, table, Running
<1>7. WorkOnly
  BY DEF QueueInv, WorkOnly, Busy, AcquireSlot, At, table, agents
<1> QED BY <1>1, <1>2, <1>3, <1>4, <1>5, <1>6, <1>7 DEF QueueInv

LEMMA StartThreadStep ==
  ASSUME QueueInv, NEW e \in Events, StartThread(e) PROVE QueueInv' /\ WorkOnly
<1>1. TypeOK'
  BY DEF QueueInv, TypeOK, StartThread, table, stop, Running, Alive
<1>2. (Quiet /\ Calm)'
  BY DEF QueueInv, Quiet, Calm, StartThread, At, stop
<1>3. DispOk'
  BY DEF QueueInv, DispOk, StartThread, At, table
<1>4. (ThreadOk /\ AgentOk /\ SlotOk)'
  BY QueueAssumption DEF QueueInv, ThreadOk, AgentOk, SlotOk, StartThread, At, TypeOK,
     Holding
<1>5. (IssueOk /\ OwnOk /\ Known)'
  BY DEF QueueInv, IssueOk, OwnOk, Known, Busy, StartThread, At, table, TypeOK
<1>6. (RunningHasOwner /\ CancelIsSpent)'
  BY DEF QueueInv, RunningHasOwner, CancelIsSpent, StartThread, table, Running
<1>7. WorkOnly
  BY DEF QueueInv, WorkOnly, Busy, StartThread, At, table
<1> QED BY <1>1, <1>2, <1>3, <1>4, <1>5, <1>6, <1>7 DEF QueueInv

LEMMA ThreadReturnedStep ==
  ASSUME QueueInv, NEW e \in Events, ThreadReturned(e) PROVE QueueInv' /\ WorkOnly
<1>1. TypeOK'
  BY DEF QueueInv, TypeOK, ThreadReturned, table, stop, Running
<1>2. (Quiet /\ Calm)'
  BY DEF QueueInv, Quiet, Calm, ThreadReturned, stop
<1>3. DispOk'
  BY DEF QueueInv, DispOk, ThreadReturned, At, table
<1>4. (ThreadOk /\ AgentOk /\ SlotOk)'
  BY DEF QueueInv, ThreadOk, AgentOk, SlotOk, ThreadReturned, TypeOK, Holding, Alive
<1>5. (IssueOk /\ OwnOk /\ Known)'
  BY DEF QueueInv, IssueOk, OwnOk, Known, Busy, ThreadReturned, At, table, TypeOK
<1>6. (RunningHasOwner /\ CancelIsSpent)'
  BY DEF QueueInv, RunningHasOwner, CancelIsSpent, ThreadReturned, table, Running
<1>7. WorkOnly
  BY DEF QueueInv, WorkOnly, Busy, ThreadReturned, At, table
<1> QED BY <1>1, <1>2, <1>3, <1>4, <1>5, <1>6, <1>7 DEF QueueInv

LEMMA SucceedStep ==
  ASSUME QueueInv, NEW e \in Events, Succeed(e) PROVE QueueInv' /\ WorkOnly
<1>1. TypeOK'
  BY MarkType, ForgetType DEF QueueInv, Succeed, RowStates
<1>2. (Quiet /\ Calm)'
  BY DEF QueueInv, Quiet, Calm, Succeed, EndsByItself, Forget, At
<1>3. DispOk'
  BY DEF QueueInv, DispOk, Succeed, EndsByItself, Mark, Forget, At
<1>4. (ThreadOk /\ AgentOk /\ SlotOk)'
  BY DEF QueueInv, ThreadOk, AgentOk, SlotOk, Succeed, EndsByItself, Forget, At, Reap,
     TypeOK, Holding
<1>5. (IssueOk /\ OwnOk /\ Known)'
  BY DEF QueueInv, IssueOk, OwnOk, Known, Busy, Succeed, EndsByItself, Mark, Forget, At,
     Reap, TypeOK, Running
<1>6. (RunningHasOwner /\ CancelIsSpent)'
  BY DEF QueueInv, RunningHasOwner, CancelIsSpent, Succeed, Mark, Forget, TypeOK
<1>7. WorkOnly
  BY DEF QueueInv, WorkOnly, Busy, Succeed, EndsByItself, Mark, Forget, At, Reap
<1> QED BY <1>1, <1>2, <1>3, <1>4, <1>5, <1>6, <1>7 DEF QueueInv

LEMMA FailStep ==
  ASSUME QueueInv, NEW e \in Events, Fail(e) PROVE QueueInv' /\ WorkOnly
<1>1. TypeOK'
  BY FailureType, ForgetType DEF QueueInv, Fail
<1>2. (Quiet /\ Calm)'
  BY DEF QueueInv, Quiet, Calm, Fail, EndsByItself, RaisesInThread, Forget, At
<1>3. DispOk'
  BY DEF QueueInv, DispOk, Fail, EndsByItself, RaisesInThread, Failure, Forget, At,
     Mark, RetryLater, TypeOK
<1>4. (ThreadOk /\ AgentOk /\ SlotOk)'
  BY DEF QueueInv, ThreadOk, AgentOk, SlotOk, Fail, EndsByItself, RaisesInThread,
     Forget, At, Reap, TypeOK, Holding, Alive
<1>5. (IssueOk /\ OwnOk /\ Known)'
  BY DEF QueueInv, IssueOk, OwnOk, Known, Busy, Fail, EndsByItself, RaisesInThread,
     Failure, Forget, At, Mark, RetryLater, Reap, TypeOK, Rows, Running
<1>6. (RunningHasOwner /\ CancelIsSpent)'
  BY DEF QueueInv, RunningHasOwner, CancelIsSpent, Fail, Failure, Forget, Mark,
     RetryLater, TypeOK, Calm, Rows
<1>7. WorkOnly
  BY DEF QueueInv, WorkOnly, Busy, Fail, EndsByItself, RaisesInThread, Failure, Forget,
     At, Mark, RetryLater, Reap, TypeOK, Rows
<1> QED BY <1>1, <1>2, <1>3, <1>4, <1>5, <1>6, <1>7 DEF QueueInv

LEMMA KilledStep ==
  ASSUME QueueInv, NEW e \in Events, Killed(e) PROVE QueueInv' /\ WorkOnly
<1>1. TypeOK'
  BY ForgetType DEF QueueInv, TypeOK, Killed
<1>2. (Quiet /\ Calm)'
  BY DEF QueueInv, Quiet, Calm, Killed, Forget
<1>3. DispOk'
  BY DEF QueueInv, DispOk, Killed, Forget
<1>4. (ThreadOk /\ AgentOk /\ SlotOk)'
  BY DEF QueueInv, ThreadOk, AgentOk, SlotOk, Killed, Forget, Reap, TypeOK, Calm,
     Holding, Alive
<1>5. (IssueOk /\ OwnOk /\ Known)'
  BY DEF QueueInv, IssueOk, OwnOk, Known, Busy, Killed, Forget, Reap, Running
<1>6. (RunningHasOwner /\ CancelIsSpent)'
  BY DEF QueueInv, RunningHasOwner, CancelIsSpent, Killed, Forget, Calm
<1>7. WorkOnly
  BY DEF QueueInv, WorkOnly, Busy, Killed, Forget, Reap, Running
<1> QED BY <1>1, <1>2, <1>3, <1>4, <1>5, <1>6, <1>7 DEF QueueInv

LEMMA ReleaseStep ==
  ASSUME QueueInv, NEW e \in Events, Release(e) PROVE QueueInv' /\ WorkOnly
<1>1. TypeOK'
  BY DEF QueueInv, TypeOK, Release, table, agents, stop
<1>2. (Quiet /\ Calm)'
  BY DEF QueueInv, Quiet, Calm, Release, agents, stop
<1>3. DispOk'
  BY DEF QueueInv, DispOk, Release, table
<1>4. (ThreadOk /\ AgentOk /\ SlotOk)'
  BY DEF QueueInv, ThreadOk, AgentOk, SlotOk, Release, At, agents, Holding
<1>5. (IssueOk /\ OwnOk /\ Known)'
  BY DEF QueueInv, IssueOk, OwnOk, Known, Busy, Release, At, table, agents, TypeOK,
     Running
<1>6. (RunningHasOwner /\ CancelIsSpent)'
  BY DEF QueueInv, RunningHasOwner, CancelIsSpent, Release, At, table, Running
<1>7. WorkOnly
  BY DEF QueueInv, WorkOnly, Busy, Release, table, agents
<1> QED BY <1>1, <1>2, <1>3, <1>4, <1>5, <1>6, <1>7 DEF QueueInv

LEMMA KilledInCleanupStep ==
  ASSUME QueueInv, NEW e \in Events, KilledInCleanup(e) PROVE QueueInv' /\ WorkOnly
<1>1. TypeOK'
  BY DEF QueueInv, TypeOK, KilledInCleanup, table, agents
<1>2. (Quiet /\ Calm)'
  BY DEF QueueInv, Quiet, Calm, KilledInCleanup
<1>3. DispOk'
  BY DEF QueueInv, DispOk, KilledInCleanup, table
<1>4. (ThreadOk /\ AgentOk /\ SlotOk)'
  BY DEF QueueInv, ThreadOk, AgentOk, SlotOk, KilledInCleanup, agents, Holding
<1>5. (IssueOk /\ OwnOk /\ Known)'
  BY DEF QueueInv, IssueOk, OwnOk, Known, Busy, KilledInCleanup, table, agents, Running
<1>6. (RunningHasOwner /\ CancelIsSpent)'
  BY DEF QueueInv, RunningHasOwner, CancelIsSpent, KilledInCleanup, table, Running
<1>7. WorkOnly
  BY DEF QueueInv, WorkOnly, Busy, KilledInCleanup, table, agents
<1> QED BY <1>1, <1>2, <1>3, <1>4, <1>5, <1>6, <1>7 DEF QueueInv

---------------------------------------------------------------------------
(* A worker thread.                                                        *)

LEMMA ThreadEndsType ==
  ASSUME QueueInv, NEW e \in Events, NEW how \in {"ok", "error"}, ThreadEnds(e, how)
  PROVE TypeOK'
<1>1. /\ thread' \in [Events -> Alive \cup {"none", "ok", "error"}]
      /\ agent' \in [Events -> Slots \cup {None}]
      /\ slot' \in [Events -> Slots \cup {None}]
  BY DEF QueueInv, TypeOK, ThreadEnds
<1> QED BY <1>1 DEF QueueInv, TypeOK, ThreadEnds, table, stop

LEMMA ThreadEndsThreads ==
  ASSUME QueueInv, NEW e \in Events, NEW how \in {"ok", "error"}, thread[e] \in Alive, ThreadEnds(e, how)
  PROVE (ThreadOk /\ AgentOk /\ SlotOk)'
<1>1. CASE task[e] = "agent"
  BY <1>1 DEF QueueInv, TypeOK, ThreadOk, AgentOk, SlotOk, ThreadEnds, Alive, Holding
<1>2. CASE task[e] # "agent"
  <2>1. task[e] \notin Holding
    BY <1>2 DEF QueueInv, ThreadOk, Holding, Alive
  <2> QED BY <1>2, <2>1 DEF QueueInv, TypeOK, ThreadOk, AgentOk, SlotOk, ThreadEnds, Alive
<1> QED BY <1>1, <1>2

LEMMA SpawnStep ==
  ASSUME QueueInv, NEW e \in Events, Spawn(e) PROVE QueueInv' /\ WorkOnly
<1>1. TypeOK'
  BY DEF QueueInv, TypeOK, Spawn, table, tasks, stop, Alive
<1>2. (Quiet /\ Calm)'
  BY DEF QueueInv, Quiet, Calm, Spawn, stop
<1>3. DispOk'
  BY DEF QueueInv, DispOk, Spawn, table, tasks
<1>4. (ThreadOk /\ AgentOk /\ SlotOk)'
  BY DEF QueueInv, ThreadOk, AgentOk, SlotOk, Spawn, tasks, TypeOK
<1>5. (IssueOk /\ OwnOk /\ Known)'
  BY DEF QueueInv, IssueOk, OwnOk, Known, Busy, Spawn, table, tasks, TypeOK
<1>6. (RunningHasOwner /\ CancelIsSpent)'
  BY DEF QueueInv, RunningHasOwner, CancelIsSpent, Spawn, table, tasks
<1>7. WorkOnly
  BY DEF QueueInv, WorkOnly, Busy, Spawn, table, tasks, TypeOK
<1> QED BY <1>1, <1>2, <1>3, <1>4, <1>5, <1>6, <1>7 DEF QueueInv

LEMMA StartupFailsStep ==
  ASSUME QueueInv, NEW e \in Events, StartupFails(e) PROVE QueueInv' /\ WorkOnly
<1>1. TypeOK'
  BY ThreadEndsType DEF StartupFails
<1>2. (Quiet /\ Calm)'
  BY DEF QueueInv, Quiet, Calm, StartupFails, ThreadEnds, stop
<1>3. DispOk'
  BY DEF QueueInv, DispOk, StartupFails, ThreadEnds, table
<1>4. (ThreadOk /\ AgentOk /\ SlotOk)'
  BY ThreadEndsThreads DEF StartupFails, Alive
<1>5. (IssueOk /\ OwnOk /\ Known)'
  BY DEF QueueInv, IssueOk, OwnOk, Known, Busy, StartupFails, ThreadEnds, table, TypeOK
<1>6. (RunningHasOwner /\ CancelIsSpent)'
  BY DEF QueueInv, RunningHasOwner, CancelIsSpent, StartupFails, ThreadEnds, table
<1>7. WorkOnly
  BY DEF QueueInv, WorkOnly, Busy, StartupFails, ThreadEnds, table, TypeOK
<1> QED BY <1>1, <1>2, <1>3, <1>4, <1>5, <1>6, <1>7 DEF QueueInv

LEMMA ArmChecksType ==
  ASSUME QueueInv, NEW e \in Events, ArmChecks(e) PROVE TypeOK'
<1>1. thread' \in [Events -> Alive \cup {"none", "ok", "error"}] /\ agent' \in [Events -> Slots \cup {None}]
  BY DEF QueueInv, TypeOK, ArmChecks, Alive
<1> QED BY <1>1 DEF QueueInv, TypeOK, ArmChecks, table, tasks, stop

LEMMA ArmChecksStep ==
  ASSUME QueueInv, NEW e \in Events, ArmChecks(e) PROVE QueueInv' /\ WorkOnly
<1>1. TypeOK'
  BY ArmChecksType
<1>2. (Quiet /\ Calm)'
  BY DEF QueueInv, Quiet, Calm, ArmChecks, stop
<1>3. DispOk'
  BY DEF QueueInv, DispOk, ArmChecks, table, tasks
<1>4. (ThreadOk /\ AgentOk /\ SlotOk)'
  BY DEF QueueInv, ThreadOk, AgentOk, SlotOk, ArmChecks, tasks, TypeOK
<1>5. (IssueOk /\ OwnOk /\ Known)'
  BY DEF QueueInv, IssueOk, OwnOk, Known, Busy, ArmChecks, table, tasks, TypeOK
<1>6. (RunningHasOwner /\ CancelIsSpent)'
  BY DEF QueueInv, RunningHasOwner, CancelIsSpent, ArmChecks, table, tasks
<1>7. WorkOnly
  BY DEF QueueInv, WorkOnly, Busy, ArmChecks, table, tasks, TypeOK
<1> QED BY <1>1, <1>2, <1>3, <1>4, <1>5, <1>6, <1>7 DEF QueueInv

LEMMA ArmStoresStep ==
  ASSUME QueueInv, NEW e \in Events, ArmStores(e) PROVE QueueInv' /\ WorkOnly
<1>1. TypeOK'
  BY DEF QueueInv, TypeOK, ArmStores, table, tasks, stop, Alive
<1>2. (Quiet /\ Calm)'
  BY DEF QueueInv, Quiet, Calm, ArmStores, stop
<1>3. DispOk'
  BY DEF QueueInv, DispOk, ArmStores, table, tasks
<1>4. (ThreadOk /\ AgentOk /\ SlotOk)'
  BY DEF QueueInv, ThreadOk, AgentOk, SlotOk, ArmStores, tasks, TypeOK
<1>5. (IssueOk /\ OwnOk /\ Known)'
  BY DEF QueueInv, IssueOk, OwnOk, Known, Busy, ArmStores, table, tasks, TypeOK
<1>6. (RunningHasOwner /\ CancelIsSpent)'
  BY DEF QueueInv, RunningHasOwner, CancelIsSpent, ArmStores, table, tasks
<1>7. WorkOnly
  BY DEF QueueInv, WorkOnly, Busy, ArmStores, table, tasks, TypeOK
<1> QED BY <1>1, <1>2, <1>3, <1>4, <1>5, <1>6, <1>7 DEF QueueInv

LEMMA AgentEndsStep ==
  ASSUME QueueInv, NEW e \in Events, NEW how \in {"ok", "error"}, AgentEnds(e, how) PROVE QueueInv' /\ WorkOnly
<1>1. TypeOK'
  BY ThreadEndsType DEF AgentEnds
<1>2. (Quiet /\ Calm)'
  BY DEF QueueInv, Quiet, Calm, AgentEnds, ThreadEnds, stop
<1>3. DispOk'
  BY DEF QueueInv, DispOk, AgentEnds, ThreadEnds, table
<1>4. (ThreadOk /\ AgentOk /\ SlotOk)'
  BY ThreadEndsThreads DEF AgentEnds, Alive
<1>5. (IssueOk /\ OwnOk /\ Known)'
  BY DEF QueueInv, IssueOk, OwnOk, Known, Busy, AgentEnds, ThreadEnds, table, TypeOK
<1>6. (RunningHasOwner /\ CancelIsSpent)'
  BY DEF QueueInv, RunningHasOwner, CancelIsSpent, AgentEnds, ThreadEnds, table
<1>7. WorkOnly
  BY DEF QueueInv, WorkOnly, Busy, AgentEnds, ThreadEnds, table, TypeOK
<1> QED BY <1>1, <1>2, <1>3, <1>4, <1>5, <1>6, <1>7 DEF QueueInv

---------------------------------------------------------------------------
(* The end of the process.                                                 *)

LEMMA StopStep ==
  ASSUME QueueInv, Stop PROVE QueueInv' /\ WorkOnly
<1>1. TypeOK'
  BY DEF QueueInv, TypeOK, Stop, table, tasks, agents, stop, ThreadOk, PoolStates,
     DispSteps
<1>2. (Quiet /\ Calm)'
  BY DEF QueueInv, Quiet, Calm, Stop, stop
<1>3. DispOk'
  BY DEF QueueInv, DispOk, Stop, table, tasks
<1>4. (ThreadOk /\ AgentOk /\ SlotOk)'
  BY DEF QueueInv, ThreadOk, AgentOk, SlotOk, Stop, tasks, agents
<1>5. (IssueOk /\ OwnOk /\ Known)'
  BY DEF QueueInv, IssueOk, OwnOk, Known, Busy, Stop, table, tasks, agents
<1>6. (RunningHasOwner /\ CancelIsSpent)'
  BY DEF QueueInv, RunningHasOwner, CancelIsSpent, Stop, table, tasks
<1>7. WorkOnly
  BY DEF QueueInv, WorkOnly, Busy, Stop, table, tasks, agents
<1> QED BY <1>1, <1>2, <1>3, <1>4, <1>5, <1>6, <1>7 DEF QueueInv

LEMMA OrphanClaimsType ==
  ASSUME QueueInv, NEW e \in Events, OrphanClaims(e) PROVE TypeOK'
BY ClaimedType DEF QueueInv, TypeOK, OrphanClaims, DispSteps, tasks, agents, stop

LEMMA OrphanClaimsStep ==
  ASSUME QueueInv, NEW e \in Events, OrphanClaims(e) PROVE QueueInv' /\ WorkOnly
<1>1. TypeOK'
  BY OrphanClaimsType
<1>2. (Quiet /\ Calm)'
  BY DEF QueueInv, Quiet, Calm, OrphanClaims, tasks, agents, stop
<1>3. DispOk'
  BY DEF QueueInv, DispOk, OrphanClaims, NextEvent, Claimed, tasks, Claimable, TypeOK,
     OwnOk
<1>4. (ThreadOk /\ AgentOk /\ SlotOk)'
  BY DEF QueueInv, ThreadOk, AgentOk, SlotOk, OrphanClaims, tasks, agents
<1>5. (IssueOk /\ OwnOk /\ Known)'
  BY DEF QueueInv, IssueOk, OwnOk, Known, Busy, OrphanClaims, Claimed, tasks, agents,
     TypeOK
<1>6. (RunningHasOwner /\ CancelIsSpent)'
  BY QueueAssumption DEF QueueInv, RunningHasOwner, CancelIsSpent, OrphanClaims,
     Claimed, tasks, TypeOK
<1>7. WorkOnly
  BY DEF QueueInv, WorkOnly, Busy, OrphanClaims, NextEvent, Claimed, tasks, agents,
     Claimable, TypeOK
<1> QED BY <1>1, <1>2, <1>3, <1>4, <1>5, <1>6, <1>7 DEF QueueInv

LEMMA OrphanPutsBackType ==
  ASSUME QueueInv, NEW e \in Events, OrphanPutsBack(e) PROVE TypeOK'
<1>1. row' \in [Events -> Rows]
  BY RowQueued DEF QueueInv, TypeOK, OrphanPutsBack, Requeue, RowStates
<1> QED BY <1>1 DEF QueueInv, TypeOK, OrphanPutsBack, DispSteps, tasks, agents, stop

LEMMA OrphanPutsBackStep ==
  ASSUME QueueInv, NEW e \in Events, OrphanPutsBack(e) PROVE QueueInv' /\ WorkOnly
<1>1. TypeOK'
  BY OrphanPutsBackType
<1>2. (Quiet /\ Calm)'
  BY DEF QueueInv, Quiet, Calm, OrphanPutsBack, tasks, agents, stop
<1>3. DispOk'
  BY DEF QueueInv, DispOk, OrphanPutsBack
<1>4. (ThreadOk /\ AgentOk /\ SlotOk)'
  BY DEF QueueInv, ThreadOk, AgentOk, SlotOk, OrphanPutsBack, tasks, agents
<1>5. (IssueOk /\ OwnOk /\ Known)'
  BY QueueAssumption DEF QueueInv, IssueOk, OwnOk, Known, Busy, OrphanPutsBack, Requeue,
     tasks, agents, Running, DispOk
<1>6. (RunningHasOwner /\ CancelIsSpent)'
  BY DEF QueueInv, RunningHasOwner, CancelIsSpent, OrphanPutsBack, Requeue, tasks,
     TypeOK
<1>7. WorkOnly
  BY QueueAssumption DEF QueueInv, WorkOnly, Busy, OrphanPutsBack, Requeue, tasks,
     agents, DispOk
<1> QED BY <1>1, <1>2, <1>3, <1>4, <1>5, <1>6, <1>7 DEF QueueInv

LEMMA DrainedStep ==
  ASSUME QueueInv, Drained PROVE QueueInv' /\ WorkOnly
<1>1. TypeOK'
  BY DEF QueueInv, TypeOK, Drained, table, tasks, agents, stop, PoolStates
<1>2. (Quiet /\ Calm)'
  BY DEF QueueInv, Quiet, Calm, Drained
<1>3. DispOk'
  BY DEF QueueInv, DispOk, Drained, table, tasks
<1>4. (ThreadOk /\ AgentOk /\ SlotOk)'
  BY DEF QueueInv, ThreadOk, AgentOk, SlotOk, Drained, tasks, agents
<1>5. (IssueOk /\ OwnOk /\ Known)'
  BY DEF QueueInv, IssueOk, OwnOk, Known, Busy, Drained, table, tasks, agents
<1>6. (RunningHasOwner /\ CancelIsSpent)'
  BY DEF QueueInv, RunningHasOwner, CancelIsSpent, Drained, table
<1>7. WorkOnly
  BY DEF QueueInv, WorkOnly, Busy, Drained, table, tasks, agents
<1> QED BY <1>1, <1>2, <1>3, <1>4, <1>5, <1>6, <1>7 DEF QueueInv

LEMMA DrainTimesOutStep ==
  ASSUME QueueInv, DrainTimesOut PROVE QueueInv' /\ WorkOnly
<1>1. TypeOK'
  BY DEF QueueInv, TypeOK, DrainTimesOut, Tasks, table, tasks, agents, PoolStates
<1>2. (Quiet /\ Calm)'
  BY DEF QueueInv, Quiet, Calm, DrainTimesOut
<1>3. DispOk'
  BY DEF QueueInv, DispOk, DrainTimesOut, table, tasks
<1>4. (ThreadOk /\ AgentOk /\ SlotOk)'
  BY DEF QueueInv, ThreadOk, AgentOk, SlotOk, DrainTimesOut, tasks, agents
<1>5. (IssueOk /\ OwnOk /\ Known)'
  BY DEF QueueInv, IssueOk, OwnOk, Known, Busy, DrainTimesOut, table, tasks, agents
<1>6. (RunningHasOwner /\ CancelIsSpent)'
  BY DEF QueueInv, RunningHasOwner, CancelIsSpent, DrainTimesOut, table
<1>7. WorkOnly
  BY DEF QueueInv, WorkOnly, Busy, DrainTimesOut, table, tasks, agents
<1> QED BY <1>1, <1>2, <1>3, <1>4, <1>5, <1>6, <1>7 DEF QueueInv

LEMMA InterruptStep ==
  ASSUME QueueInv, NEW e \in Events, Interrupt(e) PROVE QueueInv' /\ WorkOnly
<1>1. TypeOK'
  BY DEF QueueInv, TypeOK, Interrupt, table, tasks
<1>2. (Quiet /\ Calm)'
  BY DEF QueueInv, Quiet, Calm, Interrupt
<1>3. DispOk'
  BY DEF QueueInv, DispOk, Interrupt, table, tasks
<1>4. (ThreadOk /\ AgentOk /\ SlotOk)'
  BY DEF QueueInv, ThreadOk, AgentOk, SlotOk, Interrupt, tasks
<1>5. (IssueOk /\ OwnOk /\ Known)'
  BY DEF QueueInv, IssueOk, OwnOk, Known, Busy, Interrupt, table, tasks
<1>6. (RunningHasOwner /\ CancelIsSpent)'
  BY DEF QueueInv, RunningHasOwner, CancelIsSpent, Interrupt, table
<1>7. WorkOnly
  BY DEF QueueInv, WorkOnly, Busy, Interrupt, table, tasks
<1> QED BY <1>1, <1>2, <1>3, <1>4, <1>5, <1>6, <1>7 DEF QueueInv

LEMMA HookFiresStep ==
  ASSUME QueueInv, HookFires PROVE QueueInv' /\ WorkOnly
<1>1. TypeOK'
  BY DEF QueueInv, TypeOK, HookFires, table, tasks
<1>2. (Quiet /\ Calm)'
  BY DEF QueueInv, Quiet, Calm, HookFires
<1>3. DispOk'
  BY DEF QueueInv, DispOk, HookFires, table, tasks
<1>4. (ThreadOk /\ AgentOk /\ SlotOk)'
  BY DEF QueueInv, ThreadOk, AgentOk, SlotOk, HookFires, tasks
<1>5. (IssueOk /\ OwnOk /\ Known)'
  BY DEF QueueInv, IssueOk, OwnOk, Known, Busy, HookFires, table, tasks
<1>6. (RunningHasOwner /\ CancelIsSpent)'
  BY DEF QueueInv, RunningHasOwner, CancelIsSpent, HookFires, table, tasks
<1>7. WorkOnly
  BY DEF QueueInv, WorkOnly, Busy, HookFires, table, tasks
<1> QED BY <1>1, <1>2, <1>3, <1>4, <1>5, <1>6, <1>7 DEF QueueInv

LEMMA StopReturnsStep ==
  ASSUME QueueInv, StopReturns PROVE QueueInv' /\ WorkOnly
<1>1. TypeOK'
  BY DEF QueueInv, TypeOK, StopReturns, table, tasks, agents, stop, PoolStates
<1>2. (Quiet /\ Calm)'
  BY DEF QueueInv, Quiet, Calm, StopReturns
<1>3. DispOk'
  BY DEF QueueInv, DispOk, StopReturns, table, tasks
<1>4. (ThreadOk /\ AgentOk /\ SlotOk)'
  BY DEF QueueInv, ThreadOk, AgentOk, SlotOk, StopReturns, tasks, agents
<1>5. (IssueOk /\ OwnOk /\ Known)'
  BY DEF QueueInv, IssueOk, OwnOk, Known, Busy, StopReturns, table, tasks, agents
<1>6. (RunningHasOwner /\ CancelIsSpent)'
  BY DEF QueueInv, RunningHasOwner, CancelIsSpent, StopReturns, table
<1>7. WorkOnly
  BY DEF QueueInv, WorkOnly, Busy, StopReturns, table, tasks, agents
<1> QED BY <1>1, <1>2, <1>3, <1>4, <1>5, <1>6, <1>7 DEF QueueInv

LEMMA DownType ==
  ASSUME QueueInv, Down PROVE TypeOK'
<1>1. agent' \in [Events -> Slots \cup {None}]
  BY DEF QueueInv, TypeOK, Down
<1> QED BY <1>1 DEF QueueInv, TypeOK, Down, PoolStates, DispSteps, table

LEMMA ExitStep ==
  ASSUME QueueInv, Exit PROVE QueueInv' /\ WorkOnly
<1>1. TypeOK'
  BY DownType DEF Exit
<1>2. (Quiet /\ Calm)'
  BY DEF QueueInv, Quiet, Calm, Exit, Down
<1>3. DispOk'
  BY DEF QueueInv, DispOk, Exit, Down
<1>4. (ThreadOk /\ AgentOk /\ SlotOk)'
  BY DEF QueueInv, ThreadOk, AgentOk, SlotOk, Exit, Down, Holding, Alive
<1>5. (IssueOk /\ OwnOk /\ Known)'
  BY DEF QueueInv, IssueOk, OwnOk, Known, Busy, Exit, Down, table, Running, Alive
<1>6. (RunningHasOwner /\ CancelIsSpent)'
  BY DEF QueueInv, RunningHasOwner, CancelIsSpent, Exit, Down
<1>7. WorkOnly
  BY DEF QueueInv, WorkOnly, Busy, Exit, Down, table, TypeOK, ThreadOk
<1> QED BY <1>1, <1>2, <1>3, <1>4, <1>5, <1>6, <1>7 DEF QueueInv

LEMMA CrashStep ==
  ASSUME QueueInv, Crash PROVE QueueInv' /\ WorkOnly
<1>1. TypeOK'
  BY DownType DEF Crash
<1>2. (Quiet /\ Calm)'
  BY DEF QueueInv, Quiet, Calm, Crash, Down
<1>3. DispOk'
  BY DEF QueueInv, DispOk, Crash, Down
<1>4. (ThreadOk /\ AgentOk /\ SlotOk)'
  BY DEF QueueInv, ThreadOk, AgentOk, SlotOk, Crash, Down, Holding, Alive
<1>5. (IssueOk /\ OwnOk /\ Known)'
  BY DEF QueueInv, IssueOk, OwnOk, Known, Busy, Crash, Down, table, Running, Alive
<1>6. (RunningHasOwner /\ CancelIsSpent)'
  BY DEF QueueInv, RunningHasOwner, CancelIsSpent, Crash, Down
<1>7. WorkOnly
  BY DEF QueueInv, WorkOnly, Busy, Crash, Down, table, TypeOK, ThreadOk
<1> QED BY <1>1, <1>2, <1>3, <1>4, <1>5, <1>6, <1>7 DEF QueueInv

---------------------------------------------------------------------------
(* All steps.                                                              *)

\* The steps that begin work, or take in an event.
Begins(e) == Submits(e) \/ Dispatch(e)

LEMMA NextStep ==
  ASSUME QueueInv, Next PROVE QueueInv' /\ (WorkOnly \/ \E e \in Events : Begins(e))
<1>1. ASSUME PoolStep PROVE QueueInv' /\ WorkOnly
  BY <1>1, ReapAllSlotsStep, StartStep, NothingToClaimStep, PauseEndsStep, WaitWokenStep,
     WaitTimesOutStep, DrainedStep, DrainTimesOutStep, InterruptStep, HookFiresStep,
     StopReturnsStep, ExitStep DEF PoolStep
<1>2. ASSUME Stop \/ Crash \/ ClaimRaises PROVE QueueInv' /\ WorkOnly
  BY <1>2, StopStep, CrashStep, ClaimRaisesStep
<1>3. ASSUME NEW e \in Events, Begins(e) PROVE QueueInv'
  BY <1>3, RecordStep, ReplayStep, ManualTriageStep, DispatchStep DEF Begins, Submits
<1>4. ASSUME NEW e \in Events, CancelEvent(e) \/ Claim(e) \/ PutBack(e) \/ Orphan(e) \/ BackoffElapses(e)
      PROVE QueueInv' /\ WorkOnly
  BY <1>4, CancelEventStep, ClaimStep, PutBackStep, OrphanClaimsStep, OrphanPutsBackStep,
     BackoffElapsesStep DEF Orphan
<1>5. ASSUME NEW e \in Events, TaskStep(e) PROVE QueueInv' /\ WorkOnly
  BY <1>5, AcquireSlotStep, StartThreadStep, ThreadReturnedStep, SucceedStep, FailStep,
     KilledStep, ReleaseStep, KilledInCleanupStep DEF TaskStep
<1>6. ASSUME NEW e \in Events, ThreadStep(e) PROVE QueueInv' /\ WorkOnly
  BY <1>6, SpawnStep, StartupFailsStep, ArmChecksStep, ArmStoresStep, AgentEndsStep DEF ThreadStep
<1> QED BY <1>1, <1>2, <1>3, <1>4, <1>5, <1>6 DEF Next, EventStep, Dispatches, Begins

LEMMA Stutter ==
  ASSUME QueueInv, UNCHANGED vars PROVE QueueInv' /\ UNCHANGED Status
<1>1. QueueInv'
  BY DEF vars, table, tasks, agents, stop, QueueInv, TypeOK, Quiet, Calm, DispOk, ThreadOk,
     AgentOk, SlotOk, IssueOk, OwnOk, Known, Busy, RunningHasOwner, CancelIsSpent
<1>2. UNCHANGED Status
  BY DEF vars, table, tasks, agents, Status, Busy
<1> QED BY <1>1, <1>2

LEMMA QueueInvHolds == Spec => []QueueInv
<1>1. Init => QueueInv
  BY InitQueueInv
<1>2. QueueInv /\ [Next]_vars => QueueInv'
  BY NextStep, Stutter
<1> QED BY <1>1, <1>2, PTL DEF Spec

---------------------------------------------------------------------------
(* Safety.                                                                 *)

(* The type invariant: every row, task, thread and slot stays within its   *)
(* states, for any set of events, issues and slots (db.py, queue.py).      *)
THEOREM TypeCorrect == Spec => []TypeOK
<1>1. QueueInv => TypeOK
  BY DEF QueueInv
<1> QED BY <1>1, QueueInvHolds, PTL

(* A running row has an owner while the pool is up or drains, so that it   *)
(* cannot block the other events of its issue for good (queue.py, the      *)
(* dispatch loop and _run_event).                                          *)
THEOREM RunningRowsAreOwned == Spec => []RunningHasOwner
<1>1. QueueInv => RunningHasOwner
  BY DEF QueueInv
<1> QED BY <1>1, QueueInvHolds, PTL

(* The mark of a cancel does not outlive the run it was meant for          *)
(* (queue.py, cancel_event and the `finally` of _run_event).               *)
THEOREM CancelsAreSpent == Spec => []CancelIsSpent
<1>1. QueueInv => CancelIsSpent
  BY DEF QueueInv
<1> QED BY <1>1, QueueInvHolds, PTL

LEMMA SlotIsOwnHolds ==
  ASSUME QueueInv PROVE SlotIsOwn
BY DEF SlotIsOwn, QueueInv, ThreadOk, AgentOk, SlotOk, Holding

(* An omp process runs under the slot its own task holds, which no other   *)
(* task holds (slot_pool.py, queue.py's _run_event, worker.py).            *)
THEOREM SlotsAreOwn == Spec => []SlotIsOwn
BY SlotIsOwnHolds, QueueInvHolds, PTL

\* What CancelLands says of one step.
CancelStep ==
  \A e \in cancelled :
       pool = "up" /\ pool' \in {"up", "draining", "stopped"}
         => e \in cancelled' \/ row'[e].state = "failed"

LEMMA ForgetCancels ==
  ASSUME QueueInv, NEW e \in Events, Succeed(e) \/ Fail(e) \/ Killed(e) PROVE CancelStep
<1> SUFFICES ASSUME pool = "up", e \in cancelled PROVE row'[e].state = "failed"
  BY DEF CancelStep, Succeed, Fail, Killed, Forget
<1>1. e \notin kill /\ e \notin interrupted
  BY DEF QueueInv, Calm
<1>2. Mark(e, "failed")
  BY <1>1 DEF Succeed, Fail, Killed, Failure
<1> QED BY <1>2 DEF Mark, QueueInv, TypeOK, Rows

LEMMA CancelAll ==
  ASSUME QueueInv, Next PROVE CancelStep
<1>1. ASSUME NEW e \in Events, Succeed(e) \/ Fail(e) \/ Killed(e) PROVE CancelStep
  BY <1>1, ForgetCancels
<1>2. ASSUME Exit \/ Crash PROVE CancelStep
  BY <1>2 DEF Exit, Crash, Down, CancelStep
<1>3. ASSUME NEW e \in Events, Submits(e) \/ CancelEvent(e) \/ Dispatches(e) \/ Orphan(e) \/ BackoffElapses(e) \/ ThreadStep(e)
      PROVE cancelled \subseteq cancelled'
  BY <1>3 DEF Submits, Record, Replay, ManualTriage, CancelEvent, Dispatches, Claim, Dispatch, PutBack,
       Orphan, OrphanClaims, OrphanPutsBack, BackoffElapses, ThreadStep, Spawn, StartupFails, ArmChecks, ArmStores,
       AgentEnds, ThreadEnds
<1>4. ASSUME NEW e \in Events, TaskStep(e), ~(Succeed(e) \/ Fail(e) \/ Killed(e)) PROVE cancelled \subseteq cancelled'
  BY <1>4 DEF TaskStep, AcquireSlot, StartThread, ThreadReturned, Release, KilledInCleanup
<1>5. ASSUME PoolStep \/ Stop \/ ClaimRaises, ~Exit PROVE cancelled \subseteq cancelled'
  BY <1>5 DEF PoolStep, Stop, ClaimRaises, ReapAllSlots, Start, NothingToClaim, PauseEnds, WaitWoken, WaitTimesOut, Polls,
       Drained, DrainTimesOut, Interrupt, HookFires, StopReturns
<1> QED BY <1>1, <1>2, <1>3, <1>4, <1>5 DEF Next, EventStep, CancelStep

(* A cancel is not lost: while the process is up its mark goes only with   *)
(* the row's end in "failed" (queue.py, cancel_event; _run_event).         *)
THEOREM CancelsLand == Spec => CancelLands
<1>1. QueueInv /\ [Next]_vars => [CancelStep]_vars
  BY CancelAll
<1> QED BY <1>1, QueueInvHolds, PTL DEF Spec, CancelLands, CancelStep

---------------------------------------------------------------------------
(* The queue implements EventService.                                      *)

LEMMA StatusOf ==
  ASSUME NEW e \in Events
  PROVE /\ Busy(e) => Status[e] = "working"
        /\ ~Busy(e) /\ row[e].state = "absent" => Status[e] = "absent"
        /\ ~Busy(e) /\ row[e].state \in Inactive => Status[e] = "settled"
        /\ ~Busy(e) /\ row[e].state \in {"queued", "running"} => Status[e] = "waiting"
BY DEF Status, Inactive, Busy

LEMMA StatusOfNext ==
  ASSUME NEW e \in Events
  PROVE /\ Busy(e)' => Status'[e] = "working"
        /\ ~Busy(e)' /\ row'[e].state = "absent" => Status'[e] = "absent"
        /\ ~Busy(e)' /\ row'[e].state \in Inactive => Status'[e] = "settled"
        /\ ~Busy(e)' /\ row'[e].state \in {"queued", "running"} => Status'[e] = "waiting"
BY DEF Status, Inactive, Busy

\* Work that ends, for any number of events at once, is EventService's End.
LEMMA WorkEnds ==
  ASSUME TypeOK', 
         \A e \in Events : Busy(e)' => Busy(e),
         \A e \in Events : ~Busy(e) => Status'[e] = Status[e],
         \A e \in Events : Busy(e) => row'[e].state # "absent"
  PROVE [Service!Next]_Status
<1> DEFINE S == {e \in Events : Busy(e) /\ ~(Busy(e)')}
           D == {e \in S : row'[e].state \in Inactive}
<1>1. \A e \in S : Status[e] = "working"
  BY StatusOf
<1>2. \A e \in Events : e \notin S => Status'[e] = Status[e]
  BY StatusOf, StatusOfNext
<1>3. \A e \in S : row'[e].state \in Inactive \cup {"queued", "running"}
  BY DEF TypeOK, Rows, RowStates, Inactive
<1>4. \A e \in S : Status'[e] = IF e \in D THEN "settled" ELSE "waiting"
  BY <1>3, StatusOfNext
<1>5. Status' = [e \in Events |-> Status'[e]]
  BY DEF Status
<1> HIDE DEF S, D
<1>6. S \in SUBSET Events /\ D \in SUBSET S
  BY DEF S, D
<1>7. Status' = [e \in Events |-> CASE e \in D     -> "settled"
                                   [] e \in S \ D -> "waiting"
                                   [] OTHER       -> Status[e]]
  BY <1>2, <1>4, <1>5, <1>6
<1>8. Service!End(S)
  BY <1>1, <1>6, <1>7 DEF Service!End
<1> QED BY <1>6, <1>8 DEF Service!Next

LEMMA WorkOnlyImplements ==
  ASSUME TypeOK, TypeOK', Known, WorkOnly PROVE [Service!Next]_Status
<1>1. ASSUME NEW e \in Events, ~Busy(e) PROVE Status'[e] = Status[e]
  <2>1. ~(Busy(e)')
    BY <1>1 DEF WorkOnly
  <2>2. row[e].state \in RowStates
    BY DEF TypeOK, Rows
  <2>3. CASE row'[e].state = row[e].state
    BY <1>1, <2>1, <2>2, <2>3, StatusOf, StatusOfNext DEF RowStates, Inactive
  <2>4. CASE row[e].state \in {"queued", "running"} /\ row'[e].state \in {"queued", "running"}
    BY <1>1, <2>1, <2>4, StatusOf, StatusOfNext
  <2> QED BY <1>1, <2>3, <2>4 DEF WorkOnly
<1>2. \A e \in Events : Busy(e)' => Busy(e)
  BY DEF WorkOnly
<1>3. \A e \in Events : Busy(e) => row'[e].state # "absent"
  BY DEF WorkOnly, Known
<1> QED BY <1>1, <1>2, <1>3, WorkEnds

\* The status of one event changes.
LEMMA OneStatus ==
  ASSUME NEW e \in Events,
         \A f \in Events \ {e} : Busy(f)' <=> Busy(f),
         \A f \in Events \ {e} : row'[f].state = row[f].state
  PROVE Status' = [Status EXCEPT ![e] = Status'[e]]
<1>1. \A f \in Events \ {e} : Status'[f] = Status[f]
  BY DEF Status
<1>2. Status = [f \in Events |-> Status[f]] /\ Status' = [f \in Events |-> Status'[f]]
  BY DEF Status
<1> QED BY <1>1, <1>2

LEMMA RecordWork ==
  ASSUME QueueInv, NEW e \in Events, Record(e) PROVE Service!Next
<1>1. PICK s \in {"queued", "skipped"} : row' = [row EXCEPT ![e].state = s]
  BY DEF Record
<1>2. \A f \in Events : Busy(f)' <=> Busy(f)
  BY DEF Record, Busy, tasks, agents
<1>3. ~Busy(e) /\ row[e].state = "absent"
  BY DEF Record, QueueInv, Known
<1>4. row'[e].state = s /\ \A f \in Events \ {e} : row'[f] = row[f]
  BY <1>1 DEF QueueInv, TypeOK, Rows
<1>5. \A f \in Events \ {e} : Status'[f] = Status[f]
  BY <1>2, <1>4 DEF Status
<1>6. Status[e] = "absent" /\ Status'[e] \in {"waiting", "settled"}
  BY <1>2, <1>3, <1>4, StatusOf, StatusOfNext DEF Inactive
<1>7. Status' = [Status EXCEPT ![e] = Status'[e]]
  <2>1. Status = [f \in Events |-> Status[f]] /\ Status' = [f \in Events |-> Status'[f]]
    BY DEF Status
  <2> QED BY <1>5, <2>1
<1>8. Service!Arrive(e)
  BY <1>6, <1>7 DEF Service!Arrive
<1> QED BY <1>8 DEF Service!Next

LEMMA ReplayWork ==
  ASSUME QueueInv, NEW e \in Events, Replay(e) PROVE [Service!Next]_Status
<1>1. \A f \in Events : Busy(f)' <=> Busy(f)
  BY DEF Replay, Busy, tasks, agents
<1>2. row'[e].state = "queued" /\ \A f \in Events \ {e} : row'[f] = row[f]
  BY DEF Replay, Requeue, QueueInv, TypeOK, Rows
<1>3. Status' = [Status EXCEPT ![e] = Status'[e]]
  BY <1>1, <1>2, OneStatus
<1>4. CASE Busy(e)
  <2>1. Status[e] = "working" /\ Status'[e] = "working"
    BY <1>1, <1>4, StatusOf, StatusOfNext
  <2>2. Status = [f \in Events |-> Status[f]]
    BY DEF Status
  <2> QED BY <1>3, <2>1, <2>2
<1>5. CASE ~Busy(e)
  <2>1. Status[e] = "settled" /\ Status'[e] = "waiting"
    BY <1>1, <1>2, <1>5, StatusOf, StatusOfNext DEF Replay
  <2>2. Service!Again(e)
    BY <1>3, <2>1 DEF Service!Again
  <2> QED BY <2>2 DEF Service!Next
<1> QED BY <1>4, <1>5

LEMMA ManualTriageWork ==
  ASSUME QueueInv, NEW e \in Events, ManualTriage(e) PROVE [Service!Next]_Status
<1>1. \A f \in Events : Busy(f)' <=> Busy(f)
  BY DEF ManualTriage, Busy, tasks, agents
<1>2. row'[e].state = "queued" /\ \A f \in Events \ {e} : row'[f] = row[f]
  BY DEF ManualTriage, NoRow, QueueInv, TypeOK, Rows
<1>3. Status' = [Status EXCEPT ![e] = Status'[e]]
  BY <1>1, <1>2, OneStatus
<1>4. CASE Busy(e)
  <2>1. Status[e] = "working" /\ Status'[e] = "working"
    BY <1>1, <1>4, StatusOf, StatusOfNext
  <2>2. Status = [f \in Events |-> Status[f]]
    BY DEF Status
  <2> QED BY <1>3, <2>1, <2>2
<1>5. CASE ~Busy(e)
  <2>1. Status'[e] = "waiting"
    BY <1>1, <1>2, <1>5, StatusOfNext
  <2>2. Status[e] = "settled" \/ Status[e] = "absent"
    BY <1>5, StatusOf DEF ManualTriage
  <2>3. Service!Again(e) \/ Service!Arrive(e)
    BY <1>3, <2>1, <2>2 DEF Service!Again, Service!Arrive
  <2> QED BY <2>3 DEF Service!Next
<1> QED BY <1>4, <1>5

LEMMA DispatchWork ==
  ASSUME QueueInv, NEW e \in Events, Dispatch(e) PROVE Service!Next
<1>1. /\ task'[e] = "slot"
      /\ \A f \in Events \ {e} : task'[f] = task[f]
      /\ UNCHANGED <<row, thread, agent>>
  BY DEF Dispatch, QueueInv, TypeOK, table, agents
<1>2. Busy(e)' /\ \A f \in Events \ {e} : Busy(f)' <=> Busy(f)
  BY <1>1 DEF Busy
<1>3. Status' = [Status EXCEPT ![e] = Status'[e]]
  BY <1>1, <1>2, OneStatus
<1>4. pool = "up" /\ disp.ev = e /\ e # None
  BY QueueAssumption DEF Dispatch, QueueInv, DispOk
<1>5. ASSUME NEW f \in Events, Busy(f) PROVE task[f] # "none"
  BY <1>4, <1>5 DEF Busy, QueueInv, ThreadOk, AgentOk, Alive
<1>6. ASSUME NEW f \in Events, IssueOf[f] = IssueOf[e] PROVE ~Busy(f)
  BY <1>5, <1>6 DEF Dispatch, QueueInv, IssueOk
<1>7. Service!Working(IssueOf[e]) = {}
  <2>1. ASSUME NEW f \in Events, IssueOf[f] = IssueOf[e] PROVE Status[f] # "working"
    <3>1. row[f].state \in Inactive \cup {"absent", "queued", "running"}
      BY DEF QueueInv, TypeOK, Rows, RowStates, Inactive
    <3> QED BY <1>6, <2>1, <3>1, StatusOf
  <2> QED BY <2>1 DEF Service!Working
<1>8. Status[e] = "waiting" /\ Status'[e] = "working"
  <2>1. row[e].state = "running"
    BY <1>4 DEF QueueInv, DispOk
  <2> QED BY <1>2, <1>6, <2>1, StatusOf, StatusOfNext
<1>9. Service!Begin(e)
  BY <1>3, <1>7, <1>8 DEF Service!Begin
<1> QED BY <1>9 DEF Service!Next

LEMMA InitWork ==
  ASSUME Init PROVE Service!Init
<1>1. \A e \in Events : ~Busy(e) /\ row[e].state = "absent"
  BY DEF Init, NoRow, Busy, Alive
<1>2. \A e \in Events : Status[e] = "absent"
  BY <1>1, StatusOf
<1>3. Status = [e \in Events |-> Status[e]]
  BY DEF Status
<1> QED BY <1>2, <1>3 DEF Service!Init

LEMMA StepImplements ==
  ASSUME QueueInv, [Next]_vars PROVE [Service!Next]_Status
<1>1. CASE UNCHANGED vars
  BY <1>1, Stutter
<1>2. CASE Next
  <2>1. CASE WorkOnly
    BY <1>2, <2>1, NextStep, WorkOnlyImplements DEF QueueInv
  <2>2. CASE \E e \in Events : Begins(e)
    BY <2>2, RecordWork, ReplayWork, ManualTriageWork, DispatchWork DEF Begins, Submits
  <2> QED BY <1>2, <2>1, <2>2, NextStep
<1> QED BY <1>1, <1>2

(* The queue keeps the bot's promise: one piece of work per issue at a     *)
(* time, over crashes, kills and restarts, and nothing settled without     *)
(* work (db.py's claim, queue.py's dispatch loop, _run_event and stop).    *)
THEOREM QueueImplementsService == Spec => ServiceSpec
<1>1. Init => Service!Init
  BY InitWork
<1>2. QueueInv /\ [Next]_vars => [Service!Next]_Status
  BY StepImplements
<1> QED BY <1>1, <1>2, QueueInvHolds, PTL DEF Spec, ServiceSpec, Service!Spec
===========================================================================
