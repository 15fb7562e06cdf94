---------------------------- MODULE JobDelivery ----------------------------
(***************************************************************************)
(* The results of background jobs on their way to the agent that owns them:*)
(* the AsyncJobManager's row, markers, deliveries and eviction timer for   *)
(* one job id (async/job-manager.ts), the delivery sink and yield queue of *)
(* the owner's session (session/agent-session.ts, session/yield-queue.ts), *)
(* and the callers that take a result themselves: the `wait` and `cancel`  *)
(* tools (tools/wait.ts, async/job-control.ts) and the foreground calls    *)
(* that may be promoted to the background (tools/bash.ts, tools/eval.ts).  *)
(*                                                                         *)
(* Every marker of the manager is keyed by the job id, and an id is used   *)
(* again: a woken subagent registers its turn under its own id as soon as  *)
(* the previous row is evicted.  The jobs that hold the id one after the   *)
(* other have numbers; a result is the number of its job.  The id is free  *)
(* or taken: a job registered while it is taken gets a suffixed id, whose  *)
(* state is disjoint.                                                      *)
(*                                                                         *)
(* One action is one segment of JavaScript between two awaits.  A segment  *)
(* that settles receipts is followed by the reactions of the attempts that *)
(* await them before any other segment runs.                               *)
(***************************************************************************)
EXTENDS Naturals

CONSTANTS
  Waiters,      \* concurrent calls of the `wait` tool (a turn's, or an eval cell's)
  MaxJob,       \* bound: jobs registered under the id
  MaxGen,       \* bound: delivery generations of the owner's session
  MaxSlot,      \* bound: deliveries of the id that exist at once
  MaxFail,      \* bound: messages the agent loop discards
  Overlap,      \* whether the id is used again while an earlier delivery is under way
  SlowRetries,  \* whether the retention timer may fire before a retry
  Foreground    \* whether jobs of foreground calls use the id

ASSUME DeliveryAssumption ==
  /\ MaxJob \in Nat \ {0}
  /\ MaxGen \in Nat \ {0}
  /\ MaxSlot \in Nat \ {0}
  /\ MaxFail \in Nat
  /\ Overlap \in BOOLEAN
  /\ SlowRetries \in BOOLEAN
  /\ Foreground \in BOOLEAN

Jobs  == 1 .. MaxJob
Slots == 1 .. MaxSlot
Gens  == 1 .. MaxGen

VARIABLES
  id,     \* what the manager keeps under the id: the row, the markers, the timer
  job,    \* each job: its state, whether a foreground call backs it, its transcript
  dl,     \* the deliveries: queued, in the owner's sink, on its yield queue, in a message
  owner,  \* the owner's session: "open", "disposing", or "gone" (its sink removed)
  gen,    \* #asyncDeliveryEpoch, counted on over the sessions of the owner
  transcript, \* how many transcripts the owner has replaced, plus 1
  mgr,    \* the manager: "up", "disposing" or "down"
  wait,   \* the job each `wait` watches, or 0
  got,    \* what became of each result: put into the context ("injected"), shown by a
          \* snapshot ("recovered"), "returned" by its call, or a dead letter ("dropped")
  fails   \* messages discarded so far

vars == <<id, job, dl, owner, gen, transcript, mgr, wait, got, fails>>
ownerVars == <<owner, gen, transcript, mgr>>

JobStates == {"none", "running", "cancelling", "cancelled", "done"}
Phases    == {"free", "queued", "sink", "parked", "message", "committed", "rejected"}

Timers     == [at : {"off", "armed", "held"}, slot : 0 .. MaxSlot]
Ids        == [row : 0 .. MaxJob, suppressed : BOOLEAN, watched : BOOLEAN,
               consumed : BOOLEAN, released : BOOLEAN, timer : Timers]
JobRecords == [state : JobStates, foreground : BOOLEAN, transcript : 0 .. MaxGen]
Deliveries == [job : 0 .. MaxJob, phase : Phases, gen : 0 .. MaxGen]

NoTimer == [at |-> "off", slot |-> 0]
NoDelivery == [job |-> 0, phase |-> "free", gen |-> 0]
NoJob == [state |-> "none", foreground |-> FALSE, transcript |-> 0]

TypeOK ==
  /\ id \in Ids
  /\ job \in [Jobs -> JobRecords]
  /\ dl \in [Slots -> Deliveries]
  /\ owner \in {"open", "disposing", "gone"}
  /\ gen \in Gens
  /\ transcript \in 1 .. gen
  /\ mgr \in {"up", "disposing", "down"}
  /\ wait \in [Waiters -> 0 .. MaxJob]
  /\ got \in [Jobs -> SUBSET {"injected", "recovered", "returned", "dropped"}]
  /\ fails \in 0 .. MaxFail

Init ==
  /\ id = [row |-> 0, suppressed |-> FALSE, watched |-> FALSE, consumed |-> FALSE,
           released |-> FALSE, timer |-> NoTimer]
  /\ job = [i \in Jobs |-> NoJob]
  /\ dl = [s \in Slots |-> NoDelivery]
  /\ owner = "open"
  /\ gen = 1
  /\ transcript = 1
  /\ mgr = "up"
  /\ wait = [w \in Waiters |-> 0]
  /\ got = [i \in Jobs |-> {}]
  /\ fails = 0

-----------------------------------------------------------------------------
(* The manager's bookkeeping for the id, as functions of its record.       *)

Ended(i)  == job[i].state \in {"done", "cancelled"}
InFlight  == {"sink", "parked", "message", "committed", "rejected"}
(* isDeliverySuppressed *)
Suppressed(d) == d.suppressed \/ d.watched
(* No delivery of the id is queued or in flight, but for those in S. *)
Undelivered(f, S) == \A s \in Slots \ S : f[s].phase = "free"

(* #evictJob: the markers and the timer go with the row. *)
Evict(d) == [d EXCEPT !.row = 0, !.suppressed = FALSE, !.watched = FALSE,
                      !.consumed = FALSE, !.timer = NoTimer]

(* #scheduleEviction: a running timer is replaced; a disposed manager arms none. *)
Schedule(d) ==
  IF mgr = "up" THEN [d EXCEPT !.timer = [at |-> "armed", slot |-> 0]] ELSE d

(* #consumeJobResult: `pending` says a delivery of the id is queued or in flight. *)
Consume(d, pending) ==
  IF d.row = 0 \/ d.consumed THEN d
  ELSE IF ~ Ended(d.row) THEN d
  ELSE LET c == [d EXCEPT !.consumed = TRUE]
       IN  IF pending THEN c ELSE Schedule(c)

(* #claimJobId: the markers of the last job are cleared, but not its watch. *)
Claim(d, i) ==
  [d EXCEPT !.row = i, !.suppressed = FALSE, !.consumed = FALSE, !.released = FALSE]

(* #discardForegroundJob *)
Discard(d) == Evict([d EXCEPT !.released = FALSE])

(* acknowledgeDeliveries: every queued delivery of a suppressed id is dropped. *)
Acknowledge(f) ==
  [s \in Slots |-> IF f[s].phase = "queued" THEN NoDelivery ELSE f[s]]

FreeSlots(f) == {s \in Slots : f[s].phase = "free"}
AnyOf(S) == CHOOSE s \in S : TRUE

(* Mutant: a suppressed delivery is queued. *)
EnqueueAlways(d, f, i) ==
  [f EXCEPT ![AnyOf(FreeSlots(f))] = [job |-> i, phase |-> "queued", gen |-> 0]]

(* #enqueueDelivery of job i: skipped while suppressed. *)
MayEnqueue(d) == Suppressed(d) \/ FreeSlots(dl) # {}
Enqueue(d, f, i) ==
  IF Suppressed(d) THEN f
  ELSE [f EXCEPT ![AnyOf(FreeSlots(f))] = [job |-> i, phase |-> "queued", gen |-> 0]]

(* Mutant: a timer that was held for an attempt is forgotten. *)
ReleaseTimerNever(d, s) == d

(* What happens to the id when the in-flight attempt s has settled: a timer
   that was held for it evicts, unless another one replaced it. *)
ReleaseTimer(d, s) == IF d.timer = [at |-> "held", slot |-> s] THEN Evict(d) ELSE d

(* Mutants: a rejected attempt is dropped, or stamped with the next epoch. *)
RequeuedNever(d, f, s) == [f EXCEPT ![s] = NoDelivery]
RequeuedNextEpoch(d, f, s) ==
  IF ~ Suppressed(d) /\ d.row # 0
  THEN [f EXCEPT ![s].phase = "queued", ![s].gen = @ + 1]
  ELSE [f EXCEPT ![s] = NoDelivery]

(* A rejected attempt is queued again unless suppressed or without a row. *)
Requeued(d, f, s) ==
  IF ~ Suppressed(d) /\ d.row # 0
  THEN [f EXCEPT ![s].phase = "queued"]
  ELSE [f EXCEPT ![s] = NoDelivery]

(* A sink call that returned: the row under the id is marked consumed. *)
Delivered(d, f, s) ==
  LET settled == IF d.consumed /\ d.row # 0 THEN Schedule(d)
                 ELSE Consume(d, ~ Undelivered(f, {s}))
  IN  ReleaseTimer(settled, s)

(* The receipts of the entries S are settled. *)
Receipts(S, phase) == [s \in Slots |-> IF s \in S THEN [dl[s] EXCEPT !.phase = phase] ELSE dl[s]]

SlotsIn(phase) == {s \in Slots : dl[s].phase = phase}

(* Mutant: a delivery that was skipped while watched is never made up for. *)
RequeuesNever(d, f) == FALSE

(* unwatchJobs: a result that settled while watched and was neither consumed
   nor suppressed is queued, unless the id has a delivery already. *)
Unwatched(d) == [d EXCEPT !.watched = FALSE]
Requeues(d, f) ==
  /\ d.watched
  /\ d.row # 0 /\ job[d.row].state = "done"
  /\ ~ d.suppressed /\ ~ d.consumed
  /\ Undelivered(f, {})

(* consumeJobResults by a snapshot (buildJobResult) of the id. *)
Snapshot(d, f) ==
  Consume([d EXCEPT !.suppressed = TRUE], ~ Undelivered(Acknowledge(f), {}))

-----------------------------------------------------------------------------
(* Jobs: register, publishCompleted, the run's end, cancel. *)

Unused  == {i \in Jobs : job[i].state = "none"}
NextJob == AnyOf(Unused)

IdIsFree ==
  /\ mgr = "up" /\ id.row = 0 /\ Unused # {}
  /\ Overlap \/ Undelivered(dl, {})

Register(fg) ==
  /\ IdIsFree
  /\ fg => Foreground /\ owner = "open"
  /\ id' = [Claim(id, NextJob) EXCEPT !.suppressed = fg]
  /\ job' = [job EXCEPT ![NextJob] =
                [state |-> "running", foreground |-> fg, transcript |-> transcript]]
  /\ UNCHANGED <<dl, ownerVars, wait, got, fails>>

PublishCompleted ==
  /\ IdIsFree
  /\ LET claimed == Claim(id, NextJob)
     IN  /\ MayEnqueue(claimed)
         /\ id' = Schedule(claimed)
         /\ dl' = Enqueue(claimed, dl, NextJob)
  /\ job' = [job EXCEPT ![NextJob] =
                [state |-> "done", foreground |-> FALSE, transcript |-> transcript]]
  /\ UNCHANGED <<ownerVars, wait, got, fails>>

(* The run's promise settles: a cancelled job keeps its text and delivers
   nothing.  A released foreground job leaves no row. *)
RunEnds(i) ==
  /\ \/ /\ job[i].state = "cancelling"
        /\ job' = [job EXCEPT ![i].state = "cancelled"]
        /\ UNCHANGED dl
     \/ /\ job[i].state = "running"
        /\ MayEnqueue(id)
        /\ job' = [job EXCEPT ![i].state = "done"]
        /\ dl' = Enqueue(id, dl, i)
  /\ id' = IF id.released THEN Discard(id) ELSE Schedule(id)
  /\ UNCHANGED <<ownerVars, wait, got, fails>>

(* cancel; the `cancel` tool acknowledges the job in its snapshot as well. *)
Cancel(acknowledged) ==
  /\ id.row # 0
  /\ job[id.row].state = "running" /\ ~ job[id.row].foreground
  /\ job' = [job EXCEPT ![id.row].state = "cancelling"]
  /\ id' = [id EXCEPT !.suppressed = @ \/ acknowledged]
  /\ dl' = IF acknowledged THEN Acknowledge(dl) ELSE dl
  /\ UNCHANGED <<ownerVars, wait, got, fails>>

-----------------------------------------------------------------------------
(* Foreground calls: the call returns or aborts, or gives up waiting. *)

Backed == id.row # 0 /\ job[id.row].foreground /\ ~ id.released

Released(d, i) == IF Ended(i) THEN Discard(d) ELSE [d EXCEPT !.released = TRUE]

ForegroundReturns ==
  /\ Backed
  /\ id' = Released(id, id.row)
  /\ got' = [got EXCEPT ![id.row] = @ \cup {"returned"}]
  /\ UNCHANGED <<job, dl, ownerVars, wait, fails>>

ForegroundAborts ==
  /\ Backed
  /\ job' = IF job[id.row].state = "running"
            THEN [job EXCEPT ![id.row].state = "cancelling"] ELSE job
  /\ id' = Released(id, id.row)
  /\ UNCHANGED <<dl, ownerVars, wait, got, fails>>

(* backgroundJob: a result that settled during the foreground wait is queued. *)
Promote ==
  /\ Backed
  /\ LET i == id.row
         d == [id EXCEPT !.suppressed = FALSE]
     IN  /\ id' = d
         /\ job' = [job EXCEPT ![i].foreground = FALSE]
         /\ IF job[i].state = "done"
            THEN MayEnqueue(d) /\ dl' = Enqueue(d, dl, i)
            ELSE UNCHANGED dl
  /\ UNCHANGED <<ownerVars, wait, got, fails>>

-----------------------------------------------------------------------------
(* Deliveries: the manager's loop, the owner's sink, its yield queue and the
   message the queue hands to the agent loop. *)

(* #runDeliveryLoop drops a suppressed delivery. *)
DropSuppressed(s) ==
  /\ dl[s].phase = "queued" /\ Suppressed(id)
  /\ dl' = [dl EXCEPT ![s] = NoDelivery]
  /\ UNCHANGED <<id, job, ownerVars, wait, got, fails>>

(* #deliverDelivery: without a sink the delivery is a dead letter.  The sink
   of a session that is being disposed returns at once. *)
Attempt(s) ==
  /\ dl[s].phase = "queued" /\ ~ Suppressed(id)
  /\ \/ /\ owner = "gone"
        /\ dl' = [dl EXCEPT ![s] = NoDelivery]
        /\ got' = [got EXCEPT ![dl[s].job] = @ \cup {"dropped"}]
        /\ UNCHANGED id
     \/ /\ owner = "disposing"
        /\ id' = Delivered(id, dl, s)
        /\ dl' = [dl EXCEPT ![s] = NoDelivery]
        /\ UNCHANGED got
     \/ /\ owner = "open"
        /\ dl' = [dl EXCEPT ![s].phase = "sink", ![s].gen = gen]
        /\ UNCHANGED <<id, got>>
  /\ UNCHANGED <<job, ownerVars, wait, fails>>

(* #deliverAsyncJobResult after the text is formatted: the sink looks again. *)
TurnedAway(s) == owner # "open" \/ dl[s].gen # gen \/ Suppressed(id)

Formatted(s) ==
  /\ dl[s].phase = "sink"
  /\ IF TurnedAway(s)
     THEN /\ id' = Delivered(id, dl, s)
          /\ dl' = [dl EXCEPT ![s] = NoDelivery]
     ELSE /\ dl' = [dl EXCEPT ![s].phase = "parked"]
          /\ UNCHANGED id
  /\ UNCHANGED <<job, ownerVars, wait, got, fails>>

(* Mutant: isStale looks at the session's epoch only. *)
StaleByEpoch(s) == dl[s].gen # gen

(* A flush takes every parked entry: the stale ones are rejected, the others
   become one message. *)
Stale(s) == dl[s].gen # gen \/ Suppressed(id)

Flush ==
  /\ owner = "open" /\ SlotsIn("parked") # {} /\ SlotsIn("message") = {}
  /\ dl' = [s \in Slots |->
              IF s \notin SlotsIn("parked") THEN dl[s]
              ELSE [dl[s] EXCEPT !.phase = IF Stale(s) THEN "rejected" ELSE "message"]]
  /\ UNCHANGED <<id, job, ownerVars, wait, got, fails>>

(* The agent loop takes the message into the context. *)
Commit ==
  /\ SlotsIn("message") # {}
  /\ dl' = Receipts(SlotsIn("message"), "committed")
  /\ got' = [i \in Jobs |->
               IF \E s \in SlotsIn("message") : dl[s].job = i
               THEN got[i] \cup {"injected"} ELSE got[i]]
  /\ UNCHANGED <<id, job, ownerVars, wait, fails>>

(* The prompt fails, or the loop ends before it takes the message. *)
DiscardMessage ==
  /\ SlotsIn("message") # {} /\ fails < MaxFail
  /\ dl' = Receipts(SlotsIn("message"), "rejected")
  /\ fails' = fails + 1
  /\ UNCHANGED <<id, job, ownerVars, wait, got>>

(* Mutant: an attempt whose receipt was rejected counts as delivered. *)
SettleDelivered(s) ==
  /\ dl[s].phase \in {"committed", "rejected"}
  /\ id' = Delivered(id, dl, s)
  /\ dl' = [dl EXCEPT ![s] = NoDelivery]
  /\ UNCHANGED <<job, ownerVars, wait, got, fails>>

(* #deliverDelivery after its await: the attempt leaves the in-flight list. *)
Settle(s) ==
  /\ \/ /\ dl[s].phase = "committed"
        /\ id' = Delivered(id, dl, s)
        /\ dl' = [dl EXCEPT ![s] = NoDelivery]
     \/ /\ dl[s].phase = "rejected"
        /\ id' = ReleaseTimer(id, s)
        /\ dl' = Requeued(id, dl, s)
  /\ UNCHANGED <<job, ownerVars, wait, got, fails>>

-----------------------------------------------------------------------------
(* Waits and snapshots. *)

(* `wait` watches a running job; its result is not on its way yet. *)
Block(w) ==
  /\ wait[w] = 0 /\ owner = "open" /\ id.row # 0
  /\ job[id.row].state = "running" /\ ~ job[id.row].foreground
  /\ id' = [id EXCEPT !.watched = TRUE]
  /\ wait' = [wait EXCEPT ![w] = id.row]
  /\ UNCHANGED <<job, dl, ownerVars, got, fails>>

(* The `finally` of a wait, once its report is built: unwatchJobs. *)
Unwatch(d, f) ==
  /\ id' = Unwatched(d)
  /\ IF Requeues(d, f)
     THEN FreeSlots(f) # {} /\ dl' = Enqueue(Unwatched(d), f, d.row)
     ELSE dl' = f

(* A message or an interrupt ends the wait: nothing is reported. *)
Interrupted(w) ==
  /\ wait[w] # 0
  /\ wait' = [wait EXCEPT ![w] = 0]
  /\ Unwatch(id, dl)
  /\ UNCHANGED <<job, ownerVars, got, fails>>

(* The job whose state and result a snapshot of job i shows: the row under
   the id, or the job itself once its row is evicted. *)
Shown(i) == IF id.row # 0 THEN id.row ELSE i

(* A job settles or the limit is reached: buildJobResult reports the job. *)
Reports(w) ==
  /\ wait[w] # 0
  /\ wait' = [wait EXCEPT ![w] = 0]
  /\ LET i == Shown(wait[w])
     IN  IF job[i].state = "running"
         THEN Unwatch(id, dl) /\ UNCHANGED got
         ELSE /\ Unwatch(Snapshot(id, dl), Acknowledge(dl))
              /\ got' = IF Ended(i) /\ ~ id.consumed
                        THEN [got EXCEPT ![i] = @ \cup {"recovered"}] ELSE got
  /\ UNCHANGED <<job, ownerVars, fails>>

(* A `wait` that finds an undelivered result, a `cancel` of a settled job and
   an eval handle's wait() report it at once. *)
Recover ==
  /\ id.row # 0 /\ Ended(id.row) /\ ~ job[id.row].foreground
  /\ id' = Snapshot(id, dl)
  /\ dl' = Acknowledge(dl)
  /\ got' = IF id.consumed THEN got ELSE [got EXCEPT ![id.row] = @ \cup {"recovered"}]
  /\ UNCHANGED <<job, ownerVars, wait, fails>>

-----------------------------------------------------------------------------
(* Eviction, session transitions and teardown. *)

(* A wait whose job has settled reports in the promise reactions that follow,
   before a timer fires or an aborted turn has ended. *)
WaitsAnswered == \A w \in Waiters : wait[w] # 0 => ~ Ended(wait[w])

(* A timer runs for 30 seconds or more: a first attempt and the formatting of
   a result are over by then, and a retry is too unless SlowRetries. *)
TimerMayFire ==
  /\ WaitsAnswered
  /\ SlotsIn("sink") = {}
  /\ \A s \in SlotsIn("queued") : SlowRetries /\ dl[s].gen # 0

TimerFires ==
  /\ id.timer.at = "armed" /\ TimerMayFire
  /\ LET parked == {s \in Slots : dl[s].phase \in InFlight}
     IN  IF parked # {} /\ Suppressed(id)
         THEN \E s \in parked : id' = [id EXCEPT !.timer = [at |-> "held", slot |-> s]]
         ELSE id' = Evict(id)
  /\ UNCHANGED <<job, dl, ownerVars, wait, got, fails>>

(* Mutant: rows are evicted without acknowledging what is queued for them. *)
PurgedNothing == dl

(* cancelAll of the owner's jobs, then evictCompletedJobs, which drops what is
   queued for the rows it evicts. *)
Running == id.row # 0 /\ job[id.row].state = "running"
Evicts  == id.row # 0 /\ job[id.row].state = "done"

CancelAll == IF Running THEN [job EXCEPT ![id.row].state = "cancelling"] ELSE job
EvictedId == IF Evicts THEN Evict(id) ELSE id
Purged    == IF Evicts THEN Acknowledge(dl) ELSE dl

(* #cancelOwnAsyncJobs of /new, a switch, a reset or a handoff.  The turn was
   aborted first: no message is on its way into the context. *)
Transition ==
  /\ owner = "open" /\ gen < MaxGen /\ SlotsIn("message") = {} /\ WaitsAnswered
  /\ job' = CancelAll
  /\ id' = EvictedId
  /\ dl' = [s \in Slots |-> IF dl[s].phase = "parked"
                            THEN [dl[s] EXCEPT !.phase = "rejected"] ELSE Purged[s]]
  /\ gen' = gen + 1
  /\ transcript' = transcript + 1
  /\ UNCHANGED <<owner, mgr, wait, got, fails>>

(* beginDispose: what is parked is rejected while the sink is still there. *)
BeginDispose ==
  /\ owner = "open"
  /\ owner' = "disposing"
  /\ dl' = Receipts(SlotsIn("parked"), "rejected")
  /\ UNCHANGED <<id, job, gen, transcript, mgr, wait, got, fails>>

(* #disposeOwnedAsyncJobs: the sink goes first. *)
OwnerGone ==
  /\ owner = "disposing" /\ SlotsIn("message") = {} /\ WaitsAnswered
  /\ owner' = "gone"
  /\ job' = CancelAll
  /\ id' = EvictedId
  /\ dl' = Purged
  /\ UNCHANGED <<gen, transcript, mgr, wait, got, fails>>

(* A revived owner is a new session with the same transcript. *)
ReviveOwner ==
  /\ owner = "gone" /\ mgr = "up" /\ gen < MaxGen
  /\ owner' = "open"
  /\ gen' = gen + 1
  /\ UNCHANGED <<id, job, dl, transcript, mgr, wait, got, fails>>

(* AsyncJobManager.dispose, of the session that owns the manager. *)
DisposeManager ==
  /\ mgr = "up" /\ owner = "gone"
  /\ mgr' = "disposing"
  /\ job' = CancelAll
  /\ id' = [id EXCEPT !.timer = NoTimer]
  /\ UNCHANGED <<dl, owner, gen, transcript, wait, got, fails>>

(* The jobs and the deliveries settled, or the time is up. *)
ManagerDown ==
  /\ mgr = "disposing"
  /\ mgr' = "down"
  /\ id' = [Evict(id) EXCEPT !.released = FALSE]
  /\ dl' = [s \in Slots |-> IF dl[s].phase = "queued" THEN NoDelivery ELSE dl[s]]
  /\ UNCHANGED <<job, owner, gen, transcript, wait, got, fails>>

-----------------------------------------------------------------------------
Reactions == SlotsIn("committed") \cup SlotsIn("rejected")

JobStep == \/ \E fg \in BOOLEAN : Register(fg)
           \/ PublishCompleted
           \/ \E i \in Jobs : RunEnds(i)
           \/ \E a \in BOOLEAN : Cancel(a)
CallStep == \/ ForegroundReturns \/ ForegroundAborts \/ Promote
            \/ Recover
            \/ \E w \in Waiters : Block(w) \/ Interrupted(w) \/ Reports(w)
DeliveryStep == \/ \E s \in Slots : DropSuppressed(s) \/ Attempt(s) \/ Formatted(s)
                \/ Flush \/ Commit \/ DiscardMessage
OwnerStep == \/ Transition \/ BeginDispose \/ OwnerGone \/ ReviveOwner
             \/ DisposeManager \/ ManagerDown

Next ==
  \/ \E s \in Slots : Settle(s)
  \/ Reactions = {} /\ (JobStep \/ CallStep \/ DeliveryStep \/ TimerFires \/ OwnerStep)

Spec == Init /\ [][Next]_vars

-----------------------------------------------------------------------------
(* Safety. *)

(* A result that a snapshot recovered is not put into a message afterwards:
   isStale drops its parked entry at the flush, because the row, and with it
   the suppression marker, outlives the attempt (#scheduleEviction). *)
RecoveredNotFlushed ==
  [][\A s \in Slots :
       dl[s].phase = "parked" /\ dl'[s].phase = "message"
         => "recovered" \notin got[dl[s].job]]_vars

(* While the owner's session is open, a settled result marked consumed was put
   into the context, recovered or returned (isJobResultConsumed). *)
ConsumedWasHandedOver ==
  owner = "open" /\ Evicts /\ id.consumed => got[id.row] # {}

(* A result enters only the transcript its job was started for: /new, a
   switch and a reset leave no delivery behind (evictCompletedJobs, the
   epoch of #deliverAsyncJobResult and isStale). *)
SameTranscript ==
  [][\A s \in Slots :
       dl[s].phase = "parked" /\ dl'[s].phase = "message"
         => job[dl[s].job].transcript = transcript]_vars

(* The result of a foreground call is never delivered to the session, unless
   the call gave up waiting (backgroundJob). *)
ForegroundUndelivered ==
  \A s \in Slots : dl[s].phase # "free" => ~ job[dl[s].job].foreground

(* A settled result that nothing suppresses, that no wait watches and that
   nobody has, is on its way: whatever ended the wait that watched it, and
   however often a message that held it was discarded. *)
NoResultStranded ==
  owner = "open" /\ Evicts /\ ~ Suppressed(id) /\ got[id.row] = {}
    => \E s \in Slots : dl[s].job = id.row

-----------------------------------------------------------------------------
(* Liveness.  The delivery loop and promise reactions run, a sink's formatting
   ends, a queue with entries is flushed, a message is taken or discarded, and
   a wait ends at its limit at the latest. *)

Fairness ==
  /\ \A s \in Slots : /\ WF_vars(Settle(s))
                      /\ WF_vars(Reactions = {} /\ DropSuppressed(s))
                      /\ WF_vars(Reactions = {} /\ Attempt(s))
                      /\ WF_vars(Reactions = {} /\ Formatted(s))
  /\ WF_vars(Reactions = {} /\ Flush)
  /\ WF_vars(Reactions = {} /\ Commit)
  /\ \A w \in Waiters : WF_vars(Reactions = {} /\ (Interrupted(w) \/ Reports(w)))

DeliverySpec == Spec /\ Fairness

(* A background result reaches its owner, while the owner is open and the row
   is kept: no marker and no wait withholds it for good. *)
ResultArrives ==
  \A i \in Jobs :
    owner = "open" /\ id.row = i /\ job[i].state = "done" /\ ~ job[i].foreground
      ~> owner # "open" \/ id.row # i \/ got[i] # {}

(* The eviction timer that is armed fires, and a dispose ends. *)
TimersFire ==
  WF_vars(Reactions = {} /\ TimerFires) /\ WF_vars(Reactions = {} /\ ManagerDown)

(* The row of a settled job is evicted in the end, with the markers and the
   artifacts it holds: no parked delivery keeps it for good. *)
RowReclaimed ==
  TimersFire => \A i \in Jobs : id.row = i /\ Ended(i) ~> id.row # i
=============================================================================
