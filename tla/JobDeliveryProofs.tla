------------------------- MODULE JobDeliveryProofs -------------------------
(***************************************************************************)
(* What is proved of JobDelivery for every number of waits, jobs,          *)
(* generations and deliveries: first what holds whether or not ids overlap *)
(* and retries are slow, then what becomes of results when an id is used   *)
(* again only after its deliveries are through (~ Overlap).                *)
(***************************************************************************)
EXTENDS JobDelivery, TLAPS

Active(j, i) == j[i].state \in {"running", "cancelling"}
Settled(j, i) == j[i].state \in {"done", "cancelled"}

\* The id's row is a job; only a job that has ended is consumed or has a timer;
\* a foreground job is suppressed.
IdOk(d, j) ==
  /\ d \in Ids
  /\ d.row # 0 => j[d.row].state # "none"
  /\ d.timer.at # "off" \/ d.consumed => d.row # 0 /\ Settled(j, d.row)
  /\ d.row # 0 => (j[d.row].foreground => d.suppressed)

\* A delivery carries a job's result, and no foreground job's.
DlOk(f, j) ==
  /\ f \in [Slots -> Deliveries]
  /\ \A s \in Slots : f[s].phase # "free" =>
       f[s].job # 0 /\ j[f[s].job].state # "none" /\ ~ j[f[s].job].foreground

\* A job that has not ended holds the row, until the manager is down.
ActiveOk(d, j, m) ==
  \A i \in Jobs : Active(j, i) =>
    /\ d.row = i \/ m = "down"
    /\ m # "up" => j[i].state = "cancelling"

RestOk ==
  /\ job \in [Jobs -> JobRecords]
  /\ owner \in {"open", "disposing", "gone"}
  /\ gen \in Gens
  /\ transcript \in 1 .. gen
  /\ mgr \in {"up", "disposing", "down"}
  /\ wait \in [Waiters -> 0 .. MaxJob]
  /\ got \in [Jobs -> SUBSET {"injected", "recovered", "returned", "dropped"}]
  /\ fails \in 0 .. MaxFail

DeliveryInv == RestOk /\ IdOk(id, job) /\ DlOk(dl, job) /\ ActiveOk(id, job, mgr)

-----------------------------------------------------------------------------
(* What the manager's operations make of the id's record. *)

LEMMA NoneTypes ==
  NoTimer \in Timers /\ NoDelivery \in Deliveries /\ NoJob \in JobRecords
BY DeliveryAssumption
   DEF NoTimer, Timers, NoDelivery, Deliveries, Phases, NoJob, JobRecords, JobStates

LEMMA RowType ==
  ASSUME NEW d \in Ids, NEW r \in 0 .. MaxJob PROVE [d EXCEPT !.row = r] \in Ids
<1> DEFINE R == 0 .. MaxJob
<1>1. r \in R /\ d \in [row : R, suppressed : BOOLEAN, watched : BOOLEAN,
                      consumed : BOOLEAN, released : BOOLEAN, timer : Timers]
  BY DEF Ids
<1>2. Ids = [row : R, suppressed : BOOLEAN, watched : BOOLEAN,
             consumed : BOOLEAN, released : BOOLEAN, timer : Timers]
  BY DEF Ids
<1> HIDE DEF R
<1> QED BY <1>1, <1>2

LEMMA EvictOk ==
  ASSUME NEW d \in Ids, NEW j
  PROVE IdOk(Evict(d), j) /\ Evict(d).row = 0
<1> DEFINE e == [d EXCEPT !.row = 0]
           f == [e EXCEPT !.suppressed = FALSE, !.watched = FALSE, !.consumed = FALSE]
<1>1. Evict(d) \in Ids
  <2>1. e \in Ids
    BY RowType, DeliveryAssumption
  <2>2. f \in Ids
    BY <2>1 DEF Ids
  <2>3. [f EXCEPT !.timer = NoTimer] \in Ids
    BY <2>2, NoneTypes DEF Ids
  <2>4. Evict(d) = [f EXCEPT !.timer = NoTimer]
    BY DEF Evict, Ids
  <2> QED BY <2>3, <2>4
<1>2. /\ Evict(d).row = 0 /\ Evict(d).timer.at = "off" /\ Evict(d).consumed = FALSE
  BY DEF Evict, Ids, NoTimer
<1> QED BY <1>1, <1>2 DEF IdOk

LEMMA ScheduleOk ==
  ASSUME NEW j, NEW d, IdOk(d, j), d.row # 0, Settled(j, d.row)
  PROVE IdOk(Schedule(d), j) /\ Schedule(d).row = d.row
<1> DEFINE t == [at |-> "armed", slot |-> 0]
           e == [d EXCEPT !.timer = t]
<1>1. t \in Timers
  BY DeliveryAssumption DEF Timers
<1>2. e \in Ids /\ e.row = d.row /\ e.suppressed = d.suppressed /\ e.consumed = d.consumed
  BY <1>1 DEF IdOk, Ids
<1>3. IdOk(e, j)
  BY <1>2 DEF IdOk
<1> QED BY <1>2, <1>3 DEF Schedule

LEMMA ConsumeOk ==
  ASSUME NEW d, IdOk(d, job), NEW p
  PROVE IdOk(Consume(d, p), job) /\ Consume(d, p).row = d.row
<1> DEFINE c == [d EXCEPT !.consumed = TRUE]
<1>1. CASE d.row = 0 \/ d.consumed \/ ~ Ended(d.row)
  BY <1>1 DEF Consume
<1>2. CASE d.row # 0 /\ ~ d.consumed /\ Ended(d.row)
  <2>1. c \in Ids /\ c.row = d.row /\ c.suppressed = d.suppressed
    BY DEF IdOk, Ids
  <2>2. IdOk(c, job)
    BY <1>2, <2>1 DEF IdOk, Ended, Settled
  <2>3. IdOk(Schedule(c), job) /\ Schedule(c).row = c.row
    BY <1>2, <2>1, <2>2, ScheduleOk DEF Ended, Settled
  <2> QED BY <1>2, <2>1, <2>2, <2>3 DEF Consume
<1> QED BY <1>1, <1>2

LEMMA ReleaseTimerOk ==
  ASSUME NEW d, IdOk(d, job), NEW s
  PROVE /\ IdOk(ReleaseTimer(d, s), job)
        /\ \/ ReleaseTimer(d, s).row = d.row
           \/ ReleaseTimer(d, s).row = 0 /\ Settled(job, d.row)
<1>1. CASE d.timer = [at |-> "held", slot |-> s]
  BY <1>1, EvictOk DEF ReleaseTimer, IdOk
<1>2. CASE d.timer # [at |-> "held", slot |-> s]
  BY <1>2 DEF ReleaseTimer
<1> QED BY <1>1, <1>2

LEMMA DeliveredOk ==
  ASSUME NEW d, IdOk(d, job), NEW f, NEW s
  PROVE /\ IdOk(Delivered(d, f, s), job)
        /\ \/ Delivered(d, f, s).row = d.row
           \/ Delivered(d, f, s).row = 0 /\ Settled(job, d.row)
<1>1. CASE d.consumed /\ d.row # 0
  <2>1. IdOk(Schedule(d), job) /\ Schedule(d).row = d.row
    BY <1>1, ScheduleOk DEF IdOk
  <2> QED BY <1>1, <2>1, ReleaseTimerOk DEF Delivered
<1>2. CASE ~ (d.consumed /\ d.row # 0)
  <2> DEFINE c == Consume(d, ~ Undelivered(f, {s}))
  <2>1. IdOk(c, job) /\ c.row = d.row
    BY ConsumeOk
  <2>2. Delivered(d, f, s) = ReleaseTimer(c, s)
    BY <1>2 DEF Delivered
  <2> QED BY <2>1, <2>2, ReleaseTimerOk
<1> QED BY <1>1, <1>2

LEMMA SnapshotOk ==
  ASSUME NEW d, IdOk(d, job), NEW f
  PROVE IdOk(Snapshot(d, f), job) /\ Snapshot(d, f).row = d.row
<1> DEFINE e == [d EXCEPT !.suppressed = TRUE]
<1>1. /\ e \in Ids /\ e.row = d.row /\ e.suppressed = TRUE
      /\ e.consumed = d.consumed /\ e.timer = d.timer
  BY DEF IdOk, Ids
<1>2. IdOk(e, job)
  BY <1>1 DEF IdOk
<1> QED BY <1>1, <1>2, ConsumeOk DEF Snapshot

LEMMA UnwatchedOk ==
  ASSUME NEW d, NEW j, IdOk(d, j)
  PROVE IdOk(Unwatched(d), j) /\ Unwatched(d).row = d.row
<1>1. /\ Unwatched(d) \in Ids /\ Unwatched(d).row = d.row
      /\ Unwatched(d).suppressed = d.suppressed
      /\ Unwatched(d).consumed = d.consumed /\ Unwatched(d).timer = d.timer
  BY DEF IdOk, Ids, Unwatched
<1> QED BY <1>1 DEF IdOk

LEMMA ClaimOk ==
  ASSUME NEW j, NEW d, IdOk(d, j), d.row = 0, NEW i \in Jobs
  PROVE /\ Claim(d, i) \in Ids /\ Claim(d, i).row = i
        /\ Claim(d, i).timer.at = "off" /\ Claim(d, i).consumed = FALSE
<1> DEFINE e == [d EXCEPT !.row = i]
           f == [e EXCEPT !.suppressed = FALSE, !.consumed = FALSE, !.released = FALSE]
<1>1. Claim(d, i) \in Ids
  <2>1. e \in Ids
    BY RowType, DeliveryAssumption DEF IdOk, Jobs
  <2>2. f \in Ids
    BY <2>1 DEF Ids
  <2>3. Claim(d, i) = f
    BY DEF IdOk, Ids, Claim
  <2> QED BY <2>2, <2>3
<1>2. Claim(d, i).row = i /\ Claim(d, i).timer = d.timer /\ Claim(d, i).consumed = FALSE
  BY DEF IdOk, Ids, Claim
<1> QED BY <1>1, <1>2 DEF IdOk

-----------------------------------------------------------------------------
(* What they make of the deliveries. *)

LEMMA EnqueueOk ==
  ASSUME NEW j, NEW f, DlOk(f, j), NEW d, Suppressed(d) \/ FreeSlots(f) # {},
         NEW i \in Jobs, j[i].state # "none", ~ j[i].foreground
  PROVE DlOk(Enqueue(d, f, i), j)
<1>1. CASE Suppressed(d)
  BY <1>1 DEF Enqueue
<1>2. CASE ~ Suppressed(d)
  <2> DEFINE t == AnyOf(FreeSlots(f))
             e == [job |-> i, phase |-> "queued", gen |-> 0]
  <2>1. t \in Slots
    BY <1>2 DEF AnyOf, FreeSlots
  <2>2. e \in Deliveries /\ i # 0
    BY DeliveryAssumption DEF Deliveries, Phases, Jobs
  <2>3. Enqueue(d, f, i) = [f EXCEPT ![t] = e]
    BY <1>2 DEF Enqueue
  <2> HIDE DEF t
  <2> QED BY <2>1, <2>2, <2>3 DEF DlOk
<1> QED BY <1>1, <1>2

LEMMA DropOk ==
  ASSUME NEW j, NEW f, DlOk(f, j), NEW s \in Slots
  PROVE DlOk([f EXCEPT ![s] = NoDelivery], j)
BY NoneTypes DEF DlOk, NoDelivery

LEMMA PhaseOk ==
  ASSUME NEW j, NEW f, DlOk(f, j), NEW g \in [Slots -> Deliveries],
         \A s \in Slots : g[s].phase # "free" => f[s].phase # "free" /\ g[s].job = f[s].job
  PROVE DlOk(g, j)
BY DEF DlOk

LEMMA AcknowledgeOk ==
  ASSUME NEW j, NEW f, DlOk(f, j) PROVE DlOk(Acknowledge(f), j)
BY NoneTypes DEF DlOk, Acknowledge, NoDelivery

LEMMA RephaseType ==
  ASSUME NEW v \in Deliveries, NEW ph \in Phases
  PROVE [v EXCEPT !.phase = ph] \in Deliveries /\ [v EXCEPT !.phase = ph].job = v.job
BY DEF Deliveries

LEMMA RequeuedOk ==
  ASSUME NEW j, NEW f, DlOk(f, j), NEW d, NEW s \in Slots, f[s].phase # "free"
  PROVE DlOk(Requeued(d, f, s), j)
<1> DEFINE v == [f[s] EXCEPT !.phase = "queued"]
<1>1. v \in Deliveries /\ v.job = f[s].job
  BY RephaseType DEF DlOk, Phases
<1>2. DlOk([f EXCEPT ![s] = v], j)
  BY <1>1 DEF DlOk
<1>3. [f EXCEPT ![s].phase = "queued"] = [f EXCEPT ![s] = v]
  OBVIOUS
<1> QED BY <1>2, <1>3, DropOk DEF Requeued

LEMMA ReceiptsOk ==
  ASSUME NEW S \in SUBSET Slots, NEW ph \in Phases, DlOk(dl, job),
         \A s \in S : dl[s].phase # "free"
  PROVE DlOk(Receipts(S, ph), job)
<1>1. ASSUME NEW s \in Slots
      PROVE /\ [dl[s] EXCEPT !.phase = ph] \in Deliveries
            /\ [dl[s] EXCEPT !.phase = ph].job = dl[s].job
  BY RephaseType DEF DlOk
<1>2. Receipts(S, ph) \in [Slots -> Deliveries]
  BY <1>1 DEF Receipts, DlOk
<1> QED BY <1>1, <1>2, PhaseOk DEF Receipts

-----------------------------------------------------------------------------
(* The id's record changes, the jobs do not. *)
LEMMA ActiveKept ==
  ASSUME ActiveOk(id, job, mgr), NEW e,
         e.row = id.row \/ (e.row = 0 /\ Settled(job, id.row))
  PROVE ActiveOk(e, job, mgr)
BY DEF ActiveOk, Active, Settled

LEMMA InitInv == Init => DeliveryInv
<1> SUFFICES ASSUME Init PROVE DeliveryInv
  OBVIOUS
<1> USE DeliveryAssumption DEF Init
<1>1. RestOk
  BY NoneTypes DEF RestOk, Gens
<1>2. id \in Ids
  BY NoneTypes DEF Ids
<1>3. IdOk(id, job)
  BY <1>2 DEF IdOk, NoTimer
<1>4. DlOk(dl, job)
  BY NoneTypes DEF DlOk, NoDelivery
<1>5. ActiveOk(id, job, mgr)
  BY DEF ActiveOk, Active, NoJob
<1> QED BY <1>1, <1>3, <1>4, <1>5 DEF DeliveryInv

-----------------------------------------------------------------------------
(* The steps. *)

\* No job changes, and the id's row stays or is evicted.
LEMMA WaitStepInv ==
  ASSUME DeliveryInv, UNCHANGED <<job, owner, gen, transcript, mgr, fails>>,
         wait' \in [Waiters -> 0 .. MaxJob],
         got' \in [Jobs -> SUBSET {"injected", "recovered", "returned", "dropped"}],
         IdOk(id', job), DlOk(dl', job),
         id'.row = id.row \/ (id'.row = 0 /\ Settled(job, id.row))
  PROVE DeliveryInv'
<1>1. RestOk'
  BY DEF DeliveryInv, RestOk
<1>2. ActiveOk(id', job, mgr)
  BY ActiveKept DEF DeliveryInv
<1> QED BY <1>1, <1>2 DEF DeliveryInv, IdOk, DlOk, ActiveOk, Active, Settled

LEMMA SameJobs ==
  ASSUME DeliveryInv, UNCHANGED <<job, owner, gen, transcript, mgr, wait, fails>>,
         got' \in [Jobs -> SUBSET {"injected", "recovered", "returned", "dropped"}],
         IdOk(id', job), DlOk(dl', job),
         id'.row = id.row \/ (id'.row = 0 /\ Settled(job, id.row))
  PROVE DeliveryInv'
<1>1. wait' \in [Waiters -> 0 .. MaxJob]
  BY DEF DeliveryInv, RestOk
<1> QED BY <1>1, WaitStepInv

LEMMA UnwatchOk ==
  ASSUME DeliveryInv, NEW d, IdOk(d, job), NEW f, DlOk(f, job), Unwatch(d, f)
  PROVE IdOk(id', job) /\ id'.row = d.row /\ DlOk(dl', job)
<1>1. IdOk(id', job) /\ id'.row = d.row
  BY UnwatchedOk DEF Unwatch
<1>2. CASE Requeues(d, f)
  <2>1. d.row \in Jobs /\ job[d.row].state # "none" /\ ~ job[d.row].foreground
    BY <1>2, DeliveryAssumption DEF Requeues, IdOk, Ids, Jobs
  <2>2. FreeSlots(f) # {} /\ dl' = Enqueue(Unwatched(d), f, d.row)
    BY <1>2 DEF Unwatch
  <2> QED BY <1>1, <2>1, <2>2, EnqueueOk
<1>3. CASE ~ Requeues(d, f)
  BY <1>1, <1>3 DEF Unwatch
<1> QED BY <1>2, <1>3

LEMMA RowIsJob ==
  ASSUME DeliveryInv, id.row # 0
  PROVE id.row \in Jobs /\ job[id.row] \in JobRecords
BY DeliveryAssumption DEF DeliveryInv, IdOk, Ids, Jobs, RestOk

LEMMA DeliveryStepInv ==
  ASSUME DeliveryInv,
         \/ \E s \in Slots : Settle(s) \/ DropSuppressed(s) \/ Attempt(s) \/ Formatted(s)
         \/ Flush \/ Commit \/ DiscardMessage
  PROVE DeliveryInv'
<1> USE DEF ownerVars
<1>0. /\ IdOk(id, job) /\ DlOk(dl, job)
      /\ got \in [Jobs -> SUBSET {"injected", "recovered", "returned", "dropped"}]
  BY DEF DeliveryInv, RestOk
<1>1. ASSUME NEW s \in Slots, Settle(s) PROVE DeliveryInv'
  <2>1. CASE dl[s].phase = "committed" /\ id' = Delivered(id, dl, s)
             /\ dl' = [dl EXCEPT ![s] = NoDelivery]
    BY <1>0, <1>1, <2>1, DeliveredOk, DropOk, SameJobs DEF Settle
  <2>2. CASE dl[s].phase = "rejected" /\ id' = ReleaseTimer(id, s)
             /\ dl' = Requeued(id, dl, s)
    BY <1>0, <1>1, <2>2, ReleaseTimerOk, RequeuedOk, SameJobs DEF Settle
  <2> QED BY <1>1, <2>1, <2>2 DEF Settle
<1>2. ASSUME NEW s \in Slots, DropSuppressed(s) PROVE DeliveryInv'
  BY <1>0, <1>2, DropOk, SameJobs DEF DropSuppressed
<1>3. ASSUME NEW s \in Slots, Attempt(s) PROVE DeliveryInv'
  <2>1. DlOk([dl EXCEPT ![s] = NoDelivery], job)
    BY <1>0, DropOk
  <2>2. CASE owner = "gone" /\ dl' = [dl EXCEPT ![s] = NoDelivery]
             /\ got' = [got EXCEPT ![dl[s].job] = @ \cup {"dropped"}] /\ UNCHANGED id
    BY <1>0, <1>3, <2>1, <2>2, SameJobs DEF Attempt
  <2>3. CASE owner = "disposing" /\ id' = Delivered(id, dl, s)
             /\ dl' = [dl EXCEPT ![s] = NoDelivery] /\ UNCHANGED got
    BY <1>0, <1>3, <2>1, <2>3, DeliveredOk, SameJobs DEF Attempt
  <2>4. CASE dl' = [dl EXCEPT ![s].phase = "sink", ![s].gen = gen] /\ UNCHANGED <<id, got>>
    <3> DEFINE v == [dl[s] EXCEPT !.phase = "sink", !.gen = gen]
    <3>1. dl' = [dl EXCEPT ![s] = v]
      BY <2>4
    <3>2. v \in Deliveries /\ v.job = dl[s].job
      <4>1. gen \in 0 .. MaxGen /\ dl[s] \in Deliveries
        BY <1>0, DeliveryAssumption DEF DeliveryInv, RestOk, Gens, DlOk
      <4> QED BY <4>1 DEF Deliveries, Phases
    <3>3. DlOk(dl', job)
      <4>1. dl[s].phase # "free"
        BY <1>3 DEF Attempt
      <4> HIDE DEF v
      <4> QED BY <1>0, <3>1, <3>2, <4>1 DEF DlOk
    <3> QED BY <1>0, <1>3, <2>4, <3>3, SameJobs DEF Attempt
  <2> QED BY <1>3, <2>2, <2>3, <2>4 DEF Attempt
<1>4. ASSUME NEW s \in Slots, Formatted(s) PROVE DeliveryInv'
  <2>1. CASE TurnedAway(s)
    BY <1>0, <1>4, <2>1, DropOk, DeliveredOk, SameJobs DEF Formatted
  <2>2. CASE ~ TurnedAway(s)
    <3> DEFINE v == [dl[s] EXCEPT !.phase = "parked"]
    <3>1. dl' = [dl EXCEPT ![s] = v] /\ UNCHANGED id
      BY <1>4, <2>2 DEF Formatted
    <3>2. v \in Deliveries /\ v.job = dl[s].job
      BY <1>0, RephaseType DEF DlOk, Phases
    <3>3. dl[s].phase # "free"
      BY <1>4 DEF Formatted
    <3> HIDE DEF v
    <3>4. DlOk(dl', job)
      BY <1>0, <3>1, <3>2, <3>3 DEF DlOk
    <3> QED BY <1>0, <1>4, <3>1, <3>4, SameJobs DEF Formatted
  <2> QED BY <2>1, <2>2
<1>5. CASE Flush
  <2> DEFINE ph(s) == IF Stale(s) THEN "rejected" ELSE "message"
  <2>1. ASSUME NEW s \in Slots
        PROVE /\ [dl[s] EXCEPT !.phase = ph(s)] \in Deliveries
              /\ [dl[s] EXCEPT !.phase = ph(s)].job = dl[s].job
    <3>1. ph(s) \in Phases /\ dl[s] \in Deliveries
      BY <1>0 DEF Phases, DlOk
    <3> QED BY <3>1, RephaseType
  <2>2. dl' = [s \in Slots |-> IF s \notin SlotsIn("parked") THEN dl[s]
                               ELSE [dl[s] EXCEPT !.phase = ph(s)]]
    BY <1>5 DEF Flush
  <2>3. dl' \in [Slots -> Deliveries]
    BY <1>0, <2>1, <2>2 DEF DlOk
  <2>4. \A s \in Slots : dl'[s].phase # "free"
          => dl[s].phase # "free" /\ dl'[s].job = dl[s].job
    BY <2>1, <2>2 DEF SlotsIn
  <2>5. DlOk(dl', job)
    BY <1>0, <2>3, <2>4, PhaseOk
  <2> QED BY <1>0, <1>5, <2>5, SameJobs DEF Flush
<1>6. CASE Commit
  <2>1. DlOk(dl', job)
    BY <1>0, <1>6, ReceiptsOk DEF Commit, SlotsIn, Phases
  <2>2. got' \in [Jobs -> SUBSET {"injected", "recovered", "returned", "dropped"}]
    BY <1>0, <1>6 DEF Commit
  <2> QED BY <1>0, <1>6, <2>1, <2>2, SameJobs DEF Commit
<1>7. CASE DiscardMessage
  <2>1. DlOk(dl', job)
    BY <1>0, <1>7, ReceiptsOk DEF DiscardMessage, SlotsIn, Phases
  <2>2. fails' \in 0 .. MaxFail
    BY <1>7, DeliveryAssumption DEF DiscardMessage, DeliveryInv, RestOk
  <2> QED BY <1>7, <2>1, <2>2
          DEF DiscardMessage, DeliveryInv, RestOk, IdOk, DlOk, ActiveOk, Active, Settled
<1> QED BY <1>1, <1>2, <1>3, <1>4, <1>5, <1>6, <1>7

LEMMA JobUpdate ==
  ASSUME job \in [Jobs -> JobRecords], NEW i \in Jobs, NEW st \in JobStates,
         NEW j, j = [job EXCEPT ![i].state = st]
  PROVE /\ j \in [Jobs -> JobRecords] /\ j[i].state = st
        /\ \A k \in Jobs : (k # i => j[k] = job[k]) /\ j[k].foreground = job[k].foreground
<1> DEFINE v == [job[i] EXCEPT !.state = st]
<1>1. v \in JobRecords /\ v.foreground = job[i].foreground /\ v.state = st
  BY DEF JobRecords
<1>2. j = [job EXCEPT ![i] = v]
  OBVIOUS
<1> HIDE DEF v
<1> QED BY <1>1, <1>2

\* What is said of the deliveries outlives a change of the jobs that starts
\* none over and puts none into the foreground.
LEMMA DlKept ==
  ASSUME NEW j, NEW g, NEW f, DlOk(f, j),
         \A i \in Jobs : j[i].state # "none" =>
           g[i].state # "none" /\ (~ j[i].foreground => ~ g[i].foreground)
  PROVE DlOk(f, g)
<1>1. \A s \in Slots : f[s].job # 0 => f[s].job \in Jobs
  BY DeliveryAssumption DEF DlOk, Deliveries, Jobs
<1> QED BY <1>1 DEF DlOk

LEMMA NewJob ==
  ASSUME DeliveryInv, IdIsFree, NEW r \in JobRecords, r.state # "none",
         job' = [job EXCEPT ![NextJob] = r]
  PROVE /\ NextJob \in Jobs /\ job[NextJob].state = "none" /\ mgr = "up" /\ id.row = 0
        /\ job' \in [Jobs -> JobRecords] /\ job'[NextJob] = r
        /\ \A k \in Jobs : ~ Active(job, k)
        /\ DlOk(dl, job')
<1>1. NextJob \in Jobs /\ job[NextJob].state = "none" /\ mgr = "up" /\ id.row = 0
  BY DEF NextJob, AnyOf, IdIsFree, Unused
<1>2. job' \in [Jobs -> JobRecords] /\ job'[NextJob] = r
      /\ \A k \in Jobs : k # NextJob => job'[k] = job[k]
  BY <1>1 DEF DeliveryInv, RestOk
<1>3. \A k \in Jobs : ~ Active(job, k)
  BY <1>1, DeliveryAssumption DEF DeliveryInv, ActiveOk, Jobs
<1>4. DlOk(dl, job')
  <2>1. \A i \in Jobs : job[i].state # "none" =>
          job'[i].state # "none" /\ (~ job[i].foreground => ~ job'[i].foreground)
    BY <1>1, <1>2
  <2>2. DlOk(dl, job)
    BY DEF DeliveryInv
  <2> QED BY <2>1, <2>2, DlKept
<1> QED BY <1>1, <1>2, <1>3, <1>4

LEMMA RegisterInv ==
  ASSUME DeliveryInv, NEW fg \in BOOLEAN, Register(fg) PROVE DeliveryInv'
<1> DEFINE r == [state |-> "running", foreground |-> fg, transcript |-> transcript]
           c == Claim(id, NextJob)
<1> USE DEF ownerVars
<1>1. r \in JobRecords
  <2>1. transcript \in 0 .. MaxGen
    BY DeliveryAssumption DEF DeliveryInv, RestOk, Gens
  <2> QED BY <2>1 DEF JobRecords, JobStates
<1>2. /\ NextJob \in Jobs /\ mgr = "up" /\ id.row = 0
      /\ job' \in [Jobs -> JobRecords] /\ job'[NextJob] = r
      /\ \A k \in Jobs : ~ Active(job, k)
      /\ DlOk(dl, job')
  BY <1>1, NewJob DEF Register
<1>3. c \in Ids /\ c.row = NextJob /\ c.timer.at = "off" /\ c.consumed = FALSE
  BY <1>2, ClaimOk DEF DeliveryInv
<1>4. /\ id' \in Ids /\ id'.row = NextJob /\ id'.timer.at = "off" /\ id'.consumed = FALSE
      /\ id'.suppressed = fg
  <2>1. id' = [c EXCEPT !.suppressed = fg]
    BY DEF Register
  <2> HIDE DEF c
  <2> QED BY <1>3, <2>1 DEF Ids
<1>5. IdOk(id', job')
  BY <1>2, <1>4 DEF IdOk
<1>6. ActiveOk(id', job', mgr)
  <2>1. \A k \in Jobs : k # NextJob => job'[k] = job[k]
    BY DEF Register, DeliveryInv, RestOk
  <2> QED BY <1>2, <1>4, <2>1 DEF ActiveOk, Active
<1>7. RestOk'
  BY <1>2 DEF Register, DeliveryInv, RestOk
<1> QED BY <1>2, <1>5, <1>6, <1>7
        DEF Register, DeliveryInv, IdOk, DlOk, ActiveOk, Active, Settled

LEMMA PublishInv ==
  ASSUME DeliveryInv, PublishCompleted PROVE DeliveryInv'
<1> DEFINE r == [state |-> "done", foreground |-> FALSE, transcript |-> transcript]
           c == Claim(id, NextJob)
<1> USE DEF ownerVars
<1>1. r \in JobRecords
  <2>1. transcript \in 0 .. MaxGen
    BY DeliveryAssumption DEF DeliveryInv, RestOk, Gens
  <2> QED BY <2>1 DEF JobRecords, JobStates
<1>2. /\ NextJob \in Jobs /\ mgr = "up" /\ id.row = 0
      /\ job' \in [Jobs -> JobRecords] /\ job'[NextJob] = r
      /\ \A k \in Jobs : ~ Active(job, k)
      /\ DlOk(dl, job')
  BY <1>1, NewJob DEF PublishCompleted
<1>3. c \in Ids /\ c.row = NextJob /\ c.timer.at = "off" /\ c.consumed = FALSE
  BY <1>2, ClaimOk DEF DeliveryInv
<1>4. IdOk(c, job')
  BY <1>2, <1>3 DEF IdOk
<1>5. IdOk(id', job') /\ id'.row = NextJob
  <2>1. Settled(job', c.row) /\ c.row # 0
    BY <1>2, <1>3, DeliveryAssumption DEF Settled, Jobs
  <2>2. id' = Schedule(c)
    BY DEF PublishCompleted
  <2> HIDE DEF c
  <2>3. IdOk(Schedule(c), job') /\ Schedule(c).row = c.row
    BY <1>4, <2>1, ScheduleOk
  <2> QED BY <1>3, <2>2, <2>3
<1>6. DlOk(dl', job')
  <2>1. MayEnqueue(c) /\ dl' = Enqueue(c, dl, NextJob)
    BY DEF PublishCompleted
  <2> QED BY <1>2, <2>1, EnqueueOk DEF MayEnqueue
<1>7. ActiveOk(id', job', mgr)
  <2>1. \A k \in Jobs : k # NextJob => job'[k] = job[k]
    BY DEF PublishCompleted, DeliveryInv, RestOk
  <2> QED BY <1>2, <2>1 DEF ActiveOk, Active
<1>8. RestOk'
  BY <1>2 DEF PublishCompleted, DeliveryInv, RestOk
<1> QED BY <1>5, <1>6, <1>7, <1>8
        DEF PublishCompleted, DeliveryInv, IdOk, DlOk, ActiveOk, Active, Settled

LEMMA DiscardOk ==
  ASSUME NEW d \in Ids, NEW j PROVE IdOk(Discard(d), j) /\ Discard(d).row = 0
<1>1. [d EXCEPT !.released = FALSE] \in Ids
  BY DEF Ids
<1> QED BY <1>1, EvictOk DEF Discard

LEMMA RunEndsInv ==
  ASSUME DeliveryInv, NEW i \in Jobs, RunEnds(i) PROVE DeliveryInv'
<1> USE DEF ownerVars
<1>0. /\ IdOk(id, job) /\ DlOk(dl, job) /\ ActiveOk(id, job, mgr)
      /\ job \in [Jobs -> JobRecords] /\ i # 0
  BY DeliveryAssumption DEF DeliveryInv, RestOk, Jobs
<1>1. PICK st \in {"cancelled", "done"} : job' = [job EXCEPT ![i].state = st]
  BY DEF RunEnds
<1>2. /\ job' \in [Jobs -> JobRecords] /\ job'[i].state = st
      /\ \A k \in Jobs : (k # i => job'[k] = job[k]) /\ job'[k].foreground = job[k].foreground
  <2>1. st \in JobStates
    BY DEF JobStates
  <2> QED BY <1>0, <1>1, <2>1, JobUpdate
<1>3. Active(job, i) /\ (id.row = i \/ mgr = "down")
  BY <1>0 DEF RunEnds, Active, ActiveOk
<1>4. IdOk(id, job')
  <2>1. id \in Ids /\ (id.row # 0 => id.row \in Jobs)
    BY <1>0, DeliveryAssumption DEF IdOk, Ids, Jobs
  <2> QED BY <1>0, <1>2, <1>3, <2>1 DEF IdOk, Settled, Active
<1>5. IdOk(id', job')
  <2>1. CASE id.released
    BY <1>0, <2>1, DiscardOk DEF RunEnds, IdOk
  <2>2. CASE ~ id.released /\ mgr = "up"
    BY <1>0, <1>2, <1>3, <1>4, <2>2, ScheduleOk DEF RunEnds, Settled
  <2>3. CASE ~ id.released /\ mgr # "up"
    BY <1>4, <2>3 DEF RunEnds, Schedule
  <2> QED BY <2>1, <2>2, <2>3
<1>6. ActiveOk(id', job', mgr)
  BY <1>0, <1>2, <1>3 DEF ActiveOk, Active
<1>7. DlOk(dl, job')
  BY <1>0, <1>2, DlKept
<1>8. DlOk(dl', job')
  <2>1. CASE UNCHANGED dl
    BY <1>7, <2>1
  <2>2. CASE job[i].state = "running" /\ MayEnqueue(id) /\ dl' = Enqueue(id, dl, i)
    <3>1. id.row = i
      BY <1>0, <1>3, <2>2 DEF ActiveOk, Active
    <3>2. CASE job[i].foreground
      BY <1>0, <1>7, <2>2, <3>1, <3>2 DEF IdOk, Enqueue, Suppressed
    <3>3. CASE ~ job[i].foreground
      BY <1>2, <1>7, <2>2, <3>3, EnqueueOk DEF MayEnqueue
    <3> QED BY <3>2, <3>3
  <2> QED BY <2>1, <2>2 DEF RunEnds
<1>9. RestOk'
  BY <1>2 DEF RunEnds, DeliveryInv, RestOk
<1> QED BY <1>5, <1>6, <1>8, <1>9
        DEF RunEnds, DeliveryInv, IdOk, DlOk, ActiveOk, Active, Settled

\* cancel and cancelAll: the running row is cancelled, and no other job changes.
LEMMA CancelledRow ==
  ASSUME DeliveryInv, NEW j, j = [job EXCEPT ![id.row].state = "cancelling"],
         id.row # 0, job[id.row].state = "running"
  PROVE /\ j \in [Jobs -> JobRecords]
        /\ \A k \in Jobs : /\ j[k].state = "cancelling" \/ j[k] = job[k]
                           /\ j[k].foreground = job[k].foreground
                           /\ Active(j, k) <=> Active(job, k)
                           /\ Settled(j, k) <=> Settled(job, k)
        /\ \A k \in Jobs : j[k].state # "running"
<1>1. id.row \in Jobs /\ job \in [Jobs -> JobRecords]
  BY RowIsJob DEF DeliveryInv, RestOk
<1>2. /\ j \in [Jobs -> JobRecords] /\ j[id.row].state = "cancelling"
      /\ \A k \in Jobs : (k # id.row => j[k] = job[k]) /\ j[k].foreground = job[k].foreground
  <2>1. "cancelling" \in JobStates
    BY DEF JobStates
  <2>2. PICK i \in Jobs : i = id.row
    BY <1>1
  <2>3. j = [job EXCEPT ![i].state = "cancelling"]
    BY <2>2
  <2>4. /\ j \in [Jobs -> JobRecords] /\ j[i].state = "cancelling"
        /\ \A k \in Jobs : (k # i => j[k] = job[k]) /\ j[k].foreground = job[k].foreground
    BY <1>1, <2>1, <2>3, JobUpdate
  <2> QED BY <2>2, <2>4
<1>3. \A k \in Jobs : j[k].state # "running"
  <2>1. \A k \in Jobs : job[k].state = "running" => id.row = k
    BY DEF DeliveryInv, ActiveOk, Active
  <2> QED BY <1>2, <2>1
<1> QED BY <1>1, <1>2, <1>3 DEF Active, Settled

\* Whatever cancels the running row, what is said of a record and of the
\* deliveries stays.
LEMMA CancelledKeeps ==
  ASSUME DeliveryInv, NEW j, j = [job EXCEPT ![id.row].state = "cancelling"],
         id.row # 0, job[id.row].state = "running"
  PROVE /\ IdOk(id, j) /\ DlOk(dl, j) /\ ActiveOk(id, j, mgr)
<1>1. /\ j \in [Jobs -> JobRecords]
      /\ \A k \in Jobs : /\ j[k].state = "cancelling" \/ j[k] = job[k]
                         /\ j[k].foreground = job[k].foreground
                         /\ Active(j, k) <=> Active(job, k)
                         /\ Settled(j, k) <=> Settled(job, k)
  BY CancelledRow
<1>2. id.row \in Jobs
  BY RowIsJob
<1>3. IdOk(id, j)
  <2>1. IdOk(id, job)
    BY DEF DeliveryInv
  <2>2. j[id.row].state # "none" /\ j[id.row].foreground = job[id.row].foreground
    BY <1>1, <1>2
  <2>3. Settled(j, id.row) <=> Settled(job, id.row)
    BY <1>1, <1>2
  <2> QED BY <2>1, <2>2, <2>3 DEF IdOk
<1>4. DlOk(dl, j)
  <2>1. \A i \in Jobs : job[i].state # "none" =>
          j[i].state # "none" /\ (~ job[i].foreground => ~ j[i].foreground)
    BY <1>1
  <2>2. DlOk(dl, job)
    BY DEF DeliveryInv
  <2> QED BY <2>1, <2>2, DlKept
<1>5. ActiveOk(id, j, mgr)
  BY <1>1 DEF DeliveryInv, ActiveOk
<1> QED BY <1>3, <1>4, <1>5

LEMMA SuppressedOk ==
  ASSUME NEW j, NEW d, IdOk(d, j), NEW b \in BOOLEAN
  PROVE /\ IdOk([d EXCEPT !.suppressed = @ \/ b], j)
        /\ [d EXCEPT !.suppressed = @ \/ b].row = d.row
<1> DEFINE e == [d EXCEPT !.suppressed = @ \/ b]
<1>1. d.suppressed \/ b \in BOOLEAN
  BY DEF IdOk, Ids
<1>2. /\ e \in Ids /\ e.row = d.row /\ e.timer = d.timer /\ e.consumed = d.consumed
      /\ e.suppressed = (d.suppressed \/ b)
  BY <1>1 DEF IdOk, Ids
<1> HIDE DEF e
<1>3. IdOk(e, j)
  BY <1>2 DEF IdOk
<1> QED BY <1>2, <1>3 DEF e

LEMMA CancelInv ==
  ASSUME DeliveryInv, NEW a \in BOOLEAN, Cancel(a) PROVE DeliveryInv'
<1> USE DEF ownerVars
<1>1. /\ id.row # 0 /\ job[id.row].state = "running"
      /\ job' = [job EXCEPT ![id.row].state = "cancelling"]
  BY DEF Cancel
<1>2. IdOk(id, job') /\ DlOk(dl, job') /\ ActiveOk(id, job', mgr)
      /\ job' \in [Jobs -> JobRecords]
  BY <1>1, CancelledKeeps, CancelledRow
<1>3. IdOk(id', job') /\ id'.row = id.row
  BY <1>2, SuppressedOk DEF Cancel
<1>4. DlOk(dl', job')
  BY <1>2, AcknowledgeOk DEF Cancel
<1>5. ActiveOk(id', job', mgr)
  BY <1>2, <1>3 DEF ActiveOk
<1>6. RestOk'
  BY <1>2 DEF Cancel, DeliveryInv, RestOk
<1> QED BY <1>3, <1>4, <1>5, <1>6
        DEF Cancel, DeliveryInv, IdOk, DlOk, ActiveOk, Active, Settled

-----------------------------------------------------------------------------
(* Foreground calls. *)

LEMMA ReleasedOk ==
  ASSUME NEW d, NEW j, IdOk(d, j), d.row # 0, Ended(d.row) => Settled(j, d.row)
  PROVE /\ IdOk(Released(d, d.row), j)
        /\ \/ Released(d, d.row).row = d.row
           \/ Released(d, d.row).row = 0 /\ Settled(j, d.row)
<1>1. CASE Ended(d.row)
  BY <1>1, DiscardOk DEF Released, IdOk
<1>2. CASE ~ Ended(d.row)
  <2> DEFINE e == [d EXCEPT !.released = TRUE]
  <2>1. /\ e \in Ids /\ e.row = d.row /\ e.timer = d.timer /\ e.consumed = d.consumed
        /\ e.suppressed = d.suppressed
    BY DEF IdOk, Ids
  <2>2. Released(d, d.row) = e
    BY <1>2 DEF Released
  <2> HIDE DEF e
  <2> QED BY <2>1, <2>2 DEF IdOk
<1> QED BY <1>1, <1>2

LEMMA ReturnsInv ==
  ASSUME DeliveryInv, ForegroundReturns PROVE DeliveryInv'
<1>1. IdOk(id, job) /\ DlOk(dl, job) /\ id.row # 0
  BY DEF DeliveryInv, ForegroundReturns, Backed
<1>2. /\ IdOk(id', job)
      /\ id'.row = id.row \/ (id'.row = 0 /\ Settled(job, id.row))
  BY <1>1, ReleasedOk DEF ForegroundReturns, Ended, Settled
<1>3. got' \in [Jobs -> SUBSET {"injected", "recovered", "returned", "dropped"}]
  BY DEF DeliveryInv, RestOk, ForegroundReturns
<1> QED BY <1>1, <1>2, <1>3, SameJobs DEF ForegroundReturns, ownerVars

LEMMA AbortsInv ==
  ASSUME DeliveryInv, ForegroundAborts PROVE DeliveryInv'
<1> USE DEF ownerVars
<1>1. /\ IdOk(id, job) /\ DlOk(dl, job) /\ id.row # 0 /\ id' = Released(id, id.row)
      /\ got \in [Jobs -> SUBSET {"injected", "recovered", "returned", "dropped"}]
  BY DEF DeliveryInv, RestOk, ForegroundAborts, Backed
<1>2. CASE job[id.row].state = "running"
  <2>1. job' = [job EXCEPT ![id.row].state = "cancelling"]
    BY <1>2 DEF ForegroundAborts
  <2>2. IdOk(id, job') /\ DlOk(dl, job') /\ ActiveOk(id, job', mgr)
        /\ job' \in [Jobs -> JobRecords]
    BY <1>1, <1>2, <2>1, CancelledKeeps, CancelledRow
  <2>3. ~ Ended(id.row)
    BY <1>2 DEF Ended
  <2>4. IdOk(id', job') /\ id'.row = id.row
    <3>1. IdOk(Released(id, id.row), job')
      BY <1>1, <2>2, <2>3, ReleasedOk
    <3>2. Released(id, id.row).row = id.row
      BY <1>1, <2>3 DEF Released, IdOk, Ids
    <3> QED BY <1>1, <3>1, <3>2
  <2>5. ActiveOk(id', job', mgr)
    BY <2>2, <2>4 DEF ActiveOk
  <2>6. RestOk'
    BY <2>2 DEF ForegroundAborts, DeliveryInv, RestOk
  <2> QED BY <2>2, <2>4, <2>5, <2>6
          DEF ForegroundAborts, DeliveryInv, IdOk, DlOk, ActiveOk, Active, Settled
<1>3. CASE job[id.row].state # "running"
  <2>1. /\ IdOk(id', job)
        /\ id'.row = id.row \/ (id'.row = 0 /\ Settled(job, id.row))
    BY <1>1, ReleasedOk DEF Ended, Settled
  <2> QED BY <1>1, <1>3, <2>1, SameJobs DEF ForegroundAborts
<1> QED BY <1>2, <1>3

LEMMA PromoteInv ==
  ASSUME DeliveryInv, Promote PROVE DeliveryInv'
<1> USE DEF ownerVars
<1> DEFINE d == [id EXCEPT !.suppressed = FALSE]
           v == [job[id.row] EXCEPT !.foreground = FALSE]
<1>0. /\ IdOk(id, job) /\ DlOk(dl, job) /\ ActiveOk(id, job, mgr)
      /\ job \in [Jobs -> JobRecords] /\ id.row # 0 /\ id.row \in Jobs
  BY RowIsJob DEF DeliveryInv, RestOk, Promote, Backed
<1>1. v \in JobRecords /\ v.state = job[id.row].state /\ ~ v.foreground
  BY <1>0 DEF JobRecords
<1>2. job' = [job EXCEPT ![id.row] = v]
  BY DEF Promote
<1>3. /\ id' = d /\ d \in Ids /\ d.row = id.row /\ d.timer = id.timer
      /\ d.consumed = id.consumed
  BY <1>0 DEF Promote, IdOk, Ids
<1> HIDE DEF d, v
<1>4. /\ job' \in [Jobs -> JobRecords]
      /\ ~ job'[id.row].foreground /\ job'[id.row].state = job[id.row].state
      /\ \A k \in Jobs : job'[k].state = job[k].state
                         /\ (~ job[k].foreground => ~ job'[k].foreground)
  BY <1>0, <1>1, <1>2
<1>5. IdOk(id', job')
  BY <1>0, <1>3, <1>4 DEF IdOk, Settled
<1>6. ActiveOk(id', job', mgr)
  BY <1>0, <1>3, <1>4 DEF ActiveOk, Active
<1>7. DlOk(dl, job')
  <2>1. \A i \in Jobs : job[i].state # "none" =>
          job'[i].state # "none" /\ (~ job[i].foreground => ~ job'[i].foreground)
    BY <1>4
  <2> QED BY <1>0, <2>1, DlKept
<1>8. DlOk(dl', job')
  <2>1. CASE job[id.row].state = "done"
    <3>1. MayEnqueue(d) /\ dl' = Enqueue(d, dl, id.row)
      BY <2>1 DEF Promote, d
    <3>2. job'[id.row].state # "none"
      BY <1>4, <2>1
    <3> QED BY <1>0, <1>4, <1>7, <3>1, <3>2, EnqueueOk DEF MayEnqueue
  <2>2. CASE job[id.row].state # "done"
    BY <1>7, <2>2 DEF Promote
  <2> QED BY <2>1, <2>2
<1>9. RestOk'
  BY <1>4 DEF Promote, DeliveryInv, RestOk
<1> QED BY <1>5, <1>6, <1>8, <1>9
        DEF Promote, DeliveryInv, IdOk, DlOk, ActiveOk, Active, Settled

LEMMA BlockInv ==
  ASSUME DeliveryInv, NEW w \in Waiters, Block(w) PROVE DeliveryInv'
<1> DEFINE e == [id EXCEPT !.watched = TRUE]
<1>0. /\ IdOk(id, job) /\ DlOk(dl, job) /\ id.row \in 0 .. MaxJob
      /\ got \in [Jobs -> SUBSET {"injected", "recovered", "returned", "dropped"}]
  BY DEF DeliveryInv, RestOk, IdOk, Ids
<1>1. /\ id' = e /\ e \in Ids /\ e.row = id.row /\ e.timer = id.timer
      /\ e.consumed = id.consumed /\ e.suppressed = id.suppressed
  BY <1>0 DEF Block, IdOk, Ids
<1> HIDE DEF e
<1>2. IdOk(id', job) /\ id'.row = id.row
  BY <1>0, <1>1 DEF IdOk
<1>3. wait' \in [Waiters -> 0 .. MaxJob]
  BY <1>0 DEF Block, DeliveryInv, RestOk
<1> QED BY <1>0, <1>2, <1>3, WaitStepInv DEF Block, ownerVars

LEMMA WaitEndsType ==
  ASSUME DeliveryInv, NEW w \in Waiters, wait' = [wait EXCEPT ![w] = 0]
  PROVE wait' \in [Waiters -> 0 .. MaxJob]
BY DeliveryAssumption DEF DeliveryInv, RestOk

LEMMA InterruptedInv ==
  ASSUME DeliveryInv, NEW w \in Waiters, Interrupted(w) PROVE DeliveryInv'
<1>0. /\ IdOk(id, job) /\ DlOk(dl, job)
      /\ got \in [Jobs -> SUBSET {"injected", "recovered", "returned", "dropped"}]
  BY DEF DeliveryInv, RestOk
<1>1. IdOk(id', job) /\ id'.row = id.row /\ DlOk(dl', job)
  BY <1>0, UnwatchOk DEF Interrupted
<1>2. wait' \in [Waiters -> 0 .. MaxJob]
  BY WaitEndsType DEF Interrupted
<1> QED BY <1>0, <1>1, <1>2, WaitStepInv DEF Interrupted, ownerVars

LEMMA ReportsInv ==
  ASSUME DeliveryInv, NEW w \in Waiters, Reports(w) PROVE DeliveryInv'
<1> DEFINE i == Shown(wait[w])
<1>0. /\ IdOk(id, job) /\ DlOk(dl, job)
      /\ got \in [Jobs -> SUBSET {"injected", "recovered", "returned", "dropped"}]
  BY DEF DeliveryInv, RestOk
<1>1. wait' \in [Waiters -> 0 .. MaxJob]
  BY WaitEndsType DEF Reports
<1>2. CASE job[i].state = "running"
  <2>1. Unwatch(id, dl) /\ UNCHANGED got
    BY <1>2 DEF Reports
  <2>2. IdOk(id', job) /\ id'.row = id.row /\ DlOk(dl', job)
    BY <1>0, <2>1, UnwatchOk
  <2> QED BY <1>0, <1>1, <2>1, <2>2, WaitStepInv DEF Reports, ownerVars
<1>3. CASE job[i].state # "running"
  <2>1. /\ Unwatch(Snapshot(id, dl), Acknowledge(dl))
        /\ got' = IF Ended(i) /\ ~ id.consumed
                  THEN [got EXCEPT ![i] = @ \cup {"recovered"}] ELSE got
    BY <1>3 DEF Reports
  <2>2. IdOk(Snapshot(id, dl), job) /\ Snapshot(id, dl).row = id.row
        /\ DlOk(Acknowledge(dl), job)
    BY <1>0, SnapshotOk, AcknowledgeOk
  <2>3. IdOk(id', job) /\ id'.row = id.row /\ DlOk(dl', job)
    BY <2>1, <2>2, UnwatchOk
  <2>4. got' \in [Jobs -> SUBSET {"injected", "recovered", "returned", "dropped"}]
    BY <1>0, <2>1
  <2> QED BY <1>1, <2>3, <2>4, WaitStepInv DEF Reports, ownerVars
<1> QED BY <1>2, <1>3

LEMMA RecoverInv ==
  ASSUME DeliveryInv, Recover PROVE DeliveryInv'
<1>0. /\ IdOk(id, job) /\ DlOk(dl, job)
      /\ got \in [Jobs -> SUBSET {"injected", "recovered", "returned", "dropped"}]
  BY DEF DeliveryInv, RestOk
<1>1. IdOk(id', job) /\ id'.row = id.row /\ DlOk(dl', job)
  BY <1>0, SnapshotOk, AcknowledgeOk DEF Recover
<1>2. got' \in [Jobs -> SUBSET {"injected", "recovered", "returned", "dropped"}]
  BY <1>0 DEF Recover
<1> QED BY <1>1, <1>2, SameJobs DEF Recover, ownerVars

-----------------------------------------------------------------------------
(* Eviction, session transitions and teardown. *)

LEMMA TimerInv ==
  ASSUME DeliveryInv, TimerFires PROVE DeliveryInv'
<1>0. /\ IdOk(id, job) /\ DlOk(dl, job)
      /\ got \in [Jobs -> SUBSET {"injected", "recovered", "returned", "dropped"}]
      /\ id.row # 0 /\ Settled(job, id.row)
  BY DEF DeliveryInv, RestOk, TimerFires, IdOk
<1>1. CASE id' = Evict(id)
  <2>1. IdOk(id', job) /\ id'.row = 0
    BY <1>0, <1>1, EvictOk DEF IdOk
  <2> QED BY <1>0, <2>1, SameJobs DEF TimerFires, ownerVars
<1>2. ASSUME NEW s \in Slots, id' = [id EXCEPT !.timer = [at |-> "held", slot |-> s]]
      PROVE DeliveryInv'
  <2> DEFINE t == [at |-> "held", slot |-> s]
  <2>1. t \in Timers
    BY DeliveryAssumption DEF Timers, Slots
  <2>2. /\ id' \in Ids /\ id'.row = id.row /\ id'.suppressed = id.suppressed
        /\ id'.consumed = id.consumed
    BY <1>0, <1>2, <2>1 DEF IdOk, Ids
  <2>3. IdOk(id', job)
    BY <1>0, <2>2 DEF IdOk
  <2> QED BY <1>0, <2>2, <2>3, SameJobs DEF TimerFires, ownerVars
<1> QED BY <1>1, <1>2 DEF TimerFires

\* cancelAll of the owner's jobs.
LEMMA CancelAllOk ==
  ASSUME DeliveryInv
  PROVE /\ CancelAll \in [Jobs -> JobRecords]
        /\ IdOk(id, CancelAll) /\ DlOk(dl, CancelAll) /\ ActiveOk(id, CancelAll, mgr)
        /\ \A k \in Jobs : CancelAll[k].state # "running"
<1>1. CASE Running
  BY <1>1, CancelledKeeps, CancelledRow DEF Running, CancelAll
<1>2. CASE ~ Running
  <2>1. \A k \in Jobs : job[k].state # "running"
    <3>1. \A k \in Jobs : k # 0
      BY DEF Jobs
    <3> QED BY <1>2, <3>1 DEF Running, DeliveryInv, ActiveOk, Active
  <2> QED BY <1>2, <2>1 DEF CancelAll, DeliveryInv, RestOk
<1> QED BY <1>1, <1>2

\* evictCompletedJobs, after it.
LEMMA EvictCompletedOk ==
  ASSUME DeliveryInv
  PROVE IdOk(EvictedId, CancelAll) /\ DlOk(Purged, CancelAll)
        /\ ActiveOk(EvictedId, CancelAll, mgr)
<1>1. /\ IdOk(id, CancelAll) /\ DlOk(dl, CancelAll) /\ ActiveOk(id, CancelAll, mgr)
      /\ id \in Ids
  BY CancelAllOk DEF IdOk
<1>2. CASE Evicts
  <2>1. CancelAll = job /\ EvictedId = Evict(id) /\ Purged = Acknowledge(dl)
        /\ Settled(job, id.row)
    BY <1>2 DEF Evicts, Running, CancelAll, EvictedId, Purged, Settled
  <2>2. IdOk(Evict(id), job) /\ Evict(id).row = 0
    BY <1>1, EvictOk
  <2>3. ActiveOk(Evict(id), job, mgr)
    BY <1>1, <2>1, <2>2, ActiveKept
  <2>4. DlOk(Acknowledge(dl), job)
    BY <1>1, <2>1, AcknowledgeOk
  <2> QED BY <2>1, <2>2, <2>3, <2>4
<1>3. CASE ~ Evicts
  BY <1>1, <1>3 DEF EvictedId, Purged
<1> QED BY <1>2, <1>3

LEMMA TransitionInv ==
  ASSUME DeliveryInv, Transition PROVE DeliveryInv'
<1>1. /\ job' = CancelAll /\ id' = EvictedId /\ UNCHANGED <<owner, mgr, wait, got, fails>>
  BY DEF Transition
<1>2. /\ job' \in [Jobs -> JobRecords] /\ IdOk(id', job') /\ ActiveOk(id', job', mgr')
      /\ DlOk(Purged, job')
  BY <1>1, CancelAllOk, EvictCompletedOk
<1>3. DlOk(dl', job')
  <2>1. ASSUME NEW s \in Slots
        PROVE /\ dl'[s] \in Deliveries
              /\ dl'[s].phase # "free" => Purged[s].phase # "free" /\ dl'[s].job = Purged[s].job
    <3>1. dl'[s] = IF dl[s].phase = "parked" THEN [dl[s] EXCEPT !.phase = "rejected"]
                   ELSE Purged[s]
      BY DEF Transition
    <3>2. CASE dl[s].phase = "parked"
      <4>1. Purged[s] = dl[s]
        BY <3>2 DEF Purged, Acknowledge
      <4>2. dl[s] \in Deliveries
        BY DEF DeliveryInv, DlOk
      <4> QED BY <3>1, <3>2, <4>1, <4>2, RephaseType DEF Phases
    <3>3. CASE dl[s].phase # "parked"
      BY <1>2, <3>1, <3>3 DEF DlOk
    <3> QED BY <3>2, <3>3
  <2>2. dl' \in [Slots -> Deliveries]
    BY <2>1 DEF Transition
  <2> QED BY <1>2, <2>1, <2>2, PhaseOk
<1>4. RestOk'
  <2>1. gen' \in Gens /\ transcript' \in 1 .. gen'
    BY DeliveryAssumption DEF Transition, DeliveryInv, RestOk, Gens
  <2> QED BY <1>1, <1>2, <2>1 DEF DeliveryInv, RestOk
<1> QED BY <1>2, <1>3, <1>4 DEF DeliveryInv, IdOk, DlOk, ActiveOk, Active, Settled

LEMMA OwnerStepInv ==
  ASSUME DeliveryInv, OwnerStep PROVE DeliveryInv'
<1>0. IdOk(id, job) /\ DlOk(dl, job) /\ ActiveOk(id, job, mgr)
  BY DEF DeliveryInv
<1>1. CASE Transition
  BY <1>1, TransitionInv
<1>2. CASE BeginDispose
  <2>1. DlOk(dl', job)
    BY <1>0, <1>2, ReceiptsOk DEF BeginDispose, SlotsIn, Phases
  <2> QED BY <1>2, <2>1
          DEF BeginDispose, DeliveryInv, RestOk, IdOk, DlOk, ActiveOk, Active, Settled
<1>3. CASE OwnerGone
  <2>1. /\ job' \in [Jobs -> JobRecords] /\ IdOk(id', job') /\ ActiveOk(id', job', mgr')
        /\ DlOk(dl', job')
    BY <1>3, CancelAllOk, EvictCompletedOk DEF OwnerGone
  <2>2. RestOk'
    BY <1>3, <2>1 DEF OwnerGone, DeliveryInv, RestOk
  <2> QED BY <2>1, <2>2 DEF DeliveryInv, IdOk, DlOk, ActiveOk, Active, Settled
<1>4. CASE ReviveOwner
  <2>1. gen' \in Gens /\ transcript' \in 1 .. gen'
    BY <1>4, DeliveryAssumption DEF ReviveOwner, DeliveryInv, RestOk, Gens
  <2>2. RestOk'
    BY <1>4, <2>1 DEF ReviveOwner, DeliveryInv, RestOk
  <2> QED BY <1>4, <2>2
          DEF ReviveOwner, DeliveryInv, IdOk, DlOk, ActiveOk, Active, Settled
<1>5. CASE DisposeManager
  <2>1. /\ job' \in [Jobs -> JobRecords] /\ IdOk(id, job') /\ ActiveOk(id, job', mgr)
        /\ DlOk(dl, job') /\ \A k \in Jobs : job'[k].state # "running"
    BY <1>5, CancelAllOk DEF DisposeManager
  <2>2. /\ id' \in Ids /\ id'.row = id.row /\ id'.timer.at = "off"
        /\ id'.consumed = id.consumed /\ id'.suppressed = id.suppressed
    BY <1>0, <1>5, NoneTypes DEF DisposeManager, IdOk, Ids, NoTimer
  <2>3. IdOk(id', job')
    BY <2>1, <2>2 DEF IdOk
  <2>4. ActiveOk(id', job', mgr')
    BY <1>5, <2>1, <2>2 DEF ActiveOk, Active, DisposeManager
  <2>5. RestOk'
    BY <1>5, <2>1 DEF DisposeManager, DeliveryInv, RestOk
  <2> QED BY <1>5, <2>1, <2>3, <2>4, <2>5
          DEF DisposeManager, DeliveryInv, IdOk, DlOk, ActiveOk, Active, Settled
<1>6. CASE ManagerDown
  <2> DEFINE e == Evict(id)
  <2>1. IdOk(e, job) /\ e.row = 0
    BY <1>0, EvictOk DEF IdOk
  <2>2. id' = [e EXCEPT !.released = FALSE]
    BY <1>6 DEF ManagerDown
  <2> HIDE DEF e
  <2>3. IdOk(id', job)
    BY <2>1, <2>2 DEF IdOk, Ids
  <2>4. DlOk(dl', job)
    BY <1>0, <1>6, AcknowledgeOk DEF ManagerDown, Acknowledge
  <2>5. ActiveOk(id', job, mgr')
    BY <1>0, <1>6 DEF ManagerDown, ActiveOk, Active
  <2> QED BY <1>6, <2>3, <2>4, <2>5
          DEF ManagerDown, DeliveryInv, RestOk, IdOk, DlOk, ActiveOk, Active, Settled
<1> QED BY <1>1, <1>2, <1>3, <1>4, <1>5, <1>6 DEF OwnerStep

-----------------------------------------------------------------------------
(* The theorems. *)

LEMMA NextInv == DeliveryInv /\ [Next]_vars => DeliveryInv'
<1> SUFFICES ASSUME DeliveryInv, [Next]_vars PROVE DeliveryInv'
  OBVIOUS
<1>1. CASE UNCHANGED vars
  BY <1>1 DEF vars, DeliveryInv, RestOk, IdOk, DlOk, ActiveOk, Active, Settled
<1>2. CASE (\E s \in Slots : Settle(s)) \/ DeliveryStep
  BY <1>2, DeliveryStepInv DEF DeliveryStep
<1>3. CASE JobStep
  BY <1>3, RegisterInv, PublishInv, RunEndsInv, CancelInv DEF JobStep
<1>4. CASE CallStep
  BY <1>4, ReturnsInv, AbortsInv, PromoteInv, RecoverInv, BlockInv, InterruptedInv, ReportsInv
     DEF CallStep
<1>5. CASE TimerFires
  BY <1>5, TimerInv
<1>6. CASE OwnerStep
  BY <1>6, OwnerStepInv
<1> QED BY <1>1, <1>2, <1>3, <1>4, <1>5, <1>6 DEF Next

LEMMA DeliveryInvariant == Spec => []DeliveryInv
BY InitInv, NextInv, PTL DEF Spec

\* Every variable keeps its type: the id's record, jobs, deliveries and waits are
\* what the manager and the sessions can hold, and the owner's epoch never falls
\* behind the number of its transcript.
THEOREM DeliveryTypeCorrect == Spec => []TypeOK
<1>1. DeliveryInv => TypeOK
  BY DEF DeliveryInv, RestOk, IdOk, DlOk, TypeOK
<1> QED BY <1>1, DeliveryInvariant, PTL

\* The result of a foreground call is never on its way to the session unless the
\* call gave up waiting: registerForeground suppresses the id, nothing clears the
\* marker while the call has the row, and a job that has not ended keeps its row,
\* so the run's end meets the marker of its own job.
THEOREM ForegroundNeverDelivered == Spec => []ForegroundUndelivered
<1>1. DeliveryInv => ForegroundUndelivered
  BY DEF DeliveryInv, DlOk, ForegroundUndelivered
<1> QED BY <1>1, DeliveryInvariant, PTL

-----------------------------------------------------------------------------
(* Where results are. *)

\* The id has one delivery at a time, of the job that holds the row, and none
\* before that job is done.
RowDeliveries == \A s \in Slots : dl[s].phase # "free" =>
  job[dl[s].job].state = "done" /\ (id.row = 0 \/ dl[s].job = id.row)
OneDelivery == \A s, t \in Slots : dl[s].phase # "free" /\ dl[t].phase # "free" => s = t

\* Only a background job's row is watched, and nothing is on its way while it
\* is; what suppresses the row of a running job is its foreground call, and a
\* released row belongs to such a job.
Watching    == id.watched => id.row # 0 /\ ~ job[id.row].foreground /\ Undelivered(dl, {})
Suppressing == id.row # 0 /\ id.suppressed => job[id.row].state # "running" \/ job[id.row].foreground
Releasing   == id.released => id.row # 0 /\ job[id.row].foreground /\ ~ Ended(id.row)

\* The row outlives the waits for its job; a timer is held for a suppressed row
\* that nobody waits for any more.
WaitRow == \A w \in Waiters : wait[w] # 0 =>
  /\ job[wait[w]].state # "none" /\ ~ job[wait[w]].foreground
  /\ id.row = wait[w] \/ mgr = "down"
MgrGone == (mgr # "up" => owner = "gone") /\ (mgr = "down" => id.row = 0)
HeldOk  == id.timer.at = "held" =>
  id.suppressed /\ ~ job[id.row].foreground /\ \A w \in Waiters : wait[w] = 0

RowInv ==
  /\ RowDeliveries /\ OneDelivery /\ Watching /\ Suppressing /\ Releasing
  /\ WaitRow /\ MgrGone /\ HeldOk

\* A sink that is formatting a result of the row serves the owner's current
\* epoch, and a result that was committed has been received.
SinkCurrent  == \A s \in Slots : dl[s].phase = "sink" /\ id.row # 0 /\ owner # "disposing" =>
  owner = "open" /\ dl[s].gen = gen
CommittedGot == \A s \in Slots : dl[s].phase = "committed" => got[dl[s].job] # {}

\* Unless the owner is going, a settled background result that is suppressed or
\* consumed has been received, and one that is neither nor watched is on its way.
Settles       == owner # "disposing" /\ Evicts
SuppressedGot == Settles /\ id.suppressed /\ ~ job[id.row].foreground => got[id.row] # {}
ConsumedGot   == Settles /\ id.consumed => got[id.row] # {}
OnItsWay      == Settles /\ ~ Suppressed(id) /\ got[id.row] = {} => \E s \in Slots : dl[s].job = id.row

GotInv == SinkCurrent /\ CommittedGot /\ SuppressedGot /\ ConsumedGot /\ OnItsWay

\* A recovered result belongs to an ended background job whose row, as long as it
\* is there, is suppressed; it is not queued, and the sink or the flush will turn
\* it away.
RecoveredEnded == \A i \in Jobs : "recovered" \in got[i] =>
  Ended(i) /\ ~ job[i].foreground /\ (id.row = i => id.suppressed)
QueuedFresh == \A s \in Slots : dl[s].phase = "queued" => "recovered" \notin got[dl[s].job]
SinkFresh   == \A s \in Slots :
  dl[s].phase \in {"sink", "parked"} /\ "recovered" \in got[dl[s].job] =>
    (id.row # 0 /\ id.suppressed) \/ dl[s].gen # gen \/ owner # "open"
GenBound    == \A s \in Slots : dl[s].gen <= gen

FreshInv == RecoveredEnded /\ QueuedFresh /\ SinkFresh /\ GenBound

\* The row of a job that is running or done was started for the current
\* transcript, and so was what the current epoch's sink holds.
RowTranscript  == id.row # 0 /\ job[id.row].state \in {"running", "done"} =>
  job[id.row].transcript = transcript
QueuedRow      == \A s \in Slots : dl[s].phase = "queued" => id.row # 0
SinkTranscript == \A s \in Slots :
  dl[s].phase \in {"sink", "parked"} /\ dl[s].gen = gen /\ owner = "open" =>
    job[dl[s].job].transcript = transcript

TranscriptInv == RowTranscript /\ QueuedRow /\ SinkTranscript

HandoverInv == DeliveryInv /\ RowInv /\ GotInv /\ FreshInv

-----------------------------------------------------------------------------
(* What the manager's operations make of the fields of the id's record. *)

\* The record e keeps the row and the markers of d; it may be consumed once the
\* job has ended, and its timer may be armed anew.
Keeps(d, e) ==
  /\ e.row = d.row /\ e.suppressed = d.suppressed /\ e.watched = d.watched
  /\ e.released = d.released
  /\ e.timer = d.timer \/ e.timer.at = "armed"
  /\ e.consumed => d.consumed \/ (d.row # 0 /\ Ended(d.row))

\* The row is gone, and the markers with it.
Emptied(d, e) ==
  /\ e.row = 0 /\ ~ e.suppressed /\ ~ e.watched /\ ~ e.consumed /\ e.released = d.released
  /\ e.timer.at = "off"

LEMMA EvictFields ==
  ASSUME NEW d \in Ids PROVE Emptied(d, Evict(d))
BY DEF Evict, Ids, NoTimer, Emptied

LEMMA ScheduleFields ==
  ASSUME NEW d \in Ids
  PROVE Keeps(d, Schedule(d)) /\ Schedule(d).consumed = d.consumed
BY DEF Schedule, Ids, Keeps

LEMMA ConsumeFields ==
  ASSUME NEW d \in Ids, NEW p PROVE Keeps(d, Consume(d, p))
<1> DEFINE c == [d EXCEPT !.consumed = TRUE]
<1>1. /\ c \in Ids /\ c.row = d.row /\ c.suppressed = d.suppressed /\ c.watched = d.watched
      /\ c.released = d.released /\ c.timer = d.timer /\ c.consumed
  BY DEF Ids
<1>2. Keeps(c, Schedule(c))
  BY <1>1, ScheduleFields
<1>3. Consume(d, p) \in {d, c, Schedule(c)} /\ (Consume(d, p) # d => d.row # 0 /\ Ended(d.row))
  BY DEF Consume
<1> HIDE DEF c
<1> QED BY <1>1, <1>2, <1>3 DEF Keeps

LEMMA ReleaseTimerFields ==
  ASSUME NEW d \in Ids, NEW s
  PROVE \/ ReleaseTimer(d, s) = d
        \/ d.timer.at = "held" /\ Emptied(d, ReleaseTimer(d, s))
<1>1. CASE d.timer = [at |-> "held", slot |-> s]
  BY <1>1, EvictFields DEF ReleaseTimer
<1>2. CASE d.timer # [at |-> "held", slot |-> s]
  BY <1>2 DEF ReleaseTimer
<1> QED BY <1>1, <1>2

LEMMA DeliveredFields ==
  ASSUME NEW d \in Ids, IdOk(d, job), NEW f, NEW s
  PROVE \/ Keeps(d, Delivered(d, f, s))
        \/ d.timer.at = "held" /\ Emptied(d, Delivered(d, f, s))
<1> DEFINE c == IF d.consumed /\ d.row # 0 THEN Schedule(d)
                ELSE Consume(d, ~ Undelivered(f, {s}))
<1>1. c \in Ids
  <2>1. CASE d.consumed /\ d.row # 0
    BY <2>1, ScheduleOk DEF IdOk
  <2>2. CASE ~ (d.consumed /\ d.row # 0)
    BY <2>2, ConsumeOk DEF IdOk
  <2> QED BY <2>1, <2>2
<1>2. Keeps(d, c)
  BY ScheduleFields, ConsumeFields
<1>3. Delivered(d, f, s) = ReleaseTimer(c, s)
  BY DEF Delivered
<1> HIDE DEF c
<1>4. \/ Delivered(d, f, s) = c
      \/ c.timer.at = "held" /\ Emptied(c, Delivered(d, f, s))
  BY <1>1, <1>3, ReleaseTimerFields
<1> QED BY <1>2, <1>4 DEF Keeps, Emptied

LEMMA SnapshotFields ==
  ASSUME NEW d \in Ids, NEW f
  PROVE Keeps([d EXCEPT !.suppressed = TRUE], Snapshot(d, f))
<1>1. [d EXCEPT !.suppressed = TRUE] \in Ids
  BY DEF Ids
<1> QED BY <1>1, ConsumeFields DEF Snapshot

-----------------------------------------------------------------------------
LEMMA Facts ==
  ASSUME DeliveryInv
  PROVE /\ id \in Ids /\ IdOk(id, job) /\ (id.row # 0 => id.row \in Jobs)
        /\ id.suppressed \in BOOLEAN /\ id.watched \in BOOLEAN /\ id.consumed \in BOOLEAN
        /\ id.released \in BOOLEAN
        /\ \A s \in Slots : dl[s] \in Deliveries /\ dl[s].gen \in Nat
        /\ \A s \in Slots : dl[s].phase # "free" =>
             dl[s].job \in Jobs /\ ~ job[dl[s].job].foreground
        /\ gen \in Nat /\ 0 \notin Jobs
        /\ \A w \in Waiters : wait[w] # 0 => wait[w] \in Jobs
BY DeliveryAssumption
   DEF DeliveryInv, IdOk, DlOk, RestOk, Ids, Deliveries, Jobs, Gens


\* What a step has to show.
Goes == (RowInv /\ GotInv /\ FreshInv)' /\ (~ SlowRetries /\ TranscriptInv => TranscriptInv')

\* An attempt has settled: its delivery is gone, and the row, if it is still
\* there, is one whose result was received.
LEMMA SettledStep ==
  ASSUME HandoverInv, NEW s \in Slots, dl[s].phase # "free",
         dl' = [dl EXCEPT ![s] = NoDelivery],
         Keeps(id, id') \/ (id.timer.at = "held" /\ Emptied(id, id')),
         UNCHANGED <<job, owner, gen, transcript, mgr, wait, got>>,
         Settles => got[id.row] # {}
  PROVE Goes
<1> USE DEF HandoverInv
<1>0. /\ \A t \in Slots : t # s => dl'[t] = dl[t] /\ dl[t].phase = "free"
      /\ dl'[s] = NoDelivery /\ dl'[s].phase = "free"
  BY DEF RowInv, OneDelivery, DeliveryInv, DlOk, NoDelivery
<1>1. RowInv'
  <2>1. \A t \in Slots : dl'[t].phase = "free"
    BY <1>0
  <2> QED BY <2>1, <1>0, Facts
     DEF RowInv, RowDeliveries, OneDelivery, Watching, Suppressing, Releasing, WaitRow, MgrGone,
         HeldOk, Keeps, Emptied, Undelivered, Ended
<1>2. GotInv'
  BY <1>0, Facts
     DEF GotInv, SinkCurrent, CommittedGot, SuppressedGot, ConsumedGot, OnItsWay, Settles, Evicts,
         Suppressed, Keeps, Emptied
<1>3. FreshInv'
  BY <1>0, Facts
     DEF FreshInv, RecoveredEnded, QueuedFresh, SinkFresh, GenBound, Keeps, Emptied, Ended, NoDelivery
<1>4. ASSUME TranscriptInv PROVE TranscriptInv'
  BY <1>0, <1>4, Facts
     DEF TranscriptInv, RowTranscript, QueuedRow, SinkTranscript, Keeps, Emptied, NoDelivery
<1> QED BY <1>1, <1>2, <1>3, <1>4 DEF Goes

\* Deliveries go on, and results may be received on the way.
LEMMA PhaseStep ==
  ASSUME HandoverInv, UNCHANGED <<id, job, owner, gen, transcript, mgr, wait>>,
         \A i \in Jobs : /\ got[i] \subseteq got'[i]
                         /\ "recovered" \in got'[i] => "recovered" \in got[i],
         \A t \in Slots :
           /\ dl'[t].job = dl[t].job /\ dl'[t].gen = dl[t].gen
           /\ dl'[t].phase = "free" <=> dl[t].phase = "free"
           /\ dl'[t].phase # dl[t].phase => dl'[t].phase \in {"parked", "message", "committed", "rejected"}
           /\ dl'[t].phase = "parked" => dl[t].phase \in {"sink", "parked"}
           /\ dl'[t].phase = "committed" => got'[dl[t].job] # {}
  PROVE Goes
<1> USE DEF HandoverInv
<1>1. RowInv'
  BY Facts
     DEF RowInv, RowDeliveries, OneDelivery, Watching, Suppressing, Releasing, WaitRow, MgrGone,
         HeldOk, Undelivered, Ended
<1>2. GotInv'
  BY Facts
     DEF GotInv, SinkCurrent, CommittedGot, SuppressedGot, ConsumedGot, OnItsWay, Settles, Evicts,
         Suppressed
<1>3. FreshInv'
  BY Facts
     DEF FreshInv, RecoveredEnded, QueuedFresh, SinkFresh, GenBound, Ended
<1>4. ASSUME TranscriptInv PROVE TranscriptInv'
  BY <1>4, Facts DEF TranscriptInv, RowTranscript, QueuedRow, SinkTranscript
<1> QED BY <1>1, <1>2, <1>3, <1>4 DEF Goes

\* A suppressed result that is under way has been received.
LEMMA SuppressedReceived ==
  ASSUME HandoverInv, NEW s \in Slots, dl[s].phase # "free", Suppressed(id), Settles
  PROVE got[id.row] # {}
<1>1. id.row = dl[s].job /\ ~ job[id.row].foreground /\ ~ id.watched
  BY Facts DEF HandoverInv, Settles, Evicts, RowInv, RowDeliveries, Watching, Undelivered
<1> QED BY <1>1, Facts DEF HandoverInv, GotInv, SuppressedGot, Suppressed

LEMMA RephaseFields ==
  ASSUME DeliveryInv, NEW s \in Slots, NEW ph
  PROVE LET v == [dl[s] EXCEPT !.phase = ph] IN v.phase = ph /\ v.job = dl[s].job /\ v.gen = dl[s].gen
BY Facts DEF Deliveries

LEMMA SettleGoes ==
  ASSUME HandoverInv, NEW s \in Slots, Settle(s) PROVE Goes
<1> USE DEF HandoverInv, ownerVars
<1>1. CASE dl[s].phase = "committed" /\ id' = Delivered(id, dl, s)
           /\ dl' = [dl EXCEPT ![s] = NoDelivery]
  <2>1. Settles => got[id.row] # {}
    BY <1>1 DEF GotInv, CommittedGot, RowInv, RowDeliveries, Settles, Evicts
  <2>2. Keeps(id, id') \/ (id.timer.at = "held" /\ Emptied(id, id'))
    BY <1>1, DeliveredFields, Facts
  <2> QED BY <1>1, <2>1, <2>2, SettledStep DEF Settle
<1>2. CASE dl[s].phase = "rejected" /\ id' = ReleaseTimer(id, s) /\ dl' = Requeued(id, dl, s)
  <2>0. \/ id' = id
        \/ id.timer.at = "held" /\ Emptied(id, id')
    BY <1>2, ReleaseTimerFields, Facts
  <2>1. CASE Suppressed(id) \/ id.row = 0
    <3>1. dl' = [dl EXCEPT ![s] = NoDelivery]
      BY <1>2, <2>1 DEF Requeued
    <3>2. Settles => got[id.row] # {}
      BY <1>2, <2>1, SuppressedReceived DEF Settles, Evicts
    <3>3. Keeps(id, id') \/ (id.timer.at = "held" /\ Emptied(id, id'))
      BY <2>0 DEF Keeps
    <3> QED BY <1>1, <1>2, <3>1, <3>2, <3>3, SettledStep DEF Settle
  <2>2. CASE ~ Suppressed(id) /\ id.row # 0
    <3> DEFINE v == [dl[s] EXCEPT !.phase = "queued"]
    <3>1. id' = id
      BY <2>0, <2>2 DEF Suppressed, RowInv, HeldOk
    <3>2. dl' = [dl EXCEPT ![s] = v]
      BY <1>2, <2>2 DEF Requeued
    <3>3. v.phase = "queued" /\ v.job = dl[s].job /\ v.gen = dl[s].gen
      BY RephaseFields
    <3> HIDE DEF v
    <3>4. /\ dl'[s].phase = "queued" /\ dl'[s].job = dl[s].job /\ dl'[s].gen = dl[s].gen
          /\ \A t \in Slots : t # s => dl'[t] = dl[t]
      BY <3>2, <3>3 DEF DeliveryInv, DlOk
    <3>5. UNCHANGED <<id, job, owner, gen, transcript, mgr, wait, got>>
      BY <3>1 DEF Settle
    <3>6. RowInv'
      BY <1>2, <3>4, <3>5, Facts
         DEF RowInv, RowDeliveries, OneDelivery, Watching, Suppressing, Releasing, WaitRow, MgrGone,
             HeldOk, Undelivered, Ended
    <3>7. GotInv'
      BY <1>2, <3>4, <3>5, Facts
         DEF GotInv, SinkCurrent, CommittedGot, SuppressedGot, ConsumedGot, OnItsWay, Settles, Evicts,
             Suppressed
    <3>8. FreshInv'
      <4>1. dl[s].job = id.row /\ id.row \in Jobs
        BY <1>2, <2>2, Facts DEF RowInv, RowDeliveries
      <4> QED BY <1>2, <2>2, <3>4, <3>5, <4>1, Facts
         DEF FreshInv, RecoveredEnded, QueuedFresh, SinkFresh, GenBound, Ended, Suppressed
    <3>9. ASSUME TranscriptInv PROVE TranscriptInv'
      BY <1>2, <2>2, <3>4, <3>5, <3>9, Facts DEF TranscriptInv, RowTranscript, QueuedRow, SinkTranscript
    <3> QED BY <3>6, <3>7, <3>8, <3>9 DEF Goes
  <2> QED BY <2>1, <2>2
<1> QED BY <1>1, <1>2 DEF Settle

LEMMA DropGoes ==
  ASSUME HandoverInv, NEW s \in Slots, DropSuppressed(s) PROVE Goes
<1>1. Settles => got[id.row] # {}
  BY SuppressedReceived DEF DropSuppressed
<1>2. Keeps(id, id')
  BY DEF DropSuppressed, Keeps
<1> QED BY <1>1, <1>2, SettledStep DEF DropSuppressed, ownerVars

LEMMA AttemptGoes ==
  ASSUME HandoverInv, NEW s \in Slots, Attempt(s) PROVE Goes
<1> USE DEF HandoverInv, ownerVars
<1>0. dl[s].phase = "queued" /\ ~ Suppressed(id) /\ UNCHANGED <<job, ownerVars, wait, fails>>
  BY DEF Attempt
<1>1. CASE owner = "gone" /\ dl' = [dl EXCEPT ![s] = NoDelivery]
           /\ got' = [got EXCEPT ![dl[s].job] = @ \cup {"dropped"}] /\ UNCHANGED id
  <2>1. /\ \A t \in Slots : t # s => dl'[t] = dl[t] /\ dl[t].phase = "free"
        /\ dl'[s] = NoDelivery /\ dl'[s].phase = "free"
    BY <1>0, <1>1 DEF RowInv, OneDelivery, DeliveryInv, DlOk, NoDelivery
  <2>2. /\ \A i \in Jobs : "recovered" \in got'[i] => "recovered" \in got[i]
        /\ got'[dl[s].job] # {} /\ \A i \in Jobs : got[i] \subseteq got'[i]
    BY <1>0, <1>1, Facts DEF DeliveryInv, RestOk
  <2>3. RowInv'
    <3>1. \A t \in Slots : dl'[t].phase = "free"
      BY <2>1
    <3> QED BY <1>0, <1>1, <3>1, Facts
       DEF RowInv, RowDeliveries, OneDelivery, Watching, Suppressing, Releasing, WaitRow, MgrGone,
           HeldOk, Undelivered, Ended
  <2>4. GotInv'
    <3>1. id.row # 0 => dl[s].job = id.row
      BY <1>0 DEF RowInv, RowDeliveries
    <3> QED BY <1>0, <1>1, <2>1, <2>2, <3>1, Facts
       DEF GotInv, SinkCurrent, CommittedGot, SuppressedGot, ConsumedGot, OnItsWay, Settles, Evicts,
           Suppressed
  <2>5. FreshInv'
    BY <1>0, <1>1, <2>1, <2>2, Facts
       DEF FreshInv, RecoveredEnded, QueuedFresh, SinkFresh, GenBound, Ended, NoDelivery
  <2>6. ASSUME TranscriptInv PROVE TranscriptInv'
    BY <1>0, <1>1, <2>1, <2>6, Facts
       DEF TranscriptInv, RowTranscript, QueuedRow, SinkTranscript, NoDelivery
  <2> QED BY <2>3, <2>4, <2>5, <2>6 DEF Goes
<1>2. CASE owner = "disposing" /\ id' = Delivered(id, dl, s)
           /\ dl' = [dl EXCEPT ![s] = NoDelivery] /\ UNCHANGED got
  <2>1. Keeps(id, id') \/ (id.timer.at = "held" /\ Emptied(id, id'))
    BY <1>2, DeliveredFields, Facts
  <2>2. ~ Settles
    BY <1>2 DEF Settles
  <2> QED BY <1>0, <1>2, <2>1, <2>2, SettledStep
<1>3. CASE owner = "open" /\ dl' = [dl EXCEPT ![s].phase = "sink", ![s].gen = gen]
           /\ UNCHANGED <<id, got>>
  <2> DEFINE v == [dl[s] EXCEPT !.phase = "sink", !.gen = gen]
  <2>1. dl' = [dl EXCEPT ![s] = v]
    BY <1>3
  <2>2. v.phase = "sink" /\ v.job = dl[s].job /\ v.gen = gen
    BY Facts DEF Deliveries
  <2> HIDE DEF v
  <2>3. /\ dl'[s].phase = "sink" /\ dl'[s].job = dl[s].job /\ dl'[s].gen = gen
        /\ \A t \in Slots : t # s => dl'[t] = dl[t]
        /\ owner = "open" /\ UNCHANGED <<id, got>>
    BY <1>3, <2>1, <2>2 DEF DeliveryInv, DlOk
  <2>4. RowInv'
    BY <1>0, <2>3, Facts
       DEF RowInv, RowDeliveries, OneDelivery, Watching, Suppressing, Releasing, WaitRow, MgrGone,
           HeldOk, Undelivered, Ended
  <2>5. GotInv'
    BY <1>0, <2>3, Facts
       DEF GotInv, SinkCurrent, CommittedGot, SuppressedGot, ConsumedGot, OnItsWay, Settles, Evicts,
           Suppressed
  <2>6. FreshInv'
    BY <1>0, <2>3, Facts
       DEF FreshInv, RecoveredEnded, QueuedFresh, SinkFresh, GenBound, Ended
  <2>7. ASSUME TranscriptInv PROVE TranscriptInv'
    BY <1>0, <2>3, <2>7, Facts
       DEF TranscriptInv, RowTranscript, QueuedRow, SinkTranscript, RowInv, RowDeliveries
  <2> QED BY <2>4, <2>5, <2>6, <2>7 DEF Goes
<1> QED BY <1>1, <1>2, <1>3 DEF Attempt

LEMMA FormattedGoes ==
  ASSUME HandoverInv, NEW s \in Slots, Formatted(s) PROVE Goes
<1> USE DEF HandoverInv, ownerVars
<1>0. dl[s].phase = "sink" /\ UNCHANGED <<job, ownerVars, wait, got, fails>>
  BY DEF Formatted
<1>1. CASE TurnedAway(s)
  <2>1. id' = Delivered(id, dl, s) /\ dl' = [dl EXCEPT ![s] = NoDelivery]
    BY <1>1 DEF Formatted
  <2>2. Keeps(id, id') \/ (id.timer.at = "held" /\ Emptied(id, id'))
    BY <2>1, DeliveredFields, Facts
  <2>3. ASSUME Settles PROVE got[id.row] # {}
    <3>1. owner = "open" /\ dl[s].gen = gen
      BY <1>0, <2>3 DEF GotInv, SinkCurrent, Settles, Evicts
    <3> QED BY <1>0, <1>1, <2>3, <3>1, SuppressedReceived DEF TurnedAway
  <2> QED BY <1>0, <2>1, <2>2, <2>3, SettledStep
<1>2. CASE ~ TurnedAway(s)
  <2> DEFINE v == [dl[s] EXCEPT !.phase = "parked"]
  <2>1. dl' = [dl EXCEPT ![s] = v] /\ UNCHANGED id
    BY <1>2 DEF Formatted
  <2>2. v.phase = "parked" /\ v.job = dl[s].job /\ v.gen = dl[s].gen
    BY RephaseFields
  <2> HIDE DEF v
  <2>3. /\ dl'[s].phase = "parked" /\ dl'[s].job = dl[s].job /\ dl'[s].gen = dl[s].gen
        /\ \A t \in Slots : t # s => dl'[t] = dl[t]
    BY <2>1, <2>2 DEF DeliveryInv, DlOk
  <2>4. \A t \in Slots :
           /\ dl'[t].job = dl[t].job /\ dl'[t].gen = dl[t].gen
           /\ dl'[t].phase = "free" <=> dl[t].phase = "free"
           /\ dl'[t].phase # dl[t].phase => dl'[t].phase \in {"parked", "message", "committed", "rejected"}
           /\ dl'[t].phase = "parked" => dl[t].phase \in {"sink", "parked"}
           /\ dl'[t].phase = "committed" => got'[dl[t].job] # {}
    BY <1>0, <2>3 DEF GotInv, CommittedGot
  <2> QED BY <1>0, <2>1, <2>4, PhaseStep
<1> QED BY <1>1, <1>2

LEMMA ReceiptsFields ==
  ASSUME DeliveryInv, NEW S \in SUBSET Slots, NEW ph, NEW t \in Slots
  PROVE /\ Receipts(S, ph)[t].job = dl[t].job /\ Receipts(S, ph)[t].gen = dl[t].gen
        /\ Receipts(S, ph)[t].phase = IF t \in S THEN ph ELSE dl[t].phase
BY RephaseFields DEF Receipts

LEMMA FlushGoes ==
  ASSUME HandoverInv, Flush PROVE Goes
<1> USE DEF HandoverInv, ownerVars
<1>1. ASSUME NEW t \in Slots
      PROVE /\ dl'[t].job = dl[t].job /\ dl'[t].gen = dl[t].gen
            /\ dl[t].phase # "parked" => dl'[t].phase = dl[t].phase
            /\ dl[t].phase = "parked" => dl'[t].phase \in {"message", "rejected"}
  <2>1. CASE t \notin SlotsIn("parked")
    BY <2>1 DEF Flush, SlotsIn
  <2>2. CASE t \in SlotsIn("parked")
    <3>1. dl[t].phase = "parked" /\ \E ph \in {"message", "rejected"} : dl'[t] = [dl[t] EXCEPT !.phase = ph]
      BY <2>2 DEF Flush, SlotsIn
    <3> QED BY <3>1, RephaseFields
  <2> QED BY <2>1, <2>2
<1>2. \A t \in Slots :
           /\ dl'[t].job = dl[t].job /\ dl'[t].gen = dl[t].gen
           /\ dl'[t].phase = "free" <=> dl[t].phase = "free"
           /\ dl'[t].phase # dl[t].phase => dl'[t].phase \in {"parked", "message", "committed", "rejected"}
           /\ dl'[t].phase = "parked" => dl[t].phase \in {"sink", "parked"}
           /\ dl'[t].phase = "committed" => got'[dl[t].job] # {}
  BY <1>1 DEF Flush, GotInv, CommittedGot
<1> QED BY <1>2, PhaseStep DEF Flush

LEMMA CommitGoes ==
  ASSUME HandoverInv, Commit PROVE Goes
<1> USE DEF HandoverInv, ownerVars
<1>1. \A i \in Jobs : got[i] \subseteq got'[i] /\ ("recovered" \in got'[i] => "recovered" \in got[i])
  BY DEF Commit
<1>2. ASSUME NEW t \in Slots
      PROVE /\ dl'[t].job = dl[t].job /\ dl'[t].gen = dl[t].gen
            /\ dl'[t].phase = "free" <=> dl[t].phase = "free"
            /\ dl'[t].phase # dl[t].phase => dl'[t].phase \in {"parked", "message", "committed", "rejected"}
            /\ dl'[t].phase = "parked" => dl[t].phase \in {"sink", "parked"}
            /\ dl'[t].phase = "committed" => got'[dl[t].job] # {}
  <2>1. /\ dl'[t].job = dl[t].job /\ dl'[t].gen = dl[t].gen
        /\ dl'[t].phase = IF t \in SlotsIn("message") THEN "committed" ELSE dl[t].phase
    BY ReceiptsFields DEF Commit, SlotsIn
  <2>2. CASE t \in SlotsIn("message")
    <3>1. dl[t].phase = "message" /\ dl[t].job \in Jobs
      BY <2>2, Facts DEF SlotsIn
    <3>2. got'[dl[t].job] # {}
      BY <2>2, <3>1 DEF Commit
    <3> QED BY <2>1, <2>2, <3>1, <3>2
  <2>3. CASE t \notin SlotsIn("message")
    <3>1. dl[t].phase = "committed" => dl[t].job \in Jobs /\ got[dl[t].job] # {}
      BY Facts DEF GotInv, CommittedGot
    <3> QED BY <1>1, <2>1, <2>3, <3>1
  <2> QED BY <2>2, <2>3
<1> QED BY <1>1, <1>2, PhaseStep DEF Commit

LEMMA DiscardGoes ==
  ASSUME HandoverInv, DiscardMessage PROVE Goes
<1> USE DEF HandoverInv, ownerVars
<1>1. \A t \in Slots :
        /\ dl'[t].job = dl[t].job /\ dl'[t].gen = dl[t].gen
        /\ dl'[t].phase = IF t \in SlotsIn("message") THEN "rejected" ELSE dl[t].phase
  BY ReceiptsFields DEF DiscardMessage, SlotsIn
<1>2. \A t \in Slots :
           /\ dl'[t].job = dl[t].job /\ dl'[t].gen = dl[t].gen
           /\ dl'[t].phase = "free" <=> dl[t].phase = "free"
           /\ dl'[t].phase # dl[t].phase => dl'[t].phase \in {"parked", "message", "committed", "rejected"}
           /\ dl'[t].phase = "parked" => dl[t].phase \in {"sink", "parked"}
           /\ dl'[t].phase = "committed" => got'[dl[t].job] # {}
  BY <1>1 DEF DiscardMessage, SlotsIn, GotInv, CommittedGot
<1> QED BY <1>2, PhaseStep DEF DiscardMessage

-----------------------------------------------------------------------------
(* Jobs and calls. *)

LEMMA ClaimFields ==
  ASSUME NEW d \in Ids, NEW i
  PROVE /\ Claim(d, i).row = i /\ ~ Claim(d, i).suppressed /\ ~ Claim(d, i).consumed
        /\ ~ Claim(d, i).released
        /\ Claim(d, i).watched = d.watched /\ Claim(d, i).timer = d.timer
BY DEF Claim, Ids

LEMMA DiscardFields ==
  ASSUME NEW d \in Ids
  PROVE /\ Discard(d).row = 0 /\ ~ Discard(d).suppressed /\ ~ Discard(d).watched
        /\ ~ Discard(d).consumed /\ ~ Discard(d).released /\ Discard(d).timer.at = "off"
BY DEF Discard, Evict, NoTimer, Ids

LEMMA EnqueueFields ==
  ASSUME NEW f \in [Slots -> Deliveries], NEW d, ~ Suppressed(d), FreeSlots(f) # {}, NEW i
  PROVE \E t \in Slots :
          /\ f[t].phase = "free"
          /\ Enqueue(d, f, i)[t] = [job |-> i, phase |-> "queued", gen |-> 0]
          /\ \A u \in Slots : u # t => Enqueue(d, f, i)[u] = f[u]
<1> DEFINE t == AnyOf(FreeSlots(f))
<1>1. t \in Slots /\ f[t].phase = "free"
  BY DEF AnyOf, FreeSlots
<1>2. Enqueue(d, f, i) = [f EXCEPT ![t] = [job |-> i, phase |-> "queued", gen |-> 0]]
  BY DEF Enqueue
<1> HIDE DEF t
<1> QED BY <1>1, <1>2

LEMMA AcknowledgeFields ==
  ASSUME NEW f, NEW t \in Slots
  PROVE Acknowledge(f)[t] = IF f[t].phase = "queued" THEN NoDelivery ELSE f[t]
BY DEF Acknowledge

\* There is nothing on its way while the row's job has not finished its work, or
\* has a call that waits for it.
LEMMA NothingYet ==
  ASSUME HandoverInv, id.row # 0, job[id.row].state # "done" \/ job[id.row].foreground
  PROVE \A t \in Slots : dl[t].phase = "free"
BY Facts DEF HandoverInv, RowInv, RowDeliveries

\* A new job takes the id.
LEMMA NewJobGoes ==
  ASSUME HandoverInv, ~ Overlap, IdIsFree, NEW st \in {"running", "done"}, NEW fg \in BOOLEAN,
         job' = [job EXCEPT ![NextJob] = [state |-> st, foreground |-> fg, transcript |-> transcript]],
         id'.row = NextJob, id'.suppressed = fg, ~ id'.consumed, ~ id'.released,
         id'.watched = id.watched, id'.timer.at # "held",
         IF st = "done"
         THEN \E t \in Slots : /\ dl'[t] = [job |-> NextJob, phase |-> "queued", gen |-> 0]
                               /\ \A u \in Slots : u # t => dl'[u] = dl[u]
         ELSE dl' = dl,
         UNCHANGED <<ownerVars, wait, got>>,
         st = "done" => ~ fg
  PROVE Goes
<1> USE DEF HandoverInv, ownerVars
<1>1. NextJob \in Jobs /\ job[NextJob].state = "none"
  BY DEF IdIsFree, NextJob, AnyOf, Unused
<1>2. /\ mgr = "up" /\ id.row = 0 /\ \A t \in Slots : dl[t].phase = "free"
      /\ ~ id.watched /\ NextJob # 0
  BY <1>1, Facts DEF IdIsFree, Undelivered, RowInv, Watching
<1> DEFINE n == NextJob
<1>3. /\ job'[n].state = st /\ job'[n].foreground = fg /\ job'[n].transcript = transcript
      /\ \A k \in Jobs : k # n => job'[k] = job[k]
  BY <1>1 DEF DeliveryInv, RestOk
<1>4. /\ \A t \in Slots : dl'[t].phase # "free" =>
           dl'[t].phase = "queued" /\ dl'[t].job = n /\ dl'[t].gen = 0 /\ st = "done"
      /\ \A t, u \in Slots : dl'[t].phase # "free" /\ dl'[u].phase # "free" => t = u
      /\ st = "done" => \E t \in Slots : dl'[t].job = n
      /\ \A t \in Slots : dl'[t].gen \in {0, dl[t].gen}
  BY <1>2
<1>5. \A w \in Waiters : wait[w] = 0
  BY <1>2 DEF RowInv, WaitRow
<1>6. "recovered" \notin got[n]
  BY <1>1 DEF FreshInv, RecoveredEnded, Ended
<1>7. id'.row = n /\ n \in Jobs /\ job[n].state = "none" /\ n # 0
  BY <1>1, <1>2
<1> HIDE DEF n
<1>8. RowInv'
  BY <1>2, <1>3, <1>4, <1>5, <1>7, Facts
     DEF RowInv, RowDeliveries, OneDelivery, Watching, Suppressing, Releasing, WaitRow, MgrGone,
         HeldOk, Undelivered, Ended
<1>9. GotInv'
  BY <1>2, <1>3, <1>4, <1>7, Facts
     DEF GotInv, SinkCurrent, CommittedGot, SuppressedGot, ConsumedGot, OnItsWay, Settles, Evicts
<1>10. FreshInv'
  BY <1>2, <1>3, <1>4, <1>6, <1>7, Facts
     DEF FreshInv, RecoveredEnded, QueuedFresh, SinkFresh, GenBound, Ended
<1>11. TranscriptInv'
  BY <1>2, <1>3, <1>4, <1>7, Facts
     DEF TranscriptInv, RowTranscript, QueuedRow, SinkTranscript
<1> QED BY <1>8, <1>9, <1>10, <1>11 DEF Goes

LEMMA RegisterGoes ==
  ASSUME HandoverInv, ~ Overlap, NEW fg \in BOOLEAN, Register(fg) PROVE Goes
<1>1. /\ id'.row = NextJob /\ id'.suppressed = fg /\ ~ id'.consumed /\ ~ id'.released
      /\ id'.watched = id.watched /\ id'.timer = id.timer
  <2>1. Claim(id, NextJob) = [id EXCEPT !.row = NextJob, !.suppressed = FALSE, !.consumed = FALSE,
                                        !.released = FALSE]
    BY DEF Claim
  <2> QED BY <2>1, ClaimFields, Facts DEF Register, HandoverInv, Ids
<1>2. id.timer.at = "off"
  BY Facts DEF Register, IdIsFree, HandoverInv, IdOk
<1> QED BY <1>1, <1>2, NewJobGoes DEF Register

LEMMA PublishGoes ==
  ASSUME HandoverInv, ~ Overlap, PublishCompleted PROVE Goes
<1> DEFINE c == Claim(id, NextJob)
<1>1. /\ c.row = NextJob /\ ~ c.suppressed /\ ~ c.consumed /\ ~ c.released
      /\ c.watched = id.watched /\ c.timer = id.timer
  BY ClaimFields, Facts DEF HandoverInv
<1>2. id.timer.at = "off" /\ ~ id.watched
  BY Facts DEF PublishCompleted, IdIsFree, HandoverInv, IdOk, RowInv, Watching
<1>3. MayEnqueue(c) /\ id' = Schedule(c) /\ dl' = Enqueue(c, dl, NextJob) /\ IdIsFree
  BY DEF PublishCompleted
<1>4. NextJob \in Jobs /\ c \in Ids
  <2>1. NextJob \in Jobs
    BY <1>3 DEF IdIsFree, NextJob, AnyOf, Unused
  <2> QED BY <1>3, <2>1, ClaimOk DEF HandoverInv, DeliveryInv, IdIsFree
<1> HIDE DEF c
<1>5. /\ Keeps(c, id') /\ id'.consumed = c.consumed
  BY <1>3, <1>4, ScheduleFields
<1>6. \E t \in Slots : /\ dl'[t] = [job |-> NextJob, phase |-> "queued", gen |-> 0]
                       /\ \A u \in Slots : u # t => dl'[u] = dl[u]
  <2>1. ~ Suppressed(c) /\ FreeSlots(dl) # {} /\ dl \in [Slots -> Deliveries]
    BY <1>1, <1>2, <1>3 DEF Suppressed, MayEnqueue, HandoverInv, DeliveryInv, DlOk
  <2> QED BY <1>3, <2>1, EnqueueFields
<1>7. id'.row = NextJob /\ id'.suppressed = FALSE /\ ~ id'.consumed /\ ~ id'.released
      /\ id'.watched = id.watched /\ id'.timer.at # "held"
  BY <1>1, <1>2, <1>5, Facts DEF Keeps, HandoverInv
<1> QED BY <1>3, <1>6, <1>7, NewJobGoes DEF PublishCompleted

\* The row's job finishes its work, or one that lost its row to the manager's end.
LEMMA RunEndsGoes ==
  ASSUME HandoverInv, NEW i \in Jobs, RunEnds(i) PROVE Goes
<1> USE DEF HandoverInv, ownerVars
<1>1. /\ job[i].state \in {"running", "cancelling"}
      /\ id.row = i \/ mgr = "down"
      /\ job[i].state = "running" => mgr = "up" /\ id.row = i
  BY DEF RunEnds, DeliveryInv, ActiveOk, Active
<1>2. /\ job'[i].state = IF job[i].state = "running" THEN "done" ELSE "cancelled"
      /\ job'[i].foreground = job[i].foreground /\ job'[i].transcript = job[i].transcript
      /\ \A k \in Jobs : k # i => job'[k] = job[k]
      /\ \A k \in Jobs : job'[k].foreground = job[k].foreground
  <2>1. job[i] \in JobRecords /\ job \in [Jobs -> JobRecords]
    BY DEF DeliveryInv, RestOk
  <2>2. CASE job[i].state = "cancelling"
    BY <2>1, <2>2 DEF RunEnds, JobRecords
  <2>3. CASE job[i].state = "running"
    BY <2>1, <2>3 DEF RunEnds, JobRecords
  <2> QED BY <1>1, <2>2, <2>3
<1>3. id.row = i => \A t \in Slots : dl[t].phase = "free"
  BY <1>1, Facts, NothingYet
<1>4. UNCHANGED <<owner, gen, transcript, mgr, wait, got>>
  BY DEF RunEnds
<1>5. IF id.released
      THEN /\ id'.row = 0 /\ ~ id'.suppressed /\ ~ id'.watched /\ ~ id'.consumed
           /\ ~ id'.released /\ id'.timer.at = "off"
      ELSE /\ Keeps(id, id') /\ id'.consumed = id.consumed
  BY DiscardFields, ScheduleFields, Facts DEF RunEnds
<1>6. id.released => id.row = i /\ job[i].foreground /\ id.suppressed
  <2>1. id.released => id.row # 0 /\ job[id.row].foreground
    BY DEF RowInv, Releasing
  <2>2. id.released => id.row = i
    BY <1>1, <2>1 DEF RowInv, MgrGone
  <2> QED BY <2>1, <2>2, Facts DEF IdOk
<1>7. \/ UNCHANGED dl /\ (job[i].state = "running" => Suppressed(id))
      \/ /\ job[i].state = "running" /\ ~ Suppressed(id)
         /\ \E t \in Slots : /\ dl'[t] = [job |-> i, phase |-> "queued", gen |-> 0]
                             /\ \A u \in Slots : u # t => dl'[u] = dl[u]
  <2>1. CASE job[i].state = "running" /\ ~ Suppressed(id)
    <3>1. FreeSlots(dl) # {} /\ dl' = Enqueue(id, dl, i) /\ dl \in [Slots -> Deliveries]
      BY <2>1 DEF RunEnds, MayEnqueue, DeliveryInv, DlOk
    <3> QED BY <2>1, <3>1, EnqueueFields
  <2>2. CASE ~ (job[i].state = "running" /\ ~ Suppressed(id))
    BY <1>1, <2>2 DEF RunEnds, Enqueue
  <2> QED BY <2>1, <2>2
<1>8. /\ \A t \in Slots : dl'[t] # dl[t] => dl'[t] = [job |-> i, phase |-> "queued", gen |-> 0]
      /\ \A t, u \in Slots : dl'[t] # dl[t] /\ dl'[u] # dl[u] => t = u
      /\ (\E t \in Slots : dl'[t] # dl[t]) => job[i].state = "running" /\ ~ Suppressed(id)
  BY <1>7
<1>9. job[i].state = "running" /\ ~ Suppressed(id) => \E t \in Slots : dl'[t].job = i
  BY <1>7
<1>10. id.row = i => ~ id.consumed /\ id.timer.at = "off"
  BY <1>1, Facts DEF IdOk, Settled
<1>11. "recovered" \notin got[i] /\ i # 0
  BY <1>1, Facts DEF FreshInv, RecoveredEnded, Ended
<1> HIDE DEF ownerVars
<1>12. CASE id.row # i
  <2>1. /\ mgr = "down" /\ id.row = 0 /\ Keeps(id, id') /\ dl' = dl /\ id'.row = 0
        /\ job'[i].state = "cancelled" /\ id'.consumed = id.consumed
    BY <1>1, <1>2, <1>5, <1>6, <1>7, <1>12 DEF RowInv, MgrGone, Keeps
  <2>2. job[i].state = "cancelling" /\ id.timer.at = "off"
    BY <1>1, <1>12, <2>1, Facts DEF IdOk
  <2>3. RowInv'
    BY <1>2, <1>4, <2>1, <2>2, Facts
       DEF RowInv, RowDeliveries, OneDelivery, Watching, Suppressing, Releasing, WaitRow, MgrGone,
         HeldOk, Undelivered, Ended, Keeps
  <2>4. GotInv'
    BY <1>2, <1>4, <2>1, <2>2, Facts
       DEF GotInv, SinkCurrent, CommittedGot, SuppressedGot, ConsumedGot, OnItsWay, Settles, Evicts,
         Suppressed, Keeps
  <2>5. FreshInv'
    BY <1>2, <1>4, <2>1, <2>2, Facts
       DEF FreshInv, RecoveredEnded, QueuedFresh, SinkFresh, GenBound, Ended, Keeps
  <2>6. ASSUME TranscriptInv PROVE TranscriptInv'
    <3>1. \A t \in Slots : dl[t].phase # "free" => dl[t].job # i /\ dl[t].job \in Jobs
      BY <2>2, Facts DEF RowInv, RowDeliveries
    <3> QED BY <1>2, <1>4, <2>1, <2>6, <3>1, Facts
       DEF TranscriptInv, RowTranscript, QueuedRow, SinkTranscript
  <2> QED BY <2>3, <2>4, <2>5, <2>6 DEF Goes
<1>13. CASE id.row = i
  <2>1. \A t \in Slots : dl[t].phase = "free"
    BY <1>3, <1>13
  <2>2. /\ \A t \in Slots : dl'[t].phase # "free" =>
             /\ dl'[t].phase = "queued" /\ dl'[t].job = i /\ dl'[t].gen = 0
             /\ job[i].state = "running" /\ ~ Suppressed(id)
        /\ \A t, u \in Slots : dl'[t].phase # "free" /\ dl'[u].phase # "free" => t = u
        /\ \A t \in Slots : dl'[t].gen \in {0, dl[t].gen}
    BY <1>8, <2>1
  <2>3. RowInv'
    BY <1>1, <1>2, <1>4, <1>5, <1>6, <1>10, <1>11, <1>13, <2>1, <2>2, Facts
       DEF RowInv, RowDeliveries, OneDelivery, Watching, Suppressing, Releasing, WaitRow, MgrGone,
         HeldOk, Undelivered, Ended, Keeps, Suppressed
  <2>4. GotInv'
    BY <1>1, <1>2, <1>4, <1>5, <1>6, <1>9, <1>10, <1>11, <1>13, <2>1, <2>2, Facts
       DEF GotInv, SinkCurrent, CommittedGot, SuppressedGot, ConsumedGot, OnItsWay, Settles, Evicts,
         Suppressed, Keeps, RowInv, Suppressing
  <2>5. FreshInv'
    BY <1>1, <1>2, <1>4, <1>5, <1>6, <1>11, <1>13, <2>1, <2>2, Facts
       DEF FreshInv, RecoveredEnded, QueuedFresh, SinkFresh, GenBound, Ended, Keeps
  <2>6. ASSUME TranscriptInv PROVE TranscriptInv'
    BY <1>1, <1>2, <1>4, <1>5, <1>6, <1>11, <1>13, <2>1, <2>2, <2>6, Facts
       DEF TranscriptInv, RowTranscript, QueuedRow, SinkTranscript, Keeps, Suppressed
  <2> QED BY <2>3, <2>4, <2>5, <2>6 DEF Goes
<1> QED BY <1>12, <1>13

LEMMA CancelGoes ==
  ASSUME HandoverInv, NEW a \in BOOLEAN, Cancel(a) PROVE Goes
<1> USE DEF HandoverInv, ownerVars
<1>1. /\ id.row \in Jobs /\ id.row # 0 /\ job[id.row].state = "running"
      /\ ~ job[id.row].foreground
  BY Facts DEF Cancel
<1>2. /\ job'[id.row].state = "cancelling"
      /\ \A k \in Jobs : job'[k].foreground = job[k].foreground
      /\ \A k \in Jobs : k # id.row => job'[k] = job[k]
  BY <1>1, JobUpdate DEF Cancel, DeliveryInv, RestOk, JobStates
<1>3. /\ id'.row = id.row /\ id'.suppressed \in BOOLEAN /\ id'.watched = id.watched
      /\ id'.consumed = id.consumed /\ id'.released = id.released /\ id'.timer = id.timer
      /\ id.suppressed => id'.suppressed
  BY Facts DEF Cancel, Ids
<1>4. \A t \in Slots : dl[t].phase = "free" /\ dl'[t] = dl[t]
  BY <1>1, NothingYet, AcknowledgeFields DEF Cancel
<1>5. UNCHANGED <<owner, gen, transcript, mgr, wait, got>>
  BY DEF Cancel
<1>6. "recovered" \notin got[id.row]
  BY <1>1 DEF FreshInv, RecoveredEnded, Ended
<1> HIDE DEF ownerVars
<1>7. RowInv'
  BY <1>1, <1>2, <1>3, <1>4, <1>5, <1>6, Facts
     DEF RowInv, RowDeliveries, OneDelivery, Watching, Suppressing, Releasing, WaitRow, MgrGone,
         HeldOk, Undelivered, Ended
<1>8. GotInv'
  BY <1>1, <1>2, <1>3, <1>4, <1>5, <1>6, Facts
     DEF GotInv, SinkCurrent, CommittedGot, SuppressedGot, ConsumedGot, OnItsWay, Settles, Evicts,
         Suppressed
<1>9. FreshInv'
  BY <1>1, <1>2, <1>3, <1>4, <1>5, <1>6, Facts
     DEF FreshInv, RecoveredEnded, QueuedFresh, SinkFresh, GenBound, Ended
<1>10. ASSUME ~ SlowRetries, TranscriptInv PROVE TranscriptInv'
  BY <1>1, <1>2, <1>3, <1>4, <1>5, <1>6, <1>10, Facts
     DEF TranscriptInv, RowTranscript, QueuedRow, SinkTranscript
<1> QED BY <1>7, <1>8, <1>9, <1>10 DEF Goes

LEMMA ReleasedFields ==
  ASSUME DeliveryInv, Backed, id' = Released(id, id.row)
  PROVE IF Ended(id.row)
        THEN /\ id'.row = 0 /\ ~ id'.suppressed /\ ~ id'.watched /\ ~ id'.consumed
             /\ ~ id'.released /\ id'.timer.at = "off"
        ELSE /\ id'.row = id.row /\ id'.suppressed = id.suppressed /\ id'.watched = id.watched
             /\ id'.consumed = id.consumed /\ id'.timer = id.timer /\ id'.released
<1>1. CASE Ended(id.row)
  BY <1>1, DiscardFields, Facts DEF Released
<1>2. CASE ~ Ended(id.row)
  BY <1>2, Facts DEF Released, Ids
<1> QED BY <1>1, <1>2

LEMMA ReturnsGoes ==
  ASSUME HandoverInv, ForegroundReturns PROVE Goes
<1> USE DEF HandoverInv, ownerVars
<1>1. /\ id.row \in Jobs /\ id.row # 0 /\ job[id.row].foreground /\ id.suppressed
      /\ ~ id.watched
  BY Facts DEF ForegroundReturns, Backed, IdOk, RowInv, Watching
<1>2. \A t \in Slots : dl[t].phase = "free"
  BY <1>1, NothingYet
<1>3. IF Ended(id.row)
      THEN /\ id'.row = 0 /\ ~ id'.suppressed /\ ~ id'.watched /\ ~ id'.consumed
           /\ ~ id'.released /\ id'.timer.at = "off"
      ELSE /\ id'.row = id.row /\ id'.suppressed = id.suppressed /\ id'.watched = id.watched
           /\ id'.consumed = id.consumed /\ id'.timer = id.timer /\ id'.released
  BY ReleasedFields DEF ForegroundReturns
<1>4. UNCHANGED <<job, dl, owner, gen, transcript, mgr, wait>>
  BY DEF ForegroundReturns
<1>5. \A i \in Jobs : "recovered" \in got'[i] => "recovered" \in got[i]
  BY DEF ForegroundReturns, DeliveryInv, RestOk
<1>6. ~ Ended(id.row) => job[id.row].state # "done"
  BY DEF Ended
<1> HIDE DEF ownerVars
<1>7. RowInv'
  BY <1>1, <1>2, <1>3, <1>4, <1>5, <1>6, Facts
     DEF RowInv, RowDeliveries, OneDelivery, Watching, Suppressing, Releasing, WaitRow, MgrGone,
         HeldOk, Undelivered, Ended
<1>8. GotInv'
  BY <1>1, <1>2, <1>3, <1>4, <1>5, <1>6, Facts
     DEF GotInv, SinkCurrent, CommittedGot, SuppressedGot, ConsumedGot, OnItsWay, Settles, Evicts,
         Suppressed
<1>9. FreshInv'
  BY <1>1, <1>2, <1>3, <1>4, <1>5, <1>6, Facts
     DEF FreshInv, RecoveredEnded, QueuedFresh, SinkFresh, GenBound, Ended
<1>10. ASSUME ~ SlowRetries, TranscriptInv PROVE TranscriptInv'
  BY <1>1, <1>2, <1>3, <1>4, <1>5, <1>6, <1>10, Facts
     DEF TranscriptInv, RowTranscript, QueuedRow, SinkTranscript
<1> QED BY <1>7, <1>8, <1>9, <1>10 DEF Goes

LEMMA AbortsGoes ==
  ASSUME HandoverInv, ForegroundAborts PROVE Goes
<1> USE DEF HandoverInv, ownerVars
<1>1. /\ id.row \in Jobs /\ id.row # 0 /\ job[id.row].foreground /\ id.suppressed
      /\ ~ id.watched
  BY Facts DEF ForegroundAborts, Backed, IdOk, RowInv, Watching
<1>2. \A t \in Slots : dl[t].phase = "free"
  BY <1>1, NothingYet
<1>3. IF Ended(id.row)
      THEN /\ id'.row = 0 /\ ~ id'.suppressed /\ ~ id'.watched /\ ~ id'.consumed
           /\ ~ id'.released /\ id'.timer.at = "off"
      ELSE /\ id'.row = id.row /\ id'.suppressed = id.suppressed /\ id'.watched = id.watched
           /\ id'.consumed = id.consumed /\ id'.timer = id.timer /\ id'.released
  BY ReleasedFields DEF ForegroundAborts
<1>4. UNCHANGED <<got, dl, owner, gen, transcript, mgr, wait>>
  BY DEF ForegroundAborts
<1>5. /\ job'[id.row].state = IF job[id.row].state = "running" THEN "cancelling" ELSE job[id.row].state
      /\ \A k \in Jobs : job'[k].foreground = job[k].foreground
      /\ \A k \in Jobs : k # id.row => job'[k] = job[k]
      /\ job[id.row].state # "running" => job' = job
  <2>1. CASE job[id.row].state = "running"
    BY <1>1, <2>1, JobUpdate DEF ForegroundAborts, DeliveryInv, RestOk, JobStates
  <2>2. CASE job[id.row].state # "running"
    BY <2>2 DEF ForegroundAborts
  <2> QED BY <2>1, <2>2
<1>6. ~ Ended(id.row) => job[id.row].state # "done"
  BY DEF Ended
<1> HIDE DEF ownerVars
<1>7. RowInv'
  BY <1>1, <1>2, <1>3, <1>4, <1>5, <1>6, Facts
     DEF RowInv, RowDeliveries, OneDelivery, Watching, Suppressing, Releasing, WaitRow, MgrGone,
         HeldOk, Undelivered, Ended
<1>8. GotInv'
  BY <1>1, <1>2, <1>3, <1>4, <1>5, <1>6, Facts
     DEF GotInv, SinkCurrent, CommittedGot, SuppressedGot, ConsumedGot, OnItsWay, Settles, Evicts,
         Suppressed
<1>9. FreshInv'
  BY <1>1, <1>2, <1>3, <1>4, <1>5, <1>6, Facts
     DEF FreshInv, RecoveredEnded, QueuedFresh, SinkFresh, GenBound, Ended
<1>10. ASSUME ~ SlowRetries, TranscriptInv PROVE TranscriptInv'
  BY <1>1, <1>2, <1>3, <1>4, <1>5, <1>6, <1>10, Facts
     DEF TranscriptInv, RowTranscript, QueuedRow, SinkTranscript
<1> QED BY <1>7, <1>8, <1>9, <1>10 DEF Goes

LEMMA PromoteGoes ==
  ASSUME HandoverInv, Promote PROVE Goes
<1> USE DEF HandoverInv, ownerVars
<1> DEFINE d == [id EXCEPT !.suppressed = FALSE]
           v == [job[id.row] EXCEPT !.foreground = FALSE]
<1>1. /\ id.row \in Jobs /\ id.row # 0 /\ job[id.row].foreground /\ ~ id.released
      /\ ~ id.watched /\ job[id.row] \in JobRecords
  BY Facts DEF Promote, Backed, RowInv, Watching, DeliveryInv, RestOk
<1>2. \A t \in Slots : dl[t].phase = "free"
  BY <1>1, NothingYet
<1>3. /\ id' = d /\ d.row = id.row /\ d.suppressed = FALSE /\ d.watched = id.watched
      /\ d.consumed = id.consumed /\ d.released = id.released /\ d.timer = id.timer
  BY Facts DEF Promote, Ids
<1>4. /\ job'[id.row].state = job[id.row].state /\ ~ job'[id.row].foreground
      /\ job'[id.row].transcript = job[id.row].transcript
      /\ \A k \in Jobs : k # id.row => job'[k] = job[k]
  <2>1. v.state = job[id.row].state /\ ~ v.foreground /\ v.transcript = job[id.row].transcript
    BY <1>1 DEF JobRecords
  <2>2. job' = [job EXCEPT ![id.row] = v]
    BY DEF Promote
  <2> HIDE DEF v
  <2> QED BY <1>1, <2>1, <2>2 DEF DeliveryInv, RestOk
<1>5. IF job[id.row].state = "done"
      THEN \E t \in Slots : /\ dl'[t] = [job |-> id.row, phase |-> "queued", gen |-> 0]
                            /\ \A u \in Slots : u # t => dl'[u] = dl[u]
      ELSE dl' = dl
  <2>1. CASE job[id.row].state = "done"
    <3>1. MayEnqueue(d) /\ dl' = Enqueue(d, dl, id.row)
      BY <2>1 DEF Promote
    <3>2. ~ Suppressed(d) /\ dl \in [Slots -> Deliveries]
      BY <1>1, <1>3 DEF Suppressed, DeliveryInv, DlOk
    <3> HIDE DEF d
    <3> QED BY <2>1, <3>1, <3>2, EnqueueFields DEF MayEnqueue
  <2>2. CASE job[id.row].state # "done"
    BY <2>2 DEF Promote
  <2> QED BY <2>1, <2>2
<1> HIDE DEF d, v
<1>6. /\ \A t \in Slots : dl'[t].phase # "free" =>
           /\ dl'[t].phase = "queued" /\ dl'[t].job = id.row /\ dl'[t].gen = 0
           /\ job[id.row].state = "done"
      /\ \A t, u \in Slots : dl'[t].phase # "free" /\ dl'[u].phase # "free" => t = u
      /\ \A t \in Slots : dl'[t].gen \in {0, dl[t].gen}
      /\ job[id.row].state = "done" => \E t \in Slots : dl'[t].job = id.row
  BY <1>2, <1>5
<1>7. "recovered" \notin got[id.row]
  BY <1>1 DEF FreshInv, RecoveredEnded
<1>8. UNCHANGED <<owner, gen, transcript, mgr, wait, got>> /\ id.timer.at # "held"
  BY <1>1 DEF Promote, RowInv, HeldOk
<1> HIDE DEF ownerVars
<1>9. RowInv'
  BY <1>1, <1>2, <1>3, <1>4, <1>6, <1>7, <1>8, Facts
     DEF RowInv, RowDeliveries, OneDelivery, Watching, Suppressing, Releasing, WaitRow, MgrGone,
         HeldOk, Undelivered, Ended
<1>10. GotInv'
  BY <1>1, <1>2, <1>3, <1>4, <1>6, <1>7, <1>8, Facts
     DEF GotInv, SinkCurrent, CommittedGot, SuppressedGot, ConsumedGot, OnItsWay, Settles, Evicts,
         Suppressed
<1>11. FreshInv'
  BY <1>1, <1>2, <1>3, <1>4, <1>6, <1>7, <1>8, Facts
     DEF FreshInv, RecoveredEnded, QueuedFresh, SinkFresh, GenBound, Ended
<1>12. ASSUME ~ SlowRetries, TranscriptInv PROVE TranscriptInv'
  BY <1>1, <1>2, <1>3, <1>4, <1>6, <1>7, <1>8, <1>12, Facts
     DEF TranscriptInv, RowTranscript, QueuedRow, SinkTranscript
<1> QED BY <1>9, <1>10, <1>11, <1>12 DEF Goes

LEMMA BlockGoes ==
  ASSUME HandoverInv, NEW w \in Waiters, Block(w) PROVE Goes
<1> USE DEF HandoverInv, ownerVars
<1>1. /\ id.row \in Jobs /\ id.row # 0 /\ job[id.row].state = "running"
      /\ ~ job[id.row].foreground
  BY Facts DEF Block
<1>2. \A t \in Slots : dl[t].phase = "free"
  BY <1>1, NothingYet
<1>3. /\ id'.row = id.row /\ id'.suppressed = id.suppressed /\ id'.watched
      /\ id'.consumed = id.consumed /\ id'.released = id.released /\ id'.timer = id.timer
      /\ id.timer.at = "off"
  BY <1>1, Facts DEF Block, Ids, IdOk, Settled
<1>4. \A x \in Waiters : wait'[x] = IF x = w THEN id.row ELSE wait[x]
  BY DEF Block, DeliveryInv, RestOk
<1>5. UNCHANGED <<job, dl, owner, gen, transcript, mgr, got>>
  BY DEF Block
<1> HIDE DEF ownerVars
<1>6. RowInv'
  BY <1>1, <1>2, <1>3, <1>4, <1>5, Facts
     DEF RowInv, RowDeliveries, OneDelivery, Watching, Suppressing, Releasing, WaitRow, MgrGone,
         HeldOk, Undelivered, Ended
<1>7. GotInv'
  BY <1>1, <1>2, <1>3, <1>4, <1>5, Facts
     DEF GotInv, SinkCurrent, CommittedGot, SuppressedGot, ConsumedGot, OnItsWay, Settles, Evicts,
         Suppressed
<1>8. FreshInv'
  BY <1>1, <1>2, <1>3, <1>4, <1>5, Facts
     DEF FreshInv, RecoveredEnded, QueuedFresh, SinkFresh, GenBound, Ended
<1>9. ASSUME ~ SlowRetries, TranscriptInv PROVE TranscriptInv'
  BY <1>1, <1>2, <1>3, <1>4, <1>5, <1>9, Facts
     DEF TranscriptInv, RowTranscript, QueuedRow, SinkTranscript
<1> QED BY <1>6, <1>7, <1>8, <1>9 DEF Goes

\* A wait lets go of the row: what settled meanwhile is queued.
LEMMA UnwatchGoes ==
  ASSUME HandoverInv, NEW w \in Waiters, wait' = [wait EXCEPT ![w] = 0], Unwatch(id, dl),
         UNCHANGED <<job, ownerVars, got>>
  PROVE Goes
<1> USE DEF HandoverInv, ownerVars
<1>1. /\ id'.row = id.row /\ id'.suppressed = id.suppressed /\ ~ id'.watched
      /\ id'.consumed = id.consumed /\ id'.released = id.released /\ id'.timer = id.timer
  BY Facts DEF Unwatch, Unwatched, Ids
<1>2. \A x \in Waiters : wait'[x] \in {0, wait[x]}
  BY DEF DeliveryInv, RestOk
<1>3. UNCHANGED <<job, owner, gen, transcript, mgr, got>>
  OBVIOUS
<1>4. CASE Requeues(id, dl)
  <2>1. /\ id.row \in Jobs /\ id.row # 0 /\ job[id.row].state = "done" /\ ~ job[id.row].foreground
        /\ ~ id.suppressed /\ ~ id.consumed /\ \A t \in Slots : dl[t].phase = "free"
    BY <1>4, Facts DEF Requeues, Undelivered, RowInv, Watching
  <2>2. \E t \in Slots : /\ dl'[t] = [job |-> id.row, phase |-> "queued", gen |-> 0]
                         /\ \A u \in Slots : u # t => dl'[u] = dl[u]
    <3>1. FreeSlots(dl) # {} /\ dl' = Enqueue(Unwatched(id), dl, id.row)
      BY <1>4 DEF Unwatch
    <3>2. ~ Suppressed(Unwatched(id)) /\ dl \in [Slots -> Deliveries]
      BY <2>1, Facts DEF Unwatched, Suppressed, Ids, DeliveryInv, DlOk
    <3> QED BY <3>1, <3>2, EnqueueFields
  <2>3. /\ \A t \in Slots : dl'[t].phase # "free" =>
             dl'[t].phase = "queued" /\ dl'[t].job = id.row /\ dl'[t].gen = 0
        /\ \A t, u \in Slots : dl'[t].phase # "free" /\ dl'[u].phase # "free" => t = u
        /\ \A t \in Slots : dl'[t].gen \in {0, dl[t].gen}
        /\ \E t \in Slots : dl'[t].job = id.row
    BY <2>1, <2>2
  <2> HIDE DEF ownerVars
  <2>4. RowInv'
    BY <1>1, <1>2, <1>3, <2>1, <2>3, Facts
       DEF RowInv, RowDeliveries, OneDelivery, Watching, Suppressing, Releasing, WaitRow, MgrGone,
         HeldOk, Undelivered, Ended
  <2>5. GotInv'
    BY <1>1, <1>2, <1>3, <2>1, <2>3, Facts
       DEF GotInv, SinkCurrent, CommittedGot, SuppressedGot, ConsumedGot, OnItsWay, Settles, Evicts,
         Suppressed
  <2>6. FreshInv'
    BY <1>1, <1>2, <1>3, <2>1, <2>3, Facts
       DEF FreshInv, RecoveredEnded, QueuedFresh, SinkFresh, GenBound, Ended
  <2>7. ASSUME ~ SlowRetries, TranscriptInv PROVE TranscriptInv'
    BY <1>1, <1>2, <1>3, <2>1, <2>3, <2>7, Facts
       DEF TranscriptInv, RowTranscript, QueuedRow, SinkTranscript
  <2> QED BY <2>4, <2>5, <2>6, <2>7 DEF Goes
<1>5. CASE ~ Requeues(id, dl)
  <2>1. dl' = dl
    BY <1>5 DEF Unwatch
  <2>2. Settles /\ ~ id.suppressed /\ id.watched => got[id.row] # {}
    BY <1>5 DEF Settles, Evicts, Requeues, GotInv, ConsumedGot, RowInv, Watching
  <2> HIDE DEF ownerVars
  <2>3. RowInv'
    BY <1>1, <1>2, <1>3, <2>1, <2>2, Facts
       DEF RowInv, RowDeliveries, OneDelivery, Watching, Suppressing, Releasing, WaitRow, MgrGone,
         HeldOk, Undelivered, Ended
  <2>4. GotInv'
    BY <1>1, <1>2, <1>3, <2>1, <2>2, Facts
       DEF GotInv, SinkCurrent, CommittedGot, SuppressedGot, ConsumedGot, OnItsWay, Settles, Evicts,
         Suppressed
  <2>5. FreshInv'
    BY <1>1, <1>2, <1>3, <2>1, <2>2, Facts
       DEF FreshInv, RecoveredEnded, QueuedFresh, SinkFresh, GenBound, Ended
  <2>6. ASSUME ~ SlowRetries, TranscriptInv PROVE TranscriptInv'
    BY <1>1, <1>2, <1>3, <2>1, <2>2, <2>6, Facts
       DEF TranscriptInv, RowTranscript, QueuedRow, SinkTranscript
  <2> QED BY <2>3, <2>4, <2>5, <2>6 DEF Goes
<1> QED BY <1>4, <1>5

\* A snapshot shows job i: it suppresses the row, drops what is queued and
\* recovers a result that nobody consumed yet.
LEMMA SnapshotGoes ==
  ASSUME HandoverInv, NEW i \in Jobs, id.row # 0 => i = id.row, id.row = 0 => mgr = "down",
         ~ job[i].foreground, job[i].state # "running",
         id'.row = id.row, id'.suppressed, id'.watched => id.watched, id'.released = id.released,
         id'.timer = id.timer \/ id'.timer.at = "armed",
         id'.consumed => id.consumed \/ (id.row # 0 /\ Ended(id.row)),
         dl' = Acknowledge(dl),
         got' = IF Ended(i) /\ ~ id.consumed THEN [got EXCEPT ![i] = @ \cup {"recovered"}] ELSE got,
         \A x \in Waiters : wait'[x] \in {0, wait[x]},
         UNCHANGED <<job, ownerVars>>
  PROVE Goes
<1> USE DEF HandoverInv, ownerVars
<1>1. \A t \in Slots : dl'[t] = IF dl[t].phase = "queued" THEN NoDelivery ELSE dl[t]
  BY AcknowledgeFields
<1>2. NoDelivery.phase = "free" /\ NoDelivery.gen = 0
  BY DEF NoDelivery
<1>3. /\ \A k \in Jobs : got[k] \subseteq got'[k]
      /\ \A k \in Jobs : "recovered" \in got'[k] => "recovered" \in got[k] \/ (k = i /\ Ended(i))
      /\ Ended(i) /\ ~ id.consumed => got'[i] # {}
  BY DEF DeliveryInv, RestOk
<1>4. UNCHANGED <<job, owner, gen, transcript, mgr>>
  OBVIOUS
<1>5. id.row = 0 => id.timer.at = "off" /\ ~ id.consumed /\ ~ id.watched
  BY Facts DEF IdOk, RowInv, Watching
<1>6. Settles /\ id.consumed => got[id.row] # {}
  BY DEF GotInv, ConsumedGot
<1>7. mgr = "down" => owner = "gone"
  BY DEF RowInv, MgrGone
<1> HIDE DEF ownerVars
<1>8. RowInv'
  BY <1>1, <1>2, <1>3, <1>4, <1>5, <1>6, <1>7, Facts
     DEF RowInv, RowDeliveries, OneDelivery, Watching, Suppressing, Releasing, WaitRow, MgrGone,
         HeldOk, Undelivered, Ended
<1>9. GotInv'
  BY <1>1, <1>2, <1>3, <1>4, <1>5, <1>6, <1>7, Facts
     DEF GotInv, SinkCurrent, CommittedGot, SuppressedGot, ConsumedGot, OnItsWay, Settles, Evicts,
         Suppressed, Ended
<1>10. FreshInv'
  BY <1>1, <1>2, <1>3, <1>4, <1>5, <1>6, <1>7, Facts
     DEF FreshInv, RecoveredEnded, QueuedFresh, SinkFresh, GenBound, Ended
<1>11. ASSUME ~ SlowRetries, TranscriptInv PROVE TranscriptInv'
  BY <1>1, <1>2, <1>3, <1>4, <1>5, <1>6, <1>7, <1>11, Facts
     DEF TranscriptInv, RowTranscript, QueuedRow, SinkTranscript
<1> QED BY <1>8, <1>9, <1>10, <1>11 DEF Goes

LEMMA RecoverGoes ==
  ASSUME HandoverInv, Recover PROVE Goes
<1> USE DEF HandoverInv, ownerVars
<1>1. id.row \in Jobs /\ id.row # 0 /\ Ended(id.row) /\ ~ job[id.row].foreground
  BY Facts DEF Recover
<1>2. Keeps([id EXCEPT !.suppressed = TRUE], id')
  BY SnapshotFields, Facts DEF Recover
<1>3. /\ id'.row = id.row /\ id'.suppressed /\ id'.watched = id.watched
      /\ id'.released = id.released
      /\ id'.timer = id.timer \/ id'.timer.at = "armed"
      /\ id'.consumed => id.consumed \/ (id.row # 0 /\ Ended(id.row))
  BY <1>2, Facts DEF Keeps, Ids
<1>4. job[id.row].state # "running"
  BY <1>1 DEF Ended
<1>5. got' = IF Ended(id.row) /\ ~ id.consumed
             THEN [got EXCEPT ![id.row] = @ \cup {"recovered"}] ELSE got
  BY <1>1 DEF Recover
<1>6. dl' = Acknowledge(dl) /\ UNCHANGED <<job, ownerVars, wait>>
  BY DEF Recover
<1>7. \A x \in Waiters : wait'[x] \in {0, wait[x]}
  BY <1>6
<1> HIDE DEF ownerVars, HandoverInv
<1> QED BY <1>1, <1>3, <1>4, <1>5, <1>6, <1>7, SnapshotGoes

LEMMA InterruptedGoes ==
  ASSUME HandoverInv, NEW w \in Waiters, Interrupted(w) PROVE Goes
BY UnwatchGoes DEF Interrupted

LEMMA ReportsGoes ==
  ASSUME HandoverInv, NEW w \in Waiters, Reports(w) PROVE Goes
<1> USE DEF HandoverInv
<1> DEFINE i == Shown(wait[w])
           n == Snapshot(id, dl)
           e == [id EXCEPT !.suppressed = TRUE]
<1>1. CASE job[i].state = "running"
  BY <1>1, UnwatchGoes DEF Reports
<1>2. CASE job[i].state # "running"
  <2>1. /\ Unwatch(n, Acknowledge(dl))
        /\ got' = IF Ended(i) /\ ~ id.consumed THEN [got EXCEPT ![i] = @ \cup {"recovered"}] ELSE got
    BY <1>2 DEF Reports
  <2>2. n \in Ids /\ Keeps(e, n)
    BY SnapshotFields, SnapshotOk, Facts DEF IdOk
  <2>3. /\ e.row = id.row /\ e.suppressed /\ e.watched = id.watched /\ e.consumed = id.consumed
        /\ e.released = id.released /\ e.timer = id.timer
    BY Facts DEF Ids
  <2> HIDE DEF n, e
  <2>4. ~ Requeues(n, Acknowledge(dl))
    BY <2>2, <2>3 DEF Requeues, Keeps
  <2>5. id' = Unwatched(n) /\ dl' = Acknowledge(dl)
    BY <2>1, <2>4 DEF Unwatch
  <2>6. /\ id'.row = id.row /\ id'.suppressed /\ ~ id'.watched
        /\ id'.released = id.released
        /\ id'.timer = id.timer \/ id'.timer.at = "armed"
        /\ id'.consumed => id.consumed \/ (id.row # 0 /\ Ended(id.row))
    BY <2>2, <2>3, <2>5 DEF Keeps, Ids, Unwatched
  <2>7. /\ i \in Jobs /\ (id.row # 0 => i = id.row) /\ (id.row = 0 => mgr = "down")
        /\ ~ job[i].foreground
    BY Facts DEF Reports, Shown, RowInv, WaitRow, MgrGone
  <2>8. \A x \in Waiters : wait'[x] \in {0, wait[x]}
    BY DEF Reports, DeliveryInv, RestOk
  <2>9. UNCHANGED <<job, ownerVars>>
    BY DEF Reports
  <2> HIDE DEF i, HandoverInv
  <2> QED BY <1>2, <2>1, <2>5, <2>6, <2>7, <2>8, <2>9, SnapshotGoes
<1> QED BY <1>1, <1>2

\* The timer waits for a parked attempt, or takes the row away.
LEMMA TimerGoes ==
  ASSUME HandoverInv, TimerFires PROVE Goes
<1> USE DEF HandoverInv, ownerVars
<1>1. id.row # 0 /\ Ended(id.row) /\ id.timer.at = "armed"
  BY DEF TimerFires, DeliveryInv, IdOk, Ended, Settled
<1>2. \A w \in Waiters : wait[w] = 0
  BY <1>1 DEF TimerFires, TimerMayFire, WaitsAnswered, RowInv, WaitRow, MgrGone
<1>3. UNCHANGED <<job, dl, owner, gen, transcript, mgr, wait, got>>
  BY DEF TimerFires
<1>4. ~ id.released
  BY <1>1 DEF RowInv, Releasing
<1>5. /\ \A t \in Slots : dl[t].phase # "sink"
      /\ ~ SlowRetries => \A t \in Slots : dl[t].phase # "queued"
  BY DEF TimerFires, TimerMayFire, SlotsIn
<1>6. CASE (\E t \in Slots : dl[t].phase \in InFlight) /\ Suppressed(id)
  <2>1. PICK s : id' = [id EXCEPT !.timer = [at |-> "held", slot |-> s]]
    BY <1>6 DEF TimerFires
  <2>2. /\ id'.row = id.row /\ id'.suppressed = id.suppressed /\ id'.watched = id.watched
        /\ id'.consumed = id.consumed /\ id'.released = id.released /\ id'.timer.at = "held"
    BY <2>1, Facts DEF Ids
  <2>3. id.suppressed /\ ~ job[id.row].foreground
    BY <1>1, <1>6, Facts
       DEF InFlight, Suppressed, RowInv, Watching, Undelivered, RowDeliveries
  <2> HIDE DEF ownerVars
  <2>4. RowInv'
    BY <1>1, <1>2, <1>3, <1>4, <2>2, <2>3, Facts
       DEF RowInv, RowDeliveries, OneDelivery, Watching, Suppressing, Releasing, WaitRow, MgrGone,
         HeldOk, Undelivered, Ended
  <2>5. GotInv'
    BY <1>3, <2>2, Facts
       DEF GotInv, SinkCurrent, CommittedGot, SuppressedGot, ConsumedGot, OnItsWay, Settles, Evicts,
         Suppressed
  <2>6. FreshInv'
    BY <1>3, <2>2, Facts DEF FreshInv, RecoveredEnded, QueuedFresh, SinkFresh, GenBound, Ended
  <2>7. TranscriptInv => TranscriptInv'
    BY <1>3, <2>2, Facts DEF TranscriptInv, RowTranscript, QueuedRow, SinkTranscript
  <2> QED BY <2>4, <2>5, <2>6, <2>7 DEF Goes
<1>7. CASE ~ ((\E t \in Slots : dl[t].phase \in InFlight) /\ Suppressed(id))
  <2>1. id' = Evict(id)
    BY <1>7 DEF TimerFires
  <2>2. Emptied(id, id')
    BY <2>1, EvictFields, Facts
  <2>3. \A t \in Slots : dl[t].phase = "parked" => ~ id.suppressed
    BY <1>7 DEF InFlight, Suppressed
  <2> HIDE DEF ownerVars
  <2>4. RowInv'
    BY <1>1, <1>2, <1>3, <1>4, <2>2, Facts
       DEF RowInv, RowDeliveries, OneDelivery, Watching, Suppressing, Releasing, WaitRow, MgrGone,
         HeldOk, Undelivered, Ended, Emptied
  <2>5. GotInv'
    BY <1>3, <2>2, Facts
       DEF GotInv, SinkCurrent, CommittedGot, SuppressedGot, ConsumedGot, OnItsWay, Settles, Evicts,
         Emptied
  <2>6. FreshInv'
    BY <1>3, <1>5, <2>2, <2>3, Facts
       DEF FreshInv, RecoveredEnded, QueuedFresh, SinkFresh, GenBound, Ended, Emptied
  <2>7. ~ SlowRetries /\ TranscriptInv => TranscriptInv'
    BY <1>3, <1>5, <2>2, Facts
       DEF TranscriptInv, RowTranscript, QueuedRow, SinkTranscript, Emptied
  <2> QED BY <2>4, <2>5, <2>6, <2>7 DEF Goes
<1> QED BY <1>6, <1>7

\* cancelAll leaves every job as it is, but for the row's when it is running.
LEMMA CancelAllFields ==
  ASSUME DeliveryInv
  PROVE \A k \in Jobs :
    /\ CancelAll[k].foreground = job[k].foreground
    /\ CancelAll[k].transcript = job[k].transcript
    /\ CancelAll[k].state = IF k = id.row /\ job[k].state = "running" THEN "cancelling"
                            ELSE job[k].state
BY DEF CancelAll, Running, DeliveryInv, RestOk, JobRecords, Jobs

\* The owner's jobs are cancelled and its settled rows evicted; if a session
\* goes on, it has a new epoch.
LEMMA OwnerLeaves ==
  ASSUME HandoverInv, WaitsAnswered, job' = CancelAll, id' = EvictedId,
         UNCHANGED <<mgr, wait, got>>,
         owner' = "gone" \/ (owner' = "open" /\ gen' = gen + 1 /\ mgr = "up"),
         gen' \in {gen, gen + 1},
         \A t \in Slots : \/ dl'[t].phase = "free" /\ dl'[t].gen = 0
                          \/ /\ dl'[t].job = dl[t].job /\ dl'[t].gen = dl[t].gen
                             /\ \/ dl'[t].phase = dl[t].phase
                                \/ dl[t].phase = "parked" /\ dl'[t].phase = "rejected"
                             /\ Evicts => dl'[t].phase # "queued"
  PROVE Goes
<1> USE DEF HandoverInv
<1>1. \A t \in Slots : dl'[t].gen < gen + 1 /\ (dl'[t].gen = dl[t].gen \/ dl'[t].phase = "free")
  BY Facts DEF FreshInv, GenBound
<1>2. CASE Evicts
  <2>1. job' = job /\ id' = Evict(id)
    BY <1>2 DEF Evicts, CancelAll, Running, EvictedId
  <2>2. Emptied(id, id')
    BY <2>1, EvictFields, Facts
  <2>3. (\A w \in Waiters : wait[w] = 0) /\ ~ id.released
    BY <1>2 DEF Evicts, WaitsAnswered, Ended, RowInv, WaitRow, MgrGone, Releasing
  <2>4. RowInv'
    BY <2>1, <2>2, <2>3, Facts
       DEF RowInv, RowDeliveries, OneDelivery, Watching, Suppressing, Releasing, WaitRow, MgrGone,
         HeldOk, Emptied
  <2>5. GotInv'
    BY <2>1, <2>2, Facts
       DEF GotInv, SinkCurrent, CommittedGot, SuppressedGot, ConsumedGot, OnItsWay, Settles, Evicts,
         Emptied
  <2>6. FreshInv'
    BY <1>1, <1>2, <2>1, <2>2, Facts
       DEF FreshInv, RecoveredEnded, QueuedFresh, SinkFresh, GenBound, Ended, Emptied
  <2>7. TranscriptInv => TranscriptInv'
    BY <1>1, <1>2, <2>1, <2>2, Facts
       DEF TranscriptInv, RowTranscript, QueuedRow, SinkTranscript, Emptied
  <2> QED BY <2>4, <2>5, <2>6, <2>7 DEF Goes
<1>3. CASE ~ Evicts
  <2>1. id' = id
    BY <1>3 DEF EvictedId
  <2>2. \A k \in Jobs :
          /\ job'[k].foreground = job[k].foreground
          /\ job'[k].transcript = job[k].transcript
          /\ job'[k].state = IF k = id.row /\ job[k].state = "running" THEN "cancelling"
                             ELSE job[k].state
    BY CancelAllFields
  <2>3. id.row # 0 => job[id.row].state # "done" /\ \A t \in Slots : dl[t].phase = "free"
    BY <1>3, NothingYet DEF Evicts
  <2>4. \A t \in Slots : dl'[t].phase # "free" =>
          dl[t].phase # "free" /\ dl'[t].job = dl[t].job /\ dl'[t].gen = dl[t].gen
    OBVIOUS
  <2>5. id.row # 0 => \A t \in Slots : dl'[t].phase = "free"
    BY <2>3, <2>4
  <2>6. RowInv'
    <3>1. (RowDeliveries /\ OneDelivery /\ Watching)'
      BY <2>1, <2>2, <2>3, <2>4, <2>5, Facts
         DEF RowInv, RowDeliveries, OneDelivery, Watching, Undelivered
    <3>2. (Suppressing /\ Releasing /\ HeldOk)'
      BY <2>1, <2>2, Facts DEF RowInv, Suppressing, Releasing, HeldOk, Ended, IdOk
    <3>3. (WaitRow /\ MgrGone)'
      BY <2>1, <2>2, Facts DEF RowInv, WaitRow, MgrGone
    <3> QED BY <3>1, <3>2, <3>3 DEF RowInv
  <2>7. GotInv'
    <3>1. ~ Evicts' /\ (\A t \in Slots : dl'[t].phase = "sink" => id'.row = 0)
      BY <2>1, <2>2, <2>3, <2>5, Facts DEF Evicts
    <3>2. \A t \in Slots : dl'[t].phase = "committed" =>
            dl[t].phase = "committed" /\ dl'[t].job = dl[t].job
      OBVIOUS
    <3> QED BY <3>1, <3>2
            DEF GotInv, SinkCurrent, CommittedGot, SuppressedGot, ConsumedGot, OnItsWay, Settles
  <2>8. FreshInv'
    BY <1>1, <2>1, <2>2, <2>3, <2>4, <2>5, Facts
       DEF FreshInv, RecoveredEnded, QueuedFresh, SinkFresh, GenBound, Ended
  <2>9. TranscriptInv => TranscriptInv'
    BY <1>1, <2>1, <2>2, <2>3, <2>4, <2>5, Facts
       DEF TranscriptInv, RowTranscript, QueuedRow, SinkTranscript
  <2> QED BY <2>6, <2>7, <2>8, <2>9 DEF Goes
<1> QED BY <1>2, <1>3

LEMMA TransitionGoes ==
  ASSUME HandoverInv, Transition PROVE Goes
<1>1. /\ WaitsAnswered /\ job' = CancelAll /\ id' = EvictedId /\ UNCHANGED <<mgr, wait, got>>
      /\ owner' = "open" /\ gen' = gen + 1 /\ mgr = "up"
  BY DEF Transition, HandoverInv, RowInv, MgrGone, DeliveryInv, RestOk
<1>2. ASSUME NEW t \in Slots
      PROVE \/ dl'[t].phase = "free" /\ dl'[t].gen = 0
            \/ /\ dl'[t].job = dl[t].job /\ dl'[t].gen = dl[t].gen
               /\ \/ dl'[t].phase = dl[t].phase
                  \/ dl[t].phase = "parked" /\ dl'[t].phase = "rejected"
               /\ Evicts => dl'[t].phase # "queued"
  <2>1. dl'[t] = IF dl[t].phase = "parked" THEN [dl[t] EXCEPT !.phase = "rejected"]
                 ELSE Purged[t]
    BY DEF Transition
  <2>2. CASE dl[t].phase = "parked"
    BY <2>1, <2>2, RephaseFields, Facts DEF HandoverInv
  <2>3. CASE dl[t].phase # "parked"
    BY <2>1, <2>3, AcknowledgeFields DEF Purged, NoDelivery
  <2> QED BY <2>2, <2>3
<1> QED BY <1>1, <1>2, OwnerLeaves

LEMMA OwnerGoneGoes ==
  ASSUME HandoverInv, OwnerGone PROVE Goes
<1>1. /\ WaitsAnswered /\ job' = CancelAll /\ id' = EvictedId /\ UNCHANGED <<mgr, wait, got>>
      /\ owner' = "gone" /\ gen' = gen
  BY DEF OwnerGone
<1>2. ASSUME NEW t \in Slots
      PROVE \/ dl'[t].phase = "free" /\ dl'[t].gen = 0
            \/ /\ dl'[t].job = dl[t].job /\ dl'[t].gen = dl[t].gen
               /\ dl'[t].phase = dl[t].phase
               /\ Evicts => dl'[t].phase # "queued"
  BY AcknowledgeFields DEF OwnerGone, Purged, NoDelivery
<1> QED BY <1>1, <1>2, OwnerLeaves

LEMMA BeginDisposeGoes ==
  ASSUME HandoverInv, BeginDispose PROVE Goes
<1> USE DEF HandoverInv
<1>1. /\ owner' = "disposing" /\ mgr = "up" /\ UNCHANGED <<id, job, gen, transcript, mgr, wait, got>>
  BY DEF BeginDispose, RowInv, MgrGone, DeliveryInv, RestOk
<1>2. ASSUME NEW t \in Slots
      PROVE /\ dl'[t].job = dl[t].job /\ dl'[t].gen = dl[t].gen
            /\ dl'[t].phase = IF dl[t].phase = "parked" THEN "rejected" ELSE dl[t].phase
  BY RephaseFields, Facts DEF BeginDispose, Receipts, SlotsIn
<1>3. RowInv'
  BY <1>1, <1>2, Facts
     DEF RowInv, RowDeliveries, OneDelivery, Watching, Suppressing, Releasing, WaitRow, MgrGone,
       HeldOk, Undelivered, Ended
<1>4. GotInv'
  BY <1>1, <1>2, Facts
     DEF GotInv, SinkCurrent, CommittedGot, SuppressedGot, ConsumedGot, OnItsWay, Settles
<1>5. FreshInv'
  BY <1>1, <1>2, Facts DEF FreshInv, RecoveredEnded, QueuedFresh, SinkFresh, GenBound, Ended
<1>6. TranscriptInv => TranscriptInv'
  BY <1>1, <1>2, Facts DEF TranscriptInv, RowTranscript, QueuedRow, SinkTranscript
<1> QED BY <1>3, <1>4, <1>5, <1>6 DEF Goes

LEMMA ReviveGoes ==
  ASSUME HandoverInv, ReviveOwner PROVE Goes
<1> USE DEF HandoverInv
<1>1. /\ owner = "gone" /\ owner' = "open" /\ gen' = gen + 1 /\ mgr = "up"
      /\ UNCHANGED <<id, job, dl, transcript, mgr, wait, got>>
  BY DEF ReviveOwner
<1>2. \A t \in Slots : dl[t].gen < gen + 1
  BY Facts DEF FreshInv, GenBound
<1>3. RowInv'
  BY <1>1, Facts
     DEF RowInv, RowDeliveries, OneDelivery, Watching, Suppressing, Releasing, WaitRow, MgrGone,
       HeldOk, Undelivered, Ended
<1>4. GotInv'
  BY <1>1, Facts
     DEF GotInv, SinkCurrent, CommittedGot, SuppressedGot, ConsumedGot, OnItsWay, Settles, Evicts,
       Suppressed
<1>5. FreshInv'
  BY <1>1, <1>2, Facts DEF FreshInv, RecoveredEnded, QueuedFresh, SinkFresh, GenBound, Ended
<1>6. TranscriptInv => TranscriptInv'
  BY <1>1, <1>2, Facts DEF TranscriptInv, RowTranscript, QueuedRow, SinkTranscript
<1> QED BY <1>3, <1>4, <1>5, <1>6 DEF Goes

LEMMA DisposeManagerGoes ==
  ASSUME HandoverInv, DisposeManager PROVE Goes
<1> USE DEF HandoverInv
<1>1. /\ owner = "gone" /\ mgr = "up" /\ mgr' = "disposing"
      /\ UNCHANGED <<dl, owner, gen, transcript, wait, got>>
  BY DEF DisposeManager
<1>2. /\ id'.row = id.row /\ id'.suppressed = id.suppressed /\ id'.watched = id.watched
      /\ id'.consumed = id.consumed /\ id'.released = id.released /\ id'.timer.at = "off"
  BY Facts DEF DisposeManager, Ids, NoTimer
<1>3. \A k \in Jobs :
        /\ job'[k].foreground = job[k].foreground
        /\ job'[k].transcript = job[k].transcript
        /\ job'[k].state = IF k = id.row /\ job[k].state = "running" THEN "cancelling"
                           ELSE job[k].state
  BY CancelAllFields DEF DisposeManager
<1>4. RowInv'
  BY <1>1, <1>2, <1>3, Facts
     DEF RowInv, RowDeliveries, OneDelivery, Watching, Suppressing, Releasing, WaitRow, MgrGone,
       HeldOk, Undelivered, Ended
<1>5. GotInv'
  BY <1>1, <1>2, <1>3, Facts
     DEF GotInv, SinkCurrent, CommittedGot, SuppressedGot, ConsumedGot, OnItsWay, Settles, Evicts,
       Suppressed
<1>6. FreshInv'
  BY <1>1, <1>2, <1>3, Facts
     DEF FreshInv, RecoveredEnded, QueuedFresh, SinkFresh, GenBound, Ended
<1>7. TranscriptInv => TranscriptInv'
  BY <1>1, <1>2, <1>3, Facts DEF TranscriptInv, RowTranscript, QueuedRow, SinkTranscript
<1> QED BY <1>4, <1>5, <1>6, <1>7 DEF Goes

LEMMA ManagerDownGoes ==
  ASSUME HandoverInv, ManagerDown PROVE Goes
<1> USE DEF HandoverInv
<1>1. /\ owner = "gone" /\ mgr' = "down" /\ UNCHANGED <<job, owner, gen, transcript, wait, got>>
  BY DEF ManagerDown, RowInv, MgrGone
<1>2. /\ id'.row = 0 /\ ~ id'.suppressed /\ ~ id'.watched /\ ~ id'.consumed /\ ~ id'.released
      /\ id'.timer.at = "off"
  BY Facts DEF ManagerDown, Evict, Ids, NoTimer
<1>3. ASSUME NEW t \in Slots
      PROVE /\ dl'[t].phase # "queued"
            /\ dl'[t].phase # "free" =>
                 dl'[t] = dl[t] /\ dl'[t].gen = dl[t].gen /\ dl'[t].job = dl[t].job
            /\ dl'[t].gen \in {0, dl[t].gen}
  BY DEF ManagerDown, NoDelivery
<1>4. RowInv'
  BY <1>1, <1>2, <1>3, Facts
     DEF RowInv, RowDeliveries, OneDelivery, Watching, Suppressing, Releasing, WaitRow, MgrGone,
       HeldOk
<1>5. GotInv'
  BY <1>1, <1>2, <1>3, Facts
     DEF GotInv, SinkCurrent, CommittedGot, SuppressedGot, ConsumedGot, OnItsWay, Settles, Evicts
<1>6. FreshInv'
  BY <1>1, <1>2, <1>3, Facts
     DEF FreshInv, RecoveredEnded, QueuedFresh, SinkFresh, GenBound, Ended
<1>7. TranscriptInv => TranscriptInv'
  BY <1>1, <1>2, <1>3, Facts DEF TranscriptInv, RowTranscript, QueuedRow, SinkTranscript
<1> QED BY <1>4, <1>5, <1>6, <1>7 DEF Goes

-----------------------------------------------------------------------------
LEMMA InitHandover == Init => HandoverInv /\ TranscriptInv
<1> SUFFICES ASSUME Init PROVE HandoverInv /\ TranscriptInv
  OBVIOUS
<1>1. DeliveryInv
  BY InitInv
<1>2. /\ id.row = 0 /\ ~ id.suppressed /\ ~ id.watched /\ ~ id.consumed /\ ~ id.released
      /\ id.timer.at = "off" /\ mgr = "up" /\ gen = 1
      /\ \A s \in Slots : dl[s].phase = "free" /\ dl[s].gen = 0
      /\ \A i \in Jobs : got[i] = {}
      /\ \A w \in Waiters : wait[w] = 0
  BY DEF Init, NoTimer, NoDelivery
<1>3. RowInv
  BY <1>2 DEF RowInv, RowDeliveries, OneDelivery, Watching, Suppressing, Releasing, WaitRow,
    MgrGone, HeldOk
<1>4. GotInv
  BY <1>2 DEF GotInv, SinkCurrent, CommittedGot, SuppressedGot, ConsumedGot, OnItsWay, Settles,
    Evicts
<1>5. FreshInv
  BY <1>2 DEF FreshInv, RecoveredEnded, QueuedFresh, SinkFresh, GenBound
<1>6. TranscriptInv
  BY <1>2 DEF TranscriptInv, RowTranscript, QueuedRow, SinkTranscript
<1> QED BY <1>1, <1>3, <1>4, <1>5, <1>6 DEF HandoverInv

LEMMA NextGoes ==
  ASSUME HandoverInv, ~ Overlap, [Next]_vars PROVE Goes
<1>1. CASE UNCHANGED vars
  <2>1. UNCHANGED vars
    BY <1>1
  <2> USE <2>1 DEF vars
  <2>2. RowInv'
    BY DEF HandoverInv, RowInv, RowDeliveries, OneDelivery, Watching, Suppressing, Releasing,
      WaitRow, MgrGone, HeldOk, Undelivered, Ended
  <2>3. GotInv'
    BY DEF HandoverInv, GotInv, SinkCurrent, CommittedGot, SuppressedGot, ConsumedGot, OnItsWay,
      Settles, Evicts, Suppressed
  <2>4. FreshInv'
    BY DEF HandoverInv, FreshInv, RecoveredEnded, QueuedFresh, SinkFresh, GenBound, Ended
  <2>5. TranscriptInv => TranscriptInv'
    BY DEF TranscriptInv, RowTranscript, QueuedRow, SinkTranscript
  <2> QED BY <2>2, <2>3, <2>4, <2>5 DEF Goes
<1>2. CASE \E s \in Slots : Settle(s)
  BY <1>2, SettleGoes
<1>3. CASE JobStep
  BY <1>3, RegisterGoes, PublishGoes, RunEndsGoes, CancelGoes DEF JobStep
<1>4. CASE CallStep
  BY <1>4, ReturnsGoes, AbortsGoes, PromoteGoes, RecoverGoes, BlockGoes, InterruptedGoes,
    ReportsGoes DEF CallStep
<1>5. CASE DeliveryStep
  BY <1>5, DropGoes, AttemptGoes, FormattedGoes, FlushGoes, CommitGoes, DiscardGoes
     DEF DeliveryStep
<1>6. CASE TimerFires
  BY <1>6, TimerGoes
<1>7. CASE OwnerStep
  BY <1>7, TransitionGoes, BeginDisposeGoes, OwnerGoneGoes, ReviveGoes, DisposeManagerGoes,
    ManagerDownGoes DEF OwnerStep
<1> QED BY <1>1, <1>2, <1>3, <1>4, <1>5, <1>6, <1>7 DEF Next

LEMMA NextHandover ==
  ~ Overlap /\ HandoverInv /\ [Next]_vars => HandoverInv'
BY NextGoes, NextInv DEF HandoverInv, Goes

LEMMA NextTranscript ==
  ~ Overlap /\ ~ SlowRetries /\ HandoverInv /\ TranscriptInv /\ [Next]_vars => TranscriptInv'
BY NextGoes DEF Goes

LEMMA HandoverInvariant ==
  ASSUME ~ Overlap PROVE Spec => []HandoverInv
<1>1. Init => HandoverInv
  BY InitHandover
<1>2. HandoverInv /\ [Next]_vars => HandoverInv'
  BY NextHandover
<1> QED BY <1>1, <1>2, PTL DEF Spec

LEMMA TranscriptInvariant ==
  ASSUME ~ Overlap, ~ SlowRetries PROVE Spec => []TranscriptInv
<1>1. Init => TranscriptInv
  BY InitHandover
<1>2. HandoverInv /\ TranscriptInv /\ [Next]_vars => TranscriptInv'
  BY NextTranscript
<1> QED BY <1>1, <1>2, HandoverInvariant, PTL DEF Spec

\* While an id is used again only after its deliveries are through, a settled
\* result that nobody has, that nothing suppresses and no wait watches is on its
\* way: whatever ended the wait, and however often its message was discarded.
THEOREM NothingStranded ==
  ASSUME ~ Overlap PROVE Spec => []NoResultStranded
<1>1. HandoverInv => NoResultStranded
  BY DEF HandoverInv, GotInv, OnItsWay, Settles, NoResultStranded
<1> QED BY <1>1, HandoverInvariant, PTL

\* Under the same condition, a settled result marked consumed was put into the
\* context, recovered or returned while the owner's session is open.
THEOREM ConsumedHandedOver ==
  ASSUME ~ Overlap PROVE Spec => []ConsumedWasHandedOver
<1>1. HandoverInv => ConsumedWasHandedOver
  BY DEF HandoverInv, GotInv, ConsumedGot, Settles, ConsumedWasHandedOver
<1> QED BY <1>1, HandoverInvariant, PTL

\* A new delivery takes the place of none.
LEMMA EnqueueKeeps ==
  ASSUME NEW f \in [Slots -> Deliveries], NEW d, NEW i, Suppressed(d) \/ FreeSlots(f) # {},
         NEW s \in Slots, f[s].phase # "free"
  PROVE Enqueue(d, f, i)[s] = f[s]
<1>1. CASE Suppressed(d)
  BY <1>1 DEF Enqueue
<1>2. CASE ~ Suppressed(d)
  <2> DEFINE t == AnyOf(FreeSlots(f))
             e == [job |-> i, phase |-> "queued", gen |-> 0]
  <2>1. t \in Slots /\ f[t].phase = "free"
    BY <1>2 DEF AnyOf, FreeSlots
  <2>2. Enqueue(d, f, i) = [f EXCEPT ![t] = e]
    BY <1>2 DEF Enqueue
  <2> HIDE DEF t, e
  <2> QED BY <2>1, <2>2
<1> QED BY <1>1, <1>2

\* A step other than a flush leaves a parked entry parked, rejects it, or drops it.
LEMMA ParkedStep ==
  ASSUME HandoverInv, [Next]_vars, ~ Flush, NEW s \in Slots, dl[s].phase = "parked"
  PROVE dl'[s] = dl[s] \/ dl'[s].phase # "message"
<1> USE DEF HandoverInv
<1>0. /\ dl[s] \in Deliveries /\ NoDelivery.phase = "free" /\ dl \in [Slots -> Deliveries]
      /\ \A ph : [dl[s] EXCEPT !.phase = ph].phase = ph
      /\ Acknowledge(dl) \in [Slots -> Deliveries] /\ Acknowledge(dl)[s] = dl[s]
  <2>1. DlOk(dl, job) /\ DlOk(Acknowledge(dl), job)
    BY AcknowledgeOk DEF DeliveryInv
  <2>2. \A ph : [dl[s] EXCEPT !.phase = ph].phase = ph
    BY RephaseFields
  <2>3. Acknowledge(dl)[s] = dl[s]
    BY AcknowledgeFields
  <2> QED BY <2>1, <2>2, <2>3 DEF NoDelivery, DlOk
<1>1. CASE UNCHANGED vars
  BY <1>1 DEF vars
<1>2. ASSUME NEW t \in Slots, Settle(t) PROVE dl'[s] = dl[s] \/ dl'[s].phase # "message"
  <2>1. dl' = [dl EXCEPT ![t] = NoDelivery] \/ dl' = [dl EXCEPT ![t].phase = "queued"]
    BY <1>2 DEF Settle, Requeued
  <2>2. dl'[s] \in {dl[s], NoDelivery, [dl[s] EXCEPT !.phase = "queued"]}
    BY <1>0, <2>1
  <2> QED BY <1>0, <2>2
<1>3. CASE DeliveryStep
  <2>1. ASSUME NEW t \in Slots, DropSuppressed(t) \/ Attempt(t) \/ Formatted(t)
        PROVE dl'[s] = dl[s]
    BY <1>0, <2>1 DEF DropSuppressed, Attempt, Formatted
  <2>2. CASE Commit
    BY <1>0, <2>2 DEF Commit, Receipts, SlotsIn
  <2>3. CASE DiscardMessage
    BY <1>0, <2>3 DEF DiscardMessage, Receipts, SlotsIn
  <2> QED BY <1>3, <2>1, <2>2, <2>3 DEF DeliveryStep
<1>4. CASE JobStep
  <2>1. CASE (\E fg \in BOOLEAN : Register(fg)) \/ (\E a \in BOOLEAN : Cancel(a))
    BY <1>0, <2>1 DEF Register, Cancel
  <2>2. CASE PublishCompleted
    BY <1>0, <2>2, EnqueueKeeps DEF PublishCompleted, MayEnqueue
  <2>3. CASE \E i \in Jobs : RunEnds(i)
    BY <1>0, <2>3, EnqueueKeeps DEF RunEnds, MayEnqueue
  <2> QED BY <1>4, <2>1, <2>2, <2>3 DEF JobStep
<1>5. CASE CallStep
  <2>1. CASE ForegroundReturns \/ ForegroundAborts
    BY <2>1 DEF ForegroundReturns, ForegroundAborts
  <2>2. CASE Promote
    BY <1>0, <2>2, EnqueueKeeps DEF Promote, MayEnqueue
  <2>3. CASE Recover
    BY <1>0, <2>3 DEF Recover
  <2>4. ASSUME NEW f \in [Slots -> Deliveries], NEW d, f[s] = dl[s], Unwatch(d, f)
        PROVE dl'[s] = dl[s]
    BY <1>0, <2>4, EnqueueKeeps DEF Unwatch
  <2>5. ASSUME NEW w \in Waiters, Block(w) \/ Interrupted(w) \/ Reports(w)
        PROVE dl'[s] = dl[s]
    BY <1>0, <2>4, <2>5 DEF Block, Interrupted, Reports
  <2> QED BY <1>5, <2>1, <2>2, <2>3, <2>5 DEF CallStep
<1>6. CASE TimerFires
  BY <1>6 DEF TimerFires
<1>7. CASE OwnerStep
  <2>1. CASE Transition
    BY <1>0, <2>1 DEF Transition
  <2>2. CASE BeginDispose
    BY <1>0, <2>2 DEF BeginDispose, Receipts, SlotsIn
  <2>3. CASE OwnerGone
    BY <1>0, <2>3 DEF OwnerGone, Purged
  <2>4. CASE ReviveOwner \/ DisposeManager \/ ManagerDown
    BY <1>0, <2>4 DEF ReviveOwner, DisposeManager, ManagerDown
  <2> QED BY <1>7, <2>1, <2>2, <2>3, <2>4 DEF OwnerStep
<1> QED BY <1>1, <1>2, <1>3, <1>4, <1>5, <1>6, <1>7 DEF Next

\* Only a flush puts a parked entry into a message, and it turns the stale ones
\* away.
LEMMA OnlyFlush ==
  ASSUME HandoverInv, [Next]_vars, NEW s \in Slots,
         dl[s].phase = "parked", dl'[s].phase = "message"
  PROVE owner = "open" /\ ~ Stale(s)
<1>1. Flush
  BY ParkedStep
<1>2. dl'[s].phase = IF Stale(s) THEN "rejected" ELSE "message"
  BY <1>1, RephaseFields DEF Flush, SlotsIn, HandoverInv
<1> QED BY <1>1, <1>2 DEF Flush

\* Under the same condition, a result that a snapshot recovered is not put into a
\* message afterwards: the row outlives the attempt, so the flush meets the
\* marker, or the epoch or the session that it was formatted for is gone.
THEOREM RecoveredStaysOut ==
  ASSUME ~ Overlap PROVE Spec => RecoveredNotFlushed
<1>1. HandoverInv /\ [Next]_vars =>
        [\A s \in Slots : dl[s].phase = "parked" /\ dl'[s].phase = "message"
           => "recovered" \notin got[dl[s].job]]_vars
  BY OnlyFlush DEF HandoverInv, FreshInv, SinkFresh, Stale, Suppressed
<1> QED BY <1>1, HandoverInvariant, PTL DEF Spec, RecoveredNotFlushed

\* While moreover a retry is through before the row's timer fires, a result enters
\* only the transcript its job was started for.
THEOREM OwnTranscript ==
  ASSUME ~ Overlap, ~ SlowRetries PROVE Spec => SameTranscript
<1>1. HandoverInv /\ TranscriptInv /\ [Next]_vars =>
        [\A s \in Slots : dl[s].phase = "parked" /\ dl'[s].phase = "message"
           => job[dl[s].job].transcript = transcript]_vars
  BY OnlyFlush DEF TranscriptInv, SinkTranscript, Stale
<1> QED BY <1>1, HandoverInvariant, TranscriptInvariant, PTL DEF Spec, SameTranscript
=============================================================================
