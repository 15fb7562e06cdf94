------------------------- MODULE AgentSessionProofs -------------------------
(***************************************************************************)
(* What is proved of the sessions of AgentLifecycle for every number of    *)
(* callers, killers, generations and sessions, on top of                   *)
(* AgentLifecycleProofs: who holds which session (SessionInv), what keeps  *)
(* parks, revivals, kills and the task executor out of one another's way   *)
(* (ControlInv), and from both that no message is routed into a session    *)
(* that is being disposed.  While a reopen removes the tombstone no        *)
(* further generation is registered (~SlowRemoval).                        *)
(***************************************************************************)
EXTENDS AgentLifecycleProofs

\* Session s exists and was created for reference r (SessionOf, in this state
\* and in the next one).
SessionOf(r, s)     == r \in Refs /\ s \in 1 .. nsess /\ sref[s] = r
SessionOfNext(r, s) == r \in Refs /\ s \in 1 .. nsess' /\ sref'[s] = r

\* No operation holds a generation that does not exist.
RefsGiven ==
  /\ adopted.ref <= nrefs /\ park.ref <= nrefs /\ spawn.ref <= nrefs
  /\ \A k \in Releasers : rel[k].ref <= nrefs

\* A row's session was created for its reference; so was the one a revival
\* holds, the one a park disposes and the one a release took, which for a kill
\* is one of a killed reference.
Holding == {"attached", "failing", "stale"}
RefSessions  == \A r \in Refs : sess[r] # 0 => SessionOf(r, sess[r])
CallSessions == \A c \in Callers : IF call[c].pc \in Holding
                                   THEN SessionOf(call[c].ref, call[c].s) ELSE call[c].s = 0
ParkSession  == park.phase # "none" => SessionOf(park.ref, park.s)
ReleaseSessions ==
  \A k \in Releasers : rel[k].live # 0 =>
    /\ SessionOf(rel[k].ref, rel[k].live)
    /\ rel[k].tombstone => status[rel[k].ref] = "aborted"

\* The executor's session, too.
SpawnSession ==
  /\ spawn.pc = "run" => SessionOf(spawn.ref, spawn.s)
  /\ spawn.pc = "dispose" => spawn.s \in 1 .. nsess /\ spawn.ref \in {0, sref[spawn.s]}
  /\ spawn.pc \in {"idle", "probe", "build"} => spawn.s = 0
  /\ spawn.pc \in {"probe", "build"} => spawn.ref \in Refs

\* No two revivals hold one session, nor a revival the executor's.
OwnSession ==
  /\ \A c, d \in Callers : call[c].s # 0 /\ call[c].s = call[d].s => c = d
  /\ \A c \in Callers : spawn.s # 0 => call[c].s # spawn.s

SessionInv ==
  /\ RefsGiven /\ RefSessions /\ CallSessions /\ ParkSession /\ ReleaseSessions
  /\ SpawnSession /\ OwnSession

\* #parks holds the park in flight until the manager's dispose clears it.
ParkMapped == mgr = "up" => (park.mapped <=> park.phase # "none")

\* Whoever a park wakes has gone on before another park starts.
NoParkQueued ==
  mgr = "up" /\ park.phase # "none" =>
    /\ \A c \in Callers : call[c].pc \notin {"kept", "resume"}
    /\ \A k \in Releasers : rel[k].pc # "strike"

\* The reference that is parked is neither revived, reopened, run by the
\* executor nor killed meanwhile.
ParkAlone ==
  mgr = "up" /\ park.phase # "none" =>
    /\ \A c \in Callers : call[c].ref = park.ref =>
         call[c].pc \notin {"probe", "claim", "build", "attached", "stale", "dropTombstone", "reopened"}
    /\ spawn.pc \in {"build", "run", "dispose"} => spawn.ref # park.ref
    /\ park.ref = cur => status[cur] # "aborted"

\* During its yield the park's reference keeps the id and its session, or gives
\* up either for good; while it disposes the session, the row is parked and
\* detached from it.
ParkYields   == park.phase = "yield" => cur \in {0, park.ref}
YieldSession == mgr = "up" /\ park.phase = "yield" => sess[park.ref] \in {0, park.s}
ParkDetached == park.phase = "dispose" => sess[park.ref] # park.s
ParkDisposes == mgr = "up" /\ park.phase = "dispose" => status[park.ref] = "parked"

ParkInv ==
  /\ ParkMapped /\ NoParkQueued /\ ParkAlone /\ ParkYields /\ YieldSession
  /\ ParkDetached /\ ParkDisposes

\* The reference a call revives stays parked until its reviver has attached a
\* session, and then runs with that one and with its TTL off, unless it is
\* killed; a session that was attached and not published belongs to a killed
\* reference.
NotYetUp == mgr = "up" => \A c \in Callers :
  call[c].ref = cur /\ call[c].pc \in {"probe", "claim", "build"} => status[cur] \in {"parked", "aborted"}
AttachedRuns == mgr = "up" => \A c \in Callers :
  call[c].ref = cur /\ call[c].pc = "attached" =>
    \/ status[cur] = "aborted"
    \/ status[cur] = "running" /\ sess[cur] = call[c].s /\ (adopted.ref = cur => ~adopted.timer)
StaleIsKilled == mgr = "up" => \A c \in Callers :
  call[c].ref = cur /\ call[c].pc = "stale" => status[cur] = "aborted"

\* What the executor builds or runs is not adopted, nor revived, and a run keeps
\* its session attached, unless it is killed.
Spawning == mgr = "up" /\ spawn.pc = "build" /\ spawn.ref = cur =>
  /\ status[cur] \in {"running", "aborted"} /\ sess[cur] = 0 /\ adopted.ref # cur
  /\ \A c \in Callers : Reviving(c) => call[c].ref # cur
Spawned == mgr = "up" /\ spawn.pc \in {"run", "dispose"} /\ spawn.ref = cur /\ cur # 0 =>
  \/ status[cur] = "aborted"
  \/ /\ status[cur] \in {"running", "idle"} /\ sess[cur] = spawn.s /\ adopted.ref # cur
     /\ \A c \in Callers : Reviving(c) => call[c].ref # cur

ControlInv == ParkInv /\ NotYetUp /\ AttachedRuns /\ StaleIsKilled /\ Spawning /\ Spawned

RoutedInv == RevivalInv /\ SessionInv /\ ControlInv

-----------------------------------------------------------------------------
(* Sessions are held *)

\* Sessions are only added.
Grows == nsess <= nsess' /\ \A s \in 1 .. nsess : sref'[s] = sref[s]

\* A session keeps the reference it was created for.
LEMMA SessionOfStays ==
  ASSUME LifecycleInv, LifecycleInv', Grows, NEW r, NEW s, SessionOf(r, s)
  PROVE SessionOfNext(r, s)
BY LifecycleAssumption DEF SessionOf, SessionOfNext, Grows, LifecycleInv, TypeOK

\* Where a call's session comes from.
LetsGo(x) == call'[x].pc \notin Holding /\ call'[x].s = 0
Keeps(x)  == /\ call[x].pc \in Holding <=> call'[x].pc \in Holding
             /\ call'[x].s = call[x].s
             /\ call[x].pc \in Holding => call'[x].ref = call[x].ref
Gets(x)   == call'[x].pc \in Holding /\ SessionOfNext(call'[x].ref, call'[x].s) /\ call'[x].s = nsess + 1

\* A step in which one call may get a session of its own ...
LEMMA CallsHold ==
  ASSUME LifecycleInv, LifecycleInv', SessionInv, Grows, NEW c \in Callers,
         \A x \in Callers : x # c => LetsGo(x) \/ Keeps(x),
         LetsGo(c) \/ Keeps(c) \/ Gets(c), spawn'.s \in {0, spawn.s}
  PROVE CallSessions' /\ OwnSession'
<1>0. nsess \in Nat /\ spawn.s <= nsess /\ \A x \in Callers : call[x].s <= nsess
  BY LifecycleAssumption DEF SessionInv, CallSessions, SpawnSession, SessionOf, LifecycleInv, TypeOK, Spawns
<1>1. CallSessions'
  BY SessionOfStays DEF SessionInv, CallSessions, SessionOf, SessionOfNext, LetsGo, Keeps, Gets
<1>2. OwnSession'
  BY <1>0 DEF SessionInv, OwnSession, LetsGo, Keeps, Gets
<1> QED BY <1>1, <1>2

\* ... and one in which no call does.
LEMMA CallsHoldStill ==
  ASSUME LifecycleInv, LifecycleInv', SessionInv, Grows,
         \A x \in Callers : LetsGo(x) \/ Keeps(x), spawn'.s \in {0, spawn.s}
  PROVE CallSessions' /\ OwnSession'
<1>1. CallSessions'
  BY SessionOfStays DEF SessionInv, CallSessions, SessionOf, SessionOfNext, LetsGo, Keeps
<1>2. OwnSession'
  BY DEF SessionInv, OwnSession, LetsGo, Keeps
<1> QED BY <1>1, <1>2

\* A release keeps the session it took from a reference.
LEMMA ReleasesHold ==
  ASSUME LifecycleInv, LifecycleInv', SessionInv, Grows, KilledStays,
         \A k \in Releasers : \/ rel'[k].live = 0
                              \/ /\ rel'[k].live = rel[k].live /\ rel'[k].ref = rel[k].ref
                                 /\ rel'[k].tombstone = rel[k].tombstone
  PROVE ReleaseSessions'
<1>1. \A r \in Refs : status[r] = "aborted" => status'[r] = "aborted"
  BY LifecycleAssumption DEF KilledStays, LifecycleInv, TypeOK, Generations, Refs
<1>2. SUFFICES ASSUME NEW k \in Releasers, rel'[k].live # 0
      PROVE /\ SessionOfNext(rel'[k].ref, rel'[k].live)
            /\ rel'[k].tombstone => status'[rel'[k].ref] = "aborted"
  BY DEF ReleaseSessions, SessionOf, SessionOfNext
<1>3. SessionOf(rel[k].ref, rel[k].live) /\ (rel[k].tombstone => status[rel[k].ref] = "aborted")
  BY <1>2 DEF SessionInv, ReleaseSessions
<1> QED BY <1>1, <1>2, <1>3, SessionOfStays DEF SessionOfNext

-----------------------------------------------------------------------------
\* The steps, with the three callers of release taken together.
ReleaseOp ==
  \E k \in Releasers, e \in 0 .. MaxRef, t \in BOOLEAN :
    /\ Release(k, e, t)
    /\ spawn' = spawn \/ (spawn' = NoSpawn /\ OwnsRef)
    /\ mgr' \in {mgr, "disposing"}
    /\ mgr' = "up" => k \in Killers /\ t \in Tombstones

\* The owner disposes a manager that holds no agent.
Idles == DisposeBegins /\ UNCHANGED <<registryVars, sessionVars, adopted, park, callVars, rel, spawn, factory, tomb>>

\* The steps of an ensureLive call outside of a revival ...
CallNext(c) ==
  \/ EnsureLive(c) \/ Forget(c) \/ Kept(c) \/ Resume(c)
  \/ ReopenProbed(c) \/ DropTombstone(c) \/ Reopened(c)

\* ... and those of the revival it owns.
ReviverNext(c) ==
  \/ Probed(c) \/ ReviverClaims(c) \/ ReviverAttaches(c) \/ ReviverFails(c)
  \/ ReviverUnwinds(c) \/ ReviverFailsLate(c) \/ ReviverReturns(c)
  \/ ReviverReturnsDetached(c) \/ DiscardEnds(c)

\* Every step is one of these.
LEMMA Steps ==
  ASSUME LifecycleInv, [Next]_vars
  PROVE \/ SpawnNext \/ TimerFires \/ ParkNext
        \/ \E st \in {"running", "idle"} : RunState(st)
        \/ \E c \in Callers : CallNext(c) \/ ReviverNext(c)
        \/ ReleaseOp \/ Idles
        \/ \E k \in Releasers : ReleaseStep(k)
        \/ DisposeEnds \/ UNCHANGED vars
<1> USE LifecycleAssumption
<1>1. ASSUME NEW c \in Callers, EnsureLive(c) \/ Forget(c) \/ CallStep(c)
      PROVE CallNext(c) \/ ReviverNext(c)
  BY <1>1 DEF CallStep, CallNext, ReviverNext
<1>2. ASSUME NEW k \in Killers, NEW e \in 0 .. MaxRef, NEW t \in Tombstones,
             ReleaseCalled(k, e, t)
      PROVE ReleaseOp
  BY <1>2 DEF ReleaseCalled, ReleaseOp, Releasers
<1>3. ASSUME NEW k \in Killers, NEW t \in Tombstones, FinalizeAborted(k, t)
      PROVE ReleaseOp
  BY <1>3 DEF FinalizeAborted, ReleaseOp, Releasers, LifecycleInv, TypeOK
<1>4. CASE DisposeBegins
  <2>1. CASE Release(Owner, 0, FALSE)
    <3>1. /\ Owner \in Releasers /\ 0 \in 0 .. MaxRef /\ FALSE \in BOOLEAN
          /\ spawn' = spawn /\ mgr' = "disposing" /\ mgr' # "up"
      BY <1>4 DEF DisposeBegins, Releasers
    <3> QED BY <2>1, <3>1 DEF ReleaseOp
  <2> QED BY <1>4, <2>1 DEF DisposeBegins, Idles
<1> QED BY <1>1, <1>2, <1>3, <1>4 DEF Next

\* No step removes a session or gives it to another reference.
LEMMA NextGrows == LifecycleInv /\ [Next]_vars => Grows
<1> SUFFICES ASSUME LifecycleInv, [Next]_vars PROVE Grows
  OBVIOUS
<1> USE DEF sessionVars
<1>0. ASSUME UNCHANGED <<nsess, sref>> PROVE Grows
  BY <1>0, LifecycleAssumption DEF Grows, LifecycleInv, TypeOK
<1>a. ASSUME NEW r, nsess' = nsess + 1, sref' = [sref EXCEPT ![nsess + 1] = r] PROVE Grows
  BY <1>a, LifecycleAssumption DEF Grows, LifecycleInv, TypeOK, Sessions
<1>1. CASE SpawnNext
  BY <1>0, <1>a, <1>1
     DEF SpawnNext, SpawnStart, SpawnProbed, SpawnRegisters, SpawnAttach, Create, SpawnFail,
         FinalizeKeepAlive, FinalizeDispose, FinalizeDisposed
<1>2. CASE TimerFires \/ ParkNext \/ \E st \in {"running", "idle"} : RunState(st)
  BY <1>0, <1>2 DEF TimerFires, ParkNext, ParkAborts, ParkCommits, ParkEnds, RunState
<1>3. ASSUME NEW c \in Callers, CallNext(c) PROVE Grows
  BY <1>0, <1>3 DEF CallNext, EnsureLive, Forget, Kept, Resume, ReopenProbed, DropTombstone, Reopened
<1>4. ASSUME NEW c \in Callers, ReviverNext(c) PROVE Grows
  BY <1>0, <1>a, <1>4
     DEF ReviverNext, Probed, ReviverClaims, ReviverAttaches, Create, ReviverFails, ReviverUnwinds,
         ReviverFailsLate, ReviverReturns, ReviverReturnsDetached, DiscardEnds
<1>5. CASE ReleaseOp \/ Idles \/ \E k \in Releasers : ReleaseStep(k)
  BY <1>0, <1>5 DEF ReleaseOp, Release, Idles, ReleaseStep, ReleaseStrikes, ReleaseDisposed,
                    ReleaseEnds, TombstonePersisted
<1>6. CASE DisposeEnds \/ UNCHANGED vars
  BY <1>0, <1>6 DEF DisposeEnds, vars
<1> QED BY <1>1, <1>2, <1>3, <1>4, <1>5, <1>6, Steps

\* Every step keeps the parts of SessionInv.
LEMMA NextRefSessions ==
  ASSUME RevivalInv, LifecycleInv', SessionInv, Grows, [Next]_vars PROVE RefSessions'
<1> USE DEF registryVars, RevivalInv, SessionInv, sessionVars
<1>0. ASSUME UNCHANGED sess PROVE RefSessions'
  BY <1>0, SessionOfStays DEF RefSessions, SessionOf, SessionOfNext
<1>a. ASSUME NEW r, NEW s, s = 0 \/ SessionOfNext(r, s), sess' = [sess EXCEPT ![r] = s]
      PROVE RefSessions'
  BY <1>a, SessionOfStays DEF RefSessions, SessionOf, SessionOfNext, LifecycleInv, TypeOK
<1>b. ASSUME NEW r \in Refs, nsess < MaxSession, nsess' = nsess + 1, sref' = [sref EXCEPT ![nsess + 1] = r]
      PROVE SessionOfNext(r, nsess + 1)
  BY <1>b, LifecycleAssumption DEF SessionOfNext, LifecycleInv, TypeOK, Sessions
<1>1. CASE SpawnNext
  <2>1. CASE SpawnAttach
    BY <1>a, <1>b, <2>1 DEF SpawnAttach, Create, SpawnSession
  <2> QED BY <1>0, <1>1, <2>1
     DEF SpawnNext, SpawnStart, SpawnProbed, SpawnRegisters, Register, SpawnFail,
         FinalizeKeepAlive, FinalizeDispose, FinalizeDisposed
<1>2. CASE TimerFires \/ ParkNext \/ \E st \in {"running", "idle"} : RunState(st)
  BY <1>0, <1>a, <1>2 DEF TimerFires, ParkNext, ParkAborts, ParkCommits, ParkEnds, RunState
<1>3. ASSUME NEW c \in Callers, CallNext(c) PROVE RefSessions'
  BY <1>0, <1>3 DEF CallNext, EnsureLive, Forget, Kept, Resume, ReopenProbed, Register, DropTombstone, Reopened
<1>4. ASSUME NEW c \in Callers, ReviverNext(c) PROVE RefSessions'
  <2>0. call[c].ref \in 0 .. MaxRef
    BY DEF LifecycleInv, TypeOK, Calls
  <2>1. CASE ReviverAttaches(c)
    BY <1>a, <1>b, <2>1 DEF ReviverAttaches, Create, CallRefs, Reviving
  <2>2. CASE ReviverReturns(c)
    BY <1>0, <1>a, <2>2, SessionOfStays DEF ReviverReturns, Publish, CallSessions, Holding
  <2>3. CASE ReviverReturnsDetached(c)
    BY <1>0, <1>a, <1>b, <2>3 DEF ReviverReturnsDetached, Publish, CallRefs, Reviving
  <2> QED BY <1>0, <1>4, <2>1, <2>2, <2>3
     DEF ReviverNext, Probed, ReviverClaims, ReviverFails, ReviverUnwinds,
         ReviverFailsLate, DiscardEnds
<1>5. CASE ReleaseOp \/ Idles \/ \E k \in Releasers : ReleaseStep(k)
  BY <1>0, <1>a, <1>5 DEF ReleaseOp, Release, Strike, Idles, ReleaseStep, ReleaseStrikes, ReleaseDisposed,
                    ReleaseEnds, TombstonePersisted
<1>6. CASE DisposeEnds \/ UNCHANGED vars
  BY <1>0, <1>6 DEF DisposeEnds, vars
<1> QED BY <1>1, <1>2, <1>3, <1>4, <1>5, <1>6, Steps

LEMMA NextCallSessions ==
  ASSUME RevivalInv, LifecycleInv', SessionInv, Grows, [Next]_vars
  PROVE CallSessions' /\ OwnSession'
<1> USE DEF registryVars, RevivalInv, sessionVars, callVars
<1> DEFINE Goal == CallSessions' /\ OwnSession'
<1>0. ASSUME UNCHANGED call, spawn'.s \in {0, spawn.s} PROVE Goal
  BY <1>0, CallsHoldStill DEF Keeps
<1>a. ASSUME UNCHANGED spawn, \A x \in Callers : LetsGo(x) \/ Keeps(x) PROVE Goal
  BY <1>a, CallsHoldStill
<1>b. ASSUME NEW c \in Callers, UNCHANGED spawn, LetsGo(c) \/ Keeps(c) \/ Gets(c),
             \A x \in Callers : x # c => call'[x] = call[x]
      PROVE Goal
  BY <1>b, CallsHold DEF Keeps
<1>c. ASSUME NEW c \in Callers, NEW pc, NEW s, SettleShared(c, pc, s), UNCHANGED spawn PROVE Goal
  <2>1. \A x \in Callers : LetsGo(x) \/ Keeps(x)
    BY <1>c DEF SettleShared, LetsGo, Keeps, NotCalling, Holding
  <2> QED BY <1>a, <1>c, <2>1
<1>d. call \in [Callers -> Calls]
  BY DEF LifecycleInv, TypeOK
<1>1. CASE SpawnNext
  <2>1. CASE SpawnAttach
    <3>1. spawn'.s = nsess + 1 /\ UNCHANGED call /\ \A x \in Callers : call[x].s <= nsess
      BY <2>1, LifecycleAssumption
         DEF SpawnAttach, SessionInv, CallSessions, SessionOf, LifecycleInv, TypeOK
    <3>2. nsess \in Nat /\ \A x \in Callers : call[x].s # nsess + 1
      BY <1>d, <3>1, LifecycleAssumption DEF LifecycleInv, TypeOK, Calls
    <3>3. \A x \in Callers : Keeps(x)
      BY <3>1 DEF Keeps
    <3>4. CallSessions'
      BY <3>1, SessionOfStays DEF CallSessions, SessionInv, SessionOf, SessionOfNext
    <3>5. OwnSession'
      BY <3>1, <3>2 DEF OwnSession, SessionInv
    <3> QED BY <3>4, <3>5
  <2>2. CASE FinalizeDispose
    BY <1>0, <2>2 DEF FinalizeDispose, LifecycleInv, TypeOK, Spawns
  <2>3. CASE SpawnRegisters
    BY <1>0, <2>3 DEF SpawnRegisters
  <2>4. CASE SpawnStart \/ SpawnProbed
    BY <1>0, <2>3, <2>4 DEF SpawnStart, SpawnProbed, NoSpawn
  <2>5. CASE SpawnFail \/ FinalizeDisposed \/ \E ttl, revive \in BOOLEAN : FinalizeKeepAlive(ttl, revive)
    BY <1>0, <2>5 DEF SpawnFail, FinalizeKeepAlive, FinalizeDisposed, NoSpawn
  <2> QED BY <1>1, <2>1, <2>2, <2>4, <2>5 DEF SpawnNext
<1>2. CASE TimerFires \/ ParkNext \/ \E st \in {"running", "idle"} : RunState(st)
  <2>1. CASE call' = WakeCalls /\ UNCHANGED spawn
    <3>1. \A x \in Callers : Keeps(x)
      BY <1>d, <2>1 DEF Keeps, WakeCalls, Calls, Holding
    <3> QED BY <1>a, <2>1, <3>1
  <2> QED BY <1>0, <1>2, <2>1 DEF TimerFires, ParkNext, ParkAborts, ParkCommits, ParkEnds, RunState
<1>3. ASSUME NEW c \in Callers, CallNext(c) PROVE Goal
  <2>0. UNCHANGED spawn
    BY <1>3 DEF CallNext, EnsureLive, Forget, Kept, Resume, ReopenProbed, DropTombstone, Reopened
  <2>1. ASSUME NEW s, Return(c, s) PROVE Goal
    BY <1>b, <1>d, <2>0, <2>1, ReturnFields DEF LetsGo, Holding
  <2>2. ASSUME NEW pc, pc \notin Holding, NEW r, At(c, pc, r) PROVE Goal
    BY <1>b, <1>d, <2>0, <2>2, AtFields DEF LetsGo
  <2>3. ASSUME NEW pc, pc \notin Holding, NEW d, Join(c, pc, d) PROVE Goal
    BY <1>b, <1>d, <2>0, <2>3, JoinFields DEF LetsGo
  <2>4. ASSUME NEW r, ProceedLive(c, r) PROVE Goal
    BY <2>1, <2>2, <2>3, <2>4 DEF ProceedLive, Holding
  <2>5. ASSUME Proceed(c) PROVE Goal
    BY <2>1, <2>2, <2>3, <2>4, <2>5 DEF Proceed, Holding
  <2>6. CASE EnsureLive(c)
    BY <2>2, <2>5, <2>6 DEF EnsureLive, Holding
  <2>7. CASE Forget(c)
    BY <1>0, <2>0, <2>7 DEF Forget
  <2>8. CASE Kept(c) \/ Resume(c) \/ Reopened(c)
    BY <2>1, <2>4, <2>5, <2>8 DEF Kept, Resume, Reopened
  <2>9. CASE ReopenProbed(c)
    <3>1. CASE call' = [call EXCEPT ![c].pc = "dropTombstone", ![c].ref = nrefs + 1]
      <4>1. LetsGo(c) /\ \A x \in Callers : x # c => call'[x] = call[x]
        BY <1>d, <2>9, <3>1 DEF LetsGo, ReopenProbed, Calls, SessionInv, CallSessions, Holding
      <4> QED BY <1>b, <2>0, <4>1
    <3> QED BY <1>c, <2>0, <2>9, <3>1 DEF ReopenProbed
  <2>10. CASE DropTombstone(c)
    <3>1. \A x \in Callers : LetsGo(x) \/ Keeps(x)
      BY <2>10 DEF DropTombstone, LetsGo, Keeps, NotCalling, Holding
    <3> QED BY <1>a, <2>0, <3>1
  <2> QED BY <1>3, <2>6, <2>7, <2>8, <2>9, <2>10 DEF CallNext
<1>4. ASSUME NEW c \in Callers, ReviverNext(c) PROVE Goal
  <2>0. UNCHANGED spawn
    BY <1>4 DEF ReviverNext, Probed, ReviverClaims, ReviverAttaches, ReviverFails, ReviverUnwinds,
         ReviverFailsLate, ReviverReturns, ReviverReturnsDetached, DiscardEnds, managerVars
  <2>1. ASSUME NEW s, Settle(c, s) PROVE Goal
    BY <1>c, <2>0, <2>1 DEF Settle
  <2>2. ASSUME NEW pc \in CallPcs, pc \in Holding <=> call[c].pc \in Holding,
               call' = [call EXCEPT ![c].pc = pc]
        PROVE Goal
    <3>1. Keeps(c) /\ \A x \in Callers : x # c => call'[x] = call[x]
      BY <1>d, <2>2 DEF Keeps, Calls
    <3> QED BY <1>b, <2>0, <3>1
  <2>3. ASSUME NEW pc \in Holding, Reviving(c), call' = [call EXCEPT ![c].pc = pc, ![c].s = nsess + 1],
               nsess < MaxSession, nsess' = nsess + 1, sref' = [sref EXCEPT ![nsess + 1] = call[c].ref]
        PROVE Goal
    <3>1. /\ call'[c].pc = pc /\ call'[c].ref = call[c].ref /\ call'[c].s = nsess + 1
          /\ \A x \in Callers : x # c => call'[x] = call[x]
      BY <1>d, <2>3 DEF Calls
    <3>2. SessionOfNext(call[c].ref, nsess + 1)
      BY <2>3, LifecycleAssumption DEF SessionOfNext, LifecycleInv, TypeOK, Sessions, CallRefs
    <3> QED BY <1>b, <2>0, <3>1, <3>2 DEF Gets
  <2>4. CASE Probed(c) \/ ReviverClaims(c) \/ ReviverUnwinds(c)
    BY <2>1, <2>2, <2>4 DEF Probed, ReviverClaims, ReviverUnwinds, Holding, CallPcs
  <2>5. CASE ReviverAttaches(c)
    BY <2>3, <2>5 DEF ReviverAttaches, Create, Holding, Reviving
  <2>6. CASE ReviverFails(c) \/ ReviverFailsLate(c) \/ DiscardEnds(c)
    BY <2>1, <2>6 DEF ReviverFails, ReviverFailsLate, Fail, DiscardEnds
  <2>7. CASE ReviverReturns(c)
    BY <2>1, <2>2, <2>7 DEF ReviverReturns, Publish, Holding, CallPcs
  <2>8. CASE ReviverReturnsDetached(c)
    BY <2>1, <2>3, <2>8 DEF ReviverReturnsDetached, Publish, Holding, Reviving
  <2> QED BY <1>4, <2>4, <2>5, <2>6, <2>7, <2>8 DEF ReviverNext
<1>5. CASE ReleaseOp \/ Idles \/ \E k \in Releasers : ReleaseStep(k)
  BY <1>0, <1>5 DEF ReleaseOp, Release, Idles, ReleaseStep, ReleaseStrikes, ReleaseDisposed,
                    ReleaseEnds, TombstonePersisted, NoSpawn
<1>6. CASE DisposeEnds \/ UNCHANGED vars
  BY <1>0, <1>6 DEF DisposeEnds, vars
<1> QED BY <1>1, <1>2, <1>3, <1>4, <1>5, <1>6, Steps

LEMMA NextReleaseSessions ==
  ASSUME RevivalInv, LifecycleInv', SessionInv, Grows, [Next]_vars
  PROVE ReleaseSessions'
<1> USE DEF registryVars, RevivalInv, sessionVars, callVars
<1>a. KilledStays
  BY NextKeepsKilled
<1>b. rel \in [Releasers -> Releases]
  BY DEF LifecycleInv, TypeOK
<1>0. ASSUME UNCHANGED rel PROVE ReleaseSessions'
  BY <1>0, <1>a, ReleasesHold
<1>1. CASE SpawnNext
  BY <1>0, <1>1
     DEF SpawnNext, SpawnStart, SpawnProbed, SpawnRegisters, Register, SpawnAttach, SpawnFail,
         FinalizeKeepAlive, FinalizeDispose, FinalizeDisposed
<1>2. CASE TimerFires \/ ParkNext \/ \E st \in {"running", "idle"} : RunState(st)
  <2>1. CASE rel' = WakeReleases
    <3>1. \A k \in Releasers : /\ rel'[k].live = rel[k].live /\ rel'[k].ref = rel[k].ref
                               /\ rel'[k].tombstone = rel[k].tombstone
      BY <1>b, <2>1 DEF WakeReleases, Releases
    <3> QED BY <1>a, <3>1, ReleasesHold
  <2> QED BY <1>0, <1>2, <2>1 DEF TimerFires, ParkNext, ParkAborts, ParkCommits, ParkEnds, RunState
<1>3. ASSUME NEW c \in Callers, CallNext(c) \/ ReviverNext(c) PROVE ReleaseSessions'
  BY <1>0, <1>3
     DEF CallNext, EnsureLive, Forget, Kept, Resume, ReopenProbed, DropTombstone, Reopened,
         ReviverNext, Probed, ReviverClaims, ReviverAttaches, ReviverFails, ReviverUnwinds,
         ReviverFailsLate, ReviverReturns, ReviverReturnsDetached, DiscardEnds
<1>4. ASSUME NEW k \in Releasers, NEW r \in Refs, NEW t, NEW a, Strike(k, r, t, a),
             UNCHANGED cur
      PROVE ReleaseSessions'
  <2>1. /\ rel'[k].live = LiveOf(r, t) /\ rel'[k].ref = r /\ rel'[k].tombstone = t
        /\ \A x \in Releasers : x # k => rel'[x] = rel[x]
    BY <1>b, <1>4 DEF Strike
  <2>2. \A x \in Refs : status[x] = "aborted" => status'[x] = "aborted"
    BY <1>a, LifecycleAssumption DEF KilledStays, LifecycleInv, TypeOK, Generations, Refs
  <2>3. LiveOf(r, t) # 0 => SessionOfNext(r, LiveOf(r, t)) /\ (t => status'[r] = "aborted")
    BY <1>4, SessionOfStays DEF LiveOf, SessionInv, RefSessions, Strike, LifecycleInv, TypeOK
  <2>4. ASSUME NEW x \in Releasers, x # k, rel[x].live # 0
        PROVE SessionOfNext(rel[x].ref, rel[x].live)
              /\ (rel[x].tombstone => status'[rel[x].ref] = "aborted")
    BY <2>2, <2>4, SessionOfStays DEF SessionInv, ReleaseSessions, SessionOf
  <2> QED BY <2>1, <2>3, <2>4 DEF ReleaseSessions, SessionOf, SessionOfNext
<1>5. CASE ReleaseOp
  <2>1. PICK k \in Releasers, e \in 0 .. MaxRef, t \in BOOLEAN : Release(k, e, t)
    BY <1>5 DEF ReleaseOp
  <2>2. Released(e) \in Refs
    BY <2>1 DEF Release, Released, Refs, LifecycleInv, TypeOK, Adoptions
  <2>3. CASE rel' = [rel EXCEPT ![k] = [pc |-> "parkWait", ref |-> Released(e), live |-> 0,
                                        tombstone |-> t]]
    <3>1. \A x \in Releasers : rel'[x].live = 0 \/ rel'[x] = rel[x]
      BY <1>b, <2>3
    <3> QED BY <1>a, <3>1, ReleasesHold
  <2> QED BY <1>4, <2>1, <2>2, <2>3 DEF Release
<1>6. ASSUME NEW k \in Releasers, ReleaseStep(k) PROVE ReleaseSessions'
  <2>1. CASE ReleaseStrikes(k)
    <3>1. rel[k].ref \in Refs
      BY <1>b, <2>1 DEF ReleaseStrikes, LifecycleInv, CapturedRefs, Releases, Refs
    <3> QED BY <1>4, <2>1, <3>1 DEF ReleaseStrikes
  <2>2. ASSUME NEW pc, rel' = [rel EXCEPT ![k].pc = pc] PROVE ReleaseSessions'
    <3>1. \A x \in Releasers : /\ rel'[x].live = rel[x].live /\ rel'[x].ref = rel[x].ref
                               /\ rel'[x].tombstone = rel[x].tombstone
      BY <1>b, <2>2 DEF Releases
    <3> QED BY <1>a, <3>1, ReleasesHold
  <2>3. CASE ReleaseEnds(k)
    <3>1. \A x \in Releasers : rel'[x].live = 0 \/ rel'[x] = rel[x]
      BY <1>b, <2>3 DEF ReleaseEnds, NoRelease
    <3> QED BY <1>a, <3>1, ReleasesHold
  <2> QED BY <1>6, <2>1, <2>2, <2>3 DEF ReleaseStep, ReleaseDisposed, TombstonePersisted
<1>7. CASE Idles \/ DisposeEnds \/ UNCHANGED vars
  BY <1>0, <1>7 DEF Idles, DisposeEnds, vars
<1> QED BY <1>1, <1>2, <1>3, <1>5, <1>6, <1>7, Steps

LEMMA NextParkSession ==
  ASSUME RevivalInv, LifecycleInv', SessionInv, Grows, [Next]_vars
  PROVE ParkSession'
<1> USE DEF registryVars, RevivalInv, sessionVars, callVars
<1>b. park \in Parks
  BY DEF LifecycleInv, TypeOK
<1>0. ASSUME park'.phase = "none" \/ (park.phase # "none" /\ park'.ref = park.ref /\ park'.s = park.s)
      PROVE ParkSession'
  BY <1>0, SessionOfStays DEF ParkSession, SessionInv, SessionOf, SessionOfNext
<1>a. ASSUME UNCHANGED park PROVE ParkSession'
  BY <1>0, <1>a
<1>1. CASE SpawnNext
  BY <1>a, <1>1
     DEF SpawnNext, SpawnStart, SpawnProbed, SpawnRegisters, Register, SpawnAttach, SpawnFail,
         FinalizeKeepAlive, FinalizeDispose, FinalizeDisposed
<1>2. CASE TimerFires
  <2>1. CASE park' = [phase |-> "yield", ref |-> cur, s |-> sess[cur],
                      cancelled |-> FALSE, mapped |-> TRUE] /\ cur # 0 /\ sess[cur] # 0
    <3>1. SessionOf(cur, sess[cur])
      BY <2>1 DEF SessionInv, RefSessions, LifecycleInv, TypeOK, Refs
    <3>2. SessionOfNext(park'.ref, park'.s)
      BY <2>1, <3>1, SessionOfStays
    <3> QED BY <3>2 DEF ParkSession, SessionOf, SessionOfNext
  <2> QED BY <1>a, <1>2, <2>1 DEF TimerFires
<1>3. CASE ParkNext \/ \E st \in {"running", "idle"} : RunState(st)
  BY <1>0, <1>a, <1>b, <1>3 DEF ParkNext, ParkAborts, ParkCommits, ParkEnds, RunState, NoPark, Parks
<1>4. ASSUME NEW c \in Callers, CallNext(c) \/ ReviverNext(c) PROVE ParkSession'
  <2>1. CASE EnsureLive(c)
    BY <1>0, <1>a, <1>b, <2>1 DEF EnsureLive, Parks
  <2> QED BY <1>a, <1>4, <2>1
     DEF CallNext, Forget, Kept, Resume, ReopenProbed, DropTombstone, Reopened,
         ReviverNext, Probed, ReviverClaims, ReviverAttaches, ReviverFails, ReviverUnwinds,
         ReviverFailsLate, ReviverReturns, ReviverReturnsDetached, DiscardEnds
<1>5. CASE ReleaseOp
  <2>1. ASSUME NEW b, park' = [park EXCEPT !.cancelled = b] PROVE ParkSession'
    <3>1. park'.phase = park.phase /\ park'.ref = park.ref /\ park'.s = park.s
      BY <1>b, <2>1 DEF Parks
    <3> QED BY <1>0, <3>1
  <2> QED BY <1>a, <1>5, <2>1 DEF ReleaseOp, Release
<1>6. ASSUME NEW k \in Releasers, ReleaseStep(k) PROVE ParkSession'
  BY <1>a, <1>6 DEF ReleaseStep, ReleaseStrikes, ReleaseEnds, ReleaseDisposed, TombstonePersisted
<1>7. CASE DisposeEnds
  <2>1. park'.phase = park.phase /\ park'.ref = park.ref /\ park'.s = park.s
    BY <1>b, <1>7 DEF Parks, DisposeEnds
  <2> QED BY <1>0, <2>1
<1>8. CASE Idles \/ UNCHANGED vars
  BY <1>a, <1>8 DEF Idles, vars
<1> QED BY <1>1, <1>2, <1>3, <1>4, <1>5, <1>6, <1>7, <1>8, Steps

LEMMA NextSpawnSession ==
  ASSUME RevivalInv, LifecycleInv', SessionInv, Grows, [Next]_vars
  PROVE SpawnSession'
<1> USE DEF registryVars, RevivalInv, sessionVars, callVars
<1>b. spawn \in Spawns /\ nsess \in Nat /\ nsess' \in Nat /\ nrefs \in Nat
  BY LifecycleAssumption DEF LifecycleInv, TypeOK
<1>0. ASSUME UNCHANGED spawn \/ spawn' = NoSpawn PROVE SpawnSession'
  <2>1. CASE spawn' = NoSpawn
    BY <2>1 DEF SpawnSession, NoSpawn
  <2>2. CASE UNCHANGED spawn
    <3>1. SpawnSession
      BY DEF SessionInv
    <3>2. spawn.pc = "run" => SessionOfNext(spawn.ref, spawn.s)
      BY <3>1, SessionOfStays DEF SpawnSession
    <3>3. spawn.pc = "dispose" => spawn.s \in 1 .. nsess' /\ spawn.ref \in {0, sref'[spawn.s]}
      BY <1>b, <3>1 DEF SpawnSession, Grows
    <3> QED BY <2>2, <3>1, <3>2, <3>3 DEF SpawnSession, SessionOf, SessionOfNext
  <2> QED BY <1>0, <2>1, <2>2
<1>1. CASE SpawnNext
  <2>1. CASE SpawnRegisters
    BY <1>b, <2>1, LifecycleAssumption DEF SpawnRegisters, Register, SpawnSession, Refs
  <2>2. CASE SpawnStart \/ SpawnProbed
    BY <1>0, <1>b, <2>1, <2>2
       DEF SpawnStart, SpawnProbed, Reclaimable, SpawnSession, LifecycleInv, TypeOK, Refs
  <2>3. CASE SpawnAttach
    <3>1. spawn.ref \in Refs /\ SessionOfNext(spawn.ref, nsess + 1)
      BY <1>b, <2>3, LifecycleAssumption
         DEF SpawnAttach, Create, SessionOfNext, SessionInv, SpawnSession, LifecycleInv, TypeOK, Sessions
    <3> QED BY <2>3, <3>1 DEF SpawnAttach, SpawnSession, SessionOf, SessionOfNext
  <2>4. CASE FinalizeDispose
    <3>1. SessionOf(spawn.ref, spawn.s)
      BY <2>4 DEF FinalizeDispose, SessionInv, SpawnSession
    <3>2. OwnsRef => SessionOf(cur, spawn.s)
      BY <3>1 DEF OwnsRef, SessionInv, RefSessions, SessionOf, LifecycleInv, TypeOK, Refs
    <3>3. spawn'.pc = "dispose" /\ spawn'.s = spawn.s /\ spawn'.ref \in {0, sref[spawn.s]}
      BY <1>b, <2>4, <3>2 DEF FinalizeDispose, Spawns, SessionOf
    <3> QED BY <1>b, <2>4, <3>1, <3>3 DEF SpawnSession, SessionOf, FinalizeDispose
  <2> QED BY <1>0, <1>1, <2>2, <2>3, <2>4
     DEF SpawnNext, SpawnFail, FinalizeKeepAlive, FinalizeDisposed
<1>2. CASE TimerFires \/ ParkNext \/ \E st \in {"running", "idle"} : RunState(st)
  BY <1>0, <1>2 DEF TimerFires, ParkNext, ParkAborts, ParkCommits, ParkEnds, RunState
<1>3. ASSUME NEW c \in Callers, CallNext(c) \/ ReviverNext(c) PROVE SpawnSession'
  BY <1>0, <1>3
     DEF CallNext, EnsureLive, Forget, Kept, Resume, ReopenProbed, DropTombstone, Reopened,
         ReviverNext, Probed, ReviverClaims, ReviverAttaches, ReviverFails, ReviverUnwinds,
         ReviverFailsLate, ReviverReturns, ReviverReturnsDetached, DiscardEnds
<1>4. CASE ReleaseOp \/ Idles \/ \E k \in Releasers : ReleaseStep(k)
  BY <1>0, <1>4 DEF ReleaseOp, Idles, ReleaseStep, ReleaseStrikes, ReleaseDisposed,
                    ReleaseEnds, TombstonePersisted
<1>5. CASE DisposeEnds \/ UNCHANGED vars
  BY <1>0, <1>5 DEF DisposeEnds, vars
<1> QED BY <1>1, <1>2, <1>3, <1>4, <1>5, Steps

LEMMA NextRefsGiven ==
  ASSUME RevivalInv, LifecycleInv', SessionInv, [Next]_vars
  PROVE RefsGiven'
<1> USE DEF registryVars, RevivalInv, sessionVars, callVars
<1>b. /\ nrefs \in Nat /\ nrefs' \in Nat /\ cur <= nrefs /\ cur \in Nat /\ rel \in [Releasers -> Releases]
      /\ spawn \in Spawns /\ park \in Parks /\ adopted \in Adoptions
  BY LifecycleAssumption DEF LifecycleInv, TypeOK, Generations
<1>g. RefsGiven /\ \A k \in Releasers : rel[k].ref \in Nat
  BY <1>b, LifecycleAssumption DEF SessionInv, Releases
<1>h. adopted.ref \in Nat /\ spawn.ref \in Nat /\ park.ref \in Nat
  BY <1>b, LifecycleAssumption DEF Adoptions, Spawns, Parks
<1>c. \A c \in Callers : call[c].ref <= nrefs
  BY DEF CallRefs
<1>0. ASSUME nrefs <= nrefs',
             adopted'.ref \in {0, adopted.ref, cur} \/ \E c \in Callers : adopted'.ref = call[c].ref,
             park'.ref \in {0, park.ref, cur}, spawn'.ref \in {0, spawn.ref, cur, nrefs'},
             \A k \in Releasers : rel'[k].ref \in {0, rel[k].ref, cur, adopted.ref}
      PROVE RefsGiven'
  <2>1. adopted'.ref <= nrefs'
    BY <1>0, <1>b, <1>c, <1>g, <1>h DEF RefsGiven, LifecycleInv, TypeOK, Calls
  <2>2. park'.ref <= nrefs' /\ spawn'.ref <= nrefs'
    BY <1>0, <1>b, <1>g, <1>h DEF RefsGiven
  <2>3. \A k \in Releasers : rel'[k].ref <= nrefs'
    BY <1>0, <1>b, <1>g, <1>h DEF RefsGiven
  <2> QED BY <2>1, <2>2, <2>3 DEF RefsGiven
<1>n. NoAdoption.ref = 0 /\ NoPark.ref = 0 /\ NoSpawn.ref = 0 /\ NoRelease.ref = 0
  BY DEF NoAdoption, NoPark, NoSpawn, NoRelease
<1>s. ASSUME NEW a \in Adoptions, NEW r, NEW st PROVE OnStatus(a, r, st).ref = a.ref
  BY DEF OnStatus, Adoptions
<1>u. ASSUME NEW a, NEW r, Unregister(r, a) \/ UnregisterUnlessParked(r, a)
      PROVE adopted' \in {a, NoAdoption}
  BY <1>u DEF Unregister, UnregisterUnlessParked, OnRemoved
<1>k. ASSUME NEW a \in Adoptions, NEW c PROVE KeepCold(c, a).ref = a.ref
  BY DEF KeepCold, Adoptions
<1>1. CASE SpawnNext
  <2>1. CASE SpawnRegisters
    BY <1>0, <1>b, <2>1 DEF SpawnRegisters, Register
  <2>2. CASE SpawnStart \/ SpawnProbed
    BY <1>0, <1>b, <1>n, <2>1, <2>2 DEF SpawnStart, SpawnProbed
  <2>3. CASE SpawnAttach
    BY <1>0, <1>b, <1>s, <2>3 DEF SpawnAttach
  <2>4. CASE FinalizeDispose
    BY <1>0, <1>b, <2>4 DEF FinalizeDispose, Spawns
  <2>5. CASE SpawnFail \/ FinalizeDisposed
    BY <1>0, <1>b, <1>n, <1>u, <2>5 DEF SpawnFail, FinalizeDisposed, EndDispose
  <2>6. ASSUME NEW ttl, NEW revive, FinalizeKeepAlive(ttl, revive) PROVE RefsGiven'
    BY <1>0, <1>b, <1>n, <2>6 DEF FinalizeKeepAlive
  <2> QED BY <1>1, <2>2, <2>3, <2>4, <2>5, <2>6 DEF SpawnNext
<1>2. CASE TimerFires
  BY <1>0, <1>b, <1>2 DEF TimerFires, Adoptions
<1>3. ASSUME NEW st, RunState(st) PROVE RefsGiven'
  BY <1>0, <1>b, <1>s, <1>3 DEF RunState
<1>4. CASE ParkNext
  <2>1. rel' = WakeReleases => \A k \in Releasers : rel'[k].ref = rel[k].ref
    BY <1>b DEF WakeReleases, Releases
  <2>2. CASE ParkCommits
    BY <1>0, <1>b, <2>2 DEF ParkCommits, Parks
  <2>3. CASE ParkAborts
    BY <1>0, <1>b, <1>n, <2>1, <2>3 DEF ParkAborts
  <2>4. CASE ParkEnds
    BY <1>0, <1>b, <1>n, <1>u, <2>1, <2>4 DEF ParkEnds, EndDispose
  <2> QED BY <1>4, <2>2, <2>3, <2>4 DEF ParkNext
<1>5. ASSUME NEW c \in Callers, CallNext(c) PROVE RefsGiven'
  <2>1. CASE EnsureLive(c)
    BY <1>0, <1>b, <2>1 DEF EnsureLive, Parks
  <2>2. CASE Kept(c)
    BY <1>0, <1>b, <2>2 DEF Kept, Rearmed, Adoptions
  <2>3. CASE ReopenProbed(c)
    BY <1>0, <1>b, <2>3 DEF ReopenProbed, Register
  <2> QED BY <1>0, <1>b, <1>5, <2>1, <2>2, <2>3
     DEF CallNext, Forget, Resume, DropTombstone, Reopened
<1>6. ASSUME NEW c \in Callers, ReviverNext(c) PROVE RefsGiven'
  <2>1. CASE Probed(c)
    <3>1. adopted'.ref = call[c].ref \/ UNCHANGED adopted
      <4>1. ASSUME NEW ttl, NEW d
            PROVE /\ [ref |-> call[c].ref, ttl |-> ttl, revive |-> TRUE, timer |-> FALSE, by |-> NoCaller].ref
                     = call[c].ref
                  /\ [[ref |-> call[c].ref, ttl |-> ttl, revive |-> TRUE, timer |-> FALSE, by |-> NoCaller]
                       EXCEPT !.by = d].ref = call[c].ref
        OBVIOUS
      <4> QED BY <2>1, <4>1 DEF Probed
    <3>2. adopted'.ref = adopted.ref \/ \E x \in Callers : adopted'.ref = call[x].ref
      BY <3>1
    <3>3. UNCHANGED <<nrefs, park, spawn, rel>>
      BY <2>1 DEF Probed
    <3> QED BY <1>0, <1>b, <3>2, <3>3
  <2>2. CASE ReviverAttaches(c)
    BY <1>0, <1>b, <1>s, <2>2 DEF ReviverAttaches
  <2>3. CASE ReviverFails(c) \/ ReviverFailsLate(c)
    BY <1>0, <1>b, <1>n, <2>3 DEF ReviverFails, ReviverFailsLate, Fail, DropCold
  <2>4. CASE DiscardEnds(c)
    BY <1>0, <1>b, <1>n, <1>u, <2>4 DEF DiscardEnds, EndDispose, DropCold
  <2>5. ASSUME NEW r, NEW s, Publish(c, r, s) PROVE adopted'.ref = adopted.ref
    BY <1>b, <1>k, <1>s, <2>5, KeepColdType DEF Publish
  <2>6. CASE ReviverReturns(c)
    BY <1>0, <1>b, <2>5, <2>6 DEF ReviverReturns
  <2>7. CASE ReviverReturnsDetached(c)
    BY <1>0, <1>b, <2>5, <2>7 DEF ReviverReturnsDetached
  <2> QED BY <1>0, <1>b, <1>6, <2>1, <2>2, <2>3, <2>4, <2>6, <2>7
     DEF ReviverNext, ReviverClaims, ReviverUnwinds
<1>7. CASE ReleaseOp
  <2>1. PICK k \in Releasers, e \in 0 .. MaxRef, t \in BOOLEAN :
          Release(k, e, t) /\ (spawn' = spawn \/ spawn' = NoSpawn)
    BY <1>7 DEF ReleaseOp
  <2>2. \A x \in Releasers : rel'[x].ref \in {rel[x].ref, cur, adopted.ref}
    BY <1>b, <2>1 DEF Release, Released, Strike
  <2>3. adopted'.ref \in {0, adopted.ref}
    BY <1>n, <2>1 DEF Release, Strike
  <2>4. park'.ref = park.ref
    BY <1>b, <2>1 DEF Release, Parks
  <2> QED BY <1>0, <1>b, <1>n, <2>1, <2>2, <2>3, <2>4 DEF Release
<1>8. ASSUME NEW k \in Releasers, ReleaseStep(k) PROVE RefsGiven'
  <2>1. \A x \in Releasers : rel'[x].ref \in {0, rel[x].ref}
    BY <1>b, <1>n, <1>8 DEF ReleaseStep, ReleaseStrikes, Strike, ReleaseDisposed, ReleaseEnds,
                            TombstonePersisted, Releases
  <2>2. adopted' \in {adopted, NoAdoption} /\ UNCHANGED <<nrefs, park, spawn>>
    BY <1>8, <1>u DEF ReleaseStep, ReleaseStrikes, Strike, ReleaseDisposed, EndDispose, ReleaseEnds,
                      TombstonePersisted
  <2> QED BY <1>0, <1>b, <1>n, <2>1, <2>2
<1>9. CASE Idles \/ DisposeEnds \/ UNCHANGED vars
  BY <1>0, <1>b, <1>9 DEF Idles, DisposeEnds, vars, Parks
<1> QED BY <1>1, <1>2, <1>3, <1>4, <1>5, <1>6, <1>7, <1>8, <1>9, Steps

LEMMA NextSessions ==
  ASSUME RevivalInv, LifecycleInv', SessionInv, [Next]_vars
  PROVE SessionInv'
<1>1. Grows
  BY NextGrows DEF RevivalInv
<1> QED BY <1>1, NextRefSessions, NextCallSessions, NextParkSession, NextReleaseSessions,
           NextSpawnSession, NextRefsGiven DEF SessionInv

LEMMA InitSessions == Init => SessionInv
BY LifecycleAssumption
   DEF Init, SessionInv, RefsGiven, RefSessions, CallSessions, ParkSession, ReleaseSessions, SpawnSession,
       OwnSession, NoAdoption, NoPark, NoSpawn, NoRelease, NotCalling, Holding

-----------------------------------------------------------------------------
(* What a step does *)

\* Where a call awaits something without holding the id or a session.
Resting == {"idle", "parkCancel", "parkWait", "reopenProbe", "reopenJoin", "reviveJoin"}

Rests(x) == call'[x].pc \in Resting
\* A call goes on with the reference that was reopened for it, ...
GoesOn(x) == /\ call'[x].pc = "reopened"
             /\ \E y \in Callers : call[y].pc = "dropTombstone" /\ call'[x].ref = call[y].ref
\* ... registers the reference it reopens, ...
Reopening(c) == call'[c].pc = "dropTombstone" /\ call'[c].ref = nrefs + 1 /\ nrefs' = nrefs + 1
\* ... or starts a revival of the registered, parked reference.
Starts(c) ==
  /\ call'[c].pc \in {"probe", "claim"} /\ call'[c].ref = nrefs /\ nrefs \in Refs
  /\ status[nrefs] = "parked" /\ sess[nrefs] = 0
  /\ call[c].pc = "idle" => ~park.mapped
  /\ call[c].pc = "reopened" => call[c].ref = nrefs
  /\ call[c].pc \in {"idle", "kept", "resume", "reopened"}
  /\ UNCHANGED <<cur, nrefs, status, sess, adopted, park, spawn, rel, mgr>>

\* How a step of one ensureLive call changes the calls ...
LEMMA CallSteps ==
  ASSUME RevivalInv, SessionInv, NEW c \in Callers, CallNext(c)
  PROVE /\ \A x \in Callers : x # c => call'[x] = call[x] \/ Rests(x) \/ GoesOn(x)
        /\ call'[c] = call[c] \/ Rests(c) \/ GoesOn(c) \/ Reopening(c) \/ Starts(c)
<1> USE DEF RevivalInv, registryVars, sessionVars, callVars, managerVars
<1> DEFINE Goal == /\ \A x \in Callers : x # c => call'[x] = call[x] \/ Rests(x) \/ GoesOn(x)
                   /\ call'[c] = call[c] \/ Rests(c) \/ GoesOn(c) \/ Reopening(c) \/ Starts(c)
<1>0. call \in [Callers -> Calls] /\ cur \in 0 .. MaxRef
  BY DEF LifecycleInv, TypeOK
<1>1. ASSUME NEW s, Return(c, s) PROVE Goal
  BY <1>0, <1>1, ReturnFields DEF Rests, Resting
<1>2. ASSUME NEW pc \in Resting, NEW r, At(c, pc, r) PROVE Goal
  BY <1>0, <1>2, AtFields DEF Rests
<1>3. ASSUME NEW pc \in Resting, NEW d, Join(c, pc, d) PROVE Goal
  BY <1>0, <1>3, JoinFields DEF Rests
<1>4. ASSUME NEW r, r = nrefs, r \in Refs, ProceedLive(c, r),
             call[c].pc = "idle" => ~park.mapped,
             call[c].pc = "reopened" => call[c].ref = nrefs,
             call[c].pc \in {"idle", "kept", "resume", "reopened"},
             UNCHANGED <<cur, nrefs, status, sess, adopted, park, spawn, rel, mgr>>
      PROVE Goal
  <2>1. ASSUME NEW pc \in {"claim", "probe"}, At(c, pc, r), sess[r] = 0, Revivable(r) PROVE Goal
    <3>1. status[r] = "parked"
      BY <2>1 DEF Revivable
    <3> QED BY <1>0, <1>4, <2>1, <3>1, AtFields DEF Starts
  <2> QED BY <1>1, <1>3, <1>4, <2>1 DEF ProceedLive, Resting
<1>5. ASSUME Proceed(c),
             call[c].pc = "idle" => ~park.mapped,
             call[c].pc \in {"idle", "kept", "resume"},
             UNCHANGED <<cur, nrefs, status, sess, adopted, park, spawn, rel, mgr>>
      PROVE Goal
  <2>1. cur # 0 => cur = nrefs /\ cur \in Refs
    BY <1>0 DEF LatestRef, Refs
  <2> QED BY <1>1, <1>2, <1>3, <1>4, <1>5, <2>1 DEF Proceed, Resting
<1>6. CASE EnsureLive(c)
  BY <1>2, <1>5, <1>6 DEF EnsureLive, Resting
<1>7. CASE Forget(c)
  BY <1>7 DEF Forget
<1>8. CASE Kept(c) \/ Resume(c)
  BY <1>1, <1>5, <1>8 DEF Kept, Resume
<1>9. CASE ReopenProbed(c)
  <2>1. CASE SettleShared(c, "reopenJoin", 0)
    BY <2>1, SettleFields DEF Rests, Resting
  <2>2. CASE Register("parked", file[call[c].ref])
             /\ call' = [call EXCEPT ![c].pc = "dropTombstone", ![c].ref = nrefs + 1]
    BY <1>0, <2>2 DEF Register, Reopening, Calls
  <2> QED BY <1>9, <2>1, <2>2 DEF ReopenProbed
<1>10. CASE DropTombstone(c)
  BY <1>10 DEF DropTombstone, GoesOn, NotCalling
<1>11. CASE Reopened(c)
  <2>1. call[c].ref = nrefs /\ call[c].ref \in Refs
    BY <1>0, <1>11 DEF Reopened, ReopensLatest, Reopens, LifecycleInv, CapturedRefs, Calls, Refs
  <2> QED BY <1>4, <1>11, <2>1 DEF Reopened
<1> QED BY <1>6, <1>7, <1>8, <1>9, <1>10, <1>11 DEF CallNext

\* ... and what else it changes: a reopen registers a reference, a kept call
\* re-arms the TTL, and a park in flight may be cancelled.
LEMMA CallFrame ==
  ASSUME RevivalInv, NEW c \in Callers, CallNext(c)
  PROVE /\ UNCHANGED <<sess, nsess, sstate, sref, spawn, rel, mgr, factory>>
        /\ \/ UNCHANGED <<cur, nrefs, status, file>>
           \/ /\ mgr = "up" /\ cur \in Refs /\ status[cur] = "aborted"
              /\ call[c].pc = "reopenProbe" /\ UNCHANGED <<adopted, park>>
              /\ Register("parked", file[cur])
        /\ UNCHANGED adopted \/ adopted' = Rearmed(call[c].ref)
        /\ park'.phase = park.phase /\ park'.ref = park.ref /\ park'.s = park.s
        /\ park'.mapped = park.mapped
<1> USE DEF RevivalInv, registryVars, sessionVars, callVars, managerVars
<1>0. park \in Parks /\ call \in [Callers -> Calls]
  BY DEF LifecycleInv, TypeOK
<1>1. CASE EnsureLive(c)
  BY <1>0, <1>1 DEF EnsureLive, Parks
<1>2. CASE Kept(c)
  BY <1>2 DEF Kept
<1>3. CASE ReopenProbed(c)
  <2>1. call[c].ref \in Refs
    BY <1>0, <1>3 DEF ReopenProbed, LifecycleInv, CapturedRefs, Calls, Refs
  <2>2. UNCHANGED sess
    BY <1>3 DEF ReopenProbed, Register
  <2> QED BY <1>3, <2>1, <2>2 DEF ReopenProbed
<1>4. CASE Forget(c) \/ Resume(c) \/ DropTombstone(c) \/ Reopened(c)
  BY <1>4 DEF Forget, Resume, DropTombstone, Reopened
<1> QED BY <1>1, <1>2, <1>3, <1>4 DEF CallNext

\* The fields of a call that moves on.
LEMMA MoveFields ==
  ASSUME call \in [Callers -> Calls], NEW c \in Callers, NEW pc, call' = [call EXCEPT ![c].pc = pc]
  PROVE /\ call'[c].pc = pc /\ call'[c].ref = call[c].ref /\ call'[c].s = call[c].s
        /\ \A x \in Callers : x # c => call'[x] = call[x]
BY DEF Calls

LEMMA MoveWithFields ==
  ASSUME call \in [Callers -> Calls], NEW c \in Callers, NEW pc, NEW s,
         call' = [call EXCEPT ![c].pc = pc, ![c].s = s]
  PROVE /\ call'[c].pc = pc /\ call'[c].ref = call[c].ref /\ call'[c].s = s
        /\ \A x \in Callers : x # c => call'[x] = call[x]
BY DEF Calls

\* What the invariants give as types.
LEMMA Facts ==
  ASSUME RevivalInv
  PROVE /\ cur \in 0 .. MaxRef /\ nrefs \in Nat /\ (cur # 0 => cur = nrefs /\ cur \in Refs)
        /\ call \in [Callers -> Calls] /\ rel \in [Releasers -> Releases]
        /\ park \in Parks /\ spawn \in Spawns /\ adopted \in Adoptions
        /\ \A x \in Callers : /\ call[x].ref \in Nat /\ call[x].ref <= nrefs
                              /\ Reviving(x) => call[x].ref \in Refs
<1> USE LifecycleAssumption DEF RevivalInv, LifecycleInv, TypeOK
<1>1. cur \in 0 .. MaxRef /\ nrefs \in Nat /\ (cur # 0 => cur = nrefs /\ cur \in Refs)
  BY DEF LatestRef, Refs
<1>2. \A x \in Callers : call[x].ref \in Nat
  BY DEF Calls
<1>3. \A x \in Callers : call[x].ref <= nrefs /\ (Reviving(x) => call[x].ref \in Refs)
  BY DEF CallRefs
<1> QED BY <1>1, <1>2, <1>3

\* The calls and releases that a park wakes keep what they hold.
LEMMA WakeFields ==
  ASSUME RevivalInv, call' = WakeCalls, rel' = WakeReleases
  PROVE /\ \A x \in Callers : \/ call'[x] = call[x]
                              \/ /\ call'[x].pc \in {"kept", "resume"}
                                 /\ call'[x].ref = call[x].ref /\ call'[x].s = call[x].s
        /\ \A k \in Releasers : /\ rel'[k].ref = rel[k].ref /\ rel'[k].live = rel[k].live
                                /\ rel'[k].tombstone = rel[k].tombstone
                                /\ rel'[k].pc = rel[k].pc \/ rel'[k].pc = "strike"
BY Facts DEF WakeCalls, WakeReleases, Calls, Releases

\* A reviver's step moves its own call on, or answers it and those that joined it.
Continues(c) ==
  \/ call[c].pc = "probe" /\ call'[c].pc = "claim" /\ cur = call[c].ref /\ status[cur] = "parked"
  \/ call[c].pc = "claim" /\ call'[c].pc = "build" /\ cur = call[c].ref /\ status[cur] = "parked"
  \/ call[c].pc = "build" /\ call'[c].pc = "attached"
  \/ call[c].pc = "attached" /\ call'[c].pc = "failing"
  \/ call[c].pc \in {"claim", "attached"} /\ call'[c].pc = "stale"

\* A revival disturbs no other one: it answers calls that joined it.
LEMMA ReviverSteps ==
  ASSUME RevivalInv, NEW c \in Callers, ReviverNext(c)
  PROVE /\ Reviving(c) /\ UNCHANGED <<nrefs, mgr, spawn, park, rel>>
        /\ \A x \in Callers : x # c => call'[x] = call[x] \/ (Rests(x) /\ call'[x].s = 0)
        /\ Rests(c) \/ (call'[c].ref = call[c].ref /\ Continues(c))
<1> USE Facts DEF registryVars, sessionVars, callVars, managerVars
<1> DEFINE Goal == /\ Reviving(c) /\ UNCHANGED <<nrefs, mgr, spawn, park, rel>>
                   /\ \A x \in Callers : x # c => call'[x] = call[x] \/ (Rests(x) /\ call'[x].s = 0)
                   /\ Rests(c) \/ (call'[c].ref = call[c].ref /\ Continues(c))
<1>1. ASSUME NEW s, Settle(c, s), Reviving(c), UNCHANGED <<nrefs, mgr, spawn, park, rel>> PROVE Goal
  <2>1. \A x \in Callers : call'[x] = call[x] \/ (call'[x].pc = "idle" /\ call'[x].s = 0)
    BY <1>1 DEF Settle, SettleShared, NotCalling
  <2>2. call'[c].pc = "idle"
    BY <1>1, SettleFields DEF Settle
  <2> QED BY <1>1, <2>1, <2>2 DEF Rests, Resting
<1>2. CASE Probed(c)
  BY <1>1, <1>2, MoveFields DEF Probed, Continues, Reviving
<1>3. CASE ReviverClaims(c) \/ ReviverUnwinds(c)
  BY <1>3, MoveFields DEF ReviverClaims, ReviverUnwinds, Continues, Reviving
<1>4. CASE ReviverAttaches(c)
  BY <1>4, MoveWithFields DEF ReviverAttaches, Continues, Reviving
<1>5. CASE ReviverFails(c) \/ ReviverFailsLate(c) \/ DiscardEnds(c)
  BY <1>1, <1>5 DEF ReviverFails, ReviverFailsLate, DiscardEnds, Fail, Reviving
<1>6. CASE ReviverReturns(c)
  BY <1>1, <1>6, MoveFields DEF ReviverReturns, Publish, Continues, Reviving
<1>7. CASE ReviverReturnsDetached(c)
  BY <1>1, <1>7, MoveWithFields DEF ReviverReturnsDetached, Publish, Continues, Reviving
<1> QED BY <1>2, <1>3, <1>4, <1>5, <1>6, <1>7 DEF ReviverNext

\* Every step keeps the first two parts of ParkInv.
LEMMA NextParkMapped ==
  ASSUME RevivalInv, ControlInv, [Next]_vars PROVE ParkMapped'
<1> USE Facts DEF ControlInv, ParkInv, ParkMapped, managerVars
<1>0. ASSUME UNCHANGED <<park, mgr>> PROVE ParkMapped'
  BY <1>0
<1>1. CASE SpawnNext \/ \E st \in {"running", "idle"} : RunState(st)
  BY <1>0, <1>1
     DEF SpawnNext, SpawnStart, SpawnProbed, SpawnRegisters, SpawnAttach, SpawnFail,
         FinalizeKeepAlive, FinalizeDispose, FinalizeDisposed, RunState
<1>2. CASE TimerFires \/ ParkNext
  BY <1>2 DEF TimerFires, ParkNext, ParkAborts, ParkCommits, ParkEnds, NoPark, Parks
<1>3. ASSUME NEW c \in Callers, CallNext(c) PROVE ParkMapped'
  BY <1>3, CallFrame
<1>4. ASSUME NEW c \in Callers, ReviverNext(c) PROVE ParkMapped'
  BY <1>0, <1>4, ReviverSteps
<1>5. CASE ReleaseOp
  BY <1>5 DEF ReleaseOp, Release, Parks
<1>6. CASE Idles \/ DisposeEnds \/ UNCHANGED vars \/ \E k \in Releasers : ReleaseStep(k)
  BY <1>0, <1>6 DEF Idles, DisposeBegins, DisposeEnds, vars, ReleaseStep, ReleaseStrikes, ReleaseDisposed,
                    ReleaseEnds, TombstonePersisted
<1> QED BY <1>1, <1>2, <1>3, <1>4, <1>5, <1>6, Steps DEF RevivalInv

LEMMA NextNoParkQueued ==
  ASSUME RevivalInv, SessionInv, ControlInv, [Next]_vars PROVE NoParkQueued'
<1> USE Facts DEF ControlInv, ParkInv, NoParkQueued
<1>0. ASSUME UNCHANGED <<mgr, park>>,
             \A x \in Callers : call'[x].pc = call[x].pc \/ call'[x].pc \notin {"kept", "resume"},
             \A k \in Releasers : rel'[k].pc = rel[k].pc \/ rel'[k].pc # "strike"
      PROVE NoParkQueued'
  BY <1>0
<1>1. CASE SpawnNext \/ \E st \in {"running", "idle"} : RunState(st)
  BY <1>0, <1>1
     DEF SpawnNext, SpawnStart, SpawnProbed, SpawnRegisters, SpawnAttach, SpawnFail,
         FinalizeKeepAlive, FinalizeDispose, FinalizeDisposed, RunState, callVars, managerVars
<1>2. CASE TimerFires \/ ParkNext
  BY <1>2 DEF TimerFires, TimersDue, Queued, ParkNext, ParkAborts, ParkCommits, ParkEnds, NoPark, Parks,
              callVars, managerVars
<1>3. ASSUME NEW c \in Callers, CallNext(c) PROVE NoParkQueued'
  <2>1. \A x \in Callers : call'[x].pc = call[x].pc \/ call'[x].pc \notin {"kept", "resume"}
    BY <1>3, CallSteps DEF Rests, Resting, GoesOn, Reopening, Starts
  <2> QED BY <1>3, <2>1, CallFrame
<1>4. ASSUME NEW c \in Callers, ReviverNext(c) PROVE NoParkQueued'
  <2>1. \A x \in Callers : call'[x].pc = call[x].pc \/ call'[x].pc \notin {"kept", "resume"}
    BY <1>4, ReviverSteps DEF Rests, Resting, Continues
  <2> QED BY <1>0, <1>4, <2>1, ReviverSteps
<1>5. CASE ReleaseOp
  BY <1>5 DEF ReleaseOp, Release, Strike, Parks, callVars
<1>6. ASSUME NEW k \in Releasers, ReleaseStep(k) PROVE NoParkQueued'
  BY <1>6 DEF ReleaseStep, ReleaseStrikes, Strike, ReleaseDisposed, ReleaseEnds, TombstonePersisted,
              NoRelease, Releases, callVars, managerVars
<1>7. CASE Idles \/ DisposeEnds \/ UNCHANGED vars
  BY <1>0, <1>7 DEF Idles, DisposeBegins, DisposeEnds, vars, callVars, managerVars
<1> QED BY <1>1, <1>2, <1>3, <1>4, <1>5, <1>6, <1>7, Steps DEF RevivalInv

\* The id is taken only when nothing that was settled waits to go on; otherwise
\* it is kept or given up.
LEMMA CurSteps ==
  ASSUME RevivalInv, [Next]_vars
  PROVE \/ UNCHANGED nrefs /\ cur' \in {0, cur}
        \/ /\ nrefs' = nrefs + 1 /\ cur' = nrefs + 1 /\ ~Queued /\ (Removing => SlowRemoval)
           /\ UNCHANGED <<park, adopted, rel, mgr, sess>>
           /\ cur = 0 \/ Reclaimable(cur) \/ (status[cur] = "aborted" /\ mgr = "up")
<1> USE Facts DEF registryVars
<1> DEFINE Goal == \/ UNCHANGED nrefs /\ cur' \in {0, cur}
                   \/ /\ nrefs' = nrefs + 1 /\ cur' = nrefs + 1 /\ ~Queued /\ (Removing => SlowRemoval)
                      /\ UNCHANGED <<park, adopted, rel, mgr, sess>>
                      /\ cur = 0 \/ Reclaimable(cur) \/ (status[cur] = "aborted" /\ mgr = "up")
<1>0. ASSUME NEW r, NEW a, Unregister(r, a) \/ UnregisterUnlessParked(r, a) PROVE cur' \in {0, cur}
  BY <1>0 DEF Unregister, UnregisterUnlessParked
<1>1. CASE SpawnNext
  <2>1. CASE SpawnStart \/ SpawnProbed
    BY <2>1 DEF SpawnStart, SpawnProbed, SpawnRegisters, Register, Reclaimable, managerVars
  <2> QED BY <1>0, <1>1, <2>1
     DEF SpawnNext, SpawnAttach, SpawnFail, FinalizeKeepAlive, FinalizeDispose, FinalizeDisposed, EndDispose
<1>2. CASE TimerFires \/ ParkNext \/ \E st \in {"running", "idle"} : RunState(st)
  BY <1>0, <1>2 DEF TimerFires, ParkNext, ParkAborts, ParkCommits, ParkEnds, RunState, EndDispose
<1>3. ASSUME NEW c \in Callers, CallNext(c) PROVE Goal
  BY <1>3, CallFrame DEF Register
<1>4. ASSUME NEW c \in Callers, ReviverNext(c) PROVE Goal
  BY <1>0, <1>4
     DEF ReviverNext, Probed, ReviverClaims, ReviverAttaches, ReviverFails, ReviverUnwinds,
         ReviverFailsLate, ReviverReturns, ReviverReturnsDetached, DiscardEnds, EndDispose
<1>5. CASE ReleaseOp \/ Idles \/ \E k \in Releasers : ReleaseStep(k)
  BY <1>0, <1>5 DEF ReleaseOp, Release, Idles, ReleaseStep, ReleaseStrikes, ReleaseDisposed, EndDispose,
                    ReleaseEnds, TombstonePersisted
<1>6. CASE DisposeEnds \/ UNCHANGED vars
  BY <1>6 DEF DisposeEnds, vars
<1> QED BY <1>1, <1>2, <1>3, <1>4, <1>5, <1>6, Steps DEF RevivalInv

\* A session is attached by the executor, by a reviver, or when a reviver that
\* did not attach its own returns.
Attaches(r) ==
  /\ cur = r
  /\ \/ spawn.pc = "build" /\ spawn.ref = r /\ sess'[r] = nsess + 1
     \/ \E c \in Callers : call[c].pc \in {"claim", "build"} /\ call[c].ref = r /\ sess'[r] = nsess + 1
     \/ \E c \in Callers : /\ call[c].pc = "attached" /\ call[c].ref = r /\ sess'[r] = call[c].s
                           /\ mgr = "up" /\ status[r] = "parked"

\* A row gets a session only when one is attached.
LEMMA SessSteps ==
  ASSUME RevivalInv, [Next]_vars, NEW r \in Refs
  PROVE sess'[r] \in {0, sess[r]} \/ Attaches(r)
<1> USE DEF registryVars
<1>b. sess \in [Refs -> 0 .. MaxSession]
  BY DEF RevivalInv, LifecycleInv, TypeOK
<1> DEFINE Goal == sess'[r] \in {0, sess[r]} \/ Attaches(r)
<1>0. ASSUME UNCHANGED sess PROVE Goal
  BY <1>0
<1>a. ASSUME NEW x, NEW s, sess' = [sess EXCEPT ![x] = s], r = x => s = 0 \/ s = sess[r] \/ Attaches(r) PROVE Goal
  BY <1>a, <1>b
<1>1. CASE SpawnNext
  <2>1. CASE SpawnAttach
    BY <1>a, <1>b, <2>1 DEF SpawnAttach, Attaches
  <2> QED BY <1>0, <1>1, <2>1
     DEF SpawnNext, SpawnStart, SpawnProbed, SpawnRegisters, Register, SpawnFail,
         FinalizeKeepAlive, FinalizeDispose, FinalizeDisposed
<1>2. CASE TimerFires \/ ParkNext \/ \E st \in {"running", "idle"} : RunState(st)
  BY <1>0, <1>a, <1>2 DEF TimerFires, ParkNext, ParkAborts, ParkCommits, ParkEnds, RunState
<1>3. ASSUME NEW c \in Callers, CallNext(c) PROVE Goal
  BY <1>0, <1>3, CallFrame
<1>4. ASSUME NEW c \in Callers, ReviverNext(c) PROVE Goal
  <2>1. CASE ReviverAttaches(c)
    BY <1>b, <2>1 DEF ReviverAttaches, Attaches
  <2>2. CASE ReviverReturns(c)
    BY <1>0, <1>b, <2>2 DEF ReviverReturns, Publish, StillOurs, Attaches
  <2>3. CASE ReviverReturnsDetached(c)
    BY <1>0, <1>b, <2>3 DEF ReviverReturnsDetached, Publish, Attaches
  <2> QED BY <1>0, <1>4, <2>1, <2>2, <2>3
     DEF ReviverNext, Probed, ReviverClaims, ReviverFails, ReviverUnwinds, ReviverFailsLate, DiscardEnds
<1>5. CASE ReleaseOp \/ Idles \/ \E k \in Releasers : ReleaseStep(k)
  BY <1>0, <1>a, <1>5 DEF ReleaseOp, Release, Strike, Idles, ReleaseStep, ReleaseStrikes, ReleaseDisposed,
                    ReleaseEnds, TombstonePersisted
<1>6. CASE DisposeEnds \/ UNCHANGED vars
  BY <1>0, <1>6 DEF DisposeEnds, vars
<1> QED BY <1>1, <1>2, <1>3, <1>4, <1>5, <1>6, Steps DEF RevivalInv

\* A park starts by the timer, commits, ends, or goes on.
LEMMA ParkSteps ==
  ASSUME RevivalInv, [Next]_vars
  PROVE \/ park'.phase = park.phase /\ park'.ref = park.ref /\ park'.s = park.s
        \/ park'.phase = "none"
        \/ TimerFires /\ park'.phase = "yield" /\ park'.ref = cur /\ park'.s = sess[cur] /\ cur \in Refs
           /\ sess[cur] # 0 /\ adopted.ref = cur /\ park.phase = "none" 
        \/ ParkCommits
<1> USE Facts DEF registryVars
<1> DEFINE Goal == 
        \/ park'.phase = park.phase /\ park'.ref = park.ref /\ park'.s = park.s
        \/ park'.phase = "none"
        \/ TimerFires /\ park'.phase = "yield" /\ park'.ref = cur /\ park'.s = sess[cur] /\ cur \in Refs
           /\ sess[cur] # 0 /\ adopted.ref = cur /\ park.phase = "none" 
        \/ ParkCommits
<1>0. ASSUME UNCHANGED park PROVE Goal
  BY <1>0
<1>1. CASE SpawnNext \/ \E st \in {"running", "idle"} : RunState(st)
  BY <1>0, <1>1
     DEF SpawnNext, SpawnStart, SpawnProbed, SpawnRegisters, SpawnAttach, SpawnFail,
         FinalizeKeepAlive, FinalizeDispose, FinalizeDisposed, RunState
<1>2. CASE TimerFires \/ ParkNext
  BY <1>2 DEF TimerFires, ParkNext, ParkAborts, ParkEnds, NoPark
<1>3. ASSUME NEW c \in Callers, CallNext(c) PROVE Goal
  BY <1>3, CallFrame
<1>4. ASSUME NEW c \in Callers, ReviverNext(c) PROVE Goal
  BY <1>0, <1>4, ReviverSteps
<1>5. CASE ReleaseOp
  <2>1. UNCHANGED park \/ \E b : park' = [park EXCEPT !.cancelled = b]
    BY <1>5 DEF ReleaseOp, Release
  <2> QED BY <2>1 DEF Parks
<1>6. CASE Idles \/ DisposeEnds \/ UNCHANGED vars \/ \E k \in Releasers : ReleaseStep(k)
  BY <1>0, <1>6 DEF Idles, DisposeEnds, vars, ReleaseStep, ReleaseStrikes, ReleaseDisposed,
                    ReleaseEnds, TombstonePersisted, Parks
<1> QED BY <1>1, <1>2, <1>3, <1>4, <1>5, <1>6, Steps DEF RevivalInv

\* The ways in which the row of a registered reference changes: its session runs
\* a turn, ...
RunsTurn(r) ==
  /\ cur = r /\ sess[r] # 0 /\ ~Initializing(sess[r]) /\ status[r] \in {"running", "idle"}
  /\ status'[r] \in {"running", "idle"} /\ sess'[r] = sess[r]
  /\ UNCHANGED <<cur, call, spawn, park>>
\* ... the executor leaves it idle, ...
IsKept(r) ==
  /\ cur = r /\ spawn.pc = "run" /\ spawn.ref = r /\ sess[r] = spawn.s /\ sess[r] # 0
  /\ status[r] \in {"running", "idle"} /\ status'[r] = "idle" /\ sess'[r] = sess[r]
  /\ spawn' = NoSpawn /\ UNCHANGED <<cur, call, park>>
\* ... it is parked, ...
IsParked(r) == ParkCommits /\ park.ref = r /\ cur = r
\* ... it is killed, ...
IsKilled(r) ==
  /\ cur = r /\ status'[r] = "aborted" /\ sess'[r] = 0 /\ UNCHANGED <<cur, call>>
  /\ \E k \in Releasers : rel'[k].live = sess[r]
  /\ park.mapped /\ park.ref = r => \E k \in Releasers : rel[k].pc = "strike"
\* ... the executor attaches a session, ...
IsSpawned(r) == SpawnAttach /\ spawn.ref = r
\* ... or a reviver does.
IsRevived(r) ==
  \E c \in Callers :
    /\ cur = r /\ call[c].ref = r
    /\ \/ ReviverAttaches(c)
       \/ /\ call[c].pc \in {"claim", "attached"} /\ ReviverNext(c) /\ Settle(c, sess'[r])
          /\ mgr = "up" /\ sess'[r] # 0 /\ status'[r] = "idle"
          /\ call[c].pc = "attached" => sess'[r] = call[c].s
    /\ UNCHANGED <<cur, spawn, park>>

\* There are no others.
LEMMA RowSteps ==
  ASSUME RevivalInv, SessionInv, [Next]_vars, NEW r \in Refs, r <= nrefs
  PROVE \/ status'[r] = status[r] /\ sess'[r] = sess[r]
        \/ RunsTurn(r) \/ IsKept(r) \/ IsParked(r) \/ IsKilled(r) \/ IsSpawned(r) \/ IsRevived(r)
<1> USE Facts DEF registryVars, callVars
<1>b. /\ sess \in [Refs -> 0 .. MaxSession] /\ status \in [Refs -> Statuses]
      /\ RetainedIsDetached /\ nsess \in Nat
  BY LifecycleAssumption DEF RevivalInv, LifecycleInv, TypeOK
<1> DEFINE Goal == \/ status'[r] = status[r] /\ sess'[r] = sess[r]
                   \/ RunsTurn(r) \/ IsKept(r) \/ IsParked(r) \/ IsKilled(r) \/ IsSpawned(r) \/ IsRevived(r)
<1>0. ASSUME UNCHANGED <<status, sess>> PROVE Goal
  BY <1>0
<1>g. ASSUME NEW st, NEW f, Register(st, f) PROVE Goal
  BY <1>b, <1>g DEF Register
<1>1. CASE SpawnNext
  <2>1. CASE SpawnAttach
    BY <1>b, <2>1 DEF SpawnAttach, IsSpawned
  <2>2. ASSUME NEW ttl, NEW revive, FinalizeKeepAlive(ttl, revive) PROVE Goal
    <3>1. SessionOf(spawn.ref, spawn.s) /\ SessionOf(cur, sess[cur]) /\ spawn.s # 0
      BY <1>b, <2>2
         DEF FinalizeKeepAlive, OwnsRef, SessionInv, SpawnSession, RefSessions, SessionOf
    <3>2. cur = spawn.ref
      BY <2>2, <3>1 DEF FinalizeKeepAlive, OwnsRef, SessionOf
    <3> QED BY <1>b, <2>2, <3>1, <3>2
            DEF FinalizeKeepAlive, OwnsRef, IsKept, RetainedIsDetached, Statuses
  <2> QED BY <1>0, <1>1, <1>g, <2>1, <2>2
     DEF SpawnNext, SpawnStart, SpawnProbed, SpawnRegisters, SpawnFail, FinalizeDispose, FinalizeDisposed
<1>2. ASSUME NEW st \in {"running", "idle"}, RunState(st) PROVE Goal
  BY <1>b, <1>2 DEF RunState, RunsTurn, RetainedIsDetached, Statuses
<1>3. CASE TimerFires \/ ParkNext
  BY <1>0, <1>b, <1>3 DEF TimerFires, ParkNext, ParkAborts, ParkCommits, ParkStops, ParkEnds, IsParked
<1>4. ASSUME NEW c \in Callers, CallNext(c) PROVE Goal
  BY <1>0, <1>4, <1>g, CallFrame
<1>5. ASSUME NEW c \in Callers, ReviverNext(c) PROVE Goal
  <2>1. CASE ReviverAttaches(c)
    BY <1>b, <2>1 DEF ReviverAttaches, IsRevived
  <2>2. CASE ReviverReturns(c)
    <3>1. call[c].s # 0
      BY <2>2 DEF ReviverReturns, SessionInv, CallSessions, SessionOf, Holding
    <3> QED BY <1>0, <1>b, <1>5, <2>2, <3>1 DEF ReviverReturns, Publish, StillOurs, IsRevived
  <2>3. CASE ReviverReturnsDetached(c)
    BY <1>0, <1>b, <1>5, <2>3 DEF ReviverReturnsDetached, Publish, IsRevived
  <2> QED BY <1>0, <1>5, <2>1, <2>2, <2>3
     DEF ReviverNext, Probed, ReviverClaims, ReviverFails, ReviverUnwinds, ReviverFailsLate, DiscardEnds
<1>6. CASE ReleaseOp
  <2>0. rel \in [Releasers -> Releases]
    BY Facts
  <2> QED BY <1>0, <1>b, <1>6, <2>0 DEF ReleaseOp, Release, Strike, LiveOf, IsKilled
<1>7. ASSUME NEW k \in Releasers, ReleaseStep(k) PROVE Goal
  BY <1>0, <1>b, <1>7
     DEF ReleaseStep, ReleaseStrikes, Strike, LiveOf, IsKilled, ReleaseDisposed, ReleaseEnds, TombstonePersisted
<1>8. CASE Idles \/ DisposeEnds \/ UNCHANGED vars
  BY <1>0, <1>8 DEF Idles, DisposeEnds, vars
<1> QED BY <1>1, <1>2, <1>3, <1>4, <1>5, <1>6, <1>7, <1>8, Steps DEF RevivalInv

\* The timer is armed only for a reference that is idle.
LEMMA ArmSteps ==
  ASSUME RevivalInv, SessionInv, [Next]_vars, adopted'.timer
  PROVE (adopted'.ref = adopted.ref /\ adopted.timer) \/ status'[adopted'.ref] = "idle"
<1> USE Facts DEF registryVars, callVars
<1> DEFINE Goal == (adopted'.ref = adopted.ref /\ adopted.timer) \/ status'[adopted'.ref] = "idle"
<1>b. status \in [Refs -> Statuses] /\ NoAdoption.timer = FALSE
  BY DEF RevivalInv, LifecycleInv, TypeOK, NoAdoption
<1>0. ASSUME adopted' \in {adopted, NoAdoption} PROVE Goal
  BY <1>0, <1>b
<1>s. ASSUME NEW a \in Adoptions, a = adopted \/ (a.ref = adopted.ref /\ a.timer = adopted.timer),
             NEW r \in Refs, NEW st, adopted' = OnStatus(a, r, st), status' = [status EXCEPT ![r] = st]
      PROVE Goal
  BY <1>s, <1>b DEF OnStatus, Adoptions
<1>u. ASSUME NEW r, Unregister(r, adopted) \/ UnregisterUnlessParked(r, adopted) PROVE Goal
  BY <1>0, <1>u DEF Unregister, UnregisterUnlessParked, OnRemoved
<1>1. CASE SpawnNext
  <2>1. ASSUME NEW ttl, NEW revive, FinalizeKeepAlive(ttl, revive) PROVE Goal
    BY <1>b, <2>1 DEF FinalizeKeepAlive, OwnsRef
  <2>2. CASE SpawnAttach
    BY <1>s, <1>b, <2>2 DEF SpawnAttach, SessionInv, SpawnSession
  <2> QED BY <1>0, <1>1, <1>u, <2>1, <2>2
     DEF SpawnNext, SpawnStart, SpawnProbed, SpawnRegisters, SpawnFail, FinalizeDispose, FinalizeDisposed,
         EndDispose
<1>2. ASSUME NEW st \in {"running", "idle"}, RunState(st) PROVE Goal
  BY <1>s, <1>2 DEF RunState
<1>3. CASE TimerFires \/ ParkNext
  BY <1>0, <1>u, <1>3
     DEF TimerFires, ParkNext, ParkAborts, ParkCommits, ParkEnds, EndDispose, Adoptions
<1>4. ASSUME NEW c \in Callers, CallNext(c) PROVE Goal
  <2>1. (UNCHANGED status /\ adopted' = Rearmed(call[c].ref)) \/ UNCHANGED adopted
    BY <1>4, CallFrame
  <2> QED BY <1>0, <2>1 DEF Rearmed, Adoptions
<1>5. ASSUME NEW c \in Callers, ReviverNext(c) PROVE Goal
  <2>1. CASE Probed(c)
    <3>1. ASSUME NEW ttl, NEW d
          PROVE /\ ~[ref |-> call[c].ref, ttl |-> ttl, revive |-> TRUE, timer |-> FALSE, by |-> NoCaller].timer
                /\ ~[[ref |-> call[c].ref, ttl |-> ttl, revive |-> TRUE, timer |-> FALSE, by |-> NoCaller]
                      EXCEPT !.by = d].timer
      OBVIOUS
    <3> QED BY <1>0, <2>1, <3>1 DEF Probed
  <2>2. CASE ReviverAttaches(c)
    BY <1>s, <2>2 DEF ReviverAttaches, Reviving
  <2>3. ASSUME NEW s, Publish(c, call[c].ref, s), call[c].ref \in Refs PROVE Goal
    <3>1. KeepCold(c, adopted) \in Adoptions /\ KeepCold(c, adopted).ref = adopted.ref
          /\ KeepCold(c, adopted).timer = adopted.timer
      BY KeepColdType DEF KeepCold, Adoptions
    <3> QED BY <1>s, <2>3, <3>1 DEF Publish
  <2>4. CASE ReviverReturns(c) \/ ReviverReturnsDetached(c)
    BY <1>0, <2>3, <2>4 DEF ReviverReturns, ReviverReturnsDetached, Reviving
  <2>5. CASE DiscardEnds(c)
    BY <1>0, <1>u, <2>5 DEF DiscardEnds, EndDispose, DropCold, UnregisterUnlessParked, Unregister, OnRemoved
  <2> QED BY <1>0, <1>5, <2>1, <2>2, <2>4, <2>5
     DEF ReviverNext, ReviverClaims, ReviverFails, ReviverUnwinds, ReviverFailsLate, Fail, DropCold
<1>6. CASE ReleaseOp \/ \E k \in Releasers : ReleaseStep(k)
  BY <1>0, <1>u, <1>6
     DEF ReleaseOp, Release, Strike, ReleaseStep, ReleaseStrikes, ReleaseDisposed, ReleaseEnds,
         TombstonePersisted, EndDispose
<1>7. CASE Idles \/ DisposeEnds \/ UNCHANGED vars
  BY <1>0, <1>7 DEF Idles, DisposeEnds, vars
<1> QED BY <1>1, <1>2, <1>3, <1>4, <1>5, <1>6, <1>7, Steps DEF RevivalInv

\* The adoption passes to the reference the executor keeps alive, or a cold
\* revival's.
LEMMA AdoptSteps ==
  ASSUME RevivalInv, SessionInv, [Next]_vars
  PROVE \/ adopted'.ref \in {0, adopted.ref}
        \/ IsKept(adopted'.ref)
        \/ \E c \in Callers : call[c].pc = "probe" /\ adopted'.ref = call[c].ref /\ UNCHANGED <<spawn, status, cur, sess>>
<1> USE Facts DEF registryVars, callVars
<1> DEFINE Goal == \/ adopted'.ref \in {0, adopted.ref}
                   \/ IsKept(adopted'.ref)
                   \/ \E c \in Callers : call[c].pc = "probe" /\ adopted'.ref = call[c].ref /\ UNCHANGED <<spawn, status, cur, sess>>
<1>b. NoAdoption.ref = 0 /\ status \in [Refs -> Statuses] /\ RetainedIsDetached
  BY DEF NoAdoption, RevivalInv, LifecycleInv, TypeOK
<1>0. ASSUME adopted' \in {adopted, NoAdoption} PROVE Goal
  BY <1>0, <1>b
<1>s. ASSUME NEW a \in Adoptions, NEW r, NEW st PROVE OnStatus(a, r, st).ref = a.ref
  BY DEF OnStatus, Adoptions
<1>u. ASSUME NEW r, Unregister(r, adopted) \/ UnregisterUnlessParked(r, adopted) PROVE Goal
  BY <1>0, <1>u DEF Unregister, UnregisterUnlessParked, OnRemoved
<1>1. CASE SpawnNext
  <2>1. ASSUME NEW ttl, NEW revive, FinalizeKeepAlive(ttl, revive) PROVE Goal
    <3>1. SessionOf(spawn.ref, spawn.s) /\ SessionOf(cur, sess[cur]) /\ spawn.s # 0
      BY <1>b, <2>1
         DEF FinalizeKeepAlive, OwnsRef, SessionInv, SpawnSession, RefSessions, SessionOf
    <3>2. cur = spawn.ref /\ adopted'.ref = cur
      BY <2>1, <3>1 DEF FinalizeKeepAlive, OwnsRef, SessionOf
    <3> QED BY <1>b, <2>1, <3>1, <3>2
            DEF FinalizeKeepAlive, OwnsRef, IsKept, RetainedIsDetached, Statuses
  <2>2. CASE SpawnAttach
    BY <1>s, <2>2 DEF SpawnAttach
  <2> QED BY <1>0, <1>1, <1>u, <2>1, <2>2
     DEF SpawnNext, SpawnStart, SpawnProbed, SpawnRegisters, SpawnFail, FinalizeDispose, FinalizeDisposed,
         EndDispose
<1>2. ASSUME NEW st \in {"running", "idle"}, RunState(st) PROVE Goal
  BY <1>s, <1>2 DEF RunState
<1>3. CASE TimerFires \/ ParkNext
  BY <1>0, <1>u, <1>3
     DEF TimerFires, ParkNext, ParkAborts, ParkCommits, ParkEnds, EndDispose, Adoptions
<1>4. ASSUME NEW c \in Callers, CallNext(c) PROVE Goal
  <2>1. adopted' = Rearmed(call[c].ref) \/ UNCHANGED adopted
    BY <1>4, CallFrame
  <2> QED BY <1>0, <2>1 DEF Rearmed, Adoptions
<1>5. ASSUME NEW c \in Callers, ReviverNext(c) PROVE Goal
  <2>1. CASE Probed(c)
    <3>1. adopted'.ref = call[c].ref \/ UNCHANGED adopted
      <4>1. ASSUME NEW ttl, NEW d
            PROVE /\ [ref |-> call[c].ref, ttl |-> ttl, revive |-> TRUE, timer |-> FALSE, by |-> NoCaller].ref
                     = call[c].ref
                  /\ [[ref |-> call[c].ref, ttl |-> ttl, revive |-> TRUE, timer |-> FALSE, by |-> NoCaller]
                       EXCEPT !.by = d].ref = call[c].ref
        OBVIOUS
      <4> QED BY <2>1, <4>1 DEF Probed
    <3> QED BY <2>1, <3>1, <1>0 DEF Probed, Reviving
  <2>2. CASE ReviverAttaches(c)
    BY <1>s, <2>2 DEF ReviverAttaches
  <2>3. ASSUME NEW s, Publish(c, call[c].ref, s) PROVE Goal
    <3>1. KeepCold(c, adopted) \in Adoptions /\ KeepCold(c, adopted).ref = adopted.ref
      BY KeepColdType DEF KeepCold, Adoptions
    <3> QED BY <1>s, <2>3, <3>1 DEF Publish
  <2>4. CASE ReviverReturns(c) \/ ReviverReturnsDetached(c)
    BY <1>0, <2>3, <2>4 DEF ReviverReturns, ReviverReturnsDetached
  <2>5. CASE DiscardEnds(c)
    BY <1>0, <1>u, <2>5 DEF DiscardEnds, EndDispose, DropCold, UnregisterUnlessParked, Unregister, OnRemoved
  <2> QED BY <1>0, <1>5, <2>1, <2>2, <2>4, <2>5
     DEF ReviverNext, ReviverClaims, ReviverFails, ReviverUnwinds, ReviverFailsLate, Fail, DropCold
<1>6. CASE ReleaseOp \/ \E k \in Releasers : ReleaseStep(k)
  BY <1>0, <1>u, <1>6
     DEF ReleaseOp, Release, Strike, ReleaseStep, ReleaseStrikes, ReleaseDisposed, ReleaseEnds,
         TombstonePersisted, EndDispose
<1>7. CASE Idles \/ DisposeEnds \/ UNCHANGED vars
  BY <1>0, <1>7 DEF Idles, DisposeEnds, vars
<1> QED BY <1>1, <1>2, <1>3, <1>4, <1>5, <1>6, <1>7, Steps DEF RevivalInv

-----------------------------------------------------------------------------
(* The steps keep the control invariant *)

\* The manager never comes back up.
LEMMA MgrSteps == ASSUME RevivalInv, [Next]_vars, mgr' = "up" PROVE mgr = "up"
<1> USE DEF managerVars
<1>1. CASE SpawnNext \/ TimerFires \/ ParkNext \/ \E st \in {"running", "idle"} : RunState(st)
  BY <1>1
     DEF SpawnNext, SpawnStart, SpawnProbed, SpawnRegisters, SpawnAttach, SpawnFail, FinalizeKeepAlive,
         FinalizeDispose, FinalizeDisposed, TimerFires, ParkNext, ParkAborts, ParkCommits, ParkEnds, RunState
<1>2. ASSUME NEW c \in Callers, CallNext(c) \/ ReviverNext(c) PROVE UNCHANGED mgr
  BY <1>2, CallFrame, ReviverSteps
<1>3. CASE ReleaseOp \/ Idles \/ DisposeEnds \/ UNCHANGED vars \/ \E k \in Releasers : ReleaseStep(k)
  BY <1>3 DEF ReleaseOp, Idles, DisposeBegins, DisposeEnds, vars, ReleaseStep, ReleaseStrikes, ReleaseDisposed,
              ReleaseEnds, TombstonePersisted
<1> QED BY <1>1, <1>2, <1>3, Steps DEF RevivalInv

\* What any step does to a call.
LEMMA AnyCall ==
  ASSUME RevivalInv, SessionInv, [Next]_vars, NEW x \in Callers
  PROVE \/ call'[x] = call[x] \/ Rests(x) \/ call'[x].pc \in {"kept", "resume"}
        \/ GoesOn(x) \/ Reopening(x) \/ Starts(x)
        \/ ReviverNext(x) /\ call'[x].ref = call[x].ref /\ Continues(x)
<1> USE DEF callVars
<1>1. CASE SpawnNext \/ TimerFires \/ \E st \in {"running", "idle"} : RunState(st)
  BY <1>1
     DEF SpawnNext, SpawnStart, SpawnProbed, SpawnRegisters, SpawnAttach, SpawnFail, FinalizeKeepAlive,
         FinalizeDispose, FinalizeDisposed, TimerFires, RunState
<1>2. CASE ParkNext
  BY <1>2, WakeFields DEF ParkNext, ParkAborts, ParkCommits, ParkEnds
<1>3. ASSUME NEW c \in Callers, CallNext(c) PROVE \/ call'[x] = call[x] \/ Rests(x) \/ GoesOn(x)
                                                  \/ Reopening(x) \/ Starts(x)
  BY <1>3, CallSteps
<1>4. ASSUME NEW c \in Callers, ReviverNext(c)
      PROVE \/ call'[x] = call[x] \/ Rests(x)
            \/ ReviverNext(x) /\ call'[x].ref = call[x].ref /\ Continues(x)
  BY <1>4, ReviverSteps
<1>5. CASE ReleaseOp \/ Idles \/ DisposeEnds \/ UNCHANGED vars \/ \E k \in Releasers : ReleaseStep(k)
  BY <1>5 DEF ReleaseOp, Release, Idles, DisposeEnds, vars, ReleaseStep, ReleaseStrikes,
              ReleaseDisposed, ReleaseEnds, TombstonePersisted
<1> QED BY <1>1, <1>2, <1>3, <1>4, <1>5, Steps DEF RevivalInv

\* What any step does to the run of the executor.
LEMMA SpawnSteps ==
  ASSUME RevivalInv, SessionInv, [Next]_vars
  PROVE \/ UNCHANGED spawn \/ spawn'.pc \in {"idle", "probe"}
        \/ SpawnRegisters \/ SpawnAttach
        \/ FinalizeDispose /\ spawn'.pc = "dispose" /\ spawn'.s = spawn.s /\ spawn'.ref \in {0, spawn.ref}
<1> USE Facts
<1> DEFINE Goal ==
        \/ UNCHANGED spawn \/ spawn'.pc \in {"idle", "probe"}
        \/ SpawnRegisters \/ SpawnAttach
        \/ FinalizeDispose /\ spawn'.pc = "dispose" /\ spawn'.s = spawn.s /\ spawn'.ref \in {0, spawn.ref}
<1>1. CASE SpawnNext
  <2>1. CASE FinalizeDispose
    <3>1. SessionOf(spawn.ref, spawn.s) /\ spawn.s # 0
      BY <2>1 DEF FinalizeDispose, SessionInv, SpawnSession, SessionOf
    <3>2. OwnsRef => cur = spawn.ref
      BY <3>1 DEF OwnsRef, SessionInv, RefSessions, SessionOf
    <3> QED BY <2>1, <3>2 DEF FinalizeDispose, Spawns
  <2> QED BY <1>1, <2>1 DEF SpawnNext, SpawnStart, SpawnProbed, SpawnFail, FinalizeKeepAlive, FinalizeDisposed, NoSpawn
<1>2. CASE TimerFires \/ ParkNext \/ \E st \in {"running", "idle"} : RunState(st)
  BY <1>2 DEF TimerFires, ParkNext, ParkAborts, ParkCommits, ParkEnds, RunState
<1>3. ASSUME NEW c \in Callers, CallNext(c) \/ ReviverNext(c) PROVE Goal
  BY <1>3, CallFrame, ReviverSteps
<1>4. CASE ReleaseOp \/ Idles \/ DisposeEnds \/ UNCHANGED vars \/ \E k \in Releasers : ReleaseStep(k)
  BY <1>4 DEF ReleaseOp, NoSpawn, Idles, DisposeEnds, vars, ReleaseStep, ReleaseStrikes,
              ReleaseDisposed, ReleaseEnds, TombstonePersisted
<1> QED BY <1>1, <1>2, <1>3, <1>4, Steps DEF RevivalInv

\* A park in flight is of a reference and a session that exist.
LEMMA ParkRefs ==
  ASSUME RevivalInv, SessionInv, park.phase # "none"
  PROVE park.ref \in Refs /\ park.ref <= nrefs /\ park.s # 0 /\ park.s <= nsess /\ nsess \in Nat /\ nrefs \in Nat
BY Facts, LifecycleAssumption DEF SessionInv, ParkSession, RefsGiven, SessionOf, RevivalInv, LifecycleInv, TypeOK

\* Every step keeps the other parts of ParkInv.
LEMMA NextParkYields ==
  ASSUME RevivalInv, SessionInv, ControlInv, [Next]_vars PROVE ParkYields'
<1>1. ParkYields
  BY DEF ControlInv, ParkInv
<1>2. TimerFires => UNCHANGED cur
  BY DEF TimerFires, registryVars
<1>3. ParkCommits => park'.phase = "dispose"
  BY Facts DEF ParkCommits, Parks
<1> QED BY <1>1, <1>2, <1>3, CurSteps, ParkSteps DEF ParkYields, Queued

LEMMA NextYieldSession ==
  ASSUME RevivalInv, SessionInv, ControlInv, [Next]_vars PROVE YieldSession'
<1>1. YieldSession /\ ParkAlone
  BY DEF ControlInv, ParkInv
<1>2. SUFFICES ASSUME mgr' = "up", park'.phase = "yield" PROVE sess'[park'.ref] \in {0, park'.s}
  BY DEF YieldSession
<1>3. mgr = "up"
  BY <1>2, MgrSteps
<1>4. CASE park'.phase = park.phase /\ park'.ref = park.ref /\ park'.s = park.s
  BY <1>1, <1>2, <1>3, <1>4, SessSteps, ParkRefs DEF YieldSession, ParkAlone, Attaches
<1>5. CASE TimerFires /\ park'.phase = "yield" /\ park'.ref = cur /\ park'.s = sess[cur]
  BY <1>5 DEF TimerFires, registryVars
<1>6. ParkCommits => park'.phase = "dispose"
  BY Facts DEF ParkCommits, Parks
<1> QED BY <1>2, <1>4, <1>5, <1>6, ParkSteps

LEMMA NextParkDetached ==
  ASSUME RevivalInv, SessionInv, ControlInv, [Next]_vars PROVE ParkDetached'
<1>1. ParkDetached /\ ParkAlone
  BY DEF ControlInv, ParkInv
<1>2. SUFFICES ASSUME park'.phase = "dispose" PROVE sess'[park'.ref] # park'.s
  BY DEF ParkDetached
<1>4. CASE park'.phase = park.phase /\ park'.ref = park.ref /\ park'.s = park.s
  BY <1>1, <1>2, <1>4, SessSteps, ParkRefs DEF ParkDetached, ParkAlone, Attaches
<1>5. CASE ParkCommits
  BY <1>5, ParkRefs, Facts DEF ParkCommits, Parks, RevivalInv, LifecycleInv, TypeOK
<1> QED BY <1>2, <1>4, <1>5, ParkSteps

LEMMA NextParkDisposes ==
  ASSUME RevivalInv, SessionInv, ControlInv, [Next]_vars PROVE ParkDisposes'
<1>1. ParkDisposes /\ ParkAlone /\ NoParkQueued /\ ParkMapped
  BY DEF ControlInv, ParkInv
<1>2. SUFFICES ASSUME mgr' = "up", park'.phase = "dispose" PROVE status'[park'.ref] = "parked"
  BY DEF ParkDisposes
<1>3. mgr = "up"
  BY <1>2, MgrSteps
<1>4. CASE park'.phase = park.phase /\ park'.ref = park.ref /\ park'.s = park.s
  <2>1. park.phase = "dispose" /\ status[park.ref] = "parked" /\ park.ref \in Refs /\ park.ref <= nrefs
    BY <1>1, <1>2, <1>3, <1>4, ParkRefs DEF ParkDisposes
  <2>2. ~IsParked(park.ref) /\ ~RunsTurn(park.ref) /\ ~IsKept(park.ref)
    BY <2>1 DEF IsParked, ParkCommits, RunsTurn, IsKept
  <2>3. ~IsKilled(park.ref)
    BY <1>1, <1>3, <2>1 DEF IsKilled, NoParkQueued, ParkMapped
  <2>4. ~IsSpawned(park.ref) /\ ~IsRevived(park.ref)
    BY <1>1, <1>3, <2>1 DEF IsSpawned, SpawnAttach, IsRevived, ReviverAttaches, ParkAlone
  <2> QED BY <1>4, <2>1, <2>2, <2>3, <2>4, RowSteps
<1>5. CASE ParkCommits
  <2>1. park.phase = "yield" /\ cur = park.ref /\ park'.ref = park.ref
    BY <1>5, Facts DEF ParkCommits, ParkStops, Parks
  <2>2. status[park.ref] # "aborted"
    BY <1>1, <1>3, <2>1 DEF ParkAlone
  <2> QED BY <1>5, <2>1, <2>2, ParkRefs DEF ParkCommits, RevivalInv, LifecycleInv, TypeOK
<1> QED BY <1>2, <1>4, <1>5, ParkSteps

LEMMA NextParkAlone ==
  ASSUME RevivalInv, SessionInv, ControlInv, [Next]_vars PROVE ParkAlone'
<1>1. ParkAlone /\ NoParkQueued /\ ParkMapped /\ NotYetUp /\ AttachedRuns /\ StaleIsKilled /\ Spawning /\ Spawned
  BY DEF ControlInv, ParkInv
<1>2. SUFFICES ASSUME mgr' = "up", park'.phase # "none" PROVE ParkAlone'
  BY DEF ParkAlone
<1>3. mgr = "up"
  BY <1>2, MgrSteps
<1> DEFINE Bad == {"probe", "claim", "build", "attached", "stale", "dropTombstone", "reopened"}
<1>4. CASE park.phase # "none" /\ park'.ref = park.ref
  <2>0. park.mapped /\ park.ref \in Refs /\ park.ref <= nrefs /\ nrefs \in Nat
    BY <1>1, <1>3, <1>4, ParkRefs DEF ParkMapped
  <2>1. ASSUME NEW x \in Callers, call'[x].ref = park.ref PROVE call'[x].pc \notin Bad
    <3>0. call[x].ref = park.ref => call[x].pc \notin Bad
      BY <1>1, <1>3, <1>4 DEF ParkAlone
    <3>1. CASE GoesOn(x)
      BY <1>1, <1>3, <1>4, <2>1, <3>1 DEF GoesOn, ParkAlone
    <3>2. CASE Reopening(x)
      BY <2>0, <2>1, <3>2 DEF Reopening
    <3>3. CASE Starts(x)
      BY <1>1, <1>3, <1>4, <2>0, <2>1, <3>0, <3>3 DEF Starts, NoParkQueued
    <3>4. CASE call'[x].ref = call[x].ref /\ Continues(x)
      BY <2>1, <3>0, <3>4 DEF Continues
    <3> QED BY <2>1, <3>0, <3>1, <3>2, <3>3, <3>4, AnyCall DEF Rests, Resting
  <2>2. ASSUME spawn'.pc \in {"build", "run", "dispose"} PROVE spawn'.ref # park.ref
    <3>1. CASE SpawnRegisters
      BY <2>0, <3>1 DEF SpawnRegisters
    <3>2. CASE SpawnAttach
      BY <1>1, <1>3, <1>4, <3>2 DEF SpawnAttach, ParkAlone
    <3>3. CASE FinalizeDispose /\ spawn'.ref \in {0, spawn.ref}
      BY <1>1, <1>3, <1>4, <2>0, <3>3 DEF FinalizeDispose, ParkAlone, Refs
    <3> QED BY <1>1, <1>3, <1>4, <2>2, <3>1, <3>2, <3>3, SpawnSteps DEF ParkAlone
  <2>3. ASSUME park.ref = cur' PROVE status'[cur'] # "aborted"
    <3>1. cur' = cur
      BY <2>0, <2>3, CurSteps DEF Refs
    <3>2. status[park.ref] # "aborted" /\ ~IsKilled(park.ref)
      BY <1>1, <1>3, <1>4, <2>0, <2>3, <3>1 DEF ParkAlone, IsKilled, NoParkQueued
    <3>3. ~IsSpawned(park.ref) /\ ~IsRevived(park.ref)
      BY <1>1, <1>3, <1>4 DEF IsSpawned, SpawnAttach, IsRevived, ReviverAttaches, ParkAlone
    <3>4. IsParked(park.ref) => status'[park.ref] # "aborted"
      BY <2>0, <3>2 DEF IsParked, ParkCommits, RevivalInv, LifecycleInv, TypeOK
    <3> QED BY <2>0, <2>3, <3>1, <3>2, <3>3, <3>4, RowSteps DEF RunsTurn, IsKept
  <2> QED BY <1>4, <2>1, <2>2, <2>3 DEF ParkAlone
<1>5. CASE TimerFires /\ park'.ref = cur /\ cur \in Refs /\ sess[cur] # 0 /\ adopted.ref = cur
  <2>0. /\ status[cur] \notin {"parked", "aborted"} /\ cur # 0
        /\ UNCHANGED <<cur, status, call, spawn>> /\ adopted.timer /\ ~Queued /\ ~Removing
    BY <1>5 DEF TimerFires, TimersDue, RevivalInv, LifecycleInv, RetainedIsDetached, registryVars, callVars, Refs
  <2>1. ASSUME NEW x \in Callers, call[x].ref = cur PROVE call[x].pc \notin Bad
    BY <1>1, <1>3, <1>5, <2>0, <2>1 DEF NotYetUp, AttachedRuns, StaleIsKilled, Queued, Removing
  <2>2. spawn.pc \in {"build", "run", "dispose"} => spawn.ref # cur
    BY <1>1, <1>3, <1>5, <2>0 DEF Spawning, Spawned
  <2> QED BY <1>5, <2>0, <2>1, <2>2 DEF ParkAlone
<1>6. ParkCommits => park.phase # "none" /\ park'.ref = park.ref
  BY Facts DEF ParkCommits, Parks
<1> QED BY <1>2, <1>4, <1>5, <1>6, ParkSteps

\* While the manager is up and the reference stays registered, whoever revives it
\* is alone.
LEMMA StillCur ==
  ASSUME RevivalInv, [Next]_vars, mgr' = "up", cur' # 0, cur' <= nrefs
  PROVE mgr = "up" /\ cur' = cur /\ cur \in Refs /\ cur = nrefs
<1>1. mgr = "up"
  BY MgrSteps
<1>2. cur' = cur
  BY Facts, CurSteps
<1> QED BY <1>1, <1>2, Facts

\* One call revives it.
LEMMA AliveAlone ==
  ASSUME RevivalInv, mgr = "up", NEW c \in Callers, NEW d \in Callers, Reviving(c), Reviving(d),
         call[c].ref = call[d].ref
  PROVE c = d
BY DEF RevivalInv, OneRevivalPerRef

\* The calls that revive the registered reference did so before the step, or
\* start on a parked one.
LEMMA ReviversBefore ==
  ASSUME RevivalInv, SessionInv, [Next]_vars, mgr' = "up", NEW x \in Callers,
         call'[x].ref = cur', call'[x].pc \in {"probe", "claim", "build", "attached", "stale", "failing"}
  PROVE /\ mgr = "up" /\ cur' = cur /\ cur \in Refs /\ cur = nrefs
        /\ \/ call'[x] = call[x] /\ Reviving(x)
           \/ Starts(x)
           \/ ReviverNext(x) /\ call'[x].ref = call[x].ref /\ Continues(x) /\ Reviving(x)
<1>1. \/ call'[x] = call[x] /\ Reviving(x)
      \/ Starts(x)
      \/ ReviverNext(x) /\ call'[x].ref = call[x].ref /\ Continues(x) /\ Reviving(x)
  BY AnyCall, ReviverSteps DEF Rests, Resting, GoesOn, Reopening, Reviving
<1>2. call'[x].ref \in Refs /\ call'[x].ref <= nrefs
  BY <1>1, Facts DEF Starts
<1> QED BY <1>1, <1>2, StillCur DEF Refs

\* The call whose reviver attached a session holds that session.
LEMMA AttachFields ==
  ASSUME RevivalInv, NEW c \in Callers, ReviverAttaches(c)
  PROVE call'[c].pc = "attached" /\ call'[c].ref = call[c].ref /\ call'[c].s = nsess + 1
<1> QED BY Facts, MoveWithFields DEF ReviverAttaches

\* Every step keeps the parts of ControlInv about revivals ...
LEMMA NextNotYetUp ==
  ASSUME RevivalInv, SessionInv, ControlInv, [Next]_vars PROVE NotYetUp'
<1>1. ParkAlone /\ NotYetUp /\ Spawning /\ RetainedIsDetached
  BY DEF ControlInv, ParkInv, RevivalInv, LifecycleInv
<1>2. SUFFICES ASSUME mgr' = "up", NEW x \in Callers, call'[x].ref = cur',
                      call'[x].pc \in {"probe", "claim", "build"}
      PROVE status'[cur'] \in {"parked", "aborted"}
  BY DEF NotYetUp
<1>3. mgr = "up" /\ cur' = cur /\ cur \in Refs /\ cur = nrefs
  BY <1>2, ReviversBefore
<1>4. CASE Starts(x)
  BY <1>3, <1>4 DEF Starts
<1>5. CASE call[x].ref = cur /\ call[x].pc \in {"probe", "claim", "build"}
           /\ (call'[x] = call[x] \/ ~ReviverAttaches(x))
  <2>1. status[cur] \in {"parked", "aborted"} /\ sess[cur] = 0 /\ Reviving(x)
    BY <1>1, <1>3, <1>5 DEF NotYetUp, RetainedIsDetached, Reviving
  <2>2. ~RunsTurn(cur) /\ ~IsKept(cur) /\ ~IsSpawned(cur)
    BY <1>1, <1>3, <1>5, <2>1 DEF RunsTurn, IsKept, IsSpawned, SpawnAttach, Spawning
  <2>3. ~IsRevived(cur)
    <3> SUFFICES ASSUME IsRevived(cur) PROVE FALSE
      OBVIOUS
    <3>1. PICK c \in Callers : /\ call[c].ref = cur
            /\ \/ ReviverAttaches(c)
               \/ /\ call[c].pc \in {"claim", "attached"} /\ ReviverNext(c) /\ Settle(c, sess'[cur])
      BY DEF IsRevived
    <3>2. c = x
      BY <1>3, <1>5, <2>1, <3>1, AliveAlone DEF ReviverAttaches, Reviving
    <3>3. ReviverAttaches(c) => call'[c].pc = "attached"
      BY AttachFields
    <3>4. Settle(c, sess'[cur]) => call'[c].pc = "idle"
      BY Facts, SettleFields DEF Settle
    <3> QED BY <1>2, <3>1, <3>2, <3>3, <3>4
  <2> QED BY <1>3, <2>1, <2>2, <2>3, RowSteps, ParkRefs
          DEF IsParked, ParkCommits, IsKilled, RevivalInv, LifecycleInv, TypeOK
<1>6. ReviverAttaches(x) => call'[x].pc = "attached"
  BY AttachFields
<1> QED BY <1>2, <1>3, <1>4, <1>5, <1>6, ReviversBefore DEF Continues

LEMMA NextStaleIsKilled ==
  ASSUME RevivalInv, SessionInv, ControlInv, [Next]_vars PROVE StaleIsKilled'
<1>1. AttachedRuns /\ NotYetUp /\ StaleIsKilled /\ RetainedIsDetached
  BY DEF ControlInv, RevivalInv, LifecycleInv
<1>2. SUFFICES ASSUME mgr' = "up", NEW x \in Callers, call'[x].ref = cur', call'[x].pc = "stale"
      PROVE status'[cur'] = "aborted"
  BY DEF StaleIsKilled
<1>3. mgr = "up" /\ cur' = cur /\ cur \in Refs /\ cur = nrefs
  BY <1>2, ReviversBefore
<1>4. SUFFICES status[cur] = "aborted"
  BY <1>3, NextKeepsKilled, Facts DEF KilledStays, RevivalInv
<1>5. CASE call'[x] = call[x]
  BY <1>1, <1>2, <1>3, <1>5 DEF StaleIsKilled
<1>6. CASE ReviverNext(x) /\ call'[x].ref = call[x].ref /\ Continues(x)
  <2>1. call[x].pc \in {"claim", "attached"} /\ call[x].ref = cur
    BY <1>2, <1>3, <1>6 DEF Continues
  <2>2. CASE ReviverReturns(x)
    BY <1>1, <1>2, <1>3, <2>1, <2>2, Facts, SettleFields
       DEF ReviverReturns, StillOurs, AttachedRuns, Publish, Settle
  <2>3. CASE ReviverReturnsDetached(x)
    BY <1>1, <1>2, <1>3, <2>1, <2>3, Facts, SettleFields
       DEF ReviverReturnsDetached, NotYetUp, RetainedIsDetached, Publish, Settle
  <2>4. CASE ReviverClaims(x) \/ ReviverAttaches(x) \/ ReviverUnwinds(x)
    <3>1. ReviverClaims(x) => call'[x].pc = "build"
      BY Facts, MoveFields DEF ReviverClaims
    <3>2. ReviverUnwinds(x) => call'[x].pc = "failing"
      BY Facts, MoveFields DEF ReviverUnwinds
    <3> QED BY <1>2, <2>4, <3>1, <3>2, AttachFields
  <2>5. CASE ReviverFails(x) \/ ReviverFailsLate(x)
    BY <1>2, <2>5, Facts, SettleFields DEF ReviverFails, ReviverFailsLate, Fail, Settle
  <2> QED BY <1>6, <2>1, <2>2, <2>3, <2>4, <2>5 DEF ReviverNext, Probed, DiscardEnds
<1> QED BY <1>2, <1>5, <1>6, ReviversBefore DEF Starts

LEMMA NextAttachedRuns ==
  ASSUME RevivalInv, SessionInv, ControlInv, [Next]_vars PROVE AttachedRuns'
<1>1. /\ ParkAlone /\ NotYetUp /\ AttachedRuns /\ Spawning /\ Spawned /\ RetainedIsDetached /\ OwnSession
      /\ status \in [Refs -> Statuses] /\ sess \in [Refs -> 0 .. MaxSession]
  BY DEF ControlInv, ParkInv, RevivalInv, LifecycleInv, TypeOK, SessionInv
<1>2. SUFFICES ASSUME mgr' = "up", NEW x \in Callers, call'[x].ref = cur', call'[x].pc = "attached"
      PROVE \/ status'[cur'] = "aborted"
            \/ status'[cur'] = "running" /\ sess'[cur'] = call'[x].s /\ (adopted'.ref = cur' => ~adopted'.timer)
  BY DEF AttachedRuns
<1>3. mgr = "up" /\ cur' = cur /\ cur \in Refs /\ cur = nrefs
  BY <1>2, ReviversBefore
<1>4. CASE ReviverAttaches(x)
  <2>1. call'[x].s = nsess + 1 /\ call[x].ref = cur
    BY <1>2, <1>3, <1>4, AttachFields
  <2>2. status[cur] = "parked"
    BY <1>1, <1>3, <1>4, <2>1 DEF ReviverAttaches, NotYetUp
  <2>3. status'[cur] = "running" /\ sess'[cur] = nsess + 1 /\ adopted' = OnStatus(adopted, cur, "running")
    BY <1>1, <1>3, <1>4, <2>1 DEF ReviverAttaches
  <2>4. adopted'.ref = cur => ~adopted'.timer
    BY <1>3, <2>2, <2>3, Facts DEF OnStatus, Adoptions
  <2> QED BY <1>3, <2>1, <2>3, <2>4
<1>5. CASE call'[x] = call[x]
  <2>1. \/ status[cur] = "aborted"
        \/ status[cur] = "running" /\ sess[cur] = call[x].s /\ (adopted.ref = cur => ~adopted.timer)
    BY <1>1, <1>2, <1>3, <1>5 DEF AttachedRuns
  <2>2. call[x].pc = "attached" /\ call[x].ref = cur /\ Reviving(x)
    BY <1>2, <1>3, <1>5 DEF Reviving
  <2>3. CASE status[cur] = "aborted"
    BY <1>3, <2>3, NextKeepsKilled, Facts DEF KilledStays, RevivalInv
  <2>4. CASE status[cur] = "running" /\ sess[cur] = call[x].s /\ (adopted.ref = cur => ~adopted.timer)
    <3>1. ~RunsTurn(cur)
      BY <2>2, <2>4 DEF RunsTurn, Initializing
    <3>2. ~IsKept(cur)
      BY <1>1, <2>2, <2>4 DEF IsKept, OwnSession
    <3>3. ~IsParked(cur)
      BY <1>1, <1>3, <2>2 DEF IsParked, ParkCommits, ParkAlone
    <3>4. ~IsSpawned(cur)
      BY <1>1, <1>3, <2>2 DEF IsSpawned, SpawnAttach, Spawning
    <3>5. ~IsRevived(cur)
      <4> SUFFICES ASSUME IsRevived(cur) PROVE FALSE
        OBVIOUS
      <4>1. PICK c \in Callers : /\ call[c].ref = cur
              /\ \/ ReviverAttaches(c)
                 \/ /\ call[c].pc \in {"claim", "attached"} /\ ReviverNext(c) /\ Settle(c, sess'[cur])
        BY DEF IsRevived
      <4>2. c = x
        BY <1>3, <2>2, <4>1, AliveAlone DEF ReviverAttaches, Reviving
      <4>3. ~ReviverAttaches(c)
        BY <2>2, <4>2 DEF ReviverAttaches
      <4>4. Settle(c, sess'[cur]) => call'[c].pc = "idle"
        BY Facts, SettleFields DEF Settle
      <4> QED BY <1>2, <4>1, <4>2, <4>3, <4>4
    <3>6. CASE IsKilled(cur)
      BY <1>3, <3>6 DEF IsKilled
    <3>7. CASE status'[cur] = status[cur] /\ sess'[cur] = sess[cur]
      <4>1. adopted'.ref = cur => ~adopted'.timer
        BY <1>3, <2>4, <3>7, ArmSteps
      <4> QED BY <1>3, <1>5, <2>4, <3>7, <4>1
    <3> QED BY <1>3, <3>1, <3>2, <3>3, <3>4, <3>5, <3>6, <3>7, RowSteps, Facts
  <2> QED BY <2>1, <2>3, <2>4
<1>6. ASSUME ReviverNext(x), Continues(x), ~ReviverAttaches(x), call'[x] # call[x] PROVE FALSE
  <2>1. call[x].pc = "build"
    BY <1>2, <1>6 DEF Continues
  <2> QED BY <1>2, <1>6, <2>1, Facts, SettleFields
     DEF ReviverNext, Probed, ReviverClaims, ReviverFails, ReviverUnwinds, ReviverFailsLate, ReviverReturns,
         ReviverReturnsDetached, DiscardEnds, Fail, Settle
<1> QED BY <1>2, <1>4, <1>5, <1>6, ReviversBefore DEF Starts

\* A reference the executor runs is not revived, nor adopted, before it is
\* handed over.
Unshared(r) == adopted.ref # r /\ \A c \in Callers : Reviving(c) => call[c].ref # r

\* It stays unshared until the executor hands it over.
LEMMA UnsharedStays ==
  ASSUME RevivalInv, SessionInv, [Next]_vars, mgr' = "up", cur' = cur, cur \in Refs, Unshared(cur),
         status[cur] # "parked", ~IsKept(cur)
  PROVE Unshared(cur)'
<1>1. adopted'.ref # cur
  BY AdoptSteps DEF Unshared, Refs, Reviving
<1>2. ASSUME NEW x \in Callers, Reviving(x)', call'[x].ref = cur PROVE FALSE
  <2>1. call'[x].pc \in {"probe", "claim", "build", "attached", "stale", "failing"}
    BY <1>2 DEF Reviving
  <2>2. \/ call'[x] = call[x] /\ Reviving(x)
        \/ Starts(x)
        \/ ReviverNext(x) /\ call'[x].ref = call[x].ref /\ Continues(x) /\ Reviving(x)
    BY <1>2, <2>1, ReviversBefore
  <2>3. Starts(x) => status[cur] = "parked"
    BY <1>2 DEF Starts
  <2> QED BY <1>2, <2>2, <2>3 DEF Unshared
<1> QED BY <1>1, <1>2 DEF Unshared

\* ... and those about the executor.
LEMMA NextSpawning ==
  ASSUME RevivalInv, SessionInv, ControlInv, [Next]_vars PROVE Spawning'
<1>1. /\ ParkAlone /\ Spawning
      /\ status \in [Refs -> Statuses] /\ sess \in [Refs -> 0 .. MaxSession] /\ Generations /\ RetainedIsDetached
  BY DEF ControlInv, ParkInv, RevivalInv, LifecycleInv, TypeOK
<1>2. SUFFICES ASSUME mgr' = "up", spawn'.pc = "build", spawn'.ref = cur'
      PROVE status'[cur'] \in {"running", "aborted"} /\ sess'[cur'] = 0 /\ Unshared(cur)'
  BY DEF Spawning, Unshared
<1>3. CASE SpawnRegisters
  <2>1. cur' = nrefs + 1 /\ nrefs < MaxRef /\ UNCHANGED <<call, adopted, sess>> /\ cur' \in Refs
    BY <1>3, Facts, LifecycleAssumption DEF SpawnRegisters, Register, callVars, Refs
  <2>2. status'[cur'] = "running"
    BY <1>1, <1>3, <2>1 DEF SpawnRegisters, Register
  <2>3. sess'[cur'] = 0
    BY <1>1, <2>1, Facts DEF Generations, RetainedIsDetached
  <2>4. adopted.ref <= nrefs /\ \A x \in Callers : call[x].ref <= nrefs
    BY Facts DEF SessionInv, RefsGiven
  <2>5. adopted'.ref # cur' /\ \A x \in Callers : call'[x].ref # cur'
    BY <2>1, <2>4, Facts
  <2> QED BY <2>2, <2>3, <2>5 DEF Unshared
<1>4. CASE UNCHANGED spawn
  <2>1. spawn.ref \in Refs /\ spawn.ref <= nrefs
    BY <1>2, <1>4 DEF SessionInv, SpawnSession, RefsGiven
  <2>2. mgr = "up" /\ cur' = cur /\ cur \in Refs /\ cur = nrefs
    BY <1>2, <1>4, <2>1, StillCur DEF Refs
  <2>3. status[cur] \in {"running", "aborted"} /\ sess[cur] = 0 /\ Unshared(cur)
    BY <1>1, <1>2, <1>4, <2>2 DEF Spawning, Unshared
  <2>4. ~RunsTurn(cur) /\ ~IsKept(cur)
    BY <1>2, <1>4, <2>3 DEF RunsTurn, IsKept
  <2>5. ~IsParked(cur) /\ ~IsRevived(cur)
    BY <1>1, <1>2, <1>4, <2>2, <2>3
       DEF IsParked, ParkCommits, ParkAlone, IsRevived, ReviverAttaches, Unshared, Reviving
  <2>6. ~IsSpawned(cur)
    BY <1>2, <1>4 DEF IsSpawned, SpawnAttach
  <2>7. status'[cur] \in {"running", "aborted"} /\ sess'[cur] = 0
    BY <2>2, <2>3, <2>4, <2>5, <2>6, RowSteps, Facts DEF IsKilled
  <2> QED BY <1>2, <2>2, <2>3, <2>4, <2>7, UnsharedStays
<1>5. SpawnAttach => spawn'.pc = "run"
  BY DEF SpawnAttach
<1> QED BY <1>2, <1>3, <1>4, <1>5, SpawnSteps

LEMMA NextSpawned ==
  ASSUME RevivalInv, SessionInv, ControlInv, [Next]_vars PROVE Spawned'
<1>1. /\ ParkAlone /\ Spawning /\ Spawned
      /\ status \in [Refs -> Statuses] /\ sess \in [Refs -> 0 .. MaxSession] /\ RetainedIsDetached
  BY DEF ControlInv, ParkInv, RevivalInv, LifecycleInv, TypeOK
<1>2. SUFFICES ASSUME mgr' = "up", spawn'.pc \in {"run", "dispose"}, spawn'.ref = cur', cur' # 0
      PROVE \/ status'[cur'] = "aborted"
            \/ status'[cur'] \in {"running", "idle"} /\ sess'[cur'] = spawn'.s /\ Unshared(cur)'
  BY DEF Spawned, Unshared
<1>3. CASE SpawnAttach
  <2>0. spawn.ref \in Refs /\ spawn'.ref = spawn.ref /\ spawn.pc = "build" /\ cur = spawn.ref /\ UNCHANGED cur
    BY <1>3 DEF SpawnAttach, SessionInv, SpawnSession
  <2>1. mgr = "up" /\ Unshared(cur) /\ status[cur] = "running"
    BY <1>1, <1>2, <1>3, <2>0, MgrSteps DEF Spawning, Unshared, SpawnAttach
  <2>2. status'[cur'] = "running" /\ sess'[cur'] = spawn'.s
    BY <1>1, <1>3, <2>0 DEF SpawnAttach
  <2>3. ~IsKept(cur)
    BY <2>0 DEF IsKept
  <2> QED BY <1>2, <2>0, <2>1, <2>2, <2>3, UnsharedStays
<1>4. CASE spawn.pc \in {"run", "dispose"} /\ spawn'.ref = spawn.ref /\ spawn'.s = spawn.s
  <2>1. spawn.ref <= nrefs
    BY DEF SessionInv, RefsGiven
  <2>2. mgr = "up" /\ cur' = cur /\ cur \in Refs /\ cur = nrefs
    BY <1>2, <1>4, <2>1, StillCur
  <2>3. \/ status[cur] = "aborted"
        \/ status[cur] \in {"running", "idle"} /\ sess[cur] = spawn.s /\ Unshared(cur)
    BY <1>1, <1>2, <1>4, <2>2 DEF Spawned, Unshared, Refs
  <2>4. CASE status[cur] = "aborted"
    BY <2>2, <2>4, NextKeepsKilled, Facts DEF KilledStays, RevivalInv
  <2>5. CASE status[cur] \in {"running", "idle"} /\ sess[cur] = spawn.s /\ Unshared(cur)
    <3>1. ~IsKept(cur)
      BY <1>2 DEF IsKept, NoSpawn
    <3>2. ~IsParked(cur) /\ ~IsRevived(cur)
      BY <1>1, <1>2, <1>4, <2>2, <2>5
         DEF IsParked, ParkCommits, ParkAlone, IsRevived, ReviverAttaches, Unshared, Reviving
    <3>3. ~IsSpawned(cur)
      BY <1>4 DEF IsSpawned, SpawnAttach
    <3>4. CASE IsKilled(cur)
      BY <2>2, <3>4 DEF IsKilled
    <3>5. CASE RunsTurn(cur) \/ (status'[cur] = status[cur] /\ sess'[cur] = sess[cur])
      <4>1. status'[cur] \in {"running", "idle"} /\ sess'[cur] = spawn.s
        BY <2>5, <3>5 DEF RunsTurn
      <4> QED BY <1>2, <1>4, <2>2, <2>5, <3>1, <4>1, UnsharedStays
    <3> QED BY <2>2, <3>1, <3>2, <3>3, <3>4, <3>5, RowSteps, Facts
  <2> QED BY <2>3, <2>4, <2>5
<1>5. SpawnRegisters => spawn'.pc = "build"
  BY DEF SpawnRegisters
<1> QED BY <1>2, <1>3, <1>4, <1>5, SpawnSteps DEF FinalizeDispose

LEMMA NextControl ==
  ASSUME RevivalInv, SessionInv, ControlInv, [Next]_vars PROVE ControlInv'
BY NextParkMapped, NextNoParkQueued, NextParkAlone, NextParkYields, NextYieldSession, NextParkDetached,
   NextParkDisposes, NextNotYetUp, NextAttachedRuns, NextStaleIsKilled, NextSpawning, NextSpawned
   DEF ControlInv, ParkInv

LEMMA InitControl == Init => ControlInv
BY DEF Init, ControlInv, ParkInv, ParkMapped, NoParkQueued, ParkAlone, ParkYields, YieldSession, ParkDetached,
       ParkDisposes, NotYetUp, AttachedRuns, StaleIsKilled, Spawning, Spawned, NoPark, NotCalling, NoRelease,
       NoSpawn, NoAdoption

\* The invariants give the property.
LEMMA RoutedIsOpen ==
  ASSUME RevivalInv, SessionInv, ControlInv PROVE DetachedBeforeDispose
<1>1. SUFFICES ASSUME cur # 0, sess[cur] # 0
      PROVE /\ ~(park.phase = "dispose" /\ park.s = sess[cur])
            /\ \A k \in Releasers : rel[k].tombstone => rel[k].live # sess[cur]
            /\ mgr = "up" => \A c \in Callers : call[c].pc = "stale" => call[c].s # sess[cur]
  BY DEF DetachedBeforeDispose
<1>2. SessionOf(cur, sess[cur]) /\ cur \in Refs /\ status[cur] # "aborted"
  BY <1>1, Facts DEF SessionInv, RefSessions, RevivalInv, LifecycleInv, RetainedIsDetached
<1>3. ~(park.phase = "dispose" /\ park.s = sess[cur])
  BY <1>2 DEF SessionInv, ParkSession, SessionOf, ControlInv, ParkInv, ParkDetached
<1>4. \A k \in Releasers : rel[k].tombstone => rel[k].live # sess[cur]
  BY <1>1, <1>2 DEF SessionInv, ReleaseSessions, SessionOf
<1>5. ASSUME mgr = "up", NEW c \in Callers, call[c].pc = "stale" PROVE call[c].s # sess[cur]
  BY <1>2, <1>5 DEF SessionInv, CallSessions, Holding, SessionOf, ControlInv, StaleIsKilled
<1> QED BY <1>3, <1>4, <1>5

\* The session the registry routes messages to is never one that a park, a kill
\* or a stale revival disposes: however callers, kills, parks, the executor and
\* the generations of the id interleave, whoever disposes a session has detached
\* it first.
THEOREM RoutedIsNotDisposed ==
  ASSUME ~SlowRemoval
  PROVE  Spec => []DetachedBeforeDispose
<1>1. Init => RoutedInv
  BY InitRevivals, InitSessions, InitControl DEF RoutedInv
<1>2. RoutedInv /\ [Next]_vars => RoutedInv'
  BY NextKeepsRevivals, NextSessions, NextControl DEF RoutedInv, RevivalInv
<1>3. RoutedInv => DetachedBeforeDispose
  BY RoutedIsOpen DEF RoutedInv
<1> QED BY <1>1, <1>2, <1>3, PTL DEF Spec
=============================================================================
