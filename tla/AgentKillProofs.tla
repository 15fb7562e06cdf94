--------------------------- MODULE AgentKillProofs ---------------------------
(***************************************************************************)
(* What is proved of AgentLifecycle, for every number of callers, killers, *)
(* generations and sessions, where every release of a live manager is a    *)
(* kill (Kills), as in run lifecycle_kill: no open session is out of       *)
(* reach, an idle agent with a TTL has it armed, and, where no reviver     *)
(* throws after its attach (~LateFailures), ensureLive returns the routed  *)
(* session.  The invariants of AgentSessionProofs hold (~SlowRemoval).     *)
(***************************************************************************)
EXTENDS AgentSessionProofs

Kills == Tombstones \subseteq {TRUE}

\* Every release under way is a kill.
KillsRelease == mgr = "up" => \A k \in Releasers : rel[k].pc # "idle" => rel[k].tombstone

\* A release that waits has taken no session, and one that disposes a session
\* has begun to.
ReleaseLive == \A k \in Releasers :
  /\ rel[k].pc \in {"idle", "parkWait", "strike"} => rel[k].live = 0
  /\ rel[k].pc = "closing" => rel[k].live # 0
  /\ rel[k].pc \in {"closing", "owned"} /\ rel[k].live # 0 => sstate[rel[k].live] # "open"

\* Every session was created for a reference that exists, and an idle agent has
\* one.
SessionRefs    == \A s \in 1 .. nsess : sref[s] \in 1 .. nrefs
IdleHasSession == cur # 0 /\ status[cur] = "idle" => sess[cur] # 0

LiveFacts == KillsRelease /\ ReleaseLive /\ SessionRefs /\ IdleHasSession

\* The reference keeps the id while its session is parked.
ParkHolds == mgr = "up" /\ park.phase = "dispose" => cur = park.ref

\* A revival that unwinds has the registered reference to itself, and an
\* executor that disposes a session it no longer owned lost it to a kill.
FailingAlone == mgr = "up" => \A c \in Callers :
  call[c].ref = cur /\ call[c].pc = "failing" => sess[cur] \in {0, call[c].s}
SpawnOrphaned == mgr = "up" /\ spawn.pc = "dispose" /\ spawn.ref = 0 /\ sref[spawn.s] = cur =>
  status[cur] = "aborted"

\* The session of a reviver that has not returned is routed, or a kill has
\* taken it.
Held == mgr = "up" => \A c \in Callers :
  call[c].pc = "attached" /\ sstate[call[c].s] = "open" =>
    \/ cur = call[c].ref /\ sess[cur] = call[c].s
    \/ \E k \in Releasers : rel[k].live = call[c].s

\* A park is cancelled by a call that will re-arm the TTL, or by a release, which
\* drops the adoption.
Cancelled == mgr = "up" /\ park.phase = "yield" /\ park.cancelled =>
  \/ cur = 0 \/ adopted.ref # park.ref
  \/ \E c \in Callers : call[c].pc = "parkCancel" /\ call[c].ref = park.ref

KillInv ==
  /\ RoutedInv /\ LiveFacts /\ SpawnOrphaned /\ FailingAlone /\ ParkHolds /\ Held /\ Cancelled
  /\ NoSessionIsLost /\ IdleIsArmed

\* No revival unwinds, and a reference that was reopened keeps the id until the
\* calls that wait for it have gone on.
NoLateFailing == \A c \in Callers : call[c].pc # "failing"
ReopenedStands == mgr = "up" => \A c \in Callers : Reopens(c) =>
  /\ call[c].ref = cur
  /\ spawn.pc \in {"build", "run", "dispose"} => spawn.ref # cur

-----------------------------------------------------------------------------
(* The id and the sessions *)

\* The sessions that are not open never are again.
NeverReopens == \A s \in Sessions : sstate'[s] = "open" => sstate[s] = "open" \/ s = nsess + 1

\* No step opens a session again.
LEMMA NextNeverReopens ==
  ASSUME RevivalInv, [Next]_vars PROVE NeverReopens
<1> USE DEF sessionVars
<1>b. sstate \in [Sessions -> {"none", "open", "closing", "closed"}]
  BY DEF RevivalInv, LifecycleInv, TypeOK
<1>0. ASSUME UNCHANGED sstate PROVE NeverReopens
  BY <1>0 DEF NeverReopens
<1>a. ASSUME NEW s, NEW st, st # "open" \/ s = nsess + 1, sstate' = [sstate EXCEPT ![s] = st] PROVE NeverReopens
  BY <1>a, <1>b DEF NeverReopens
<1>c. ASSUME NEW s, BeginDispose(s) PROVE NeverReopens
  BY <1>c, <1>b DEF NeverReopens, BeginDispose
<1>1. CASE SpawnNext
  BY <1>0, <1>a, <1>c, <1>1
     DEF SpawnNext, SpawnStart, SpawnProbed, SpawnRegisters, SpawnAttach, Create, SpawnFail, FinalizeKeepAlive,
         FinalizeDispose, FinalizeDisposed, EndDispose
<1>2. CASE TimerFires \/ ParkNext \/ \E st \in {"running", "idle"} : RunState(st)
  BY <1>0, <1>a, <1>c, <1>2 DEF TimerFires, ParkNext, ParkAborts, ParkCommits, ParkEnds, RunState, EndDispose
<1>3. ASSUME NEW c \in Callers, CallNext(c) PROVE NeverReopens
  BY <1>0, <1>3, CallFrame
<1>4. ASSUME NEW c \in Callers, ReviverNext(c) PROVE NeverReopens
  BY <1>0, <1>a, <1>c, <1>4
     DEF ReviverNext, Probed, ReviverClaims, ReviverAttaches, Create, ReviverFails, ReviverUnwinds,
         ReviverFailsLate, ReviverReturns, ReviverReturnsDetached, DiscardEnds, EndDispose
<1>5. CASE ReleaseOp \/ Idles \/ DisposeEnds \/ UNCHANGED vars \/ \E k \in Releasers : ReleaseStep(k)
  <2>1. ASSUME NEW k, NEW r, NEW t, NEW a, Strike(k, r, t, a) PROVE NeverReopens
    BY <1>0, <1>c, <2>1 DEF Strike
  <2>2. ASSUME NEW k, ReleaseDisposed(k) PROVE NeverReopens
    BY <1>a, <2>2 DEF ReleaseDisposed, EndDispose
  <2> QED BY <1>0, <1>c, <1>5, <2>1, <2>2
     DEF ReleaseOp, Release, Idles, DisposeEnds, vars, ReleaseStep, ReleaseStrikes, ReleaseEnds, TombstonePersisted
<1> QED BY <1>1, <1>2, <1>3, <1>4, <1>5, Steps DEF RevivalInv

\* Every step keeps the parts of LiveFacts.
LEMMA NextSessionRefs ==
  ASSUME RoutedInv, SessionRefs, [Next]_vars PROVE SessionRefs'
<1> USE Facts DEF RoutedInv, sessionVars, registryVars
<1>b. nsess \in Nat /\ sref \in [Sessions -> 0 .. MaxRef] /\ nsess <= MaxSession
  BY LifecycleAssumption DEF RevivalInv, LifecycleInv, TypeOK
<1>n. nrefs' \in Nat /\ nrefs <= nrefs'
  BY CurSteps
<1>0. ASSUME UNCHANGED <<nsess, sref>> PROVE SessionRefs'
  BY <1>0, <1>b, <1>n DEF SessionRefs
<1>a. ASSUME NEW r \in Refs, r <= nrefs, nsess < MaxSession, nsess' = nsess + 1,
             sref' = [sref EXCEPT ![nsess + 1] = r]
      PROVE SessionRefs'
  BY <1>a, <1>b, <1>n, LifecycleAssumption DEF SessionRefs, Sessions, Refs
<1>1. CASE SpawnNext
  BY <1>0, <1>a, <1>1
     DEF SpawnNext, SpawnStart, SpawnProbed, SpawnRegisters, SpawnAttach, Create, SpawnFail, FinalizeKeepAlive,
         FinalizeDispose, FinalizeDisposed, SessionInv, SpawnSession, RefsGiven
<1>2. CASE TimerFires \/ ParkNext \/ \E st \in {"running", "idle"} : RunState(st)
  BY <1>0, <1>2 DEF TimerFires, ParkNext, ParkAborts, ParkCommits, ParkEnds, RunState
<1>3. ASSUME NEW c \in Callers, CallNext(c) PROVE SessionRefs'
  BY <1>0, <1>3, CallFrame
<1>4. ASSUME NEW c \in Callers, ReviverNext(c) PROVE SessionRefs'
  BY <1>0, <1>a, <1>4, ReviverSteps
     DEF ReviverNext, Probed, ReviverClaims, ReviverAttaches, Create, ReviverFails, ReviverUnwinds,
         ReviverFailsLate, ReviverReturns, ReviverReturnsDetached, DiscardEnds
<1>5. CASE ReleaseOp \/ Idles \/ DisposeEnds \/ UNCHANGED vars \/ \E k \in Releasers : ReleaseStep(k)
  BY <1>0, <1>5
     DEF ReleaseOp, Release, Idles, DisposeEnds, vars, ReleaseStep, ReleaseStrikes, ReleaseDisposed,
         ReleaseEnds, TombstonePersisted
<1> QED BY <1>1, <1>2, <1>3, <1>4, <1>5, Steps DEF RevivalInv

LEMMA NextIdleHasSession ==
  ASSUME RoutedInv, IdleHasSession, [Next]_vars PROVE IdleHasSession'
<1> USE Facts DEF RoutedInv, registryVars
<1>b. status \in [Refs -> Statuses] /\ sess \in [Refs -> 0 .. MaxSession] /\ RetainedIsDetached
  BY DEF RevivalInv, LifecycleInv, TypeOK
<1>1. CASE cur' = cur /\ cur # 0
  <2>1. IsParked(cur) => status'[cur] \in {"parked", "aborted"}
    BY <1>b, <1>1 DEF IsParked, ParkCommits
  <2>2. IsSpawned(cur) => status'[cur] = "running"
    BY <1>b, <1>1 DEF IsSpawned, SpawnAttach
  <2>3. IsRevived(cur) => status'[cur] = "running" \/ sess'[cur] # 0
    BY <1>b, <1>1 DEF IsRevived, ReviverAttaches
  <2> QED BY <1>1, <2>1, <2>2, <2>3, RowSteps DEF IdleHasSession, RunsTurn, IsKept, IsKilled
<1>2. ASSUME NEW st \in {"running", "parked"}, NEW f, Register(st, f) PROVE IdleHasSession'
  <2>1. cur' \in Refs /\ status'[cur'] = st
    BY <1>b, <1>2, LifecycleAssumption DEF Register, Refs
  <2> QED BY <1>2, <2>1 DEF IdleHasSession
<1>3. ASSUME cur' # cur, cur' # 0 PROVE \E st \in {"running", "parked"}, f \in BOOLEAN : Register(st, f)
  <2>0. file \in [Refs -> BOOLEAN]
    BY DEF RevivalInv, LifecycleInv, TypeOK
  <2>1. CASE SpawnNext
    <3>1. \A r, a : Unregister(r, a) \/ UnregisterUnlessParked(r, a) => cur' \in {0, cur}
      BY DEF Unregister, UnregisterUnlessParked
    <3> QED BY <1>3, <2>1, <3>1
       DEF SpawnNext, SpawnStart, SpawnProbed, SpawnRegisters, SpawnAttach, SpawnFail, FinalizeKeepAlive,
           FinalizeDispose, FinalizeDisposed, EndDispose
  <2>2. ASSUME NEW c \in Callers, CallNext(c) PROVE \E st \in {"running", "parked"}, f \in BOOLEAN : Register(st, f)
    BY <1>3, <2>0, <2>2, CallFrame
  <2>3. \A r, a : Unregister(r, a) \/ UnregisterUnlessParked(r, a) => cur' \in {0, cur}
    BY DEF Unregister, UnregisterUnlessParked
  <2>4. CASE TimerFires \/ ParkNext \/ \E st \in {"running", "idle"} : RunState(st)
    BY <1>3, <2>3, <2>4 DEF TimerFires, ParkNext, ParkAborts, ParkCommits, ParkEnds, RunState, EndDispose
  <2>5. ASSUME NEW c \in Callers, ReviverNext(c) PROVE FALSE
    BY <1>3, <2>3, <2>5
     DEF ReviverNext, Probed, ReviverClaims, ReviverAttaches, ReviverFails, ReviverUnwinds,
         ReviverFailsLate, ReviverReturns, ReviverReturnsDetached, DiscardEnds, EndDispose
  <2>6. CASE ReleaseOp \/ Idles \/ DisposeEnds \/ UNCHANGED vars \/ \E k \in Releasers : ReleaseStep(k)
    BY <1>3, <2>3, <2>6
     DEF ReleaseOp, Release, Idles, DisposeEnds, vars, ReleaseStep, ReleaseStrikes, ReleaseDisposed,
         ReleaseEnds, TombstonePersisted, EndDispose
  <2> QED BY <2>1, <2>2, <2>4, <2>5, <2>6, Steps DEF RevivalInv
<1> QED BY <1>1, <1>2, <1>3 DEF IdleHasSession

LEMMA NextKillsRelease ==
  ASSUME Kills, RoutedInv, KillsRelease, [Next]_vars PROVE KillsRelease'
<1> USE Facts DEF RoutedInv
<1> SUFFICES ASSUME mgr' = "up" PROVE KillsRelease'
  BY DEF KillsRelease
<1>0. mgr = "up" /\ \A k \in Releasers : rel[k].pc # "idle" => rel[k].tombstone
  BY MgrSteps DEF KillsRelease
<1>a. ASSUME \A k \in Releasers : rel'[k] = rel[k] \/ rel'[k].pc = "idle"
                                  \/ (rel[k].pc # "idle" /\ rel'[k].tombstone = rel[k].tombstone) \/ rel'[k].tombstone
      PROVE KillsRelease'
  BY <1>a, <1>0 DEF KillsRelease
<1>1. CASE SpawnNext \/ TimerFires \/ \E st \in {"running", "idle"} : RunState(st)
  BY <1>a, <1>1
     DEF SpawnNext, SpawnStart, SpawnProbed, SpawnRegisters, SpawnAttach, SpawnFail, FinalizeKeepAlive,
         FinalizeDispose, FinalizeDisposed, TimerFires, RunState
<1>2. CASE ParkNext
  <2>1. rel' = WakeReleases \/ UNCHANGED rel
    BY <1>2 DEF ParkNext, ParkAborts, ParkCommits, ParkEnds
  <2>2. \A k \in Releasers : rel'[k] = rel[k] \/ (rel[k].pc = "parkWait" /\ rel'[k].tombstone = rel[k].tombstone)
    BY <2>1 DEF WakeReleases, Releases
  <2> QED BY <1>a, <2>2
<1>3. ASSUME NEW c \in Callers, CallNext(c) \/ ReviverNext(c) PROVE KillsRelease'
  BY <1>a, <1>3, CallFrame, ReviverSteps
<1>4. CASE ReleaseOp
  <2>1. PICK k \in Releasers, e \in 0 .. MaxRef, t \in BOOLEAN : Release(k, e, t) /\ t
    BY <1>4 DEF ReleaseOp, Kills
  <2>2. rel'[k].tombstone /\ \A x \in Releasers : x # k => rel'[x] = rel[x]
    <3>1. \E pc, r, live : rel' = [rel EXCEPT ![k] = [pc |-> pc, ref |-> r, live |-> live, tombstone |-> t]]
      BY <2>1 DEF Release, Strike
    <3>2. rel'[k].tombstone = t /\ \A x \in Releasers : x # k => rel'[x] = rel[x]
      BY <3>1
    <3> QED BY <2>1, <3>2
  <2> QED BY <1>a, <2>2
<1>5. ASSUME NEW k \in Releasers, ReleaseStep(k) PROVE KillsRelease'
  BY <1>a, <1>0, <1>5
     DEF ReleaseStep, ReleaseStrikes, Strike, ReleaseDisposed, ReleaseEnds, TombstonePersisted, NoRelease, Releases
<1>6. CASE Idles \/ DisposeEnds \/ UNCHANGED vars
  BY <1>a, <1>6 DEF Idles, DisposeEnds, vars
<1> QED BY <1>1, <1>2, <1>3, <1>4, <1>5, <1>6, Steps DEF RevivalInv

LEMMA NextReleaseLive ==
  ASSUME RoutedInv, ReleaseLive, [Next]_vars PROVE ReleaseLive'
<1> USE Facts DEF RoutedInv, registryVars
<1>b. /\ sstate \in [Sessions -> {"none", "open", "closing", "closed"}] /\ sess \in [Refs -> 0 .. MaxSession]
      /\ nsess \in Nat /\ MaxSession \in Nat
  BY LifecycleAssumption DEF RevivalInv, LifecycleInv, TypeOK
<1>c. \A k \in Releasers : rel[k].live # 0 => rel[k].live \in Sessions /\ rel[k].live <= nsess
  BY <1>b, LifecycleAssumption
     DEF SessionInv, ReleaseSessions, SessionOf, Sessions, RevivalInv, LifecycleInv, TypeOK
<1>0. ASSUME NEW k \in Releasers, rel'[k] = rel[k]
      PROVE /\ rel'[k].pc \in {"idle", "parkWait", "strike"} => rel'[k].live = 0
            /\ rel'[k].pc = "closing" => rel'[k].live # 0
            /\ rel'[k].pc \in {"closing", "owned"} /\ rel'[k].live # 0 => sstate'[rel'[k].live] # "open"
  BY <1>0, <1>b, <1>c, NextNeverReopens DEF ReleaseLive, NeverReopens
<1>1. CASE UNCHANGED rel
  BY <1>0, <1>1 DEF ReleaseLive
<1>2. CASE SpawnNext \/ TimerFires \/ \E st \in {"running", "idle"} : RunState(st)
  BY <1>1, <1>2
     DEF SpawnNext, SpawnStart, SpawnProbed, SpawnRegisters, SpawnAttach, SpawnFail, FinalizeKeepAlive,
         FinalizeDispose, FinalizeDisposed, TimerFires, RunState
<1>3. CASE ParkNext
  <2>1. \A k \in Releasers : rel'[k] = rel[k] \/ (rel[k].pc = "parkWait" /\ rel'[k].pc = "strike" /\ rel'[k].live = rel[k].live)
    BY <1>3 DEF ParkNext, ParkAborts, ParkCommits, ParkEnds, WakeReleases, Releases
  <2> QED BY <1>0, <2>1 DEF ReleaseLive
<1>4. ASSUME NEW c \in Callers, CallNext(c) \/ ReviverNext(c) PROVE ReleaseLive'
  BY <1>1, <1>4, CallFrame, ReviverSteps
<1>5. ASSUME NEW k \in Releasers, NEW r \in Refs, NEW t, NEW a, Strike(k, r, t, a) PROVE ReleaseLive'
  <2>1. \A x \in Releasers : x # k => rel'[x] = rel[x]
    BY <1>5 DEF Strike
  <2>2. /\ rel'[k].live = LiveOf(r, t)
        /\ \/ rel'[k].pc = "persist"
           \/ rel'[k].pc = "closing" /\ LiveOf(r, t) # 0 /\ BeginDispose(LiveOf(r, t))
           \/ rel'[k].pc = "owned" /\ LiveOf(r, t) = 0
    BY <1>5 DEF Strike
  <2>3. LiveOf(r, t) # 0 => LiveOf(r, t) \in Sessions
    BY <1>b DEF LiveOf, Sessions
  <2>4. BeginDispose(LiveOf(r, t)) /\ LiveOf(r, t) # 0 => sstate'[LiveOf(r, t)] # "open"
    BY <1>b, <2>3 DEF BeginDispose
  <2> QED BY <1>0, <2>1, <2>2, <2>3, <2>4 DEF ReleaseLive
<1>6. CASE ReleaseOp
  <2>1. PICK k \in Releasers, e \in 0 .. MaxRef, t \in BOOLEAN : Release(k, e, t)
    BY <1>6 DEF ReleaseOp
  <2>2. Released(e) \in Refs
    BY <2>1 DEF Release, Released, Refs, Adoptions
  <2>3. ASSUME rel' = [rel EXCEPT ![k] = [pc |-> "parkWait", ref |-> Released(e), live |-> 0, tombstone |-> t]]
        PROVE ReleaseLive'
    BY <1>0, <2>3 DEF ReleaseLive
  <2> QED BY <1>5, <2>1, <2>2, <2>3 DEF Release
<1>7. ASSUME NEW k \in Releasers, ReleaseStep(k) PROVE ReleaseLive'
  <2>1. CASE ReleaseStrikes(k)
    <3>1. rel[k].ref \in Refs
      BY <2>1 DEF ReleaseStrikes, RevivalInv, LifecycleInv, CapturedRefs, Releases, Refs
    <3> QED BY <1>5, <2>1, <3>1 DEF ReleaseStrikes
  <2>2. CASE ReleaseDisposed(k)
    <3>1. /\ rel'[k].pc = "owned" /\ rel'[k].live = rel[k].live /\ \A x \in Releasers : x # k => rel'[x] = rel[x]
          /\ rel[k].pc = "closing"
      BY <2>2 DEF ReleaseDisposed, Releases
    <3>2. rel[k].live # 0 => sstate'[rel[k].live] # "open"
      BY <1>b, <1>c, <3>1, NextNeverReopens DEF ReleaseLive, NeverReopens
    <3> QED BY <1>0, <3>1, <3>2 DEF ReleaseLive
  <2>3. CASE ReleaseEnds(k)
    BY <1>0, <2>3 DEF ReleaseEnds, NoRelease, ReleaseLive
  <2>4. ASSUME NEW w \in BOOLEAN, TombstonePersisted(k, w) PROVE ReleaseLive'
    <3>1. /\ rel'[k].pc = IF rel[k].live # 0 THEN "closing" ELSE "owned"
          /\ rel'[k].live = rel[k].live /\ \A x \in Releasers : x # k => rel'[x] = rel[x]
      BY <2>4 DEF TombstonePersisted, Releases
    <3>2. rel[k].live # 0 => sstate'[rel[k].live] # "open"
      BY <1>b, <1>c, <2>4 DEF TombstonePersisted, BeginDispose
    <3> QED BY <1>0, <3>1, <3>2 DEF ReleaseLive
  <2> QED BY <1>7, <2>1, <2>2, <2>3, <2>4 DEF ReleaseStep
<1>8. CASE Idles \/ DisposeEnds \/ UNCHANGED vars
  BY <1>1, <1>8 DEF Idles, DisposeEnds, vars
<1> QED BY <1>2, <1>3, <1>4, <1>6, <1>7, <1>8, Steps DEF RevivalInv

\* The hook of a disposed session drops only its own reference.
LEMMA UnregisterGoes ==
  ASSUME NEW r, NEW a, cur # 0, cur' = 0, UnregisterUnlessParked(r, a)
  PROVE r = cur /\ status[cur] # "parked" /\ ~(status[cur] = "aborted" /\ sess[cur] = 0)
BY DEF UnregisterUnlessParked, Unregister

\* When the id becomes free, its reference was being built or disposed by the
\* executor, or by a revival that failed after its attach.
LEMMA CurGoes ==
  ASSUME Kills, RoutedInv, LiveFacts, SpawnOrphaned, [Next]_vars, mgr' = "up", cur # 0, cur' = 0
  PROVE \/ spawn.pc = "build" /\ spawn.ref = cur /\ status[cur] # "parked"
        \/ spawn.pc = "dispose" /\ spawn.ref = cur /\ sstate'[spawn.s] = "closed"
        \/ \E c \in Callers : /\ call[c].pc = "failing" /\ call[c].ref = cur
                              /\ sstate'[call[c].s] = "closed" /\ status[cur] # "parked"
<1> USE Facts DEF RoutedInv, registryVars
<1> DEFINE Goal ==
        \/ spawn.pc = "build" /\ spawn.ref = cur /\ status[cur] # "parked"
        \/ spawn.pc = "dispose" /\ spawn.ref = cur /\ sstate'[spawn.s] = "closed"
        \/ \E c \in Callers : /\ call[c].pc = "failing" /\ call[c].ref = cur
                              /\ sstate'[call[c].s] = "closed" /\ status[cur] # "parked"
<1>b. /\ mgr = "up" /\ cur \in Refs /\ RetainedIsDetached
      /\ sstate \in [Sessions -> {"none", "open", "closing", "closed"}]
      /\ nsess \in Nat /\ 1 .. nsess \subseteq Sessions
  BY MgrSteps, LifecycleAssumption DEF RevivalInv, LifecycleInv, TypeOK, Sessions
<1>0. ASSUME UNCHANGED cur PROVE Goal
  BY <1>0
<1>g. ASSUME NEW st, NEW f, Register(st, f) PROVE FALSE
  BY <1>g DEF Register
<1>d. status[cur] = "aborted" => sess[cur] = 0
  BY <1>b DEF RetainedIsDetached
<1>1. CASE SpawnNext
  <2>1. CASE SpawnFail
    BY <2>1, UnregisterGoes DEF SpawnFail
  <2>2. CASE FinalizeDisposed
    <3>1. spawn.s \in Sessions /\ spawn.ref \in {0, sref[spawn.s]} /\ spawn.pc = "dispose"
      BY <1>b, <2>2 DEF FinalizeDisposed, SessionInv, SpawnSession
    <3>2. CASE spawn.ref # 0
      BY <1>b, <2>2, <3>1, <3>2 DEF FinalizeDisposed, Unregister
    <3>3. CASE spawn.ref = 0
      <4>1. UnregisterUnlessParked(sref[spawn.s], adopted)
        BY <2>2, <3>3 DEF FinalizeDisposed, EndDispose
      <4>2. sref[spawn.s] = cur /\ status[cur] # "aborted"
        BY <1>d, <4>1, UnregisterGoes
      <4> QED BY <1>b, <3>1, <3>3, <4>2 DEF SpawnOrphaned
    <3> QED BY <3>2, <3>3
  <2> QED BY <1>0, <1>1, <1>g, <2>1, <2>2
     DEF SpawnNext, SpawnStart, SpawnProbed, SpawnRegisters, SpawnAttach, FinalizeKeepAlive, FinalizeDispose
<1>2. CASE ParkNext
  <2>1. CASE ParkEnds
    <3>1. sref[park.s] = park.ref /\ status[park.ref] = "parked"
      BY <1>b, <2>1 DEF ParkEnds, SessionInv, ParkSession, SessionOf, ControlInv, ParkInv, ParkDisposes
    <3>2. UnregisterUnlessParked(sref[park.s], adopted)
      BY <2>1 DEF ParkEnds, EndDispose
    <3> QED BY <3>1, <3>2, UnregisterGoes
  <2> QED BY <1>0, <1>2, <2>1 DEF ParkNext, ParkAborts, ParkCommits
<1>3. ASSUME NEW c \in Callers, CallNext(c) PROVE Goal
  BY <1>0, <1>3, <1>g, CallFrame
<1>4. ASSUME NEW c \in Callers, ReviverNext(c) PROVE Goal
  <2>1. CASE DiscardEnds(c)
    <3>1. SessionOf(call[c].ref, call[c].s) /\ call[c].s \in Sessions
      BY <1>b, <2>1 DEF DiscardEnds, SessionInv, CallSessions, Holding, SessionOf
    <3>2. UnregisterUnlessParked(sref[call[c].s], DropCold(c, adopted)) /\ sstate'[call[c].s] = "closed"
      BY <1>b, <2>1, <3>1 DEF DiscardEnds, EndDispose
    <3>3. call[c].ref = cur /\ status[cur] # "parked" /\ status[cur] # "aborted"
      BY <1>d, <3>1, <3>2, UnregisterGoes DEF SessionOf
    <3>4. call[c].pc = "failing"
      BY <1>b, <2>1, <3>3 DEF DiscardEnds, ControlInv, StaleIsKilled
    <3> QED BY <3>2, <3>3, <3>4
  <2> QED BY <1>0, <1>4, <2>1
     DEF ReviverNext, Probed, ReviverClaims, ReviverAttaches, ReviverFails, ReviverUnwinds,
         ReviverFailsLate, ReviverReturns, ReviverReturnsDetached
<1>5. ASSUME NEW k \in Releasers, ReleaseStep(k) PROVE Goal
  <2>1. CASE ReleaseDisposed(k)
    <3>1. rel[k].live # 0 /\ rel[k].tombstone
      BY <1>b, <2>1 DEF ReleaseDisposed, LiveFacts, ReleaseLive, KillsRelease
    <3>2. sref[rel[k].live] = rel[k].ref /\ status[rel[k].ref] = "aborted"
      BY <3>1 DEF SessionInv, ReleaseSessions, SessionOf
    <3>3. UnregisterUnlessParked(sref[rel[k].live], adopted)
      BY <2>1 DEF ReleaseDisposed, EndDispose
    <3> QED BY <1>d, <3>2, <3>3, UnregisterGoes
  <2>2. CASE ReleaseEnds(k)
    BY <1>0, <1>b, <2>2 DEF ReleaseEnds, LiveFacts, KillsRelease
  <2> QED BY <1>0, <1>5, <2>1, <2>2 DEF ReleaseStep, ReleaseStrikes, TombstonePersisted
<1>6. CASE TimerFires \/ ReleaseOp \/ Idles \/ DisposeEnds \/ UNCHANGED vars
           \/ \E st \in {"running", "idle"} : RunState(st)
  BY <1>0, <1>6 DEF TimerFires, RunState, ReleaseOp, Release, Idles, DisposeEnds, vars
<1> QED BY <1>1, <1>2, <1>3, <1>4, <1>5, <1>6, Steps DEF RevivalInv

\* A parked reference keeps the id until its session is disposed.
LEMMA NextParkHolds ==
  ASSUME Kills, RoutedInv, LiveFacts, SpawnOrphaned, ParkHolds, [Next]_vars PROVE ParkHolds'
<1>1. ParkAlone /\ ParkMapped /\ ParkDisposes
  BY DEF RoutedInv, ControlInv, ParkInv
<1>2. SUFFICES ASSUME mgr' = "up", park'.phase = "dispose" PROVE cur' = park'.ref
  BY DEF ParkHolds
<1>3. mgr = "up"
  BY <1>2, MgrSteps DEF RoutedInv
<1>4. CASE park'.phase = park.phase /\ park'.ref = park.ref
  <2>1. cur = park.ref /\ cur # 0 /\ status[cur] = "parked" /\ park.mapped
    BY <1>1, <1>2, <1>3, <1>4, ParkRefs DEF ParkHolds, ParkDisposes, ParkMapped, RoutedInv, Refs
  <2>2. cur' # 0
    BY <1>1, <1>2, <1>3, <1>4, <2>1, CurGoes DEF ParkAlone
  <2> QED BY <1>4, <2>1, <2>2, CurSteps DEF Reclaimable, RoutedInv
<1>5. CASE ParkCommits
  BY <1>5, Facts DEF ParkCommits, ParkStops, Parks, registryVars, RoutedInv
<1> QED BY <1>2, <1>4, <1>5, ParkSteps DEF RoutedInv

\* A revival that unwinds finds its own session attached, or none.
LEMMA NextFailingAlone ==
  ASSUME RoutedInv, FailingAlone, [Next]_vars PROVE FailingAlone'
<1>1. /\ AttachedRuns /\ NotYetUp /\ Spawning /\ RetainedIsDetached
      /\ sess \in [Refs -> 0 .. MaxSession]
  BY DEF RoutedInv, ControlInv, ParkInv, RevivalInv, LifecycleInv, TypeOK
<1>2. SUFFICES ASSUME mgr' = "up", NEW x \in Callers, call'[x].ref = cur', call'[x].pc = "failing"
      PROVE sess'[cur'] \in {0, call'[x].s}
  BY DEF FailingAlone
<1>3. mgr = "up" /\ cur' = cur /\ cur \in Refs /\ cur = nrefs
  BY <1>2, ReviversBefore DEF RoutedInv
<1>4. CASE call'[x] = call[x]
  <2>1. sess[cur] \in {0, call[x].s} /\ call[x].pc = "failing" /\ call[x].ref = cur /\ Reviving(x)
    BY <1>2, <1>3, <1>4 DEF FailingAlone, Reviving
  <2>2. ~Attaches(cur)
    BY <1>1, <1>3, <2>1, AliveAlone DEF Attaches, Spawning, Reviving, RoutedInv
  <2> QED BY <1>3, <1>4, <2>1, <2>2, SessSteps DEF RoutedInv
<1>5. CASE ReviverNext(x) /\ call'[x].ref = call[x].ref /\ Continues(x) /\ call'[x] # call[x]
  <2>1. call[x].pc = "attached" /\ call[x].ref = cur
    BY <1>2, <1>3, <1>5 DEF Continues
  <2>2. sess[cur] \in {0, call[x].s}
    BY <1>1, <1>3, <2>1 DEF AttachedRuns, RetainedIsDetached
  <2>3. ReviverUnwinds(x)
    <3>1. call \in [Callers -> Calls]
      BY Facts DEF RoutedInv
    <3>2. ~ReviverReturns(x)
      BY <1>2, <3>1, SettleFields, MoveFields DEF ReviverReturns, Publish, Settle
    <3>3. ~ReviverFailsLate(x)
      BY <1>2, <3>1, SettleFields DEF ReviverFailsLate, Fail, Settle
    <3> QED BY <1>5, <2>1, <3>2, <3>3
            DEF ReviverNext, Probed, ReviverClaims, ReviverAttaches, ReviverFails, ReviverReturnsDetached, DiscardEnds
  <2>4. UNCHANGED sess /\ call'[x].s = call[x].s
    BY <2>3, Facts, MoveFields DEF ReviverUnwinds, registryVars, RoutedInv
  <2> QED BY <1>3, <2>2, <2>4
<1> QED BY <1>2, <1>4, <1>5, ReviversBefore DEF Starts, RoutedInv

\* The executor loses its reference only to a kill.
LEMMA NextSpawnOrphaned ==
  ASSUME RoutedInv, SessionRefs, SpawnOrphaned, [Next]_vars PROVE SpawnOrphaned'
<1> USE DEF RoutedInv
<1>1. Spawned /\ Grows
  BY NextGrows DEF RoutedInv, ControlInv, RevivalInv
<1>2. SUFFICES ASSUME mgr' = "up", spawn'.pc = "dispose", spawn'.ref = 0, sref'[spawn'.s] = cur'
      PROVE status'[cur'] = "aborted"
  BY DEF SpawnOrphaned
<1>3. CASE spawn.pc \in {"run", "dispose"} /\ spawn'.s = spawn.s
  <2>1. spawn.s \in 1 .. nsess /\ sref'[spawn.s] = sref[spawn.s] /\ sref[spawn.s] \in 1 .. nrefs
    BY <1>1, <1>3 DEF SessionInv, SpawnSession, SessionOf, Grows, SessionRefs
  <2>2. mgr = "up" /\ cur' = cur /\ cur \in Refs /\ cur = nrefs /\ sref[spawn.s] = cur
    BY <1>2, <1>3, <2>1, StillCur, Facts
  <2>3. SUFFICES status[cur] = "aborted"
    BY <2>2, NextKeepsKilled, Facts DEF KilledStays, RevivalInv
  <2>4. CASE UNCHANGED spawn
    BY <1>2, <2>2, <2>4 DEF SpawnOrphaned
  <2>5. CASE FinalizeDispose
    <3>1. spawn.ref = cur /\ spawn.pc = "run"
      BY <2>2, <2>5 DEF FinalizeDispose, SessionInv, SpawnSession, SessionOf
    <3>2. ~OwnsRef
      BY <1>2, <2>2, <2>5, Facts DEF FinalizeDispose, Spawns, Refs
    <3> QED BY <1>1, <2>2, <3>1, <3>2 DEF Spawned, OwnsRef, Refs
  <2>6. SpawnAttach => spawn'.pc = "run"
    BY DEF SpawnAttach
  <2>7. SpawnRegisters => spawn'.pc = "build"
    BY DEF SpawnRegisters
  <2> QED BY <1>2, <2>4, <2>5, <2>6, <2>7, SpawnSteps
<1>4. SpawnAttach => spawn'.pc = "run"
  BY DEF SpawnAttach
<1>5. SpawnRegisters => spawn'.pc = "build"
  BY DEF SpawnRegisters
<1> QED BY <1>2, <1>3, <1>4, <1>5, SpawnSteps DEF FinalizeDispose

\* An attached session of the registered reference stays there, or a release
\* takes it, or it is disposed.
LEMMA RoutedStays ==
  ASSUME Kills, RoutedInv, LiveFacts, SpawnOrphaned, FailingAlone, [Next]_vars, mgr' = "up",
         cur # 0, sess[cur] # 0
  PROVE \/ cur' # 0 /\ sess'[cur'] = sess[cur]
        \/ \E k \in Releasers : rel'[k].live = sess[cur]
        \/ sstate'[sess[cur]] # "open"
<1> USE DEF RoutedInv
<1>1. /\ AttachedRuns /\ NotYetUp /\ Spawning /\ Spawned /\ RetainedIsDetached
      /\ sess \in [Refs -> 0 .. MaxSession] /\ mgr = "up" /\ cur \in Refs /\ cur = nrefs /\ nrefs \in Nat
      /\ sstate \in [Sessions -> {"none", "open", "closing", "closed"}]
  BY Facts, MgrSteps DEF ControlInv, ParkInv, RevivalInv, LifecycleInv, TypeOK
<1>2. status[cur] \notin {"parked", "aborted"} /\ sess[cur] \in Sessions
  BY <1>1 DEF RetainedIsDetached, Sessions
<1>3. CASE cur' = cur
  <2>1. CASE IsParked(cur)
    <3>1. park.s = sess[cur] /\ BeginDispose(park.s)
      BY <2>1 DEF IsParked, ParkCommits, ParkStops
    <3> QED BY <1>1, <1>2, <3>1 DEF BeginDispose
  <2>2. ~IsSpawned(cur)
    BY <1>1 DEF IsSpawned, SpawnAttach, Spawning
  <2>3. CASE IsRevived(cur)
    <3>1. PICK c \in Callers :
             /\ call[c].ref = cur
             /\ \/ call[c].pc = "build"
                \/ call[c].pc \in {"claim", "attached"} /\ (call[c].pc = "attached" => sess'[cur] = call[c].s)
      BY <2>3 DEF IsRevived, ReviverAttaches
    <3>2. call[c].pc = "attached" /\ sess[cur] = call[c].s
      BY <1>1, <1>2, <3>1 DEF NotYetUp, AttachedRuns
    <3> QED BY <1>1, <1>3, <3>1, <3>2, Facts DEF Refs
  <2> QED BY <1>1, <1>3, <2>1, <2>2, <2>3, RowSteps DEF RunsTurn, IsKept, IsKilled, Refs
<1>4. CASE cur' = 0
  BY <1>1, <1>2, <1>4, CurGoes DEF Spawning, Spawned, FailingAlone
<1> QED BY <1>2, <1>3, <1>4, CurSteps DEF Reclaimable

\* A session a release took stays with it until it is disposed.
LEMMA ReleasedStays ==
  ASSUME RoutedInv, ReleaseLive, [Next]_vars, NEW k \in Releasers, rel[k].live # 0
  PROVE (\E j \in Releasers : rel'[j].live = rel[k].live) \/ sstate'[rel[k].live] # "open"
<1> USE Facts DEF RoutedInv
<1> DEFINE Goal == (\E j \in Releasers : rel'[j].live = rel[k].live) \/ sstate'[rel[k].live] # "open"
<1>0. ASSUME rel'[k].live = rel[k].live PROVE Goal
  BY <1>0
<1>1. CASE SpawnNext \/ TimerFires \/ \E st \in {"running", "idle"} : RunState(st)
  BY <1>0, <1>1
     DEF SpawnNext, SpawnStart, SpawnProbed, SpawnRegisters, SpawnAttach, SpawnFail, FinalizeKeepAlive,
         FinalizeDispose, FinalizeDisposed, TimerFires, RunState
<1>2. CASE ParkNext
  BY <1>0, <1>2, WakeFields DEF ParkNext, ParkAborts, ParkCommits, ParkEnds
<1>3. ASSUME NEW c \in Callers, CallNext(c) \/ ReviverNext(c) PROVE Goal
  BY <1>0, <1>3, CallFrame, ReviverSteps
<1>4. ASSUME NEW j \in Releasers, rel[j].pc \in {"idle", "strike"}, NEW v, rel' = [rel EXCEPT ![j] = v] PROVE Goal
  <2>1. j # k
    BY <1>4 DEF ReleaseLive
  <2> QED BY <1>0, <1>4, <2>1
<1>5. CASE ReleaseOp
  BY <1>4, <1>5 DEF ReleaseOp, Release, Strike
<1>6. ASSUME NEW j \in Releasers, ReleaseStep(j) PROVE Goal
  <2>1. CASE ReleaseStrikes(j)
    BY <1>4, <2>1 DEF ReleaseStrikes, Strike
  <2>2. CASE ReleaseEnds(j)
    <3>1. CASE j = k
      BY <2>2, <3>1 DEF ReleaseEnds, ReleaseLive, sessionVars
    <3> QED BY <1>0, <2>2, <3>1 DEF ReleaseEnds
  <2>3. CASE ReleaseDisposed(j) \/ \E w \in BOOLEAN : TombstonePersisted(j, w)
    BY <1>0, <2>3 DEF ReleaseDisposed, TombstonePersisted, Releases
  <2> QED BY <1>6, <2>1, <2>2, <2>3 DEF ReleaseStep
<1>7. CASE Idles \/ DisposeEnds \/ UNCHANGED vars
  BY <1>0, <1>7 DEF Idles, DisposeEnds, vars
<1> QED BY <1>1, <1>2, <1>3, <1>5, <1>6, <1>7, Steps DEF RevivalInv

-----------------------------------------------------------------------------
(* No session is lost *)

\* A call that holds a session moves by its own steps only.
LEMMA HoldingSteps ==
  ASSUME RevivalInv, [Next]_vars, NEW x \in Callers, call[x].pc \in Holding
  PROVE call'[x] = call[x] \/ ReviverNext(x)
<1> USE Facts DEF callVars, Holding
<1>0. ASSUME UNCHANGED call PROVE call'[x] = call[x]
  BY <1>0
<1>1. CASE SpawnNext \/ TimerFires \/ \E st \in {"running", "idle"} : RunState(st)
  BY <1>1
     DEF SpawnNext, SpawnStart, SpawnProbed, SpawnRegisters, SpawnAttach, SpawnFail, FinalizeKeepAlive,
         FinalizeDispose, FinalizeDisposed, TimerFires, RunState
<1>2. CASE ParkNext
  BY <1>2 DEF ParkNext, ParkAborts, ParkCommits, ParkEnds, WakeCalls
<1>3. ASSUME NEW c \in Callers, CallNext(c) PROVE call'[x] = call[x]
  <2>0. c # x
    BY <1>3 DEF CallNext, EnsureLive, Forget, Kept, Resume, ReopenProbed, DropTombstone, Reopened
  <2>1. ASSUME NEW s, Return(c, s) PROVE call'[x] = call[x]
    BY <2>0, <2>1, ReturnFields
  <2>2. ASSUME NEW pc, NEW r, At(c, pc, r) PROVE call'[x] = call[x]
    BY <2>0, <2>2, AtFields
  <2>3. ASSUME NEW pc, NEW d, Join(c, pc, d) PROVE call'[x] = call[x]
    BY <2>0, <2>3, JoinFields
  <2>4. ASSUME NEW r, ProceedLive(c, r) PROVE call'[x] = call[x]
    BY <2>1, <2>2, <2>3, <2>4 DEF ProceedLive
  <2>5. Proceed(c) => call'[x] = call[x]
    BY <2>1, <2>2, <2>3, <2>4 DEF Proceed
  <2>6. ReopenProbed(c) \/ DropTombstone(c) => call'[x] = call[x]
    BY <2>0 DEF ReopenProbed, SettleShared, DropTombstone
  <2> QED BY <1>3, <2>1, <2>2, <2>4, <2>5, <2>6 DEF CallNext, EnsureLive, Forget, Kept, Resume, Reopened
<1>4. ASSUME NEW c \in Callers, ReviverNext(c), c # x PROVE call'[x] = call[x]
  <2>1. ASSUME NEW s, Settle(c, s) PROVE call'[x] = call[x]
    BY <1>4, <2>1 DEF Settle, SettleShared
  <2> QED BY <1>4, <2>1
     DEF ReviverNext, Probed, ReviverClaims, ReviverAttaches, ReviverFails, ReviverUnwinds, ReviverFailsLate,
         ReviverReturns, ReviverReturnsDetached, DiscardEnds, Fail, Publish
<1>5. CASE ReleaseOp \/ Idles \/ DisposeEnds \/ UNCHANGED vars \/ \E k \in Releasers : ReleaseStep(k)
  BY <1>5 DEF ReleaseOp, Release, Idles, DisposeEnds, vars, ReleaseStep, ReleaseStrikes,
              ReleaseDisposed, ReleaseEnds, TombstonePersisted
<1> QED BY <1>1, <1>2, <1>3, <1>4, <1>5, Steps DEF RevivalInv

\* A session that is held by a revival and open is the routed one, or a
\* release has taken it.
LEMMA NextHeld ==
  ASSUME Kills, RoutedInv, LiveFacts, SpawnOrphaned, FailingAlone, Held, [Next]_vars, SessionInv' PROVE Held'
<1> USE DEF RoutedInv
<1>2. SUFFICES ASSUME mgr' = "up", NEW x \in Callers, call'[x].pc = "attached", sstate'[call'[x].s] = "open"
      PROVE \/ cur' = call'[x].ref /\ sess'[cur'] = call'[x].s
            \/ \E k \in Releasers : rel'[k].live = call'[x].s
  BY DEF Held
<1>3. mgr = "up" /\ sess \in [Refs -> 0 .. MaxSession]
  BY <1>2, MgrSteps DEF RevivalInv, LifecycleInv, TypeOK
<1>4. CASE ReviverAttaches(x)
  <2>1. call[x].ref \in Refs /\ cur' = cur /\ cur = call[x].ref /\ sess' = [sess EXCEPT ![cur] = nsess + 1]
    BY <1>4, Facts DEF ReviverAttaches, Reviving
  <2> QED BY <1>3, <1>4, <2>1, AttachFields
<1>5. CASE call'[x] = call[x]
  <2>1. /\ call[x].s \in 1 .. nsess /\ call[x].s # 0 /\ call[x].s \in Sessions /\ call[x].s # nsess + 1
        /\ sref'[call[x].s] = call[x].ref
    BY <1>2, <1>5, LifecycleAssumption
       DEF SessionInv, CallSessions, SessionOf, Holding, Sessions, RevivalInv, LifecycleInv, TypeOK
  <2>2. sstate[call[x].s] = "open"
    BY <1>2, <1>5, <2>1, NextNeverReopens DEF NeverReopens
  <2>3. CASE cur = call[x].ref /\ sess[cur] = call[x].s
    <3>1. cur # 0
      BY <1>2, <1>5, <2>3, Facts DEF Reviving, Refs
    <3>2. CASE cur' # 0 /\ sess'[cur'] = call[x].s
      <4>1. cur' \in Refs
        BY <3>1, <3>2, Facts, CurSteps, NextInv DEF RevivalInv, LifecycleInv, TypeOK, Refs
      <4>2. sref'[call[x].s] = cur'
        BY <2>1, <3>2, <4>1 DEF SessionInv, RefSessions, SessionOf
      <4> QED BY <1>5, <2>1, <3>2, <4>2
    <3> QED BY <1>2, <1>5, <2>1, <2>3, <3>1, <3>2, RoutedStays
  <2>4. CASE \E k \in Releasers : rel[k].live = call[x].s
    BY <1>2, <1>5, <2>1, <2>4, ReleasedStays DEF LiveFacts
  <2> QED BY <1>2, <1>3, <1>5, <2>2, <2>3, <2>4 DEF Held
<1>6. ASSUME ReviverNext(x), Continues(x), ~ReviverAttaches(x), call'[x] # call[x] PROVE FALSE
  <2>1. call[x].pc = "build"
    BY <1>2, <1>6 DEF Continues
  <2> QED BY <1>2, <1>6, <2>1, Facts, SettleFields
     DEF ReviverNext, Probed, ReviverClaims, ReviverFails, ReviverUnwinds, ReviverFailsLate, ReviverReturns,
         ReviverReturnsDetached, DiscardEnds, Fail, Settle
<1> QED BY <1>2, <1>4, <1>5, <1>6, AnyCall DEF Rests, Resting, GoesOn, Reopening, Starts

\* Where a session is opened.
LEMMA OpenSteps ==
  ASSUME RevivalInv, [Next]_vars, NEW s \in Sessions, sstate'[s] = "open", sstate[s] # "open"
  PROVE \/ spawn'.pc = "run" /\ spawn'.s = s
        \/ \E c \in Callers : call'[c].s = s
        \/ cur' # 0 /\ sess'[cur'] = s
<1> USE Facts DEF sessionVars
<1>b. sstate \in [Sessions -> {"none", "open", "closing", "closed"}] /\ sess \in [Refs -> 0 .. MaxSession]
  BY DEF RevivalInv, LifecycleInv, TypeOK
<1>0. ~UNCHANGED sstate
  OBVIOUS
<1>a. ASSUME NEW t, NEW st, st # "open", sstate' = [sstate EXCEPT ![t] = st] PROVE FALSE
  BY <1>a, <1>b
<1>c. ASSUME NEW t, BeginDispose(t) PROVE FALSE
  BY <1>c, <1>b DEF BeginDispose
<1>d. ASSUME NEW t, sstate' = [sstate EXCEPT ![t] = "open"] PROVE s = t
  BY <1>d, <1>b
<1>1. CASE SpawnNext
  <2>1. CASE SpawnAttach
    BY <1>d, <2>1 DEF SpawnAttach, Create
  <2> QED BY <1>0, <1>a, <1>c, <1>1, <2>1
     DEF SpawnNext, SpawnStart, SpawnProbed, SpawnRegisters, SpawnFail, FinalizeKeepAlive,
         FinalizeDispose, FinalizeDisposed, EndDispose
<1>2. CASE TimerFires \/ ParkNext \/ \E st \in {"running", "idle"} : RunState(st)
  BY <1>0, <1>a, <1>c, <1>2 DEF TimerFires, ParkNext, ParkAborts, ParkCommits, ParkEnds, RunState, EndDispose
<1>3. ASSUME NEW c \in Callers, CallNext(c) PROVE FALSE
  BY <1>0, <1>3, CallFrame
<1>4. ASSUME NEW c \in Callers, ReviverNext(c)
      PROVE (\E d \in Callers : call'[d].s = s) \/ (cur' # 0 /\ sess'[cur'] = s)
  <2>1. CASE ReviverAttaches(c)
    BY <1>d, <2>1, AttachFields DEF ReviverAttaches, Create
  <2>2. CASE ReviverReturnsDetached(c)
    <3>1. call[c].ref \in Refs
      BY <2>2 DEF ReviverReturnsDetached, Reviving
    <3>2. sstate' = [sstate EXCEPT ![nsess + 1] = "open"] /\ Publish(c, call[c].ref, nsess + 1)
          /\ cur = call[c].ref /\ UNCHANGED cur
      BY <1>a, <2>2 DEF ReviverReturnsDetached
    <3>3. s = nsess + 1 /\ sess' = [sess EXCEPT ![cur] = nsess + 1]
      BY <1>d, <3>2 DEF Publish
    <3> QED BY <1>b, <3>1, <3>2, <3>3 DEF Refs
  <2> QED BY <1>0, <1>a, <1>c, <1>4, <2>1, <2>2
     DEF ReviverNext, Probed, ReviverClaims, ReviverFails, ReviverUnwinds,
         ReviverFailsLate, ReviverReturns, DiscardEnds, EndDispose
<1>5. CASE ReleaseOp \/ Idles \/ DisposeEnds \/ UNCHANGED vars \/ \E k \in Releasers : ReleaseStep(k)
  <2>1. ASSUME NEW k, NEW r, NEW t, NEW a, Strike(k, r, t, a) PROVE FALSE
    BY <1>0, <1>c, <2>1 DEF Strike
  <2>2. ASSUME NEW k, ReleaseDisposed(k) PROVE FALSE
    BY <1>a, <2>2 DEF ReleaseDisposed, EndDispose
  <2> QED BY <1>0, <1>c, <1>5, <2>1, <2>2
     DEF ReleaseOp, Release, Idles, DisposeEnds, vars, ReleaseStep, ReleaseStrikes, ReleaseEnds, TombstonePersisted
<1> QED BY <1>1, <1>2, <1>3, <1>4, <1>5, Steps DEF RevivalInv

\* The executor lets go of the session it runs only to the registry, or to
\* dispose it.
LEMMA RunEnds ==
  ASSUME RevivalInv, [Next]_vars, spawn.pc = "run"
  PROVE UNCHANGED spawn \/ OwnsRef \/ BeginDispose(spawn.s)
<1>1. CASE SpawnNext
  BY <1>1
     DEF SpawnNext, SpawnStart, SpawnProbed, SpawnAttach, SpawnFail, FinalizeKeepAlive,
         FinalizeDispose, FinalizeDisposed
<1>2. CASE TimerFires \/ ParkNext \/ \E st \in {"running", "idle"} : RunState(st)
  BY <1>2 DEF TimerFires, ParkNext, ParkAborts, ParkCommits, ParkEnds, RunState
<1>3. ASSUME NEW c \in Callers, CallNext(c) \/ ReviverNext(c) PROVE UNCHANGED spawn
  BY <1>3, CallFrame, ReviverSteps
<1>4. CASE ReleaseOp \/ Idles \/ DisposeEnds \/ UNCHANGED vars \/ \E k \in Releasers : ReleaseStep(k)
  BY <1>4 DEF ReleaseOp, Idles, DisposeEnds, vars, ReleaseStep, ReleaseStrikes,
              ReleaseDisposed, ReleaseEnds, TombstonePersisted
<1> QED BY <1>1, <1>2, <1>3, <1>4, Steps DEF RevivalInv

\* No step loses a session that is open.
LEMMA NextNoSessionIsLost ==
  ASSUME Kills, RoutedInv, LiveFacts, SpawnOrphaned, FailingAlone, Held, NoSessionIsLost, [Next]_vars
  PROVE NoSessionIsLost'
<1> USE DEF RoutedInv
<1> DEFINE Reached(s) == \/ cur # 0 /\ sess[cur] = s
                         \/ spawn.pc = "run" /\ spawn.s = s
                         \/ \E c \in Callers : call[c].s = s
                         \/ \E k \in Releasers : rel[k].live = s
           ReachedNext(s) == \/ cur' # 0 /\ sess'[cur'] = s
                             \/ spawn'.pc = "run" /\ spawn'.s = s
                             \/ \E c \in Callers : call'[c].s = s
                             \/ \E k \in Releasers : rel'[k].live = s
<1>1. SUFFICES ASSUME mgr' = "up", NEW s \in Sessions, sstate'[s] = "open" PROVE ReachedNext(s)
  BY DEF NoSessionIsLost
<1>2. mgr = "up" /\ s # 0
  BY <1>1, MgrSteps DEF Sessions
<1>3. CASE sstate[s] # "open"
  BY <1>1, <1>3, OpenSteps
<1>4. CASE cur # 0 /\ sess[cur] = s
  BY <1>1, <1>2, <1>4, RoutedStays
<1>5. CASE \E k \in Releasers : rel[k].live = s
  BY <1>1, <1>2, <1>5, ReleasedStays DEF LiveFacts
<1>6. CASE spawn.pc = "run" /\ spawn.s = s
  <2>1. ~BeginDispose(s)
    BY <1>1 DEF BeginDispose, RevivalInv, LifecycleInv, TypeOK
  <2> QED BY <1>4, <1>6, <2>1, RunEnds DEF OwnsRef
<1>7. ASSUME sstate[s] = "open", NEW c \in Callers, call[c].s = s PROVE ReachedNext(s)
  <2>0. call[c].pc \in Holding /\ call \in [Callers -> Calls] /\ call[c].ref \in Refs
    BY <1>2, <1>7, Facts DEF SessionInv, CallSessions, SessionOf
  <2>1. CASE call'[c] = call[c]
    BY <1>7, <2>1
  <2>2. CASE ReviverUnwinds(c)
    BY <1>7, <2>0, <2>2, MoveFields DEF ReviverUnwinds
  <2>3. CASE ReviverFailsLate(c)
    <3>1. \/ cur = call[c].ref /\ sess[cur] = s
          \/ \E k \in Releasers : rel[k].live = s
      BY <1>2, <1>7, <2>3 DEF Held, ReviverFailsLate
    <3> QED BY <1>4, <1>5, <2>0, <3>1 DEF Refs
  <2>4. CASE ReviverReturns(c)
    <3>1. CASE StillOurs(call[c].ref, s) /\ Publish(c, call[c].ref, s)
      BY <2>0, <2>4, <3>1 DEF ReviverReturns, StillOurs, Publish, Refs, RevivalInv, LifecycleInv, TypeOK
    <3>2. CASE call' = [call EXCEPT ![c].pc = "stale"]
      BY <1>7, <2>0, <3>2, MoveFields
    <3> QED BY <1>7, <2>4, <3>1, <3>2 DEF ReviverReturns
  <2>5. ~DiscardEnds(c)
    BY <1>1, <1>7 DEF DiscardEnds, EndDispose, RevivalInv, LifecycleInv, TypeOK
  <2> QED BY <2>0, <2>1, <2>2, <2>3, <2>4, <2>5, HoldingSteps
     DEF ReviverNext, Probed, ReviverClaims, ReviverAttaches, ReviverFails, ReviverReturnsDetached, Holding
<1> QED BY <1>2, <1>3, <1>4, <1>5, <1>6, <1>7 DEF NoSessionIsLost

-----------------------------------------------------------------------------
(* What ensureLive returns *)

\* Where no reviver throws after its attach, no revival unwinds.
LEMMA NextNoLateFailing ==
  ASSUME ~LateFailures, RevivalInv, SessionInv, NoLateFailing, [Next]_vars PROVE NoLateFailing'
<1>1. ASSUME NEW x \in Callers, ReviverNext(x), Continues(x), call'[x].pc = "failing" PROVE FALSE
  <2>1. call[x].pc = "attached" /\ call \in [Callers -> Calls]
    BY <1>1, Facts DEF Continues
  <2>2. ~ReviverReturns(x)
    BY <1>1, <2>1, SettleFields, MoveFields DEF ReviverReturns, Publish, Settle
  <2> QED BY <1>1, <2>1, <2>2
    DEF ReviverNext, Probed, ReviverClaims, ReviverAttaches, ReviverFails, ReviverUnwinds, ReviverFailsLate,
        ReviverReturnsDetached, DiscardEnds
<1> QED BY <1>1, AnyCall DEF NoLateFailing, Rests, Resting, GoesOn, Reopening, Starts

\* A reference that was reopened keeps the id until the calls that reopened it
\* have gone on.
LEMMA NextReopenedStands ==
  ASSUME ~SlowRemoval, Kills, RoutedInv, LiveFacts, SpawnOrphaned, NoLateFailing, ReopenedStands, [Next]_vars
  PROVE ReopenedStands'
<1> USE Facts DEF RoutedInv
<1>1. SUFFICES ASSUME mgr' = "up", NEW x \in Callers, call'[x].pc \in {"dropTombstone", "reopened"}
      PROVE /\ call'[x].ref = cur'
            /\ spawn'.pc \in {"build", "run", "dispose"} => spawn'.ref # cur'
  BY DEF ReopenedStands, Reopens
<1>2. mgr = "up" /\ spawn.ref <= nrefs /\ nrefs \in Nat /\ spawn.ref \in Nat
  BY <1>1, MgrSteps DEF SessionInv, RefsGiven, Spawns
<1>3. CASE Reopening(x)
  <2>1. cur' = nrefs + 1
    BY <1>3, CurSteps DEF Reopening
  <2>2. call'[x] # call[x]
    BY <1>3, Facts DEF Reopening
  <2>3. ~SpawnRegisters /\ ~SpawnAttach /\ ~FinalizeDispose
    BY <2>2 DEF SpawnRegisters, SpawnAttach, FinalizeDispose, callVars
  <2> QED BY <1>2, <1>3, <2>1, <2>3, SpawnSteps DEF Reopening
<1>5. ASSUME NEW y \in Callers, Reopens(y), call'[x].ref = call[y].ref
      PROVE /\ call'[x].ref = cur'
            /\ spawn'.pc \in {"build", "run", "dispose"} => spawn'.ref # cur'
  <2>1. call[y].ref = cur /\ (spawn.pc \in {"build", "run", "dispose"} => spawn.ref # cur)
    BY <1>2, <1>5 DEF ReopenedStands
  <2>2. cur # 0
    <3>1. call[y].ref = nrefs
      BY <1>5 DEF RevivalInv, ReopensLatest
    <3> QED BY <1>5, <2>1, <3>1 DEF Reopens, RevivalInv, LifecycleInv, CapturedRefs
  <2>3. cur' # 0
    BY <1>1, <1>2, <2>1, <2>2, CurGoes DEF NoLateFailing
  <2>4. ~\E st, f : Register(st, f)
    BY <1>5 DEF Register, Reopens, Queued, Removing
  <2>5. cur' = cur
    BY <1>5, <2>3, CurSteps DEF Queued, Removing, Reopens
  <2> QED BY <1>5, <2>1, <2>2, <2>4, <2>5, SpawnSteps DEF SpawnRegisters, SpawnAttach, FinalizeDispose
<1> QED BY <1>1, <1>3, <1>5, AnyCall DEF Rests, Resting, GoesOn, Starts, Continues, Reopens

\* A step that answers a call with a session answers it with the routed one.
LEMMA StepReturnsRouted ==
  ASSUME RoutedInv, ReopenedStands, [Next]_vars, NEW x \in Callers, mgr = "up", got[x] = 0, got'[x] # 0
  PROVE cur' # 0 /\ sess'[cur'] = got'[x]
<1> USE Facts DEF RoutedInv, registryVars, callVars
<1> DEFINE Goal == cur' # 0 /\ sess'[cur'] = got'[x]
<1>b. got \in [Callers -> 0 .. MaxSession] /\ sess \in [Refs -> 0 .. MaxSession]
  BY DEF RevivalInv, LifecycleInv, TypeOK
<1>0. ~UNCHANGED got
  OBVIOUS
<1>1. CASE SpawnNext \/ TimerFires \/ ParkNext \/ \E st \in {"running", "idle"} : RunState(st)
  BY <1>0, <1>1
     DEF SpawnNext, SpawnStart, SpawnProbed, SpawnRegisters, SpawnAttach, SpawnFail, FinalizeKeepAlive,
         FinalizeDispose, FinalizeDisposed, TimerFires, ParkNext, ParkAborts, ParkCommits, ParkEnds, RunState
<1>2. ASSUME NEW c \in Callers, CallNext(c) PROVE Goal
  <2>1. ASSUME NEW s, Return(c, s) PROVE got'[x] = s
    BY <1>0, <1>b, <2>1 DEF Return
  <2>2. ASSUME UNCHANGED <<cur, sess>>, cur # 0, ProceedLive(c, cur) PROVE Goal
    BY <1>0, <2>1, <2>2 DEF ProceedLive
  <2>3. ASSUME UNCHANGED <<cur, sess>>, Proceed(c) PROVE Goal
    BY <1>0, <2>1, <2>2, <2>3 DEF Proceed
  <2>4. CASE Kept(c)
    BY <2>1, <2>3, <2>4 DEF Kept
  <2>5. CASE Reopened(c)
    <3>1. call[c].ref = cur /\ cur # 0
      BY <2>5 DEF Reopened, ReopenedStands, Reopens, RevivalInv, LifecycleInv, CapturedRefs
    <3> QED BY <2>2, <2>5, <3>1 DEF Reopened
  <2>6. ~ReopenProbed(c)
    BY <1>0, <1>b DEF ReopenProbed, SettleShared
  <2>7. ~Forget(c)
    BY <1>0, <1>b DEF Forget
  <2> QED BY <1>0, <1>2, <2>3, <2>4, <2>5, <2>6, <2>7 DEF CallNext, EnsureLive, Resume, DropTombstone
<1>3. ASSUME NEW c \in Callers, ReviverNext(c) PROVE Goal
  <2>1. ASSUME NEW s, Settle(c, s) PROVE got'[x] = s
    BY <1>0, <2>1 DEF Settle, SettleShared
  <2>2. ASSUME NEW r \in Refs, NEW s, cur = r, UNCHANGED cur, Publish(c, r, s) PROVE Goal
    BY <1>b, <2>1, <2>2 DEF Publish, Refs
  <2>3. call[c].ref \in Refs
    BY <1>3, ReviverSteps
  <2> QED BY <1>0, <1>3, <2>1, <2>2, <2>3
     DEF ReviverNext, Probed, ReviverClaims, ReviverAttaches, ReviverFails, ReviverUnwinds,
         ReviverFailsLate, ReviverReturns, ReviverReturnsDetached, DiscardEnds, Fail, StillOurs
<1>4. CASE ReleaseOp \/ Idles \/ DisposeEnds \/ UNCHANGED vars \/ \E k \in Releasers : ReleaseStep(k)
  BY <1>0, <1>4 DEF ReleaseOp, Release, Idles, DisposeEnds, vars, ReleaseStep, ReleaseStrikes,
              ReleaseDisposed, ReleaseEnds, TombstonePersisted
<1> QED BY <1>1, <1>2, <1>3, <1>4, Steps DEF RevivalInv

-----------------------------------------------------------------------------
(* The TTL *)

\* A call that awaits the park it cancelled goes on when the park has ended, by
\* a step of its own.
LEMMA KeptSteps ==
  ASSUME RevivalInv, [Next]_vars, NEW x \in Callers, call[x].pc \in {"parkCancel", "kept"}
  PROVE \/ call'[x] = call[x]
        \/ call[x].pc = "kept" /\ Kept(x)
        \/ ParkNext /\ park'.phase = "none"
<1> USE Facts DEF callVars
<1>1. CASE SpawnNext \/ TimerFires \/ \E st \in {"running", "idle"} : RunState(st)
  BY <1>1
     DEF SpawnNext, SpawnStart, SpawnProbed, SpawnRegisters, SpawnAttach, SpawnFail, FinalizeKeepAlive,
         FinalizeDispose, FinalizeDisposed, TimerFires, RunState
<1>2. CASE ParkNext
  BY <1>2 DEF ParkNext, ParkAborts, ParkCommits, ParkEnds, NoPark
<1>3. ASSUME NEW c \in Callers, CallNext(c), c # x PROVE call'[x] = call[x]
  <2>1. ASSUME NEW s, Return(c, s) PROVE call'[x] = call[x]
    BY <1>3, <2>1, ReturnFields
  <2>2. ASSUME NEW pc, NEW r, At(c, pc, r) PROVE call'[x] = call[x]
    BY <1>3, <2>2, AtFields
  <2>3. ASSUME NEW pc, NEW d, Join(c, pc, d) PROVE call'[x] = call[x]
    BY <1>3, <2>3, JoinFields
  <2>4. ASSUME NEW r, ProceedLive(c, r) PROVE call'[x] = call[x]
    BY <2>1, <2>2, <2>3, <2>4 DEF ProceedLive
  <2>5. Proceed(c) => call'[x] = call[x]
    BY <2>1, <2>2, <2>3, <2>4 DEF Proceed
  <2>6. ReopenProbed(c) \/ DropTombstone(c) => call'[x] = call[x]
    BY <1>3 DEF ReopenProbed, SettleShared, DropTombstone
  <2> QED BY <1>3, <2>1, <2>2, <2>4, <2>5, <2>6 DEF CallNext, EnsureLive, Forget, Kept, Resume, Reopened
<1>4. CallNext(x) => (Kept(x) /\ call[x].pc = "kept") \/ UNCHANGED call
  BY DEF CallNext, EnsureLive, Forget, Kept, Resume, ReopenProbed, DropTombstone, Reopened
<1>5. ASSUME NEW c \in Callers, ReviverNext(c) PROVE call'[x] = call[x]
  <2>0. c # x
    BY <1>5, ReviverSteps DEF Reviving
  <2>1. ASSUME NEW s, Settle(c, s) PROVE call'[x] = call[x]
    BY <2>0, <2>1 DEF Settle, SettleShared
  <2> QED BY <1>5, <2>0, <2>1
     DEF ReviverNext, Probed, ReviverClaims, ReviverAttaches, ReviverFails, ReviverUnwinds, ReviverFailsLate,
         ReviverReturns, ReviverReturnsDetached, DiscardEnds, Fail, Publish
<1>6. CASE ReleaseOp \/ Idles \/ DisposeEnds \/ UNCHANGED vars \/ \E k \in Releasers : ReleaseStep(k)
  BY <1>6 DEF ReleaseOp, Release, Idles, DisposeEnds, vars, ReleaseStep, ReleaseStrikes,
              ReleaseDisposed, ReleaseEnds, TombstonePersisted
<1> QED BY <1>1, <1>2, <1>3, <1>4, <1>5, <1>6, Steps DEF RevivalInv

\* Who cancels a park.
LEMMA CancelSteps ==
  ASSUME RevivalInv, [Next]_vars, park'.phase = "yield", park'.cancelled
  PROVE \/ park.cancelled
        \/ \E c \in Callers : cur # 0 /\ call'[c].pc = "parkCancel" /\ call'[c].ref = cur
        \/ adopted'.ref # park.ref
<1> USE Facts
<1> DEFINE Goal == \/ park.cancelled
                   \/ \E c \in Callers : cur # 0 /\ call'[c].pc = "parkCancel" /\ call'[c].ref = cur
                   \/ adopted'.ref # park.ref
<1>0. park'.cancelled = park.cancelled => Goal
  OBVIOUS
<1>1. CASE SpawnNext \/ \E st \in {"running", "idle"} : RunState(st)
  BY <1>0, <1>1
     DEF SpawnNext, SpawnStart, SpawnProbed, SpawnRegisters, SpawnAttach, SpawnFail,
         FinalizeKeepAlive, FinalizeDispose, FinalizeDisposed, RunState
<1>2. CASE TimerFires \/ ParkNext
  BY <1>0, <1>2 DEF TimerFires, ParkNext, ParkAborts, ParkCommits, ParkEnds, NoPark, Parks
<1>3. ASSUME NEW c \in Callers, CallNext(c) PROVE Goal
  <2>1. CASE EnsureLive(c)
    BY <1>0, <2>1, AtFields DEF EnsureLive
  <2> QED BY <1>0, <1>3, <2>1 DEF CallNext, Forget, Kept, Resume, ReopenProbed, DropTombstone, Reopened
<1>4. ASSUME NEW c \in Callers, ReviverNext(c) PROVE Goal
  BY <1>0, <1>4, ReviverSteps
<1>5. CASE ReleaseOp
  <2>1. PICK k \in Releasers, e \in 0 .. MaxRef, t \in BOOLEAN : Release(k, e, t)
    BY <1>5 DEF ReleaseOp
  <2>2. CASE UNCHANGED park
    BY <1>0, <2>2
  <2>3. CASE park.ref = Released(e) /\ Released(e) # 0
             /\ adopted' = IF adopted.ref = Released(e) THEN NoAdoption ELSE adopted
    BY <2>3 DEF NoAdoption
  <2> QED BY <2>1, <2>2, <2>3 DEF Release
<1>6. CASE Idles \/ DisposeEnds \/ UNCHANGED vars \/ \E k \in Releasers : ReleaseStep(k)
  BY <1>0, <1>6 DEF Idles, DisposeEnds, vars, ReleaseStep, ReleaseStrikes, ReleaseDisposed,
                    ReleaseEnds, TombstonePersisted, Parks
<1> QED BY <1>1, <1>2, <1>3, <1>4, <1>5, <1>6, Steps DEF RevivalInv

\* Every step keeps what a cancelled park waits for.
LEMMA NextCancelled ==
  ASSUME RoutedInv, Cancelled, [Next]_vars PROVE Cancelled'
<1> USE Facts DEF RoutedInv
<1>1. ParkAlone /\ ParkYields
  BY DEF ControlInv, ParkInv
<1>2. SUFFICES ASSUME mgr' = "up", park'.phase = "yield", park'.cancelled
      PROVE \/ cur' = 0 \/ adopted'.ref # park'.ref
            \/ \E c \in Callers : call'[c].pc = "parkCancel" /\ call'[c].ref = park'.ref
  BY DEF Cancelled
<1>3. mgr = "up"
  BY <1>2, MgrSteps
<1>4. ~ParkCommits
  BY <1>2 DEF ParkCommits, Parks
<1>5. ~(TimerFires /\ park.phase = "none")
  BY <1>2 DEF TimerFires
<1>6. park'.phase = park.phase /\ park'.ref = park.ref
  BY <1>2, <1>4, <1>5, ParkSteps
<1>7. CASE ~park.cancelled
  BY <1>1, <1>2, <1>6, <1>7, CancelSteps DEF ParkYields
<1>8. CASE park.cancelled /\ cur = 0
  BY <1>2, <1>6, <1>8, CurSteps DEF Queued
<1>9. CASE park.cancelled /\ adopted.ref # park.ref
  <2>1. park.ref # 0
    BY <1>2, <1>6, ParkRefs DEF Refs
  <2>2. ~IsKept(park.ref)
    BY <1>1, <1>2, <1>3, <1>6 DEF IsKept, ParkAlone
  <2> QED BY <1>1, <1>2, <1>3, <1>6, <1>9, <2>1, <2>2, AdoptSteps DEF ParkAlone
<1>10. ASSUME NEW x \in Callers, call[x].pc = "parkCancel", call[x].ref = park.ref PROVE call'[x] = call[x]
  BY <1>2, <1>10, KeptSteps
<1> QED BY <1>2, <1>3, <1>6, <1>7, <1>8, <1>9, <1>10 DEF Cancelled

\* No step leaves an idle agent with its timer off.
LEMMA NextIdleIsArmed ==
  ASSUME Kills, RoutedInv, LiveFacts, ParkHolds, Cancelled, IdleIsArmed, [Next]_vars PROVE IdleIsArmed'
<1> USE Facts DEF RoutedInv, registryVars
<1>1. /\ ParkMapped /\ ParkYields /\ YieldSession /\ ParkDisposes /\ NotYetUp /\ IdleHasSession /\ KillsRelease
      /\ status \in [Refs -> Statuses] /\ sess \in [Refs -> 0 .. MaxSession] /\ nrefs \in Nat /\ adopted.ref <= nrefs
  BY DEF ControlInv, ParkInv, LiveFacts, RevivalInv, LifecycleInv, TypeOK, SessionInv, RefsGiven
<1>2. SUFFICES ASSUME mgr' = "up", cur' # 0, adopted'.ref = cur', status'[cur'] = "idle", adopted'.ttl,
                      ~park'.mapped, \A c \in Callers : ~(call'[c].pc = "kept" /\ call'[c].ref = cur')
      PROVE adopted'.timer
  BY DEF IdleIsArmed
<1>3. mgr = "up" /\ cur' = cur /\ cur \in Refs
  <2>1. mgr = "up"
    BY <1>2, MgrSteps
  <2>2. cur' = cur
    BY <1>1, <1>2, CurSteps
  <2> QED BY <1>2, <2>1, <2>2
<1>4. ASSUME status'[cur] = status[cur], adopted' = adopted, park'.mapped = park.mapped,
             \A x \in Callers : call[x].pc = "kept" => call'[x] = call[x]
      PROVE adopted'.timer
  BY <1>2, <1>3, <1>4 DEF IdleIsArmed
<1>u. ASSUME NEW r, NEW a, Unregister(r, a) \/ UnregisterUnlessParked(r, a) PROVE adopted' = a
  BY <1>2, <1>3, <1>u DEF Unregister, UnregisterUnlessParked
<1>d. ASSUME NEW c, adopted' = DropCold(c, adopted) PROVE adopted' = adopted
  BY <1>2, <1>d DEF DropCold, NoAdoption
<1>s. ASSUME NEW a \in Adoptions, adopted' = OnStatus(a, cur, "idle"), status[cur] # "idle", UNCHANGED park
      PROVE adopted'.timer
  BY <1>2, <1>3, <1>s DEF OnStatus, Adoptions
<1>5. CASE SpawnNext
  <2>1. ASSUME NEW ttl, NEW revive, FinalizeKeepAlive(ttl, revive) PROVE adopted'.timer
    BY <1>2, <2>1 DEF FinalizeKeepAlive
  <2>2. ~SpawnAttach
    BY <1>1, <1>2, <1>3 DEF SpawnAttach
  <2>3. ~SpawnRegisters
    BY <1>3 DEF SpawnRegisters, Register
  <2> QED BY <1>4, <1>u, <1>5, <2>1, <2>2, <2>3
     DEF SpawnNext, SpawnStart, SpawnProbed, SpawnFail, FinalizeDispose, FinalizeDisposed, EndDispose, callVars
<1>6. ASSUME NEW st \in {"running", "idle"}, RunState(st) PROVE adopted'.timer
  BY <1>1, <1>2, <1>3, <1>s, <1>6 DEF RunState
<1>7. ~TimerFires
  <2> SUFFICES ASSUME TimerFires PROVE FALSE
    OBVIOUS
  <2>1. adopted.ref = cur /\ status[cur] = "idle" /\ UNCHANGED <<cur, status>>
    BY <1>2, <1>3 DEF TimerFires, Adoptions
  <2> QED BY <1>1, <1>2, <1>3, <2>1 DEF TimerFires, IdleHasSession
<1>8. CASE ParkNext
  <2>1. ~ParkCommits
    BY <1>1, <1>2, <1>3 DEF ParkCommits, ParkMapped, Parks
  <2>2. ~ParkEnds
    <3> SUFFICES ASSUME ParkEnds PROVE FALSE
      OBVIOUS
    <3>1. cur = park.ref /\ status[park.ref] = "parked" /\ status' = status
      BY <1>1, <1>3 DEF ParkEnds, ParkHolds, ParkDisposes
    <3> QED BY <1>2, <1>3, <3>1
  <2>3. ~ParkAborts
    <3> SUFFICES ASSUME ParkAborts PROVE FALSE
      OBVIOUS
    <3>1. UNCHANGED <<cur, status, adopted>> /\ cur = park.ref /\ adopted.ref = park.ref /\ sess[cur] = park.s /\ sess[cur] # 0
      BY <1>1, <1>2, <1>3 DEF ParkAborts, ParkYields, YieldSession, IdleHasSession
    <3>2. PICK c \in Callers : call[c].pc = "parkCancel" /\ call[c].ref = park.ref
      BY <1>3, <3>1 DEF ParkAborts, ParkStops, Cancelled, Refs
    <3>3. call'[c].pc = "kept" /\ call'[c].ref = cur
      BY <3>1, <3>2 DEF ParkAborts, WakeCalls, Calls
    <3> QED BY <1>2, <1>3, <3>3
  <2> QED BY <1>8, <2>1, <2>2, <2>3 DEF ParkNext
<1>9. ASSUME ~ParkNext, NEW c \in Callers, CallNext(c) PROVE adopted'.timer
  <2>1. UNCHANGED <<cur, status>> /\ park'.mapped = park.mapped
        /\ (UNCHANGED adopted \/ adopted' = Rearmed(call[c].ref))
    BY <1>3, <1>9, CallFrame DEF Register
  <2>0. ASSUME NEW r
        PROVE /\ Rearmed(r).ref = adopted.ref /\ Rearmed(r).ttl = adopted.ttl
              /\ (Rearmed(r) = adopted \/ Rearmed(r).timer = adopted.ttl)
              /\ (adopted.ref = r /\ status[r] = "idle" => Rearmed(r).timer = adopted.ttl)
    BY DEF Rearmed, Adoptions
  <2>2. adopted.ref = cur /\ adopted.ttl /\ status[cur] = "idle"
        /\ (UNCHANGED adopted \/ adopted'.timer = adopted.ttl)
    <3>1. CASE UNCHANGED adopted
      BY <1>2, <1>3, <2>1, <3>1
    <3>2. CASE adopted' = Rearmed(call[c].ref)
      <4>1. adopted'.ref = adopted.ref /\ adopted'.ttl = adopted.ttl
        BY <2>0, <3>2
      <4>2. adopted' = adopted \/ adopted'.timer = adopted.ttl
        BY <2>0, <3>2
      <4> QED BY <1>2, <1>3, <2>1, <4>1, <4>2
    <3> QED BY <2>1, <3>1, <3>2
  <2>3. ASSUME NEW x \in Callers, call[x].pc = "kept", call[x].ref = cur PROVE adopted'.timer
    <3>1. Kept(x)
      BY <1>2, <1>3, <1>9, <2>3, KeptSteps
    <3>2. adopted' = Rearmed(cur)
      BY <1>1, <1>3, <2>2, <2>3, <3>1 DEF Kept, IdleHasSession, Refs
    <3> QED BY <1>2, <2>0, <2>2, <3>2
  <2>4. CASE \A x \in Callers : ~(call[x].pc = "kept" /\ call[x].ref = cur)
    <3>1. ~park.mapped /\ cur # 0
      BY <1>2, <1>3, <2>1 DEF Refs
    <3>2. adopted.timer
      BY <1>3, <2>2, <2>4, <3>1 DEF IdleIsArmed
    <3> QED BY <2>2, <3>2
  <2> QED BY <2>3, <2>4
<1>k. ASSUME ~ParkNext, \A c \in Callers : ~CallNext(c)
      PROVE \A x \in Callers : call[x].pc = "kept" => call'[x] = call[x]
  BY <1>k, KeptSteps DEF CallNext
<1>10. ASSUME ~ParkNext, \A d \in Callers : ~CallNext(d), NEW c \in Callers, ReviverNext(c) PROVE adopted'.timer
  <2>0. UNCHANGED park /\ Reviving(c)
    BY <1>10, ReviverSteps
  <2>1. ASSUME UNCHANGED status, adopted' \in {adopted, DropCold(c, adopted)} PROVE adopted'.timer
    BY <1>4, <1>10, <1>d, <1>k, <2>0, <2>1
  <2>2. ASSUME NEW s, Publish(c, cur, s), status[cur] \in {"parked", "running"} PROVE adopted'.timer
    BY <1>s, <2>0, <2>2, KeepColdType DEF Publish
  <2>3. CASE Probed(c)
    <3>1. CASE UNCHANGED adopted
      BY <2>1, <2>3, <3>1 DEF Probed
    <3>2. CASE call[c].ref = cur
      BY <1>1, <1>2, <1>3, <2>3, <3>2 DEF Probed, NotYetUp
    <3>3. CASE call[c].ref # cur
      <4>1. ASSUME NEW ttl, NEW d
            PROVE /\ [ref |-> call[c].ref, ttl |-> ttl, revive |-> TRUE, timer |-> FALSE, by |-> NoCaller].ref
                     = call[c].ref
                  /\ [[ref |-> call[c].ref, ttl |-> ttl, revive |-> TRUE, timer |-> FALSE, by |-> NoCaller]
                       EXCEPT !.by = d].ref = call[c].ref
        OBVIOUS
      <4>2. adopted'.ref = call[c].ref \/ UNCHANGED adopted
        BY <2>3, <4>1 DEF Probed
      <4> QED BY <1>2, <1>3, <3>1, <3>3, <4>2
    <3> QED BY <3>2, <3>3
  <2>4. ~ReviverAttaches(c)
    BY <1>1, <1>2, <1>3 DEF ReviverAttaches
  <2>5. CASE ReviverReturns(c) \/ ReviverReturnsDetached(c)
    BY <2>1, <2>2, <2>5 DEF ReviverReturns, ReviverReturnsDetached, StillOurs
  <2>6. CASE DiscardEnds(c)
    BY <1>u, <2>1, <2>6 DEF DiscardEnds, EndDispose
  <2> QED BY <1>10, <2>1, <2>3, <2>4, <2>5, <2>6
     DEF ReviverNext, ReviverClaims, ReviverFails, ReviverUnwinds, ReviverFailsLate, Fail
<1>11. ASSUME ~ParkNext, \A c \in Callers : ~CallNext(c), ReleaseOp \/ \E k \in Releasers : ReleaseStep(k)
       PROVE adopted'.timer
  <2>1. ASSUME NEW k, NEW r, NEW t, NEW a, Strike(k, r, t, a) PROVE status'[cur] = status[cur]
    BY <1>1, <1>2, <1>3, <2>1 DEF Strike
  <2>2. CASE ReleaseOp
    <3>1. adopted' \in {adopted, NoAdoption} /\ UNCHANGED cur
          /\ (UNCHANGED status \/ \E k, r, t, a : Strike(k, r, t, a))
      BY <2>2 DEF ReleaseOp, Release, Strike
    <3>2. adopted' = adopted
      BY <1>2, <1>3, <3>1 DEF NoAdoption, Refs
    <3>3. park'.mapped = park.mapped
      BY <2>2 DEF ReleaseOp, Release, Parks
    <3> QED BY <1>4, <1>11, <1>k, <2>1, <3>1, <3>2, <3>3
  <2>3. ASSUME NEW k \in Releasers, ReleaseStep(k) PROVE adopted'.timer
    <3>1. UNCHANGED park
      BY <2>3 DEF ReleaseStep, ReleaseStrikes, ReleaseDisposed, ReleaseEnds, TombstonePersisted
    <3>2. adopted' = adopted
      BY <1>u, <2>3 DEF ReleaseStep, ReleaseStrikes, Strike, ReleaseDisposed, EndDispose, ReleaseEnds, TombstonePersisted
    <3>3. status'[cur] = status[cur]
      BY <2>1, <2>3 DEF ReleaseStep, ReleaseStrikes, ReleaseDisposed, ReleaseEnds, TombstonePersisted
    <3> QED BY <1>4, <1>11, <1>k, <3>1, <3>2, <3>3
  <2> QED BY <1>11, <2>2, <2>3
<1>12. CASE UNCHANGED vars
  BY <1>4, <1>12 DEF vars, callVars
<1> QED BY <1>2, <1>5, <1>6, <1>7, <1>8, <1>9, <1>10, <1>11, <1>12, Steps DEF RevivalInv, Idles, DisposeBegins, DisposeEnds

-----------------------------------------------------------------------------
(* The theorems *)

\* The invariant holds initially, and every step keeps it.
LEMMA InitKills == Init => KillInv
<1>1. ASSUME Init PROVE KillInv
  <2>1. RoutedInv
    BY <1>1, InitRevivals, InitSessions, InitControl DEF RoutedInv
  <2>2. KillsRelease /\ ReleaseLive /\ ParkHolds
    BY <1>1 DEF Init, KillsRelease, ReleaseLive, ParkHolds, NoRelease, NoPark
  <2>3. SessionRefs
    BY <1>1 DEF Init, SessionRefs
  <2>4. IdleHasSession
    <3>1. cur # 0 => status[cur] = "parked"
      BY <1>1, <2>1, Facts DEF RoutedInv, Init
    <3> QED BY <3>1 DEF IdleHasSession
  <2>5. SpawnOrphaned /\ FailingAlone /\ Held
    BY <1>1 DEF Init, SpawnOrphaned, FailingAlone, Held, NotCalling, NoSpawn
  <2>6. NoSessionIsLost /\ Cancelled
    BY <1>1 DEF Init, NoSessionIsLost, Cancelled, NoPark
  <2>7. IdleIsArmed
    BY <1>1 DEF Init, IdleIsArmed, NoAdoption
  <2> QED BY <2>1, <2>2, <2>3, <2>4, <2>5, <2>6, <2>7 DEF KillInv, LiveFacts
<1> QED BY <1>1

LEMMA NextKills ==
  ASSUME ~SlowRemoval, Kills, KillInv, [Next]_vars PROVE KillInv'
<1> USE DEF KillInv
<1>1. RoutedInv'
  BY NextKeepsRevivals, NextSessions, NextControl DEF RoutedInv, RevivalInv
<1>2. LiveFacts'
  BY NextKillsRelease, NextReleaseLive, NextSessionRefs, NextIdleHasSession DEF LiveFacts
<1>3. SpawnOrphaned' /\ FailingAlone' /\ ParkHolds' /\ NoSessionIsLost'
  BY NextSpawnOrphaned, NextFailingAlone, NextParkHolds, NextNoSessionIsLost DEF LiveFacts
<1>4. Held'
  BY <1>1, NextHeld DEF RoutedInv
<1>5. Cancelled' /\ IdleIsArmed'
  BY NextCancelled, NextIdleIsArmed
<1> QED BY <1>1, <1>2, <1>3, <1>4, <1>5

\* Every session that is open can be reached to be disposed, as long as the
\* manager is up: through the registry, by the executor that runs it, by the
\* revival that holds it or by the kill that took it, in every interleaving of
\* spawns, turns, parks, revivals that fail early or late, reopens and kills.
THEOREM NoneIsLost ==
  ASSUME ~SlowRemoval, Kills
  PROVE  Spec => []NoSessionIsLost
<1>1. KillInv /\ [Next]_vars => KillInv'
  BY NextKills
<1>2. KillInv => NoSessionIsLost
  BY DEF KillInv
<1> QED BY <1>1, <1>2, InitKills, PTL DEF Spec

\* An adopted idle agent with a TTL has its timer armed, unless a park is in
\* flight or a call that cancelled one is about to re-arm it, in every
\* interleaving of turns, timers, parks, ensureLive calls, revivals and kills.
THEOREM IdleAgentIsArmed ==
  ASSUME ~SlowRemoval, Kills
  PROVE  Spec => []IdleIsArmed
<1>1. KillInv /\ [Next]_vars => KillInv'
  BY NextKills
<1>2. KillInv => IdleIsArmed
  BY DEF KillInv
<1> QED BY <1>1, <1>2, InitKills, PTL DEF Spec

\* ensureLive returns the session the registry routes messages to at the moment
\* it returns, to the call that revived it and to every call that joined, where
\* no reviver throws after its session is attached.
THEOREM ReturnsRouted ==
  ASSUME ~SlowRemoval, ~LateFailures, Kills
  PROVE  Spec => ReturnsRoutedSession
<1> DEFINE Inv == KillInv /\ NoLateFailing /\ ReopenedStands
<1>1. Init => Inv
  BY InitKills DEF Init, NoLateFailing, ReopenedStands, Reopens, NotCalling
<1>2. Inv /\ [Next]_vars => Inv'
  BY NextKills, NextNoLateFailing, NextReopenedStands DEF KillInv, RoutedInv
<1>3. ASSUME Inv, [Next]_vars
      PROVE [\A c \in Callers :
               mgr = "up" /\ got[c] = 0 /\ got'[c] # 0 => cur' # 0 /\ sess'[cur'] = got'[c]]_vars
  BY <1>3, StepReturnsRouted DEF KillInv
<1> QED BY <1>1, <1>2, <1>3, PTL DEF Spec, ReturnsRoutedSession
=============================================================================
