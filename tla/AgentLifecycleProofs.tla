------------------------ MODULE AgentLifecycleProofs ------------------------
(***************************************************************************)
(* What is proved of AgentLifecycle for every number of callers, killers,  *)
(* generations and sessions: the types, the terminal kill, and, while no   *)
(* further generation is registered before a reopen has removed the        *)
(* tombstone (~SlowRemoval), that revivals coalesce; lifecycle_coalesce    *)
(* shows what happens otherwise.                                           *)
(***************************************************************************)
EXTENDS AgentLifecycle, TLAPS

\* The id belongs to a generation that exists, and a generation that does not
\* exist yet has its initial row, so registering it attaches no session.
Generations ==
  /\ cur <= nrefs
  /\ \A r \in Refs : r > nrefs => status[r] = "parked"

\* An operation that dereferences the generation it captured has captured one.
CapturedRefs ==
  /\ \A c \in Callers :
       call[c].pc \in {"reopenProbe", "dropTombstone", "reopened"} => call[c].ref # 0
  /\ \A k \in Releasers : rel[k].pc \in {"parkWait", "strike"} => rel[k].ref # 0

LifecycleInv == TypeOK /\ RetainedIsDetached /\ Generations /\ CapturedRefs

-----------------------------------------------------------------------------
(* The records the operations build are records of their kinds. *)

LEMMA NoneTypes ==
  /\ NoAdoption \in Adoptions /\ NoPark \in Parks /\ NotCalling \in Calls
  /\ NoRelease \in Releases /\ NoSpawn \in Spawns
<1> USE LifecycleAssumption
<1>1. NoAdoption \in Adoptions BY DEF NoAdoption, Adoptions
<1>2. NoPark \in Parks BY DEF NoPark, Parks
<1>3. NotCalling \in Calls BY DEF NotCalling, Calls, CallPcs
<1>4. NoRelease \in Releases BY DEF NoRelease, Releases
<1>5. NoSpawn \in Spawns BY DEF NoSpawn, Spawns
<1> QED BY <1>1, <1>2, <1>3, <1>4, <1>5

LEMMA OnStatusType ==
  ASSUME NEW a \in Adoptions, NEW r, NEW st PROVE OnStatus(a, r, st) \in Adoptions
<1>1. [a EXCEPT !.timer = FALSE] \in Adoptions BY DEF Adoptions
<1>2. [a EXCEPT !.timer = a.ttl] \in Adoptions BY DEF Adoptions
<1> QED BY <1>1, <1>2 DEF OnStatus

LEMMA UnregisterType ==
  ASSUME NEW a \in Adoptions, NEW r, Unregister(r, a)
  PROVE adopted' \in Adoptions /\ cur' \in {0, cur}
BY NoneTypes DEF Unregister, OnRemoved

LEMMA UnregisterUnlessParkedType ==
  ASSUME NEW a \in Adoptions, NEW r, UnregisterUnlessParked(r, a)
  PROVE adopted' \in Adoptions /\ cur' \in {0, cur}
BY UnregisterType DEF UnregisterUnlessParked

LEMMA DropColdType ==
  ASSUME NEW a \in Adoptions, NEW c PROVE DropCold(c, a) \in Adoptions
BY NoneTypes DEF DropCold

LEMMA KeepColdType ==
  ASSUME NEW a \in Adoptions, NEW c PROVE KeepCold(c, a) \in Adoptions
<1>1. [a EXCEPT !.by = NoCaller] \in Adoptions BY DEF Adoptions
<1> QED BY <1>1 DEF KeepCold

LEMMA BeginDisposeType ==
  ASSUME NEW s, sstate \in [Sessions -> {"none", "open", "closing", "closed"}],
         BeginDispose(s)
  PROVE sstate' \in [Sessions -> {"none", "open", "closing", "closed"}]
BY DEF BeginDispose

LEMMA SessionUpdateType ==
  ASSUME sess \in [Refs -> 0 .. MaxSession], NEW r, NEW s \in 0 .. MaxSession
  PROVE [sess EXCEPT ![r] = s] \in [Refs -> 0 .. MaxSession]
OBVIOUS

LEMMA InitInv == Init => LifecycleInv
<1> SUFFICES ASSUME Init PROVE LifecycleInv
  OBVIOUS
<1> USE LifecycleAssumption DEF Init
<1>1. TypeOK
  <2>1. cur \in 0 .. MaxRef /\ nrefs \in 0 .. MaxRef
    OBVIOUS
  <2>2. file \in [Refs -> BOOLEAN]
    OBVIOUS
  <2>3. status \in [Refs -> Statuses] /\ sess \in [Refs -> 0 .. MaxSession]
    BY DEF Statuses
  <2>4. /\ nsess \in 0 .. MaxSession
        /\ sstate \in [Sessions -> {"none", "open", "closing", "closed"}]
        /\ sref \in [Sessions -> 0 .. MaxRef]
    OBVIOUS
  <2> QED BY <2>1, <2>2, <2>3, <2>4, NoneTypes DEF TypeOK
<1>2. RetainedIsDetached /\ Generations
  BY DEF RetainedIsDetached, Generations, Refs
<1>3. CapturedRefs
  BY DEF CapturedRefs, NotCalling, NoRelease
<1> QED BY <1>1, <1>2, <1>3 DEF LifecycleInv
-----------------------------------------------------------------------------
(* The steps of the executor *)

\* A fresh generation has no session, whatever its status.
LEMMA RegisterInv ==
  ASSUME LifecycleInv, NEW st \in Statuses, NEW hasFile \in BOOLEAN, Register(st, hasFile)
  PROVE /\ cur' \in 0 .. MaxRef /\ nrefs' \in 0 .. MaxRef
        /\ status' \in [Refs -> Statuses] /\ sess' \in [Refs -> 0 .. MaxSession]
        /\ file' \in [Refs -> BOOLEAN]
        /\ RetainedIsDetached' /\ Generations'
<1> USE LifecycleAssumption DEF LifecycleInv, TypeOK, Register
<1>1. cur' \in 0 .. MaxRef /\ nrefs' \in 0 .. MaxRef
  OBVIOUS
<1>2. /\ status' \in [Refs -> Statuses] /\ sess' \in [Refs -> 0 .. MaxSession]
      /\ file' \in [Refs -> BOOLEAN]
  OBVIOUS
<1>3. sess[nrefs + 1] = 0
  BY DEF Generations, RetainedIsDetached, Refs
<1>4. RetainedIsDetached'
  BY <1>3 DEF RetainedIsDetached, Refs
<1>5. Generations'
  BY DEF Generations, Refs
<1> QED BY <1>1, <1>2, <1>4, <1>5

LEMMA SpawnNextInv == LifecycleInv /\ SpawnNext => LifecycleInv'
<1> SUFFICES ASSUME LifecycleInv, SpawnNext PROVE LifecycleInv'
  OBVIOUS
<1> USE LifecycleAssumption
        DEF LifecycleInv, TypeOK, registryVars, sessionVars, callVars, managerVars
<1>0. ASSUME UNCHANGED <<call, rel>> PROVE CapturedRefs'
  BY <1>0 DEF CapturedRefs
<1>1. ASSUME SpawnRegisters PROVE LifecycleInv'
  <2>1. spawn' \in Spawns
    BY <1>1 DEF SpawnRegisters, Register, Spawns
  <2> QED BY <1>0, <1>1, <2>1, RegisterInv DEF SpawnRegisters, Statuses
<1>2. CASE SpawnStart
  <2>1. ASSUME spawn' = [pc |-> "probe", ref |-> cur, s |-> 0] PROVE spawn' \in Spawns
    BY <2>1 DEF Spawns
  <2> QED BY <1>0, <1>1, <1>2, <2>1 DEF SpawnStart, RetainedIsDetached, Generations
<1>3. CASE SpawnProbed
  BY <1>0, <1>1, <1>3, NoneTypes DEF SpawnProbed, RetainedIsDetached, Generations
<1>4. CASE SpawnAttach
  <2> USE <1>4 DEF SpawnAttach, Create
  <2>1. spawn' \in Spawns
    BY DEF Spawns
  <2>2. adopted' \in Adoptions
    BY OnStatusType
  <2>3. status' \in [Refs -> Statuses]
    BY DEF Statuses
  <2>4. nsess' \in 0 .. MaxSession /\ sess' \in [Refs -> 0 .. MaxSession]
    <3>1. nsess + 1 \in 0 .. MaxSession
      OBVIOUS
    <3> QED BY <3>1, SessionUpdateType
  <2>5. /\ sstate' \in [Sessions -> {"none", "open", "closing", "closed"}]
        /\ sref' \in [Sessions -> 0 .. MaxRef]
    BY DEF Spawns
  <2>6. RetainedIsDetached' /\ Generations'
    BY DEF RetainedIsDetached, Generations, Refs, Statuses
  <2> QED BY <1>0, <2>1, <2>2, <2>3, <2>4, <2>5, <2>6
<1>5. CASE SpawnFail
  BY <1>0, <1>5, NoneTypes, UnregisterUnlessParkedType
     DEF SpawnFail, RetainedIsDetached, Generations
<1>6. ASSUME NEW ttl \in BOOLEAN, NEW revive \in BOOLEAN, FinalizeKeepAlive(ttl, revive)
      PROVE LifecycleInv'
  <2> USE <1>6 DEF FinalizeKeepAlive, OwnsRef
  <2>1. adopted' \in Adoptions
    BY DEF Adoptions
  <2>2. status' \in [Refs -> Statuses]
    BY DEF Statuses
  <2>3. RetainedIsDetached' /\ Generations'
    BY DEF RetainedIsDetached, Generations, Refs, Statuses
  <2> QED BY <1>0, <2>1, <2>2, <2>3, NoneTypes
<1>7. CASE FinalizeDispose
  <2> USE <1>7 DEF FinalizeDispose
  <2>1. spawn' \in Spawns
    <3>1. (IF OwnsRef THEN cur ELSE 0) \in 0 .. MaxRef
      OBVIOUS
    <3> QED BY <3>1 DEF Spawns
  <2> QED BY <1>0, <2>1, BeginDisposeType DEF RetainedIsDetached, Generations
<1>8. CASE FinalizeDisposed
  <2> USE <1>8 DEF FinalizeDisposed
  <2>1. adopted' \in Adoptions /\ cur' \in {0, cur}
    BY UnregisterType, UnregisterUnlessParkedType DEF EndDispose
  <2>2. sstate' \in [Sessions -> {"none", "open", "closing", "closed"}]
    BY DEF EndDispose
  <2> QED BY <1>0, <2>1, <2>2, NoneTypes DEF RetainedIsDetached, Generations
<1> QED BY <1>2, <1>3, <1>4, <1>5, <1>6, <1>7, <1>8 DEF SpawnNext
-----------------------------------------------------------------------------
(* Turns, the TTL timer and parks *)

LEMMA WakeTypes ==
  ASSUME LifecycleInv
  PROVE /\ WakeCalls \in [Callers -> Calls] /\ WakeReleases \in [Releasers -> Releases]
        /\ (call' = WakeCalls /\ rel' = WakeReleases) => CapturedRefs'
<1> USE DEF LifecycleInv, TypeOK
<1>1. ASSUME NEW c \in Callers, NEW pc \in {"kept", "resume"}
      PROVE [call[c] EXCEPT !.pc = pc] \in Calls
  BY DEF Calls, CallPcs
<1>2. WakeCalls \in [Callers -> Calls]
  BY <1>1 DEF WakeCalls
<1>3. ASSUME NEW k \in Releasers PROVE [rel[k] EXCEPT !.pc = "strike"] \in Releases
  BY DEF Releases
<1>4. WakeReleases \in [Releasers -> Releases]
  BY <1>3 DEF WakeReleases
<1>5. ASSUME call' = WakeCalls, rel' = WakeReleases PROVE CapturedRefs'
  <2>1. ASSUME NEW c \in Callers,
               call'[c].pc \in {"reopenProbe", "dropTombstone", "reopened"}
        PROVE call'[c].ref # 0
    BY <1>5, <2>1 DEF WakeCalls, CapturedRefs, Calls
  <2>2. ASSUME NEW k \in Releasers, rel'[k].pc \in {"parkWait", "strike"}
        PROVE rel'[k].ref # 0
    BY <1>5, <2>2 DEF WakeReleases, CapturedRefs, Releases
  <2> QED BY <2>1, <2>2 DEF CapturedRefs
<1> QED BY <1>2, <1>4, <1>5

LEMMA ParkNextInv ==
  LifecycleInv /\ (TimerFires \/ ParkNext \/ \E st \in {"running", "idle"} : RunState(st))
  => LifecycleInv'
<1> SUFFICES ASSUME LifecycleInv,
                    TimerFires \/ ParkNext \/ \E st \in {"running", "idle"} : RunState(st)
             PROVE LifecycleInv'
  OBVIOUS
<1> USE LifecycleAssumption
        DEF LifecycleInv, TypeOK, registryVars, sessionVars, callVars, managerVars
<1>0. ASSUME UNCHANGED <<call, rel>> PROVE CapturedRefs'
  BY <1>0 DEF CapturedRefs
<1>1. ASSUME NEW st \in {"running", "idle"}, RunState(st) PROVE LifecycleInv'
  <2> USE <1>1 DEF RunState
  <2>1. status' \in [Refs -> Statuses]
    BY DEF Statuses
  <2>2. RetainedIsDetached' /\ Generations'
    BY DEF RetainedIsDetached, Generations, Refs, Statuses
  <2> QED BY <1>0, <2>1, <2>2, OnStatusType
<1>2. CASE TimerFires
  <2> USE <1>2 DEF TimerFires
  <2>1. adopted' \in Adoptions
    BY DEF Adoptions
  <2>2. park' \in Parks
    <3>1. cur # 0 => sess[cur] \in 0 .. MaxSession
      BY DEF Refs
    <3> QED BY <3>1 DEF Parks
  <2> QED BY <1>0, <2>1, <2>2 DEF RetainedIsDetached, Generations
<1>3. CASE ParkAborts
  BY <1>3, WakeTypes, NoneTypes DEF ParkAborts, RetainedIsDetached, Generations
<1>4. CASE ParkCommits
  <2> USE <1>4 DEF ParkCommits
  <2>1. park' \in Parks
    BY DEF Parks
  <2>2. status' \in [Refs -> Statuses]
    BY DEF Statuses
  <2>3. sess' \in [Refs -> 0 .. MaxSession]
    BY SessionUpdateType
  <2>4. RetainedIsDetached' /\ Generations'
    BY DEF RetainedIsDetached, Generations, ParkStops
  <2> QED BY <1>0, <2>1, <2>2, <2>3, <2>4, BeginDisposeType
<1>5. CASE ParkEnds
  <2> USE <1>5 DEF ParkEnds
  <2>1. adopted' \in Adoptions /\ cur' \in {0, cur}
    BY UnregisterUnlessParkedType DEF EndDispose
  <2>2. sstate' \in [Sessions -> {"none", "open", "closing", "closed"}]
    BY DEF EndDispose
  <2> QED BY <2>1, <2>2, WakeTypes, NoneTypes DEF RetainedIsDetached, Generations
<1> QED BY <1>1, <1>2, <1>3, <1>4, <1>5 DEF ParkNext
-----------------------------------------------------------------------------
(* ensureLive *)

LEMMA SettleSharedInv ==
  ASSUME LifecycleInv, NEW c \in Callers, NEW pc, NEW s \in 0 .. MaxSession,
         SettleShared(c, pc, s), UNCHANGED rel
  PROVE call' \in [Callers -> Calls] /\ got' \in [Callers -> 0 .. MaxSession] /\ CapturedRefs'
<1> USE DEF LifecycleInv, TypeOK, SettleShared
<1>1. call' \in [Callers -> Calls] /\ got' \in [Callers -> 0 .. MaxSession]
  BY NoneTypes
<1>2. \A x \in Callers : call'[x] = call[x] \/ call'[x].pc = "idle"
  BY DEF NotCalling
<1> QED BY <1>1, <1>2 DEF CapturedRefs

LEMMA SettleInv ==
  ASSUME LifecycleInv, NEW c \in Callers, NEW s \in 0 .. MaxSession,
         Settle(c, s), UNCHANGED rel
  PROVE /\ call' \in [Callers -> Calls] /\ got' \in [Callers -> 0 .. MaxSession]
        /\ CapturedRefs' /\ revival' \in Callers \cup {NoCaller}
BY SettleSharedInv DEF Settle, LifecycleInv, TypeOK

\* A call that goes to an await with the generation it holds.
LEMMA CallMovesInv ==
  ASSUME LifecycleInv, NEW c \in Callers, NEW v \in Calls,
         v.pc \in {"reopenProbe", "dropTombstone", "reopened"} => v.ref # 0,
         call' = [call EXCEPT ![c] = v], UNCHANGED rel
  PROVE call' \in [Callers -> Calls] /\ CapturedRefs'
BY DEF LifecycleInv, TypeOK, CapturedRefs

LEMMA ReturnInv ==
  ASSUME LifecycleInv, NEW c \in Callers, NEW s \in 0 .. MaxSession,
         Return(c, s), UNCHANGED rel
  PROVE /\ call' \in [Callers -> Calls] /\ got' \in [Callers -> 0 .. MaxSession]
        /\ CapturedRefs'
<1>1. NotCalling.pc \notin {"reopenProbe", "dropTombstone", "reopened"}
  BY DEF NotCalling
<1> QED BY <1>1, CallMovesInv, NoneTypes DEF Return, LifecycleInv, TypeOK

LEMMA AtInv ==
  ASSUME LifecycleInv, NEW c \in Callers, NEW pc \in CallPcs, NEW r \in 0 .. MaxRef,
         pc \in {"reopenProbe", "dropTombstone", "reopened"} => r # 0,
         At(c, pc, r), UNCHANGED rel
  PROVE call' \in [Callers -> Calls] /\ CapturedRefs'
<1>1. [NotCalling EXCEPT !.pc = pc, !.ref = r] \in Calls
  BY NoneTypes DEF Calls
<1>2. /\ [NotCalling EXCEPT !.pc = pc, !.ref = r].pc = pc
      /\ [NotCalling EXCEPT !.pc = pc, !.ref = r].ref = r
  BY DEF NotCalling
<1> QED BY <1>1, <1>2, CallMovesInv DEF At

LEMMA JoinInv ==
  ASSUME LifecycleInv, NEW c \in Callers, NEW d \in Callers,
         NEW pc \in {"reviveJoin", "reopenJoin"}, Join(c, pc, d), UNCHANGED rel
  PROVE call' \in [Callers -> Calls] /\ CapturedRefs'
<1> DEFINE v == [NotCalling EXCEPT !.pc = pc, !.ref = call[d].ref, !.on = d]
<1>1. v \in Calls
  BY NoneTypes DEF Calls, CallPcs, LifecycleInv, TypeOK
<1>2. v.pc = pc
  BY DEF NotCalling
<1> QED BY <1>1, <1>2, CallMovesInv DEF Join

LEMMA ProceedLiveInv ==
  ASSUME LifecycleInv, NEW c \in Callers, NEW r \in Refs, ProceedLive(c, r), UNCHANGED rel
  PROVE /\ call' \in [Callers -> Calls] /\ got' \in [Callers -> 0 .. MaxSession]
        /\ revival' \in Callers \cup {NoCaller} /\ CapturedRefs'
<1> USE DEF LifecycleInv, TypeOK
<1>1. CASE RevivalOf(r) /\ Join(c, "reviveJoin", revival) /\ UNCHANGED <<got, revival>>
  BY <1>1, JoinInv DEF RevivalOf
<1>2. CASE Return(c, sess[r]) /\ UNCHANGED revival
  BY <1>2, ReturnInv
<1>3. ASSUME NEW pc \in {"claim", "probe"}, At(c, pc, r), revival' = c, UNCHANGED got
      PROVE /\ call' \in [Callers -> Calls] /\ got' \in [Callers -> 0 .. MaxSession]
            /\ revival' \in Callers \cup {NoCaller} /\ CapturedRefs'
  BY <1>3, AtInv DEF CallPcs, Refs
<1>4. CASE Return(c, 0) /\ revival' = NoCaller
  BY <1>4, ReturnInv, LifecycleAssumption
<1> QED BY <1>1, <1>2, <1>3, <1>4 DEF ProceedLive

LEMMA ProceedInv ==
  ASSUME LifecycleInv, NEW c \in Callers, Proceed(c), UNCHANGED rel
  PROVE /\ call' \in [Callers -> Calls] /\ got' \in [Callers -> 0 .. MaxSession]
        /\ revival' \in Callers \cup {NoCaller} /\ reopening' \in Callers \cup {NoCaller}
        /\ CapturedRefs'
<1> USE LifecycleAssumption DEF LifecycleInv, TypeOK
<1>1. CASE cur = 0 /\ Return(c, 0) /\ UNCHANGED <<revival, reopening>>
  BY <1>1, ReturnInv
<1>2. CASE cur # 0 /\ ProceedLive(c, cur)
  BY <1>2, ProceedLiveInv DEF Refs, ProceedLive
<1>3. CASE /\ cur # 0 /\ UNCHANGED revival /\ ReopenOf(cur)
           /\ Join(c, "reopenJoin", reopening) /\ UNCHANGED <<got, reopening>>
  BY <1>3, JoinInv DEF ReopenOf
<1>4. CASE /\ cur # 0 /\ UNCHANGED revival
           /\ At(c, "reopenProbe", cur) /\ reopening' = c /\ UNCHANGED got
  BY <1>4, AtInv DEF CallPcs
<1>5. CASE cur # 0 /\ UNCHANGED revival /\ Return(c, 0) /\ reopening' = NoCaller
  BY <1>5, ReturnInv
<1> QED BY <1>1, <1>2, <1>3, <1>4, <1>5 DEF Proceed

\* A step of ensureLive that leaves the registry rows as they are.
LEMMA RowsUnchanged ==
  ASSUME LifecycleInv, UNCHANGED <<nrefs, status, sess>>, cur' \in {0, cur}
  PROVE RetainedIsDetached' /\ Generations' /\ cur' \in 0 .. MaxRef
<1>1. cur' \in 0 .. MaxRef /\ cur' <= nrefs'
  BY LifecycleAssumption DEF LifecycleInv, TypeOK, Generations
<1> QED BY <1>1 DEF LifecycleInv, RetainedIsDetached, Generations

LEMMA CallNextInv ==
  ASSUME LifecycleInv, NEW c \in Callers,
         \/ EnsureLive(c) \/ Kept(c) \/ Resume(c) \/ Forget(c)
         \/ ReopenProbed(c) \/ DropTombstone(c) \/ Reopened(c)
  PROVE LifecycleInv'
<1> USE LifecycleAssumption
        DEF LifecycleInv, TypeOK, registryVars, sessionVars, callVars, managerVars
<1>1. CASE EnsureLive(c)
  <2> USE <1>1 DEF EnsureLive
  <2>1. CASE ~park.mapped
    BY <2>1, ProceedInv, RowsUnchanged
  <2>2. CASE park.mapped
    <3>1. park' \in Parks
      BY <2>2 DEF Parks
    <3>2. call' \in [Callers -> Calls] /\ CapturedRefs'
      BY <2>2, AtInv DEF CallPcs
    <3> QED BY <2>2, <3>1, <3>2, RowsUnchanged
  <2> QED BY <2>1, <2>2
<1>2. CASE Kept(c)
  <2> USE <1>2 DEF Kept
  <2>1. CASE cur # 0 /\ sess[cur] # 0
    <3>1. adopted' \in Adoptions
      BY <2>1 DEF Rearmed, Adoptions
    <3>2. sess[cur] \in 0 .. MaxSession
      BY <2>1 DEF Refs
    <3> QED BY <2>1, <3>1, <3>2, ReturnInv, RowsUnchanged
  <2>2. CASE ~(cur # 0 /\ sess[cur] # 0)
    BY <2>2, ProceedInv, RowsUnchanged
  <2> QED BY <2>1, <2>2
<1>3. CASE Resume(c)
  BY <1>3, ProceedInv, RowsUnchanged DEF Resume
<1>4. CASE Forget(c)
  BY <1>4, RowsUnchanged DEF Forget, CapturedRefs
<1>5. CASE ReopenProbed(c)
  <2> DEFINE killed == call[c].ref
  <2>1. killed \in Refs
    BY <1>5 DEF ReopenProbed, CapturedRefs, Calls, Refs
  <2>2. CASE /\ Register("parked", file[killed])
             /\ call' = [call EXCEPT ![c].pc = "dropTombstone", ![c].ref = nrefs + 1]
             /\ UNCHANGED <<got, reopening>>
    <3> DEFINE v == [call[c] EXCEPT !.pc = "dropTombstone", !.ref = nrefs + 1]
    <3>1. nrefs + 1 \in 0 .. MaxRef /\ nrefs + 1 # 0
      BY <2>2 DEF Register
    <3>2. v \in Calls /\ v.ref # 0
      BY <3>1 DEF Calls, CallPcs
    <3>3. call' = [call EXCEPT ![c] = v] /\ UNCHANGED rel
      BY <1>5, <2>2 DEF ReopenProbed
    <3>4. call' \in [Callers -> Calls] /\ CapturedRefs'
      BY <3>2, <3>3, CallMovesInv
    <3> QED BY <1>5, <2>1, <2>2, <3>4, RegisterInv DEF ReopenProbed, Statuses
  <2>3. CASE /\ SettleShared(c, "reopenJoin", 0)
             /\ reopening' = IF reopening = c THEN NoCaller ELSE reopening
             /\ UNCHANGED registryVars
    BY <1>5, <2>3, SettleSharedInv, RowsUnchanged DEF ReopenProbed
  <2> QED BY <1>5, <2>2, <2>3 DEF ReopenProbed
<1>6. CASE DropTombstone(c)
  <2> USE <1>6 DEF DropTombstone
  <2> DEFINE v == [NotCalling EXCEPT !.pc = "reopened", !.ref = call[c].ref]
  <2>1. v \in Calls /\ v.ref # 0
    BY NoneTypes DEF NotCalling, Calls, CallPcs, CapturedRefs
  <2>2. call' \in [Callers -> Calls]
    BY <2>1
  <2>3. CapturedRefs'
    BY <2>1 DEF CapturedRefs
  <2> QED BY <2>2, <2>3, RowsUnchanged
<1>7. CASE Reopened(c)
  <2>1. call[c].ref \in Refs
    BY <1>7 DEF Reopened, CapturedRefs, Calls, Refs
  <2> QED BY <1>7, <2>1, ProceedLiveInv, RowsUnchanged DEF Reopened, ProceedLive
<1> QED BY <1>1, <1>2, <1>3, <1>4, <1>5, <1>6, <1>7
-----------------------------------------------------------------------------
(* Revivals *)

LEMMA SessionsType ==
  ASSUME LifecycleInv, nsess < MaxSession
  PROVE nsess + 1 \in 0 .. MaxSession /\ nsess + 1 \in Sessions
BY LifecycleAssumption DEF LifecycleInv, TypeOK, Sessions

\* Only a reference that is idle afterwards is published with a session.
LEMMA PublishInv ==
  ASSUME LifecycleInv, NEW c \in Callers, NEW r \in 0 .. MaxRef, NEW s \in 0 .. MaxSession,
         cur = r, Publish(c, r, s), UNCHANGED <<cur, nrefs, rel>>
  PROVE /\ status' \in [Refs -> Statuses] /\ sess' \in [Refs -> 0 .. MaxSession]
        /\ adopted' \in Adoptions /\ call' \in [Callers -> Calls]
        /\ got' \in [Callers -> 0 .. MaxSession] /\ revival' \in Callers \cup {NoCaller}
        /\ RetainedIsDetached' /\ Generations' /\ CapturedRefs'
<1> USE DEF LifecycleInv, TypeOK, Publish
<1>1. status' \in [Refs -> Statuses]
  BY DEF Statuses
<1>2. sess' \in [Refs -> 0 .. MaxSession]
  BY SessionUpdateType
<1>3. adopted' \in Adoptions
  BY OnStatusType, KeepColdType
<1>4. RetainedIsDetached' /\ Generations'
  BY LifecycleAssumption DEF RetainedIsDetached, Generations, Refs
<1> QED BY <1>1, <1>2, <1>3, <1>4, SettleInv

LEMMA FailInv ==
  ASSUME LifecycleInv, NEW c \in Callers, Fail(c), UNCHANGED rel
  PROVE /\ call' \in [Callers -> Calls] /\ got' \in [Callers -> 0 .. MaxSession]
        /\ CapturedRefs' /\ revival' \in Callers \cup {NoCaller} /\ adopted' \in Adoptions
BY LifecycleAssumption, SettleInv, DropColdType DEF Fail, LifecycleInv, TypeOK

LEMMA ReviveNextInv ==
  ASSUME LifecycleInv, NEW c \in Callers,
         \/ Probed(c) \/ ReviverClaims(c) \/ ReviverAttaches(c) \/ ReviverFails(c)
         \/ ReviverUnwinds(c) \/ ReviverFailsLate(c) \/ ReviverReturns(c)
         \/ ReviverReturnsDetached(c) \/ DiscardEnds(c)
  PROVE LifecycleInv'
<1> USE LifecycleAssumption
        DEF LifecycleInv, TypeOK, registryVars, sessionVars, callVars, managerVars
<1>0. ASSUME NEW pc \in {"claim", "build", "attached", "failing", "stale"},
             NEW s \in 0 .. MaxSession
      PROVE /\ [call[c] EXCEPT !.pc = pc] \in Calls
            /\ [call[c] EXCEPT !.pc = pc, !.s = s] \in Calls
            /\ [call[c] EXCEPT !.pc = pc].pc = pc
            /\ [call[c] EXCEPT !.pc = pc, !.s = s].pc = pc
  BY DEF Calls, CallPcs
<1>a. call[c].s \in 0 .. MaxSession /\ call[c].ref \in 0 .. MaxRef
  BY DEF Calls
<1>1. CASE Probed(c)
  <2> USE <1>1 DEF Probed
  <2>1. CASE Settle(c, 0) /\ UNCHANGED adopted
    BY <2>1, SettleInv, RowsUnchanged
  <2>2. ASSUME NEW ttl \in BOOLEAN,
               LET cold == [ref |-> call[c].ref, ttl |-> ttl, revive |-> TRUE,
                            timer |-> FALSE, by |-> NoCaller] IN
               IF cur = call[c].ref /\ status[call[c].ref] = "parked"
               THEN /\ adopted' = [cold EXCEPT !.by = c]
                    /\ call' = [call EXCEPT ![c].pc = "claim"]
                    /\ UNCHANGED <<got, revival>>
               ELSE /\ adopted' = cold
                    /\ Settle(c, 0)
        PROVE LifecycleInv'
    <3>1. adopted' \in Adoptions
      <4> DEFINE cold == [ref |-> call[c].ref, ttl |-> ttl, revive |-> TRUE,
                          timer |-> FALSE, by |-> NoCaller]
      <4>1. cold \in Adoptions /\ [cold EXCEPT !.by = c] \in Adoptions
        BY <1>a DEF Adoptions
      <4> QED BY <2>2, <4>1
    <3>2. CASE Settle(c, 0)
      BY <3>1, <3>2, SettleInv, RowsUnchanged
    <3>3. CASE call' = [call EXCEPT ![c].pc = "claim"] /\ UNCHANGED <<got, revival>>
      BY <1>0, <1>a, <3>1, <3>3, CallMovesInv, RowsUnchanged
    <3> QED BY <2>2, <3>2, <3>3
  <2> QED BY <2>1, <2>2
<1>2. CASE ReviverClaims(c)
  BY <1>0, <1>a, <1>2, CallMovesInv, RowsUnchanged DEF ReviverClaims
<1>3. CASE ReviverAttaches(c)
  <2> USE <1>3 DEF ReviverAttaches, Create
  <2>1. nsess + 1 \in 0 .. MaxSession
    BY SessionsType
  <2>2. sess' \in [Refs -> 0 .. MaxSession]
    BY <2>1, SessionUpdateType
  <2>3. status' \in [Refs -> Statuses]
    BY DEF Statuses
  <2>4. adopted' \in Adoptions
    BY OnStatusType
  <2>5. call' \in [Callers -> Calls] /\ CapturedRefs'
    <3>1. call' = [call EXCEPT ![c] = [call[c] EXCEPT !.pc = "attached", !.s = nsess + 1]]
      OBVIOUS
    <3> DEFINE v == [call[c] EXCEPT !.pc = "attached", !.s = nsess + 1]
    <3>2. v \in Calls /\ v.pc = "attached"
      BY <1>0, <2>1
    <3>3. UNCHANGED rel
      OBVIOUS
    <3> QED BY <3>1, <3>2, <3>3, CallMovesInv
  <2>6. /\ sstate' \in [Sessions -> {"none", "open", "closing", "closed"}]
        /\ sref' \in [Sessions -> 0 .. MaxRef]
    BY <1>a
  <2>7. RetainedIsDetached' /\ Generations'
    BY <1>a DEF RetainedIsDetached, Generations, Refs
  <2> QED BY <2>1, <2>2, <2>3, <2>4, <2>5, <2>6, <2>7
<1>4. CASE ReviverFails(c)
  BY <1>4, FailInv, RowsUnchanged DEF ReviverFails
<1>5. CASE ReviverUnwinds(c)
  BY <1>0, <1>a, <1>5, CallMovesInv, BeginDisposeType, RowsUnchanged DEF ReviverUnwinds
<1>6. CASE ReviverFailsLate(c)
  BY <1>6, FailInv, RowsUnchanged DEF ReviverFailsLate
<1>7. CASE ReviverReturns(c)
  <2> USE <1>7 DEF ReviverReturns
  <2>1. CASE StillOurs(call[c].ref, call[c].s) /\ Publish(c, call[c].ref, call[c].s) /\ UNCHANGED sstate
    BY <1>a, <2>1, PublishInv DEF StillOurs
  <2>2. CASE /\ BeginDispose(call[c].s) /\ call' = [call EXCEPT ![c].pc = "stale"]
             /\ UNCHANGED <<sess, status, adopted, got, revival>>
    BY <1>0, <1>a, <2>2, CallMovesInv, BeginDisposeType, RowsUnchanged
  <2> QED BY <2>1, <2>2
<1>8. CASE ReviverReturnsDetached(c)
  <2> USE <1>8 DEF ReviverReturnsDetached
  <2>1. nsess + 1 \in 0 .. MaxSession
    BY SessionsType
  <2>2. /\ sstate' \in [Sessions -> {"none", "open", "closing", "closed"}]
        /\ sref' \in [Sessions -> 0 .. MaxRef]
    BY <1>a
  <2>3. CASE cur = call[c].ref /\ Publish(c, call[c].ref, nsess + 1)
    BY <1>a, <2>1, <2>2, <2>3, PublishInv
  <2>4. CASE /\ call' = [call EXCEPT ![c].pc = "stale", ![c].s = nsess + 1]
             /\ UNCHANGED <<sess, status, adopted, got, revival>>
    <3>1. call' = [call EXCEPT ![c] = [call[c] EXCEPT !.pc = "stale", !.s = nsess + 1]]
      BY <2>4
    <3>2. call' \in [Callers -> Calls] /\ CapturedRefs'
      BY <1>0, <2>1, <3>1, CallMovesInv
    <3> QED BY <2>1, <2>2, <2>4, <3>2, RowsUnchanged
  <2> QED BY <2>3, <2>4
<1>9. CASE DiscardEnds(c)
  <2> USE <1>9 DEF DiscardEnds
  <2>1. adopted' \in Adoptions /\ cur' \in {0, cur}
    BY UnregisterUnlessParkedType, DropColdType DEF EndDispose
  <2>2. sstate' \in [Sessions -> {"none", "open", "closing", "closed"}]
    BY DEF EndDispose
  <2> QED BY <2>1, <2>2, SettleInv, RowsUnchanged
<1> QED BY <1>1, <1>2, <1>3, <1>4, <1>5, <1>6, <1>7, <1>8, <1>9

-----------------------------------------------------------------------------
(* Releases *)

\* A kill detaches the session of the generation it aborts.
LEMMA StrikeInv ==
  ASSUME LifecycleInv, NEW k \in Releasers, NEW r \in Refs, NEW t \in BOOLEAN,
         NEW a \in Adoptions, Strike(k, r, t, a), UNCHANGED <<cur, nrefs, call>>
  PROVE /\ status' \in [Refs -> Statuses] /\ sess' \in [Refs -> 0 .. MaxSession]
        /\ sstate' \in [Sessions -> {"none", "open", "closing", "closed"}]
        /\ rel' \in [Releasers -> Releases] /\ adopted' \in Adoptions
        /\ RetainedIsDetached' /\ Generations' /\ CapturedRefs'
<1> USE LifecycleAssumption DEF LifecycleInv, TypeOK, Strike
<1>1. status' \in [Refs -> Statuses]
  BY DEF Statuses
<1>2. sess' \in [Refs -> 0 .. MaxSession]
  BY SessionUpdateType
<1>3. sstate' \in [Sessions -> {"none", "open", "closing", "closed"}]
  BY BeginDisposeType
<1>4. LiveOf(r, t) \in 0 .. MaxSession
  BY DEF LiveOf
<1> DEFINE pc == IF t /\ file[r] THEN "persist"
                 ELSE IF LiveOf(r, t) # 0 THEN "closing" ELSE "owned"
           v  == [pc |-> pc, ref |-> r, live |-> LiveOf(r, t), tombstone |-> t]
<1>5. v \in Releases /\ v.pc \notin {"parkWait", "strike"}
  BY <1>4 DEF Releases, Refs
<1>6. rel' = [rel EXCEPT ![k] = v]
  OBVIOUS
<1>7. rel' \in [Releasers -> Releases] /\ CapturedRefs'
  BY <1>5, <1>6 DEF CapturedRefs
<1>8. RetainedIsDetached' /\ Generations'
  BY DEF RetainedIsDetached, Generations, Refs
<1> QED BY <1>1, <1>2, <1>3, <1>7, <1>8

LEMMA ReleaseInv ==
  ASSUME LifecycleInv, NEW k \in Releasers, NEW expected \in 0 .. MaxRef, NEW t \in BOOLEAN,
         Release(k, expected, t), spawn' \in Spawns, mgr' \in {"up", "disposing", "down"}
  PROVE LifecycleInv'
<1> USE LifecycleAssumption
        DEF LifecycleInv, TypeOK, Release, sessionVars, callVars, registryVars
<1> DEFINE r == Released(expected)
           a == IF adopted.ref = r THEN NoAdoption ELSE adopted
<1>1. r \in Refs
  BY DEF Released, Refs, Adoptions
<1>2. a \in Adoptions
  BY NoneTypes
<1>3. CASE park.mapped /\ park.ref = r
  <2>1. park' \in Parks
    <3>1. (park.cancelled \/ park.phase = "yield") \in BOOLEAN
      OBVIOUS
    <3> QED BY <1>3, <3>1 DEF Parks
  <2>2. rel' \in [Releasers -> Releases] /\ CapturedRefs'
    <3> DEFINE v == [pc |-> "parkWait", ref |-> r, live |-> 0, tombstone |-> t]
    <3>1. v \in Releases /\ v.ref # 0
      BY <1>1 DEF Releases, Refs
    <3> QED BY <1>3, <3>1 DEF CapturedRefs
  <2> QED BY <1>2, <1>3, <2>1, <2>2, RowsUnchanged
<1>4. CASE ~(park.mapped /\ park.ref = r)
  <2>1. Strike(k, r, t, a) /\ UNCHANGED park
    BY <1>4
  <2> QED BY <1>1, <1>2, <2>1, StrikeInv
<1> QED BY <1>3, <1>4

LEMMA ReleaseStepInv ==
  ASSUME LifecycleInv, NEW k \in Releasers, ReleaseStep(k)
  PROVE LifecycleInv'
<1> USE LifecycleAssumption
        DEF LifecycleInv, TypeOK, registryVars, sessionVars, callVars, managerVars
<1>0. ASSUME NEW v \in Releases, v.pc \in {"closing", "owned", "idle"},
             rel' = [rel EXCEPT ![k] = v], UNCHANGED call
      PROVE rel' \in [Releasers -> Releases] /\ CapturedRefs'
  BY <1>0 DEF CapturedRefs
<1>1. CASE ReleaseStrikes(k)
  <2>1. rel[k].ref \in Refs /\ rel[k].tombstone \in BOOLEAN
    BY <1>1 DEF ReleaseStrikes, CapturedRefs, Releases, Refs
  <2> QED BY <1>1, <2>1, StrikeInv DEF ReleaseStrikes
<1>2. CASE ReleaseDisposed(k)
  <2> USE <1>2 DEF ReleaseDisposed
  <2> DEFINE v == [rel[k] EXCEPT !.pc = "owned"]
  <2>1. v \in Releases /\ v.pc = "owned"
    BY DEF Releases
  <2>2. adopted' \in Adoptions /\ cur' \in {0, cur}
    BY UnregisterUnlessParkedType DEF EndDispose
  <2>3. sstate' \in [Sessions -> {"none", "open", "closing", "closed"}]
    BY DEF EndDispose
  <2>4. rel' = [rel EXCEPT ![k] = v]
    OBVIOUS
  <2> QED BY <1>0, <2>1, <2>2, <2>3, <2>4, RowsUnchanged
<1>3. CASE ReleaseEnds(k)
  <2> USE <1>3 DEF ReleaseEnds
  <2>1. adopted' \in Adoptions /\ cur' \in {0, cur}
    BY UnregisterType
  <2>2. NoRelease.pc = "idle"
    BY DEF NoRelease
  <2> QED BY <1>0, <2>1, <2>2, NoneTypes, RowsUnchanged
<1>4. ASSUME NEW written \in BOOLEAN, TombstonePersisted(k, written) PROVE LifecycleInv'
  <2> USE <1>4 DEF TombstonePersisted
  <2> DEFINE pc == IF rel[k].live # 0 THEN "closing" ELSE "owned"
             v  == [rel[k] EXCEPT !.pc = pc]
  <2>1. v \in Releases /\ v.pc \in {"closing", "owned"}
    BY DEF Releases
  <2>2. rel' = [rel EXCEPT ![k] = v]
    OBVIOUS
  <2>3. sstate' \in [Sessions -> {"none", "open", "closing", "closed"}]
    BY BeginDisposeType
  <2>4. tomb' \in BOOLEAN
    OBVIOUS
  <2> QED BY <1>0, <2>1, <2>2, <2>3, <2>4, RowsUnchanged
<1> QED BY <1>1, <1>2, <1>3, <1>4 DEF ReleaseStep

LEMMA DisposeInv ==
  ASSUME LifecycleInv, DisposeBegins \/ DisposeEnds
  PROVE LifecycleInv'
<1> USE LifecycleAssumption
        DEF LifecycleInv, TypeOK, registryVars, sessionVars, callVars, managerVars
<1>1. CASE DisposeBegins
  <2>1. Owner \in Releasers
    BY DEF Releasers
  <2>2. CASE Release(Owner, 0, FALSE)
    <3>1. 0 \in 0 .. MaxRef /\ spawn' \in Spawns /\ mgr' \in {"up", "disposing", "down"}
      BY <1>1 DEF DisposeBegins
    <3> QED BY <2>1, <2>2, <3>1, ReleaseInv
  <2>3. CASE UNCHANGED <<registryVars, sessionVars, adopted, park, callVars, rel, factory, tomb>>
    BY <1>1, <2>3, RowsUnchanged DEF DisposeBegins, CapturedRefs
  <2> QED BY <1>1, <2>2, <2>3 DEF DisposeBegins
<1>2. CASE DisposeEnds
  <2> USE <1>2 DEF DisposeEnds
  <2>1. park' \in Parks
    BY DEF Parks
  <2> QED BY <2>1, RowsUnchanged DEF CapturedRefs
<1> QED BY <1>1, <1>2
-----------------------------------------------------------------------------
LEMMA NextInv == LifecycleInv /\ [Next]_vars => LifecycleInv'
<1> SUFFICES ASSUME LifecycleInv, [Next]_vars PROVE LifecycleInv'
  OBVIOUS
<1>1. CASE SpawnNext
  BY <1>1, SpawnNextInv
<1>2. CASE TimerFires \/ ParkNext \/ \E st \in {"running", "idle"} : RunState(st)
  BY <1>2, ParkNextInv
<1>3. ASSUME NEW c \in Callers, EnsureLive(c) \/ Forget(c) \/ CallStep(c)
      PROVE LifecycleInv'
  BY <1>3, CallNextInv, ReviveNextInv DEF CallStep
<1>4. ASSUME NEW k \in Killers, NEW expected \in 0 .. MaxRef, NEW t \in Tombstones,
             ReleaseCalled(k, expected, t)
      PROVE LifecycleInv'
  <2>1. k \in Releasers /\ t \in BOOLEAN
    BY LifecycleAssumption DEF Releasers
  <2>2. spawn' \in Spawns /\ mgr' \in {"up", "disposing", "down"}
    BY <1>4 DEF ReleaseCalled, LifecycleInv, TypeOK
  <2> QED BY <1>4, <2>1, <2>2, ReleaseInv DEF ReleaseCalled
<1>5. ASSUME NEW k \in Killers, NEW t \in Tombstones, FinalizeAborted(k, t)
      PROVE LifecycleInv'
  <2>1. k \in Releasers /\ t \in BOOLEAN /\ cur \in 0 .. MaxRef
    BY LifecycleAssumption DEF Releasers, LifecycleInv, TypeOK
  <2>2. spawn' \in Spawns /\ mgr' \in {"up", "disposing", "down"}
    BY <1>5, NoneTypes DEF FinalizeAborted, LifecycleInv, TypeOK
  <2> QED BY <1>5, <2>1, <2>2, ReleaseInv DEF FinalizeAborted
<1>6. ASSUME NEW k \in Releasers, ReleaseStep(k) PROVE LifecycleInv'
  BY <1>6, ReleaseStepInv
<1>7. CASE DisposeBegins \/ DisposeEnds
  BY <1>7, DisposeInv
<1>8. CASE UNCHANGED vars
  BY <1>8 DEF vars, registryVars, sessionVars, callVars, managerVars, LifecycleInv, TypeOK,
              RetainedIsDetached, Generations, CapturedRefs
<1> QED BY <1>1, <1>2, <1>3, <1>4, <1>5, <1>6, <1>7, <1>8 DEF Next

\* Every variable stays within its kind, however many calls, kills, parks,
\* revivals and generations interleave.
THEOREM LifecycleTypeCorrect == Spec => []TypeOK
<1>1. LifecycleInv => TypeOK
  BY DEF LifecycleInv
<1> QED BY <1>1, InitInv, NextInv, PTL DEF Spec

\* A parked or killed reference never carries a session: registerIfAvailable,
\* reopen and unregisterUnlessParked may rely on it.
THEOREM RetainedStaysDetached == Spec => []RetainedIsDetached
<1>1. LifecycleInv => RetainedIsDetached
  BY DEF LifecycleInv
<1> QED BY <1>1, InitInv, NextInv, PTL DEF Spec

-----------------------------------------------------------------------------
(* Killed is terminal *)

KilledStays == \A r \in Refs : status[r] = "aborted" /\ r <= nrefs => status'[r] = "aborted"

LEMMA PublishKeepsKilled ==
  ASSUME LifecycleInv, NEW c, NEW r, NEW s, status[r] # "aborted", Publish(c, r, s)
  PROVE KilledStays
BY DEF KilledStays, Publish, LifecycleInv, TypeOK

LEMMA StrikeKeepsKilled ==
  ASSUME LifecycleInv, NEW k, NEW r, NEW t, NEW a, Strike(k, r, t, a)
  PROVE KilledStays
BY DEF KilledStays, Strike, LifecycleInv, TypeOK

LEMMA ReleaseKeepsKilled ==
  ASSUME LifecycleInv, NEW k, NEW expected, NEW t, Release(k, expected, t)
  PROVE KilledStays
BY StrikeKeepsKilled DEF Release, KilledStays

LEMMA NextKeepsKilled == LifecycleInv /\ [Next]_vars => KilledStays
<1> SUFFICES ASSUME LifecycleInv, [Next]_vars PROVE KilledStays
  OBVIOUS
<1> USE DEF registryVars
<1>0. ASSUME UNCHANGED status PROVE KilledStays
  BY <1>0 DEF KilledStays
<1>1. ASSUME NEW st, NEW hasFile, Register(st, hasFile) PROVE KilledStays
  BY <1>1 DEF Register, KilledStays, LifecycleInv, TypeOK, Refs
<1>2. ASSUME NEW r, NEW st, status[r] # "aborted", status' = [status EXCEPT ![r] = st]
      PROVE KilledStays
  BY <1>2 DEF KilledStays, LifecycleInv, TypeOK
<1>3. CASE SpawnNext
  BY <1>0, <1>1, <1>2, <1>3
     DEF SpawnNext, SpawnStart, SpawnProbed, SpawnRegisters, SpawnAttach, SpawnFail,
         FinalizeKeepAlive, FinalizeDispose, FinalizeDisposed
<1>4. CASE TimerFires \/ \E st \in {"running", "idle"} : RunState(st)
  BY <1>0, <1>2, <1>4 DEF TimerFires, RunState
<1>5. CASE ParkNext
  <2>1. CASE ParkCommits
    BY <2>1 DEF ParkCommits, KilledStays, LifecycleInv, TypeOK
  <2> QED BY <1>0, <1>5, <2>1 DEF ParkNext, ParkAborts, ParkEnds
<1>6. ASSUME NEW c \in Callers, EnsureLive(c) \/ Forget(c) \/ CallStep(c)
      PROVE KilledStays
  <2>1. CASE ReopenProbed(c)
    BY <1>0, <1>1, <2>1 DEF ReopenProbed
  <2>2. CASE ReviverAttaches(c)
    BY <1>2, <2>2 DEF ReviverAttaches
  <2>3. CASE ReviverReturns(c)
    BY <1>0, <2>3, PublishKeepsKilled DEF ReviverReturns, StillOurs
  <2>4. CASE ReviverReturnsDetached(c)
    BY <1>0, <2>4, PublishKeepsKilled DEF ReviverReturnsDetached
  <2>5. CASE \/ EnsureLive(c) \/ Forget(c) \/ Kept(c) \/ Resume(c) \/ DropTombstone(c)
             \/ Reopened(c) \/ Probed(c) \/ ReviverClaims(c) \/ ReviverFails(c)
             \/ ReviverUnwinds(c) \/ ReviverFailsLate(c) \/ DiscardEnds(c)
    BY <1>0, <2>5
       DEF EnsureLive, Forget, Kept, Resume, DropTombstone, Reopened, Probed, ReviverClaims,
           ReviverFails, ReviverUnwinds, ReviverFailsLate, DiscardEnds
  <2> QED BY <1>6, <2>1, <2>2, <2>3, <2>4, <2>5 DEF CallStep
<1>7. ASSUME NEW k, NEW expected, NEW t,
             ReleaseCalled(k, expected, t) \/ FinalizeAborted(k, t)
      PROVE KilledStays
  BY <1>7, ReleaseKeepsKilled DEF ReleaseCalled, FinalizeAborted
<1>8. ASSUME NEW k, ReleaseStep(k) PROVE KilledStays
  BY <1>0, <1>8, StrikeKeepsKilled
     DEF ReleaseStep, ReleaseStrikes, ReleaseDisposed, ReleaseEnds, TombstonePersisted
<1>9. CASE DisposeBegins \/ DisposeEnds
  BY <1>0, <1>9, ReleaseKeepsKilled DEF DisposeBegins, DisposeEnds
<1>10. CASE UNCHANGED vars
  BY <1>0, <1>10 DEF vars
<1> QED BY <1>3, <1>4, <1>5, <1>6, <1>7, <1>8, <1>9, <1>10 DEF Next

\* A killed generation is never given another status: no late turn, park,
\* revival or finalizer of it resurrects it.
THEOREM KilledStaysKilled == Spec => KilledIsTerminal
<1>1. LifecycleInv /\ [Next]_vars
      => [\A r \in Refs : status[r] = "aborted" /\ r <= nrefs => status'[r] = "aborted"]_vars
  BY NextKeepsKilled DEF KilledStays
<1> QED BY <1>1, InitInv, NextInv, PTL DEF Spec, KilledIsTerminal

-----------------------------------------------------------------------------
(* Revivals coalesce *)

\* The call c has reopened a reference and has yet to go on with it.
Reopens(c) == call[c].pc \in {"dropTombstone", "reopened"}

\* The registered generation is the latest one, so an older one never returns;
\* no call holds a generation that does not exist.
LatestRef == cur \in {0, nrefs}
CallRefs ==
  \A c \in Callers : call[c].ref <= nrefs /\ (Reviving(c) => call[c].ref \in Refs)

\* A call that reopened a reference still holds the latest one when it goes on.
ReopensLatest == \A c \in Callers : Reopens(c) => call[c].ref = nrefs

\* #revivals holds the revival of the latest generation: only the entry of an
\* older one may have been overwritten.
RevivalIsHeld ==
  mgr # "down" => \A c \in Callers : Reviving(c) => revival = c \/ call[c].ref < nrefs

RevivalInv ==
  LifecycleInv /\ LatestRef /\ CallRefs /\ ReopensLatest /\ RevivalIsHeld /\ OneRevivalPerRef

-----------------------------------------------------------------------------
(* How a step may change the calls *)

LEMMA ReturnFields ==
  ASSUME call \in [Callers -> Calls], NEW c \in Callers, NEW s, Return(c, s)
  PROVE /\ call'[c].pc = "idle" /\ call'[c].ref = 0 /\ call'[c].s = 0
        /\ \A x \in Callers : x # c => call'[x] = call[x]
BY DEF Return, NotCalling

LEMMA AtFields ==
  ASSUME call \in [Callers -> Calls], NEW c \in Callers, NEW pc, NEW r, At(c, pc, r)
  PROVE /\ call'[c].pc = pc /\ call'[c].ref = r /\ call'[c].s = 0
        /\ \A x \in Callers : x # c => call'[x] = call[x]
<1> DEFINE v == [NotCalling EXCEPT !.pc = pc, !.ref = r]
<1>1. v.pc = pc /\ v.ref = r /\ v.s = 0
  BY DEF NotCalling
<1> HIDE DEF v
<1>2. call' = [call EXCEPT ![c] = v]
  BY DEF At, v
<1> QED BY <1>1, <1>2

LEMMA JoinFields ==
  ASSUME call \in [Callers -> Calls], NEW c \in Callers, NEW pc, NEW d, Join(c, pc, d)
  PROVE /\ call'[c].pc = pc /\ call'[c].ref = call[d].ref /\ call'[c].s = 0
        /\ \A x \in Callers : x # c => call'[x] = call[x]
<1> DEFINE v == [NotCalling EXCEPT !.pc = pc, !.ref = call[d].ref, !.on = d]
<1>1. v.pc = pc /\ v.ref = call[d].ref /\ v.s = 0
  BY DEF NotCalling
<1> HIDE DEF v
<1>2. call' = [call EXCEPT ![c] = v]
  BY DEF Join, v
<1> QED BY <1>1, <1>2

\* No revival starts, none is forgotten, and who holds a reopened reference has
\* it from a call that did.
LEMMA CallsKept ==
  ASSUME RevivalInv, LifecycleInv', nrefs' = nrefs, cur' \in {0, cur},
         mgr' # "down" => mgr # "down",
         \A x \in Callers :
           /\ call'[x].ref <= nrefs
           /\ Reviving(x)' => /\ Reviving(x) /\ call'[x].ref = call[x].ref
                              /\ revival = x => revival' = x
           /\ Reopens(x)' => \E y \in Callers : Reopens(y) /\ call'[x].ref = call[y].ref
  PROVE RevivalInv'
<1> USE DEF RevivalInv
<1>1. LatestRef' /\ CallRefs'
  BY DEF LatestRef, CallRefs
<1>2. ReopensLatest'
  BY DEF ReopensLatest
<1>3. RevivalIsHeld'
  BY DEF RevivalIsHeld
<1>4. OneRevivalPerRef'
  BY DEF OneRevivalPerRef
<1> QED BY <1>1, <1>2, <1>3, <1>4

\* A generation is registered, by a reopen or by a spawn.
LEMMA CallsOfRegister ==
  ASSUME RevivalInv, LifecycleInv', NEW st, NEW hasFile, Register(st, hasFile),
         ~SlowRemoval, UNCHANGED <<mgr, revival>>,
         \A x \in Callers : \/ call'[x] = call[x]
                            \/ call'[x].pc = "dropTombstone" /\ call'[x].ref = nrefs + 1
  PROVE RevivalInv'
<1> USE DEF RevivalInv, Register
<1>0. nrefs \in Nat /\ \A x \in Callers : call[x].ref \in Nat
  BY LifecycleAssumption DEF LifecycleInv, TypeOK, Calls
<1>1. LatestRef'
  BY DEF LatestRef
<1>2. CallRefs'
  BY <1>0 DEF CallRefs, Reviving
<1>3. ReopensLatest'
  BY DEF ReopensLatest, Reopens, Queued, Removing
<1>4. RevivalIsHeld'
  BY <1>0 DEF RevivalIsHeld, CallRefs, Reviving
<1>5. OneRevivalPerRef'
  BY DEF OneRevivalPerRef, Reviving
<1> QED BY <1>1, <1>2, <1>3, <1>4, <1>5

\* A call goes on with the latest reference: if it starts a revival, no other
\* one of that reference is held.
LEMMA CallsOfProceedLive ==
  ASSUME RevivalInv, LifecycleInv', NEW c \in Callers, NEW r \in Refs, ProceedLive(c, r),
         r = nrefs, ~Reviving(c), UNCHANGED <<cur, nrefs, mgr>>
  PROVE RevivalInv'
<1> USE DEF RevivalInv
<1>0. call \in [Callers -> Calls] /\ nrefs \in Nat /\ NoCaller \notin Callers
      /\ revival \in Callers \cup {NoCaller}
  BY LifecycleAssumption DEF LifecycleInv, TypeOK
<1>1. CASE RevivalOf(r) /\ Join(c, "reviveJoin", revival) /\ UNCHANGED <<got, revival>>
  <2>1. revival \in Callers /\ call[revival].ref = r
    BY <1>0, <1>1 DEF RevivalOf
  <2>2. \A x \in Callers : x # c => call'[x] = call[x]
    BY <1>0, <1>1, JoinFields
  <2>3. call'[c].pc = "reviveJoin" /\ call'[c].ref = r
    BY <1>0, <1>1, <2>1, JoinFields
  <2>4. /\ \A x \in Callers : call'[x].ref <= nrefs
        /\ ~Reviving(c)' /\ ~Reopens(c)'
        /\ \A x \in Callers : x # c => (Reviving(x)' <=> Reviving(x)) /\ (Reopens(x)' <=> Reopens(x))
    BY <1>0, <2>2, <2>3 DEF Reviving, Reopens, CallRefs
  <2> QED BY <1>1, <2>2, <2>4, CallsKept
<1>2. ASSUME NEW s, Return(c, s), ~RevivalOf(r),
             revival' = revival \/ revival' = NoCaller
      PROVE RevivalInv'
  <2>1. \A x \in Callers : x # c => call'[x] = call[x]
    BY <1>0, <1>2, ReturnFields
  <2>2. call'[c].pc = "idle" /\ call'[c].ref = 0
    BY <1>0, <1>2, ReturnFields
  <2>a. /\ ~Reviving(c)' /\ ~Reopens(c)'
        /\ \A x \in Callers : x # c => (Reviving(x)' <=> Reviving(x)) /\ (Reopens(x)' <=> Reopens(x))
    BY <2>1, <2>2 DEF Reviving, Reopens
  <2>b. LatestRef' /\ CallRefs'
    BY <1>0, <2>1, <2>2, <2>a DEF LatestRef, CallRefs
  <2>c. ReopensLatest' /\ OneRevivalPerRef'
    BY <2>1, <2>2, <2>a DEF ReopensLatest, OneRevivalPerRef
  <2>3. LatestRef' /\ CallRefs' /\ ReopensLatest' /\ OneRevivalPerRef'
    BY <2>b, <2>c
  <2>4. RevivalIsHeld'
    <3> SUFFICES ASSUME mgr # "down", NEW x \in Callers, Reviving(x)'
                 PROVE revival' = x \/ call'[x].ref < nrefs
      BY DEF RevivalIsHeld
    <3>1. x # c /\ call'[x] = call[x] /\ Reviving(x)
      BY <2>1, <2>2 DEF Reviving
    <3>2. revival # x \/ call[x].ref # r
      BY <1>0, <1>2, <3>1 DEF RevivalOf
    <3>3. revival = x \/ call[x].ref < nrefs
      BY <3>1 DEF RevivalIsHeld
    <3>4. call[x].ref \in Nat /\ call[x].ref <= nrefs
      BY <1>0 DEF CallRefs, Calls
    <3> QED BY <1>0, <3>1, <3>2, <3>3, <3>4
  <2> QED BY <2>3, <2>4
<1>3. ASSUME NEW pc \in {"claim", "probe"}, ~RevivalOf(r), At(c, pc, r), revival' = c
      PROVE RevivalInv'
  <2>1. \A x \in Callers : x # c => call'[x] = call[x]
    BY <1>0, <1>3, AtFields
  <2>2. call'[c].pc = pc /\ call'[c].ref = r
    BY <1>0, <1>3, AtFields
  <2>3. \A x \in Callers : x # c => (Reviving(x)' <=> Reviving(x))
    BY <2>1 DEF Reviving
  <2>4. ASSUME mgr # "down", NEW x \in Callers, Reviving(x), x # c
        PROVE call[x].ref < nrefs
    <3>1. revival # x \/ call[x].ref # r
      BY <1>0, <1>3, <2>4 DEF RevivalOf
    <3> QED BY <1>0, <2>4, <3>1 DEF RevivalIsHeld, CallRefs, Calls
  <2>5. LatestRef' /\ CallRefs' /\ ReopensLatest'
    BY <1>0, <2>1, <2>2 DEF LatestRef, CallRefs, ReopensLatest, Reviving, Reopens
  <2>6. RevivalIsHeld'
    BY <1>3, <2>1, <2>2, <2>3, <2>4 DEF RevivalIsHeld
  <2>7. OneRevivalPerRef'
    BY <1>0, <2>1, <2>2, <2>3, <2>4 DEF OneRevivalPerRef
  <2> QED BY <2>5, <2>6, <2>7
<1> QED BY <1>1, <1>2, <1>3 DEF ProceedLive

\* One call moves on, or returns with those that share its promise.
LEMMA CallMoves ==
  ASSUME RevivalInv, LifecycleInv', NEW c \in Callers,
         nrefs' = nrefs, cur' \in {0, cur}, mgr' = mgr,
         \A x \in Callers : x # c => /\ revival = x => revival' = x
                                     /\ \/ call'[x] = call[x]
                                        \/ call'[x].pc = "idle" /\ call'[x].ref = 0,
         call'[c].ref <= nrefs, ~Reopens(c)',
         Reviving(c)' => /\ Reviving(c) /\ call'[c].ref = call[c].ref
                         /\ revival = c => revival' = c
  PROVE RevivalInv'
<1>0. nrefs \in Nat
  BY LifecycleAssumption DEF RevivalInv, LifecycleInv, TypeOK
<1>1. \A x \in Callers : call'[x].ref <= nrefs
  BY <1>0 DEF RevivalInv, CallRefs
<1>2. \A x \in Callers : Reopens(x)' => Reopens(x) /\ call'[x].ref = call[x].ref
  BY DEF Reopens
<1>3. \A x \in Callers : Reviving(x)' => Reviving(x) /\ call'[x].ref = call[x].ref
                                         /\ (revival = x => revival' = x)
  BY DEF Reviving
<1> QED BY <1>1, <1>2, <1>3, CallsKept

LEMMA CallsUnchanged ==
  ASSUME RevivalInv, LifecycleInv', UNCHANGED <<nrefs, call, revival>>, cur' \in {0, cur},
         mgr' # "down" => mgr # "down"
  PROVE RevivalInv'
BY CallsKept DEF Reviving, Reopens, RevivalInv, CallRefs

LEMMA EndDisposeKeepsCur ==
  ASSUME NEW s, NEW a, EndDispose(s, a) PROVE cur' \in {0, cur}
BY DEF EndDispose, UnregisterUnlessParked, Unregister

-----------------------------------------------------------------------------
(* The steps *)

LEMMA SpawnKeepsRevivals ==
  ASSUME RevivalInv, LifecycleInv', ~SlowRemoval, SpawnNext
  PROVE RevivalInv'
<1> USE DEF registryVars, sessionVars, callVars, managerVars
<1>1. CASE SpawnRegisters
  BY <1>1, CallsOfRegister DEF SpawnRegisters
<1>2. CASE SpawnFail \/ FinalizeDisposed
  <2>1. cur' \in {0, cur}
    BY <1>2, EndDisposeKeepsCur
       DEF SpawnFail, FinalizeDisposed, UnregisterUnlessParked, Unregister
  <2> QED BY <1>2, <2>1, CallsUnchanged DEF SpawnFail, FinalizeDisposed
<1>3. CASE ~SpawnRegisters /\ ~SpawnFail /\ ~FinalizeDisposed
  <2>1. UNCHANGED <<nrefs, call, revival, cur, mgr>>
    BY <1>3 DEF SpawnNext, SpawnStart, SpawnProbed, SpawnAttach, FinalizeKeepAlive, FinalizeDispose
  <2> QED BY <2>1, CallsUnchanged
<1> QED BY <1>1, <1>2, <1>3

LEMMA ParkKeepsRevivals ==
  ASSUME RevivalInv, LifecycleInv',
         TimerFires \/ ParkNext \/ \E st \in {"running", "idle"} : RunState(st)
  PROVE RevivalInv'
<1> USE DEF registryVars, sessionVars, callVars, managerVars
<1>1. CASE ParkAborts \/ ParkEnds
  <2>1. call' = WakeCalls /\ UNCHANGED <<nrefs, revival, mgr>> /\ cur' \in {0, cur}
    BY <1>1, EndDisposeKeepsCur DEF ParkAborts, ParkEnds
  <2>2. \A x \in Callers : /\ call[x] \in Calls
                           /\ \/ call'[x] = call[x]
                              \/ /\ call'[x].pc \in {"kept", "resume"}
                                 /\ call'[x].ref = call[x].ref
    BY <2>1 DEF WakeCalls, Calls, RevivalInv, LifecycleInv, TypeOK
  <2>3. \A x \in Callers : /\ call'[x].ref <= nrefs
                           /\ Reviving(x)' => Reviving(x) /\ call'[x].ref = call[x].ref
                           /\ Reopens(x)' => Reopens(x) /\ call'[x].ref = call[x].ref
    BY <2>2 DEF Reviving, Reopens, RevivalInv, CallRefs
  <2> QED BY <2>1, <2>3, CallsKept
<1>2. CASE TimerFires \/ ParkCommits \/ \E st \in {"running", "idle"} : RunState(st)
  <2>1. UNCHANGED <<nrefs, call, revival, cur, mgr>>
    BY <1>2 DEF TimerFires, ParkCommits, RunState
  <2> QED BY <2>1, CallsUnchanged
<1> QED BY <1>1, <1>2 DEF ParkNext

LEMMA ProceedKeepsRevivals ==
  ASSUME RevivalInv, LifecycleInv', NEW c \in Callers, Proceed(c), ~Reviving(c),
         UNCHANGED <<cur, nrefs, mgr>>
  PROVE RevivalInv'
<1>0. /\ call \in [Callers -> Calls] /\ nrefs \in Nat /\ cur \in 0 .. MaxRef /\ cur <= nrefs
  BY LifecycleAssumption DEF RevivalInv, LifecycleInv, TypeOK, Generations
<1>1. CASE Return(c, 0) /\ UNCHANGED revival
  BY <1>0, <1>1, ReturnFields, CallMoves DEF Reviving, Reopens
<1>2. CASE cur # 0 /\ ProceedLive(c, cur)
  BY <1>0, <1>2, CallsOfProceedLive DEF RevivalInv, LatestRef, Refs
<1>3. CASE ReopenOf(cur) /\ Join(c, "reopenJoin", reopening) /\ UNCHANGED revival
  <2>1. reopening \in Callers /\ call[reopening].ref = cur
    BY <1>3 DEF ReopenOf, RevivalInv, LifecycleInv, TypeOK
  <2>2. call'[c].pc = "reopenJoin" /\ call'[c].ref = cur
        /\ \A x \in Callers : x # c => call'[x] = call[x]
    BY <1>0, <1>3, <2>1, JoinFields
  <2> QED BY <1>0, <1>3, <2>2, CallMoves DEF Reviving, Reopens
<1>4. CASE At(c, "reopenProbe", cur) /\ UNCHANGED revival
  <2>1. call'[c].pc = "reopenProbe" /\ call'[c].ref = cur
        /\ \A x \in Callers : x # c => call'[x] = call[x]
    BY <1>0, <1>4, AtFields
  <2> QED BY <1>0, <1>4, <2>1, CallMoves DEF Reviving, Reopens
<1> QED BY <1>1, <1>2, <1>3, <1>4 DEF Proceed

\* The promise is settled: its owner and the calls that share it return.
LEMMA SettleFields ==
  ASSUME NEW c \in Callers, NEW pc, NEW s, SettleShared(c, pc, s)
  PROVE /\ call'[c].pc = "idle" /\ call'[c].ref = 0
        /\ \A x \in Callers : \/ call'[x] = call[x]
                              \/ call'[x].pc = "idle" /\ call'[x].ref = 0
BY DEF SettleShared, NotCalling

LEMMA SettleKeepsRevivals ==
  ASSUME RevivalInv, LifecycleInv', NEW c \in Callers, NEW pc, NEW s, SettleShared(c, pc, s),
         revival' \in {revival, IF revival = c THEN NoCaller ELSE revival},
         UNCHANGED <<nrefs, mgr>>, cur' \in {0, cur}
  PROVE RevivalInv'
<1>1. nrefs \in Nat /\ ~Reviving(c)' /\ ~Reopens(c)'
  BY LifecycleAssumption, SettleFields DEF RevivalInv, LifecycleInv, TypeOK, Reviving, Reopens
<1> QED BY <1>1, SettleFields, CallMoves

LEMMA EnsureLiveKeepsRevivals ==
  ASSUME RevivalInv, LifecycleInv', ~SlowRemoval, NEW c \in Callers,
         \/ EnsureLive(c) \/ Kept(c) \/ Resume(c) \/ Forget(c)
         \/ ReopenProbed(c) \/ DropTombstone(c) \/ Reopened(c)
  PROVE RevivalInv'
<1> USE DEF registryVars, sessionVars, callVars, managerVars
<1>0. /\ call \in [Callers -> Calls] /\ nrefs \in Nat /\ cur \in 0 .. MaxRef /\ cur <= nrefs
  BY LifecycleAssumption DEF RevivalInv, LifecycleInv, TypeOK, Generations
<1>1. CASE EnsureLive(c)
  <2>0. ~Reviving(c) /\ UNCHANGED <<cur, nrefs, mgr>>
    BY <1>1 DEF EnsureLive, Reviving
  <2>1. CASE Proceed(c)
    BY <2>0, <2>1, ProceedKeepsRevivals
  <2>2. ASSUME NEW pc \in {"parkCancel", "parkWait"}, NEW r \in {0, cur}, At(c, pc, r),
               UNCHANGED revival
        PROVE RevivalInv'
    <3>1. call'[c].pc = pc /\ call'[c].ref = r
          /\ \A x \in Callers : x # c => call'[x] = call[x]
      BY <1>0, <2>2, AtFields
    <3> QED BY <1>0, <2>0, <2>2, <3>1, CallMoves DEF Reviving, Reopens
  <2> QED BY <1>1, <2>1, <2>2 DEF EnsureLive
<1>2. CASE Kept(c)
  <2>0. ~Reviving(c) /\ UNCHANGED <<cur, nrefs, mgr>>
    BY <1>2 DEF Kept, Reviving
  <2>1. CASE Proceed(c)
    BY <2>0, <2>1, ProceedKeepsRevivals
  <2>2. CASE Return(c, sess[cur]) /\ UNCHANGED revival
    BY <1>0, <2>0, <2>2, ReturnFields, CallMoves DEF Reviving, Reopens
  <2> QED BY <1>2, <2>1, <2>2 DEF Kept
<1>3. CASE Resume(c)
  BY <1>3, ProceedKeepsRevivals DEF Resume, Reviving
<1>4. CASE Forget(c)
  BY <1>4, CallsUnchanged DEF Forget
<1>5. CASE ReopenProbed(c)
  <2>1. CASE /\ Register("parked", file[call[c].ref])
             /\ call' = [call EXCEPT ![c].pc = "dropTombstone", ![c].ref = nrefs + 1]
    <3>1. \A x \in Callers : \/ call'[x] = call[x]
                             \/ call'[x].pc = "dropTombstone" /\ call'[x].ref = nrefs + 1
      BY <1>0, <2>1 DEF Calls
    <3>2. UNCHANGED <<mgr, revival>>
      BY <1>5 DEF ReopenProbed
    <3> QED BY <2>1, <3>1, <3>2, CallsOfRegister
  <2>2. CASE SettleShared(c, "reopenJoin", 0) /\ UNCHANGED registryVars
    BY <1>5, <2>2, SettleKeepsRevivals DEF ReopenProbed
  <2> QED BY <1>5, <2>1, <2>2 DEF ReopenProbed
<1>6. CASE DropTombstone(c)
  <2>1. \A x \in Callers :
          \/ call'[x] = call[x]
          \/ call'[x].pc = "reopened" /\ call'[x].ref = call[c].ref
    BY <1>6 DEF DropTombstone, NotCalling
  <2>2. Reopens(c) /\ UNCHANGED <<nrefs, revival, cur, mgr>>
    BY <1>6 DEF DropTombstone, Reopens
  <2>3. \A x \in Callers : /\ call'[x].ref <= nrefs
                           /\ Reviving(x)' => Reviving(x) /\ call'[x].ref = call[x].ref
                           /\ Reopens(x)' => \E y \in Callers : Reopens(y) /\ call'[x].ref = call[y].ref
    BY <2>1, <2>2 DEF Reviving, Reopens, RevivalInv, CallRefs
  <2> QED BY <2>2, <2>3, CallsKept
<1>7. CASE Reopened(c)
  <2>1. call[c].ref = nrefs /\ ~Reviving(c)
    BY <1>7 DEF Reopened, Reopens, Reviving, RevivalInv, ReopensLatest
  <2>2. call[c].ref \in Refs
    BY <1>0, <1>7 DEF Reopened, CapturedRefs, RevivalInv, LifecycleInv, Calls, Refs
  <2> QED BY <1>7, <2>1, <2>2, CallsOfProceedLive DEF Reopened
<1> QED BY <1>1, <1>2, <1>3, <1>4, <1>5, <1>6, <1>7

LEMMA RevivalKeepsRevivals ==
  ASSUME RevivalInv, LifecycleInv', NEW c \in Callers,
         \/ Probed(c) \/ ReviverClaims(c) \/ ReviverAttaches(c) \/ ReviverFails(c)
         \/ ReviverUnwinds(c) \/ ReviverFailsLate(c) \/ ReviverReturns(c)
         \/ ReviverReturnsDetached(c) \/ DiscardEnds(c)
  PROVE RevivalInv'
<1> USE DEF registryVars, sessionVars, callVars, managerVars
<1>0. /\ UNCHANGED <<nrefs, mgr>> /\ cur' \in {0, cur} /\ Reviving(c)
      /\ \/ Settle(c, 0) \/ \E s \in {call[c].s, nsess + 1} : Settle(c, s)
         \/ /\ revival' = revival
            /\ \E pc \in {"claim", "build", "attached", "failing", "stale"} :
                 \/ call' = [call EXCEPT ![c].pc = pc]
                 \/ call' = [call EXCEPT ![c].pc = pc, ![c].s = nsess + 1]
  <2>1. CASE Probed(c)
    BY <2>1 DEF Probed, Reviving
  <2>2. CASE ReviverClaims(c)
    BY <2>2 DEF ReviverClaims, Reviving
  <2>3. CASE ReviverAttaches(c)
    BY <2>3 DEF ReviverAttaches, Reviving
  <2>4. CASE ReviverFails(c) \/ ReviverFailsLate(c)
    BY <2>4 DEF ReviverFails, ReviverFailsLate, Fail, Reviving
  <2>5. CASE ReviverUnwinds(c)
    BY <2>5 DEF ReviverUnwinds, Reviving
  <2>6. CASE ReviverReturns(c)
    BY <2>6 DEF ReviverReturns, Publish, Reviving
  <2>7. CASE ReviverReturnsDetached(c)
    BY <2>7 DEF ReviverReturnsDetached, Publish, Reviving
  <2>8. CASE DiscardEnds(c)
    BY <2>8, EndDisposeKeepsCur DEF DiscardEnds, Reviving
  <2> QED BY <2>1, <2>2, <2>3, <2>4, <2>5, <2>6, <2>7, <2>8
<1>1. ASSUME NEW s, Settle(c, s) PROVE RevivalInv'
  BY <1>0, <1>1, SettleKeepsRevivals DEF Settle
<1>2. ASSUME NEW pc \in {"claim", "build", "attached", "failing", "stale"},
             \/ call' = [call EXCEPT ![c].pc = pc]
             \/ call' = [call EXCEPT ![c].pc = pc, ![c].s = nsess + 1],
             revival' = revival
      PROVE RevivalInv'
  <2>1. /\ call'[c].pc = pc /\ call'[c].ref = call[c].ref
        /\ \A x \in Callers : x # c => call'[x] = call[x]
    BY <1>2 DEF RevivalInv, LifecycleInv, TypeOK, Calls
  <2> QED BY <1>0, <1>2, <2>1, CallMoves DEF Reopens, RevivalInv, CallRefs
<1> QED BY <1>0, <1>1, <1>2

LEMMA ReleaseKeepsRevivals ==
  ASSUME RevivalInv, LifecycleInv',
         \/ \E k, e, t : Release(k, e, t) /\ (mgr' # "down" => mgr # "down")
         \/ \E k \in Releasers : ReleaseStep(k)
         \/ DisposeBegins \/ DisposeEnds
  PROVE RevivalInv'
<1> USE DEF registryVars, sessionVars, callVars, managerVars
<1>1. ASSUME NEW k, NEW e, NEW t, Release(k, e, t), mgr' # "down" => mgr # "down"
      PROVE RevivalInv'
  BY <1>1, CallsUnchanged DEF Release
<1>2. ASSUME NEW k \in Releasers, ReleaseStep(k) PROVE RevivalInv'
  <2>1. UNCHANGED <<nrefs, call, revival, mgr>> /\ cur' \in {0, cur}
    BY <1>2, EndDisposeKeepsCur
       DEF ReleaseStep, ReleaseStrikes, TombstonePersisted, ReleaseDisposed, ReleaseEnds, Unregister
  <2> QED BY <2>1, CallsUnchanged
<1>3. CASE DisposeBegins
  BY <1>1, <1>3, CallsUnchanged DEF DisposeBegins
<1>4. CASE DisposeEnds
  BY <1>4 DEF DisposeEnds, RevivalInv, LatestRef, CallRefs, ReopensLatest, RevivalIsHeld,
              OneRevivalPerRef, Reviving, Reopens
<1> QED BY <1>1, <1>2, <1>3, <1>4

LEMMA NextKeepsRevivals ==
  ASSUME ~SlowRemoval, RevivalInv, [Next]_vars
  PROVE RevivalInv'
<1>0. LifecycleInv'
  BY NextInv DEF RevivalInv
<1>1. CASE SpawnNext
  BY <1>0, <1>1, SpawnKeepsRevivals
<1>2. CASE TimerFires \/ ParkNext \/ \E st \in {"running", "idle"} : RunState(st)
  BY <1>0, <1>2, ParkKeepsRevivals
<1>3. ASSUME NEW c \in Callers, EnsureLive(c) \/ Forget(c) \/ CallStep(c)
      PROVE RevivalInv'
  BY <1>0, <1>3, EnsureLiveKeepsRevivals, RevivalKeepsRevivals DEF CallStep
<1>4. ASSUME NEW k, NEW e, NEW t, ReleaseCalled(k, e, t) \/ FinalizeAborted(k, t)
      PROVE RevivalInv'
  <2>1. \E x : Release(k, x, t) /\ (mgr' # "down" => mgr # "down")
    BY <1>4 DEF ReleaseCalled, FinalizeAborted
  <2> QED BY <1>0, <2>1, ReleaseKeepsRevivals
<1>5. CASE (\E k \in Releasers : ReleaseStep(k)) \/ DisposeBegins \/ DisposeEnds
  BY <1>0, <1>5, ReleaseKeepsRevivals
<1>6. CASE UNCHANGED vars
  BY <1>0, <1>6, CallsUnchanged DEF vars, registryVars, callVars, managerVars
<1> QED BY <1>1, <1>2, <1>3, <1>4, <1>5, <1>6 DEF Next

LEMMA InitRevivals == Init => RevivalInv
<1> SUFFICES ASSUME Init PROVE RevivalInv
  OBVIOUS
<1>1. \A c \in Callers : call[c].pc = "idle" /\ call[c].ref = 0
  BY DEF Init, NotCalling
<1>2. LatestRef /\ CallRefs /\ nrefs \in Nat
  BY <1>1, InitInv, LifecycleAssumption DEF Init, LatestRef, CallRefs, Reviving
<1> QED BY <1>1, <1>2, InitInv
        DEF RevivalInv, ReopensLatest, RevivalIsHeld, OneRevivalPerRef, Reviving, Reopens

\* While a reopen removes the tombstone no further generation is registered.
\* Then concurrent ensureLive calls coalesce: however many callers, kills, parks
\* and generations interleave, no two of them revive one reference.
THEOREM RevivalsCoalesce ==
  ASSUME ~SlowRemoval
  PROVE  Spec => []OneRevivalPerRef
<1>1. RevivalInv /\ [Next]_vars => RevivalInv'
  BY NextKeepsRevivals
<1>2. RevivalInv => OneRevivalPerRef
  BY DEF RevivalInv
<1> QED BY <1>1, <1>2, InitRevivals, PTL DEF Spec
=============================================================================
