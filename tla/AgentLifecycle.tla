--------------------------- MODULE AgentLifecycle ---------------------------
(***************************************************************************)
(* The lifecycle of one adopted subagent id: the row the AgentRegistry     *)
(* keeps for it (registry/agent-registry.ts) and the AgentLifecycleManager *)
(* that parks, revives, reopens and releases it                            *)
(* (registry/agent-lifecycle.ts), with the session code that calls them:   *)
(* createAgentSession's registration and teardown hook (sdk.ts), the       *)
(* revivers and finalizeSubagentLifecycle (task/executor.ts).              *)
(*                                                                         *)
(* JavaScript runs to completion between two awaits, so one action is one  *)
(* such segment.  Every map of the manager is keyed by the agent id and    *)
(* none of its operations reads the entry of another id: one id is enough. *)
(* A reference (AgentRef) is an object, one per generation of the id, and  *)
(* the code compares references by identity; they are numbered in the      *)
(* order they are registered, and so are sessions.  0 is "none".           *)
(***************************************************************************)
EXTENDS Naturals

CONSTANTS
  Callers,        \* concurrent calls of ensureLive
  Killers,        \* concurrent calls of release
  Owner,          \* the top-level session, whose dispose() tears the manager down
  NoCaller,       \* no call
  MaxRef,         \* bound: generations of the id
  MaxSession,     \* bound: sessions created for the id
  Tombstones,     \* the values of release's `tombstone` option in use
  SlowRemoval,    \* whether the id may be taken again before a reopen has
                  \* removed the tombstone
  LateFailures    \* whether a reviver may throw after its session is attached

Releasers == Killers \cup {Owner}

ASSUME LifecycleAssumption ==
  /\ MaxRef \in Nat \ {0}
  /\ MaxSession \in Nat \ {0}
  /\ NoCaller \notin Callers
  /\ Owner \notin Killers
  /\ Tombstones \subseteq BOOLEAN
  /\ SlowRemoval \in BOOLEAN
  /\ LateFailures \in BOOLEAN

Refs     == 1 .. MaxRef
Sessions == 1 .. MaxSession

VARIABLES
  cur,       \* registry.get(id): the reference registered under the id, or 0
  nrefs,     \* how many references exist
  status,    \* AgentRef.status
  sess,      \* AgentRef.session, or 0
  file,      \* AgentRef.sessionFile is not null
  nsess,     \* how many sessions exist
  sstate,    \* whether a session is open, being disposed, or disposed
  sref,      \* the reference a session was created for (registeredAgentRef)
  adopted,   \* #adopted.get(id)
  park,      \* the park attempt in flight, and whether #parks holds it
  revival,   \* the caller whose revival #revivals holds
  reopening, \* the caller whose reopen #reopens holds
  call,      \* where each ensureLive call is
  got,       \* the session an ensureLive call handed out and its caller still uses
  rel,       \* where each release call is
  spawn,     \* the task executor's run: the spawn of a generation to its finalizer
  mgr,       \* the manager: "up", "disposing" (its dispose runs) or "down"
  factory,   \* #persistedReviverFactory is installed
  tomb       \* the kill tombstone sidecar of the transcript is on disk

registryVars == <<cur, nrefs, status, sess, file>>
sessionVars  == <<nsess, sstate, sref>>
callVars     == <<revival, reopening, call, got>>
managerVars  == <<mgr, factory>>
vars == <<registryVars, sessionVars, adopted, park, callVars, rel, spawn,
          managerVars, tomb>>

Statuses == {"running", "idle", "parked", "aborted"}

NoAdoption == [ref |-> 0, ttl |-> FALSE, revive |-> FALSE, timer |-> FALSE,
               by |-> NoCaller]
NoPark     == [phase |-> "none", ref |-> 0, s |-> 0, cancelled |-> FALSE,
               mapped |-> FALSE]
NotCalling == [pc |-> "idle", ref |-> 0, s |-> 0, on |-> NoCaller]
NoRelease  == [pc |-> "idle", ref |-> 0, live |-> 0, tombstone |-> FALSE]
NoSpawn    == [pc |-> "idle", ref |-> 0, s |-> 0]

Adoptions == [ref: 0 .. MaxRef, ttl: BOOLEAN, revive: BOOLEAN, timer: BOOLEAN,
              by: Callers \cup {NoCaller}]
Parks     == [phase: {"none", "yield", "dispose"}, ref: 0 .. MaxRef,
              s: 0 .. MaxSession, cancelled: BOOLEAN, mapped: BOOLEAN]
CallPcs   == {"idle", "parkCancel", "parkWait", "kept", "resume",
              "reopenProbe", "reopenJoin", "dropTombstone", "reopened",
              "probe", "claim", "build", "attached", "failing", "stale",
              "reviveJoin"}
Calls     == [pc: CallPcs, ref: 0 .. MaxRef, s: 0 .. MaxSession,
              on: Callers \cup {NoCaller}]
Releases  == [pc: {"idle", "parkWait", "strike", "persist", "closing", "owned"},
              ref: 0 .. MaxRef, live: 0 .. MaxSession, tombstone: BOOLEAN]
Spawns    == [pc: {"idle", "probe", "build", "run", "dispose"},
              ref: 0 .. MaxRef, s: 0 .. MaxSession]

\* Every variable holds a value of its kind: references and sessions are
\* within the numbers given out, and each operation is at one of its awaits.
TypeOK ==
  /\ cur \in 0 .. MaxRef
  /\ nrefs \in 0 .. MaxRef
  /\ status \in [Refs -> Statuses]
  /\ sess \in [Refs -> 0 .. MaxSession]
  /\ file \in [Refs -> BOOLEAN]
  /\ nsess \in 0 .. MaxSession
  /\ sstate \in [Sessions -> {"none", "open", "closing", "closed"}]
  /\ sref \in [Sessions -> 0 .. MaxRef]
  /\ adopted \in Adoptions
  /\ park \in Parks
  /\ revival \in Callers \cup {NoCaller}
  /\ reopening \in Callers \cup {NoCaller}
  /\ call \in [Callers -> Calls]
  /\ got \in [Callers -> 0 .. MaxSession]
  /\ rel \in [Releasers -> Releases]
  /\ spawn \in Spawns
  /\ mgr \in {"up", "disposing", "down"}
  /\ factory \in BOOLEAN
  /\ tomb \in BOOLEAN

-----------------------------------------------------------------------------
\* Registry and session operations, as values of the next state

\* #onRegistryEvent, which dispose unsubscribes: the adoption a after ref r
\* went to status st (emitted only when the status changed) ...
OnStatus(a, r, st) ==
  IF mgr # "up" \/ a.ref # r \/ status[r] = st THEN a
  ELSE CASE st = "running" -> [a EXCEPT !.timer = FALSE]
         [] st = "idle" /\ ~park.mapped -> [a EXCEPT !.timer = a.ttl]
         [] OTHER -> a
\* ... and after r was removed from the registry.
OnRemoved(a, r) == IF mgr = "up" /\ a.ref = r THEN NoAdoption ELSE a

\* registry.unregister(id, r) with the adoption at a
Unregister(r, a) ==
  IF cur = r THEN /\ cur' = 0
                  /\ adopted' = OnRemoved(a, r)
  ELSE /\ cur' = cur
       /\ adopted' = a

\* A continuation of a settled promise is queued: it runs before any timer and
\* before whatever waits for a file or a process.
Queued ==
  \/ park.phase = "yield"
  \/ \E c \in Callers : call[c].pc \in {"kept", "resume", "reopened"}
  \/ \E k \in Releasers : rel[k].pc = "strike"

\* A reopen removes the kill's sidecar.
Removing == \E c \in Callers : call[c].pc = "dropTombstone"

\* registry.register: a fresh reference takes the id
Register(st, hasFile) ==
  /\ nrefs < MaxRef
  /\ ~Queued /\ (Removing => SlowRemoval)
  /\ nrefs' = nrefs + 1
  /\ cur' = nrefs + 1
  /\ status' = [status EXCEPT ![nrefs + 1] = st]
  /\ file' = [file EXCEPT ![nrefs + 1] = hasFile]
  /\ UNCHANGED sess

\* A new session, for reference r
Create(r) ==
  /\ nsess < MaxSession
  /\ nsess' = nsess + 1
  /\ sstate' = [sstate EXCEPT ![nsess + 1] = "open"]
  /\ sref' = [sref EXCEPT ![nsess + 1] = r]

\* session.dispose() begins; it is idempotent
BeginDispose(s) ==
  sstate' = [sstate EXCEPT ![s] = IF @ = "open" THEN "closing" ELSE @]

\* isParking(id, r)
IsParking(r) == park.mapped /\ ~park.cancelled /\ park.ref = r

\* unregisterUnlessParked, with the adoption at a: the hook at the end of a
\* session's dispose drops its reference unless that is parked, or killed
\* and detached
UnregisterUnlessParked(r, a) ==
  IF \/ status[r] = "parked"
     \/ status[r] = "aborted" /\ sess[r] = 0
     \/ IsParking(r)
  THEN cur' = cur /\ adopted' = a
  ELSE Unregister(r, a)

\* session.dispose() ends, with the adoption at a
EndDispose(s, a) ==
  /\ sstate' = [sstate EXCEPT ![s] = "closed"]
  /\ UnregisterUnlessParked(sref[s], a)

\* A call has a revival of its own in flight (the entry #revivals got)
Reviving(c)  == call[c].pc \in {"probe", "claim", "build", "attached", "failing", "stale"}

\* The session is built but its reviver has not returned: syncSessionStatus
\* has not subscribed to it yet.
Initializing(s) == \E c \in Callers : call[c].pc = "attached" /\ call[c].s = s

-----------------------------------------------------------------------------
Init ==
  /\ \E restored \in BOOLEAN :
       \* a reference the Agent Hub restored from disk, or nothing
       /\ cur = IF restored THEN 1 ELSE 0
       /\ nrefs = cur
       /\ status = [r \in Refs |-> "parked"]
       /\ file = [r \in Refs |-> restored /\ r = 1]
  /\ sess = [r \in Refs |-> 0]
  /\ nsess = 0
  /\ sstate = [s \in Sessions |-> "none"]
  /\ sref = [s \in Sessions |-> 0]
  /\ adopted = NoAdoption
  /\ park = NoPark
  /\ revival = NoCaller
  /\ reopening = NoCaller
  /\ call = [c \in Callers |-> NotCalling]
  /\ got = [c \in Callers |-> 0]
  /\ rel = [k \in Releasers |-> NoRelease]
  /\ spawn = NoSpawn
  /\ mgr = "up"
  /\ factory \in BOOLEAN
  /\ tomb = FALSE

-----------------------------------------------------------------------------
(* The task executor: a fresh spawn, its run and its finalizer *)

\* createAgentSession with expectedAgentRef = null: register the id when it is
\* free, or reclaim it from a parked reference nothing can revive.
Reclaimable(r) ==
  /\ cur = r /\ r # 0
  /\ status[r] = "parked" /\ sess[r] = 0
  /\ adopted.ref = 0 /\ ~park.mapped /\ revival = NoCaller

SpawnRegisters ==
  /\ \E hasFile \in BOOLEAN : Register("running", hasFile)
  /\ spawn' = [pc |-> "build", ref |-> nrefs + 1, s |-> 0]
  /\ UNCHANGED <<sessionVars, adopted, park, callVars, rel, managerVars, tomb>>

SpawnStart ==
  /\ spawn.pc = "idle" /\ mgr # "down"
  /\ \/ cur = 0 /\ SpawnRegisters
     \/ /\ Reclaimable(cur) /\ ~(file[cur] /\ factory)
        /\ SpawnRegisters
     \/ /\ Reclaimable(cur) /\ file[cur] /\ factory
        /\ spawn' = [pc |-> "probe", ref |-> cur, s |-> 0]
        /\ UNCHANGED <<registryVars, sessionVars, adopted, park, callVars, rel, managerVars, tomb>>

\* The factory answers the reclaim's probe: only a reference it cannot revive,
\* and that is still reclaimable, gives up the id.
SpawnProbed ==
  /\ spawn.pc = "probe"
  /\ \/ Reclaimable(spawn.ref) /\ SpawnRegisters
     \/ /\ spawn' = NoSpawn
        /\ UNCHANGED <<registryVars, sessionVars, adopted, park, callVars, rel, managerVars, tomb>>

\* The new session is attached to the reference it registered.
SpawnAttach ==
  LET r == spawn.ref IN
  /\ spawn.pc = "build"
  /\ cur = r /\ status[r] # "aborted"
  /\ Create(r)
  /\ sess' = [sess EXCEPT ![r] = nsess + 1]
  /\ status' = [status EXCEPT ![r] = "running"]
  /\ adopted' = OnStatus(adopted, r, "running")
  /\ spawn' = [pc |-> "run", ref |-> r, s |-> nsess + 1]
  /\ UNCHANGED <<cur, nrefs, file, park, callVars, rel, managerVars, tomb>>

\* Construction throws, or the reference was replaced or killed meanwhile; what
\* was built is disposed before anyone could reach it.
SpawnFail ==
  /\ spawn.pc = "build"
  /\ UnregisterUnlessParked(spawn.ref, adopted)
  /\ spawn' = NoSpawn
  /\ UNCHANGED <<nrefs, status, sess, file, sessionVars, park, callVars, rel, managerVars, tomb>>

\* syncSessionStatus: the attached session starts or ends a turn.
RunState(st) ==
  /\ cur # 0
  /\ LET s == sess[cur] IN
     /\ s # 0 /\ sstate[s] # "closed" /\ ~Initializing(s)
     /\ status[cur] \notin {"aborted", st}
  /\ status' = [status EXCEPT ![cur] = st]
  /\ adopted' = OnStatus(adopted, cur, st)
  /\ UNCHANGED <<cur, nrefs, sess, file, sessionVars, park, callVars, rel, spawn, managerVars, tomb>>

OwnsRef == cur # 0 /\ sess[cur] = spawn.s

\* finalizeSubagentLifecycle of a kept-alive run: idle, then adopt.
FinalizeKeepAlive(ttl, revive) ==
  /\ spawn.pc = "run" /\ mgr # "down"
  /\ OwnsRef /\ status[cur] # "aborted"
  /\ status' = [status EXCEPT ![cur] = "idle"]
  /\ adopted' = [ref |-> cur, ttl |-> ttl, revive |-> revive, timer |-> ttl,
                 by |-> NoCaller]
  /\ spawn' = NoSpawn
  /\ UNCHANGED <<cur, nrefs, sess, file, sessionVars, park, callVars, rel, managerVars, tomb>>

\* ... of a one-shot run, or of one whose session no longer owns the reference:
\* dispose, then unregister what it owned.
FinalizeDispose ==
  /\ spawn.pc = "run"
  /\ BeginDispose(spawn.s)
  /\ spawn' = [spawn EXCEPT !.pc = "dispose", !.ref = IF OwnsRef THEN cur ELSE 0]
  /\ UNCHANGED <<registryVars, nsess, sref, adopted, park, callVars, rel, managerVars, tomb>>

FinalizeDisposed ==
  /\ spawn.pc = "dispose"
  /\ IF spawn.ref # 0
     THEN /\ sstate' = [sstate EXCEPT ![spawn.s] = "closed"]
          /\ Unregister(spawn.ref, adopted)
     ELSE EndDispose(spawn.s, adopted)
  /\ spawn' = NoSpawn
  /\ UNCHANGED <<nrefs, status, sess, file, nsess, sref, park, callVars, rel, managerVars, tomb>>

-----------------------------------------------------------------------------
(* park *)

\* Mutants: an ended park wakes only the calls that found it detached, or sends
\* the releases to a call's continuation, or forgets them.
WakeCallsDetached ==
  [c \in Callers |->
     IF call[c].pc = "parkWait" THEN [call[c] EXCEPT !.pc = "resume"] ELSE call[c]]
WakeReleasesAsCalls ==
  [k \in Releasers |->
     IF rel[k].pc = "parkWait" THEN [rel[k] EXCEPT !.pc = "resume"] ELSE rel[k]]
WakeReleasesNever == rel

\* The parks that end resolve their promise: who awaits it goes on.
WakeCalls ==
  [c \in Callers |->
     IF call[c].pc = "parkCancel" THEN [call[c] EXCEPT !.pc = "kept"]
     ELSE IF call[c].pc = "parkWait" THEN [call[c] EXCEPT !.pc = "resume"]
     ELSE call[c]]
WakeReleases ==
  [k \in Releasers |->
     IF rel[k].pc = "parkWait" THEN [rel[k] EXCEPT !.pc = "strike"] ELSE rel[k]]

\* The TTL of a revived agent, minutes, is assumed to outlast the removal of one
\* file.
TimersDue == ~Queued /\ ~Removing

\* The TTL timer fires and calls park(id), which coalesces on a park in flight
\* and is refused unless the adoption is the live reference's.  (A park that
\* outlives the manager's dispose ends before another one starts: a bound.)
TimerFires ==
  /\ adopted.timer /\ TimersDue
  /\ adopted' = [adopted EXCEPT !.timer = FALSE]
  /\ park' = IF ~park.mapped /\ cur # 0 /\ adopted.ref = cur /\ sess[cur] # 0
             THEN [phase |-> "yield", ref |-> cur, s |-> sess[cur],
                   cancelled |-> FALSE, mapped |-> TRUE]
             ELSE park
  /\ (park.phase # "none" => park.mapped)
  /\ UNCHANGED <<registryVars, sessionVars, callVars, rel, spawn, managerVars, tomb>>

\* After its yield a park that was cancelled, or whose reference, session or
\* adoption changed, stops there; otherwise it detaches the session, publishes
\* "parked" and only then disposes the session.
ParkStops ==
  \/ park.cancelled
  \/ cur # park.ref \/ sess[park.ref] = 0 \/ sess[park.ref] # park.s
  \/ adopted.ref # park.ref

ParkAborts ==
  /\ park.phase = "yield" /\ ParkStops
  /\ park' = NoPark
  /\ call' = WakeCalls /\ rel' = WakeReleases
  /\ UNCHANGED <<registryVars, sessionVars, adopted, revival, reopening, got, spawn, managerVars, tomb>>

\* Mutant: "parked" is published with the session still attached.
ParkCommitsAttached ==
  /\ park.phase = "yield" /\ ~ParkStops
  /\ park' = [park EXCEPT !.phase = "dispose"]
  /\ status' = [status EXCEPT ![park.ref] = "parked"]
  /\ BeginDispose(park.s)
  /\ UNCHANGED <<cur, nrefs, sess, file, nsess, sref, adopted, callVars, rel, spawn, managerVars, tomb>>

ParkCommits ==
  /\ park.phase = "yield" /\ ~ParkStops
  /\ park' = [park EXCEPT !.phase = "dispose"]
  /\ sess' = [sess EXCEPT ![park.ref] = 0]
  /\ status' = [status EXCEPT ![park.ref] = IF @ = "aborted" THEN @ ELSE "parked"]
  /\ BeginDispose(park.s)
  /\ UNCHANGED <<cur, nrefs, file, nsess, sref, adopted, callVars, rel, spawn, managerVars, tomb>>

ParkEnds ==
  /\ park.phase = "dispose"
  /\ EndDispose(park.s, adopted)
  /\ park' = NoPark
  /\ call' = WakeCalls /\ rel' = WakeReleases
  /\ UNCHANGED <<nrefs, status, sess, file, nsess, sref, revival, reopening, got, spawn, managerVars, tomb>>

-----------------------------------------------------------------------------
(* ensureLive *)

\* The call c returns session s, or throws when s = 0.
Return(c, s) ==
  /\ call' = [call EXCEPT ![c] = NotCalling]
  /\ got' = [got EXCEPT ![c] = s]

\* The promise the calls at pc that joined c share is settled with it.
SettleShared(c, pc, s) ==
  LET Sharing == {x \in Callers : x = c \/ (call[x].pc = pc /\ call[x].on = c)} IN
  /\ call' = [x \in Callers |-> IF x \in Sharing THEN NotCalling ELSE call[x]]
  /\ got' = [x \in Callers |-> IF x \in Sharing THEN s ELSE got[x]]

Settle(c, s) ==
  /\ SettleShared(c, "reviveJoin", s)
  /\ revival' = IF revival = c THEN NoCaller ELSE revival

At(c, pc, r) == call' = [call EXCEPT ![c] = [NotCalling EXCEPT !.pc = pc, !.ref = r]]
Join(c, pc, d) ==
  call' = [call EXCEPT ![c] = [NotCalling EXCEPT !.pc = pc, !.ref = call[d].ref, !.on = d]]

\* Mutant: concurrent revivals do not coalesce.
RevivalOfNone(r) == FALSE

\* The in-flight entries of #revivals and #reopens are for reference r
RevivalOf(r) == revival # NoCaller /\ Reviving(revival) /\ call[revival].ref = r
ReopenOf(r)  == /\ reopening # NoCaller
                /\ call[reopening].pc = "reopenProbe" /\ call[reopening].ref = r

\* A reviver may exist for r: the adoption's, or one the factory is asked for
Revivable(r) ==
  IF adopted.ref = r /\ adopted.revive THEN cur = r /\ status[r] = "parked"
  ELSE status[r] = "parked" /\ file[r] /\ factory

\* What follows once ensureLive holds a reference r that is not killed: join
\* its revival, hand out its session, or start a revival (#resolveAndRevive).
ProceedLive(c, r) ==
  /\ UNCHANGED reopening
  /\ \/ /\ RevivalOf(r)
        /\ Join(c, "reviveJoin", revival)
        /\ UNCHANGED <<got, revival>>
     \/ /\ ~RevivalOf(r) /\ sess[r] # 0
        /\ Return(c, sess[r])
        /\ UNCHANGED revival
     \/ /\ ~RevivalOf(r) /\ sess[r] = 0 /\ Revivable(r)
        /\ At(c, IF adopted.ref = r /\ adopted.revive THEN "claim" ELSE "probe", r)
        /\ revival' = c
        /\ UNCHANGED got
     \/ /\ ~RevivalOf(r) /\ sess[r] = 0 /\ ~Revivable(r)
        /\ Return(c, 0)
        /\ revival' = NoCaller

\* The body of ensureLive after any wait for a park; a killed reference is
\* reopened first (#reopen).
Proceed(c) ==
  \/ /\ cur = 0
     /\ Return(c, 0)
     /\ UNCHANGED <<revival, reopening>>
  \/ /\ cur # 0 /\ status[cur] # "aborted"
     /\ ProceedLive(c, cur)
  \/ /\ cur # 0 /\ status[cur] = "aborted"
     /\ UNCHANGED revival
     /\ \/ /\ ReopenOf(cur)
           /\ Join(c, "reopenJoin", reopening)
           /\ UNCHANGED <<got, reopening>>
        \/ /\ ~ReopenOf(cur) /\ file[cur] /\ factory /\ sess[cur] = 0
           /\ At(c, "reopenProbe", cur)
           /\ reopening' = c
           /\ UNCHANGED got
        \/ /\ ~ReopenOf(cur) /\ ~(file[cur] /\ factory /\ sess[cur] = 0)
           /\ Return(c, 0)
           /\ reopening' = NoCaller

\* ensureLive is called.  A park in flight is cancelled while the session is
\* still attached, and awaited in every case.
EnsureLive(c) ==
  /\ call[c].pc = "idle" /\ got[c] = 0 /\ mgr # "down"
  /\ \/ /\ ~park.mapped
        /\ Proceed(c)
        /\ UNCHANGED park
     \/ /\ park.mapped
        /\ IF cur # 0 /\ sess[cur] # 0 /\ park.phase = "yield"
           THEN /\ park' = [park EXCEPT !.cancelled = TRUE]
                /\ At(c, "parkCancel", cur)
           ELSE /\ At(c, "parkWait", 0)
                /\ UNCHANGED park
        /\ UNCHANGED <<got, revival, reopening>>
  /\ UNCHANGED <<registryVars, sessionVars, adopted, rel, spawn, managerVars, tomb>>

\* Mutant: a kept session's TTL is not armed again.
RearmedNever(r) == adopted

\* The park of reference r it cancelled has stopped: keep the live session and
\* re-arm the TTL.
Rearmed(r) == IF adopted.ref = r /\ status[r] = "idle"
              THEN [adopted EXCEPT !.timer = adopted.ttl] ELSE adopted

Kept(c) ==
  /\ call[c].pc = "kept"
  /\ IF cur # 0 /\ sess[cur] # 0
     THEN /\ adopted' = Rearmed(call[c].ref)
          /\ Return(c, sess[cur])
          /\ UNCHANGED <<revival, reopening>>
     ELSE /\ Proceed(c)
          /\ UNCHANGED adopted
  /\ UNCHANGED <<registryVars, sessionVars, park, rel, spawn, managerVars, tomb>>

Resume(c) ==
  /\ call[c].pc = "resume"
  /\ Proceed(c)
  /\ UNCHANGED <<registryVars, sessionVars, adopted, park, rel, spawn, managerVars, tomb>>

\* The caller is done with the session it was handed.
Forget(c) ==
  /\ got[c] # 0 /\ call[c].pc = "idle"
  /\ got' = [got EXCEPT ![c] = 0]
  /\ UNCHANGED <<registryVars, sessionVars, adopted, park, revival, reopening, call, rel, spawn, managerVars, tomb>>

\* #reopenKilled: the factory says whether the killed transcript can be revived;
\* if so, and the killed reference still holds the id, a fresh parked one
\* replaces it.
ReopenProbed(c) ==
  LET killed == call[c].ref IN
  /\ call[c].pc = "reopenProbe"
  /\ \/ /\ mgr = "up"
        /\ cur = killed /\ status[killed] = "aborted" /\ sess[killed] = 0
        /\ Register("parked", file[killed])
        /\ call' = [call EXCEPT ![c].pc = "dropTombstone", ![c].ref = nrefs + 1]
        /\ UNCHANGED <<got, reopening>>
     \/ /\ SettleShared(c, "reopenJoin", 0)
        /\ reopening' = IF reopening = c THEN NoCaller ELSE reopening
        /\ UNCHANGED registryVars
  /\ UNCHANGED <<sessionVars, adopted, park, revival, rel, spawn, managerVars, tomb>>

\* removeAgentTombstone is done; the calls that share the reopen go on.
DropTombstone(c) ==
  /\ call[c].pc = "dropTombstone"
  /\ tomb' = FALSE
  /\ call' = [x \in Callers |->
                IF x = c \/ (call[x].pc = "reopenJoin" /\ call[x].on = c)
                THEN [NotCalling EXCEPT !.pc = "reopened", !.ref = call[c].ref]
                ELSE call[x]]
  /\ reopening' = IF reopening = c THEN NoCaller ELSE reopening
  /\ UNCHANGED <<registryVars, sessionVars, adopted, park, revival, got, rel, spawn, managerVars>>

Reopened(c) ==
  /\ call[c].pc = "reopened"
  /\ ProceedLive(c, call[c].ref)
  /\ UNCHANGED <<registryVars, sessionVars, adopted, park, rel, spawn, managerVars, tomb>>

-----------------------------------------------------------------------------
(* #resolveAndRevive and #revive, by the call that owns the revival *)

\* A failed revival drops the cold adoption it made, if that is still in place;
\* a successful one keeps it.
DropCold(c, a) == IF a.by = c THEN NoAdoption ELSE a
KeepCold(c, a) == IF a.by = c THEN [a EXCEPT !.by = NoCaller] ELSE a

Fail(c) ==
  /\ Settle(c, 0)
  /\ adopted' = DropCold(c, adopted)

\* The persisted factory answers a cold revival.  With a reviver the reference
\* is adopted, whoever holds the adoption by then; only afterwards does the
\* call look whether the reference is still the one registered and parked.
Probed(c) ==
  LET r == call[c].ref IN
  /\ call[c].pc = "probe"
  /\ \/ /\ mgr = "up"
        /\ \E ttl \in BOOLEAN :
             LET cold == [ref |-> r, ttl |-> ttl, revive |-> TRUE,
                          timer |-> FALSE, by |-> NoCaller] IN
             IF cur = r /\ status[r] = "parked"
             THEN /\ adopted' = [cold EXCEPT !.by = c]
                  /\ call' = [call EXCEPT ![c].pc = "claim"]
                  /\ UNCHANGED <<got, revival>>
             ELSE /\ adopted' = cold
                  /\ Settle(c, 0)
     \/ /\ Settle(c, 0)
        /\ UNCHANGED adopted
  /\ UNCHANGED <<registryVars, sessionVars, park, reopening, rel, spawn, managerVars, tomb>>

\* createAgentSession with the expected reference: registerIfAvailable reuses
\* it only while it is parked and detached.
ReviverClaims(c) ==
  LET r == call[c].ref IN
  /\ call[c].pc = "claim"
  /\ cur = r /\ status[r] = "parked" /\ sess[r] = 0
  /\ call' = [call EXCEPT ![c].pc = "build"]
  /\ UNCHANGED <<registryVars, sessionVars, adopted, park, revival, reopening, got, rel, spawn, managerVars, tomb>>

\* The rebuilt session is attached and published as running; the reviver still
\* has to initialize it.
ReviverAttaches(c) ==
  LET r == call[c].ref IN
  /\ call[c].pc = "build"
  /\ cur = r /\ status[r] # "aborted"
  /\ Create(r)
  /\ sess' = [sess EXCEPT ![r] = nsess + 1]
  /\ status' = [status EXCEPT ![r] = "running"]
  /\ adopted' = OnStatus(adopted, r, "running")
  /\ call' = [call EXCEPT ![c].pc = "attached", ![c].s = nsess + 1]
  /\ UNCHANGED <<cur, nrefs, file, park, revival, reopening, got, rel, spawn, managerVars, tomb>>

\* The reviver throws before anything is attached: always when the reference
\* was replaced or killed, and whenever the transcript cannot be reopened.
ReviverFails(c) ==
  /\ call[c].pc \in {"claim", "build"}
  /\ Fail(c)
  /\ UNCHANGED <<registryVars, sessionVars, park, reopening, rel, spawn, managerVars, tomb>>

\* createAgentSession throws after the attach and disposes what it built.
ReviverUnwinds(c) ==
  /\ LateFailures /\ call[c].pc = "attached"
  /\ BeginDispose(call[c].s)
  /\ call' = [call EXCEPT ![c].pc = "failing"]
  /\ UNCHANGED <<registryVars, nsess, sref, adopted, park, revival, reopening, got, rel, spawn, managerVars, tomb>>

\* The reviver throws after createAgentSession returned (setActiveToolsByName,
\* initializeExtensions): nothing disposes or detaches the session.
ReviverFailsLate(c) ==
  /\ LateFailures /\ call[c].pc = "attached"
  /\ Fail(c)
  /\ UNCHANGED <<registryVars, sessionVars, park, reopening, rel, spawn, managerVars, tomb>>

\* The reviver returned session s for r while the manager is up: it is published
\* as idle, the event arms the TTL, and every call that joined is handed s.
Publish(c, r, s) ==
  /\ sess' = [sess EXCEPT ![r] = s]
  /\ status' = [status EXCEPT ![r] = "idle"]
  /\ adopted' = OnStatus(KeepCold(c, adopted), r, "idle")
  /\ Settle(c, s)

\* Mutant: the reviver's session is published without looking at the registry.
StillOursUnchecked(r, s) == TRUE

\* ... a session it attached itself, unless r was replaced, killed or taken over
\* meanwhile: then s is disposed.
StillOurs(r, s) ==
  /\ cur = r
  /\ \/ status[r] = "parked" /\ sess[r] = 0
     \/ status[r] = "running" /\ sess[r] = s

ReviverReturns(c) ==
  LET r == call[c].ref  s == call[c].s IN
  /\ call[c].pc = "attached"
  /\ \/ /\ mgr = "up" /\ StillOurs(r, s)
        /\ Publish(c, r, s)
        /\ UNCHANGED sstate
     \/ /\ ~(mgr = "up" /\ StillOurs(r, s))
        /\ BeginDispose(s)
        /\ call' = [call EXCEPT ![c].pc = "stale"]
        /\ UNCHANGED <<sess, status, adopted, got, revival>>
  /\ UNCHANGED <<cur, nrefs, file, nsess, sref, park, reopening, rel, spawn, mgr, factory, tomb>>

\* ... or, a simple reviver, one it never attached.
ReviverReturnsDetached(c) ==
  LET r == call[c].ref  s == nsess + 1 IN
  /\ call[c].pc = "claim" /\ nsess < MaxSession
  /\ nsess' = s
  /\ sref' = [sref EXCEPT ![s] = r]
  /\ IF mgr = "up" /\ cur = r /\ status[r] = "parked" /\ sess[r] = 0
     THEN /\ sstate' = [sstate EXCEPT ![s] = "open"]
          /\ Publish(c, r, s)
     ELSE /\ sstate' = [sstate EXCEPT ![s] = "closing"]
          /\ call' = [call EXCEPT ![c].pc = "stale", ![c].s = s]
          /\ UNCHANGED <<sess, status, adopted, got, revival>>
  /\ UNCHANGED <<cur, nrefs, file, park, reopening, rel, spawn, managerVars, tomb>>

\* The session of a failed or stale revival is disposed; the revival throws.
DiscardEnds(c) ==
  /\ call[c].pc \in {"failing", "stale"}
  /\ EndDispose(call[c].s, DropCold(c, adopted))
  /\ Settle(c, 0)
  /\ UNCHANGED <<nrefs, status, sess, file, nsess, sref, park, reopening, rel, spawn, managerVars, tomb>>

-----------------------------------------------------------------------------
(* release and dispose *)

\* Mutant: a kill reads the session after detaching it.
LiveOfDetached(r, t) == IF cur = r /\ ~t THEN sess[r] ELSE 0

\* The session a release of r disposes, read before a kill detaches it
LiveOf(r, t) == IF cur = r THEN sess[r] ELSE 0

\* Mutant: a kill publishes "aborted" but leaves the session attached.
StrikeAttached(k, r, t, a) ==
  LET live == LiveOf(r, t) IN
  /\ status' = IF t /\ cur = r THEN [status EXCEPT ![r] = "aborted"] ELSE status
  /\ adopted' = a
  /\ IF live # 0 THEN BeginDispose(live) ELSE UNCHANGED sstate
  /\ rel' = [rel EXCEPT ![k] = [pc |-> IF live # 0 THEN "closing" ELSE "owned",
                                ref |-> r, live |-> live, tombstone |-> t]]
  /\ UNCHANGED sess

\* The body of release(id, r, {tombstone: t}) after any wait for a park, with
\* the adoption at a.  A kill detaches the session and publishes "aborted" at
\* once, then writes the tombstone; a plain release disposes the session while
\* it is still attached.
Strike(k, r, t, a) ==
  LET live == LiveOf(r, t)
      persists == t /\ file[r]
  IN
  /\ sess' = IF t /\ cur = r THEN [sess EXCEPT ![r] = 0] ELSE sess
  /\ status' = IF t /\ cur = r THEN [status EXCEPT ![r] = "aborted"] ELSE status
  /\ adopted' = a
  /\ IF live # 0 /\ ~persists THEN BeginDispose(live) ELSE UNCHANGED sstate
  /\ rel' = [rel EXCEPT ![k] =
               [pc |-> IF persists THEN "persist"
                       ELSE IF live # 0 THEN "closing" ELSE "owned",
                ref |-> r, live |-> live, tombstone |-> t]]

\* release(id, expected, {tombstone: t}) is called; expected = 0 is undefined.
\* It acts on the registered reference, or on the adopted one, that matches.
Released(expected) ==
  IF cur # 0 /\ expected \in {0, cur} THEN cur
  ELSE IF adopted.ref # 0 /\ expected \in {0, adopted.ref} THEN adopted.ref
  ELSE 0

Release(k, expected, t) ==
  LET r == Released(expected)
      a == IF adopted.ref = r THEN NoAdoption ELSE adopted
  IN
  /\ rel[k].pc = "idle" /\ r # 0
  /\ IF park.mapped /\ park.ref = r
     THEN /\ park' = [park EXCEPT !.cancelled = park.cancelled \/ park.phase = "yield"]
          /\ rel' = [rel EXCEPT ![k] = [pc |-> "parkWait", ref |-> r, live |-> 0,
                                        tombstone |-> t]]
          /\ adopted' = a
          /\ UNCHANGED <<sess, status, sstate>>
     ELSE /\ Strike(k, r, t, a)
          /\ UNCHANGED park
  /\ UNCHANGED <<cur, nrefs, file, nsess, sref, callVars, factory, tomb>>

\* A kill (job control, Agent Hub, RPC) or a run that must not be kept alive.
ReleaseCalled(k, expected, t) ==
  /\ mgr # "down"
  /\ Release(k, expected, t)
  /\ UNCHANGED <<spawn, mgr>>

FinalizeAborted(k, t) ==
  /\ spawn.pc = "run" /\ OwnsRef /\ mgr # "down"
  /\ Release(k, cur, t)
  /\ spawn' = NoSpawn
  /\ UNCHANGED mgr

ReleaseStrikes(k) ==
  /\ rel[k].pc = "strike"
  /\ Strike(k, rel[k].ref, rel[k].tombstone, adopted)
  /\ UNCHANGED <<cur, nrefs, file, nsess, sref, park, callVars, spawn, managerVars, tomb>>

\* persistAgentTombstone ends, written or failed; the session is disposed in
\* both cases.
TombstonePersisted(k, written) ==
  /\ rel[k].pc = "persist"
  /\ tomb' = (tomb \/ written)
  /\ rel' = [rel EXCEPT ![k].pc = IF rel[k].live # 0 THEN "closing" ELSE "owned"]
  /\ IF rel[k].live # 0 THEN BeginDispose(rel[k].live) ELSE UNCHANGED sstate
  /\ UNCHANGED <<registryVars, nsess, sref, adopted, park, callVars, spawn, managerVars>>

ReleaseDisposed(k) ==
  /\ rel[k].pc = "closing"
  /\ EndDispose(rel[k].live, adopted)
  /\ rel' = [rel EXCEPT ![k].pc = "owned"]
  /\ UNCHANGED <<nrefs, status, sess, file, nsess, sref, park, callVars, spawn, managerVars, tomb>>

\* onRelease has run; a plain release ends by unregistering the reference.
ReleaseEnds(k) ==
  /\ rel[k].pc = "owned"
  /\ IF rel[k].tombstone THEN UNCHANGED <<cur, adopted>>
     ELSE Unregister(rel[k].ref, adopted)
  /\ rel' = [rel EXCEPT ![k] = NoRelease]
  /\ UNCHANGED <<nrefs, status, sess, file, sessionVars, park, callVars, spawn, managerVars, tomb>>

\* The owner's dispose(): unsubscribe and release the adopted or parking agent.
DisposeBegins ==
  /\ mgr = "up"
  /\ mgr' = "disposing"
  /\ IF (adopted.ref # 0 \/ park.mapped) /\ Released(0) # 0
     THEN Release(Owner, 0, FALSE)
     ELSE UNCHANGED <<registryVars, sessionVars, adopted, park, callVars, rel, factory, tomb>>
  /\ UNCHANGED spawn

\* That release settled, or its deadline passed.
DisposeEnds ==
  /\ mgr = "disposing"
  /\ mgr' = "down"
  /\ revival' = NoCaller
  /\ park' = [park EXCEPT !.mapped = FALSE]
  /\ factory' = FALSE
  /\ UNCHANGED <<registryVars, sessionVars, adopted, reopening, call, got, rel, spawn, tomb>>

-----------------------------------------------------------------------------
SpawnNext ==
  \/ SpawnStart \/ SpawnProbed \/ SpawnAttach \/ SpawnFail
  \/ \E ttl, revive \in BOOLEAN : FinalizeKeepAlive(ttl, revive)
  \/ FinalizeDispose \/ FinalizeDisposed

ParkNext == ParkAborts \/ ParkCommits \/ ParkEnds

\* A step of an ensureLive call that is under way
CallStep(c) ==
  \/ Kept(c) \/ Resume(c) \/ ReopenProbed(c) \/ DropTombstone(c) \/ Reopened(c)
  \/ Probed(c) \/ ReviverClaims(c) \/ ReviverAttaches(c) \/ ReviverFails(c)
  \/ ReviverUnwinds(c) \/ ReviverFailsLate(c) \/ ReviverReturns(c)
  \/ ReviverReturnsDetached(c) \/ DiscardEnds(c)

\* A step of a release call that is under way
ReleaseStep(k) ==
  \/ ReleaseStrikes(k) \/ ReleaseDisposed(k) \/ ReleaseEnds(k)
  \/ \E written \in BOOLEAN : TombstonePersisted(k, written)

Next ==
  \/ SpawnNext
  \/ \E st \in {"running", "idle"} : RunState(st)
  \/ TimerFires \/ ParkNext
  \/ \E c \in Callers : EnsureLive(c) \/ Forget(c) \/ CallStep(c)
  \/ \E k \in Killers, expected \in 0 .. MaxRef, t \in Tombstones :
       ReleaseCalled(k, expected, t)
  \/ \E k \in Killers, t \in Tombstones : FinalizeAborted(k, t)
  \/ \E k \in Releasers : ReleaseStep(k)
  \/ DisposeBegins \/ DisposeEnds

Spec == Init /\ [][Next]_vars

\* A started operation goes on: promises settle, file writes, disposals and the
\* revivers end.  Nothing is promised about calls, timers or the spawn.
Fairness ==
  /\ WF_vars(ParkNext)
  /\ \A c \in Callers : WF_vars(CallStep(c))
  /\ \A k \in Releasers : WF_vars(ReleaseStep(k))

FairSpec == Spec /\ Fairness

-----------------------------------------------------------------------------
(* Properties *)

\* A parked or killed reference carries no session: whoever reads ref.session
\* of a retained row can never reach a session that is being torn down
\* ("Null exactly when parked/aborted", and unregisterUnlessParked relies on it).
RetainedIsDetached ==
  \A r \in Refs : status[r] \in {"parked", "aborted"} => sess[r] = 0

\* A session that a park, a kill or a stale revival is disposing is no longer
\* the registered reference's session, so a message cannot be routed into it.
DetachedBeforeDispose ==
  cur # 0 /\ sess[cur] # 0 =>
    /\ ~(park.phase = "dispose" /\ park.s = sess[cur])
    /\ \A k \in Releasers : rel[k].tombstone => rel[k].live # sess[cur]
    /\ mgr = "up" => \A c \in Callers : call[c].pc = "stale" => call[c].s # sess[cur]

\* Concurrent ensureLive calls coalesce: one reference is never being revived
\* twice, which would open its transcript twice.
OneRevivalPerRef ==
  mgr # "down" => \A c, d \in Callers :
    c # d /\ Reviving(c) /\ Reviving(d) => call[c].ref # call[d].ref

\* ensureLive returns the session the registry routes messages to, at the
\* moment it returns.
ReturnsRoutedSession ==
  [][\A c \in Callers :
       mgr = "up" /\ got[c] = 0 /\ got'[c] # 0 => cur' # 0 /\ sess'[cur'] = got'[c]]_vars

\* An adopted idle agent with a TTL has its timer armed, unless a park is in
\* flight or a call that cancelled one is about to re-arm it: no interleaving
\* of turns, parks, revivals and kills leaves it live for ever.
IdleIsArmed ==
  (/\ mgr = "up" /\ cur # 0 /\ adopted.ref = cur /\ status[cur] = "idle"
   /\ adopted.ttl /\ ~park.mapped
   /\ \A c \in Callers : ~(call[c].pc = "kept" /\ call[c].ref = cur))
  => adopted.timer

\* A killed reference is terminal: delayed work of the killed generation never
\* brings it back, only reopening mints a new one.
KilledIsTerminal ==
  [][\A r \in Refs : status[r] = "aborted" /\ r <= nrefs => status'[r] = "aborted"]_vars

\* As long as the manager is up, every session that is open can be reached to be
\* disposed: through the registry, by the executor that runs it, or by an
\* operation in flight on it.
NoSessionIsLost ==
  mgr = "up" => \A s \in Sessions : sstate[s] = "open" =>
    \/ cur # 0 /\ sess[cur] = s
    \/ spawn.pc = "run" /\ spawn.s = s
    \/ \E c \in Callers : call[c].s = s
    \/ \E k \in Releasers : rel[k].live = s

\* Every ensureLive call is answered, with a session or an error.
EnsureLiveSettles == \A c \in Callers : call[c].pc # "idle" ~> call[c].pc = "idle"

\* Every release ends.
ReleaseSettles == \A k \in Releasers : rel[k].pc # "idle" ~> rel[k].pc = "idle"

-----------------------------------------------------------------------------
(* What the repository states and the code does not keep *)

\* "Concurrent calls share one in-flight revive": two revivers never build a
\* session from the transcript of one reference.
Opening(c) == call[c].pc \in {"claim", "build", "attached"}

TranscriptOpenedOnce ==
  mgr # "down" => \A c, d \in Callers :
    c # d /\ Opening(c) /\ Opening(d) => call[c].ref # call[d].ref

\* "stale async work ... can never clobber a newer same-id ref": the adoption of
\* the registered reference is never replaced by one of an older reference.
StaleNeverClobbers ==
  [][cur # 0 /\ cur' = cur /\ adopted.ref = cur => adopted'.ref \in {0, cur}]_vars
=============================================================================
