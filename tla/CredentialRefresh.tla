------------------------ MODULE CredentialRefresh ------------------------
(* The refresh of one stored OAuth login by the processes that share its row.  A
   provider that rotates refresh tokens accepts each of them once, so the processes
   take turns: a refresh (packages/ai/src/auth/refresh.ts) leases the row, exchanges the
   row's token and saves the successor by compare-and-set, under a lease it must renew
   (auth/sqlite-credential-store.ts).  Processes die and stall, leases lapse and are taken
   over, and a rejected token may still have a successor that is being saved.

   Tokens are numbered in the order the provider mints them.  Time shows only in what it
   lets happen: a lease lapses, and the window (OAUTH_REFRESH_STALLED_OWNER_MS) passes
   after which the owner of a lapsed lease can no longer be saving.  A store that is busy
   delays a step, and the step is then taken later. *)
EXTENDS Naturals

CONSTANTS
  Procs,      \* the processes that share the store
  Calls,      \* the calls of refreshStored, each with an owner id of its own
  ProcOf,     \* the process of each call
  Forced,     \* the calls that replace a token even if it has not expired
  Probes,     \* the calls made for a usage probe
  Hasty,      \* the calls whose save window may end while a peer holds the lease
  Mortal,     \* bound: the processes that may die
  MaxStall,   \* bound: stalls longer than a lease lives
  MaxLogin,   \* bound: logins
  None

ASSUME CredentialAssumptions ==
  /\ ProcOf \in [Calls -> Procs]
  /\ Forced \subseteq Calls /\ Probes \subseteq Calls /\ Hasty \subseteq Calls
  /\ Mortal \subseteq Procs
  /\ MaxStall \in Nat /\ MaxLogin \in Nat
  /\ None \notin Calls

VARIABLES
  row,     \* the stored login: its token, whether it has not expired, whether it is enabled
  lease,   \* the lease row: its owner, and whether it has lapsed
  call,    \* every call, with what it read and was granted
  mark,    \* #stalledRefreshes of every process
  spent,   \* the tokens the provider has exchanged
  last,    \* the token it minted last
  lapses,  \* calls whose lease lapsed within the window
  earlier, \* pairs of them, the first of which lapsed before the second
  gone,    \* calls whose lease lapsed before that
  stalls,  \* stalls so far
  logins,  \* logins so far
  dead     \* processes that died

login == <<row, spent, last, logins>>
clock == <<lapses, earlier, gone, stalls>>
vars  == <<login, lease, call, mark, clock, dead>>

Free    == [owner |-> None, lapsed |-> TRUE]
NoMark  == [tok |-> 0, holder |-> None]
NewCall == [at |-> "idle", seen |-> 0, tok |-> 0, new |-> 0, lost |-> FALSE, slept |-> FALSE,
            from |-> Free, then |-> "done"]

Init ==
  /\ row = [tok |-> 0, fresh |-> FALSE, up |-> TRUE]
  /\ lease = Free
  /\ call = [c \in Calls |-> NewCall]
  /\ mark = [p \in Procs |-> NoMark]
  /\ spent = {} /\ last = 0
  /\ lapses = {} /\ earlier = {} /\ gone = {} /\ stalls = 0
  /\ logins = 0 /\ dead = {}

At(c, S)   == call[c].at \in S
Live(c)    == ProcOf[c] \notin dead
Ready(c, S) == Live(c) /\ At(c, S)
Goes(c, s) == call' = [call EXCEPT ![c].at = s]

\* The call is over: nothing of what it read is used again.
Ends(c, s) == call' = [call EXCEPT ![c] = [NewCall EXCEPT !.at = s]]

\* To the end of the call, which leaves the lease.
LeavesTo(c, s, holder) ==
  call' = [call EXCEPT ![c] = [NewCall EXCEPT !.at = "leave", !.then = s, !.from = holder,
                                              !.tok = IF s = "refused" THEN call[c].tok ELSE 0]]
Leaves(c, s) == LeavesTo(c, s, call[c].from)

\* The result is the caller's; a probe's failure goes on to whoever joined it.
Returns(c) == IF call[c].then = "refused" THEN Goes(c, "refused") ELSE Ends(c, call[c].then)

---------------------------------------------------------------------------
(* Getting the lease.                                                      *)

\* The caller takes the row as it is: there is none, or its token has not expired and is
\* not the one it wants replaced.
Adoptable(c) == ~row.up \/ (row.fresh /\ (c \in Forced => row.tok # call[c].seen))

\* A process awaits one refresh of a login at a time; an exchange may go on behind it.
Awaited == {"wait", "holder", "leased"}

RefreshStored(c) ==
  /\ Ready(c, {"idle"})
  /\ row.up
  /\ row.fresh => c \in Forced
  /\ \A d \in Calls : ProcOf[d] = ProcOf[c] => ~At(d, Awaited)
  /\ call' = [call EXCEPT ![c].at = "wait",
                             ![c].seen = IF c \in Forced THEN row.tok ELSE 0]
  /\ UNCHANGED <<login, lease, mark, clock, dead>>

Adopts(c) ==
  /\ Ready(c, {"wait"})
  /\ Adoptable(c)
  /\ Ends(c, "done")
  /\ UNCHANGED <<login, lease, mark, clock, dead>>

\* The budget ends, or the caller aborts.
GivesUp(c) ==
  /\ Ready(c, {"wait"})
  /\ Ends(c, "done")
  /\ UNCHANGED <<login, lease, mark, clock, dead>>

\* The process saw this very token rejected and waits for its successor.
Waits(p) == mark[p].holder \notin gone \cup {None} /\ mark[p].tok = row.tok

ReadHolder(c) ==
  /\ Ready(c, {"wait"})
  /\ ~Adoptable(c)
  /\ ~Waits(ProcOf[c])
  /\ mark' = [mark EXCEPT ![ProcOf[c]] = NoMark]
  /\ call' = [call EXCEPT ![c].at = "holder", ![c].from = lease]
  /\ UNCHANGED <<login, lease, clock, dead>>

\* Mutant: the row is taken whether or not its lease has lapsed.
AcquirableAnyway(c) == TRUE

\* The row is inserted, or updated if it has lapsed.
Acquirable(c) == lease.lapsed

\* The prior holder, unless it lapsed so long ago that it cannot be saving any more.
TakenFrom(c) == IF call[c].from.owner \in gone THEN Free ELSE call[c].from

TryAcquire(c) ==
  /\ Ready(c, {"holder"})
  /\ Acquirable(c)
  /\ lease' = [owner |-> c, lapsed |-> FALSE]
  /\ call' = [call EXCEPT ![c].at = "leased", ![c].from = TakenFrom(c)]
  /\ UNCHANGED <<login, mark, clock, dead>>

\* It is held, and the call tries again after a pause.
FindsLeaseHeld(c) ==
  /\ Ready(c, {"holder"})
  /\ ~Acquirable(c)
  /\ call' = [call EXCEPT ![c].at = "wait", ![c].from = Free]
  /\ UNCHANGED <<login, lease, mark, clock, dead>>

\* The lease of c lapsed, the latest to do so.
LapsesNow(c) ==
  /\ lapses' = lapses \cup {c}
  /\ earlier' = (earlier \cap ((Calls \ {c}) \X (Calls \ {c}))) \cup ((lapses \ {c}) \X {c})

---------------------------------------------------------------------------
(* The exchange.                                                           *)

\* The row is read again under the lease.
StartExchange(c) ==
  /\ Ready(c, {"leased"})
  /\ ~Adoptable(c)
  /\ call' = [call EXCEPT ![c].at = "exchange", ![c].seen = 0, ![c].tok = row.tok]
  /\ UNCHANGED <<login, lease, mark, clock, dead>>

\* A peer saved meanwhile, the budget is spent, or the caller aborts.
LeavesEarly(c) ==
  /\ Ready(c, {"leased"})
  /\ Leaves(c, "done")
  /\ UNCHANGED <<login, lease, mark, clock, dead>>

\* The provider takes the token and mints its successor, and may do so after the process
\* died; an answer that is cut off leaves the refresh waiting for its backstop.
ProviderGrants(c) ==
  /\ At(c, {"exchange"})
  /\ call[c].tok \notin spent
  /\ spent' = spent \cup {call[c].tok}
  /\ last' = last + 1
  /\ IF Live(c)
     THEN \/ call' = [call EXCEPT ![c].at = "granted", ![c].new = last + 1]
          \/ Goes(c, "cut")
     ELSE Ends(c, "done")
  /\ UNCHANGED <<row, logins, lease, mark, clock, dead>>

ProviderRejects(c) ==
  /\ Ready(c, {"exchange"})
  /\ call[c].tok \in spent
  /\ Goes(c, "rejected")
  /\ UNCHANGED <<login, lease, mark, clock, dead>>

\* The request fails, or the backstop ends it.
Fails(c) ==
  /\ Ready(c, {"exchange", "cut"})
  /\ Leaves(c, "done")
  /\ UNCHANGED <<login, lease, mark, clock, dead>>

\* The renewal loop.  An expired lease no peer took is taken back; one that a peer holds
\* ends the loop.  (Renewing a lease that has not lapsed changes nothing here.)
Renew(c) ==
  /\ Ready(c, {"exchange", "cut", "rejected"})
  /\ ~call[c].lost
  /\ \/ /\ lease.lapsed
        /\ lease' = [owner |-> c, lapsed |-> FALSE]
        /\ UNCHANGED call
     \/ /\ ~lease.lapsed /\ lease.owner # c
        /\ call' = [call EXCEPT ![c].lost = TRUE]
        /\ UNCHANGED lease
  /\ UNCHANGED <<login, mark, clock, dead>>

Holds(c) == lease.owner = c /\ ~lease.lapsed

\* Mutant: every rejection is taken for one after a takeover.
TookOverAnyway(c) == TRUE

\* Whether the lease had another owner, who may still be saving.
TookOver(c) == call[c].from.owner # None

\* A definitive rejection after a takeover: the process remembers the token, and hands
\* the lease back.
NotesStalled(c) ==
  /\ Ready(c, {"rejected"})
  /\ c \notin Probes /\ TookOver(c)
  /\ mark' = [mark EXCEPT ![ProcOf[c]] = [tok |-> call[c].tok, holder |-> call[c].from.owner]]
  /\ LET h == call[c].from.owner  \* its lease may have been read before it lapsed
     IN  IF h \in lapses \cup gone THEN UNCHANGED <<lapses, earlier>> ELSE LapsesNow(h)
  /\ Leaves(c, "done")
  /\ UNCHANGED <<login, lease, gone, stalls, dead>>

\* A rejection without one disables the login, if the lease and the token still stand.
Disable(c) ==
  /\ Ready(c, {"rejected"})
  /\ c \notin Probes /\ ~TookOver(c)
  /\ IF row.up /\ row.tok = call[c].tok /\ Holds(c)
     THEN row' = [row EXCEPT !.up = FALSE] /\ Leaves(c, "disabled")
     ELSE UNCHANGED row /\ Leaves(c, "done")
  /\ UNCHANGED <<spent, last, logins, lease, mark, clock, dead>>

\* A usage probe only fails, with the provider's own error.
ProbeFails(c) ==
  /\ Ready(c, {"rejected"})
  /\ c \in Probes
  /\ Leaves(c, "refused")
  /\ UNCHANGED <<login, lease, mark, clock, dead>>

\* An interactive request that joined the probe's refresh gets that error and disables
\* the login itself; or nothing joined it.
JoinerDisables(c) ==
  /\ Ready(c, {"refused"})
  /\ row' = [row EXCEPT !.up = @ /\ row.tok # call[c].tok]
  /\ Ends(c, "done")
  /\ UNCHANGED <<spent, last, logins, lease, mark, clock, dead>>

NobodyJoined(c) ==
  /\ Ready(c, {"refused"})
  /\ Ends(c, "done")
  /\ UNCHANGED <<login, lease, mark, clock, dead>>

---------------------------------------------------------------------------
(* The save.                                                               *)

\* Mutant: the save only renews, as if a lapsed lease were never left to somebody else.
CanFenceIfOwner(c) == lease.owner = c

\* The lease is renewed, or taken back once it has lapsed.
CanFence(c) == lease.owner = c \/ lease.lapsed

\* Mutant: the row is written whatever token it holds by now.
UnchangedIfEnabled(c) == row.up

Unchanged(c) == row.up /\ row.tok = call[c].tok

Saves(c) ==
  /\ Ready(c, {"granted"})
  /\ CanFence(c) /\ Unchanged(c)
  /\ lease' = [owner |-> c, lapsed |-> FALSE]
  /\ row' = [tok |-> call[c].new, fresh |-> TRUE, up |-> TRUE]
  /\ LeavesTo(c, "done", Free)
  /\ UNCHANGED <<spent, last, logins, mark, clock, dead>>

\* Somebody changed the row: the token is dropped.
FindsRowChanged(c) ==
  /\ Ready(c, {"granted"})
  /\ ~Unchanged(c)
  /\ lease' = IF CanFence(c) THEN [owner |-> c, lapsed |-> FALSE] ELSE lease
  /\ Leaves(c, "done")
  /\ UNCHANGED <<login, mark, clock, dead>>

\* The save window ends while a peer holds the lease.
SaveWindowEnds(c) ==
  /\ Ready(c, {"granted"})
  /\ c \in Hasty
  /\ ~CanFence(c)
  /\ Leaves(c, "done")
  /\ UNCHANGED <<login, lease, mark, clock, dead>>

---------------------------------------------------------------------------
(* Leaving the lease.                                                      *)

\* Mutant: a lease that was taken over is released, like any other.
LeftToNobody(c) == Free

\* A lease taken over goes back to its prior holder; any other is released.
LeftTo(c) == call[c].from

LeaveLease(c) ==
  /\ Ready(c, {"leave"})
  /\ lease' = IF lease.owner = c THEN LeftTo(c) ELSE lease
  /\ Returns(c)
  /\ UNCHANGED <<login, mark, clock, dead>>

\* The store stays busy: the lease keeps its owner and will lapse.
KeepsLease(c) ==
  /\ Ready(c, {"leave"})
  /\ lease.owner = c
  /\ Returns(c)
  /\ UNCHANGED <<login, lease, mark, clock, dead>>

---------------------------------------------------------------------------
(* Time, failures and the user.                                            *)

\* The call awaits the provider or saves, and renews the lease unless its process stalls.
Busy(c) == Ready(c, {"exchange", "cut", "rejected", "granted"})

\* A lease that is not renewed runs out.  No process pauses for the life of a lease between
\* reading its owner, acquiring it and reading the row again, which nothing awaits.
Lapse ==
  /\ ~lease.lapsed
  /\ LET o == lease.owner
     IN  /\ ~Ready(o, {"leased"})
         /\ \A d \in Calls : Ready(d, {"holder"}) => call[d].from.owner = o
         /\ IF Busy(o) THEN /\ stalls < MaxStall
                            /\ stalls' = stalls + 1
                            /\ call' = [call EXCEPT ![o].slept = TRUE]
                       ELSE UNCHANGED <<stalls, call>>
         /\ IF o \in gone THEN UNCHANGED <<lapses, earlier>> ELSE LapsesNow(o)
  /\ lease' = [lease EXCEPT !.lapsed = TRUE]
  /\ UNCHANGED <<login, mark, gone, dead>>

\* 120 s have passed since that lapse, and since the earlier ones.  By then an exchange
\* has met its backstop and a save the end of its window.
WindowPasses(c) ==
  /\ c \in lapses
  /\ LET past == {c} \cup {d \in lapses : <<d, c>> \in earlier}
     IN  /\ \A d \in past : ~Busy(d)
         /\ gone' = gone \cup past
         /\ lapses' = lapses \ past
         /\ earlier' = earlier \cap (lapses' \X lapses')
  /\ UNCHANGED <<login, lease, call, mark, stalls, dead>>

\* Without a call under way a login or the end of a process only begins another story.
Underway(c) == Ready(c, Awaited \cup {"exchange", "cut", "granted", "rejected", "leave", "refused"})

\* The user logs in again, with the same account: the row is updated in place.
Login ==
  /\ row.up /\ logins < MaxLogin
  /\ \E c \in Calls : Underway(c)
  /\ logins' = logins + 1
  /\ last' = last + 1
  /\ row' = [tok |-> last + 1, fresh |-> TRUE, up |-> TRUE]
  /\ UNCHANGED <<spent, lease, call, mark, clock, dead>>

\* What is left of a process that dies is its lease, and a request the provider may grant.
Crash(p) ==
  /\ p \in Mortal \ dead
  /\ \E c \in Calls : ProcOf[c] = p /\ Underway(c)
  /\ dead' = dead \cup {p}
  /\ call' = [c \in Calls |->
       IF ProcOf[c] # p THEN call[c]
       ELSE IF At(c, {"exchange"})
            THEN [NewCall EXCEPT !.at = "exchange", !.tok = call[c].tok]
            ELSE [NewCall EXCEPT !.at = "done"]]
  /\ mark' = [mark EXCEPT ![p] = NoMark]
  /\ UNCHANGED <<login, lease, clock>>

---------------------------------------------------------------------------
\* The steps a call takes of its own accord, its provider's answer included, once it
\* polls no longer.
Proceeds(c) ==
  \/ Adopts(c) \/ TryAcquire(c) \/ StartExchange(c) \/ LeavesEarly(c)
  \/ ProviderGrants(c) \/ ProviderRejects(c) \/ Fails(c)
  \/ NotesStalled(c) \/ Disable(c) \/ ProbeFails(c) \/ JoinerDisables(c) \/ NobodyJoined(c)
  \/ Saves(c) \/ FindsRowChanged(c) \/ LeaveLease(c) \/ KeepsLease(c)

TimePasses == Lapse \/ \E c \in Calls : WindowPasses(c)

Next ==
  \/ \E c \in Calls : \/ RefreshStored(c) \/ GivesUp(c)
                      \/ ReadHolder(c) \/ FindsLeaseHeld(c)
                      \/ Renew(c) \/ SaveWindowEnds(c) \/ Proceeds(c)
  \/ TimePasses \/ Login
  \/ \E p \in Procs : Crash(p)

Spec == Init /\ [][Next]_vars

\* A poll that finds the lease held may go on for ever, but not at the cost of the others;
\* one that can get the lease, or has seen an owner that is owner no more, goes on.
Polls(c) ==
  \/ lease.lapsed /\ ReadHolder(c)
  \/ call[c].from # lease /\ FindsLeaseHeld(c)

\* Some process runs, the provider answers or the backstop ends the wait, or time goes on,
\* as long as any of these can.  Nothing makes a call begin, a caller give up, a stalled
\* loop renew.
Fairness == WF_vars(TimePasses \/ \E c \in Calls : Proceeds(c) \/ Polls(c))

FairSpec == Spec /\ Fairness

---------------------------------------------------------------------------
(* Properties.                                                             *)

\* The state is of its type.
TypeOK ==
  /\ row \in [tok : 0 .. last, fresh : BOOLEAN, up : BOOLEAN]
  /\ lease.owner \in Calls \cup {None} /\ lease.lapsed \in BOOLEAN
  /\ \A c \in Calls :
       /\ call[c].at \in Awaited \cup {"idle", "exchange", "cut", "granted", "rejected",
                                       "leave", "refused", "disabled", "done"}
       /\ call[c].tok \in 0 .. last /\ call[c].new \in 0 .. last
  /\ \A p \in Procs : mark[p].holder \in Calls \cup {None}
  /\ spent \subseteq 0 .. last
  /\ gone \subseteq Calls /\ lapses \subseteq Calls \ gone /\ earlier \subseteq lapses \X lapses

\* The stored token is spent, and no process that runs holds its successor.
LoginIsDead ==
  /\ row.tok \in spent
  /\ \A c \in Calls : Ready(c, {"granted"}) => call[c].tok # row.tok

\* A refresh that disables the login never disables one that lives, although the rejection
\* it has seen is the same when a stalled peer has yet to save the successor.
RejectionIsProof ==
  (\E c \in Calls : "disabled" \in {call[c].at, call[c].then}) => LoginIsDead

\* Two processes work on a login at once only if one of them stalled.
OneAtATime ==
  \A c, d \in Calls : Busy(c) /\ Busy(d) /\ c # d => call[c].slept \/ call[d].slept

\* The row moves from a token to the successor of that token or to the token of a new
\* login, and is disabled only for a token that was spent: no refresh that began before a
\* login or before a peer's save undoes it.
NothingNewerIsUndone ==
  [][/\ row'.tok # row.tok =>
          \/ row'.tok > last
          \/ \E c \in Calls : call[c].tok = row.tok /\ call[c].new = row'.tok
     /\ row.up /\ ~row'.up => row.tok \in spent]_row

\* The login comes to rest: no call waits forever for a lease, not for that of a dead
\* process and not without its caller's budget, and no token the provider has minted stays
\* unsaved for good, whoever held the lease when it came.
LoginComesToRest ==
  []<>(\A c \in Calls : Live(c) => At(c, {"idle", "disabled", "done"}))

===========================================================================
