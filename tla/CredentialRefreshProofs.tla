---------------------- MODULE CredentialRefreshProofs ----------------------
(***************************************************************************)
(* Proofs about the refresh of one login by many processes                 *)
(* (CredentialRefresh).  One inductive invariant, RefreshInv, says whose   *)
(* lease a call has, what the provider has spent, in which order leases    *)
(* lapsed, and, as long as at most one exchange outlived its lease, that   *)
(* whoever has the lease now came after that exchange and knows it (Heirs).*)
(* TypeOK, OneAtATime and NothingNewerIsUndone hold without that bound;    *)
(* RejectionIsProof needs it: a process that disables a login has the      *)
(* lease, so it got it from the stalled call or after it, and took the     *)
(* rejection for no proof when that call was still within its window.      *)
(***************************************************************************)
EXTENDS CredentialRefresh, TLAPS

\* Values.
Places    == Awaited \cup {"idle", "exchange", "cut", "granted", "rejected", "leave",
                           "refused", "disabled", "done"}
Endings   == {"done", "disabled", "refused"}
LeaseRows == [owner : Calls \cup {None}, lapsed : BOOLEAN]
CallRecords ==
  [at : Places, seen : Nat, tok : Nat, new : Nat, lost : BOOLEAN, slept : BOOLEAN,
   from : LeaseRows, then : Endings]

Typed ==
  /\ row \in [tok : Nat, fresh : BOOLEAN, up : BOOLEAN]
  /\ lease \in LeaseRows
  /\ call \in [Calls -> CallRecords]
  /\ mark \in [Procs -> [tok : Nat, holder : Calls \cup {None}]]
  /\ spent \subseteq Nat /\ last \in Nat
  /\ gone \subseteq Calls /\ lapses \subseteq Calls \ gone /\ earlier \subseteq lapses \X lapses
  /\ stalls \in Nat /\ logins \in Nat
  /\ dead \subseteq Procs

\* Every token a call works with was minted, and is no newer than the row's.
Minted ==
  /\ row.tok <= last
  /\ \A t \in spent : t <= last
  /\ \A c \in Calls : call[c].tok <= row.tok /\ call[c].new <= last

\* A call that was granted or refused a token spent the one it sent; only a call that
\* still works on the login can have slept through its lease.
Exchanged ==
  \A c \in Calls :
    /\ At(c, {"granted"}) => call[c].tok < call[c].new
    /\ At(c, {"granted", "rejected", "refused"}) \/ call[c].then = "refused"
         => call[c].tok \in spent
    /\ call[c].slept => At(c, {"exchange", "cut", "rejected", "granted"})

\* The order in which leases lapsed.
Ordered ==
  \A c, d, e \in Calls : <<c, d>> \in earlier /\ <<d, e>> \in earlier => <<c, e>> \in earlier

\* A lease as read is free, held, or one whose lapse is on record.
Unlapsed(l) == ~l.lapsed => l.owner # None
LapseKnown(l) == l.lapsed /\ l.owner # None => l.owner \in lapses \cup gone

LeaseOk ==
  /\ Unlapsed(lease) /\ LapseKnown(lease)
  /\ \A c \in Calls : Unlapsed(call[c].from) /\ LapseKnown(call[c].from)

\* Where a call is that has had the lease.
Past == {"leased", "exchange", "cut", "rejected", "granted", "leave"}

\* A call that has not had the lease is no one's predecessor.
Untried ==
  \A c \in Calls : At(c, {"idle", "wait", "holder"}) =>
    /\ c \notin lapses \cup gone
    /\ lease.owner # c
    /\ \A d \in Calls : call[d].from.owner # c

\* A call with a fresh lease has not lapsed, and nobody has followed it.
LeasedOk ==
  \A c \in Calls : Ready(c, {"leased"}) =>
    /\ c \notin lapses \cup gone
    /\ \A d \in Calls : call[d].from.owner = c => At(d, {"holder"})

\* A call works on the login with the lease in hand, unless it slept.
HeldOk == \A c \in Calls : Ready(c, {"leased"}) \/ (Busy(c) /\ ~call[c].slept) => Holds(c)

\* A lease is lost only by its lapse.
LostByLapse == \A c \in Calls : Ready(c, Past) => lease.owner = c \/ c \in lapses \cup gone

\* Past its window a call is at work no more.
GoneOk == \A c \in gone : ~Busy(c)

\* No more than one call sleeps.
OneStall ==
  /\ \A c, d \in Calls : call[c].slept /\ call[d].slept => c = d
  /\ stalls = 0 => \A c \in Calls : ~call[c].slept

\* d sleeps over an exchange of the row's token.
Sleeper(d) == Busy(d) /\ call[d].slept /\ call[d].tok = row.tok

\* e is d, or had its lease after that of d lapsed and is within its window.
After(d, e) == e = d \/ (e \in Calls \ gone /\ (e \in lapses => <<d, e>> \in earlier))

\* While d sleeps so, the lease and every call that could disable the login come after
\* d, and such a call has it from d or from one that came after d.
Heirs ==
  \A d \in Calls : Sleeper(d) =>
    /\ d \in lapses
    /\ After(d, lease.owner)
    /\ \A c \in Calls \ {d} :
         Ready(c, {"holder"}) \/ (Ready(c, Past) /\ After(d, c)) => After(d, call[c].from.owner)

\* The login a call reports disabled stays disabled, and is dead.
DeadStays ==
  (\E c \in Calls : "disabled" \in {call[c].at, call[c].then}) => ~row.up /\ LoginIsDead

RefreshInv ==
  /\ Typed /\ Minted /\ Exchanged /\ Ordered /\ LeaseOk /\ Untried /\ LeasedOk
  /\ HeldOk /\ LostByLapse /\ GoneOk
  /\ stalls <= 1 => OneStall /\ Heirs /\ DeadStays

---------------------------------------------------------------------------
(* Records of calls.                                                       *)
\* What actions make of a call's record.
LEMMA Records ==
  /\ NewCall \in CallRecords /\ Free \in LeaseRows
  /\ \A s \in Places : [NewCall EXCEPT !.at = s] \in CallRecords
  /\ \A r \in CallRecords : \A s \in Places : [r EXCEPT !.at = s] \in CallRecords
BY CredentialAssumptions DEF CallRecords, LeaseRows, NewCall, Free, Places, Awaited, Endings

LEMMA RecordMore ==
  ASSUME NEW r \in CallRecords PROVE
    /\ \A s \in Places, n \in Nat : [r EXCEPT !.at = s, !.seen = n] \in CallRecords
    /\ \A s \in Places, l \in LeaseRows : [r EXCEPT !.at = s, !.from = l] \in CallRecords
    /\ \A s \in Places, n \in Nat : [r EXCEPT !.at = s, !.new = n] \in CallRecords
    /\ \A s \in Places, m, n \in Nat : [r EXCEPT !.at = s, !.seen = m, !.tok = n] \in CallRecords
    /\ \A s \in Places, n \in Nat : [r EXCEPT !.at = s, !.tok = n] \in CallRecords
    /\ [r EXCEPT !.lost = TRUE] \in CallRecords
    /\ [r EXCEPT !.slept = TRUE] \in CallRecords
    /\ r.from \in LeaseRows
BY CredentialAssumptions DEF CallRecords

LEMMA RecordLeaves ==
  ASSUME NEW s \in Endings, NEW l \in LeaseRows, NEW n \in Nat PROVE
    [NewCall EXCEPT !.at = "leave", !.then = s, !.from = l, !.tok = n] \in CallRecords
BY CredentialAssumptions DEF CallRecords, NewCall, Places, Free, LeaseRows, Awaited

LEMMA GoesTyped ==
  ASSUME Typed, NEW c \in Calls, NEW s \in Places, Goes(c, s)
  PROVE call' \in [Calls -> CallRecords]
BY Records DEF Typed, Goes

LEMMA EndsTyped ==
  ASSUME Typed, NEW c \in Calls, NEW s \in Places, Ends(c, s)
  PROVE call' \in [Calls -> CallRecords]
BY Records DEF Typed, Ends

LEMMA LeavesTyped ==
  ASSUME Typed, NEW c \in Calls, NEW s \in Endings, NEW l \in LeaseRows, LeavesTo(c, s, l)
  PROVE call' \in [Calls -> CallRecords]
<1> DEFINE n == IF s = "refused" THEN call[c].tok ELSE 0
<1>1. n \in Nat
  BY DEF Typed, CallRecords
<1>2. [NewCall EXCEPT !.at = "leave", !.then = s, !.from = l, !.tok = n] \in CallRecords
  BY <1>1, RecordLeaves
<1> QED BY <1>2 DEF Typed, LeavesTo

LEMMA LapsesNowTyped ==
  ASSUME Typed, NEW o \in Calls, o \notin gone, LapsesNow(o)
  PROVE /\ lapses' \subseteq Calls \ gone /\ earlier' \subseteq lapses' \X lapses'
BY DEF Typed, LapsesNow

LEMMA WindowTyped ==
  ASSUME Typed, NEW c \in Calls, WindowPasses(c)
  PROVE /\ gone' \subseteq Calls /\ lapses' \subseteq Calls \ gone'
        /\ earlier' \subseteq lapses' \X lapses'
<1> DEFINE past == {c} \cup {d \in lapses : <<d, c>> \in earlier}
<1>1. /\ c \in lapses /\ gone' = gone \cup past /\ lapses' = lapses \ past
      /\ earlier' = earlier \cap (lapses' \X lapses')
  BY DEF WindowPasses
<1>2. past \subseteq lapses
  BY <1>1
<1> HIDE DEF past
<1> QED BY <1>1, <1>2 DEF Typed

LEMMA LoginTyped ==
  ASSUME Typed, Login PROVE Typed'
<1>1. row' \in [tok : Nat, fresh : BOOLEAN, up : BOOLEAN] /\ last' \in Nat /\ logins' \in Nat
  BY DEF Typed, Login
<1> QED BY <1>1 DEF Typed, Login, clock

\* What a crash leaves of the calls.
LEMMA CrashCalls ==
  ASSUME Typed, NEW p \in Procs, Crash(p), NEW c \in Calls
  PROVE /\ ProcOf[c] # p => call'[c] = call[c]
        /\ ProcOf[c] = p =>
             /\ ~call'[c].slept /\ ~call'[c].lost /\ call'[c].from = Free
             /\ call'[c].then = "done" /\ call'[c].new = 0 /\ call'[c].seen = 0
             /\ \/ At(c, {"exchange"}) /\ call'[c].at = "exchange" /\ call'[c].tok = call[c].tok
                \/ ~At(c, {"exchange"}) /\ call'[c].at = "done" /\ call'[c].tok = 0
BY DEF Crash, NewCall

LEMMA CrashTyped ==
  ASSUME Typed, NEW p \in Procs, Crash(p) PROVE Typed'
<1>1. ASSUME NEW c \in Calls PROVE call'[c] \in CallRecords
  <2>1. CASE ProcOf[c] # p
    BY <2>1 DEF Crash, Typed
  <2>2. CASE ProcOf[c] = p /\ ~At(c, {"exchange"})
    <3>1. call'[c] = [NewCall EXCEPT !.at = "done"]
      BY <2>2 DEF Crash
    <3> QED BY <3>1, Records DEF Places
  <2>3. CASE ProcOf[c] = p /\ At(c, {"exchange"})
    <3>1. call'[c] = [NewCall EXCEPT !.at = "exchange", !.tok = call[c].tok]
      BY <2>3 DEF Crash
    <3>2. call[c].tok \in Nat
      BY DEF Typed, CallRecords
    <3>3. [NewCall EXCEPT !.at = "exchange", !.tok = call[c].tok] \in CallRecords
      BY <3>2, Records, RecordMore DEF Places, Awaited
    <3> QED BY <3>1, <3>3
  <2> QED BY <2>1, <2>2, <2>3
<1>2. call' \in [Calls -> CallRecords]
  BY <1>1 DEF Crash
<1>3. mark' \in [Procs -> [tok : Nat, holder : Calls \cup {None}]] /\ dead' \subseteq Procs
  BY DEF Typed, Crash, NoMark
<1> QED BY <1>2, <1>3 DEF Typed, Crash, login, clock

\* The lease that lapses has an owner.
LEMMA LapseOwner ==
  ASSUME RefreshInv, Lapse PROVE lease.owner \in Calls
BY DEF RefreshInv, Typed, LeaseOk, Unlapsed, LeaseRows, Lapse

LEMMA LapseTyped ==
  ASSUME RefreshInv, Lapse PROVE Typed'
<1>1. lease.owner \in Calls
  BY LapseOwner
<1>2. call' \in [Calls -> CallRecords] /\ stalls' \in Nat
  <2>1. [call[lease.owner] EXCEPT !.slept = TRUE] \in CallRecords
    BY <1>1, RecordMore DEF RefreshInv, Typed
  <2> QED BY <1>1, <2>1 DEF RefreshInv, Typed, Lapse
<1>3. lapses' \subseteq Calls \ gone /\ earlier' \subseteq lapses' \X lapses'
  BY <1>1, LapsesNowTyped DEF RefreshInv, Typed, Lapse
<1>4. lease' \in LeaseRows
  BY DEF RefreshInv, Typed, LeaseRows, Lapse
<1> QED BY <1>2, <1>3, <1>4 DEF RefreshInv, Typed, Lapse, login

LEMMA NotesStalledTyped ==
  ASSUME RefreshInv, NEW c \in Calls, NotesStalled(c) PROVE Typed'
<1>1. call[c].from \in LeaseRows /\ call[c].from.owner \in Calls /\ call[c].tok \in Nat
  BY DEF RefreshInv, Typed, CallRecords, LeaseRows, NotesStalled, TookOver
<1>2. call' \in [Calls -> CallRecords]
  BY <1>1, LeavesTyped DEF RefreshInv, NotesStalled, Leaves, Endings
<1>3. lapses' \subseteq Calls \ gone /\ earlier' \subseteq lapses' \X lapses'
  BY <1>1, LapsesNowTyped DEF RefreshInv, Typed, NotesStalled
<1>4. mark' \in [Procs -> [tok : Nat, holder : Calls \cup {None}]]
  BY <1>1 DEF RefreshInv, Typed, NotesStalled
<1> QED BY <1>2, <1>3, <1>4 DEF RefreshInv, Typed, NotesStalled, login

LEMMA ReturnsTyped ==
  ASSUME Typed, NEW c \in Calls, Returns(c) PROVE call' \in [Calls -> CallRecords]
<1>1. call[c].then \in Places
  BY DEF Typed, CallRecords, Endings, Places
<1> QED BY <1>1, GoesTyped, EndsTyped DEF Returns, Places

LEMMA LeaveLeaseTyped ==
  ASSUME Typed, NEW c \in Calls, LeaveLease(c) PROVE Typed'
<1>1. call' \in [Calls -> CallRecords]
  BY ReturnsTyped DEF LeaveLease
<1>2. lease' \in LeaseRows
  BY DEF Typed, CallRecords, LeaveLease, LeftTo
<1> QED BY <1>1, <1>2 DEF Typed, LeaveLease, login, clock

LEMMA SavesTyped ==
  ASSUME Typed, NEW c \in Calls, Saves(c) PROVE Typed'
<1>1. call' \in [Calls -> CallRecords]
  BY LeavesTyped, Records DEF Saves, Endings
<1>2. lease' \in LeaseRows
  BY DEF Saves, LeaseRows
<1>3. row' \in [tok : Nat, fresh : BOOLEAN, up : BOOLEAN]
  BY DEF Typed, CallRecords, Saves
<1> QED BY <1>1, <1>2, <1>3 DEF Typed, Saves, clock

LEMMA ProviderGrantsTyped ==
  ASSUME Typed, NEW c \in Calls, ProviderGrants(c) PROVE Typed'
<1>1. last + 1 \in Nat /\ call[c].tok \in Nat
  BY DEF Typed, CallRecords
<1>2. CASE call' = [call EXCEPT ![c].at = "granted", ![c].new = last + 1]
  <2>1. [call[c] EXCEPT !.at = "granted", !.new = last + 1] \in CallRecords
    BY <1>1, RecordMore DEF Typed, Places
  <2>2. call' \in [Calls -> CallRecords]
    BY <1>2, <2>1 DEF Typed
  <2> QED BY <1>1, <2>2 DEF Typed, ProviderGrants, clock
<1>3. CASE Goes(c, "cut") \/ Ends(c, "done")
  <2>1. call' \in [Calls -> CallRecords]
    BY <1>3, GoesTyped, EndsTyped DEF Places
  <2> QED BY <1>1, <2>1 DEF Typed, ProviderGrants, clock
<1> QED BY <1>2, <1>3 DEF ProviderGrants

LEMMA WindowOrdered ==
  ASSUME RefreshInv, NEW c \in Calls, WindowPasses(c) PROVE Ordered'
BY DEF RefreshInv, Ordered, WindowPasses

LEMMA LapsesNowOrdered ==
  ASSUME Typed, Ordered, NEW o \in Calls, LapsesNow(o) PROVE Ordered'
BY DEF Typed, Ordered, LapsesNow

\* A lease is taken back after its lapse only by the call that stalled.
LEMMA RenewHeirs ==
  ASSUME RefreshInv, stalls <= 1, NEW c \in Calls, Renew(c) PROVE Heirs'
<1>1. CASE lease.lapsed /\ lease' = [owner |-> c, lapsed |-> FALSE] /\ UNCHANGED call
  <2>1. ~Holds(c) /\ Busy(c)
    BY <1>1 DEF Holds, Renew, Busy, Ready, At
  <2>2. call[c].slept
    BY <2>1 DEF RefreshInv, HeldOk
  <2>3. \A d \in Calls : Sleeper(d)' => d = c /\ Sleeper(c)
    BY <1>1, <2>2 DEF RefreshInv, OneStall, Sleeper, Renew, login, Busy, Ready, At, Live
  <2> QED BY <1>1, <2>3 DEF RefreshInv, Heirs, After, Renew, login, clock, Ready, At, Live
<1>2. CASE UNCHANGED lease /\ call' = [call EXCEPT ![c].lost = TRUE]
  BY <1>2 DEF RefreshInv, Typed, CallRecords, Heirs, Sleeper, After, Renew, login, clock,
     Busy, Ready, At, Live
<1> QED BY <1>1, <1>2 DEF Renew

\* Who takes the lease takes it from one that comes after the sleeper.
LEMMA TryAcquireHeirs ==
  ASSUME RefreshInv, stalls <= 1, NEW c \in Calls, TryAcquire(c) PROVE Heirs'
<1>1. /\ \A d \in Calls \ {c} : call'[d] = call[d]
      /\ call'[c].at = "leased" /\ call'[c].from = TakenFrom(c)
      /\ lease'.owner = c /\ UNCHANGED <<row, lapses, earlier, gone, dead>>
  BY DEF TryAcquire, RefreshInv, Typed, CallRecords, login, clock
<1>2. c \notin lapses \cup gone /\ Ready(c, {"holder"})
  BY DEF TryAcquire, RefreshInv, Untried, Ready, At
<1>3. ASSUME NEW d \in Calls, Sleeper(d)'
      PROVE d # c /\ Sleeper(d)
  BY <1>1, <1>3 DEF Sleeper, Busy, Ready, At, Live
<1>4. ASSUME NEW d \in Calls, Sleeper(d), d # c PROVE After(d, TakenFrom(c).owner)
  BY <1>2, <1>4 DEF RefreshInv, Typed, Heirs, After, TakenFrom
<1>5. ASSUME NEW d \in Calls, Sleeper(d), d # c, NEW e \in Calls \ {d},
             Ready(e, {"holder"})' \/ (Ready(e, Past)' /\ After(d, e)')
      PROVE After(d, call'[e].from.owner)
  <2>1. CASE e = c
    BY <1>1, <1>4, <1>5, <2>1
  <2>2. CASE e # c
    BY <1>1, <1>5, <2>2 DEF RefreshInv, Heirs, After, Ready, At, Live
  <2> QED BY <2>1, <2>2
<1>6. \A d \in Calls : Sleeper(d) => d \in lapses
  BY DEF RefreshInv, Heirs
<1> QED BY <1>1, <1>2, <1>3, <1>5, <1>6 DEF Heirs, After

\* Windows end in the order of the lapses.
LEMMA WindowHeirs ==
  ASSUME RefreshInv, stalls <= 1, NEW c \in Calls, WindowPasses(c) PROVE Heirs'
<1>1. UNCHANGED <<row, lease, call, dead>>
  BY DEF WindowPasses, login
<1>2. ASSUME NEW d \in Calls, Sleeper(d) PROVE d \in lapses'
  BY <1>2 DEF RefreshInv, Heirs, Sleeper, WindowPasses
<1>3. ASSUME NEW d \in Calls, Sleeper(d), NEW e, After(d, e) PROVE After(d, e)'
  <2>1. d \in lapses /\ d \in lapses'
    BY <1>2, <1>3 DEF RefreshInv, Heirs
  <2>2. CASE e \in lapses /\ e \notin lapses'
    BY <1>3, <2>1, <2>2 DEF After, WindowPasses, RefreshInv, Typed, Ordered
  <2>3. CASE e \notin lapses \/ e \in lapses'
    BY <1>3, <2>1, <2>3 DEF After, WindowPasses, RefreshInv, Typed
  <2> QED BY <2>2, <2>3
<1>4. ASSUME NEW d \in Calls, NEW e, After(d, e)' PROVE After(d, e)
  BY <1>4 DEF After, WindowPasses, RefreshInv, Typed
<1> QED BY <1>1, <1>2, <1>3, <1>4 DEF RefreshInv, Heirs, Sleeper, Busy, Ready, At, Live

\* A lease given back goes to one that comes after the sleeper.
LEMMA LeaveLeaseHeirs ==
  ASSUME RefreshInv, stalls <= 1, NEW c \in Calls, LeaveLease(c) PROVE Heirs'
<1>1. /\ \A d \in Calls \ {c} : call'[d] = call[d]
      /\ call'[c].at \in {"refused", "disabled", "done"}
      /\ UNCHANGED <<row, lapses, earlier, gone, dead>>
  <2>1. call[c].then \in {"done", "disabled", "refused"} /\ Returns(c)
    BY DEF RefreshInv, Typed, CallRecords, Endings, LeaveLease
  <2>2. CASE Goes(c, "refused")
    BY <2>2 DEF Goes, RefreshInv, Typed, CallRecords, LeaveLease, login, clock
  <2>3. CASE Ends(c, call[c].then)
    BY <2>1, <2>3 DEF Ends, NewCall, RefreshInv, Typed, LeaveLease, login, clock
  <2> QED BY <2>1, <2>2, <2>3 DEF Returns
<1>2. lease' = IF lease.owner = c THEN call[c].from ELSE lease
  BY DEF LeaveLease, LeftTo
<1>3. ASSUME NEW d \in Calls, Sleeper(d)' PROVE d # c /\ Sleeper(d)
  BY <1>1, <1>3 DEF Sleeper, Busy, Ready, At, Live
<1>4. ASSUME NEW d \in Calls, Sleeper(d), d # c PROVE After(d, lease'.owner)
  BY <1>2, <1>4 DEF RefreshInv, Heirs, LeaveLease, Ready, At, Past
<1>5. ~Ready(c, {"holder"})' /\ ~Ready(c, Past)'
  BY <1>1 DEF Ready, At, Past
<1>6. \A e \in Calls \ {c} : \A S : Ready(e, S)' <=> Ready(e, S)
  BY <1>1 DEF Ready, At, Live
<1> QED BY <1>1, <1>3, <1>4, <1>5, <1>6 DEF RefreshInv, Heirs, After

\* The heart of the matter: a call that disables the login it holds the lease of has seen
\* the end of every exchange that could have succeeded.
LEMMA DisableIsProof ==
  ASSUME RefreshInv, stalls <= 1, NEW c \in Calls, Disable(c), Holds(c), row.tok = call[c].tok
  PROVE LoginIsDead
<1>1. row.tok \in spent
  BY DEF RefreshInv, Exchanged, Disable, Ready, At
<1>2. ASSUME NEW d \in Calls, Ready(d, {"granted"}), call[d].tok = row.tok PROVE FALSE
  <2>1. c # d /\ Busy(d)
    BY <1>2 DEF Disable, Busy, Ready, At
  <2>2. call[d].slept
    BY <2>1 DEF RefreshInv, HeldOk, Holds
  <2>3. Sleeper(d)
    BY <1>2, <2>1, <2>2 DEF Sleeper
  <2>4. After(d, c)
    BY <2>3 DEF RefreshInv, Heirs, Holds
  <2>5. After(d, call[c].from.owner)
    BY <2>1, <2>3, <2>4 DEF RefreshInv, Heirs, Disable, Ready, At, Past
  <2> QED BY <2>5, CredentialAssumptions DEF After, Disable, TookOver
<1> QED BY <1>1, <1>2 DEF LoginIsDead

LEMMA DisableDead ==
  ASSUME RefreshInv, stalls <= 1, NEW c \in Calls, Disable(c) PROVE DeadStays'
<1>1. CASE row.up /\ row.tok = call[c].tok /\ Holds(c)
  <2>1. LoginIsDead
    BY <1>1, DisableIsProof
  <2>2. row'.tok = row.tok /\ ~row'.up /\ UNCHANGED <<spent, dead>>
    BY <1>1 DEF Disable, RefreshInv, Typed
  <2>3. Leaves(c, "disabled")
    BY <1>1 DEF Disable
  <2>4. \A d \in Calls \ {c} : call'[d] = call[d]
    BY <2>3 DEF Leaves, LeavesTo, RefreshInv, Typed
  <2>5. call'[c].at = "leave"
    BY <2>3 DEF Leaves, LeavesTo, RefreshInv, Typed, NewCall
  <2> QED BY <2>1, <2>2, <2>4, <2>5 DEF DeadStays, LoginIsDead, Ready, At, Live
<1>2. CASE ~(row.up /\ row.tok = call[c].tok /\ Holds(c))
  <2>1. UNCHANGED row /\ Leaves(c, "done")
    BY <1>2 DEF Disable
  <2>2. \A d \in Calls \ {c} : call'[d] = call[d]
    BY <2>1 DEF Leaves, LeavesTo, RefreshInv, Typed
  <2>3. call'[c].at = "leave" /\ call'[c].then = "done"
    BY <2>1 DEF Leaves, LeavesTo, RefreshInv, Typed, NewCall
  <2> QED BY <2>1, <2>2, <2>3 DEF RefreshInv, DeadStays, LoginIsDead, Disable, Ready, At, Live
<1> QED BY <1>1, <1>2

\* What the actions do, field by field: a call back from its lease.
Returned(c) ==
  /\ \A d \in Calls \ {c} : call'[d] = call[d]
  /\ \/ /\ call[c].then = "refused"
        /\ call'[c].at = "refused" /\ call'[c].then = "refused"
        /\ call'[c].tok = call[c].tok /\ call'[c].new = call[c].new
        /\ call'[c].from = call[c].from /\ call'[c].slept = call[c].slept
     \/ /\ call'[c].at \in {"done", "disabled"} /\ call'[c].then = "done"
        /\ call'[c].at = call[c].then
        /\ call'[c].tok = 0 /\ call'[c].new = 0
        /\ call'[c].from = Free /\ ~call'[c].slept

\* A call that found its login rejected.
Disabled(c) ==
  /\ Ready(c, {"rejected"}) /\ ~TookOver(c)
  /\ \A d \in Calls \ {c} : call'[d] = call[d]
  /\ call'[c].at = "leave" /\ call'[c].from = call[c].from
  /\ call'[c].tok = 0 /\ call'[c].new = 0 /\ ~call'[c].slept
  /\ row'.tok = row.tok
  /\ \/ call'[c].then = "disabled" /\ ~row'.up /\ row.tok = call[c].tok /\ Holds(c)
     \/ call'[c].then = "done" /\ row' = row
  /\ UNCHANGED <<spent, last, lease, clock, dead>>

\* A renewal.
Renewed(c) ==
  /\ Ready(c, {"exchange", "cut", "rejected"})
  /\ \/ lease.lapsed /\ lease' = [owner |-> c, lapsed |-> FALSE] /\ call' = call
     \/ /\ ~lease.lapsed /\ lease.owner # c /\ lease' = lease
        /\ \A d \in Calls : /\ call'[d].at = call[d].at /\ call'[d].tok = call[d].tok
                            /\ call'[d].new = call[d].new /\ call'[d].from = call[d].from
                            /\ call'[d].then = call[d].then /\ call'[d].slept = call[d].slept
  /\ UNCHANGED <<login, clock, dead>>

\* A new token.
Granted(c) ==
  /\ At(c, {"exchange"}) /\ call[c].tok \notin spent
  /\ \A d \in Calls \ {c} : call'[d] = call[d]
  /\ \/ /\ Live(c)
        /\ \/ call'[c].at = "granted" /\ call'[c].new = last + 1
           \/ call'[c].at = "cut" /\ call'[c].new = call[c].new
        /\ call'[c].tok = call[c].tok
        /\ call'[c].from = call[c].from /\ call'[c].then = call[c].then
        /\ call'[c].slept = call[c].slept
     \/ /\ ~Live(c)
        /\ call'[c].at = "done" /\ call'[c].then = "done"
        /\ call'[c].tok = 0 /\ call'[c].new = 0
        /\ call'[c].from = Free /\ ~call'[c].slept
  /\ spent' = spent \cup {call[c].tok} /\ last' = last + 1
  /\ UNCHANGED <<row, lease, clock, dead>>

\* A lapse.
Lapsed ==
  /\ ~lease.lapsed /\ lease.owner \in Calls
  /\ lease'.owner = lease.owner /\ lease'.lapsed
  /\ ~Ready(lease.owner, {"leased"})
  /\ \A d \in Calls : Ready(d, {"holder"}) => call[d].from.owner = lease.owner
  /\ \A d \in Calls : /\ call'[d].at = call[d].at /\ call'[d].tok = call[d].tok
                      /\ call'[d].new = call[d].new /\ call'[d].from = call[d].from
                      /\ call'[d].then = call[d].then
                      /\ call'[d].slept <=> call[d].slept \/ (d = lease.owner /\ Busy(d))
  /\ stalls' = IF Busy(lease.owner) THEN stalls + 1 ELSE stalls
  /\ IF lease.owner \in gone THEN UNCHANGED <<lapses, earlier>> ELSE LapsesNow(lease.owner)
  /\ UNCHANGED <<login, gone, dead>>

\* A crash.
Crashed(p) ==
  /\ \A c \in Calls :
       \/ ProcOf[c] # p /\ call'[c] = call[c]
       \/ /\ ProcOf[c] = p
          /\ call'[c].from = Free /\ call'[c].then = "done"
          /\ call'[c].new = 0 /\ ~call'[c].slept
          /\ \/ At(c, {"exchange"}) /\ call'[c].at = "exchange" /\ call'[c].tok = call[c].tok
             \/ call'[c].at = "done" /\ call'[c].tok = 0
  /\ dead' = dead \cup {p}
  /\ UNCHANGED <<login, lease, clock>>

\* Returns, field by field.
LEMMA ReturnFields ==
  ASSUME RefreshInv, NEW c \in Calls, Returns(c)
  PROVE Returned(c)
<1>1. call \in [Calls -> CallRecords] /\ call[c].then \in Endings
  BY DEF RefreshInv, Typed, CallRecords
<1>2. CASE call[c].then = "refused"
  BY <1>1, <1>2 DEF Returns, Goes, CallRecords, Returned
<1>3. CASE call[c].then # "refused"
  BY <1>1, <1>3 DEF Returns, Ends, NewCall, Endings, Returned
<1> QED BY <1>2, <1>3

LEMMA LeaveFields ==
  ASSUME RefreshInv, NEW c \in Calls, NEW s \in Endings, NEW l, LeavesTo(c, s, l)
  PROVE /\ \A d \in Calls \ {c} : call'[d] = call[d]
        /\ call'[c].at = "leave" /\ call'[c].then = s /\ call'[c].from = l
        /\ call'[c].tok = IF s = "refused" THEN call[c].tok ELSE 0
        /\ call'[c].new = 0 /\ ~call'[c].slept
BY DEF RefreshInv, Typed, LeavesTo, NewCall

LEMMA DisableFields ==
  ASSUME RefreshInv, NEW c \in Calls, Disable(c)
  PROVE Disabled(c)
<1>1. PICK s \in {"disabled", "done"} : Leaves(c, s) /\ call'[c].then = s /\
        \/ s = "disabled" /\ row.up /\ row.tok = call[c].tok /\ Holds(c)
           /\ row' = [row EXCEPT !.up = FALSE]
        \/ s = "done" /\ row' = row
  BY LeaveFields DEF Disable, Leaves, Endings
<1>2. row'.tok = row.tok /\ (s = "disabled" => ~row'.up)
  BY <1>1 DEF RefreshInv, Typed
<1> QED BY <1>1, <1>2, LeaveFields DEF Disable, Leaves, Endings, Disabled

LEMMA RenewFields ==
  ASSUME RefreshInv, NEW c \in Calls, Renew(c)
  PROVE Renewed(c)
BY DEF RefreshInv, Typed, CallRecords, Renew, Renewed

LEMMA GrantFields ==
  ASSUME RefreshInv, NEW c \in Calls, ProviderGrants(c)
  PROVE Granted(c)
<1>1. call \in [Calls -> CallRecords]
  BY DEF RefreshInv, Typed
<1>2. CASE Live(c) /\ call' = [call EXCEPT ![c].at = "granted", ![c].new = last + 1]
  BY <1>1, <1>2 DEF ProviderGrants, CallRecords, Granted
<1>3. CASE Live(c) /\ Goes(c, "cut")
  BY <1>1, <1>3 DEF ProviderGrants, Goes, CallRecords, Granted
<1>4. CASE ~Live(c) /\ Ends(c, "done")
  BY <1>1, <1>4 DEF ProviderGrants, Ends, NewCall, Granted
<1> QED BY <1>2, <1>3, <1>4 DEF ProviderGrants

LEMMA LapseFields ==
  ASSUME RefreshInv, Lapse
  PROVE Lapsed
<1>1. PICK o \in Calls : o = lease.owner
  BY LapseOwner
<1>2. call \in [Calls -> CallRecords] /\ lease \in LeaseRows
  BY DEF RefreshInv, Typed
<1>3. lease'.owner = lease.owner /\ lease'.lapsed
  BY <1>2 DEF Lapse, LeaseRows
<1>4. CASE Busy(o)
  BY <1>1, <1>2, <1>3, <1>4 DEF Lapse, CallRecords, Lapsed
<1>5. CASE ~Busy(o)
  BY <1>1, <1>2, <1>3, <1>5 DEF Lapse, CallRecords, Lapsed
<1> QED BY <1>4, <1>5

LEMMA CrashFields ==
  ASSUME RefreshInv, NEW p \in Procs, Crash(p)
  PROVE Crashed(p)
BY DEF Crash, NewCall, Crashed

LEMMA LeaveTyped ==
  ASSUME Typed, NEW c \in Calls, NEW s \in Endings, Leaves(c, s)
  PROVE call' \in [Calls -> CallRecords]
<1>1. call[c].from \in LeaseRows
  BY DEF Typed, CallRecords
<1> QED BY <1>1, LeavesTyped DEF Leaves

\* Most steps change nothing but their own call.
LEMMA OnlyCalls ==
  ASSUME Typed, call' \in [Calls -> CallRecords], UNCHANGED <<login, lease, mark, clock, dead>>
  PROVE Typed'
BY DEF Typed, login, clock

LEMMA RenewTyped ==
  ASSUME Typed, NEW c \in Calls, Renew(c) PROVE Typed'
<1>1. CASE lease' = [owner |-> c, lapsed |-> FALSE] /\ UNCHANGED call
  <2>1. lease' \in LeaseRows
    BY <1>1 DEF LeaseRows
  <2> QED BY <1>1, <2>1 DEF Typed, Renew, login, clock
<1>2. CASE UNCHANGED lease /\ call' = [call EXCEPT ![c].lost = TRUE]
  <2>1. [call[c] EXCEPT !.lost = TRUE] \in CallRecords
    BY RecordMore DEF Typed
  <2>2. call' \in [Calls -> CallRecords]
    BY <1>2, <2>1 DEF Typed
  <2> QED BY <1>2, <2>2, OnlyCalls DEF Renew
<1> QED BY <1>1, <1>2 DEF Renew

LEMMA GrantSides ==
  ASSUME RefreshInv, NEW c \in Calls, ProviderGrants(c) PROVE Untried' /\ LeasedOk'
<1>1. Granted(c)
  BY GrantFields
<1>2. \A d \in Calls : call'[d].from = call[d].from \/ call'[d].from.owner = None
  BY <1>1 DEF Granted, Free
<1>3. \A d \in Calls : call'[d].at = call[d].at \/ call'[d].at \in {"granted", "cut", "done"}
  BY <1>1 DEF Granted
<1>4. c \in Calls /\ At(c, {"exchange"}) /\ \A d \in Calls \ {c} : call'[d].at = call[d].at
  BY <1>1 DEF Granted
<1>5. UNCHANGED <<lease, lapses, gone, dead>>
  BY <1>1 DEF Granted, clock
<1>6. Untried'
  BY <1>2, <1>3, <1>5, CredentialAssumptions DEF RefreshInv, Untried, At
<1>7. LeasedOk'
  BY <1>2, <1>3, <1>4, <1>5, CredentialAssumptions DEF RefreshInv, LeasedOk, Ready, Live, At
<1> QED BY <1>6, <1>7

LEMMA LeaveSides ==
  ASSUME RefreshInv, NEW c \in Calls, LeaveLease(c) PROVE Untried' /\ LeasedOk'
<1>1. Returned(c)
  BY ReturnFields DEF LeaveLease
<1>2. call'[c].from = call[c].from \/ call'[c].from.owner = None
  BY <1>1 DEF Returned, Free
<1>3. call'[c].at \in {"refused", "disabled", "done"} /\ \A d \in Calls \ {c} : call'[d] = call[d]
  BY <1>1 DEF Returned
<1>4. lease'.owner = lease.owner \/ lease'.owner = call[c].from.owner
  BY DEF LeaveLease, LeftTo
<1>5. At(c, {"leave"}) /\ UNCHANGED <<lapses, gone, dead>>
  BY DEF LeaveLease, Ready, clock
<1>6. Untried'
  BY <1>2, <1>3, <1>4, <1>5, CredentialAssumptions DEF RefreshInv, Untried, At
<1>7. LeasedOk'
  BY <1>2, <1>3, <1>5, CredentialAssumptions DEF RefreshInv, LeasedOk, Ready, Live, At
<1> QED BY <1>6, <1>7

---------------------------------------------------------------------------
(* The steps.                                                              *)

LEMMA RefreshStoredStep ==
  ASSUME RefreshInv, NEW c \in Calls, RefreshStored(c) PROVE RefreshInv'
<1>1. Typed'
  <2>1. call' \in [Calls -> CallRecords]
    BY RecordMore DEF RefreshInv, Typed, RefreshStored, Places, Awaited
  <2> QED BY <2>1, OnlyCalls DEF RefreshInv, RefreshStored
<1>2. Minted'
  BY DEF RefreshInv, Minted, Typed, RefreshStored, login
<1>3. Exchanged'
  BY DEF RefreshInv, Exchanged, Typed, RefreshStored, At, Ready, login
<1>4. (Ordered /\ LeaseOk /\ Untried /\ LeasedOk)'
  BY DEF RefreshInv, Ordered, LeaseOk, Untried, LeasedOk, Typed, RefreshStored, LapseKnown,
     At, Ready, Live, clock
<1>5. (HeldOk /\ LostByLapse /\ GoneOk)'
  BY DEF RefreshInv, HeldOk, LostByLapse, GoneOk, Typed, RefreshStored, At, Ready, Live, Busy,
     clock, Past, Holds
<1>6. ASSUME stalls' <= 1 PROVE (OneStall /\ Heirs /\ DeadStays)'
  <2>1. OneStall'
    BY <1>6 DEF RefreshInv, OneStall, Typed, RefreshStored, clock
  <2>2. Heirs'
    BY <1>6 DEF RefreshInv, Heirs, Typed, RefreshStored, Sleeper, After, At, Ready, Live,
       Busy, login, clock, Past
  <2>3. DeadStays'
    BY <1>6 DEF RefreshInv, DeadStays, Typed, RefreshStored, clock
  <2> QED BY <2>1, <2>2, <2>3
<1> QED BY <1>1, <1>2, <1>3, <1>4, <1>5, <1>6 DEF RefreshInv

LEMMA AdoptsStep ==
  ASSUME RefreshInv, NEW c \in Calls, Adopts(c) PROVE RefreshInv'
<1>1. Typed'
  <2>1. call' \in [Calls -> CallRecords]
    BY EndsTyped DEF RefreshInv, Adopts, Places
  <2> QED BY <2>1, OnlyCalls DEF RefreshInv, Adopts
<1>2. Minted'
  BY DEF RefreshInv, Minted, Typed, Adopts, Ends, NewCall, login
<1>3. Exchanged'
  BY DEF RefreshInv, Exchanged, Adopts, Ends, At, NewCall, login
<1>4. (Ordered /\ LeaseOk /\ Untried /\ LeasedOk)'
  BY CredentialAssumptions DEF RefreshInv, Ordered, LeaseOk, Untried, LeasedOk, Adopts, Ends,
     Unlapsed, LapseKnown, At, Ready, Live, Free, NewCall, clock
<1>5. (HeldOk /\ LostByLapse /\ GoneOk)'
  BY DEF RefreshInv, HeldOk, LostByLapse, GoneOk, Adopts, Ends, At, Ready, Live, Busy, clock,
     Past, Holds
<1>6. ASSUME stalls' <= 1 PROVE (OneStall /\ Heirs /\ DeadStays)'
  <2>1. OneStall'
    BY <1>6 DEF RefreshInv, OneStall, Adopts, Ends, NewCall, clock
  <2>2. Heirs'
    BY <1>6 DEF RefreshInv, Heirs, Adopts, Ends, Sleeper, After, At, Ready, Live, Busy, login,
       clock, Past
  <2>3. DeadStays'
    BY <1>6 DEF RefreshInv, DeadStays, Adopts, Ends, LoginIsDead, At, Ready, Live, NewCall,
       login, clock
  <2> QED BY <2>1, <2>2, <2>3
<1> QED BY <1>1, <1>2, <1>3, <1>4, <1>5, <1>6 DEF RefreshInv

LEMMA GivesUpStep ==
  ASSUME RefreshInv, NEW c \in Calls, GivesUp(c) PROVE RefreshInv'
<1>1. Typed'
  <2>1. call' \in [Calls -> CallRecords]
    BY EndsTyped DEF RefreshInv, GivesUp, Places
  <2> QED BY <2>1, OnlyCalls DEF RefreshInv, GivesUp
<1>2. Minted'
  BY DEF RefreshInv, Minted, Typed, GivesUp, Ends, NewCall, login
<1>3. Exchanged'
  BY DEF RefreshInv, Exchanged, GivesUp, Ends, At, NewCall, login
<1>4. (Ordered /\ LeaseOk /\ Untried /\ LeasedOk)'
  BY CredentialAssumptions DEF RefreshInv, Ordered, LeaseOk, Untried, LeasedOk, GivesUp, Ends,
     Unlapsed, LapseKnown, At, Ready, Live, Free, NewCall, clock
<1>5. (HeldOk /\ LostByLapse /\ GoneOk)'
  BY DEF RefreshInv, HeldOk, LostByLapse, GoneOk, GivesUp, Ends, At, Ready, Live, Busy, clock,
     Past, Holds
<1>6. ASSUME stalls' <= 1 PROVE (OneStall /\ Heirs /\ DeadStays)'
  <2>1. OneStall'
    BY <1>6 DEF RefreshInv, OneStall, GivesUp, Ends, NewCall, clock
  <2>2. Heirs'
    BY <1>6 DEF RefreshInv, Heirs, GivesUp, Ends, Sleeper, After, At, Ready, Live, Busy,
       login, clock, Past
  <2>3. DeadStays'
    BY <1>6 DEF RefreshInv, DeadStays, GivesUp, Ends, LoginIsDead, At, Ready, Live, NewCall,
       login, clock
  <2> QED BY <2>1, <2>2, <2>3
<1> QED BY <1>1, <1>2, <1>3, <1>4, <1>5, <1>6 DEF RefreshInv

LEMMA ReadHolderStep ==
  ASSUME RefreshInv, NEW c \in Calls, ReadHolder(c) PROVE RefreshInv'
<1>1. Typed'
  <2>1. call' \in [Calls -> CallRecords]
    BY RecordMore DEF RefreshInv, Typed, ReadHolder, Places, Awaited
  <2>2. mark' \in [Procs -> [tok : Nat, holder : Calls \cup {None}]]
    BY DEF RefreshInv, Typed, ReadHolder, NoMark
  <2> QED BY <2>1, <2>2 DEF RefreshInv, Typed, ReadHolder, login, clock
<1>2. Minted'
  BY DEF RefreshInv, Minted, Typed, ReadHolder, login
<1>3. Exchanged'
  BY DEF RefreshInv, Exchanged, Typed, ReadHolder, At, Ready, login
<1>4. (Ordered /\ LeaseOk /\ Untried /\ LeasedOk)'
  BY DEF RefreshInv, Ordered, LeaseOk, Untried, LeasedOk, Typed, ReadHolder, LapseKnown, At,
     Ready, Live, clock
<1>5. (HeldOk /\ LostByLapse /\ GoneOk)'
  BY DEF RefreshInv, HeldOk, LostByLapse, GoneOk, Typed, ReadHolder, At, Ready, Live, Busy,
     clock, Past, Holds
<1>6. ASSUME stalls' <= 1 PROVE (OneStall /\ Heirs /\ DeadStays)'
  <2>1. OneStall'
    BY <1>6 DEF RefreshInv, OneStall, Typed, ReadHolder, clock
  <2>2. Heirs'
    BY <1>6 DEF RefreshInv, Heirs, Typed, ReadHolder, Sleeper, After, At, Ready, Live, Busy,
       login, clock
  <2>3. DeadStays'
    BY <1>6 DEF RefreshInv, DeadStays, Typed, ReadHolder, LoginIsDead, At, Ready, Live, login,
       clock
  <2> QED BY <2>1, <2>2, <2>3
<1> QED BY <1>1, <1>2, <1>3, <1>4, <1>5, <1>6 DEF RefreshInv

LEMMA TryAcquireStep ==
  ASSUME RefreshInv, NEW c \in Calls, TryAcquire(c) PROVE RefreshInv'
<1>1. Typed'
  <2>1. call' \in [Calls -> CallRecords]
    BY RecordMore, Records DEF RefreshInv, Typed, TryAcquire, TakenFrom, Places, Awaited
  <2>2. lease' \in LeaseRows
    BY DEF TryAcquire, LeaseRows
  <2> QED BY <2>1, <2>2 DEF RefreshInv, Typed, TryAcquire, login, clock
<1>2. Minted'
  BY DEF RefreshInv, Minted, Typed, TryAcquire, login
<1>3. Exchanged'
  BY DEF RefreshInv, Exchanged, Typed, TryAcquire, At, Ready, login
<1>4. (Ordered /\ LeaseOk /\ Untried /\ LeasedOk)'
  BY CredentialAssumptions DEF RefreshInv, Ordered, LeaseOk, Untried, LeasedOk, Typed,
     TryAcquire, Acquirable, CallRecords, Unlapsed, LapseKnown, HeldOk, At, Ready, Live, login,
     clock, Holds
<1>5. (HeldOk /\ LostByLapse /\ GoneOk)'
  BY CredentialAssumptions DEF RefreshInv, HeldOk, LostByLapse, GoneOk, Typed, TryAcquire,
     Acquirable, LeaseOk, LapseKnown, At, Ready, Live, Busy, clock, Holds
<1>6. ASSUME stalls' <= 1 PROVE (OneStall /\ Heirs /\ DeadStays)'
  <2>1. stalls <= 1
    BY <1>6 DEF clock, TryAcquire
  <2>2. OneStall'
    BY <1>6 DEF RefreshInv, OneStall, Typed, TryAcquire, clock
  <2>3. Heirs'
    BY <2>1, TryAcquireHeirs
  <2>4. DeadStays'
    BY <1>6 DEF RefreshInv, DeadStays, Typed, TryAcquire, LoginIsDead, At, Ready, Live, login,
       clock
  <2> QED BY <2>2, <2>3, <2>4
<1> QED BY <1>1, <1>2, <1>3, <1>4, <1>5, <1>6 DEF RefreshInv

LEMMA FindsLeaseHeldStep ==
  ASSUME RefreshInv, NEW c \in Calls, FindsLeaseHeld(c) PROVE RefreshInv'
<1>1. Typed'
  <2>1. call' \in [Calls -> CallRecords]
    BY RecordMore, Records DEF RefreshInv, Typed, FindsLeaseHeld, Places, Awaited
  <2> QED BY <2>1, OnlyCalls DEF RefreshInv, FindsLeaseHeld
<1>2. Minted'
  BY DEF RefreshInv, Minted, Typed, FindsLeaseHeld, login
<1>3. Exchanged'
  BY DEF RefreshInv, Exchanged, Typed, FindsLeaseHeld, At, Ready, login
<1>4. (Ordered /\ LeaseOk /\ Untried /\ LeasedOk)'
  BY CredentialAssumptions DEF RefreshInv, Ordered, LeaseOk, Untried, LeasedOk, Typed,
     FindsLeaseHeld, Unlapsed, LapseKnown, At, Ready, Live, Free, clock
<1>5. (HeldOk /\ LostByLapse /\ GoneOk)'
  BY DEF RefreshInv, HeldOk, LostByLapse, GoneOk, Typed, FindsLeaseHeld, At, Ready, Live,
     Busy, clock, Past, Holds
<1>6. ASSUME stalls' <= 1 PROVE (OneStall /\ Heirs /\ DeadStays)'
  <2>1. OneStall'
    BY <1>6 DEF RefreshInv, OneStall, Typed, FindsLeaseHeld, clock
  <2>2. Heirs'
    BY <1>6 DEF RefreshInv, Heirs, Typed, FindsLeaseHeld, Sleeper, After, At, Ready, Live,
       Busy, login, clock, Past
  <2>3. DeadStays'
    BY <1>6 DEF RefreshInv, DeadStays, Typed, FindsLeaseHeld, LoginIsDead, At, Ready, Live,
       login, clock
  <2> QED BY <2>1, <2>2, <2>3
<1> QED BY <1>1, <1>2, <1>3, <1>4, <1>5, <1>6 DEF RefreshInv

LEMMA StartExchangeStep ==
  ASSUME RefreshInv, NEW c \in Calls, StartExchange(c) PROVE RefreshInv'
<1>1. Typed'
  <2>1. call' \in [Calls -> CallRecords]
    BY RecordMore DEF RefreshInv, Typed, StartExchange, Places
  <2> QED BY <2>1, OnlyCalls DEF RefreshInv, StartExchange
<1>2. Minted'
  BY DEF RefreshInv, Minted, Typed, StartExchange, login
<1>3. Exchanged'
  BY DEF RefreshInv, Exchanged, Typed, StartExchange, CallRecords, At, login
<1>4. (Ordered /\ LeaseOk /\ Untried /\ LeasedOk)'
  BY DEF RefreshInv, Ordered, LeaseOk, Untried, LeasedOk, Typed, StartExchange, LapseKnown,
     At, Ready, Live, clock
<1>5. (HeldOk /\ LostByLapse /\ GoneOk)'
  BY DEF RefreshInv, HeldOk, LostByLapse, GoneOk, Typed, StartExchange, LeasedOk, At, Ready,
     Live, Busy, clock, Holds
<1>6. ASSUME stalls' <= 1 PROVE (OneStall /\ Heirs /\ DeadStays)'
  <2>1. OneStall'
    BY <1>6 DEF RefreshInv, OneStall, Typed, StartExchange, clock
  <2>2. Heirs'
    BY <1>6 DEF RefreshInv, Heirs, Typed, StartExchange, Sleeper, After, Exchanged, At, Ready,
       Live, Busy, login, clock, Past
  <2>3. DeadStays'
    BY <1>6 DEF RefreshInv, DeadStays, Typed, StartExchange, LoginIsDead, At, Ready, Live,
       login, clock
  <2> QED BY <2>1, <2>2, <2>3
<1> QED BY <1>1, <1>2, <1>3, <1>4, <1>5, <1>6 DEF RefreshInv

LEMMA LeavesEarlyStep ==
  ASSUME RefreshInv, NEW c \in Calls, LeavesEarly(c) PROVE RefreshInv'
<1>1. Typed'
  <2>1. call' \in [Calls -> CallRecords]
    BY LeaveTyped DEF RefreshInv, LeavesEarly, Endings
  <2> QED BY <2>1, OnlyCalls DEF RefreshInv, LeavesEarly
<1>2. Minted'
  BY DEF RefreshInv, Minted, Typed, LeavesEarly, Leaves, LeavesTo, NewCall, login
<1>3. Exchanged'
  BY DEF RefreshInv, Exchanged, LeavesEarly, Leaves, LeavesTo, At, NewCall, login
<1>4. (Ordered /\ LeaseOk /\ Untried /\ LeasedOk)'
  BY DEF RefreshInv, Ordered, LeaseOk, Untried, LeasedOk, LeavesEarly, Leaves, LeavesTo,
     LapseKnown, At, Ready, Live, clock
<1>5. (HeldOk /\ LostByLapse /\ GoneOk)'
  BY DEF RefreshInv, HeldOk, LostByLapse, GoneOk, LeavesEarly, Leaves, LeavesTo, At, Ready,
     Live, Busy, clock, Holds
<1>6. ASSUME stalls' <= 1 PROVE (OneStall /\ Heirs /\ DeadStays)'
  <2>1. OneStall'
    BY <1>6 DEF RefreshInv, OneStall, LeavesEarly, Leaves, LeavesTo, NewCall, clock
  <2>2. Heirs'
    BY <1>6 DEF RefreshInv, Heirs, LeavesEarly, Leaves, LeavesTo, Sleeper, After, At, Ready,
       Live, Busy, login, clock, Past
  <2>3. DeadStays'
    BY <1>6 DEF RefreshInv, DeadStays, LeavesEarly, Leaves, LeavesTo, LoginIsDead, At, Ready,
       Live, login, clock
  <2> QED BY <2>1, <2>2, <2>3
<1> QED BY <1>1, <1>2, <1>3, <1>4, <1>5, <1>6 DEF RefreshInv

LEMMA ProviderGrantsStep ==
  ASSUME RefreshInv, NEW c \in Calls, ProviderGrants(c) PROVE RefreshInv'
<1>1. Granted(c)
  BY GrantFields
<1>2. Typed'
  BY ProviderGrantsTyped DEF RefreshInv
<1>3. Minted'
  BY <1>1 DEF RefreshInv, Minted, Typed, CallRecords, Live, Free, Granted
<1>4. Exchanged'
  BY <1>1 DEF RefreshInv, Exchanged, Typed, CallRecords, Minted, At, Granted
<1>5. (Ordered /\ LeaseOk)'
  BY <1>1 DEF RefreshInv, Ordered, LeaseOk, Unlapsed, LapseKnown, At, Ready, Live, Busy, Free,
     login, clock, Granted
<1>6. (Untried /\ LeasedOk)'
  BY GrantSides
<1>7. (HeldOk /\ LostByLapse /\ GoneOk)'
  BY <1>1 DEF RefreshInv, HeldOk, LostByLapse, GoneOk, Typed, At, Ready, Live, Busy, clock,
     Past, Holds, Granted
<1>8. ASSUME stalls' <= 1 PROVE (OneStall /\ Heirs /\ DeadStays)'
  <2>1. OneStall'
    BY <1>8, <1>1 DEF RefreshInv, OneStall, clock, Granted
  <2>2. Heirs'
    BY <1>8, <1>1 DEF RefreshInv, Heirs, Sleeper, After, At, Ready, Live, Busy, clock, Past,
       Granted
  <2>3. DeadStays'
    BY <1>8, <1>1 DEF RefreshInv, DeadStays, LoginIsDead, At, Ready, Live, clock, Granted
  <2> QED BY <2>1, <2>2, <2>3
<1> QED BY <1>2, <1>3, <1>4, <1>5, <1>6, <1>7, <1>8 DEF RefreshInv

LEMMA ProviderRejectsStep ==
  ASSUME RefreshInv, NEW c \in Calls, ProviderRejects(c) PROVE RefreshInv'
<1>1. Typed'
  <2>1. call' \in [Calls -> CallRecords]
    BY GoesTyped DEF RefreshInv, ProviderRejects, Places
  <2> QED BY <2>1, OnlyCalls DEF RefreshInv, ProviderRejects
<1>2. Minted'
  BY DEF RefreshInv, Minted, ProviderRejects, Goes, login
<1>3. Exchanged'
  BY DEF RefreshInv, Exchanged, ProviderRejects, Goes, At, login
<1>4. (Ordered /\ LeaseOk /\ Untried /\ LeasedOk)'
  BY DEF RefreshInv, Ordered, LeaseOk, Untried, LeasedOk, ProviderRejects, Goes, LapseKnown,
     At, Ready, Live, clock
<1>5. (HeldOk /\ LostByLapse /\ GoneOk)'
  BY DEF RefreshInv, HeldOk, LostByLapse, GoneOk, ProviderRejects, Goes, At, Ready, Live,
     Busy, clock, Past, Holds
<1>6. ASSUME stalls' <= 1 PROVE (OneStall /\ Heirs /\ DeadStays)'
  <2>1. OneStall'
    BY <1>6 DEF RefreshInv, OneStall, ProviderRejects, Goes, clock
  <2>2. Heirs'
    BY <1>6 DEF RefreshInv, Heirs, ProviderRejects, Goes, Sleeper, After, At, Ready, Live,
       Busy, login, clock, Past
  <2>3. DeadStays'
    BY <1>6 DEF RefreshInv, DeadStays, ProviderRejects, Goes, LoginIsDead, At, Ready, Live,
       login, clock
  <2> QED BY <2>1, <2>2, <2>3
<1> QED BY <1>1, <1>2, <1>3, <1>4, <1>5, <1>6 DEF RefreshInv

LEMMA FailsStep ==
  ASSUME RefreshInv, NEW c \in Calls, Fails(c) PROVE RefreshInv'
<1>1. Typed'
  <2>1. call' \in [Calls -> CallRecords]
    BY LeaveTyped DEF RefreshInv, Fails, Endings
  <2> QED BY <2>1, OnlyCalls DEF RefreshInv, Fails
<1>2. Minted'
  BY DEF RefreshInv, Minted, Typed, Fails, Leaves, LeavesTo, NewCall, login
<1>3. Exchanged'
  BY DEF RefreshInv, Exchanged, Fails, Leaves, LeavesTo, At, NewCall, login
<1>4. (Ordered /\ LeaseOk /\ Untried /\ LeasedOk)'
  BY DEF RefreshInv, Ordered, LeaseOk, Untried, LeasedOk, Fails, Leaves, LeavesTo, LapseKnown,
     At, Ready, Live, clock
<1>5. (HeldOk /\ LostByLapse /\ GoneOk)'
  BY DEF RefreshInv, HeldOk, LostByLapse, GoneOk, Fails, Leaves, LeavesTo, At, Ready, Live,
     Busy, clock, Past, Holds
<1>6. ASSUME stalls' <= 1 PROVE (OneStall /\ Heirs /\ DeadStays)'
  <2>1. OneStall'
    BY <1>6 DEF RefreshInv, OneStall, Fails, Leaves, LeavesTo, NewCall, clock
  <2>2. Heirs'
    BY <1>6 DEF RefreshInv, Heirs, Fails, Leaves, LeavesTo, Sleeper, After, At, Ready, Live,
       Busy, login, clock, Past
  <2>3. DeadStays'
    BY <1>6 DEF RefreshInv, DeadStays, Fails, Leaves, LeavesTo, LoginIsDead, At, Ready, Live,
       login, clock
  <2> QED BY <2>1, <2>2, <2>3
<1> QED BY <1>1, <1>2, <1>3, <1>4, <1>5, <1>6 DEF RefreshInv

LEMMA RenewStep ==
  ASSUME RefreshInv, NEW c \in Calls, Renew(c) PROVE RefreshInv'
<1>1. Renewed(c)
  BY RenewFields
<1>2. Typed'
  BY RenewTyped DEF RefreshInv
<1>3. Minted'
  BY <1>1 DEF RefreshInv, Minted, login, Renewed
<1>4. Exchanged'
  BY <1>1 DEF RefreshInv, Exchanged, At, login, Renewed
<1>5. (Ordered /\ LeaseOk /\ Untried /\ LeasedOk)'
  BY <1>1, CredentialAssumptions DEF RefreshInv, Ordered, LeaseOk, Untried, LeasedOk,
     Unlapsed, LapseKnown, At, Ready, Live, clock, Renewed
<1>6. (HeldOk /\ LostByLapse /\ GoneOk)'
  BY <1>1, CredentialAssumptions DEF RefreshInv, HeldOk, LostByLapse, GoneOk, Typed, LeaseOk,
     LapseKnown, At, Ready, Live, Busy, clock, Holds, Renewed
<1>7. ASSUME stalls' <= 1 PROVE (OneStall /\ Heirs /\ DeadStays)'
  <2>1. stalls <= 1
    BY <1>7 DEF clock, Renew
  <2>2. OneStall'
    BY <1>7, <1>1 DEF RefreshInv, OneStall, clock, Renewed
  <2>3. Heirs'
    BY <2>1, RenewHeirs
  <2>4. DeadStays'
    BY <1>7, <1>1 DEF RefreshInv, DeadStays, LoginIsDead, At, Ready, Live, login, clock,
       Renewed
  <2> QED BY <2>2, <2>3, <2>4
<1> QED BY <1>2, <1>3, <1>4, <1>5, <1>6, <1>7 DEF RefreshInv

LEMMA NotesStalledStep ==
  ASSUME RefreshInv, NEW c \in Calls, NotesStalled(c) PROVE RefreshInv'
<1>1. Typed'
  BY NotesStalledTyped
<1>2. Minted'
  BY DEF RefreshInv, Minted, Typed, NotesStalled, Leaves, LeavesTo, NewCall, login
<1>3. Exchanged'
  BY DEF RefreshInv, Exchanged, NotesStalled, Leaves, LeavesTo, At, NewCall, login
<1>4. (Ordered /\ LeaseOk /\ Untried /\ LeasedOk)'
  BY DEF RefreshInv, Ordered, LeaseOk, Untried, LeasedOk, Typed, NotesStalled, Leaves,
     LeavesTo, LapsesNow, LapseKnown, At, Ready, Live
<1>5. (HeldOk /\ LostByLapse /\ GoneOk)'
  BY DEF RefreshInv, HeldOk, LostByLapse, GoneOk, NotesStalled, Leaves, LeavesTo, LapsesNow,
     At, Ready, Live, Busy, Past, Holds
<1>6. ASSUME stalls' <= 1 PROVE (OneStall /\ Heirs /\ DeadStays)'
  <2>1. OneStall'
    BY <1>6 DEF RefreshInv, OneStall, NotesStalled, Leaves, LeavesTo, NewCall
  <2>2. Heirs'
    BY <1>6 DEF RefreshInv, Heirs, NotesStalled, Leaves, LeavesTo, LapsesNow, Sleeper, After,
       At, Ready, Live, Busy, login, Past
  <2>3. DeadStays'
    BY <1>6 DEF RefreshInv, DeadStays, NotesStalled, Leaves, LeavesTo, LoginIsDead, At, Ready,
       Live, login
  <2> QED BY <2>1, <2>2, <2>3
<1> QED BY <1>1, <1>2, <1>3, <1>4, <1>5, <1>6 DEF RefreshInv

LEMMA DisableStep ==
  ASSUME RefreshInv, NEW c \in Calls, Disable(c) PROVE RefreshInv'
<1>1. Disabled(c)
  BY DisableFields
<1>2. Typed'
  <2>1. call' \in [Calls -> CallRecords]
    BY LeaveTyped DEF RefreshInv, Disable, Endings
  <2>2. row' \in [tok : Nat, fresh : BOOLEAN, up : BOOLEAN]
    BY DEF RefreshInv, Typed, Disable
  <2> QED BY <2>1, <2>2 DEF RefreshInv, Typed, Disable, clock
<1>3. Minted'
  BY <1>1 DEF RefreshInv, Minted, Typed, Holds, Exchanged, Disabled
<1>4. Exchanged'
  BY <1>1 DEF RefreshInv, Exchanged, At, Disabled
<1>5. (Ordered /\ LeaseOk /\ Untried /\ LeasedOk)'
  BY <1>1 DEF RefreshInv, Ordered, LeaseOk, Untried, LeasedOk, LapseKnown, At, Ready, Live,
     clock, Disabled
<1>6. (HeldOk /\ LostByLapse /\ GoneOk)'
  BY <1>1 DEF RefreshInv, HeldOk, LostByLapse, GoneOk, Typed, TookOver, Holds, At, Ready,
     Live, Busy, clock, Past, Disabled
<1>7. ASSUME stalls' <= 1 PROVE (OneStall /\ Heirs /\ DeadStays)'
  <2>1. stalls <= 1
    BY <1>7 DEF clock, Disable
  <2>2. OneStall'
    BY <1>7, <1>1 DEF RefreshInv, OneStall, clock, Disabled
  <2>3. Heirs'
    BY <1>7, <1>1 DEF RefreshInv, Heirs, Sleeper, After, At, Ready, Live, Busy, clock, Past,
       Disabled
  <2>4. DeadStays'
    BY <2>1, DisableDead
  <2> QED BY <2>2, <2>3, <2>4
<1> QED BY <1>2, <1>3, <1>4, <1>5, <1>6, <1>7 DEF RefreshInv

LEMMA ProbeFailsStep ==
  ASSUME RefreshInv, NEW c \in Calls, ProbeFails(c) PROVE RefreshInv'
<1>1. Typed'
  <2>1. call' \in [Calls -> CallRecords]
    BY LeaveTyped DEF RefreshInv, ProbeFails, Endings
  <2> QED BY <2>1, OnlyCalls DEF RefreshInv, ProbeFails
<1>2. Minted'
  BY DEF RefreshInv, Minted, Typed, ProbeFails, Leaves, LeavesTo, NewCall, login
<1>3. Exchanged'
  BY DEF RefreshInv, Exchanged, ProbeFails, Leaves, LeavesTo, At, Ready, NewCall, login
<1>4. (Ordered /\ LeaseOk /\ Untried /\ LeasedOk)'
  BY DEF RefreshInv, Ordered, LeaseOk, Untried, LeasedOk, ProbeFails, Leaves, LeavesTo,
     LapseKnown, At, Ready, Live, clock
<1>5. (HeldOk /\ LostByLapse /\ GoneOk)'
  BY DEF RefreshInv, HeldOk, LostByLapse, GoneOk, ProbeFails, Leaves, LeavesTo, At, Ready,
     Live, Busy, clock, Past, Holds
<1>6. ASSUME stalls' <= 1 PROVE (OneStall /\ Heirs /\ DeadStays)'
  <2>1. OneStall'
    BY <1>6 DEF RefreshInv, OneStall, ProbeFails, Leaves, LeavesTo, NewCall, clock
  <2>2. Heirs'
    BY <1>6 DEF RefreshInv, Heirs, ProbeFails, Leaves, LeavesTo, Sleeper, After, At, Ready,
       Live, Busy, login, clock, Past
  <2>3. DeadStays'
    BY <1>6 DEF RefreshInv, DeadStays, ProbeFails, Leaves, LeavesTo, LoginIsDead, At, Ready,
       Live, login, clock
  <2> QED BY <2>1, <2>2, <2>3
<1> QED BY <1>1, <1>2, <1>3, <1>4, <1>5, <1>6 DEF RefreshInv

LEMMA JoinerDisablesStep ==
  ASSUME RefreshInv, NEW c \in Calls, JoinerDisables(c) PROVE RefreshInv'
<1>1. Typed'
  <2>1. call' \in [Calls -> CallRecords]
    BY EndsTyped DEF RefreshInv, JoinerDisables, Places
  <2>2. row' \in [tok : Nat, fresh : BOOLEAN, up : BOOLEAN]
    BY DEF RefreshInv, Typed, JoinerDisables
  <2> QED BY <2>1, <2>2 DEF RefreshInv, Typed, JoinerDisables, clock
<1>2. Minted'
  BY DEF RefreshInv, Minted, Typed, JoinerDisables, Ends, NewCall
<1>3. Exchanged'
  BY DEF RefreshInv, Exchanged, JoinerDisables, Ends, At, NewCall
<1>4. (Ordered /\ LeaseOk /\ Untried /\ LeasedOk)'
  BY CredentialAssumptions DEF RefreshInv, Ordered, LeaseOk, Untried, LeasedOk,
     JoinerDisables, Ends, Unlapsed, LapseKnown, At, Ready, Live, Free, NewCall, clock
<1>5. (HeldOk /\ LostByLapse /\ GoneOk)'
  BY DEF RefreshInv, HeldOk, LostByLapse, GoneOk, JoinerDisables, Ends, At, Ready, Live, Busy,
     clock, Past, Holds
<1>6. ASSUME stalls' <= 1 PROVE (OneStall /\ Heirs /\ DeadStays)'
  <2>1. OneStall'
    BY <1>6 DEF RefreshInv, OneStall, JoinerDisables, Ends, NewCall, clock
  <2>2. Heirs'
    BY <1>6 DEF RefreshInv, Heirs, JoinerDisables, Ends, Sleeper, After, At, Ready, Live,
       Busy, clock, Past
  <2>3. DeadStays'
    BY <1>6 DEF RefreshInv, DeadStays, Typed, JoinerDisables, Ends, LoginIsDead, At, Ready,
       Live, NewCall, clock
  <2> QED BY <2>1, <2>2, <2>3
<1> QED BY <1>1, <1>2, <1>3, <1>4, <1>5, <1>6 DEF RefreshInv

LEMMA NobodyJoinedStep ==
  ASSUME RefreshInv, NEW c \in Calls, NobodyJoined(c) PROVE RefreshInv'
<1>1. Typed'
  <2>1. call' \in [Calls -> CallRecords]
    BY EndsTyped DEF RefreshInv, NobodyJoined, Places
  <2> QED BY <2>1, OnlyCalls DEF RefreshInv, NobodyJoined
<1>2. Minted'
  BY DEF RefreshInv, Minted, Typed, NobodyJoined, Ends, NewCall, login
<1>3. Exchanged'
  BY DEF RefreshInv, Exchanged, NobodyJoined, Ends, At, NewCall, login
<1>4. (Ordered /\ LeaseOk /\ Untried /\ LeasedOk)'
  BY CredentialAssumptions DEF RefreshInv, Ordered, LeaseOk, Untried, LeasedOk, NobodyJoined,
     Ends, Unlapsed, LapseKnown, At, Ready, Live, Free, NewCall, clock
<1>5. (HeldOk /\ LostByLapse /\ GoneOk)'
  BY DEF RefreshInv, HeldOk, LostByLapse, GoneOk, NobodyJoined, Ends, At, Ready, Live, Busy,
     clock, Past, Holds
<1>6. ASSUME stalls' <= 1 PROVE (OneStall /\ Heirs /\ DeadStays)'
  <2>1. OneStall'
    BY <1>6 DEF RefreshInv, OneStall, NobodyJoined, Ends, NewCall, clock
  <2>2. Heirs'
    BY <1>6 DEF RefreshInv, Heirs, NobodyJoined, Ends, Sleeper, After, At, Ready, Live, Busy,
       login, clock, Past
  <2>3. DeadStays'
    BY <1>6 DEF RefreshInv, DeadStays, NobodyJoined, Ends, LoginIsDead, At, Ready, Live,
       NewCall, login, clock
  <2> QED BY <2>1, <2>2, <2>3
<1> QED BY <1>1, <1>2, <1>3, <1>4, <1>5, <1>6 DEF RefreshInv

LEMMA SavesStep ==
  ASSUME RefreshInv, NEW c \in Calls, Saves(c) PROVE RefreshInv'
<1>1. Typed'
  BY SavesTyped DEF RefreshInv
<1>2. Minted'
  BY DEF RefreshInv, Minted, Typed, Saves, LeavesTo, Unchanged, CallRecords, Exchanged, Ready,
     NewCall
<1>3. Exchanged'
  BY DEF RefreshInv, Exchanged, Saves, LeavesTo, At, NewCall
<1>4. (Ordered /\ LeaseOk /\ Untried /\ LeasedOk)'
  BY CredentialAssumptions DEF RefreshInv, Ordered, LeaseOk, Untried, LeasedOk, Saves,
     LeavesTo, Unlapsed, LapseKnown, At, Ready, Live, Free, clock
<1>5. (HeldOk /\ LostByLapse /\ GoneOk)'
  BY CredentialAssumptions DEF RefreshInv, HeldOk, LostByLapse, GoneOk, Saves, LeavesTo,
     CanFence, LeaseOk, LapseKnown, At, Ready, Live, Busy, clock, Holds
<1>6. ASSUME stalls' <= 1 PROVE (OneStall /\ Heirs /\ DeadStays)'
  <2>1. OneStall'
    BY <1>6 DEF RefreshInv, OneStall, Saves, LeavesTo, NewCall, clock
  <2>2. Heirs'
    BY <1>6 DEF RefreshInv, Heirs, Typed, Saves, LeavesTo, Unchanged, Sleeper, Minted,
       Exchanged, CallRecords, Ready
  <2>3. DeadStays'
    BY <1>6 DEF RefreshInv, DeadStays, Saves, LeavesTo, Unchanged, clock
  <2> QED BY <2>1, <2>2, <2>3
<1> QED BY <1>1, <1>2, <1>3, <1>4, <1>5, <1>6 DEF RefreshInv

LEMMA FindsRowChangedStep ==
  ASSUME RefreshInv, NEW c \in Calls, FindsRowChanged(c) PROVE RefreshInv'
<1>1. Typed'
  <2>1. call' \in [Calls -> CallRecords]
    BY LeaveTyped DEF RefreshInv, FindsRowChanged, Endings
  <2>2. lease' \in LeaseRows
    BY DEF RefreshInv, Typed, FindsRowChanged, LeaseRows
  <2> QED BY <2>1, <2>2 DEF RefreshInv, Typed, FindsRowChanged, login, clock
<1>2. Minted'
  BY DEF RefreshInv, Minted, Typed, FindsRowChanged, Leaves, LeavesTo, NewCall, login
<1>3. Exchanged'
  BY DEF RefreshInv, Exchanged, FindsRowChanged, Leaves, LeavesTo, At, NewCall, login
<1>4. (Ordered /\ LeaseOk /\ Untried /\ LeasedOk)'
  BY CredentialAssumptions DEF RefreshInv, Ordered, LeaseOk, Untried, LeasedOk,
     FindsRowChanged, Leaves, LeavesTo, Unlapsed, LapseKnown, At, Ready, Live, clock
<1>5. (HeldOk /\ LostByLapse /\ GoneOk)'
  BY CredentialAssumptions DEF RefreshInv, HeldOk, LostByLapse, GoneOk, FindsRowChanged,
     Leaves, LeavesTo, CanFence, LeaseOk, LapseKnown, At, Ready, Live, Busy, clock, Past, Holds
<1>6. ASSUME stalls' <= 1 PROVE (OneStall /\ Heirs /\ DeadStays)'
  <2>1. OneStall'
    BY <1>6 DEF RefreshInv, OneStall, FindsRowChanged, Leaves, LeavesTo, NewCall, clock
  <2>2. Heirs'
    BY <1>6 DEF RefreshInv, Heirs, Typed, FindsRowChanged, Leaves, LeavesTo, Sleeper, After,
       OneStall, HeldOk, At, Ready, Live, Busy, login, clock, Past, Holds
  <2>3. DeadStays'
    BY <1>6 DEF RefreshInv, DeadStays, FindsRowChanged, Leaves, LeavesTo, LoginIsDead, At,
       Ready, Live, login, clock
  <2> QED BY <2>1, <2>2, <2>3
<1> QED BY <1>1, <1>2, <1>3, <1>4, <1>5, <1>6 DEF RefreshInv

LEMMA SaveWindowEndsStep ==
  ASSUME RefreshInv, NEW c \in Calls, SaveWindowEnds(c) PROVE RefreshInv'
<1>1. Typed'
  <2>1. call' \in [Calls -> CallRecords]
    BY LeaveTyped DEF RefreshInv, SaveWindowEnds, Endings
  <2> QED BY <2>1, OnlyCalls DEF RefreshInv, SaveWindowEnds
<1>2. Minted'
  BY DEF RefreshInv, Minted, Typed, SaveWindowEnds, Leaves, LeavesTo, NewCall, login
<1>3. Exchanged'
  BY DEF RefreshInv, Exchanged, SaveWindowEnds, Leaves, LeavesTo, At, NewCall, login
<1>4. (Ordered /\ LeaseOk /\ Untried /\ LeasedOk)'
  BY DEF RefreshInv, Ordered, LeaseOk, Untried, LeasedOk, SaveWindowEnds, Leaves, LeavesTo,
     LapseKnown, At, Ready, Live, clock
<1>5. (HeldOk /\ LostByLapse /\ GoneOk)'
  BY DEF RefreshInv, HeldOk, LostByLapse, GoneOk, SaveWindowEnds, Leaves, LeavesTo, At, Ready,
     Live, Busy, clock, Past, Holds
<1>6. ASSUME stalls' <= 1 PROVE (OneStall /\ Heirs /\ DeadStays)'
  <2>1. OneStall'
    BY <1>6 DEF RefreshInv, OneStall, SaveWindowEnds, Leaves, LeavesTo, NewCall, clock
  <2>2. Heirs'
    BY <1>6 DEF RefreshInv, Heirs, SaveWindowEnds, Leaves, LeavesTo, Sleeper, After, At,
       Ready, Live, Busy, login, clock, Past
  <2>3. DeadStays'
    BY <1>6 DEF RefreshInv, DeadStays, SaveWindowEnds, Leaves, LeavesTo, LoginIsDead, At,
       Ready, Live, login, clock
  <2> QED BY <2>1, <2>2, <2>3
<1> QED BY <1>1, <1>2, <1>3, <1>4, <1>5, <1>6 DEF RefreshInv

LEMMA LeaveLeaseStep ==
  ASSUME RefreshInv, NEW c \in Calls, LeaveLease(c) PROVE RefreshInv'
<1>1. Returned(c)
  BY ReturnFields DEF LeaveLease
<1>2. Typed'
  BY LeaveLeaseTyped DEF RefreshInv
<1>3. Minted'
  BY <1>1 DEF RefreshInv, Minted, Typed, LeaveLease, login, Returned
<1>4. Exchanged'
  BY <1>1 DEF RefreshInv, Exchanged, LeaveLease, At, Ready, login, Returned
<1>5. (Ordered /\ LeaseOk)'
  BY <1>1 DEF RefreshInv, Ordered, LeaseOk, Unlapsed, LapseKnown, At, Ready, Live, Busy, Free,
     login, clock, LeaveLease, LeftTo, Returned
<1>6. (Untried /\ LeasedOk)'
  BY LeaveSides
<1>7. (HeldOk /\ LostByLapse /\ GoneOk)'
  BY <1>1 DEF RefreshInv, HeldOk, LostByLapse, GoneOk, Typed, LeaveLease, At, Ready, Live,
     Busy, clock, Past, Holds, Returned
<1>8. ASSUME stalls' <= 1 PROVE (OneStall /\ Heirs /\ DeadStays)'
  <2>1. stalls <= 1
    BY <1>8 DEF clock, LeaveLease
  <2>2. OneStall'
    BY <1>8, <1>1 DEF RefreshInv, OneStall, LeaveLease, clock, Returned
  <2>3. Heirs'
    BY <2>1, LeaveLeaseHeirs
  <2>4. DeadStays'
    BY <1>8, <1>1 DEF RefreshInv, DeadStays, LeaveLease, LoginIsDead, At, Ready, Live, login,
       clock, Returned
  <2> QED BY <2>2, <2>3, <2>4
<1> QED BY <1>2, <1>3, <1>4, <1>5, <1>6, <1>7, <1>8 DEF RefreshInv

LEMMA KeepsLeaseStep ==
  ASSUME RefreshInv, NEW c \in Calls, KeepsLease(c) PROVE RefreshInv'
<1>1. Returned(c)
  BY ReturnFields DEF KeepsLease
<1>2. Typed'
  <2>1. call' \in [Calls -> CallRecords]
    BY ReturnsTyped DEF RefreshInv, KeepsLease
  <2> QED BY <2>1, OnlyCalls DEF RefreshInv, KeepsLease
<1>3. Minted'
  BY <1>1 DEF RefreshInv, Minted, Typed, KeepsLease, login, Returned
<1>4. Exchanged'
  BY <1>1 DEF RefreshInv, Exchanged, KeepsLease, At, Ready, login, Returned
<1>5. (Ordered /\ LeaseOk /\ Untried /\ LeasedOk)'
  BY <1>1, CredentialAssumptions DEF RefreshInv, Ordered, LeaseOk, Untried, LeasedOk,
     KeepsLease, Unlapsed, LapseKnown, At, Ready, Live, Free, clock, Returned
<1>6. (HeldOk /\ LostByLapse /\ GoneOk)'
  BY <1>1 DEF RefreshInv, HeldOk, LostByLapse, GoneOk, Typed, KeepsLease, At, Ready, Live,
     Busy, clock, Holds, Returned
<1>7. ASSUME stalls' <= 1 PROVE (OneStall /\ Heirs /\ DeadStays)'
  <2>1. OneStall'
    BY <1>7, <1>1 DEF RefreshInv, OneStall, KeepsLease, clock, Returned
  <2>2. Heirs'
    BY <1>7, <1>1 DEF RefreshInv, Heirs, KeepsLease, Sleeper, After, At, Ready, Live, Busy,
       login, clock, Past, Returned
  <2>3. DeadStays'
    BY <1>7, <1>1 DEF RefreshInv, DeadStays, KeepsLease, LoginIsDead, At, Ready, Live, login,
       clock, Returned
  <2> QED BY <2>1, <2>2, <2>3
<1> QED BY <1>2, <1>3, <1>4, <1>5, <1>6, <1>7 DEF RefreshInv

LEMMA WindowPassesStep ==
  ASSUME RefreshInv, NEW c \in Calls, WindowPasses(c) PROVE RefreshInv'
<1>1. Typed'
  <2>1. gone' \subseteq Calls /\ lapses' \subseteq Calls \ gone' /\ earlier' \subseteq lapses' \X lapses'
    BY WindowTyped DEF RefreshInv
  <2> QED BY <2>1 DEF RefreshInv, Typed, WindowPasses, login
<1>2. Minted'
  BY DEF RefreshInv, Minted, WindowPasses, login
<1>3. Exchanged'
  BY DEF RefreshInv, Exchanged, WindowPasses, At, login
<1>4. (Ordered /\ LeaseOk /\ Untried /\ LeasedOk)'
  BY DEF RefreshInv, Ordered, LeaseOk, Untried, LeasedOk, WindowPasses, LapseKnown, At, Ready,
     Live
<1>5. (HeldOk /\ LostByLapse /\ GoneOk)'
  BY DEF RefreshInv, HeldOk, LostByLapse, GoneOk, WindowPasses, At, Ready, Live, Busy, Holds
<1>6. ASSUME stalls' <= 1 PROVE (OneStall /\ Heirs /\ DeadStays)'
  <2>1. stalls <= 1
    BY <1>6 DEF clock, WindowPasses
  <2>2. OneStall'
    BY <1>6 DEF RefreshInv, OneStall, WindowPasses
  <2>3. Heirs'
    BY <2>1, WindowHeirs
  <2>4. DeadStays'
    BY <1>6 DEF RefreshInv, DeadStays, WindowPasses, LoginIsDead, At, Ready, Live, login
  <2> QED BY <2>2, <2>3, <2>4
<1> QED BY <1>1, <1>2, <1>3, <1>4, <1>5, <1>6 DEF RefreshInv

LEMMA LapseStep ==
  ASSUME RefreshInv, Lapse PROVE RefreshInv'
<1>1. Lapsed
  BY LapseFields
<1>2. Typed'
  BY LapseTyped
<1>3. Minted'
  BY <1>1 DEF RefreshInv, Minted, login, Lapsed
<1>4. Exchanged'
  BY <1>1 DEF RefreshInv, Exchanged, At, Ready, Busy, login, Lapsed
<1>5. (Ordered /\ LeaseOk /\ Untried /\ LeasedOk)'
  BY <1>1 DEF RefreshInv, Ordered, LeaseOk, Untried, LeasedOk, Typed, LapsesNow, Unlapsed,
     LapseKnown, At, Ready, Live, Lapsed
<1>6. (HeldOk /\ LostByLapse /\ GoneOk)'
  BY <1>1 DEF RefreshInv, HeldOk, LostByLapse, GoneOk, Typed, LapsesNow, At, Ready, Live,
     Busy, Holds, Lapsed
<1>7. ASSUME stalls' <= 1 PROVE (OneStall /\ Heirs /\ DeadStays)'
  <2>1. OneStall'
    BY <1>7, <1>1 DEF RefreshInv, OneStall, Typed, Lapsed
  <2>2. Heirs'
    BY <1>7, <1>1 DEF RefreshInv, Heirs, Typed, LapsesNow, Sleeper, After, LostByLapse,
       GoneOk, At, Ready, Live, Busy, login, Lapsed
  <2>3. DeadStays'
    BY <1>7, <1>1 DEF RefreshInv, DeadStays, Typed, LoginIsDead, At, Ready, Live, login,
       Lapsed
  <2> QED BY <2>1, <2>2, <2>3
<1> QED BY <1>2, <1>3, <1>4, <1>5, <1>6, <1>7 DEF RefreshInv

LEMMA LoginStep ==
  ASSUME RefreshInv, Login PROVE RefreshInv'
<1>1. Typed'
  BY LoginTyped DEF RefreshInv
<1>2. Minted'
  BY DEF RefreshInv, Minted, Typed, Login, CallRecords
<1>3. Exchanged'
  BY DEF RefreshInv, Exchanged, Login, At
<1>4. (Ordered /\ LeaseOk /\ Untried /\ LeasedOk)'
  BY DEF RefreshInv, Ordered, LeaseOk, Untried, LeasedOk, Login, LapseKnown, At, Ready, Live,
     clock
<1>5. (HeldOk /\ LostByLapse /\ GoneOk)'
  BY DEF RefreshInv, HeldOk, LostByLapse, GoneOk, Login, At, Ready, Live, Busy, clock, Holds
<1>6. ASSUME stalls' <= 1 PROVE (OneStall /\ Heirs /\ DeadStays)'
  <2>1. OneStall'
    BY <1>6 DEF RefreshInv, OneStall, Login, clock
  <2>2. Heirs'
    BY <1>6 DEF RefreshInv, Heirs, Typed, Login, Sleeper, Minted
  <2>3. DeadStays'
    BY <1>6 DEF RefreshInv, DeadStays, Login, clock
  <2> QED BY <2>1, <2>2, <2>3
<1> QED BY <1>1, <1>2, <1>3, <1>4, <1>5, <1>6 DEF RefreshInv

LEMMA CrashStep ==
  ASSUME RefreshInv, NEW p \in Procs, Crash(p) PROVE RefreshInv'
<1>1. Crashed(p)
  BY CrashFields
<1>2. Typed'
  BY CrashTyped DEF RefreshInv
<1>3. Minted'
  BY <1>1 DEF RefreshInv, Minted, Typed, login, Crashed
<1>4. Exchanged'
  BY <1>1 DEF RefreshInv, Exchanged, At, login, Crashed
<1>5. (Ordered /\ LeaseOk)'
  BY <1>1 DEF RefreshInv, Ordered, LeaseOk, Unlapsed, LapseKnown, At, Ready, Live, Busy, Free,
     login, clock, Crashed
<1>6. Untried'
  BY <1>1, CredentialAssumptions DEF RefreshInv, Typed, CallRecords, LeaseRows, Untried, At,
     Ready, Live, Busy, Free, login, clock, Crashed
<1>7. LeasedOk'
  BY <1>1, CredentialAssumptions DEF RefreshInv, Typed, CallRecords, LeaseRows, LeasedOk, At,
     Ready, Live, Busy, Free, login, clock, Crashed
<1>8. (HeldOk /\ LostByLapse /\ GoneOk)'
  BY <1>1 DEF RefreshInv, HeldOk, LostByLapse, GoneOk, Typed, At, Ready, Live, Busy, clock,
     Holds, Crashed
<1>9. ASSUME stalls' <= 1 PROVE (OneStall /\ Heirs /\ DeadStays)'
  <2>1. OneStall'
    BY <1>9, <1>1 DEF RefreshInv, OneStall, clock, Crashed
  <2>2. Heirs'
    BY <1>9, <1>1 DEF RefreshInv, Heirs, Sleeper, After, At, Ready, Live, Busy, login, clock,
       Crashed
  <2>3. DeadStays'
    BY <1>9, <1>1 DEF RefreshInv, DeadStays, LoginIsDead, At, Ready, Live, login, clock,
       Crashed
  <2> QED BY <2>1, <2>2, <2>3
<1> QED BY <1>2, <1>3, <1>4, <1>5, <1>6, <1>7, <1>8, <1>9 DEF RefreshInv

---------------------------------------------------------------------------
(* All steps.                                                              *)

LEMMA InitRefreshInv == Init => RefreshInv
<1> SUFFICES ASSUME Init PROVE RefreshInv
  OBVIOUS
<1>1. Typed
  BY Records, CredentialAssumptions DEF Init, Typed, NoMark
<1>2. \A c \in Calls : call[c] = NewCall
  BY DEF Init
<1>3. Minted /\ Exchanged
  BY <1>2 DEF Init, Minted, Exchanged, At, NewCall
<1>4. Ordered /\ LeaseOk /\ Untried /\ LeasedOk
  BY <1>2, CredentialAssumptions
     DEF Init, Ordered, LeaseOk, Unlapsed, LapseKnown, Untried, LeasedOk, Ready, At, NewCall, Free
<1>5. HeldOk /\ LostByLapse /\ GoneOk
  BY <1>2 DEF Init, HeldOk, LostByLapse, GoneOk, Busy, Ready, At, NewCall, Past
<1>6. OneStall /\ Heirs /\ DeadStays
  BY <1>2 DEF Init, OneStall, Heirs, Sleeper, DeadStays, NewCall
<1> QED BY <1>1, <1>3, <1>4, <1>5, <1>6 DEF RefreshInv

LEMMA NextStep ==
  ASSUME RefreshInv, Next PROVE RefreshInv'
<1>1. ASSUME NEW c \in Calls, Proceeds(c) PROVE RefreshInv'
  BY <1>1, AdoptsStep, TryAcquireStep, StartExchangeStep, LeavesEarlyStep, ProviderGrantsStep,
     ProviderRejectsStep, FailsStep, NotesStalledStep, DisableStep, ProbeFailsStep,
     JoinerDisablesStep, NobodyJoinedStep, SavesStep, FindsRowChangedStep, LeaveLeaseStep,
     KeepsLeaseStep DEF Proceeds
<1>2. ASSUME NEW c \in Calls, RefreshStored(c) \/ GivesUp(c) \/ ReadHolder(c) \/ FindsLeaseHeld(c)
                              \/ Renew(c) \/ SaveWindowEnds(c)
      PROVE RefreshInv'
  BY <1>2, RefreshStoredStep, GivesUpStep, ReadHolderStep, FindsLeaseHeldStep, RenewStep,
     SaveWindowEndsStep
<1>3. ASSUME TimePasses \/ Login PROVE RefreshInv'
  BY <1>3, LapseStep, WindowPassesStep, LoginStep DEF TimePasses
<1>4. ASSUME NEW p \in Procs, Crash(p) PROVE RefreshInv'
  BY <1>4, CrashStep
<1> QED BY <1>1, <1>2, <1>3, <1>4 DEF Next

LEMMA Stutter ==
  ASSUME RefreshInv, UNCHANGED vars PROVE RefreshInv'
<1>1. (Typed /\ Minted /\ Exchanged)'
  BY DEF vars, login, clock, RefreshInv, Typed, Minted, Exchanged, At
<1>2. (Ordered /\ LeaseOk /\ Untried /\ LeasedOk)'
  BY DEF vars, login, clock, RefreshInv, Ordered, LeaseOk, Unlapsed, LapseKnown, Untried, LeasedOk,
     Ready, Live, At
<1>3. (HeldOk /\ LostByLapse /\ GoneOk)'
  BY DEF vars, login, clock, RefreshInv, HeldOk, LostByLapse, GoneOk, Holds, Busy, Ready, Live, At
<1>4. ASSUME stalls' <= 1 PROVE (OneStall /\ Heirs /\ DeadStays)'
  BY <1>4 DEF vars, login, clock, RefreshInv, OneStall, Heirs, Sleeper, After, DeadStays,
     LoginIsDead, Busy, Ready, Live, At
<1> QED BY <1>1, <1>2, <1>3, <1>4 DEF RefreshInv

LEMMA RefreshInvHolds == Spec => []RefreshInv
<1>1. RefreshInv /\ [Next]_vars => RefreshInv'
  BY NextStep, Stutter
<1> QED BY <1>1, InitRefreshInv, PTL DEF Spec

---------------------------------------------------------------------------
(* Safety.                                                                 *)

(* The type invariant: no call works with a token the provider has not yet *)
(* minted, and a lapsed lease is within the window or past it, never both  *)
(* (refresh.ts, #refreshStored and #exchangeLeased).                       *)
THEOREM TypeCorrect == Spec => []TypeOK
<1>1. RefreshInv => TypeOK
  BY DEF RefreshInv, Typed, Minted, LeaseRows, CallRecords, Places, TypeOK
<1> QED BY <1>1, RefreshInvHolds, PTL

(* Two calls work on the login at once only if one of them stalled for the *)
(* life of its lease, for any number of processes, calls, crashes and      *)
(* logins (the lease of sqlite-credential-store.ts, refresh.ts).           *)
THEOREM OneRefreshAtATime == Spec => []OneAtATime
<1>1. RefreshInv => OneAtATime
  BY DEF RefreshInv, HeldOk, Holds, OneAtATime
<1> QED BY <1>1, RefreshInvHolds, PTL

\* What NothingNewerIsUndone says of one step.
RowStep ==
  /\ row'.tok # row.tok =>
       \/ row'.tok > last
       \/ \E c \in Calls : call[c].tok = row.tok /\ call[c].new = row'.tok
  /\ row.up /\ ~row'.up => row.tok \in spent

LEMMA WritesRow ==
  ASSUME RefreshInv, NEW c \in Calls, Disable(c) \/ JoinerDisables(c) \/ Saves(c) PROVE RowStep
<1>1. CASE Disable(c)
  <2>1. Disabled(c)
    BY <1>1, DisableFields
  <2> QED BY <2>1 DEF Disabled, RefreshInv, Exchanged, Ready, At, RowStep
<1>2. CASE JoinerDisables(c)
  BY <1>2 DEF JoinerDisables, RefreshInv, Typed, Exchanged, Ready, At, RowStep
<1>3. CASE Saves(c)
  BY <1>3 DEF Saves, Unchanged, RowStep
<1> QED BY <1>1, <1>2, <1>3

LEMMA RowMoves ==
  ASSUME RefreshInv, [Next]_vars PROVE [RowStep]_row
<1>1. CASE \E c \in Calls : Disable(c) \/ JoinerDisables(c) \/ Saves(c)
  BY <1>1, WritesRow
<1>2. CASE Login
  BY <1>2 DEF Login, RefreshInv, Typed, RowStep
<1>3. CASE Next /\ ~Login /\ ~\E c \in Calls : Disable(c) \/ JoinerDisables(c) \/ Saves(c)
  BY <1>3 DEF Next, Proceeds, TimePasses, RefreshStored, GivesUp, ReadHolder, FindsLeaseHeld, Renew,
     SaveWindowEnds, Adopts, TryAcquire, StartExchange, LeavesEarly, ProviderGrants,
     ProviderRejects, Fails, NotesStalled, ProbeFails, NobodyJoined, FindsRowChanged, LeaveLease,
     KeepsLease, Lapse, WindowPasses, Crash, login
<1>4. CASE UNCHANGED vars
  BY <1>4 DEF vars, login
<1> QED BY <1>1, <1>2, <1>3, <1>4

(* The stored token gives way only to its own successor or to that of a    *)
(* login, and the row is disabled only for a token the provider has taken  *)
(* (the compare-and-set of sqlite-credential-store.ts, refresh.ts).        *)
THEOREM NothingNewerUndone == Spec => NothingNewerIsUndone
<1>1. RefreshInv /\ [Next]_vars => [RowStep]_row
  BY RowMoves
<1> QED BY <1>1, RefreshInvHolds, PTL DEF Spec, NothingNewerIsUndone, RowStep

(* As long as no more than one exchange outlived its lease, the rejection  *)
(* that disables a login is proof that the login is dead: its token is     *)
(* spent and no process that runs has the successor still to save          *)
(* (refresh.ts:716-782).  A second stall refutes it, as a run without this *)
(* bound shows.                                                            *)
THEOREM RejectionsAreProof == Spec => [](stalls <= 1 => RejectionIsProof)
<1>1. RefreshInv => (stalls <= 1 => RejectionIsProof)
  BY DEF RefreshInv, DeadStays, RejectionIsProof
<1> QED BY <1>1, RefreshInvHolds, PTL

===========================================================================
