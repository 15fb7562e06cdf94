--------------------------- MODULE EventService ---------------------------
(***************************************************************************)
(* What the issue bot promises about the events it is sent, without its    *)
(* database, dispatcher, slots or threads: an event waits, is worked on,   *)
(* and is settled or waits again; no two events of one issue are ever      *)
(* worked on at the same time, whatever is interrupted, killed or started  *)
(* again; and an event that was waiting is settled only by work on it.     *)
(* EventQueue implements it (EventQueue!ServiceSpec).                      *)
(***************************************************************************)
CONSTANTS
  Events,   \* deliveries
  Issues,   \* issue keys
  IssueOf   \* the issue each delivery is about

VARIABLE
  status    \* each event: "absent", "waiting", "working" or "settled"

Statuses == {"absent", "waiting", "working", "settled"}

Working(i) == {e \in Events : IssueOf[e] = i /\ status[e] = "working"}

Init == status = [e \in Events |-> "absent"]

(* A delivery arrives: it is queued, or recorded only (skipped).           *)
Arrive(e) ==
  /\ status[e] = "absent"
  /\ \E s \in {"waiting", "settled"} : status' = [status EXCEPT ![e] = s]

(* Work on an event begins.                                                *)
Begin(e) ==
  /\ status[e] = "waiting"
  /\ Working(IssueOf[e]) = {}
  /\ status' = [status EXCEPT ![e] = "working"]

(* Work ends, for one event or for several at once (the process dies): each*)
(* of them is settled, or waits to be worked on again.                     *)
End(S) ==
  /\ \A e \in S : status[e] = "working"
  /\ \E settled \in SUBSET S :
       status' = [e \in Events |-> CASE e \in settled     -> "settled"
                                     [] e \in S \ settled -> "waiting"
                                     [] OTHER             -> status[e]]

(* An operator asks for a settled event to be worked on once more.         *)
Again(e) ==
  /\ status[e] = "settled"
  /\ status' = [status EXCEPT ![e] = "waiting"]

Next ==
  \/ \E e \in Events : Arrive(e) \/ Begin(e) \/ Again(e)
  \/ \E S \in SUBSET Events : End(S)

Spec == Init /\ [][Next]_status
===========================================================================
