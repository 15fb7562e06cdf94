------------------------- MODULE ReplyWaitsProofs -------------------------
(***************************************************************************)
(* Proofs about ReplyWaits, for any number of agents and any tree of them: *)
(* the types, that a reply wait stands only while something is left to end *)
(* it, and that what a woken turn owes its waker stays owed.               *)
(*                                                                         *)
(* Most actions change sessions through a few operators (EndWait, Closed,  *)
(* Woken, Delivered, Told, Resumed, JobSettled, Replaced).  Each has a     *)
(* lemma that says what it leaves alone of every session: its wait         *)
(* (Waits), its turn and queues (Works), and its debts (Debts).            *)
(***************************************************************************)
EXTENDS ReplyWaits, TLAPS

AllSessions == [Agents -> Sessions]

\* A reply wait that stands after the change stood before it, and has heard of no fewer ends.
Waits(s, z) ==
  z.tool = "reply" => s.tool = "reply" /\ z.on = s.on /\ s.due \subseteq z.due

\* A turn goes on, and what was queued is queued still or has a turn.
Works(s, z) ==
  /\ s.turn # "idle" => z.turn # "idle"
  /\ z.turn # "idle" \/ s.box \cup s.parked \subseteq z.box \cup z.parked

\* What a session owes agent a for the turns that a woke.
Debts(s, a) ==
  {o \in s.closing \cup (IF s.obs = None THEN {} ELSE {s.obs}) :
     a \in o.from /\ (o.outcome = "failed" \/ a \notin o.told)}

Owes(s, z) == \A a \in Agents : Debts(s, a) # {} => Debts(z, a) # {}

\* A change of the sessions that ends waits but begins none, and loses neither turn,
\* message nor debt.
Onward(ag, bg) ==
  \A y \in Agents : Waits(ag[y], bg[y]) /\ Works(ag[y], bg[y])

LEMMA OnwardTwice ==
  ASSUME NEW ag, NEW bg, NEW cg, Onward(ag, bg), Onward(bg, cg)
  PROVE  Onward(ag, cg)
BY DEF Onward, Waits, Works
---------------------------------------------------------------------------
(* The operators on the sessions.                                          *)

\* The fields of a session.
LEMMA SessionFields ==
  ASSUME NEW s \in Sessions
  PROVE  /\ s.turn \in {"idle", "run", "settled"}
         /\ s.tool \in {"none", "reply", "jobs", "inline"}
         /\ s.on \subseteq Agents /\ s.due \subseteq Agents
         /\ s.box \subseteq Messages /\ s.parked \subseteq Messages
         /\ s.held \in {"no", "run", "gap"} /\ s.run \in {"no", "bg", "inline"}
         /\ s.obs \in Turns \cup {None} /\ s.closing \subseteq Turns
BY DEF Sessions

\* A session without its wait is a session.
LEMMA WaitOver ==
  ASSUME NEW s \in Sessions
  PROVE  [s EXCEPT !.tool = "none", !.on = {}, !.due = {}] \in Sessions
BY DEF Sessions

\* A session whose open observation is on its way is a session.
LEMMA ClosedIsSession ==
  ASSUME NEW s \in Sessions, NEW o \in Turns
  PROVE  [s EXCEPT !.closing = @ \cup {o}, !.obs = None] \in Sessions
BY DEF Sessions

\* EndWait ends the wait of one agent, if there is that agent, and nothing else.
LEMMA EndWaitSteps ==
  ASSUME NEW ag \in AllSessions, NEW x
  PROVE  /\ EndWait(ag, x) \in AllSessions
         /\ Onward(ag, EndWait(ag, x))
         /\ \A y \in Agents :
              /\ y # x => EndWait(ag, x)[y] = ag[y]
              /\ y = x => EndWait(ag, x)[y].tool = "none"
              /\ EndWait(ag, x)[y].obs = ag[y].obs
              /\ EndWait(ag, x)[y].closing = ag[y].closing
              /\ EndWait(ag, x)[y].turn = ag[y].turn
<1> DEFINE z == [ag[x] EXCEPT !.tool = "none", !.on = {}, !.due = {}]
<1>1. DOMAIN EndWait(ag, x) = Agents
  BY DEF EndWait, AllSessions
<1>2. \A y \in Agents : y # x => EndWait(ag, x)[y] = ag[y]
  BY DEF EndWait, AllSessions
<1>3. ASSUME x \in Agents PROVE EndWait(ag, x)[x] = z /\ z \in Sessions
  <2>1. EndWait(ag, x)[x] = z
    BY <1>3 DEF EndWait, AllSessions
  <2>2. z \in Sessions
    BY <1>3, WaitOver DEF AllSessions
  <2> QED
    BY <2>1, <2>2
<1>4. x \in Agents => /\ z.tool = "none" /\ z.obs = ag[x].obs /\ z.closing = ag[x].closing
                      /\ z.turn = ag[x].turn /\ z.box = ag[x].box /\ z.parked = ag[x].parked
  BY DEF AllSessions, Sessions
<1>5. EndWait(ag, x) \in [DOMAIN EndWait(ag, x) -> {EndWait(ag, x)[y] : y \in DOMAIN EndWait(ag, x)}]
  BY DEF EndWait
<1> HIDE DEF z
<1>6. EndWait(ag, x) \in AllSessions
  BY <1>1, <1>2, <1>3, <1>5 DEF AllSessions
<1> QED
  BY <1>2, <1>3, <1>4, <1>6 DEF Onward, Waits, Works

\* Everything of a session but its observations is as before.
Besides(s, z) ==
  /\ z.turn = s.turn /\ z.tool = s.tool /\ z.on = s.on /\ z.due = s.due
  /\ z.box = s.box /\ z.parked = s.parked

\* Closed moves one agent's open observation to those on their way.
LEMMA ClosedSteps ==
  ASSUME NEW ag \in AllSessions, NEW x \in Agents
  PROVE  /\ Closed(ag, x) \in AllSessions
         /\ \A y \in Agents : y # x => Closed(ag, x)[y] = ag[y]
         /\ Besides(ag[x], Closed(ag, x)[x])
         /\ Closed(ag, x)[x].obs = None
         /\ \A a \in Agents : Debts(Closed(ag, x)[x], a) = Debts(ag[x], a)
<1> DEFINE s == ag[x]
           z == [s EXCEPT !.closing = @ \cup {s.obs}, !.obs = None]
<1>1. s \in Sessions
  BY DEF AllSessions
<1>2. CASE ag[x].obs = None
  BY <1>2 DEF Closed, Besides
<1>3. CASE ag[x].obs # None
  <2>1. Closed(ag, x) = [ag EXCEPT ![x].closing = @ \cup {s.obs}, ![x].obs = None]
    BY <1>3 DEF Closed
  <2>2. Closed(ag, x)[x] = z
    BY <2>1 DEF AllSessions
  <2>3. \A y \in Agents : y # x => Closed(ag, x)[y] = ag[y]
    BY <2>1 DEF AllSessions
  <2>4. s.obs \in Turns
    BY <1>1, <1>3, SessionFields
  <2>5. z \in Sessions
    BY <1>1, <2>4, ClosedIsSession
  <2>6. /\ z.obs = None /\ z.closing = s.closing \cup {s.obs}
        /\ Besides(s, z)
    BY <1>1 DEF Sessions, Besides
  <2>7. Closed(ag, x) \in AllSessions
    <3>1. DOMAIN Closed(ag, x) = Agents
      BY <2>1 DEF AllSessions
    <3>2. Closed(ag, x) \in [DOMAIN Closed(ag, x) -> {Closed(ag, x)[y] : y \in DOMAIN Closed(ag, x)}]
      BY <2>1
    <3> HIDE DEF z, s
    <3> QED
      BY <3>1, <3>2, <2>2, <2>3, <2>5 DEF AllSessions
  <2>8. \A a \in Agents : Debts(z, a) = Debts(s, a)
    <3> HIDE DEF z
    <3> QED
      BY <2>6, <1>3 DEF Debts
  <2> HIDE DEF z
  <2> QED
    BY <2>2, <2>3, <2>6, <2>7, <2>8
<1> QED
  BY <1>2, <1>3

\* A session with another turn, or with another observation, is a session.
LEMMA FieldOfSession ==
  ASSUME NEW s \in Sessions
  PROVE  /\ \A v \in {"idle", "run", "settled"} : [s EXCEPT !.turn = v] \in Sessions
         /\ \A v \in Turns \cup {None} : [s EXCEPT !.obs = v] \in Sessions
         /\ \A v \in SUBSET Turns : [s EXCEPT !.closing = v] \in Sessions
         /\ \A v \in SUBSET Messages : [s EXCEPT !.box = v] \in Sessions
         /\ \A v \in SUBSET Messages : [s EXCEPT !.parked = v] \in Sessions
         /\ \A v \in {"no", "run", "gap"} : [s EXCEPT !.held = v] \in Sessions
         /\ \A v \in {"no", "bg", "inline"} : [s EXCEPT !.run = v] \in Sessions
         /\ \A v \in SUBSET Agents : [s EXCEPT !.due = v] \in Sessions
<1>1. \A v \in {"idle", "run", "settled"} : [s EXCEPT !.turn = v] \in Sessions
  BY DEF Sessions
<1>2. \A v \in Turns \cup {None} : [s EXCEPT !.obs = v] \in Sessions
  BY DEF Sessions
<1>3. \A v \in SUBSET Turns : [s EXCEPT !.closing = v] \in Sessions
  BY DEF Sessions
<1>4. \A v \in SUBSET Messages : [s EXCEPT !.box = v] \in Sessions
  BY DEF Sessions
<1>5. \A v \in SUBSET Messages : [s EXCEPT !.parked = v] \in Sessions
  BY DEF Sessions
<1>6. \A v \in {"no", "run", "gap"} : [s EXCEPT !.held = v] \in Sessions
  BY DEF Sessions
<1>7. \A v \in {"no", "bg", "inline"} : [s EXCEPT !.run = v] \in Sessions
  BY DEF Sessions
<1>8. \A v \in SUBSET Agents : [s EXCEPT !.due = v] \in Sessions
  BY DEF Sessions
<1> QED
  BY <1>1, <1>2, <1>3, <1>4, <1>5, <1>6, <1>7, <1>8

\* A wake starts a turn of one agent, and its queues and debts stay.
LEMMA WokenSteps ==
  ASSUME ReplyAssumption, NEW ag \in AllSessions, NEW x \in Agents, NEW M \in SUBSET Messages
  PROVE  /\ Woken(ag, x, M) \in AllSessions
         /\ \A y \in Agents : y # x => Woken(ag, x, M)[y] = ag[y]
         /\ Woken(ag, x, M)[x].turn = "run"
         /\ Besides([ag[x] EXCEPT !.turn = "run"], Woken(ag, x, M)[x])
         /\ Owes(ag[x], Woken(ag, x, M)[x])
<1> DEFINE asking == {m.from : m \in {n \in M : n.asks}}
           c == Closed(ag, x)
           o == [from |-> asking, told |-> {}, outcome |-> "open", job |-> Parent[x] \in asking]
           n == [c EXCEPT ![x].turn = "run"]
           w == [n EXCEPT ![x].obs = o]
           y1 == [c[x] EXCEPT !.turn = "run"]
           y2 == [y1 EXCEPT !.obs = o]
<1>1. /\ c \in AllSessions /\ c[x].obs = None /\ Besides(ag[x], c[x])
      /\ \A y \in Agents : y # x => c[y] = ag[y]
      /\ \A a \in Agents : Debts(c[x], a) = Debts(ag[x], a)
  BY ClosedSteps
<1>2. Woken(ag, x, M) = IF Parent[x] = None THEN n ELSE w
  BY DEF Woken
<1>3. o \in Turns
  <2>1. asking \subseteq Agents
    BY DEF Messages
  <2> QED
    BY <2>1 DEF Turns, Outcomes
<1> HIDE DEF c, o
<1>4. c[x] \in Sessions
  BY <1>1 DEF AllSessions
<1>5. y1 \in Sessions /\ y2 \in Sessions
  BY <1>3, <1>4, FieldOfSession
<1>6. n = [c EXCEPT ![x] = y1] /\ w = [c EXCEPT ![x] = y2]
  BY <1>1 DEF AllSessions
<1>7. /\ y1.turn = "run" /\ y2.turn = "run"
      /\ Besides([ag[x] EXCEPT !.turn = "run"], y1) /\ Besides([ag[x] EXCEPT !.turn = "run"], y2)
  <2>1. ag[x] \in Sessions
    BY DEF AllSessions
  <2> QED
    BY <1>1, <1>4, <2>1 DEF Sessions, Besides
<1>8. Owes(ag[x], y1) /\ Owes(ag[x], y2)
  <2>1. /\ y1.closing = c[x].closing /\ y2.closing = c[x].closing
        /\ y1.obs = None
    BY <1>1, <1>4 DEF Sessions
  <2> HIDE DEF y1, y2
  <2>2. \A a \in Agents : Debts(c[x], a) \subseteq Debts(y1, a) /\ Debts(c[x], a) \subseteq Debts(y2, a)
    BY <1>1, <2>1 DEF Debts
  <2> QED
    BY <1>1, <2>2 DEF Owes
<1> HIDE DEF y1, y2, n, w
<1> QED
  BY <1>1, <1>2, <1>5, <1>6, <1>7, <1>8 DEF AllSessions

\* A message ends a wait, is queued or wakes its recipient.
LEMMA DeliveredSteps ==
  ASSUME ReplyAssumption, NEW ag \in AllSessions, NEW t \in Agents, NEW m \in Messages
  PROVE  /\ Delivered(ag, t, m) \in AllSessions
         /\ Onward(ag, Delivered(ag, t, m))
         /\ \A y \in Agents : y # t => Delivered(ag, t, m)[y] = ag[y]
         /\ Delivered(ag, t, m)[t].tool # "reply"
         /\ Owes(ag[t], Delivered(ag, t, m)[t])
<1> DEFINE d == Delivered(ag, t, m)
<1>1. ag[t] \in Sessions
  BY DEF AllSessions
<1> USE <1>1
<1>2. CASE ag[t].tool \in {"reply", "jobs"}
  <2>1. d = EndWait(ag, t)
    BY <1>2 DEF Delivered
  <2>2. Owes(ag[t], d[t])
    BY <2>1, EndWaitSteps DEF Owes, Debts
  <2> QED
    BY <2>1, <2>2, EndWaitSteps
<1>3. CASE ag[t].tool \notin {"reply", "jobs"} /\ ag[t].turn # "idle"
  <2> DEFINE z == [ag[t] EXCEPT !.box = @ \cup {m}]
  <2>1. d = [ag EXCEPT ![t] = z]
    BY <1>3 DEF Delivered, AllSessions
  <2>2. z \in Sessions
    <3>1. ag[t].box \cup {m} \in SUBSET Messages
      BY SessionFields
    <3> QED
      BY <3>1, FieldOfSession
  <2>3. /\ z.tool = ag[t].tool /\ z.on = ag[t].on /\ z.due = ag[t].due /\ z.turn = ag[t].turn
        /\ z.obs = ag[t].obs /\ z.closing = ag[t].closing
    BY DEF Sessions
  <2> HIDE DEF z
  <2>4. d \in AllSessions /\ \A y \in Agents : d[y] = IF y = t THEN z ELSE ag[y]
    BY <2>1, <2>2 DEF AllSessions
  <2> QED
    BY <1>3, <2>3, <2>4 DEF Onward, Waits, Works, Owes, Debts
<1>4. CASE /\ ag[t].tool \notin {"reply", "jobs"} /\ ag[t].turn = "idle"
           /\ ag[t].held # "no" /\ Peer(t, m.from)
  <2> DEFINE z == [ag[t] EXCEPT !.parked = @ \cup {m}]
  <2>1. d = [ag EXCEPT ![t] = z]
    BY <1>4 DEF Delivered, AllSessions
  <2>2. z \in Sessions
    <3>1. ag[t].parked \cup {m} \in SUBSET Messages
      BY SessionFields
    <3> QED
      BY <3>1, FieldOfSession
  <2>3. /\ z.tool = ag[t].tool /\ z.on = ag[t].on /\ z.due = ag[t].due /\ z.turn = ag[t].turn
        /\ z.obs = ag[t].obs /\ z.closing = ag[t].closing
        /\ z.box = ag[t].box /\ z.parked = ag[t].parked \cup {m}
    BY DEF Sessions
  <2> HIDE DEF z
  <2>4. d \in AllSessions /\ \A y \in Agents : d[y] = IF y = t THEN z ELSE ag[y]
    BY <2>1, <2>2 DEF AllSessions
  <2> QED
    BY <1>4, <2>3, <2>4 DEF Onward, Waits, Works, Owes, Debts
<1>5. CASE /\ ag[t].tool \notin {"reply", "jobs"} /\ ag[t].turn = "idle"
           /\ ~(ag[t].held # "no" /\ Peer(t, m.from))
  <2>1. d = Woken(ag, t, {m})
    BY <1>5 DEF Delivered
  <2>2. /\ d \in AllSessions
        /\ \A y \in Agents : y # t => d[y] = ag[y]
        /\ d[t].turn = "run"
        /\ Besides([ag[t] EXCEPT !.turn = "run"], d[t])
        /\ Owes(ag[t], d[t])
    BY <2>1, WokenSteps
  <2>3. d[t].tool = ag[t].tool /\ d[t].on = ag[t].on /\ d[t].due = ag[t].due
    BY <2>2 DEF Besides, Sessions
  <2> HIDE DEF d
  <2>4. Onward(ag, d)
    BY <2>2, <2>3 DEF Onward, Waits, Works
  <2>5. d[t].tool # "reply"
    BY <1>5, <2>3
  <2> QED
    BY <2>2, <2>4, <2>5 DEF d
<1> QED
  BY <1>2, <1>3, <1>4, <1>5

\* Having been told something frees a session from its debt to that agent only.
LEMMA ToldSteps ==
  ASSUME NEW ag \in AllSessions, NEW f \in Agents, NEW t \in Agents
  PROVE  /\ Told(ag, f, t) \in AllSessions
         /\ \A y \in Agents : Besides(ag[y], Told(ag, f, t)[y])
         /\ \A y \in Agents : y # f => Told(ag, f, t)[y] = ag[y]
         /\ \A a \in Agents : a # t /\ Debts(ag[f], a) # {} => Debts(Told(ag, f, t)[f], a) # {}
<1> DEFINE tells(o) == [o EXCEPT !.told = @ \cup {t}]
           s  == ag[f]
           v  == IF s.obs = None THEN None ELSE tells(s.obs)
           cl == {tells(o) : o \in s.closing}
           z1 == [s EXCEPT !.obs = v]
           z  == [z1 EXCEPT !.closing = cl]
<1>1. s \in Sessions /\ s.obs \in Turns \cup {None} /\ s.closing \subseteq Turns
  <2>1. s \in Sessions
    BY DEF AllSessions
  <2> QED
    BY <2>1, SessionFields
<1>2. \A o \in Turns : /\ tells(o) \in Turns /\ tells(o).from = o.from
                       /\ tells(o).outcome = o.outcome /\ tells(o).told = o.told \cup {t}
  BY DEF Turns
<1>3. Told(ag, f, t) = [ag EXCEPT ![f] = z]
  BY DEF Told, AllSessions
<1> HIDE DEF tells
<1>4. v \in Turns \cup {None} /\ cl \in SUBSET Turns
  BY <1>1, <1>2
<1>5. /\ z \in Sessions /\ Besides(s, z)
      /\ z.obs = v /\ z.closing = cl
  <2> HIDE DEF s, v, cl
  <2>1. z1 \in Sessions /\ z \in Sessions
    BY <1>1, <1>4, FieldOfSession
  <2> QED
    BY <1>1, <2>1 DEF Sessions, Besides
<1>6. ASSUME NEW a \in Agents, a # t, Debts(s, a) # {}
      PROVE  Debts(z, a) # {}
  <2> HIDE DEF z
  <2>1. PICK o \in s.closing \cup (IF s.obs = None THEN {} ELSE {s.obs}) :
          a \in o.from /\ (o.outcome = "failed" \/ a \notin o.told)
    BY <1>6 DEF Debts
  <2>2. o \in Turns
    BY <1>1, <2>1
  <2>3. a \in tells(o).from /\ (tells(o).outcome = "failed" \/ a \notin tells(o).told)
    BY <1>2, <1>6, <2>1, <2>2
  <2>4. tells(o) # None
    BY <1>2, <2>2, NoneIsNoTurn
  <2>5. tells(o) \in z.closing \cup (IF z.obs = None THEN {} ELSE {z.obs})
    BY <1>5, <2>1, <2>4
  <2> QED
    BY <2>3, <2>5 DEF Debts
<1> HIDE DEF z, s
<1>7. Told(ag, f, t) \in AllSessions /\ \A y \in Agents : Told(ag, f, t)[y] = IF y = f THEN z ELSE ag[y]
  BY <1>3, <1>5 DEF AllSessions
<1>8. \A y \in Agents : Besides(ag[y], Told(ag, f, t)[y])
  BY <1>5, <1>7 DEF Besides, s
<1> QED
  BY <1>6, <1>7, <1>8 DEF s

\* What the end of a turn or of a hold finds queued wakes its agent; waits and debts stay.
LEMMA ResumedSteps ==
  ASSUME ReplyAssumption, NEW ag \in AllSessions, NEW x \in Agents
  PROVE  /\ Resumed(ag, x) \in AllSessions
         /\ \A y \in Agents : y # x => Resumed(ag, x)[y] = ag[y]
         /\ \A y \in Agents : Waits(ag[y], Resumed(ag, x)[y]) /\ Owes(ag[y], Resumed(ag, x)[y])
         /\ ag[x].turn # "idle" => Resumed(ag, x)[x].turn # "idle"
<1> DEFINE s    == ag[x]
           all  == ag[x].box \cup ag[x].parked
           keep == {m \in all : ag[x].held # "no" /\ Peer(x, m.from)}
           n    == [ag EXCEPT ![x].box = {}, ![x].parked = keep]
           z1   == [s EXCEPT !.box = {}]
           z    == [z1 EXCEPT !.parked = keep]
<1>1. Resumed(ag, x) = IF all = keep THEN n ELSE Woken(n, x, all \ keep)
  BY DEF Resumed
<1>2. s \in Sessions
  BY DEF AllSessions
<1>3. all \subseteq Messages /\ keep \in SUBSET Messages
  BY <1>2, SessionFields
<1>4. n = [ag EXCEPT ![x] = z]
  BY DEF AllSessions
<1>5. /\ z \in Sessions /\ z.tool = s.tool /\ z.on = s.on /\ z.due = s.due /\ z.turn = s.turn
      /\ z.obs = s.obs /\ z.closing = s.closing
  <2> HIDE DEF s, keep
  <2>1. {} \in SUBSET Messages
    OBVIOUS
  <2>2. z1 \in Sessions /\ z \in Sessions
    BY <1>2, <1>3, <2>1, FieldOfSession
  <2> QED
    BY <1>2, <2>2 DEF Sessions
<1> HIDE DEF z, keep, all
<1>6. n \in AllSessions /\ \A y \in Agents : n[y] = IF y = x THEN z ELSE ag[y]
  BY <1>4, <1>5 DEF AllSessions
<1> HIDE DEF n, s
<1>7. CASE all = keep
  BY <1>1, <1>5, <1>6, <1>7 DEF s, Waits, Owes, Debts
<1>8. CASE all # keep
  <2>1. all \ keep \in SUBSET Messages
    BY <1>3
  <2>2. /\ Woken(n, x, all \ keep) \in AllSessions
        /\ \A y \in Agents : y # x => Woken(n, x, all \ keep)[y] = n[y]
        /\ Woken(n, x, all \ keep)[x].turn = "run"
        /\ Besides([n[x] EXCEPT !.turn = "run"], Woken(n, x, all \ keep)[x])
        /\ Owes(n[x], Woken(n, x, all \ keep)[x])
    BY <1>6, <2>1, WokenSteps
  <2> DEFINE w == Woken(n, x, all \ keep)[x]
  <2>3. w.tool = s.tool /\ w.on = s.on /\ w.due = s.due
    <3>1. /\ [n[x] EXCEPT !.turn = "run"].tool = z.tool
          /\ [n[x] EXCEPT !.turn = "run"].on = z.on
          /\ [n[x] EXCEPT !.turn = "run"].due = z.due
      BY <1>5, <1>6 DEF Sessions
    <3> QED
      BY <1>5, <2>2, <3>1 DEF Besides
  <2>4. Owes(s, w)
    <3>1. \A a \in Agents : Debts(n[x], a) = Debts(s, a)
      BY <1>5, <1>6 DEF Debts
    <3> QED
      BY <2>2, <3>1 DEF Owes
  <2>5. /\ Resumed(ag, x) \in AllSessions
        /\ \A y \in Agents : Resumed(ag, x)[y] = IF y = x THEN w ELSE ag[y]
        /\ w.turn = "run"
    BY <1>1, <1>6, <1>8, <2>2
  <2> HIDE DEF w
  <2> QED
    BY <2>3, <2>4, <2>5 DEF s, Waits, Owes
<1> QED
  BY <1>7, <1>8

\* A settled job ends its owner's reply wait or wakes the owner, and observes nothing.
LEMMA JobSettledSteps ==
  ASSUME NEW ag \in AllSessions, NEW c \in Agents
  PROVE  /\ JobSettled(ag, c) \in AllSessions
         /\ Onward(ag, JobSettled(ag, c))
         /\ Parent[c] \in Agents => JobSettled(ag, c)[Parent[c]].tool # "reply"
         /\ \A y \in Agents : /\ JobSettled(ag, c)[y].obs = ag[y].obs
                              /\ JobSettled(ag, c)[y].closing = ag[y].closing
<1> DEFINE p == Parent[c]
           j == JobSettled(ag, c)
<1>1. CASE ag[p].tool \in {"reply", "jobs"}
  <2>1. j = EndWait(ag, p)
    BY <1>1 DEF JobSettled
  <2> HIDE DEF p
  <2>2. p \in Agents => EndWait(ag, p)[p].tool # "reply"
    BY EndWaitSteps
  <2> QED
    BY <2>1, <2>2, EndWaitSteps DEF p
<1>2. CASE ag[p].tool \notin {"reply", "jobs"} /\ ag[p].turn = "idle" /\ p \in Agents
  <2> DEFINE z == [ag[p] EXCEPT !.turn = "run"]
  <2>1. j = [ag EXCEPT ![p] = z]
    BY <1>2 DEF JobSettled, AllSessions
  <2>2. ag[p] \in Sessions
    BY <1>2 DEF AllSessions
  <2>3. /\ z \in Sessions
        /\ z.tool = ag[p].tool /\ z.on = ag[p].on /\ z.due = ag[p].due /\ z.turn = "run"
        /\ z.obs = ag[p].obs /\ z.closing = ag[p].closing
    <3>1. z \in Sessions
      BY <2>2, FieldOfSession
    <3> QED
      BY <2>2, <3>1 DEF Sessions
  <2> HIDE DEF z
  <2>4. j \in AllSessions /\ \A y \in Agents : j[y] = IF y = p THEN z ELSE ag[y]
    BY <1>2, <2>1, <2>3 DEF AllSessions
  <2> QED
    BY <1>2, <2>3, <2>4 DEF Onward, Waits, Works
<1>3. CASE ag[p].tool \notin {"reply", "jobs"} /\ (ag[p].turn # "idle" \/ p \notin Agents)
  <2>1. j = ag
    <3>1. CASE ag[p].turn # "idle"
      BY <1>3, <3>1 DEF JobSettled
    <3>2. CASE ag[p].turn = "idle" /\ p \notin Agents
      <4>1. [ag EXCEPT ![p].turn = "run"] = ag
        BY <3>2 DEF AllSessions
      <4> QED
        BY <1>3, <3>2, <4>1 DEF JobSettled
    <3> QED
      BY <1>3, <3>1, <3>2
  <2> QED
    BY <1>3, <2>1 DEF Onward, Waits, Works
<1> QED
  BY <1>1, <1>2, <1>3

\* Replaced changes only what is on its way.
LEMMA ReplacedSteps ==
  ASSUME NEW ag \in AllSessions, NEW x \in Agents, NEW o, NEW S \in SUBSET Turns
  PROVE  /\ Replaced(ag, x, o, S) \in AllSessions
         /\ \A y \in Agents : /\ Besides(ag[y], Replaced(ag, x, o, S)[y])
                              /\ y # x => Replaced(ag, x, o, S)[y] = ag[y]
         /\ Replaced(ag, x, o, S)[x].obs = ag[x].obs
         /\ Replaced(ag, x, o, S)[x].closing = (ag[x].closing \ {o}) \cup S
<1> DEFINE cl == (ag[x].closing \ {o}) \cup S
           z  == [ag[x] EXCEPT !.closing = cl]
<1>1. ag[x] \in Sessions
  BY DEF AllSessions
<1>2. Replaced(ag, x, o, S) = [ag EXCEPT ![x] = z]
  BY DEF Replaced, AllSessions
<1>3. z \in Sessions
  <2>1. cl \in SUBSET Turns
    BY <1>1, SessionFields
  <2> HIDE DEF cl
  <2> QED
    BY <1>1, <2>1, FieldOfSession
<1>4. Besides(ag[x], z) /\ z.obs = ag[x].obs /\ z.closing = cl
  BY <1>1 DEF Sessions, Besides
<1> HIDE DEF z
<1>5. /\ Replaced(ag, x, o, S) \in AllSessions
      /\ \A y \in Agents : Replaced(ag, x, o, S)[y] = IF y = x THEN z ELSE ag[y]
  BY <1>2, <1>3 DEF AllSessions
<1> QED
  BY <1>4, <1>5 DEF Besides

---------------------------------------------------------------------------
(* Waits.                                                                  *)

\* Listeners are called, or no block began or ended.
Announced ==
  \/ recheck' = {a \in Agents : agent'[a].tool = "reply"}
  \/ recheck' = {} /\ Holds' = Holds

\* After reads only the blocks, so it changes with them only.
LEMMA BlocksStay ==
  ASSUME Holds' = Holds, NEW b \in Agents, NEW t \in Agents
  PROVE  BlocksOn(b, t)' <=> BlocksOn(b, t)
<1>1. Hold(b)' = Hold(b)
  <2>1. Holds[b]' = Holds[b]
    OBVIOUS
  <2> QED
    BY <2>1 DEF Holds
<1>2. After(Holds, t)' = After(Holds, t)
  OBVIOUS
<1> QED
  BY <1>1, <1>2 DEF BlocksOn

\* Who can answer still can while no block changes and its turn or its queue stays.
LEMMA AnswerStays ==
  ASSUME NEW a \in Agents, NEW b \in CanAnswer(a), Holds' = Holds, owed'[a] = owed[a],
         Works(agent[b], agent'[b])
  PROVE  b \in CanAnswer(a)'
<1>1. b \in Agents
  BY DEF CanAnswer, Unanswered
<1>2. BlocksOn(b, a)' <=> BlocksOn(b, a)
  BY <1>1, BlocksStay
<1>3. b \in Unanswered(a)'
  BY DEF CanAnswer, Unanswered
<1>4. \/ owed[a][b] = "promised"
      \/ agent[b].turn # "idle" \/ \E m \in agent[b].box \cup agent[b].parked : m.from = a
  BY DEF CanAnswer, Streaming, HasQueuedFrom
<1>5. owed'[a][b] = "promised" \/ Streaming(b)' \/ HasQueuedFrom(b, a)'
  BY <1>4 DEF Works, Streaming, HasQueuedFrom
<1> QED
  BY <1>2, <1>3, <1>5 DEF CanAnswer

\* A step that ends waits only, loses no turn or message and leaves alone what a waiting
\* agent has asked.
Kept ==
  /\ Announced /\ Onward(agent, agent')
  /\ \A a \in Agents : agent'[a].tool = "reply" => owed'[a] = owed[a]

\* Such a step leaves every reply wait something to end it.
LEMMA LiveAfter ==
  ASSUME Calm, WaitIsLive, Kept
  PROVE  WaitIsLive'
<1> SUFFICES ASSUME NEW a \in Agents, agent'[a].tool = "reply", Unanswered(a)' \subseteq agent'[a].on
             PROVE  CanAnswer(a)' # {} \/ a \in recheck' \/ agent'[a].due # {}
  BY DEF WaitIsLive
<1>1. CASE recheck' = {y \in Agents : agent'[y].tool = "reply"}
  BY <1>1
<1>2. CASE Holds' = Holds
  <2>1. /\ agent[a].tool = "reply" /\ agent'[a].on = agent[a].on
        /\ agent[a].due \subseteq agent'[a].due /\ owed'[a] = owed[a]
    BY DEF Kept, Onward, Waits
  <2>2. Unanswered(a)' = Unanswered(a)
    BY <2>1 DEF Unanswered
  <2>3. CanAnswer(a) # {} \/ agent[a].due # {}
    BY <2>1, <2>2 DEF WaitIsLive, Calm
  <2>4. ASSUME NEW b \in CanAnswer(a) PROVE CanAnswer(a)' # {}
    <3>1. Works(agent[b], agent'[b])
      BY <2>4 DEF Kept, Onward, CanAnswer, Unanswered
    <3> QED
      BY <1>2, <2>1, <3>1, AnswerStays
  <2> QED
    BY <2>1, <2>3, <2>4
<1> QED
  BY <1>1, <1>2 DEF Kept, Announced

---------------------------------------------------------------------------
(* Debts.                                                                  *)

LEMMA OwingIsDebts ==
  \A a, b \in Agents : Owing(b, a) = Debts(agent[b], a)
BY DEF Owing, Debts

\* What RelayStands says of a step.
Stands ==
  \A a, b \in Agents :
    Owing(b, a) # {} /\ owed[a][b] = "asked" =>
      \/ Owing(b, a)' # {} \/ owed'[a][b] # "asked"
      \/ \E o \in Owing(b, a) : o.outcome = "nothing" \/ (a \in o.told /\ Settles(b))

\* It suffices that each session's debts stay, or what is asked of it does not.
LEMMA StandsIf ==
  ASSUME \A a, b \in Agents :
           Debts(agent[b], a) # {} => \/ Debts(agent'[b], a) # {}
                                      \/ owed[a][b] = "asked" => owed'[a][b] # "asked"
  PROVE  Stands
<1>1. \A a, b \in Agents : Owing(b, a)' = Debts(agent'[b], a)
  BY DEF Owing, Debts
<1> QED
  BY <1>1, OwingIsDebts DEF Stands

---------------------------------------------------------------------------
(* The actions.                                                            *)

Answers == {"none", "asked", "promised"}

LEMMA BesidesIsOnward ==
  ASSUME NEW ag, NEW bg, \A y \in Agents : Besides(ag[y], bg[y])
  PROVE  Onward(ag, bg)
BY DEF Onward, Besides, Waits, Works

\* What an announcement does, whatever else changes.
LEMMA AnnounceIs ==
  ASSUME NEW STATE more, Announce(more)
  PROVE  Announced /\ recheck' \subseteq Agents
BY DEF Announce, Announced

\* A message is sent.
LEMMA SendStep ==
  ASSUME ReplyAssumption, TypeOK, NEW f \in Agents, NEW t \in Agents, NEW asks \in BOOLEAN,
         Send(f, t, asks)
  PROVE  TypeOK' /\ Kept /\ Stands
<1> DEFINE m  == [from |-> f, asks |-> asks]
           ag == Delivered(agent, t, m)
<1>1. /\ agent \in AllSessions /\ m \in Messages /\ f # t
      /\ agent' = Told(ag, f, t) /\ agent[f].tool = "none"
  BY DEF TypeOK, AllSessions, Messages, Send, Acting
<1>2. Announced /\ recheck' \subseteq Agents
  BY DEF Send, Announce, Announced
<1> HIDE DEF m
<1>3. /\ ag \in AllSessions /\ Onward(agent, ag)
      /\ \A y \in Agents : y # t => ag[y] = agent[y]
      /\ ag[t].tool # "reply" /\ Owes(agent[t], ag[t])
  BY <1>1, DeliveredSteps
<1> HIDE DEF ag
<1>4. /\ agent' \in AllSessions
      /\ \A y \in Agents : Besides(ag[y], agent'[y])
      /\ \A y \in Agents : y # f => agent'[y] = ag[y]
      /\ \A a \in Agents : a # t /\ Debts(ag[f], a) # {} => Debts(agent'[f], a) # {}
  <2> DEFINE bg == Told(ag, f, t)
  <2>1. /\ bg \in AllSessions
        /\ \A y \in Agents : Besides(ag[y], bg[y])
        /\ \A y \in Agents : y # f => bg[y] = ag[y]
        /\ \A a \in Agents : a # t /\ Debts(ag[f], a) # {} => Debts(bg[f], a) # {}
    BY <1>3, ToldSteps
  <2> QED
    BY <1>1, <2>1
<1>5. Onward(agent, agent')
  <2>1. Onward(ag, agent')
    BY <1>4, BesidesIsOnward
  <2> QED
    BY <1>3, <2>1, OnwardTwice
<1>6. /\ owed' \in [Agents -> [Agents -> Answers]]
      /\ \A a \in Agents \ {f, t} : owed'[a] = owed[a]
      /\ owed[t][f] = "asked" => owed'[t][f] # "asked"
  <2>1. owed \in [Agents -> [Agents -> Answers]]
    BY DEF TypeOK, Answers
  <2>2. CASE asks
    <3>1. owed' = [owed EXCEPT ![t][f] = "none", ![f][t] = "asked"]
      BY <2>2 DEF Send
    <3> QED
      BY <1>1, <2>1, <3>1 DEF Answers
  <2>3. CASE ~asks
    <3>1. owed' = [owed EXCEPT ![t][f] = IF @ = "asked" THEN "promised" ELSE @]
      BY <2>3 DEF Send
    <3> QED
      BY <1>1, <2>1, <3>1 DEF Answers
  <2> QED
    BY <2>2, <2>3
<1>7. TypeOK'
  <2>1. used' \in [send : 0 .. MaxSend, start : 0 .. MaxStart]
    BY DEF Send, TypeOK, ReplyAssumption
  <2> QED
    BY <1>2, <1>4, <1>6, <2>1 DEF TypeOK, AllSessions, Answers
<1>8. Kept
  <2>1. ASSUME NEW a \in Agents, agent'[a].tool = "reply" PROVE owed'[a] = owed[a]
    <3>1. a # t
      BY <1>3, <1>4, <2>1 DEF Besides
    <3>2. a # f
      BY <1>1, <1>5, <2>1 DEF Onward, Waits
    <3> QED
      BY <1>6, <3>1, <3>2
  <2> QED
    BY <1>2, <1>5, <2>1 DEF Kept
<1>9. Stands
  <2>1. ASSUME NEW a \in Agents, NEW b \in Agents, Debts(agent[b], a) # {}
        PROVE  Debts(agent'[b], a) # {} \/ (owed[a][b] = "asked" => owed'[a][b] # "asked")
    <3>1. CASE b = f /\ a = t
      BY <1>6, <3>1
    <3>2. CASE b = f /\ a # t
      BY <1>1, <1>3, <1>4, <2>1, <3>2
    <3>3. CASE b = t
      BY <1>1, <1>3, <1>4, <2>1, <3>3 DEF Owes
    <3>4. CASE b \notin {f, t}
      BY <1>3, <1>4, <2>1, <3>4
    <3> QED
      BY <3>1, <3>2, <3>3, <3>4
  <2> QED
    BY <2>1, StandsIf
<1> QED
  BY <1>7, <1>8, <1>9

\* One session changes.
LEMMA OneChanges ==
  ASSUME NEW ag \in AllSessions, NEW x \in Agents, NEW z \in Sessions
  PROVE  /\ [ag EXCEPT ![x] = z] \in AllSessions
         /\ \A y \in Agents : [ag EXCEPT ![x] = z][y] = IF y = x THEN z ELSE ag[y]
BY DEF AllSessions

\* Steps that change no debt and nothing asked.
LEMMA StepOnward ==
  ASSUME TypeOK, agent' \in AllSessions, owed' = owed, Announced, recheck' \subseteq Agents,
         used' \in [send : 0 .. MaxSend, start : 0 .. MaxStart],
         \A y \in Agents : Waits(agent[y], agent'[y]) /\ Works(agent[y], agent'[y])
  PROVE  TypeOK' /\ Kept
BY DEF TypeOK, AllSessions, Kept, Onward

\* Steps that leave every session's debts.
LEMMA StandsIfOwes ==
  ASSUME \A b \in Agents : Owes(agent[b], agent'[b])
  PROVE  Stands
BY StandsIf DEF Owes

\* A turn that becomes a job is as before otherwise.
LEMMA AsJobIs ==
  ASSUME NEW o \in Turns, NEW now \in BOOLEAN
  PROVE  /\ AsJob(o, now) \in Turns /\ AsJob(o, now).from = o.from
         /\ AsJob(o, now).told = o.told /\ AsJob(o, now).outcome = o.outcome
BY DEF AsJob, Turns

\* A step boundary takes in what is queued.
LEMMA TakesInStep ==
  ASSUME TypeOK, NEW x \in Agents, TakesIn(x)
  PROVE  TypeOK' /\ Kept /\ Stands
<1> DEFINE s  == agent[x]
           st == \E m \in agent[x].box : m.from = Parent[x]
           v  == IF s.obs = None THEN None ELSE AsJob(s.obs, st)
           z1 == [s EXCEPT !.box = {}]
           z  == [z1 EXCEPT !.obs = v]
<1>1. s \in Sessions /\ s.obs \in Turns \cup {None} /\ agent \in AllSessions
  <2>1. s \in Sessions /\ agent \in AllSessions
    BY DEF TypeOK, AllSessions
  <2> QED
    BY <2>1, SessionFields
<1>2. /\ v \in Turns \cup {None}
      /\ s.obs # None => /\ v # None /\ v.from = s.obs.from /\ v.told = s.obs.told
                         /\ v.outcome = s.obs.outcome
  <2>1. CASE s.obs = None
    BY <2>1
  <2>2. CASE s.obs # None
    <3>1. s.obs \in Turns /\ v = AsJob(s.obs, st)
      BY <1>1, <2>2
    <3> QED
      BY <3>1, AsJobIs, NoneIsNoTurn
  <2> QED
    BY <2>1, <2>2
<1>3. agent' = [agent EXCEPT ![x] = z]
  <2>1. agent' = [agent EXCEPT ![x].box = {}, ![x].obs = v]
    BY DEF TakesIn
  <2> HIDE DEF v
  <2> QED
    BY <1>1, <2>1 DEF AllSessions
<1>4. s.turn = "run"
  BY DEF TakesIn, Acting
<1>5. /\ z \in Sessions
      /\ z.tool = s.tool /\ z.on = s.on /\ z.due = s.due /\ z.turn = s.turn
      /\ z.obs = v /\ z.closing = s.closing
  <2> HIDE DEF s, v
  <2>1. {} \in SUBSET Messages
    OBVIOUS
  <2>2. z1 \in Sessions /\ z \in Sessions
    BY <1>1, <1>2, <2>1, FieldOfSession
  <2> QED
    BY <1>1, <2>2 DEF Sessions
<1> HIDE DEF z
<1>6. agent' \in AllSessions /\ \A y \in Agents : agent'[y] = IF y = x THEN z ELSE agent[y]
  <2> DEFINE bg == [agent EXCEPT ![x] = z]
  <2>1. bg \in AllSessions /\ \A y \in Agents : bg[y] = IF y = x THEN z ELSE agent[y]
    BY <1>1, <1>5, OneChanges
  <2> QED
    BY <1>3, <2>1
<1>7. TypeOK' /\ Kept
  <2>1. Announced /\ recheck' \subseteq Agents
    BY DEF TakesIn, Announce, Announced
  <2>2. owed' = owed /\ used' \in [send : 0 .. MaxSend, start : 0 .. MaxStart]
    BY DEF TakesIn, TypeOK
  <2>3. \A y \in Agents : Waits(agent[y], agent'[y]) /\ Works(agent[y], agent'[y])
    BY <1>4, <1>5, <1>6 DEF Waits, Works
  <2> QED
    BY <1>6, <2>1, <2>2, <2>3, StepOnward
<1>8. Stands
  <2>1. Owes(s, z)
    <3> HIDE DEF s, v
    <3>1. ASSUME NEW a \in Agents, Debts(s, a) # {} PROVE Debts(z, a) # {}
      <4>1. CASE s.obs = None
        BY <1>5, <3>1, <4>1 DEF Debts
      <4>2. CASE s.obs # None
        <5>1. PICK o \in s.closing \cup {s.obs} :
                a \in o.from /\ (o.outcome = "failed" \/ a \notin o.told)
          BY <3>1, <4>2 DEF Debts
        <5>2. CASE o \in s.closing
          BY <1>5, <5>1, <5>2 DEF Debts
        <5>3. CASE o = s.obs
          BY <1>2, <1>5, <4>2, <5>1, <5>3 DEF Debts
        <5> QED
          BY <5>1, <5>2, <5>3
      <4> QED
        BY <4>1, <4>2
    <3> QED
      BY <3>1 DEF Owes
  <2> QED
    BY <1>6, <2>1, StandsIfOwes DEF Owes
<1> QED
  BY <1>7, <1>8

\* Steps that observe nothing.
LEMMA StandsIfObserved ==
  ASSUME \A y \in Agents : agent'[y].obs = agent[y].obs /\ agent'[y].closing = agent[y].closing
  PROVE  Stands
<1>1. \A b, a \in Agents : Debts(agent'[b], a) = Debts(agent[b], a)
  BY DEF Debts
<1> QED
  BY <1>1, StandsIf

\* The wait tool returns a queued message.
LEMMA WaitTakesMessageStep ==
  ASSUME TypeOK, NEW x \in Agents, WaitTakesMessage(x)
  PROVE  TypeOK' /\ Kept /\ Stands
<1> DEFINE s == agent[x]
<1>1. s \in Sessions /\ agent \in AllSessions /\ s.box \subseteq Messages /\ s.turn = "run"
  <2>1. s \in Sessions /\ agent \in AllSessions
    BY DEF TypeOK, AllSessions
  <2> QED
    BY <2>1, SessionFields DEF WaitTakesMessage, MayWait, Acting
<1>2. PICK m \in s.box : agent' = [agent EXCEPT ![x].box = @ \ {m}]
  BY DEF WaitTakesMessage
<1> DEFINE z == [s EXCEPT !.box = @ \ {m}]
<1>3. agent' = [agent EXCEPT ![x] = z]
  BY <1>1, <1>2 DEF AllSessions
<1>4. /\ z \in Sessions
      /\ z.tool = s.tool /\ z.on = s.on /\ z.due = s.due /\ z.turn = s.turn
      /\ z.obs = s.obs /\ z.closing = s.closing
  <2>1. s.box \ {m} \in SUBSET Messages
    BY <1>1
  <2> HIDE DEF s
  <2>2. z \in Sessions
    BY <1>1, <2>1, FieldOfSession
  <2> QED
    BY <1>1, <2>2 DEF Sessions
<1> HIDE DEF z
<1>5. agent' \in AllSessions /\ \A y \in Agents : agent'[y] = IF y = x THEN z ELSE agent[y]
  <2> DEFINE bg == [agent EXCEPT ![x] = z]
  <2>1. bg \in AllSessions /\ \A y \in Agents : bg[y] = IF y = x THEN z ELSE agent[y]
    BY <1>1, <1>4, OneChanges
  <2> QED
    BY <1>3, <2>1
<1>6. TypeOK' /\ Kept
  <2>1. Announced /\ recheck' \subseteq Agents
    BY DEF WaitTakesMessage, Announce, Announced
  <2>2. owed' = owed /\ used' \in [send : 0 .. MaxSend, start : 0 .. MaxStart]
    BY DEF WaitTakesMessage, TypeOK
  <2>3. \A y \in Agents : Waits(agent[y], agent'[y]) /\ Works(agent[y], agent'[y])
    BY <1>1, <1>4, <1>5 DEF Waits, Works
  <2> QED
    BY <1>5, <2>1, <2>2, <2>3, StepOnward
<1>7. Stands
  BY <1>4, <1>5, StandsIfObserved
<1> QED
  BY <1>6, <1>7

\* A wait of an agent's own is a session's tool call.
LEMMA WaitIsSession ==
  ASSUME NEW s \in Sessions, NEW k \in {"reply", "jobs", "inline"}, NEW T \in SUBSET Agents
  PROVE  LET z == [s EXCEPT !.tool = k, !.on = T]
         IN /\ z \in Sessions /\ z.tool = k /\ z.on = T /\ z.due = s.due /\ z.turn = s.turn
            /\ z.box = s.box /\ z.parked = s.parked
            /\ z.obs = s.obs /\ z.closing = s.closing
BY DEF Sessions

LEMMA ReplyWaitIsSession ==
  ASSUME NEW s \in Sessions, NEW T \in SUBSET Agents
  PROVE  LET z == [s EXCEPT !.tool = "reply", !.on = T]
         IN /\ z \in Sessions /\ z.tool = "reply" /\ z.on = T /\ z.due = s.due /\ z.turn = s.turn
            /\ z.box = s.box /\ z.parked = s.parked
            /\ z.obs = s.obs /\ z.closing = s.closing
BY WaitIsSession

\* A wait for jobs begins.
LEMMA WaitForJobsStep ==
  ASSUME TypeOK, NEW x \in Agents, WaitForJobs(x)
  PROVE  TypeOK' /\ Kept /\ Stands
<1> DEFINE s == agent[x]
           J == JobsOf(x)
           z == [s EXCEPT !.tool = "jobs", !.on = J]
<1>1. s \in Sessions /\ agent \in AllSessions /\ J \in SUBSET Agents
  BY DEF TypeOK, AllSessions, JobsOf
<1> HIDE DEF J
<1>2. agent' = [agent EXCEPT ![x] = z]
  BY <1>1 DEF WaitForJobs, AllSessions, J
<1>3. /\ z \in Sessions
      /\ z.tool = "jobs" /\ z.turn = s.turn /\ z.box = s.box /\ z.parked = s.parked
      /\ z.obs = s.obs /\ z.closing = s.closing
  <2> HIDE DEF s
  <2>1. LET y == [s EXCEPT !.tool = "jobs", !.on = J]
        IN /\ y \in Sessions /\ y.tool = "jobs" /\ y.on = J /\ y.due = s.due /\ y.turn = s.turn
           /\ y.box = s.box /\ y.parked = s.parked
           /\ y.obs = s.obs /\ y.closing = s.closing
    BY <1>1, WaitIsSession
  <2> QED
    BY <2>1
<1> HIDE DEF z
<1>4. agent' \in AllSessions /\ \A y \in Agents : agent'[y] = IF y = x THEN z ELSE agent[y]
  <2> DEFINE bg == [agent EXCEPT ![x] = z]
  <2>1. bg \in AllSessions /\ \A y \in Agents : bg[y] = IF y = x THEN z ELSE agent[y]
    BY <1>1, <1>3, OneChanges
  <2> QED
    BY <1>2, <2>1
<1>5. TypeOK' /\ Kept
  <2>1. Announced /\ recheck' \subseteq Agents
    BY DEF WaitForJobs, Announce, Announced
  <2>2. owed' = owed /\ used' \in [send : 0 .. MaxSend, start : 0 .. MaxStart]
    BY DEF WaitForJobs, TypeOK
  <2>3. \A y \in Agents : Waits(agent[y], agent'[y]) /\ Works(agent[y], agent'[y])
    BY <1>3, <1>4 DEF Waits, Works
  <2> QED
    BY <1>4, <2>1, <2>2, <2>3, StepOnward
<1>6. Stands
  BY <1>3, <1>4, StandsIfObserved
<1> QED
  BY <1>5, <1>6

\* A wait for replies begins, with somebody who can answer.
LEMMA WaitForReplyStep ==
  ASSUME TypeOK, NEW x \in Agents, WaitForReply(x)
  PROVE  TypeOK' /\ Stands /\ (WaitIsLive => WaitIsLive')
<1> DEFINE s == agent[x]
           C == CanAnswer(x)
           z == [s EXCEPT !.tool = "reply", !.on = C]
<1>1. /\ s \in Sessions /\ agent \in AllSessions /\ C \in SUBSET Agents /\ C # {}
      /\ Calm /\ owed' = owed
  BY DEF TypeOK, AllSessions, CanAnswer, Unanswered, WaitForReply, MayWait, Acting
<1> HIDE DEF C
<1>2. agent' = [agent EXCEPT ![x] = z]
  BY <1>1 DEF WaitForReply, AllSessions, C
<1>3. /\ z \in Sessions
      /\ z.turn = s.turn /\ z.box = s.box /\ z.parked = s.parked
      /\ z.obs = s.obs /\ z.closing = s.closing
  <2> HIDE DEF s
  <2>0. s \in Sessions /\ C \in SUBSET Agents
    BY <1>1
  <2>1. LET y == [s EXCEPT !.tool = "reply", !.on = C]
        IN /\ y \in Sessions /\ y.tool = "reply" /\ y.on = C /\ y.due = s.due /\ y.turn = s.turn
           /\ y.box = s.box /\ y.parked = s.parked
           /\ y.obs = s.obs /\ y.closing = s.closing
    BY <2>0, ReplyWaitIsSession
  <2> QED
    BY <2>1
<1> HIDE DEF z
<1>4. agent' \in AllSessions /\ \A y \in Agents : agent'[y] = IF y = x THEN z ELSE agent[y]
  <2> DEFINE bg == [agent EXCEPT ![x] = z]
  <2>1. bg \in AllSessions /\ \A y \in Agents : bg[y] = IF y = x THEN z ELSE agent[y]
    BY <1>1, <1>3, OneChanges
  <2> QED
    BY <1>2, <2>1
<1>5. Announced /\ recheck' \subseteq Agents
  BY DEF WaitForReply, Announce, Announced
<1>6. TypeOK'
  BY <1>4, <1>5 DEF WaitForReply, TypeOK, AllSessions
<1>7. Stands
  BY <1>3, <1>4, StandsIfObserved
<1>8. ASSUME WaitIsLive, NEW a \in Agents, agent'[a].tool = "reply",
             Unanswered(a)' \subseteq agent'[a].on
      PROVE  CanAnswer(a)' # {} \/ a \in recheck' \/ agent'[a].due # {}
  <2>1. CASE recheck' = {y \in Agents : agent'[y].tool = "reply"}
    BY <1>8, <2>1
  <2>2. CASE Holds' = Holds
    <3>1. \A y \in Agents : Works(agent[y], agent'[y])
      BY <1>3, <1>4 DEF Works
    <3>2. CanAnswer(a) # {} => CanAnswer(a)' # {}
      <4>1. ASSUME NEW b \in CanAnswer(a) PROVE b \in CanAnswer(a)'
        <5>1. b \in Agents
          BY DEF CanAnswer, Unanswered
        <5> QED
          BY <1>1, <2>2, <3>1, <5>1, AnswerStays
      <4> QED
        BY <4>1
    <3>3. CASE a = x
      BY <1>1, <3>2, <3>3 DEF C
    <3>4. CASE a # x
      <4>1. agent'[a] = agent[a] /\ Unanswered(a)' = Unanswered(a)
        BY <1>1, <1>4, <3>4 DEF Unanswered
      <4> QED
        BY <1>1, <1>8, <3>2, <4>1 DEF WaitIsLive, Calm
    <3> QED
      BY <3>3, <3>4
  <2> QED
    BY <1>5, <2>1, <2>2 DEF Announced
<1> QED
  BY <1>6, <1>7, <1>8 DEF WaitIsLive

\* The user steers a waiting agent, or its wait's limit runs out.
LEMMA CutShortStep ==
  ASSUME TypeOK, NEW x \in Agents, CutShort(x)
  PROVE  TypeOK' /\ Kept /\ Stands
<1>1. agent' = EndWait(agent, x) /\ agent \in AllSessions
  BY DEF CutShort, TypeOK, AllSessions
<1> DEFINE bg == EndWait(agent, x)
<1>2. /\ bg \in AllSessions /\ Onward(agent, bg)
      /\ \A y \in Agents : bg[y].obs = agent[y].obs /\ bg[y].closing = agent[y].closing
  BY <1>1, EndWaitSteps
<1> HIDE DEF bg
<1>3. agent' = bg
  BY <1>1 DEF bg
<1>4. Announced /\ recheck' \subseteq Agents
  BY DEF CutShort, Announce, Announced
<1>5. TypeOK' /\ Kept
  BY <1>2, <1>3, <1>4 DEF CutShort, TypeOK, Kept, AllSessions
<1>6. Stands
  BY <1>2, <1>3, StandsIfObserved
<1> QED
  BY <1>5, <1>6

LEMMA SomebodyStillCan ==
  ASSUME NEW a \in Agents, CanAnswer(a) # {}, Holds' = Holds, owed' = owed,
         \A y \in Agents : Works(agent[y], agent'[y])
  PROVE  CanAnswer(a)' # {}
<1>1. PICK b \in CanAnswer(a) : TRUE
  OBVIOUS
<1>2. b \in Agents
  BY DEF CanAnswer, Unanswered
<1> QED
  BY <1>1, <1>2, AnswerStays

\* A listener looks again: the wait it belongs to ends, or somebody can still answer.
LEMMA ListensStep ==
  ASSUME TypeOK, NEW x \in Agents, Listens(x)
  PROVE  TypeOK' /\ Stands /\ (WaitIsLive => WaitIsLive')
<1>1. agent \in AllSessions /\ owed' = owed /\ recheck' = recheck \ {x} /\ used' = used
  BY DEF TypeOK, AllSessions, Listens
<1>2. CASE agent[x].tool = "reply" /\ CanAnswer(x) = {}
  <2> DEFINE bg == EndWait(agent, x)
  <2>1. agent' = bg
    BY <1>2 DEF Listens, LooksAgain
  <2>2. /\ bg \in AllSessions /\ Onward(agent, bg)
        /\ \A y \in Agents : /\ y # x => bg[y] = agent[y]
                             /\ y = x => bg[y].tool = "none"
                             /\ bg[y].obs = agent[y].obs /\ bg[y].closing = agent[y].closing
    BY <1>1, EndWaitSteps
  <2> HIDE DEF bg
  <2>3. Holds' = Holds
    <3>1. \A y \in Agents : Hold(y)' = Hold(y)
      BY <1>2, <2>1, <2>2 DEF Hold
    <3> QED
      BY <3>1 DEF Holds
  <2>4. TypeOK' /\ Stands
    <3>1. TypeOK'
      BY <1>1, <2>1, <2>2 DEF TypeOK, AllSessions
    <3>2. \A y \in Agents : agent'[y].obs = agent[y].obs /\ agent'[y].closing = agent[y].closing
      BY <2>1, <2>2
    <3> QED
      BY <3>1, <3>2, StandsIfObserved
  <2>5. ASSUME WaitIsLive, NEW a \in Agents, agent'[a].tool = "reply",
               Unanswered(a)' \subseteq agent'[a].on
        PROVE  CanAnswer(a)' # {} \/ a \in recheck' \/ agent'[a].due # {}
    <3>1. a # x /\ agent'[a] = agent[a]
      BY <2>1, <2>2, <2>5
    <3>2. Unanswered(a)' = Unanswered(a)
      BY <1>1 DEF Unanswered
    <3>3. CanAnswer(a) # {} => CanAnswer(a)' # {}
      BY <1>1, <2>1, <2>2, <2>3, SomebodyStillCan DEF Onward
    <3> QED
      BY <1>1, <2>5, <3>1, <3>2, <3>3 DEF WaitIsLive
  <2> QED
    BY <2>4, <2>5 DEF WaitIsLive
<1>3. CASE ~(agent[x].tool = "reply" /\ CanAnswer(x) = {})
  <2>1. agent' = agent
    BY <1>3 DEF Listens, LooksAgain
  <2>2. Holds' = Holds /\ \A y \in Agents : Works(agent[y], agent'[y])
    BY <2>1 DEF Holds, Hold, Works
  <2>3. TypeOK' /\ Stands
    <3>1. TypeOK'
      BY <1>1, <2>1 DEF TypeOK
    <3> QED
      BY <2>1, <3>1, StandsIfObserved
  <2>4. ASSUME WaitIsLive, NEW a \in Agents, agent'[a].tool = "reply",
               Unanswered(a)' \subseteq agent'[a].on
        PROVE  CanAnswer(a)' # {} \/ a \in recheck' \/ agent'[a].due # {}
    <3>1. Unanswered(a)' = Unanswered(a)
      BY <1>1 DEF Unanswered
    <3>2. CanAnswer(a) # {} => CanAnswer(a)' # {}
      BY <1>1, <2>2, SomebodyStillCan
    <3> QED
      BY <1>1, <1>3, <2>1, <2>4, <3>1, <3>2 DEF WaitIsLive
  <2> QED
    BY <2>3, <2>4 DEF WaitIsLive
<1> QED
  BY <1>2, <1>3

\* A wait hears the end of a turn: it ends, or somebody can still answer.
LEMMA TurnHeardStep ==
  ASSUME TypeOK, NEW x \in Agents, NEW c \in Agents, TurnHeard(x, c)
  PROVE  TypeOK' /\ Stands /\ (WaitIsLive => WaitIsLive')
<1> DEFINE s == agent[x]
           z == [s EXCEPT !.due = @ \ {c}]
           ag == [agent EXCEPT ![x] = z]
<1>1. /\ agent \in AllSessions /\ owed' = owed /\ used' = used /\ Calm
      /\ s \in Sessions /\ s.due \subseteq Agents
  <2>1. s \in Sessions
    BY DEF TypeOK
  <2> QED
    BY <2>1, SessionFields DEF TypeOK, AllSessions, TurnHeard
<1>2. [agent EXCEPT ![x].due = @ \ {c}] = ag
  BY <1>1 DEF AllSessions
<1>3. /\ z \in Sessions /\ z.tool = s.tool /\ z.on = s.on
      /\ z.turn = s.turn /\ z.box = s.box /\ z.parked = s.parked
      /\ z.obs = s.obs /\ z.closing = s.closing
  <2>1. s.due \ {c} \in SUBSET Agents
    BY <1>1
  <2> HIDE DEF s
  <2>2. z \in Sessions
    BY <1>1, <2>1, FieldOfSession
  <2> QED
    BY <1>1, <2>2 DEF Sessions
<1> HIDE DEF z
<1>4. ag \in AllSessions /\ \A y \in Agents : ag[y] = IF y = x THEN z ELSE agent[y]
  BY <1>1, <1>3, OneChanges
<1>5. Announced /\ recheck' \subseteq Agents
  BY DEF TurnHeard, Announce, Announced
<1>6. /\ agent' \in AllSessions
      /\ \A y \in Agents : /\ agent'[y].tool = "reply" => agent[y].tool = "reply" /\ agent'[y].on = agent[y].on
                           /\ Works(agent[y], agent'[y])
                           /\ agent'[y].obs = agent[y].obs /\ agent'[y].closing = agent[y].closing
      /\ \A y \in Agents : y # x => agent'[y] = agent[y]
      /\ agent'[x].tool = "reply" => CanAnswer(x) # {}
  <2>1. LooksAgain(x, ag)
    BY <1>2 DEF TurnHeard
  <2> HIDE DEF ag
  <2>2. CASE s.tool = "reply" /\ CanAnswer(x) = {}
    <3> DEFINE bg == EndWait(ag, x)
    <3>1. agent' = bg
      BY <2>1, <2>2 DEF LooksAgain
    <3>2. /\ bg \in AllSessions /\ Onward(ag, bg)
          /\ \A y \in Agents : /\ y # x => bg[y] = ag[y]
                               /\ y = x => bg[y].tool = "none"
                               /\ bg[y].obs = ag[y].obs /\ bg[y].closing = ag[y].closing
      BY <1>4, EndWaitSteps
    <3> HIDE DEF bg
    <3> QED
      BY <1>3, <1>4, <3>1, <3>2 DEF Onward, Works
  <2>3. CASE ~(s.tool = "reply" /\ CanAnswer(x) = {})
    <3>1. agent' = ag
      BY <2>1, <2>3 DEF LooksAgain
    <3> QED
      BY <1>3, <1>4, <2>3, <3>1 DEF Works
  <2> QED
    BY <2>2, <2>3
<1>7. TypeOK'
  BY <1>1, <1>5, <1>6 DEF TypeOK, AllSessions
<1>8. Stands
  BY <1>6, StandsIfObserved
<1>9. ASSUME WaitIsLive, NEW a \in Agents, agent'[a].tool = "reply",
             Unanswered(a)' \subseteq agent'[a].on
      PROVE  CanAnswer(a)' # {} \/ a \in recheck' \/ agent'[a].due # {}
  <2>1. CASE recheck' = {y \in Agents : agent'[y].tool = "reply"}
    BY <1>9, <2>1
  <2>2. CASE Holds' = Holds
    <3>1. CanAnswer(a) # {} => CanAnswer(a)' # {}
      BY <1>1, <1>6, <2>2, SomebodyStillCan
    <3>2. Unanswered(a)' = Unanswered(a)
      BY <1>1 DEF Unanswered
    <3> QED
      BY <1>1, <1>6, <1>9, <3>1, <3>2 DEF WaitIsLive, Calm
  <2> QED
    BY <1>5, <2>1, <2>2 DEF Announced
<1> QED
  BY <1>7, <1>8, <1>9 DEF WaitIsLive

\* The user prompts an idle agent.
LEMMA UserPromptsStep ==
  ASSUME TypeOK, ReplyAssumption, NEW x \in Agents, UserPrompts(x)
  PROVE  TypeOK' /\ Kept /\ Stands
<1> DEFINE s == agent[x]
           z == [s EXCEPT !.turn = "run"]
<1>1. s \in Sessions /\ agent \in AllSessions
  BY DEF TypeOK, AllSessions
<1>2. agent' = [agent EXCEPT ![x] = z]
  BY <1>1 DEF UserPrompts, AllSessions
<1>3. /\ z \in Sessions
      /\ z.tool = s.tool /\ z.on = s.on /\ z.due = s.due /\ z.turn = "run"
      /\ z.obs = s.obs /\ z.closing = s.closing
  <2> HIDE DEF s
  <2>1. z \in Sessions
    BY <1>1, FieldOfSession
  <2> QED
    BY <1>1, <2>1 DEF Sessions
<1> HIDE DEF z
<1>4. agent' \in AllSessions /\ \A y \in Agents : agent'[y] = IF y = x THEN z ELSE agent[y]
  <2> DEFINE bg == [agent EXCEPT ![x] = z]
  <2>1. bg \in AllSessions /\ \A y \in Agents : bg[y] = IF y = x THEN z ELSE agent[y]
    BY <1>1, <1>3, OneChanges
  <2> QED
    BY <1>2, <2>1
<1>5. TypeOK' /\ Kept
  <2>1. Announced /\ recheck' \subseteq Agents
    BY DEF UserPrompts, Announce, Announced
  <2>2. owed' = owed /\ used' \in [send : 0 .. MaxSend, start : 0 .. MaxStart]
    BY DEF UserPrompts, Starts, TypeOK, ReplyAssumption
  <2>3. \A y \in Agents : Waits(agent[y], agent'[y]) /\ Works(agent[y], agent'[y])
    BY <1>3, <1>4 DEF Waits, Works
  <2> QED
    BY <1>4, <2>1, <2>2, <2>3, StepOnward
<1>6. Stands
  BY <1>3, <1>4, StandsIfObserved
<1> QED
  BY <1>5, <1>6

\* A session that a run drives.
LEMMA DrivenIsSession ==
  ASSUME NEW s \in Sessions, NEW how \in {"bg", "inline"}
  PROVE  LET z == [s EXCEPT !.turn = "run", !.held = "run", !.run = how]
         IN /\ z \in Sessions
            /\ z.tool = s.tool /\ z.on = s.on /\ z.due = s.due /\ z.turn = "run"
            /\ z.obs = s.obs /\ z.closing = s.closing
BY DEF Sessions

\* The executor drives a run of a subagent.
LEMMA DriveStep ==
  ASSUME TypeOK, ReplyAssumption, NEW p \in Agents, NEW c \in Agents, NEW how \in {"bg", "inline"},
         Drive(p, c, how)
  PROVE  TypeOK' /\ Kept /\ Stands
<1> DEFINE k  == IF how = "inline" THEN "inline" ELSE "none"
           T  == IF how = "inline" THEN {c} ELSE agent[p].on
           zc == [agent[c] EXCEPT !.turn = "run", !.held = "run", !.run = how]
           zp == [agent[p] EXCEPT !.tool = k, !.on = T]
           ag == [agent EXCEPT ![c] = zc]
<1>1. /\ agent \in AllSessions /\ agent[c] \in Sessions /\ agent[p] \in Sessions
      /\ agent[p].tool = "none" /\ agent[p].turn = "run" /\ agent[c].turn = "idle" /\ p # c
  BY DEF TypeOK, AllSessions, Drive, Acting
<1>2. agent' = [ag EXCEPT ![p] = zp]
  <2>1. agent' = [agent EXCEPT ![c].turn = "run", ![c].held = "run", ![c].run = how,
                               ![p].tool = k, ![p].on = T]
    <3>1. CASE how = "inline"
      BY <3>1 DEF Drive
    <3>2. CASE how = "bg"
      BY <1>1, <3>2 DEF Drive, AllSessions
    <3> QED
      BY <3>1, <3>2
  <2> HIDE DEF k, T
  <2> QED
    BY <1>1, <2>1 DEF AllSessions
<1>3. /\ zc \in Sessions
      /\ zc.tool = agent[c].tool /\ zc.on = agent[c].on /\ zc.due = agent[c].due /\ zc.turn = "run"
      /\ zc.obs = agent[c].obs /\ zc.closing = agent[c].closing
  BY <1>1, DrivenIsSession
<1>4. /\ zp \in Sessions /\ zp.tool # "reply" /\ zp.turn = agent[p].turn
      /\ zp.obs = agent[p].obs /\ zp.closing = agent[p].closing
  <2>1. k \in {"none", "inline"} /\ T \in SUBSET Agents
    BY <1>1 DEF Sessions
  <2>2. k # "reply"
    OBVIOUS
  <2> DEFINE s == agent[p]
  <2>3. s \in Sessions
    BY <1>1
  <2> HIDE DEF k, T, s
  <2>4. LET z == [s EXCEPT !.tool = k, !.on = T]
        IN /\ z \in Sessions /\ z.tool = k /\ z.turn = s.turn
           /\ z.obs = s.obs /\ z.closing = s.closing
    BY <2>1, <2>3 DEF Sessions
  <2> QED
    BY <2>2, <2>4 DEF s
<1> HIDE DEF zc, zp
<1>5. ag \in AllSessions /\ \A y \in Agents : ag[y] = IF y = c THEN zc ELSE agent[y]
  BY <1>1, <1>3, OneChanges
<1> HIDE DEF ag
<1>6. /\ agent' \in AllSessions
      /\ \A y \in Agents : agent'[y] = IF y = p THEN zp ELSE IF y = c THEN zc ELSE agent[y]
  <2> DEFINE bg == [ag EXCEPT ![p] = zp]
  <2>1. bg \in AllSessions /\ \A y \in Agents : bg[y] = IF y = p THEN zp ELSE ag[y]
    BY <1>4, <1>5, OneChanges
  <2> QED
    BY <1>2, <1>5, <2>1
<1>7. TypeOK' /\ Kept
  <2>1. Announced /\ recheck' \subseteq Agents
    BY DEF Drive, Announce, Announced
  <2>2. owed' = owed /\ used' \in [send : 0 .. MaxSend, start : 0 .. MaxStart]
    BY DEF Drive, Starts, TypeOK, ReplyAssumption
  <2>3. \A y \in Agents : Waits(agent[y], agent'[y]) /\ Works(agent[y], agent'[y])
    BY <1>1, <1>3, <1>4, <1>6 DEF Waits, Works
  <2> QED
    BY <1>6, <2>1, <2>2, <2>3, StepOnward
<1>8. Stands
  BY <1>3, <1>4, <1>6, StandsIfObserved
<1> QED
  BY <1>7, <1>8

\* A turn's loop has ended.
LEMMA SettlesStep ==
  ASSUME TypeOK, NEW x \in Agents, Settles(x)
  PROVE  TypeOK' /\ Kept /\ Stands
<1> DEFINE s == agent[x]
<1>1. /\ s \in Sessions /\ s.obs \in Turns \cup {None} /\ agent \in AllSessions
      /\ s.turn = "run" /\ s.tool = "none"
  <2>1. s \in Sessions /\ agent \in AllSessions
    BY DEF TypeOK, AllSessions
  <2> QED
    BY <2>1, SessionFields DEF Settles, Acting
<1>2. PICK out \in Outcomes \ {"open"} :
        agent' = [agent EXCEPT
          ![x].turn = "settled",
          ![x].obs = IF @ = None \/ agent[x].held = "run" THEN @
                     ELSE [AsJob(@, out = "yield") EXCEPT !.outcome = out]]
  BY DEF Settles
<1> DEFINE v  == IF s.obs = None \/ s.held = "run" THEN s.obs
                 ELSE [AsJob(s.obs, out = "yield") EXCEPT !.outcome = out]
           z1 == [s EXCEPT !.turn = "settled"]
           z  == [z1 EXCEPT !.obs = v]
<1>3. /\ v \in Turns \cup {None}
      /\ s.obs # None => v # None /\ v.from = s.obs.from /\ v.told = s.obs.told
  <2>1. CASE s.obs = None \/ s.held = "run"
    BY <1>1, <2>1
  <2>2. CASE ~(s.obs = None \/ s.held = "run")
    <3> DEFINE o == AsJob(s.obs, out = "yield")
    <3>1. o \in Turns /\ o.from = s.obs.from /\ o.told = s.obs.told
      BY <1>1, <2>2, AsJobIs
    <3>2. v = [o EXCEPT !.outcome = out]
      BY <2>2
    <3> HIDE DEF o, v, s
    <3>3. v \in Turns /\ v.from = o.from /\ v.told = o.told
      BY <3>1, <3>2 DEF Turns
    <3> QED
      BY <3>1, <3>3, NoneIsNoTurn
  <2> QED
    BY <2>1, <2>2
<1>4. agent' = [agent EXCEPT ![x] = z]
  <2>1. agent' = [agent EXCEPT ![x].turn = "settled", ![x].obs = v]
    BY <1>2
  <2> HIDE DEF v
  <2> QED
    BY <1>1, <2>1 DEF AllSessions
<1>5. /\ z \in Sessions
      /\ z.tool = s.tool /\ z.on = s.on /\ z.due = s.due /\ z.turn = "settled"
      /\ z.obs = v /\ z.closing = s.closing
  <2> HIDE DEF s, v
  <2>1. z1 \in Sessions /\ z \in Sessions
    BY <1>1, <1>3, FieldOfSession
  <2> QED
    BY <1>1, <2>1 DEF Sessions
<1> HIDE DEF z, v
<1>6. agent' \in AllSessions /\ \A y \in Agents : agent'[y] = IF y = x THEN z ELSE agent[y]
  <2> DEFINE bg == [agent EXCEPT ![x] = z]
  <2>1. bg \in AllSessions /\ \A y \in Agents : bg[y] = IF y = x THEN z ELSE agent[y]
    BY <1>1, <1>5, OneChanges
  <2> QED
    BY <1>4, <2>1
<1>7. Announced /\ recheck' \subseteq Agents
  BY DEF Settles, Announce, Announced
<1>8. /\ owed' \in [Agents -> [Agents -> {"none", "asked", "promised"}]]
      /\ \A a \in Agents : a # x => owed'[a] = owed[a]
  BY DEF Settles, TypeOK
<1>9. TypeOK'
  BY <1>6, <1>7, <1>8 DEF Settles, TypeOK, AllSessions
<1>10. Kept
  BY <1>1, <1>5, <1>6, <1>7, <1>8 DEF Kept, Onward, Waits, Works
<1>11. Stands
  <2>1. ASSUME NEW a \in Agents, NEW b \in Agents, Owing(b, a) # {}
        PROVE  Owing(b, a)' # {} \/ \E o \in Owing(b, a) : a \in o.told /\ Settles(b)
    <3>1. PICK o \in Debts(agent[b], a) : TRUE
      BY <2>1, OwingIsDebts
    <3>2. Owing(b, a)' = Debts(agent'[b], a)
      BY DEF Owing, Debts
    <3>3. CASE b # x
      BY <1>6, <3>1, <3>2, <3>3
    <3>4. CASE b = x /\ a \in o.told
      BY <3>1, <3>4, OwingIsDebts
    <3>5. CASE b = x /\ a \notin o.told
      <4>1. o \in s.closing \cup (IF s.obs = None THEN {} ELSE {s.obs}) /\ a \in o.from
        BY <3>1, <3>5 DEF Debts
      <4>2. agent'[b] = z
        BY <1>6, <3>5
      <4> HIDE DEF s
      <4>3. Debts(z, a) # {}
        <5>1. CASE o \in s.closing
          BY <1>5, <3>5, <4>1, <5>1 DEF Debts
        <5>2. CASE s.obs # None /\ o = s.obs
          BY <1>3, <1>5, <3>5, <4>1, <5>2 DEF Debts
        <5> QED
          BY <4>1, <5>1, <5>2
      <4> QED
        BY <3>2, <4>2, <4>3
    <3> QED
      BY <3>3, <3>4, <3>5
  <2> QED
    BY <2>1 DEF Stands
<1> QED
  BY <1>9, <1>10, <1>11

\* A turn ends, and those who wait for its agent hear so.
LEMMA TurnEndsStep ==
  ASSUME ReplyAssumption, TypeOK, NEW x \in Agents, TurnEnds(x)
  PROVE  TypeOK' /\ Stands /\ (WaitIsLive => WaitIsLive')
<1> DEFINE heard == [b \in Agents |->
                       IF agent[b].tool = "reply" /\ x \in agent[b].on
                       THEN [agent[b] EXCEPT !.due = @ \cup {x}] ELSE agent[b]]
           over  == [heard EXCEPT ![x].turn = "idle", ![x].held = IF @ = "run" THEN "gap" ELSE @]
           h     == IF heard[x].held = "run" THEN "gap" ELSE heard[x].held
           z1    == [heard[x] EXCEPT !.turn = "idle"]
           z     == [z1 EXCEPT !.held = h]
<1>1. /\ agent \in AllSessions /\ agent' = Resumed(over, x) /\ Calm
      /\ owed' = owed /\ used' = used
  BY DEF TypeOK, AllSessions, TurnEnds
<1>2. ASSUME NEW y \in Agents
      PROVE  /\ heard[y] \in Sessions
             /\ heard[y].tool = agent[y].tool /\ heard[y].on = agent[y].on
             /\ heard[y].turn = agent[y].turn /\ heard[y].box = agent[y].box
             /\ heard[y].parked = agent[y].parked
             /\ heard[y].obs = agent[y].obs /\ heard[y].closing = agent[y].closing
             /\ agent[y].due \subseteq heard[y].due
             /\ agent[y].tool = "reply" /\ x \in agent[y].on => x \in heard[y].due
  <2> DEFINE s == agent[y]
             w == [s EXCEPT !.due = @ \cup {x}]
  <2>1. s \in Sessions
    BY <1>1 DEF AllSessions
  <2>2. s.due \cup {x} \in SUBSET Agents
    BY <2>1, SessionFields
  <2>3. heard[y] = IF s.tool = "reply" /\ x \in s.on THEN w ELSE s
    OBVIOUS
  <2> HIDE DEF s, heard
  <2>4. w \in Sessions
    BY <2>1, <2>2, FieldOfSession
  <2>5. /\ w.tool = s.tool /\ w.on = s.on /\ w.turn = s.turn /\ w.box = s.box
        /\ w.parked = s.parked /\ w.obs = s.obs /\ w.closing = s.closing
        /\ w.due = s.due \cup {x}
    BY <2>1 DEF Sessions
  <2> HIDE DEF w
  <2> QED
    BY <2>1, <2>3, <2>4, <2>5 DEF s
<1>3. heard \in AllSessions
  <2>1. \A y \in Agents : heard[y] \in Sessions
    BY <1>2
  <2>2. heard = [y \in Agents |-> heard[y]]
    OBVIOUS
  <2> HIDE DEF heard
  <2> QED
    BY <2>1, <2>2 DEF AllSessions
<1> HIDE DEF heard
<1>4. /\ z \in Sessions /\ z.tool = agent[x].tool /\ z.on = agent[x].on /\ z.due = heard[x].due
      /\ z.box = agent[x].box /\ z.parked = agent[x].parked
      /\ z.obs = agent[x].obs /\ z.closing = agent[x].closing
  <2> DEFINE s == heard[x]
  <2>1. s \in Sessions
    BY <1>2
  <2>2. h \in {"no", "run", "gap"}
    BY <2>1, SessionFields
  <2> HIDE DEF h, s
  <2>3. z1 \in Sessions /\ z \in Sessions
    BY <2>1, <2>2, FieldOfSession DEF s
  <2>4. /\ z.tool = s.tool /\ z.on = s.on /\ z.due = s.due
        /\ z.box = s.box /\ z.parked = s.parked
        /\ z.obs = s.obs /\ z.closing = s.closing
    BY <2>1 DEF Sessions, s
  <2> HIDE DEF z
  <2> QED
    BY <1>2, <2>3, <2>4 DEF s
<1>5. over = [heard EXCEPT ![x] = z]
  BY <1>3 DEF AllSessions
<1> HIDE DEF z
<1>6. over \in AllSessions /\ \A y \in Agents : over[y] = IF y = x THEN z ELSE heard[y]
  <2> DEFINE bg == [heard EXCEPT ![x] = z]
  <2>1. bg \in AllSessions /\ \A y \in Agents : bg[y] = IF y = x THEN z ELSE heard[y]
    BY <1>3, <1>4, OneChanges
  <2> HIDE DEF over, bg
  <2>2. over = bg
    BY <1>5 DEF bg
  <2> QED
    BY <2>1, <2>2
<1> HIDE DEF over
<1>7. /\ agent' \in AllSessions
      /\ \A y \in Agents : y # x => agent'[y] = over[y]
      /\ \A y \in Agents : Waits(over[y], agent'[y]) /\ Owes(over[y], agent'[y])
  <2> DEFINE bg == Resumed(over, x)
  <2>1. /\ bg \in AllSessions
        /\ \A y \in Agents : y # x => bg[y] = over[y]
        /\ \A y \in Agents : Waits(over[y], bg[y]) /\ Owes(over[y], bg[y])
    BY <1>6, ResumedSteps
  <2> QED
    BY <1>1, <2>1
<1>8. Announced /\ recheck' \subseteq Agents
  BY DEF TurnEnds, Announce, Announced
<1>9. TypeOK'
  BY <1>1, <1>7, <1>8 DEF TypeOK, AllSessions
<1>10. Stands
  <2>1. ASSUME NEW b \in Agents PROVE Owes(agent[b], agent'[b])
    <3>1. over[b].obs = agent[b].obs /\ over[b].closing = agent[b].closing
      BY <1>2, <1>4, <1>6
    <3>2. \A a \in Agents : Debts(over[b], a) = Debts(agent[b], a)
      BY <3>1 DEF Debts
    <3> QED
      BY <1>7, <3>2 DEF Owes
  <2> QED
    BY <2>1, StandsIfOwes
<1>11. ASSUME WaitIsLive, NEW a \in Agents, agent'[a].tool = "reply",
              Unanswered(a)' \subseteq agent'[a].on
       PROVE  CanAnswer(a)' # {} \/ a \in recheck' \/ agent'[a].due # {}
  <2>1. /\ over[a].tool = "reply" /\ agent'[a].on = over[a].on /\ over[a].due \subseteq agent'[a].due
    BY <1>7, <1>11 DEF Waits
  <2>2. /\ agent[a].tool = "reply" /\ agent'[a].on = agent[a].on /\ heard[a].due \subseteq agent'[a].due
    BY <1>2, <1>4, <1>6, <2>1
  <2>3. Unanswered(a)' = Unanswered(a)
    BY <1>1 DEF Unanswered
  <2>4. CASE x \in agent[a].on
    BY <1>2, <2>2, <2>4
  <2>5. CASE recheck' = {y \in Agents : agent'[y].tool = "reply"}
    BY <1>11, <2>5
  <2>6. CASE x \notin agent[a].on /\ Holds' = Holds
    <3>1. CanAnswer(a) # {} \/ agent[a].due # {}
      BY <1>1, <1>11, <2>2, <2>3 DEF WaitIsLive, Calm
    <3>2. ASSUME NEW b \in CanAnswer(a) PROVE b \in CanAnswer(a)'
      <4>1. b \in Agents /\ b # x
        BY <1>11, <2>2, <2>3, <2>6 DEF CanAnswer, Unanswered
      <4>2. Works(agent[b], agent'[b])
        BY <1>2, <1>6, <1>7, <4>1 DEF Works
      <4> QED
        BY <1>1, <2>6, <4>2, AnswerStays
    <3> QED
      BY <1>2, <2>2, <3>1, <3>2
  <2> QED
    BY <1>8, <2>4, <2>5, <2>6 DEF Announced
<1> QED
  BY <1>9, <1>10, <1>11 DEF WaitIsLive

\* A run's hold on wakes ends, and every reply wait looks again.
LEMMA HoldReleasedStep ==
  ASSUME ReplyAssumption, TypeOK, NEW x \in Agents, HoldReleased(x)
  PROVE  TypeOK' /\ Stands /\ WaitIsLive'
<1> DEFINE s == agent[x]
           z == [s EXCEPT !.held = "no"]
           free == [agent EXCEPT ![x].held = "no"]
<1>1. s \in Sessions /\ agent \in AllSessions
  BY DEF TypeOK, AllSessions
<1>2. free = [agent EXCEPT ![x] = z]
  BY <1>1 DEF AllSessions
<1>3. z \in Sessions /\ z.obs = s.obs /\ z.closing = s.closing
  <2> HIDE DEF s
  <2>1. z \in Sessions
    BY <1>1, FieldOfSession
  <2> QED
    BY <1>1, <2>1 DEF Sessions
<1> HIDE DEF z
<1>4. free \in AllSessions /\ \A y \in Agents : free[y] = IF y = x THEN z ELSE agent[y]
  BY <1>1, <1>2, <1>3, OneChanges
<1>5. agent' = IF Streaming(x) THEN free ELSE Resumed(free, x)
  BY DEF HoldReleased
<1> HIDE DEF free
<1>6. agent' \in AllSessions /\ \A y \in Agents : Owes(free[y], agent'[y])
  <2> DEFINE bg == Resumed(free, x)
  <2>1. bg \in AllSessions /\ \A y \in Agents : Owes(free[y], bg[y])
    BY <1>4, ResumedSteps
  <2> HIDE DEF bg
  <2>2. agent' = IF Streaming(x) THEN free ELSE bg
    BY <1>5 DEF bg
  <2> QED
    BY <1>4, <2>1, <2>2 DEF Owes
<1>7. recheck' = {y \in Agents : agent'[y].tool = "reply"}
  BY DEF HoldReleased, Announce
<1>8. TypeOK'
  BY <1>6, <1>7 DEF HoldReleased, TypeOK, AllSessions
<1>9. Stands
  <2>1. ASSUME NEW b \in Agents PROVE Owes(agent[b], agent'[b])
    <3>1. \A a \in Agents : Debts(free[b], a) = Debts(agent[b], a)
      BY <1>3, <1>4 DEF Debts
    <3> QED
      BY <1>6, <3>1 DEF Owes
  <2> QED
    BY <2>1, StandsIfOwes
<1>10. WaitIsLive'
  BY <1>7 DEF WaitIsLive
<1> QED
  BY <1>8, <1>9, <1>10

\* A run's call returns to its parent's tool call, or settles its job.
LEMMA RunReturnsStep ==
  ASSUME TypeOK, NEW c \in Agents, RunReturns(c)
  PROVE  TypeOK' /\ Kept /\ Stands
<1> DEFINE s == agent[c]
           z == [s EXCEPT !.run = "no"]
           done == [agent EXCEPT ![c].run = "no"]
           p == Parent[c]
<1>1. s \in Sessions /\ agent \in AllSessions
  BY DEF TypeOK, AllSessions
<1>2. done = [agent EXCEPT ![c] = z]
  BY <1>1 DEF AllSessions
<1>3. /\ z \in Sessions /\ Besides(s, z)
      /\ z.obs = s.obs /\ z.closing = s.closing
  <2> HIDE DEF s
  <2>1. z \in Sessions
    BY <1>1, FieldOfSession
  <2> QED
    BY <1>1, <2>1 DEF Sessions, Besides
<1> HIDE DEF z
<1>4. done \in AllSessions /\ \A y \in Agents : done[y] = IF y = c THEN z ELSE agent[y]
  <2> DEFINE bg == [agent EXCEPT ![c] = z]
  <2>1. bg \in AllSessions /\ \A y \in Agents : bg[y] = IF y = c THEN z ELSE agent[y]
    BY <1>1, <1>3, OneChanges
  <2> HIDE DEF done, bg
  <2>2. done = bg
    BY <1>2 DEF bg
  <2> QED
    BY <2>1, <2>2
<1>5. \/ agent' = EndWait(done, p) /\ owed' = owed
      \/ agent' = JobSettled(done, c) /\ JobAnswers(c)
  BY DEF RunReturns
<1> HIDE DEF done
<1>6. Onward(agent, done)
  <2>1. \A y \in Agents : Besides(agent[y], done[y])
    BY <1>3, <1>4 DEF Besides
  <2> QED
    BY <2>1, BesidesIsOnward
<1>7. \A y \in Agents : done[y].obs = agent[y].obs /\ done[y].closing = agent[y].closing
  BY <1>3, <1>4
<1>8. Announced /\ recheck' \subseteq Agents /\ used' = used
  BY DEF RunReturns, Announce, Announced
<1>9. /\ agent' \in AllSessions /\ Onward(done, agent')
      /\ \A y \in Agents : agent'[y].obs = done[y].obs /\ agent'[y].closing = done[y].closing
      /\ owed' \in [Agents -> [Agents -> {"none", "asked", "promised"}]]
      /\ \A a \in Agents : agent'[a].tool = "reply" => owed'[a] = owed[a]
  <2>1. CASE agent' = EndWait(done, p) /\ owed' = owed
    <3> DEFINE bg == EndWait(done, p)
    <3>1. /\ bg \in AllSessions /\ Onward(done, bg)
          /\ \A y \in Agents : bg[y].obs = done[y].obs /\ bg[y].closing = done[y].closing
      BY <1>4, EndWaitSteps
    <3> QED
      BY <2>1, <3>1 DEF TypeOK
  <2>2. CASE agent' = JobSettled(done, c) /\ JobAnswers(c)
    <3> DEFINE bg == JobSettled(done, c)
    <3>1. /\ bg \in AllSessions /\ Onward(done, bg)
          /\ \A y \in Agents : bg[y].obs = done[y].obs /\ bg[y].closing = done[y].closing
          /\ p \in Agents => bg[p].tool # "reply"
      BY <1>4, JobSettledSteps
    <3>2. /\ owed' \in [Agents -> [Agents -> {"none", "asked", "promised"}]]
          /\ \A a \in Agents : a # p => owed'[a] = owed[a]
      BY <2>2 DEF JobAnswers, TypeOK
    <3> HIDE DEF bg, p
    <3>3. agent' = bg
      BY <2>2 DEF bg
    <3> QED
      BY <3>1, <3>2, <3>3
  <2> QED
    BY <1>5, <2>1, <2>2
<1>10. TypeOK'
  BY <1>8, <1>9 DEF TypeOK, AllSessions
<1>11. Kept
  <2>1. Onward(agent, agent')
    BY <1>6, <1>9, OnwardTwice
  <2> QED
    BY <1>8, <1>9, <2>1 DEF Kept
<1>12. Stands
  BY <1>7, <1>9, StandsIfObserved
<1> QED
  BY <1>10, <1>11, <1>12

\* An observation is finished.
LEMMA FinishesStep ==
  ASSUME TypeOK, NEW x \in Agents, Finishes(x)
  PROVE  TypeOK' /\ Kept /\ Stands
<1> DEFINE bg == Closed(agent, x)
<1>1. agent \in AllSessions /\ owed' = owed /\ used' = used
  BY DEF TypeOK, AllSessions, Finishes
<1>2. /\ bg \in AllSessions
      /\ \A y \in Agents : y # x => bg[y] = agent[y]
      /\ Besides(agent[x], bg[x])
      /\ \A a \in Agents : Debts(bg[x], a) = Debts(agent[x], a)
  BY <1>1, ClosedSteps
<1> HIDE DEF bg
<1>3. agent' = bg
  BY DEF Finishes, bg
<1>4. Announced /\ recheck' \subseteq Agents
  BY DEF Finishes, Announce, Announced
<1>5. Onward(agent, agent')
  <2>1. \A y \in Agents : Besides(agent[y], agent'[y])
    BY <1>2, <1>3 DEF Besides
  <2> QED
    BY <2>1, BesidesIsOnward
<1>6. TypeOK' /\ Kept
  BY <1>1, <1>2, <1>3, <1>4, <1>5 DEF TypeOK, Kept, AllSessions
<1>7. Stands
  <2>1. \A b \in Agents : Owes(agent[b], agent'[b])
    BY <1>2, <1>3 DEF Owes
  <2> QED
    BY <2>1, StandsIfOwes
<1> QED
  BY <1>6, <1>7

\* A debt survives the replacement of another observation, or of its own by one that has it.
LEMMA ReplacedDebts ==
  ASSUME NEW ag \in AllSessions, NEW x \in Agents, NEW o, NEW S \in SUBSET Turns, NEW a \in Agents,
         Debts(ag[x], a) # {},
         o \in Debts(ag[x], a) =>
           \E n \in S : a \in n.from /\ (n.outcome = "failed" \/ a \notin n.told)
  PROVE  Debts(Replaced(ag, x, o, S)[x], a) # {}
<1> DEFINE z == Replaced(ag, x, o, S)[x]
<1>1. z.obs = ag[x].obs /\ z.closing = (ag[x].closing \ {o}) \cup S
  BY ReplacedSteps
<1> HIDE DEF z
<1>2. PICK d \in Debts(ag[x], a) : TRUE
  OBVIOUS
<1>3. CASE d # o
  <2>1. d \in Debts(z, a)
    BY <1>1, <1>2, <1>3 DEF Debts
  <2> QED
    BY <2>1 DEF z
<1>4. CASE d = o
  <2>1. PICK n \in S : a \in n.from /\ (n.outcome = "failed" \/ a \notin n.told)
    BY <1>2, <1>4
  <2>2. n \in Debts(z, a)
    BY <1>1, <2>1 DEF Debts
  <2> QED
    BY <2>2 DEF z
<1> QED
  BY <1>3, <1>4

\* A job carries an outcome to the parent.
LEMMA JobCarriesStep ==
  ASSUME TypeOK, NEW x \in Agents, NEW o, JobCarries(x, o)
  PROVE  TypeOK' /\ Kept /\ Stands
<1> DEFINE p  == Parent[x]
           n  == [o EXCEPT !.job = FALSE, !.from = @ \ {p}]
           ag == Replaced(agent, x, o, {n})
           bg == JobSettled(ag, x)
<1>1. /\ agent \in AllSessions /\ o \in Turns /\ used' = used
      /\ agent' = bg /\ JobAnswers(x)
  <2>1. agent \in AllSessions /\ agent[x] \in Sessions
    BY DEF TypeOK, AllSessions
  <2> QED
    BY <2>1, SessionFields DEF JobCarries
<1>2. n \in Turns /\ n.from = o.from \ {p} /\ n.told = o.told /\ n.outcome = o.outcome
  <2> HIDE DEF p
  <2> QED
    BY <1>1 DEF Turns
<1> HIDE DEF n, p
<1>3. /\ ag \in AllSessions
      /\ \A y \in Agents : Besides(agent[y], ag[y]) /\ (y # x => ag[y] = agent[y])
  BY <1>1, <1>2, ReplacedSteps
<1>4. ASSUME NEW a \in Agents, a # p, Debts(agent[x], a) # {}
      PROVE  Debts(ag[x], a) # {}
  <2>1. o \in Debts(agent[x], a) => a \in n.from /\ (n.outcome = "failed" \/ a \notin n.told)
    BY <1>2, <1>4 DEF Debts
  <2> QED
    BY <1>1, <1>2, <1>4, <2>1, ReplacedDebts
<1> HIDE DEF ag
<1>5. /\ bg \in AllSessions /\ Onward(ag, bg)
      /\ \A y \in Agents : bg[y].obs = ag[y].obs /\ bg[y].closing = ag[y].closing
      /\ p \in Agents => bg[p].tool # "reply"
  BY <1>3, JobSettledSteps DEF p
<1> HIDE DEF bg
<1>6. /\ owed' \in [Agents -> [Agents -> {"none", "asked", "promised"}]]
      /\ \A a \in Agents : a # p => owed'[a] = owed[a]
      /\ p \in Agents /\ owed[p][x] = "asked" => owed'[p][x] # "asked"
  BY <1>1 DEF JobAnswers, TypeOK, p
<1>7. Announced /\ recheck' \subseteq Agents
  BY DEF JobCarries, Announce, Announced
<1>8. TypeOK'
  BY <1>1, <1>5, <1>6, <1>7 DEF TypeOK, AllSessions
<1>9. Kept
  <2>1. Onward(agent, bg)
    BY <1>3, <1>5, BesidesIsOnward, OnwardTwice
  <2> QED
    BY <1>1, <1>5, <1>6, <1>7, <2>1 DEF Kept
<1>10. Stands
  <2>1. ASSUME NEW a \in Agents, NEW b \in Agents, Debts(agent[b], a) # {}
        PROVE  Debts(agent'[b], a) # {} \/ (owed[a][b] = "asked" => owed'[a][b] # "asked")
    <3>1. Debts(agent'[b], a) = Debts(ag[b], a)
      BY <1>1, <1>5 DEF Debts
    <3>2. CASE b # x
      BY <1>3, <2>1, <3>1, <3>2
    <3>3. CASE b = x /\ a # p
      BY <1>4, <2>1, <3>1, <3>3
    <3>4. CASE b = x /\ a = p
      BY <1>6, <3>4
    <3> QED
      BY <3>2, <3>3, <3>4
  <2> QED
    BY <2>1, StandsIf
<1> QED
  BY <1>8, <1>9, <1>10

\* An outcome is relayed to an agent that asked, or found to need no relay.
LEMMA RelaysStep ==
  ASSUME ReplyAssumption, TypeOK, NEW x \in Agents, NEW o, NEW s \in Agents, Relays(x, o, s)
  PROVE  TypeOK' /\ Kept /\ Stands
<1> DEFINE n  == [o EXCEPT !.from = @ \ {s}]
           ag == Replaced(agent, x, o, {n})
           m  == [from |-> x, asks |-> FALSE]
           dg == Delivered(ag, s, m)
           tg == Told(dg, x, s)
<1>1. agent \in AllSessions /\ o \in Turns /\ used' = used /\ m \in Messages
  <2>1. agent \in AllSessions /\ agent[x] \in Sessions
    BY DEF TypeOK, AllSessions
  <2> QED
    BY <2>1, SessionFields DEF Relays, Messages
<1>2. n \in Turns /\ n.from = o.from \ {s} /\ n.told = o.told /\ n.outcome = o.outcome
  BY <1>1 DEF Turns
<1>3. \/ Relayed(o, s) /\ agent' = tg /\ owed' = [owed EXCEPT ![s][x] = "none"]
      \/ ~Relayed(o, s) /\ agent' = ag /\ owed' = owed
  BY DEF Relays
<1> HIDE DEF n, m
<1>4. /\ ag \in AllSessions
      /\ \A y \in Agents : Besides(agent[y], ag[y]) /\ (y # x => ag[y] = agent[y])
  BY <1>1, <1>2, ReplacedSteps
<1>5. ASSUME NEW a \in Agents, Debts(agent[x], a) # {}, a # s \/ o \notin Debts(agent[x], a)
      PROVE  Debts(ag[x], a) # {}
  <2>1. o \in Debts(agent[x], a) => a \in n.from /\ (n.outcome = "failed" \/ a \notin n.told)
    BY <1>2, <1>5 DEF Debts
  <2> QED
    BY <1>1, <1>2, <1>5, <2>1, ReplacedDebts
<1> HIDE DEF ag
<1>6. Onward(agent, ag)
  BY <1>4, BesidesIsOnward
<1>7. Announced /\ recheck' \subseteq Agents
  BY DEF Relays, Announce, Announced
<1>8. CASE Relayed(o, s) /\ agent' = tg /\ owed' = [owed EXCEPT ![s][x] = "none"]
  <2>1. /\ dg \in AllSessions /\ Onward(ag, dg)
        /\ \A y \in Agents : y # s => dg[y] = ag[y]
        /\ dg[s].tool # "reply" /\ Owes(ag[s], dg[s])
    BY <1>1, <1>4, DeliveredSteps
  <2> HIDE DEF dg
  <2>2. /\ tg \in AllSessions
        /\ \A y \in Agents : Besides(dg[y], tg[y])
        /\ \A y \in Agents : y # x => tg[y] = dg[y]
        /\ \A a \in Agents : a # s /\ Debts(dg[x], a) # {} => Debts(tg[x], a) # {}
    BY <2>1, ToldSteps
  <2> HIDE DEF tg
  <2>3. Onward(agent, tg)
    BY <1>6, <2>1, <2>2, BesidesIsOnward, OnwardTwice
  <2>4. /\ owed' \in [Agents -> [Agents -> {"none", "asked", "promised"}]]
        /\ \A a \in Agents : a # s => owed'[a] = owed[a]
        /\ owed'[s][x] = "none"
    BY <1>8 DEF TypeOK
  <2>5. TypeOK'
    BY <1>1, <1>7, <1>8, <2>2, <2>4 DEF TypeOK, AllSessions
  <2>6. Kept
    <3>1. tg[s].tool # "reply"
      BY <2>1, <2>2 DEF Besides
    <3> QED
      BY <1>7, <1>8, <2>3, <2>4, <3>1 DEF Kept
  <2>7. Stands
    <3>1. ASSUME NEW a \in Agents, NEW b \in Agents, Debts(agent[b], a) # {}
          PROVE  Debts(agent'[b], a) # {} \/ (owed[a][b] = "asked" => owed'[a][b] # "asked")
      <4>1. CASE b = x /\ a = s
        BY <2>4, <4>1
      <4>2. CASE ~(b = x /\ a = s)
        <5>1. Debts(ag[b], a) # {}
          BY <1>4, <1>5, <3>1, <4>2
        <5>2. Debts(dg[b], a) # {}
          BY <2>1, <5>1 DEF Owes
        <5> QED
          BY <1>8, <2>2, <4>2, <5>2
      <4> QED
        BY <4>1, <4>2
    <3> QED
      BY <3>1, StandsIf
  <2> QED
    BY <2>5, <2>6, <2>7
<1>9. CASE ~Relayed(o, s) /\ agent' = ag /\ owed' = owed
  <2>1. TypeOK'
    BY <1>1, <1>4, <1>7, <1>9 DEF TypeOK, AllSessions
  <2>2. Kept
    BY <1>6, <1>7, <1>9 DEF Kept
  <2>3. Stands
    <3>1. ASSUME NEW a \in Agents, NEW b \in Agents, Owing(b, a) # {}
          PROVE  Owing(b, a)' # {} \/ \E d \in Owing(b, a) : d.outcome = "nothing"
      <4>1. Owing(b, a) = Debts(agent[b], a) /\ Owing(b, a)' = Debts(ag[b], a)
        BY <1>9 DEF Owing, Debts
      <4>2. CASE b = x /\ a = s /\ o \in Debts(agent[x], a)
        <5>1. o.outcome = "nothing"
          BY <1>9, <4>2 DEF Relayed, Debts
        <5> QED
          BY <4>1, <4>2, <5>1
      <4>3. CASE b = x /\ ~(a = s /\ o \in Debts(agent[x], a))
        BY <1>5, <3>1, <4>1, <4>3
      <4>4. CASE b # x
        BY <1>4, <3>1, <4>1, <4>4
      <4> QED
        BY <4>2, <4>3, <4>4
    <3> QED
      BY <3>1 DEF Stands
  <2> QED
    BY <2>1, <2>2, <2>3
<1> QED
  BY <1>3, <1>8, <1>9

\* An obligation that is met is off the books.
LEMMA DischargedStep ==
  ASSUME TypeOK, NEW x \in Agents, NEW o, Discharged(x, o)
  PROVE  TypeOK' /\ Kept /\ Stands
<1> DEFINE ag == Replaced(agent, x, o, {})
<1>1. /\ agent \in AllSessions /\ o.from = {} /\ agent' = ag /\ owed' = owed /\ used' = used
      /\ {} \in SUBSET Turns
  BY DEF TypeOK, AllSessions, Discharged
<1>2. /\ ag \in AllSessions
      /\ \A y \in Agents : Besides(agent[y], ag[y]) /\ (y # x => ag[y] = agent[y])
  BY <1>1, ReplacedSteps
<1>3. \A a \in Agents : Debts(agent[x], a) # {} => Debts(ag[x], a) # {}
  <2>1. ASSUME NEW a \in Agents, Debts(agent[x], a) # {} PROVE Debts(ag[x], a) # {}
    <3>1. o \notin Debts(agent[x], a)
      BY <1>1 DEF Debts
    <3> QED
      BY <1>1, <2>1, <3>1, ReplacedDebts
  <2> QED
    BY <2>1
<1> HIDE DEF ag
<1>4. Announced /\ recheck' \subseteq Agents
  BY DEF Discharged, Announce, Announced
<1>5. TypeOK'
  BY <1>1, <1>2, <1>4 DEF TypeOK, AllSessions
<1>6. Kept
  BY <1>1, <1>2, <1>4, BesidesIsOnward DEF Kept
<1>7. Stands
  BY <1>1, <1>2, <1>3, StandsIfOwes DEF Owes
<1> QED
  BY <1>5, <1>6, <1>7

---------------------------------------------------------------------------
(* The theorems.                                                           *)

\* In the beginning nobody waits and nothing is owed.
LEMMA InitHolds ==
  ASSUME ReplyAssumption, Init
  PROVE  TypeOK /\ WaitIsLive
<1>1. Fresh \in Sessions /\ Fresh.tool = "none"
  BY DEF Fresh, Sessions
<1>2. [Fresh EXCEPT !.turn = "run"] \in Sessions /\ [Fresh EXCEPT !.turn = "run"].tool = "none"
  <2> DEFINE s == Fresh
  <2>1. s \in Sessions /\ s.tool = "none"
    BY <1>1
  <2> HIDE DEF s
  <2>2. [s EXCEPT !.turn = "run"] \in Sessions
    BY <2>1, FieldOfSession
  <2>3. [s EXCEPT !.turn = "run"].tool = "none"
    BY <2>1 DEF Sessions
  <2> QED
    BY <2>2, <2>3 DEF s
<1>3. \A a \in Agents : agent[a] \in Sessions /\ agent[a].tool = "none"
  <2> DEFINE f == Fresh
             g == [Fresh EXCEPT !.turn = "run"]
  <2>1. agent = [a \in Agents |-> IF Parent[a] = None THEN g ELSE f]
    BY DEF Init
  <2>2. f \in Sessions /\ f.tool = "none" /\ g \in Sessions /\ g.tool = "none"
    BY <1>1, <1>2
  <2> HIDE DEF f, g
  <2> QED
    BY <2>1, <2>2
<1>4. agent \in [Agents -> Sessions]
  BY <1>3 DEF Init
<1>5. TypeOK
  <2>1. /\ owed = [a \in Agents |-> [b \in Agents |-> "none"]]
        /\ recheck = {} /\ used = [send |-> 0, start |-> 0]
    BY DEF Init
  <2> QED
    BY <1>4, <2>1 DEF TypeOK, ReplyAssumption
<1>6. WaitIsLive
  BY <1>3 DEF WaitIsLive
<1> QED
  BY <1>5, <1>6

\* Every step keeps the types and every reply wait alive, and lets no debt lapse.
LEMMA NextHolds ==
  ASSUME ReplyAssumption, TypeOK, WaitIsLive, Next
  PROVE  TypeOK' /\ WaitIsLive' /\ Stands
<1>1. PICK x \in Agents :
        \/ Goes(x) \/ Settles(x) \/ CutShort(x) \/ UserPrompts(x)
        \/ WaitTakesMessage(x) \/ WaitForJobs(x) \/ WaitForReply(x)
        \/ \E b \in Agents, asks \in BOOLEAN : Send(x, b, asks)
        \/ \E c \in Agents, how \in {"bg", "inline"} : Drive(x, c, how)
  BY DEF Next
<1>2. CASE Listens(x)
  BY <1>2, ListensStep
<1>3. ASSUME NEW b \in Agents, TurnHeard(x, b) PROVE TypeOK' /\ WaitIsLive' /\ Stands
  BY <1>3, TurnHeardStep
<1>4. CASE TakesIn(x)
  BY <1>4, TakesInStep, LiveAfter DEF TakesIn, Acting
<1>5. CASE TurnEnds(x)
  BY <1>5, TurnEndsStep
<1>6. CASE HoldReleased(x)
  BY <1>6, HoldReleasedStep
<1>7. CASE RunReturns(x)
  BY <1>7, RunReturnsStep, LiveAfter DEF RunReturns
<1>8. CASE Finishes(x)
  BY <1>8, FinishesStep, LiveAfter DEF Finishes
<1>9. ASSUME NEW o, JobCarries(x, o) PROVE TypeOK' /\ WaitIsLive' /\ Stands
  BY <1>9, JobCarriesStep, LiveAfter DEF JobCarries
<1>10. ASSUME NEW o, Discharged(x, o) PROVE TypeOK' /\ WaitIsLive' /\ Stands
  BY <1>10, DischargedStep, LiveAfter DEF Discharged
<1>11. ASSUME NEW o, NEW s \in Agents, Relays(x, o, s) PROVE TypeOK' /\ WaitIsLive' /\ Stands
  BY <1>11, RelaysStep, LiveAfter DEF Relays
<1>12. CASE Settles(x)
  BY <1>12, SettlesStep, LiveAfter DEF Settles, Acting
<1>13. CASE CutShort(x)
  BY <1>13, CutShortStep, LiveAfter DEF CutShort
<1>14. CASE UserPrompts(x)
  BY <1>14, UserPromptsStep, LiveAfter DEF UserPrompts
<1>15. CASE WaitTakesMessage(x)
  BY <1>15, WaitTakesMessageStep, LiveAfter DEF WaitTakesMessage, MayWait, Acting
<1>16. CASE WaitForJobs(x)
  BY <1>16, WaitForJobsStep, LiveAfter DEF WaitForJobs, MayWait, Acting
<1>17. CASE WaitForReply(x)
  BY <1>17, WaitForReplyStep
<1>18. ASSUME NEW b \in Agents, NEW asks \in BOOLEAN, Send(x, b, asks)
       PROVE  TypeOK' /\ WaitIsLive' /\ Stands
  BY <1>18, SendStep, LiveAfter DEF Send, Acting
<1>19. ASSUME NEW c \in Agents, NEW how \in {"bg", "inline"}, Drive(x, c, how)
       PROVE  TypeOK' /\ WaitIsLive' /\ Stands
  BY <1>19, DriveStep, LiveAfter DEF Drive, Acting
<1> QED
  BY <1>1, <1>2, <1>3, <1>4, <1>5, <1>6, <1>7, <1>8, <1>9, <1>10, <1>11, <1>12, <1>13, <1>14,
     <1>15, <1>16, <1>17, <1>18, <1>19 DEF Goes, Reports

\* Nothing happens.
LEMMA StutterHolds ==
  ASSUME TypeOK, WaitIsLive, UNCHANGED vars
  PROVE  TypeOK' /\ WaitIsLive'
<1>1. agent' = agent /\ owed' = owed /\ recheck' = recheck /\ used' = used
  BY DEF vars
<1>2. Holds' = Holds /\ \A y \in Agents : Works(agent[y], agent'[y])
  BY <1>1 DEF Holds, Hold, Works
<1>3. \A a \in Agents : CanAnswer(a) # {} => CanAnswer(a)' # {}
  BY <1>1, <1>2, SomebodyStillCan
<1>4. \A a \in Agents : Unanswered(a)' = Unanswered(a)
  BY <1>1 DEF Unanswered
<1>5. TypeOK'
  BY <1>1 DEF TypeOK
<1>6. WaitIsLive'
  BY <1>1, <1>3, <1>4 DEF WaitIsLive
<1> QED
  BY <1>5, <1>6

LEMMA Invariant ==
  Spec => [](TypeOK /\ WaitIsLive)
<1>1. Init => TypeOK /\ WaitIsLive
  BY InitHolds, ReplyAssumption
<1>2. TypeOK /\ WaitIsLive /\ [Next]_vars => (TypeOK /\ WaitIsLive)'
  BY NextHolds, StutterHolds, ReplyAssumption
<1> QED
  BY <1>1, <1>2, PTL DEF Spec

\* Sessions, questions and bounds are of their kinds for every team (Sessions, IrcBridge).
THEOREM TypeCorrect == Spec => []TypeOK
BY Invariant, PTL

\* In every team a reply wait that hears the ends of those it waits for stands only while
\* one of them can answer or a listener is about to look (wait.ts, #blockUntilWake).
THEOREM NoWaitIsForgotten == Spec => []WaitIsLive
BY Invariant, PTL

\* In every team the outcome of a woken turn stays owed until its waker has been told
\* (#startTurnObservation, #finishTurnObservation, relayWakeTurnOutput).
THEOREM RelaysAreKept == Spec => RelayStands
<1>1. TypeOK /\ WaitIsLive /\ [Next]_vars =>
        [\A a, b \in Agents :
           Owing(b, a) # {} /\ owed[a][b] = "asked" =>
             \/ Owing(b, a)' # {} \/ owed'[a][b] # "asked"
             \/ \E o \in Owing(b, a) :
                  o.outcome = "nothing" \/ (a \in o.told /\ Settles(b))]_vars
  BY NextHolds, ReplyAssumption DEF Stands
<1> QED
  BY <1>1, Invariant, PTL DEF Spec, RelayStands
===========================================================================
