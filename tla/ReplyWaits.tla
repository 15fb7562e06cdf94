---------------------------- MODULE ReplyWaits ----------------------------
(***************************************************************************)
(* Agents of one process that ask each other questions and wait for the    *)
(* answers: the message bus (irc/bus.ts), the queues of a session and the  *)
(* turns that messages wake (session/irc-bridge.ts, agent-session.ts), the *)
(* relay of such a turn's outcome (task/executor.ts), the blocks agents    *)
(* declare (registry/agent-awaits.ts) and the wait tool (tools/wait.ts).   *)
(*                                                                         *)
(* Sends are ordered by sequence number in the code and only compared: the *)
(* latest question of one agent to another is unanswered, answered, or     *)
(* promised an answer, which is what `owed` keeps.  All sessions are live. *)
(***************************************************************************)
EXTENDS Naturals, FiniteSets

CONSTANTS
  Agents,
  Parent,    \* the agent that spawned each agent, or None for a top-level one
  None,
  MaxSend,   \* bound: messages sent by the agents themselves
  MaxStart   \* bound: prompts of the user and runs driven by the executor

ASSUME ReplyAssumption ==
  /\ None \notin Agents /\ Parent \in [Agents -> Agents \cup {None}]
  /\ MaxSend \in Nat /\ MaxStart \in Nat

VARIABLES
  agent,    \* the session of each agent and what it is at
  owed,     \* owed[a][b]: what has become of a's latest question to b in a's run
  recheck,  \* reply waits whose listeners a change of the registry or of a block calls
  used      \* how much of the bounds is used

vars == <<agent, owed, recheck, used>>

Messages == [from : Agents, asks : BOOLEAN]

\* The observation of a woken turn: whom its outcome is relayed to, whom the agent has
\* sent something since, whether a job of the parent carries it, and how it ended.
Outcomes == {"open", "yield", "text", "nothing", "failed"}
Turns    == [from : SUBSET Agents, told : SUBSET Agents, job : BOOLEAN, outcome : Outcomes]

ASSUME NoneIsNoTurn == None \notin Turns

Sessions ==
  [turn    : {"idle", "run", "settled"},           \* isStreaming in all but "idle"
   tool    : {"none", "reply", "jobs", "inline"},  \* what its tool call waits for
   on      : SUBSET Agents,                        \* and of whom
   due     : SUBSET Agents,       \* asked agents whose turn ended, the check to follow
   box     : SUBSET Messages,     \* its interrupts, asides and steers
   parked  : SUBSET Messages,     \* its deferred wakes
   held    : {"no", "run", "gap"},   \* holdIrcWakes: in the driven turn, and after it
   run     : {"no", "bg", "inline"}, \* the call of the executor that drives it
   obs     : Turns \cup {None},   \* the open observation
   closing : SUBSET Turns]        \* those whose outcome is on its way

Fresh == [turn |-> "idle", tool |-> "none", on |-> {}, due |-> {}, box |-> {}, parked |-> {},
          held |-> "no", run |-> "no", obs |-> None, closing |-> {}]

Init ==
  /\ agent = [a \in Agents |-> IF Parent[a] = None THEN [Fresh EXCEPT !.turn = "run"] ELSE Fresh]
  /\ owed = [a \in Agents |-> [b \in Agents |-> "none"]]
  /\ recheck = {}
  /\ used = [send |-> 0, start |-> 0]

---------------------------------------------------------------------------
(* Messages and the turns they wake.                                       *)

Ancestors[a \in Agents] ==
  IF Parent[a] = None THEN {} ELSE {Parent[a]} \cup Ancestors[Parent[a]]

\* A subagent's message from anyone but its parent and its descendants.
Peer(t, f) == Parent[t] # None /\ f # Parent[t] /\ t \notin Ancestors[f]

Streaming(a) == agent[a].turn # "idle"

EndWait(ag, a) == [ag EXCEPT ![a].tool = "none", ![a].on = {}, ![a].due = {}]

\* Mutant: an observation that is not there is finished too.
ClosedUnchecked(ag, a) ==
  [ag EXCEPT ![a].closing = @ \cup {ag[a].obs}, ![a].obs = None]

\* Mutant: a turn that supersedes an observation drops it unfinished.
ClosedUnreported(ag, a) == [ag EXCEPT ![a].obs = None]

\* A turn observation that is still open is closed with its own turn's outcome.
Closed(ag, a) ==
  IF ag[a].obs = None THEN ag
  ELSE [ag EXCEPT ![a].closing = @ \cup {ag[a].obs}, ![a].obs = None]

\* #wakeForIrc.  A message of the parent makes the turn a job of the parent.
Woken(ag, a, M) ==
  LET asking == {m.from : m \in {n \in M : n.asks}}
      next   == [Closed(ag, a) EXCEPT ![a].turn = "run"]
  IN IF Parent[a] = None THEN next
     ELSE [next EXCEPT ![a].obs = [from |-> asking, told |-> {}, outcome |-> "open",
                                   job |-> Parent[a] \in asking]]

\* #deliver and IrcBridge.deliver: to a wait, to the running turn, or by a wake.
Delivered(ag, t, m) ==
  IF ag[t].tool \in {"reply", "jobs"} THEN EndWait(ag, t)
  ELSE IF ag[t].turn # "idle" THEN [ag EXCEPT ![t].box = @ \cup {m}]
  ELSE IF ag[t].held # "no" /\ Peer(t, m.from) THEN [ag EXCEPT ![t].parked = @ \cup {m}]
  ELSE Woken(ag, t, {m})

\* sentSince: f has sent t something, as far as the turns of f not yet reported go.
Told(ag, f, t) ==
  LET tells(o) == [o EXCEPT !.told = @ \cup {t}]
  IN [ag EXCEPT ![f].obs = IF @ = None THEN None ELSE tells(@),
                ![f].closing = {tells(o) : o \in @}]

\* #resumeStrandedIrcAsides, when nothing runs.
Resumed(ag, a) ==
  LET all  == ag[a].box \cup ag[a].parked
      keep == {m \in all : ag[a].held # "no" /\ Peer(a, m.from)}
      next == [ag EXCEPT ![a].box = {}, ![a].parked = keep]
  IN IF all = keep THEN next ELSE Woken(next, a, all \ keep)

---------------------------------------------------------------------------
(* Jobs, blocks and answers.                                               *)

\* Running jobs of p that carry a subagent's outcome.
JobsOf(p) ==
  {c \in Agents : /\ Parent[c] = p
                  /\ \/ agent[c].run = "bg"
                     \/ agent[c].obs # None /\ agent[c].obs.job
                     \/ \E o \in agent[c].closing : o.job}

\* A settled job answers what its owner asked the agent before, ends the owner's wait,
\* by its promise or by its notice, and wakes an idle owner.
JobSettled(ag, c) ==
  LET p == Parent[c]
  IN IF ag[p].tool \in {"reply", "jobs"} THEN EndWait(ag, p)
     ELSE IF ag[p].turn = "idle" THEN [ag EXCEPT ![p].turn = "run"]
     ELSE ag

JobAnswers(c) ==
  owed' = [owed EXCEPT ![Parent[c]][c] = IF @ = "asked" THEN "none" ELSE @]

\* The agents each agent has declared itself blocked on.
Hold(a) == IF agent[a].tool \in {"jobs", "inline"} THEN agent[a].on ELSE {}

Holds == [a \in Agents |-> Hold(a)]

\* The agents that finish only after t does.  A block ends with any one of its agents.
After(blocks, t) ==
  LET reach[n \in Nat] ==
        IF n = 0 THEN {t}
        ELSE reach[n - 1] \cup
               {a \in Agents : blocks[a] # {} /\ blocks[a] \subseteq reach[n - 1]}
  IN reach[Cardinality(Agents)]

\* AwaitHold.since needs no counterpart: a message ends an interruptible block when it
\* arrives, so a block that is in place began after whatever its agent was asked.
BlocksOn(b, t) == Hold(b) # {} /\ Hold(b) \subseteq After(Holds, t)

HasQueuedFrom(b, a) == \E m \in agent[b].box \cup agent[b].parked : m.from = a

Unanswered(a) == {b \in Agents : owed[a][b] # "none"}

\* pendingReplies: the agents asked that can still answer.
CanAnswer(a) ==
  {b \in Unanswered(a) : /\ ~BlocksOn(b, a)
                         /\ owed[a][b] = "promised" \/ Streaming(b) \/ HasQueuedFrom(b, a)}

\* Those whose turn ended without an answer.
Stopped(a) == {b \in Unanswered(a) \ CanAnswer(a) : ~BlocksOn(b, a)}

\* Mutant: declaring or releasing a block calls no listener.
AnnounceStatus(more) ==
  recheck' =
    IF more \/ \E a \in Agents : agent'[a].turn \notin {agent[a].turn, "idle"}
    THEN {a \in Agents : agent'[a].tool = "reply"} ELSE {}

\* A status change and a new or ended block call the listeners of every reply wait.
Announce(more) ==
  recheck' =
    IF \/ more
       \/ Holds' # Holds
       \/ \E a \in Agents : agent'[a].turn \notin {agent[a].turn, "idle"}
    THEN {a \in Agents : agent'[a].tool = "reply"} ELSE {}

Calm == recheck = {}

---------------------------------------------------------------------------
(* What an agent does in its turn.                                         *)

Acting(a) == Calm /\ agent[a].turn = "run" /\ agent[a].tool = "none"

\* executeSend: a question, or a note of progress that promises a later answer.
Send(f, t, asks) ==
  /\ Acting(f) /\ f # t
  /\ used.send < MaxSend
  /\ used' = [used EXCEPT !.send = @ + 1]
  /\ agent' = Told(Delivered(agent, t, [from |-> f, asks |-> asks]), f, t)
  /\ owed' = IF asks THEN [owed EXCEPT ![t][f] = "none", ![f][t] = "asked"]
             ELSE [owed EXCEPT ![t][f] = IF @ = "asked" THEN "promised" ELSE @]
  /\ Announce(FALSE)

\* registerWakeJob: what makes the turn a job of the parent, once.
AsJob(o, now) == [o EXCEPT !.job = @ \/ now]

\* A step boundary takes in what is queued.  A parent's steer makes the turn its job.
TakesIn(a) ==
  /\ Acting(a) /\ agent[a].box # {}
  /\ LET steered == \E m \in agent[a].box : m.from = Parent[a]
     IN agent' = [agent EXCEPT ![a].box = {},
                               ![a].obs = IF @ = None THEN None ELSE AsJob(@, steered)]
  /\ Announce(FALSE)
  /\ UNCHANGED <<owed, used>>

\* A steer that is queued is taken in before a wait can start.
MayWait(a) == Acting(a) /\ \A m \in agent[a].box : m.from # Parent[a]

\* The wait tool returns a queued message at once.
WaitTakesMessage(a) ==
  /\ MayWait(a)
  /\ \E m \in agent[a].box : agent' = [agent EXCEPT ![a].box = @ \ {m}]
  /\ Announce(FALSE)
  /\ UNCHANGED <<owed, used>>

\* Otherwise it blocks on the jobs its agent owns, and declares so, ...
WaitForJobs(a) ==
  /\ MayWait(a) /\ agent[a].box = {} /\ JobsOf(a) # {}
  /\ agent' = [agent EXCEPT ![a].tool = "jobs", ![a].on = JobsOf(a)]
  /\ Announce(FALSE)
  /\ UNCHANGED <<owed, used>>

\* ... or without any on the answers that can still come, of whose turns it hears the end.
WaitForReply(a) ==
  /\ MayWait(a) /\ agent[a].box = {} /\ JobsOf(a) = {} /\ CanAnswer(a) # {}
  /\ agent' = [agent EXCEPT ![a].tool = "reply", ![a].on = CanAnswer(a)]
  /\ Announce(FALSE)
  /\ UNCHANGED <<owed, used>>

\* The user steers the agent, or the wait's limit runs out.
CutShort(a) ==
  /\ Calm /\ agent[a].tool \in {"jobs", "reply"}
  /\ agent' = EndWait(agent, a)
  /\ Announce(FALSE)
  /\ UNCHANGED <<owed, used>>

\* A reply wait looks again, and ends when no agent asked can still answer.
LooksAgain(a, ag) ==
  agent' = IF agent[a].tool = "reply" /\ CanAnswer(a) = {} THEN EndWait(ag, a) ELSE ag

Listens(a) ==
  /\ a \in recheck
  /\ recheck' = recheck \ {a}
  /\ LooksAgain(a, agent)
  /\ UNCHANGED <<owed, used>>

\* waitForIrcReplies: every outcome b's turns owe has been relayed.
TurnHeard(a, b) ==
  /\ Calm /\ b \in agent[a].due
  /\ agent[b].obs = None /\ agent[b].closing = {}
  /\ LooksAgain(a, [agent EXCEPT ![a].due = @ \ {b}])
  /\ Announce(FALSE)
  /\ UNCHANGED <<owed, used>>

---------------------------------------------------------------------------
(* Turns and runs.                                                         *)

Starts == used.start < MaxStart /\ used' = [used EXCEPT !.start = @ + 1]

UserPrompts(a) ==
  /\ Calm /\ Parent[a] = None /\ agent[a].turn = "idle"
  /\ Starts
  /\ agent' = [agent EXCEPT ![a].turn = "run"]
  /\ Announce(FALSE)
  /\ UNCHANGED owed

\* The executor drives a run of c: in the background, or with p's tool call open.
Drive(p, c, how) ==
  /\ Acting(p) /\ Parent[c] = p
  /\ agent[c].turn = "idle" /\ agent[c].run = "no" /\ agent[c].held = "no"
  /\ Starts
  /\ agent' = [agent EXCEPT ![c].turn = "run", ![c].held = "run", ![c].run = how,
                            ![p].tool = IF how = "inline" THEN "inline" ELSE @,
                            ![p].on = IF how = "inline" THEN {c} ELSE @]
  /\ Announce(FALSE)
  /\ UNCHANGED owed

\* The last boundary of a turn takes in everything but the messages that are to have a
\* turn of their own.
LeftAtStop(a, m) == Peer(a, m.from)

\* The loop has ended and idle is reported, the prompt still in flight.
Settles(a) ==
  /\ Acting(a)
  /\ \A m \in agent[a].box : LeftAtStop(a, m)
  /\ \E out \in Outcomes \ {"open"} :
       agent' = [agent EXCEPT
         ![a].turn = "settled",
         ![a].obs = IF @ = None \/ agent[a].held = "run" THEN @
                    ELSE [AsJob(@, out = "yield") EXCEPT !.outcome = out]]
  /\ owed' = [owed EXCEPT ![a] = [b \in Agents |-> "none"]]
  /\ Announce(FALSE)
  /\ UNCHANGED used

\* #endInFlight: agent_end goes out, and what came too late for the turn wakes another.
TurnEnds(a) ==
  /\ Calm /\ agent[a].turn = "settled"
  /\ LET heard == [b \in Agents |->
                     IF agent[b].tool = "reply" /\ a \in agent[b].on
                     THEN [agent[b] EXCEPT !.due = @ \cup {a}] ELSE agent[b]]
         over  == [heard EXCEPT ![a].turn = "idle",
                                ![a].held = IF @ = "run" THEN "gap" ELSE @]
     IN agent' = Resumed(over, a)
  /\ Announce(FALSE)
  /\ UNCHANGED <<owed, used>>

\* Mutant: releasing the hold wakes nobody.
HoldReleasedSilently(c) ==
  /\ Calm /\ agent[c].held = "gap"
  /\ agent' = [agent EXCEPT ![c].held = "no"]
  /\ Announce(TRUE)
  /\ UNCHANGED <<owed, used>>

\* The driven run's result is out: messages held for it get their turns.
HoldReleased(c) ==
  /\ Calm /\ agent[c].held = "gap"
  /\ LET free == [agent EXCEPT ![c].held = "no"]
     IN agent' = IF Streaming(c) THEN free ELSE Resumed(free, c)
  /\ Announce(TRUE)
  /\ UNCHANGED <<owed, used>>

\* The executor's call returns to the parent's tool call, or settles its job.
RunReturns(c) ==
  /\ Calm /\ agent[c].run # "no" /\ agent[c].held = "no"
  /\ LET done == [agent EXCEPT ![c].run = "no"]
     IN IF agent[c].run = "inline"
        THEN /\ agent' = EndWait(done, Parent[c]) /\ UNCHANGED owed
        ELSE /\ agent' = JobSettled(done, c) /\ JobAnswers(c)
  /\ Announce(FALSE)
  /\ UNCHANGED used

---------------------------------------------------------------------------
(* What becomes of a woken turn's outcome.                                 *)

\* #finishTurnObservation, once the agent's own work has settled.  An accepted result
\* is announced.
Finishes(a) ==
  /\ Calm /\ ~Streaming(a) /\ agent[a].obs # None /\ JobsOf(a) = {}
  /\ agent' = Closed(agent, a)
  /\ Announce(agent[a].obs.outcome = "yield")
  /\ UNCHANGED <<owed, used>>

Replaced(ag, a, o, S) == [ag EXCEPT ![a].closing = (@ \ {o}) \cup S]

\* The job carries the outcome to the parent, which needs no relay then.
JobCarries(a, o) ==
  /\ Calm /\ o \in agent[a].closing /\ o.job
  /\ agent' = JobSettled(Replaced(agent, a, o,
                {[o EXCEPT !.job = FALSE, !.from = @ \ {Parent[a]}]}), a)
  /\ JobAnswers(a)
  /\ Announce(FALSE)
  /\ UNCHANGED used

\* A turn that completed without words, or has sent the waker something, is not relayed.
Relayed(o, s) == o.outcome = "failed" \/ (s \notin o.told /\ o.outcome # "nothing")

Relays(a, o, s) ==
  /\ Calm /\ o \in agent[a].closing /\ ~o.job /\ s \in o.from
  /\ LET rest == Replaced(agent, a, o, {[o EXCEPT !.from = @ \ {s}]})
     IN IF Relayed(o, s)
        THEN /\ agent' = Told(Delivered(rest, s, [from |-> a, asks |-> FALSE]), a, s)
             /\ owed' = [owed EXCEPT ![s][a] = "none"]
        ELSE /\ agent' = rest /\ UNCHANGED owed
  /\ Announce(FALSE)
  /\ UNCHANGED used

\* The reply obligation is met.
Discharged(a, o) ==
  /\ Calm /\ o \in agent[a].closing /\ ~o.job /\ o.from = {}
  /\ agent' = Replaced(agent, a, o, {})
  /\ Announce(FALSE)
  /\ UNCHANGED <<owed, used>>

---------------------------------------------------------------------------
Reports(a) ==
  \/ Finishes(a)
  \/ \E o \in agent[a].closing :
       \/ JobCarries(a, o) \/ Discharged(a, o)
       \/ \E s \in Agents : Relays(a, o, s)

\* What needs no agent's or user's doing.
Goes(a) ==
  \/ Listens(a) \/ \E b \in Agents : TurnHeard(a, b)
  \/ TakesIn(a) \/ TurnEnds(a) \/ HoldReleased(a) \/ RunReturns(a) \/ Reports(a)

Next ==
  \E a \in Agents :
    \/ Goes(a) \/ Settles(a) \/ CutShort(a) \/ UserPrompts(a)
    \/ WaitTakesMessage(a) \/ WaitForJobs(a) \/ WaitForReply(a)
    \/ \E b \in Agents, asks \in BOOLEAN : Send(a, b, asks)
    \/ \E c \in Agents, how \in {"bg", "inline"} : Drive(a, c, how)

Spec == Init /\ [][Next]_vars

\* The event loop runs what is ready, a wait has a limit, and no turn goes on for ever.
Fairness ==
  /\ WF_vars(\E a \in Agents : Goes(a))
  /\ WF_vars(\E a \in Agents : CutShort(a))
  /\ SF_vars(\E a \in Agents : Settles(a))

FairSpec == Spec /\ Fairness

---------------------------------------------------------------------------
\* Every variable has its type; in particular what is on its way is an observation.
TypeOK ==
  /\ agent \in [Agents -> Sessions]
  /\ owed \in [Agents -> [Agents -> {"none", "asked", "promised"}]]
  /\ recheck \subseteq Agents
  /\ used \in [send : 0 .. MaxSend, start : 0 .. MaxStart]

\* A reply wait stands only while somebody asked can still answer, or a listener is about
\* to find out that nobody can: none is left to its 30-minute limit (wait.ts).  Agents
\* that were blocked or done when it began are excepted: it does not hear their turns end.
WaitIsLive ==
  \A a \in Agents :
    agent[a].tool = "reply" /\ Unanswered(a) \subseteq agent[a].on =>
      CanAnswer(a) # {} \/ a \in recheck \/ agent[a].due # {}

\* The turns of b whose outcome is to be relayed to a.
Owing(b, a) ==
  {o \in agent[b].closing \cup (IF agent[b].obs = None THEN {} ELSE {agent[b].obs}) :
     a \in o.from /\ (o.outcome = "failed" \/ a \notin o.told)}

\* What a woken turn owes its waker, who still waits to hear, stays owed until the waker
\* is told, whatever supersedes the turn, unless the turn completed without a word or,
\* after a word to the waker, failed and b's own work has b go on with it
\* (#startTurnObservation, #finishTurnObservation, relayWakeTurnOutput).
RelayStands ==
  [][\A a, b \in Agents :
       Owing(b, a) # {} /\ owed[a][b] = "asked" =>
         \/ Owing(b, a)' # {} \/ owed'[a][b] # "asked"
         \/ \E o \in Owing(b, a) :
              o.outcome = "nothing" \/ (a \in o.told /\ Settles(b))]_vars

\* Every message gets a turn, also one that came after a turn's last step or during a
\* driven run, and every woken turn's outcome reaches who asked: again and again there
\* is nothing queued and nobody who asked is owed a relay (#resumeStrandedIrcAsides).
QueuesDrain ==
  []<>(\A a \in Agents :
         /\ agent[a].box \cup agent[a].parked = {}
         /\ \A b \in Agents : owed[a][b] = "asked" => Owing(b, a) = {})

\* A reply wait does not end with "finished its turn without replying" while the agent it
\* names is about to relay that turn's outcome (wait.ts).
NoFalseStop ==
  [][\A a, b \in Agents :
       /\ Listens(a) \/ TurnHeard(a, b)
       /\ agent[a].tool = "reply" /\ agent'[a].tool = "none" /\ b \in Stopped(a)
       => \A o \in Owing(b, a) : o.outcome = "nothing"]_vars
===========================================================================
