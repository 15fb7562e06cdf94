------------------------ MODULE ServiceCompletions ------------------------
(***************************************************************************)
(* How the exit of a supervised service reaches the session that owns it:  *)
(* the launch broker's record of the service and its file (broker.ts), the *)
(* omp processes with their broker connections (client.ts), and sessions   *)
(* that subscribe, switch away and come back (services.ts).  Every session *)
(* has one service name; a run is one launch of it.                        *)
(*                                                                         *)
(* One action is one segment of a process between two awaits, one file     *)
(* written, or one line read from a socket.  Lines of one connection keep  *)
(* their order; a line not read before its reader sees the close is lost.  *)
(***************************************************************************)
EXTENDS Naturals, Sequences

CONSTANTS
  Owners,    \* session ids that own services
  Clients,   \* omp processes, each with its own completionSubscriptionId
  None,      \* no process, no session
  MaxRun,    \* bound: launches of a service
  MaxConn,   \* bound: connections that at least one side has not closed
  MaxLine,   \* bound: publishes and answers under way on a connection
  MaxFail,   \* bound: exits a session turns away
  MaxEnd,    \* bound: ends of the broker
  MaxMove,   \* bound: times a session is taken up
  Unheard,   \* whether a service is launched again while an exit of it is pending
  Overtaken, \* whether a publish is read while an earlier one of its connection waits
  SlowBroker \* whether a process may be back before the broker is done with what
             \* came on the connection it dropped: reading it, and a write to the file

ASSUME CompletionAssumption ==
  /\ MaxRun \in Nat /\ MaxConn \in Nat /\ MaxLine \in Nat
  /\ MaxFail \in Nat /\ MaxEnd \in Nat /\ MaxMove \in Nat
  /\ None \notin Owners \cup Clients
  /\ Unheard \in BOOLEAN /\ Overtaken \in BOOLEAN /\ SlowBroker \in BOOLEAN

Runs  == 1 .. MaxRun
Exits == Owners \X Runs
Conns == 1 .. MaxConn

VARIABLES
  broker,    \* "down", "up", or "closing": in shutdown()
  rec,       \* the broker's record of each service
  disk,      \* meta.json: the record as last written
  subs,      \* #completionSubscriptions: the process each owner subscribed from
  reg,       \* #ownerSockets: the connection an owner's exits are sent on, or 0
  box,       \* #pendingCompletions: the exits to be sent again
  settling,  \* the exits #settle is still saving, and those it has saved
  handling,  \* the publishes that wait for a write, in the order they wait
  conn,      \* the connections
  client,    \* the omp processes
  owed,      \* history: the exits on file, which the owner is to hear of
  used       \* how much of the bounds is used

memory  == <<rec, subs, reg, box, settling, handling>>
service == <<broker, disk, memory>>
peers   == <<conn, client>>
counts  == <<owed, used>>
vars    == <<service, peers, counts>>

Record == [run : 0 .. MaxRun, state : {"absent", "running", "stopping", "ended"},
           capable : BOOLEAN, sub : Clients \cup {None}, pend : SUBSET Runs]

NoRecord == [run |-> 0, state |-> "absent", capable |-> FALSE, sub |-> None, pend |-> {}]

NoConn == [client |-> None, near |-> FALSE, far |-> FALSE, up |-> <<>>, down |-> <<>>]

NewClient == [alive |-> TRUE, sinks |-> {}, preserved |-> {}, replays |-> {},
              sock |-> 0, want |-> FALSE, seen |-> {}, inflight |-> {}]

Init ==
  /\ broker = "down"
  /\ rec = [o \in Owners |-> NoRecord] /\ disk = rec
  /\ subs = [o \in Owners |-> None] /\ reg = [o \in Owners |-> 0]
  /\ box = {}
  /\ settling = [unsaved |-> {}, saved |-> {}]
  /\ handling = <<>>
  /\ conn = [k \in Conns |-> NoConn]
  /\ client = [c \in Clients |-> NewClient]
  /\ owed = {} /\ used = [fail |-> 0, end |-> 0, move |-> 0]

---------------------------------------------------------------------------
(* Connections.  `near` and `far` say whether the omp process and the      *)
(* broker have the connection open; `up` is read by the broker.            *)

Handlers(k) == {i \in DOMAIN handling : handling[i].conn = k}

Free(k) == ~conn[k].near /\ ~conn[k].far /\ Handlers(k) = {}

SendUp(net, k, line) ==
  IF k # 0 /\ net[k].far THEN [net EXCEPT ![k].up = Append(@, line)] ELSE net

SendDown(net, k, line) ==
  IF k # 0 /\ net[k].far THEN [net EXCEPT ![k].down = Append(@, line)] ELSE net

ExitLine(S) == [kind |-> "exits", of |-> S]

\* Every request but an acknowledgement carries the owners of its process.
PublishOf(cl) ==
  [kind |-> "publish", active |-> cl.sinks, detached |-> cl.preserved, replays |-> cl.replays]

Busy(k) == Len(conn[k].up) + Len(conn[k].down) > 0 \/ Handlers(k) # {}

Room(k) == Len(conn[k].up) + Len(conn[k].down) < MaxLine

---------------------------------------------------------------------------
(* An omp process (client.ts).                                             *)

\* #publishCompletionOwners: at once on an open socket, else as soon as there is one.
Publishes(c, cl) ==
  IF cl.sock # 0
  THEN /\ Room(cl.sock)
       /\ conn' = SendUp(conn, cl.sock, PublishOf(cl))
       /\ client' = [client EXCEPT ![c] = cl]
  ELSE /\ client' = [client EXCEPT ![c] = [cl EXCEPT !.want = TRUE]]
       /\ UNCHANGED conn

\* The broker has read all that the processes which left session o wrote of it.
\* A session is taken up elsewhere by reading its transcript first.
LeftBehind(c, o) ==
  \A k \in Conns : (conn[k].client # c /\ Busy(k)) =>
    /\ \A i \in DOMAIN conn[k].up :
         conn[k].up[i].kind = "publish" => o \notin conn[k].up[i].active
    /\ \A i \in Handlers(k) : o \notin handling[i].active \cup handling[i].waits

\* A session has one process at a time: its transcript has a single writer.
OnCompletion(c, o) ==
  /\ client[c].alive
  /\ \A d \in Clients : o \notin client[d].sinks
  /\ LeftBehind(c, o)
  /\ used.move < MaxMove
  /\ used' = [used EXCEPT !.move = @ + 1]
  /\ Publishes(c, [client[c] EXCEPT
       !.sinks = @ \cup {o}, !.preserved = @ \ {o},
       !.replays = IF o \in client[c].preserved THEN @ \cup {o} ELSE @])
  /\ UNCHANGED <<service, owed>>

\* The session is switched or disposed; its exits are kept for its return.
Unsubscribe(c, o) ==
  /\ o \in client[c].sinks
  /\ Publishes(c, [client[c] EXCEPT !.sinks = @ \ {o}, !.preserved = @ \cup {o}])
  /\ UNCHANGED <<service, counts>>

\* #connect; after a close the process waits for CONNECT_RETRY_MS.
Connect(c, k) ==
  /\ client[c].want /\ client[c].sock = 0
  /\ SlowBroker \/ \A j \in Conns : conn[j].client = c => ~conn[j].far /\ Handlers(j) = {}
  /\ broker # "down" /\ Free(k)
  /\ conn' = [conn EXCEPT ![k] = [client |-> c, near |-> TRUE, far |-> TRUE,
                                  up |-> <<PublishOf(client[c])>>, down |-> <<>>]]
  /\ client' = [client EXCEPT ![c].sock = k, ![c].want = FALSE]
  /\ UNCHANGED <<service, counts>>

\* Mutant: after a lost connection the process waits for its next request.
DroppedForGood(cl) == [cl EXCEPT !.sock = 0, !.want = FALSE]

\* The process drops its socket, and comes back if it has sinks.
Dropped(cl) == [cl EXCEPT !.sock = 0, !.want = cl.sinks # {}]

ClosedNear(net, k) ==
  IF k = 0 THEN net ELSE [net EXCEPT ![k].near = FALSE, ![k].down = <<>>]

SeesClose(c) ==
  /\ client[c].sock # 0
  /\ ~conn[client[c].sock].far
  /\ client' = [client EXCEPT ![c] = Dropped(@)]
  /\ conn' = ClosedNear(conn, client[c].sock)
  /\ UNCHANGED <<service, counts>>

\* An acknowledgement needs a socket; without one the exit comes again.
Acked(net, k, S) == IF S = {} THEN net ELSE SendUp(net, k, [kind |-> "ack", of |-> S])

Fresh(cl, S) ==
  {e \in S : e \notin cl.seen \cup cl.inflight /\ e[1] \in cl.sinks}

\* #onLine: exits for #deliverCompletion, or the answer to a publish.
ReadLine(c) ==
  LET k    == client[c].sock
      line == Head(conn[k].down)
      net  == [conn EXCEPT ![k].down = Tail(@)]
  IN  /\ k # 0
      /\ conn[k].down # <<>>
      /\ \/ /\ line.kind = "exits"
            /\ client' = [client EXCEPT ![c].inflight = @ \cup Fresh(client[c], line.of)]
            /\ conn' = Acked(net, k, line.of \cap client[c].seen)
         \/ /\ line.kind = "done"
            /\ client' = [client EXCEPT ![c].replays = @ \ (line.of \cap client[c].sinks)]
            /\ conn' = net
      /\ UNCHANGED <<service, counts>>

\* The session has taken the exit into its context.
SinkResolves(c, e) ==
  /\ e \in client[c].inflight
  /\ client' = [client EXCEPT ![c].seen = @ \cup {e}, ![c].inflight = @ \ {e}]
  /\ conn' = Acked(conn, client[c].sock, {e})
  /\ UNCHANGED <<service, counts>>

\* The session was switched or disposed, or its turn failed: the socket is dropped,
\* so that the broker sends the exit again.
SinkRejects(c, e) ==
  /\ e \in client[c].inflight
  /\ used.fail < MaxFail
  /\ used' = [used EXCEPT !.fail = @ + 1]
  /\ LET cl == [client[c] EXCEPT !.inflight = @ \ {e}]
     IN  client' = [client EXCEPT ![c] = IF cl.sock = 0 THEN cl ELSE Dropped(cl)]
  /\ conn' = ClosedNear(conn, client[c].sock)
  /\ UNCHANGED <<service, owed>>

\* The process ends; what its sessions have taken is in their transcripts.
ClientDies(c) ==
  /\ client[c].alive
  /\ client' = [client EXCEPT ![c] = [NewClient EXCEPT !.alive = FALSE, !.seen = client[c].seen]]
  /\ conn' = ClosedNear(conn, client[c].sock)
  /\ UNCHANGED <<service, counts>>

---------------------------------------------------------------------------
(* The broker's end of the connections (#accept, #handleLine).             *)

BrokerSeesClose(k) ==
  /\ conn[k].far /\ ~conn[k].near
  /\ conn' = [conn EXCEPT ![k].far = FALSE, ![k].up = <<>>]
  /\ reg' = [o \in Owners |-> IF reg[o] = k THEN 0 ELSE reg[o]]
  /\ UNCHANGED <<broker, disk, rec, subs, box, settling, handling, client, counts>>

\* The event loop gets to what a closed connection has left behind before it reads
\* from the connection that was made instead.
Arrived(k, kind) ==
  /\ conn[k].far /\ conn[k].up # <<>> /\ Head(conn[k].up).kind = kind
  /\ \A j \in Conns \ {k} : conn[j].far /\ ~conn[j].near => conn[j].up = <<>>

Rest(k) == [conn EXCEPT ![k].up = Tail(@)]

\* Only the connection an owner is registered on acknowledges its exits.
ReceiveAck(k) ==
  /\ Arrived(k, "ack")
  /\ LET heard == {e \in box \cap Head(conn[k].up).of : reg[e[1]] = k}
     IN  /\ box' = box \ heard
         /\ rec' = [o \in Owners |-> [rec[o] EXCEPT !.pend = {r \in @ : <<o, r>> \notin heard}]]
  /\ conn' = Rest(k)
  /\ UNCHANGED <<broker, disk, subs, reg, settling, handling, client, counts>>

\* #setRecordCompletionCapability has to change, and to write, the record of o.
Rebinds(c, o) ==
  /\ rec[o].state # "absent"
  /\ ~(rec[o].state = "ended" /\ rec[o].pend = {})
  /\ ~rec[o].capable \/ rec[o].sub # c

Bound(c, S) ==
  [o \in Owners |-> IF o \in S /\ Rebinds(c, o)
                    THEN [rec[o] EXCEPT !.capable = TRUE, !.sub = c] ELSE rec[o]]

\* #ownerSockets with S registered on k.  A registration on a closed socket sends
\* nothing and answers to no one: it is as good as none.
Registered(S, k) == [o \in Owners |-> IF o \notin S THEN reg[o] ELSE IF conn[k].far THEN k ELSE 0]

\* The exits of S are sent again, but for owners that were registered on k already.
Replayed(net, S, h) ==
  LET again == {e \in box : e[1] \in S /\ (reg[e[1]] # h.conn \/ e[1] \in h.replays)}
  IN  IF again = {} THEN net ELSE SendDown(net, h.conn, ExitLine(again))

\* Mutant: the publish goes on as if it waited for nothing.
BindsUpToNoWait(h, net, queue) ==
  \E w \in h.active : \E S \in SUBSET (h.active \ {w}) :
    /\ Rebinds(h.client, w)
    /\ \A o \in S : ~Rebinds(h.client, o)
    /\ subs' = [o \in Owners |-> IF o \in S \cup {w} THEN h.client ELSE subs[o]]
    /\ rec' = Bound(h.client, {w})
    /\ reg' = Registered(S \cup h.waits, h.conn)
    /\ conn' = Replayed(net, S \cup h.waits, h)
    /\ handling' = Append(queue, [h EXCEPT !.active = @ \ S, !.waits = {}, !.saved = TRUE])

\* The owners of publish h in turn, up to one whose record has to be written.
BindsUpTo(h, net, queue) ==
  \E w \in h.active : \E S \in SUBSET (h.active \ {w}) :
    /\ Rebinds(h.client, w)
    /\ \A o \in S : ~Rebinds(h.client, o)
    /\ subs' = [o \in Owners |-> IF o \in S \cup {w} THEN h.client ELSE subs[o]]
    /\ rec' = Bound(h.client, {w})
    /\ reg' = Registered(S \cup h.waits, h.conn)
    /\ conn' = Replayed(net, S \cup h.waits, h)
    /\ handling' = Append(queue, [h EXCEPT !.active = @ \ (S \cup {w}),
                                           !.waits = {w}, !.saved = FALSE])

\* Mutant: a process that left an owner takes it from the one that has it now.
BindsToEndTakesLeft(h, net, queue) ==
  LET S      == h.active \cup h.waits
      at     == Registered(S, h.conn)
      left   == h.detached
      told   == Replayed(net, S, h)
      answer == [kind |-> "done", of |-> h.replays]
  IN  /\ \A o \in h.active : ~Rebinds(h.client, o)
      /\ subs' = [o \in Owners |-> IF o \in h.active \cup left THEN h.client ELSE subs[o]]
      /\ rec' = Bound(h.client, left)
      /\ reg' = [o \in Owners |-> IF o \in left /\ at[o] # 0 /\ conn[at[o]].client = h.client
                                  THEN 0 ELSE at[o]]
      /\ conn' = IF h.replays = {} THEN told ELSE SendDown(told, h.conn, answer)
      /\ handling' = queue

\* The owners of publish h to the last, those its process has left, and the answer.
\* A process names every owner it ever subscribed, so the broker drops none.
BindsToEnd(h, net, queue) ==
  LET S      == h.active \cup h.waits
      at     == Registered(S, h.conn)
      left   == {o \in h.detached : subs[o] \in {None, h.client}}
      told   == Replayed(net, S, h)
      answer == [kind |-> "done", of |-> h.replays]
  IN  /\ \A o \in h.active : ~Rebinds(h.client, o)
      /\ subs' = [o \in Owners |-> IF o \in h.active \cup left THEN h.client ELSE subs[o]]
      /\ rec' = Bound(h.client, left)
      /\ reg' = [o \in Owners |-> IF o \in left /\ at[o] # 0 /\ conn[at[o]].client = h.client
                                  THEN 0 ELSE at[o]]
      /\ conn' = IF h.replays = {} THEN told ELSE SendDown(told, h.conn, answer)
      /\ handling' = queue

Binds(h, net, queue) ==
  /\ BindsUpTo(h, net, queue) \/ BindsToEnd(h, net, queue)
  /\ UNCHANGED <<broker, disk, box, settling, client, counts>>

ReceivePublish(k) ==
  /\ Arrived(k, "publish")
  /\ Overtaken \/ Handlers(k) = {}
  /\ LET line == Head(conn[k].up)
     IN  Binds([conn |-> k, client |-> conn[k].client, active |-> line.active, waits |-> {},
                saved |-> FALSE, detached |-> line.detached, replays |-> line.replays],
               Rest(k), handling)

\* The write a publish waited for is on file; waits for one record end in order.
Resume(i) ==
  /\ handling[i].saved
  /\ \A j \in 1 .. i - 1 : handling[j].waits # handling[i].waits
  /\ Binds(handling[i], conn, SubSeq(handling, 1, i - 1) \o SubSeq(handling, i + 1, Len(handling)))

---------------------------------------------------------------------------
(* The services of the broker.                                             *)

Of(o, S) == {e \in S : e[1] = o}

\* #persist of every change since the last write.
Save(o) ==
  /\ broker # "down"
  /\ disk[o] # rec[o] \/ Of(o, settling.unsaved) # {}
     \/ \E i \in DOMAIN handling : handling[i].waits = {o} /\ ~handling[i].saved
  /\ disk' = [disk EXCEPT ![o] = rec[o]]
  /\ settling' = [unsaved |-> settling.unsaved \ Of(o, settling.unsaved),
                  saved |-> settling.saved \cup Of(o, settling.unsaved)]
  /\ handling' = [i \in DOMAIN handling |->
                    IF handling[i].waits = {o} THEN [handling[i] EXCEPT !.saved = TRUE]
                    ELSE handling[i]]
  /\ owed' = owed \cup {<<o, r>> : r \in rec[o].pend}
  /\ UNCHANGED <<broker, rec, subs, reg, box, peers, used>>

\* A session starts its service, or starts it again: start with replace, whose
\* request has published the session's owners first.  A live service is stopped first.
Launch(o) ==
  /\ broker = "up" /\ reg[o] # 0
  /\ rec[o].state \in {"absent", "ended"} /\ rec[o].run < MaxRun
  /\ Unheard \/ rec[o].pend = {}
  /\ rec' = [rec EXCEPT ![o].run = @ + 1, ![o].state = "running",
                        ![o].capable = TRUE, ![o].sub = subs[o]]
  /\ UNCHANGED <<broker, disk, subs, reg, box, settling, handling, peers, counts>>

\* #settle of a service that was not asked to stop: no exit for an unsubscribed owner.
ExitsByItself(o) ==
  /\ broker # "down" /\ rec[o].state = "running"
  /\ LET told == IF subs[o] = None THEN {} ELSE {rec[o].run}
     IN  /\ rec' = [rec EXCEPT ![o].state = "ended", ![o].pend = @ \cup told]
         /\ settling' = [settling EXCEPT !.unsaved = @ \cup ({o} \X told)]
  /\ UNCHANGED <<broker, disk, subs, reg, box, handling, peers, counts>>

\* #notifyCompletion, after #settle has written the record.
Notify(e) ==
  /\ e \in settling.saved
  /\ settling' = [settling EXCEPT !.saved = @ \ {e}]
  /\ IF subs[e[1]] # None /\ e[2] \in rec[e[1]].pend
     THEN /\ box' = box \cup {e}
          /\ conn' = SendDown(conn, reg[e[1]], ExitLine({e}))
     ELSE UNCHANGED <<box, conn>>
  /\ UNCHANGED <<broker, disk, rec, subs, reg, handling, client, counts>>

\* #stopRecord, and the #settle that ends it: nobody is told of an exit asked for.
StopService(o) ==
  /\ broker # "down" /\ rec[o].state = "running"
  /\ rec' = [rec EXCEPT ![o].state = "stopping"]
  /\ UNCHANGED <<broker, disk, subs, reg, box, settling, handling, peers, counts>>

StoppedExits(o) ==
  /\ broker # "down" /\ rec[o].state = "stopping"
  /\ rec' = [rec EXCEPT ![o].state = "ended"]
  /\ UNCHANGED <<broker, disk, subs, reg, box, settling, handling, peers, counts>>

---------------------------------------------------------------------------
(* The broker starts and ends.                                             *)

\* Mutant: a service found running is dead, and that is all.
RecoveredSilently(m) == [m EXCEPT !.state = IF @ = "absent" THEN @ ELSE "ended"]

\* #recoverRecords: a service found running is dead, and its exit is made up for.
Recovered(m) ==
  [m EXCEPT !.state = IF @ = "absent" THEN @ ELSE "ended",
            !.pend = IF m.state = "running" /\ m.capable /\ m.pend = {} THEN {m.run} ELSE @]

BrokerStarts ==
  /\ broker = "down"
  /\ \E c \in Clients : client[c].want /\ client[c].sock = 0
  /\ broker' = "up"
  /\ rec' = [o \in Owners |-> Recovered(disk[o])]
  /\ subs' = [o \in Owners |-> IF rec'[o].capable /\ rec'[o].pend # {} THEN rec'[o].sub ELSE None]
  /\ box' = {e \in Exits : rec'[e[1]].capable /\ e[2] \in rec'[e[1]].pend}
  /\ UNCHANGED <<disk, reg, settling, handling, peers, counts>>

\* The broker's memory and its sockets are gone.
Gone ==
  /\ broker' = "down"
  /\ rec' = [o \in Owners |-> NoRecord]
  /\ subs' = [o \in Owners |-> None] /\ reg' = [o \in Owners |-> 0]
  /\ box' = {} /\ settling' = [unsaved |-> {}, saved |-> {}] /\ handling' = <<>>
  /\ conn' = [k \in Conns |-> [conn[k] EXCEPT !.far = FALSE, !.up = <<>>]]
  /\ UNCHANGED <<disk, client>>

\* The socket file is gone, or nobody uses the broker: shutdown() stops every service.
Shutdown ==
  /\ broker = "up" /\ used.end < MaxEnd
  /\ broker' = "closing"
  /\ used' = [used EXCEPT !.end = @ + 1]
  /\ UNCHANGED <<disk, memory, peers, owed>>

ShutdownEnds ==
  /\ broker = "closing"
  /\ disk = rec /\ \A o \in Owners : rec[o].state \in {"absent", "ended"}
  /\ Gone
  /\ UNCHANGED counts

\* A service on file as running dies with the broker, and its owner is to hear of it.
BrokerCrashes ==
  /\ broker # "down" /\ used.end < MaxEnd
  /\ used' = [used EXCEPT !.end = @ + 1]
  /\ owed' = owed \cup {<<o, disk[o].run>> : o \in {p \in Owners : disk[p].state = "running" /\ disk[p].capable}}
  /\ Gone

---------------------------------------------------------------------------

ClientStep(c) ==
  \/ \E o \in Owners : OnCompletion(c, o) \/ Unsubscribe(c, o)
  \/ \E k \in Conns : Connect(c, k)
  \/ \E e \in Exits : SinkResolves(c, e) \/ SinkRejects(c, e)
  \/ SeesClose(c) \/ ReadLine(c) \/ ClientDies(c)

Next ==
  \/ \E c \in Clients : ClientStep(c)
  \/ \E k \in Conns : BrokerSeesClose(k) \/ ReceiveAck(k) \/ ReceivePublish(k)
  \/ \E i \in DOMAIN handling : Resume(i)
  \/ \E o \in Owners : Save(o) \/ Launch(o) \/ ExitsByItself(o) \/ StopService(o) \/ StoppedExits(o)
  \/ \E e \in Exits : Notify(e)
  \/ BrokerStarts \/ Shutdown \/ ShutdownEnds \/ BrokerCrashes

Spec == Init /\ [][Next]_vars

\* What runs of its own accord: event loops, file writes, signalled processes, and a
\* session that takes what it is handed.  Nothing makes a session come back, a service
\* exit by itself, or a process or broker end.
Progress ==
  \/ BrokerStarts \/ ShutdownEnds
  \/ \E i \in DOMAIN handling : Resume(i)
  \/ \E k \in Conns : BrokerSeesClose(k) \/ ReceiveAck(k) \/ ReceivePublish(k)
  \/ \E o \in Owners : \/ Save(o) \/ StoppedExits(o)
                       \/ broker = "closing" /\ StopService(o)
  \/ \E e \in Exits : Notify(e)
  \/ \E c \in Clients :
       \/ \E k \in Conns : Connect(c, k)
       \/ SeesClose(c) \/ ReadLine(c)
       \/ \E e \in Exits : SinkResolves(c, e) \/ SinkRejects(c, e)

\* Some of it goes on as long as any of it can.
Fairness == WF_vars(Progress)

FairSpec == Spec /\ Fairness

---------------------------------------------------------------------------
(* Properties.                                                             *)

\* The state is of its type.
TypeOK ==
  /\ broker \in {"down", "up", "closing"}
  /\ rec \in [Owners -> Record] /\ disk \in [Owners -> Record]
  /\ subs \in [Owners -> Clients \cup {None}]
  /\ reg \in [Owners -> 0 .. MaxConn]
  /\ box \subseteq Exits
  /\ settling.unsaved \subseteq Exits /\ settling.saved \subseteq Exits
  /\ \A i \in DOMAIN handling :
       /\ handling[i].conn \in Conns
       /\ handling[i].active \subseteq Owners /\ handling[i].detached \subseteq Owners
       /\ \E o \in Owners : handling[i].waits = {o}
  /\ \A k \in Conns : conn[k].client \in Clients \cup {None} /\ conn[k].near \in BOOLEAN
                      /\ conn[k].far \in BOOLEAN
  /\ \A c \in Clients : client[c].sinks \subseteq Owners /\ client[c].preserved \subseteq Owners
                        /\ client[c].seen \subseteq Exits /\ client[c].sock \in 0 .. MaxConn
  /\ owed \subseteq Exits

Heard(e) == \E c \in Clients : e \in client[c].seen

\* The next broker makes this exit out of the file.
OnFile(e) == LET m == Recovered(disk[e[1]]) IN m.capable /\ e[2] \in m.pend

\* The broker will send this exit as long as it is not acknowledged.
InHand(e) == e[2] \in rec[e[1]].pend /\ e \in box \cup settling.unsaved \cup settling.saved

\* An exit the owner is to hear of is never lost: a session has taken it, or the
\* broker will send it, or it can be had from the file by the next broker.
NothingLost ==
  \A e \in owed : Heard(e) \/ (IF broker = "down" THEN OnFile(e) ELSE InHand(e))

\* Whenever nothing is under way between a process and the broker, the exits of every
\* session the process holds are sent to it: no late end of an earlier publish, and no
\* process that held the session before, has left the owner without its connection.
StaysRegistered ==
  \A c \in Clients : \A o \in client[c].sinks :
    LET k == client[c].sock
    IN  (k # 0 /\ conn[k].far /\ ~Busy(k)) => reg[o] = k /\ subs[o] = c

\* An exit the owner is to hear of reaches it, unless no process has the session.
ExitsArrive ==
  \A e \in Exits :
    (e \in owed) ~> (Heard(e) \/ \A c \in Clients : e[1] \notin client[c].sinks)

===========================================================================
