--------------------- MODULE ServiceCompletionsProofs ---------------------
(***************************************************************************)
(* Proofs about the exits of a session's services (ServiceCompletions).    *)
(* One inductive invariant, CompletionInv, relates the broker's records,   *)
(* the file they are written to, the outbox and the exits being settled,   *)
(* the subscriptions, the publishes at hand and the lines of every         *)
(* connection.  TypeOK and NothingLost follow from it.  The argument for   *)
(* NothingLost: an exit leaves a record only when the broker reads an      *)
(* acknowledgement, and a line that acknowledges an exit is written only   *)
(* by a process that has taken the exit in (UpLines(HeardOf)), so what is  *)
(* no longer on file has been heard.                                       *)
(***************************************************************************)
EXTENDS ServiceCompletions, SequenceTheorems, TLAPS

\* The lines of a connection, those up acknowledging exits of H.
UpLines(H) ==
  [kind : {"publish"}, active : SUBSET Owners, detached : SUBSET Owners, replays : SUBSET Owners]
    \cup [kind : {"ack"}, of : SUBSET H]
DownLines == [kind : {"exits"}, of : SUBSET Exits] \cup [kind : {"done"}, of : SUBSET Owners]

ConnRecords(H) == [client : Clients \cup {None}, near : BOOLEAN, far : BOOLEAN,
                   up : Seq(UpLines(H)), down : Seq(DownLines)]

\* The connections, on which no exit is acknowledged but those of H; the broker knows
\* whose each of them is.
Net(n, H) ==
  /\ n \in [Conns -> ConnRecords(H)]
  /\ \A k \in Conns : n[k].far => n[k].client \in Clients

ClientRecords == [alive : BOOLEAN, sinks : SUBSET Owners, preserved : SUBSET Owners,
                  replays : SUBSET Owners, sock : 0 .. MaxConn, want : BOOLEAN,
                  seen : SUBSET Exits, inflight : SUBSET Exits]

\* A publish at hand, which waits for none of the records but those of W
Publish(W) == [conn : Conns, client : Clients, active : SUBSET Owners, waits : W,
               saved : BOOLEAN, detached : SUBSET Owners, replays : SUBSET Owners]

\* Exits a session has taken in, and owners some process has subscribed
HeardOf    == {e \in Exits : Heard(e)}
Subscribed == {o \in Owners : subs[o] # None}
OneOf(S)   == {{o} : o \in S}

\* Values.
Typed ==
  /\ broker \in {"down", "up", "closing"}
  /\ rec \in [Owners -> Record] /\ disk \in [Owners -> Record]
  /\ subs \in [Owners -> Clients \cup {None}]
  /\ reg \in [Owners -> 0 .. MaxConn]
  /\ box \subseteq Exits
  /\ settling \in [unsaved : SUBSET Exits, saved : SUBSET Exits]
  /\ client \in [Clients -> ClientRecords]
  /\ owed \subseteq Exits

\* A record: what runs, or has an exit pending, has a process to tell, and unless a
\* service is launched over a pending exit only one that ended has one.
Sound(m) ==
  /\ m.state # "absent" => m.run \in Runs
  /\ m.pend # {} \/ m.state = "running" => m.capable
  /\ m.capable => m.sub \in Clients
  /\ ~Unheard /\ m.state \in {"running", "stopping"} => m.pend = {}

\* Publishes wait for records of subscribed owners, and an owner with a connection or
\* with an exit pending is subscribed.
Held ==
  /\ handling \in Seq(Publish(OneOf(Subscribed)))
  /\ \A o \in Owners : reg[o] # 0 \/ rec[o].pend # {} => o \in Subscribed

\* A broker that is down knows nothing but the file.
Down ==
  broker = "down" => /\ \A o \in Owners : reg[o] = 0 /\ rec[o] = NoRecord
                     /\ \A k \in Conns : ~conn[k].far
                     /\ handling = <<>>

\* A pending exit is in the outbox, or on its way to it.
Kept == broker # "down" =>
  \A o \in Owners : \A r \in rec[o].pend : <<o, r>> \in box \cup settling.unsaved \cup settling.saved

\* An exit owed is heard, or on file and, while there is a broker, in its record.
Owing == ~Unheard =>
  \A e \in owed : Heard(e) \/ (OnFile(e) /\ (broker # "down" => e[2] \in rec[e[1]].pend))

CompletionInv ==
  /\ Typed /\ Net(conn, HeardOf) /\ Held /\ Down /\ Kept /\ Owing
  /\ \A o \in Owners : Sound(rec[o]) /\ Sound(disk[o])

---------------------------------------------------------------------------
(* Connections.                                                            *)

LEMMA MoreHeard ==
  ASSUME NEW H, NEW I, H \subseteq I, NEW n, Net(n, H) PROVE Net(n, I)
<1>1. UpLines(H) \subseteq UpLines(I)
  BY DEF UpLines
<1>2. \A s \in Seq(UpLines(H)) : s \in Seq(UpLines(I))
  BY <1>1, SeqMonotonic
<1>3. ConnRecords(H) \subseteq ConnRecords(I)
  BY <1>2 DEF ConnRecords
<1> QED BY <1>3 DEF Net

\* Nets with the same connections open
SameEnds(n, m) == \A k \in Conns : n[k].far = m[k].far /\ n[k].client = m[k].client

LEMMA SendUpNet ==
  ASSUME NEW H, NEW n, Net(n, H), NEW k \in 0 .. MaxConn, NEW l \in UpLines(H)
  PROVE Net(SendUp(n, k, l), H) /\ SameEnds(SendUp(n, k, l), n)
<1>1. CASE k # 0 /\ n[k].far
  <2>1. k \in Conns
    BY <1>1 DEF Conns
  <2>2. n[k] \in ConnRecords(H)
    BY <2>1 DEF Net
  <2>3. Append(n[k].up, l) \in Seq(UpLines(H))
    BY <2>2 DEF ConnRecords
  <2> DEFINE r == [n[k] EXCEPT !.up = Append(n[k].up, l)]
  <2>4. r \in ConnRecords(H) /\ r.far = n[k].far /\ r.client = n[k].client
    BY <2>2, <2>3 DEF ConnRecords
  <2>5. SendUp(n, k, l) = [n EXCEPT ![k] = r]
    BY <1>1 DEF SendUp
  <2> HIDE DEF r
  <2> QED BY <2>1, <2>4, <2>5 DEF Net, SameEnds
<1>2. CASE ~(k # 0 /\ n[k].far)
  BY <1>2 DEF SendUp, SameEnds
<1> QED BY <1>1, <1>2

LEMMA SendDownNet ==
  ASSUME NEW H, NEW n, Net(n, H), NEW k \in 0 .. MaxConn, NEW l \in DownLines
  PROVE Net(SendDown(n, k, l), H) /\ SameEnds(SendDown(n, k, l), n)
<1>1. CASE k # 0 /\ n[k].far
  <2>1. k \in Conns
    BY <1>1 DEF Conns
  <2>2. n[k] \in ConnRecords(H)
    BY <2>1 DEF Net
  <2>3. Append(n[k].down, l) \in Seq(DownLines)
    BY <2>2 DEF ConnRecords
  <2> DEFINE r == [n[k] EXCEPT !.down = Append(n[k].down, l)]
  <2>4. r \in ConnRecords(H) /\ r.far = n[k].far /\ r.client = n[k].client
    BY <2>2, <2>3 DEF ConnRecords
  <2>5. SendDown(n, k, l) = [n EXCEPT ![k] = r]
    BY <1>1 DEF SendDown
  <2> HIDE DEF r
  <2> QED BY <2>1, <2>4, <2>5 DEF Net, SameEnds
<1>2. CASE ~(k # 0 /\ n[k].far)
  BY <1>2 DEF SendDown, SameEnds
<1> QED BY <1>1, <1>2

LEMMA ClosedNearNet ==
  ASSUME NEW H, NEW n, Net(n, H), NEW k \in 0 .. MaxConn
  PROVE Net(ClosedNear(n, k), H) /\ SameEnds(ClosedNear(n, k), n)
<1>1. CASE k # 0
  <2>1. k \in Conns
    BY <1>1 DEF Conns
  <2>2. n[k] \in ConnRecords(H)
    BY <2>1 DEF Net
  <2> DEFINE r == [n[k] EXCEPT !.near = FALSE, !.down = <<>>]
  <2>4. r \in ConnRecords(H) /\ r.far = n[k].far /\ r.client = n[k].client
    BY <2>2, EmptySeq DEF ConnRecords
  <2>5. ClosedNear(n, k) = [n EXCEPT ![k] = r]
    BY <1>1 DEF ClosedNear
  <2> HIDE DEF r
  <2> QED BY <2>1, <2>4, <2>5 DEF Net, SameEnds
<1>2. CASE k = 0
  BY <1>2 DEF ClosedNear, SameEnds
<1> QED BY <1>1, <1>2

LEMMA TailUpNet ==
  ASSUME NEW H, NEW n, Net(n, H), NEW k \in Conns, n[k].up # <<>>
  PROVE LET m == [n EXCEPT ![k].up = Tail(@)]
        IN  /\ Net(m, H) /\ SameEnds(m, n) /\ Head(n[k].up) \in UpLines(H)
<1> DEFINE r == [n[k] EXCEPT !.up = Tail(n[k].up)]
<1>1. n[k] \in ConnRecords(H)
  BY DEF Net
<1>2. Tail(n[k].up) \in Seq(UpLines(H)) /\ Head(n[k].up) \in UpLines(H)
  BY <1>1, HeadTailProperties DEF ConnRecords
<1>3. r \in ConnRecords(H) /\ r.far = n[k].far /\ r.client = n[k].client
  BY <1>1, <1>2 DEF ConnRecords
<1>4. [n EXCEPT ![k].up = Tail(@)] = [n EXCEPT ![k] = r]
  OBVIOUS
<1> HIDE DEF r
<1> QED BY <1>2, <1>3, <1>4 DEF Net, SameEnds

LEMMA TailDownNet ==
  ASSUME NEW H, NEW n, Net(n, H), NEW k \in Conns, n[k].down # <<>>
  PROVE LET m == [n EXCEPT ![k].down = Tail(@)]
        IN  /\ Net(m, H) /\ SameEnds(m, n) /\ Head(n[k].down) \in DownLines
<1> DEFINE r == [n[k] EXCEPT !.down = Tail(n[k].down)]
<1>1. n[k] \in ConnRecords(H)
  BY DEF Net
<1>2. Tail(n[k].down) \in Seq(DownLines) /\ Head(n[k].down) \in DownLines
  BY <1>1, HeadTailProperties DEF ConnRecords
<1>3. r \in ConnRecords(H) /\ r.far = n[k].far /\ r.client = n[k].client
  BY <1>1, <1>2 DEF ConnRecords
<1>4. [n EXCEPT ![k].down = Tail(@)] = [n EXCEPT ![k] = r]
  OBVIOUS
<1> HIDE DEF r
<1> QED BY <1>2, <1>3, <1>4 DEF Net, SameEnds

LEMMA AckedNet ==
  ASSUME NEW H, NEW n, Net(n, H), NEW k \in 0 .. MaxConn, NEW S \in SUBSET H
  PROVE Net(Acked(n, k, S), H) /\ SameEnds(Acked(n, k, S), n)
<1>1. [kind |-> "ack", of |-> S] \in UpLines(H)
  BY DEF UpLines
<1>2. CASE S = {}
  BY <1>2 DEF Acked, SameEnds
<1>3. CASE S # {}
  BY <1>1, <1>3, SendUpNet DEF Acked
<1> QED BY <1>2, <1>3

---------------------------------------------------------------------------
(* Steps of an omp process.                                                *)

\* What they leave of the invariant to show.
ClientMoves ==
  /\ Net(conn', HeardOf') /\ HeardOf \subseteq HeardOf'
  /\ client' \in [Clients -> ClientRecords]
  /\ \A k \in Conns : conn'[k].far => conn[k].far \/ broker # "down"

LEMMA ClientMoveInv ==
  ASSUME CompletionInv, ClientMoves, UNCHANGED <<service, owed>> PROVE CompletionInv'
<1>1. Typed'
  BY DEF CompletionInv, ClientMoves, Typed, service, memory
<1>2. Held'
  BY DEF CompletionInv, Held, Subscribed, service, memory
<1>3. Down' /\ Kept'
  BY DEF CompletionInv, ClientMoves, Down, Kept, service, memory
<1>4. Owing'
  BY DEF CompletionInv, ClientMoves, Typed, HeardOf, Owing, OnFile, service, memory
<1> QED BY <1>1, <1>2, <1>3, <1>4 DEF CompletionInv, ClientMoves, service, memory

LEMMA ConnRange ==
  /\ 0 \in 0 .. MaxConn /\ Conns \subseteq 0 .. MaxConn
  /\ \A k \in 0 .. MaxConn : k # 0 => k \in Conns
BY CompletionAssumption DEF Conns

LEMMA SockWant ==
  ASSUME NEW r \in ClientRecords, NEW k \in 0 .. MaxConn, NEW b \in BOOLEAN
  PROVE LET s == [r EXCEPT !.sock = k, !.want = b]
        IN  s \in ClientRecords /\ s.seen = r.seen
BY DEF ClientRecords

LEMMA DroppedRecord ==
  ASSUME NEW r \in ClientRecords
  PROVE Dropped(r) \in ClientRecords /\ Dropped(r).seen = r.seen
<1>1. (r.sinks # {}) \in BOOLEAN
  OBVIOUS
<1> QED BY <1>1, SockWant, ConnRange DEF Dropped

LEMMA OneClient ==
  ASSUME Typed, NEW c \in Clients, NEW cl \in ClientRecords, client[c].seen \subseteq cl.seen,
         client' = [client EXCEPT ![c] = cl]
  PROVE client' \in [Clients -> ClientRecords] /\ HeardOf \subseteq HeardOf'
BY DEF Typed, HeardOf, Heard

\* One process changes, and the connections as lines are sent and sockets closed.
LEMMA OneClientMoves ==
  ASSUME CompletionInv, NEW c \in Clients, NEW cl \in ClientRecords, client[c].seen \subseteq cl.seen,
         client' = [client EXCEPT ![c] = cl], Net(conn', HeardOf'), SameEnds(conn', conn)
  PROVE ClientMoves
<1>1. client' \in [Clients -> ClientRecords] /\ HeardOf \subseteq HeardOf'
  BY OneClient DEF CompletionInv
<1> QED BY <1>1 DEF ClientMoves, SameEnds

LEMMA SameNet ==
  ASSUME CompletionInv, NEW c \in Clients, NEW cl \in ClientRecords, client[c].seen \subseteq cl.seen,
         client' = [client EXCEPT ![c] = cl]
  PROVE Net(conn, HeardOf')
<1>1. HeardOf \subseteq HeardOf'
  BY OneClient DEF CompletionInv
<1> QED BY <1>1, MoreHeard DEF CompletionInv

LEMMA PublishesMoves ==
  ASSUME CompletionInv, NEW c \in Clients, NEW cl \in ClientRecords, cl.seen = client[c].seen,
         Publishes(c, cl)
  PROVE ClientMoves
<1>1. CASE cl.sock # 0
  <2>1. PublishOf(cl) \in UpLines(HeardOf')
    BY DEF PublishOf, UpLines, ClientRecords
  <2>2. conn' = SendUp(conn, cl.sock, PublishOf(cl)) /\ client' = [client EXCEPT ![c] = cl]
    BY <1>1 DEF Publishes
  <2>3. Net(conn, HeardOf')
    BY <2>2, SameNet
  <2>4. cl.sock \in 0 .. MaxConn
    BY DEF ClientRecords
  <2>5. Net(conn', HeardOf') /\ SameEnds(conn', conn)
    BY <2>1, <2>2, <2>3, <2>4, SendUpNet
  <2> QED BY <2>2, <2>5, OneClientMoves
<1>2. CASE cl.sock = 0
  <2> DEFINE cm == [cl EXCEPT !.want = TRUE]
  <2>1. cm \in ClientRecords /\ cm.seen = client[c].seen
    BY DEF ClientRecords
  <2>2. client' = [client EXCEPT ![c] = cm] /\ UNCHANGED conn
    BY <1>2 DEF Publishes
  <2> HIDE DEF cm
  <2>3. Net(conn', HeardOf')
    BY <2>1, <2>2, SameNet
  <2> QED BY <2>1, <2>2, <2>3, OneClientMoves DEF SameEnds
<1> QED BY <1>1, <1>2

LEMMA OnCompletionStep ==
  ASSUME CompletionInv, NEW c \in Clients, NEW o \in Owners, OnCompletion(c, o)
  PROVE CompletionInv'
<1> DEFINE cl == [client[c] EXCEPT
       !.sinks = @ \cup {o}, !.preserved = @ \ {o},
       !.replays = IF o \in client[c].preserved THEN @ \cup {o} ELSE @]
<1>1. cl \in ClientRecords /\ cl.seen = client[c].seen
  BY DEF CompletionInv, Typed, ClientRecords
<1>2. Publishes(c, cl) /\ UNCHANGED <<service, owed>>
  BY DEF OnCompletion
<1> QED BY <1>1, <1>2, PublishesMoves, ClientMoveInv

LEMMA UnsubscribeStep ==
  ASSUME CompletionInv, NEW c \in Clients, NEW o \in Owners, Unsubscribe(c, o)
  PROVE CompletionInv'
<1> DEFINE cl == [client[c] EXCEPT !.sinks = @ \ {o}, !.preserved = @ \cup {o}]
<1>1. cl \in ClientRecords /\ cl.seen = client[c].seen
  BY DEF CompletionInv, Typed, ClientRecords
<1>2. Publishes(c, cl) /\ UNCHANGED <<service, owed>>
  BY DEF Unsubscribe, counts
<1> QED BY <1>1, <1>2, PublishesMoves, ClientMoveInv

LEMMA ConnectStep ==
  ASSUME CompletionInv, NEW c \in Clients, NEW k \in Conns, Connect(c, k)
  PROVE CompletionInv'
<1> DEFINE cl == [client[c] EXCEPT !.sock = k, !.want = FALSE]
           r  == [client |-> c, near |-> TRUE, far |-> TRUE, up |-> <<PublishOf(client[c])>>,
                  down |-> <<>>]
<1>1. client[c] \in ClientRecords
  BY DEF CompletionInv, Typed
<1>2. cl \in ClientRecords /\ cl.seen = client[c].seen
  BY <1>1, SockWant, ConnRange
<1>3. client' = [client EXCEPT ![c] = cl] /\ conn' = [conn EXCEPT ![k] = r]
  BY <1>1 DEF Connect
<1>4. PublishOf(client[c]) \in UpLines(HeardOf')
  BY <1>1 DEF PublishOf, UpLines, ClientRecords
<1>5. <<PublishOf(client[c])>> \in Seq(UpLines(HeardOf')) /\ <<>> \in Seq(DownLines)
  BY <1>4
<1>6. r \in ConnRecords(HeardOf') /\ r.client \in Clients
  BY <1>5 DEF ConnRecords
<1>7. client' \in [Clients -> ClientRecords] /\ HeardOf \subseteq HeardOf'
  <2> HIDE DEF cl
  <2> QED BY <1>2, <1>3, OneClient DEF CompletionInv
<1>8. Net(conn, HeardOf')
  BY <1>7, MoreHeard DEF CompletionInv
<1> HIDE DEF r, cl
<1>9. Net(conn', HeardOf')
  BY <1>3, <1>6, <1>8 DEF Net
<1>10. \A j \in Conns : conn'[j].far => conn[j].far \/ broker # "down"
  BY <1>3 DEF Connect
<1> QED BY <1>7, <1>9, <1>10, ClientMoveInv DEF ClientMoves, Connect, counts

LEMMA SeesCloseStep ==
  ASSUME CompletionInv, NEW c \in Clients, SeesClose(c)
  PROVE CompletionInv'
<1> DEFINE cl == Dropped(client[c])
<1>1. client[c] \in ClientRecords
  BY DEF CompletionInv, Typed
<1>2. cl \in ClientRecords /\ cl.seen = client[c].seen
  BY <1>1, DroppedRecord
<1>3. client' = [client EXCEPT ![c] = cl] /\ conn' = ClosedNear(conn, client[c].sock)
  BY DEF SeesClose
<1> HIDE DEF cl
<1>4. Net(conn, HeardOf')
  BY <1>2, <1>3, SameNet
<1>5. client[c].sock \in 0 .. MaxConn
  BY <1>1 DEF ClientRecords
<1>6. Net(conn', HeardOf') /\ SameEnds(conn', conn)
  BY <1>3, <1>4, <1>5, ClosedNearNet
<1> QED BY <1>2, <1>3, <1>6, OneClientMoves, ClientMoveInv DEF SeesClose, counts

LEMMA SinkResolvesStep ==
  ASSUME CompletionInv, NEW c \in Clients, NEW e \in Exits, SinkResolves(c, e)
  PROVE CompletionInv'
<1> DEFINE cl == [client[c] EXCEPT !.seen = @ \cup {e}, !.inflight = @ \ {e}]
<1>1. client[c] \in ClientRecords
  BY DEF CompletionInv, Typed
<1>2. cl \in ClientRecords /\ client[c].seen \subseteq cl.seen /\ e \in cl.seen
  BY <1>1 DEF ClientRecords
<1>3. client' = [client EXCEPT ![c] = cl] /\ conn' = Acked(conn, client[c].sock, {e})
  BY DEF SinkResolves
<1> HIDE DEF cl
<1>4. Net(conn, HeardOf')
  BY <1>2, <1>3, SameNet
<1>5. client[c].sock \in 0 .. MaxConn
  BY <1>1 DEF ClientRecords
<1>6. {e} \in SUBSET HeardOf'
  BY <1>2, <1>3 DEF HeardOf, Heard, CompletionInv, Typed
<1>7. Net(conn', HeardOf') /\ SameEnds(conn', conn)
  BY <1>3, <1>4, <1>5, <1>6, AckedNet
<1> QED BY <1>2, <1>3, <1>7, OneClientMoves, ClientMoveInv DEF SinkResolves, counts

LEMMA SinkRejectsStep ==
  ASSUME CompletionInv, NEW c \in Clients, NEW e \in Exits, SinkRejects(c, e)
  PROVE CompletionInv'
<1> DEFINE cm == [client[c] EXCEPT !.inflight = @ \ {e}]
           cl == IF cm.sock = 0 THEN cm ELSE Dropped(cm)
<1>1. client[c] \in ClientRecords
  BY DEF CompletionInv, Typed
<1>2. cl \in ClientRecords /\ cl.seen = client[c].seen
  <2>1. cm \in ClientRecords /\ cm.seen = client[c].seen
    BY <1>1 DEF ClientRecords
  <2> HIDE DEF cm
  <2> QED BY <2>1, DroppedRecord
<1>3. client' = [client EXCEPT ![c] = cl] /\ conn' = ClosedNear(conn, client[c].sock)
  BY DEF SinkRejects
<1> HIDE DEF cl
<1>4. Net(conn, HeardOf')
  BY <1>2, <1>3, SameNet
<1>5. client[c].sock \in 0 .. MaxConn
  BY <1>1 DEF ClientRecords
<1>6. Net(conn', HeardOf') /\ SameEnds(conn', conn)
  BY <1>3, <1>4, <1>5, ClosedNearNet
<1> QED BY <1>2, <1>3, <1>6, OneClientMoves, ClientMoveInv DEF SinkRejects

LEMMA ClientDiesStep ==
  ASSUME CompletionInv, NEW c \in Clients, ClientDies(c)
  PROVE CompletionInv'
<1> DEFINE cl == [NewClient EXCEPT !.alive = FALSE, !.seen = client[c].seen]
<1>1. client[c] \in ClientRecords
  BY DEF CompletionInv, Typed
<1>2. cl \in ClientRecords /\ cl.seen = client[c].seen
  BY <1>1, ConnRange DEF ClientRecords, NewClient
<1>3. client' = [client EXCEPT ![c] = cl] /\ conn' = ClosedNear(conn, client[c].sock)
  BY DEF ClientDies
<1> HIDE DEF cl
<1>4. Net(conn, HeardOf')
  BY <1>2, <1>3, SameNet
<1>5. client[c].sock \in 0 .. MaxConn
  BY <1>1 DEF ClientRecords
<1>6. Net(conn', HeardOf') /\ SameEnds(conn', conn)
  BY <1>3, <1>4, <1>5, ClosedNearNet
<1> QED BY <1>2, <1>3, <1>6, OneClientMoves, ClientMoveInv DEF ClientDies, counts

LEMMA ReadLineStep ==
  ASSUME CompletionInv, NEW c \in Clients, ReadLine(c)
  PROVE CompletionInv'
<1> DEFINE k    == client[c].sock
           line == Head(conn[k].down)
           net  == [conn EXCEPT ![k].down = Tail(@)]
<1>1. client[c] \in ClientRecords
  BY DEF CompletionInv, Typed
<1>2. k \in Conns /\ conn[k].down # <<>>
  BY <1>1, ConnRange DEF ReadLine, ClientRecords
<1>3. UNCHANGED <<service, owed>>
  BY DEF ReadLine, counts
<1>4. CASE line.kind = "exits" /\ client' = [client EXCEPT ![c].inflight = @ \cup Fresh(client[c], line.of)]
           /\ conn' = Acked(net, k, line.of \cap client[c].seen)
  <2> DEFINE cl == [client[c] EXCEPT !.inflight = @ \cup Fresh(client[c], line.of)]
  <2>1. line \in DownLines
    BY <1>2, TailDownNet DEF CompletionInv
  <2>2. line.of \subseteq Exits
    BY <1>4, <2>1 DEF DownLines
  <2>3. cl \in ClientRecords /\ cl.seen = client[c].seen /\ client' = [client EXCEPT ![c] = cl]
    BY <1>1, <1>4, <2>2 DEF ClientRecords, Fresh
  <2> HIDE DEF cl
  <2>4. Net(conn, HeardOf')
    BY <2>3, SameNet
  <2>5. Net(net, HeardOf') /\ SameEnds(net, conn)
    BY <1>2, <2>4, TailDownNet
  <2>6. line.of \cap client[c].seen \in SUBSET HeardOf'
    BY <2>2, <2>3 DEF HeardOf, Heard, CompletionInv, Typed
  <2>7. k \in 0 .. MaxConn
    BY <1>1 DEF ClientRecords
  <2> HIDE DEF k, net, line
  <2>8. Net(conn', HeardOf') /\ SameEnds(conn', net)
    BY <1>4, <2>5, <2>6, <2>7, AckedNet
  <2> QED BY <1>3, <2>3, <2>5, <2>8, OneClientMoves, ClientMoveInv DEF SameEnds
<1>5. CASE client' = [client EXCEPT ![c].replays = @ \ (line.of \cap client[c].sinks)] /\ conn' = net
  <2> DEFINE cl == [client[c] EXCEPT !.replays = @ \ (line.of \cap client[c].sinks)]
  <2>1. cl \in ClientRecords /\ cl.seen = client[c].seen /\ client' = [client EXCEPT ![c] = cl]
    BY <1>1, <1>5 DEF ClientRecords
  <2> HIDE DEF cl
  <2>2. Net(conn, HeardOf')
    BY <2>1, SameNet
  <2>3. Net(net, HeardOf') /\ SameEnds(net, conn)
    BY <1>2, <2>2, TailDownNet
  <2> QED BY <1>3, <1>5, <2>1, <2>3, OneClientMoves, ClientMoveInv
<1> QED BY <1>4, <1>5 DEF ReadLine

---------------------------------------------------------------------------
(* Steps of the broker's services.                                         *)

\* What the broker's steps without a line leave alone.
LEMMA SameClients ==
  ASSUME CompletionInv, UNCHANGED client PROVE HeardOf' = HeardOf /\ \A e : Heard(e)' <=> Heard(e)
BY DEF HeardOf, Heard

LEMMA RecordMoves ==
  ASSUME CompletionInv, NEW o \in Owners, NEW m \in Record, Sound(m),
         rec' = [rec EXCEPT ![o] = m], broker # "down",
         m.pend # {} => o \in Subscribed,
         settling' \in [unsaved : SUBSET Exits, saved : SUBSET Exits],
         \A r \in m.pend : <<o, r>> \in box \cup settling'.unsaved \cup settling'.saved,
         settling.unsaved \subseteq settling'.unsaved, settling.saved = settling'.saved,
         rec[o].pend \subseteq m.pend,
         UNCHANGED <<broker, disk, subs, reg, box, handling, conn, client, owed>>
  PROVE CompletionInv'
<1>1. \A p \in Owners : rec'[p] = IF p = o THEN m ELSE rec[p]
  BY DEF CompletionInv, Typed
<1>2. Typed'
  <2>1. rec' \in [Owners -> Record]
    BY DEF CompletionInv, Typed
  <2> QED BY <2>1 DEF CompletionInv, Typed
<1>3. Net(conn', HeardOf') /\ Held'
  BY <1>1, SameClients DEF CompletionInv, Held, Subscribed
<1>4. Down' /\ Kept'
  BY <1>1 DEF CompletionInv, Down, Kept
<1>5. Owing'
  BY <1>1, SameClients DEF CompletionInv, Typed, Exits, Owing, OnFile
<1>6. \A p \in Owners : Sound(rec'[p]) /\ Sound(disk'[p])
  BY <1>1 DEF CompletionInv
<1> QED BY <1>2, <1>3, <1>4, <1>5, <1>6 DEF CompletionInv

LEMMA OneRecord ==
  ASSUME CompletionInv, NEW o \in Owners
  PROVE /\ rec[o] \in Record /\ Sound(rec[o]) /\ Sound(disk[o])
        /\ reg[o] # 0 \/ rec[o].pend # {} => subs[o] \in Clients /\ o \in Subscribed
        /\ broker # "down" =>
             \A r \in rec[o].pend : <<o, r>> \in box \cup settling.unsaved \cup settling.saved
        /\ settling \in [unsaved : SUBSET Exits, saved : SUBSET Exits]
BY DEF CompletionInv, Typed, Held, Subscribed, Kept

LEMMA LaunchStep ==
  ASSUME CompletionInv, NEW o \in Owners, Launch(o) PROVE CompletionInv'
<1> DEFINE m == [rec[o] EXCEPT !.run = @ + 1, !.state = "running", !.capable = TRUE, !.sub = subs[o]]
<1>1. rec' = [rec EXCEPT ![o] = m] /\ broker = "up" /\ reg[o] # 0 /\ rec[o].run < MaxRun
      /\ (Unheard \/ rec[o].pend = {})
  BY DEF Launch
<1>2. m.run \in Runs /\ m.run \in 0 .. MaxRun
  BY <1>1, OneRecord, CompletionAssumption DEF Record, Runs
<1>3. m \in Record /\ Sound(m) /\ m.pend = rec[o].pend
  BY <1>1, <1>2, OneRecord DEF Record, Sound
<1> HIDE DEF m
<1> QED BY <1>1, <1>3, OneRecord, RecordMoves DEF Launch, peers, counts

LEMMA StopServiceStep ==
  ASSUME CompletionInv, NEW o \in Owners, StopService(o) \/ StoppedExits(o) PROVE CompletionInv'
<1>1. PICK s \in {"stopping", "ended"} : /\ rec' = [rec EXCEPT ![o].state = s]
        /\ rec[o].state \in {"running", "stopping"} /\ broker # "down"
        /\ UNCHANGED <<broker, disk, subs, reg, box, settling, handling, peers, counts>>
  BY DEF StopService, StoppedExits
<1> DEFINE m == [rec[o] EXCEPT !.state = s]
<1>2. m \in Record /\ Sound(m) /\ m.pend = rec[o].pend
  BY <1>1, OneRecord DEF Record, Sound
<1>3. rec' = [rec EXCEPT ![o] = m]
  BY <1>1
<1> HIDE DEF m
<1> QED BY <1>1, <1>2, <1>3, OneRecord, RecordMoves DEF peers, counts

LEMMA ExitsByItselfStep ==
  ASSUME CompletionInv, NEW o \in Owners, ExitsByItself(o) PROVE CompletionInv'
<1> DEFINE told == IF subs[o] = None THEN {} ELSE {rec[o].run}
           m == [rec[o] EXCEPT !.state = "ended", !.pend = @ \cup told]
<1>1. rec' = [rec EXCEPT ![o] = m] /\ broker # "down" /\ rec[o].state = "running"
      /\ settling' = [settling EXCEPT !.unsaved = @ \cup ({o} \X told)]
  BY DEF ExitsByItself
<1>2. told \subseteq Runs /\ told \subseteq {rec[o].run} /\ (told # {} => o \in Subscribed)
  BY <1>1, OneRecord DEF Sound, Subscribed
<1> HIDE DEF told
<1>3. m \in Record /\ Sound(m) /\ m.pend = rec[o].pend \cup told
  BY <1>1, <1>2, OneRecord DEF Record, Sound
<1>4. {o} \X told \subseteq Exits
  BY <1>2 DEF Exits
<1>5. /\ settling' \in [unsaved : SUBSET Exits, saved : SUBSET Exits]
      /\ settling'.unsaved = settling.unsaved \cup ({o} \X told) /\ settling'.saved = settling.saved
  BY <1>1, <1>4, OneRecord
<1> HIDE DEF m
<1>6. \A r \in m.pend : <<o, r>> \in box \cup settling'.unsaved \cup settling'.saved
  BY <1>1, <1>3, <1>5, OneRecord
<1>7. m.pend # {} => o \in Subscribed
  BY <1>2, <1>3, OneRecord
<1> QED BY <1>1, <1>3, <1>5, <1>6, <1>7, RecordMoves DEF ExitsByItself, peers, counts

LEMMA NotifyStep ==
  ASSUME CompletionInv, NEW e \in Exits, Notify(e) PROVE CompletionInv'
<1> DEFINE told == subs[e[1]] # None /\ e[2] \in rec[e[1]].pend
<1>1. /\ settling' = [settling EXCEPT !.saved = @ \ {e}] /\ e \in settling.saved
      /\ IF told THEN box' = box \cup {e} /\ conn' = SendDown(conn, reg[e[1]], ExitLine({e}))
                 ELSE UNCHANGED <<box, conn>>
      /\ UNCHANGED <<broker, disk, rec, subs, reg, handling, client, counts>>
  BY DEF Notify
<1>2. e[1] \in Owners /\ reg[e[1]] \in 0 .. MaxConn /\ ExitLine({e}) \in DownLines
  BY DEF CompletionInv, Typed, Exits, ExitLine, DownLines
<1>3. Net(conn', HeardOf') /\ \A k \in Conns : conn'[k].far = conn[k].far
  BY <1>1, <1>2, SendDownNet, SameClients DEF CompletionInv, SameEnds
<1>4. /\ settling' \in [unsaved : SUBSET Exits, saved : SUBSET Exits]
      /\ settling'.unsaved = settling.unsaved /\ settling'.saved = settling.saved \ {e}
  BY <1>1 DEF CompletionInv, Typed
<1>5. Typed'
  BY <1>1, <1>4 DEF CompletionInv, Typed, counts
<1>6. Held' /\ Down'
  BY <1>1, <1>3 DEF CompletionInv, Held, Subscribed, Down
<1>7. Kept'
  <2>1. \A o \in Owners : \A r \in rec[o].pend : <<o, r>> = e => told
    BY <1>1 DEF CompletionInv, Held, Subscribed
  <2> QED BY <1>1, <1>4, <2>1 DEF CompletionInv, Kept
<1>8. Owing'
  BY <1>1, SameClients DEF CompletionInv, Owing, OnFile, counts
<1> QED BY <1>1, <1>3, <1>5, <1>6, <1>7, <1>8 DEF CompletionInv

\* A record on file and recovered from it.
LEMMA RecoveredRecord ==
  ASSUME NEW m \in Record, Sound(m)
  PROVE LET r == Recovered(m)
        IN  /\ r \in Record /\ Sound(r)
            /\ m.pend \subseteq r.pend
            /\ ~Unheard /\ m.state = "running" /\ m.capable => m.run \in r.pend
            /\ r.state \notin {"running", "stopping"}
BY DEF Record, Recovered, Sound

LEMMA SaveStep ==
  ASSUME CompletionInv, NEW o \in Owners, Save(o) PROVE CompletionInv'
<1> DEFINE S == Publish(OneOf(Subscribed))
<1>1. /\ broker # "down" /\ disk' = [disk EXCEPT ![o] = rec[o]]
      /\ owed' = owed \cup {<<o, r>> : r \in rec[o].pend}
      /\ UNCHANGED <<broker, rec, subs, reg, box, peers, used>>
  BY DEF Save
<1>2. \A p \in Owners : disk'[p] = IF p = o THEN rec[o] ELSE disk[p]
  BY <1>1 DEF CompletionInv, Typed
<1>3. /\ settling' \in [unsaved : SUBSET Exits, saved : SUBSET Exits]
      /\ settling.unsaved \cup settling.saved = settling'.unsaved \cup settling'.saved
  BY DEF CompletionInv, Typed, Save, Of
<1>4. Typed'
  <2>1. disk' \in [Owners -> Record]
    BY <1>1 DEF CompletionInv, Typed
  <2>2. owed' \subseteq Exits
    BY <1>1 DEF CompletionInv, Typed, Record, Exits
  <2> QED BY <1>1, <1>3, <2>1, <2>2 DEF CompletionInv, Typed, peers
<1>5. Net(conn', HeardOf')
  BY <1>1, SameClients DEF CompletionInv, peers
<1>6. Held'
  <2>1. handling \in Seq(S)
    BY DEF CompletionInv, Held
  <2>2. Len(handling) \in Nat /\ DOMAIN handling = 1 .. Len(handling)
        /\ \A i \in DOMAIN handling : handling[i] \in S
    BY <2>1, LenProperties, ElementOfSeq
  <2>3. \A h \in S : [h EXCEPT !.saved = TRUE] \in S
    BY DEF Publish
  <2>4. handling' = [i \in DOMAIN handling |-> IF handling[i].waits = {o} THEN [handling[i] EXCEPT !.saved = TRUE]
                    ELSE handling[i]]
    BY DEF Save
  <2> HIDE DEF S
  <2>5. handling' \in Seq(S)
    BY <2>2, <2>3, <2>4
  <2> QED BY <1>1, <2>5 DEF CompletionInv, Held, Subscribed, S
<1>7. Down' /\ Kept'
  BY <1>1, <1>3 DEF CompletionInv, Down, Kept
<1>8. Owing'
  <2>1. ASSUME ~Unheard, NEW e \in owed', ~Heard(e)'
        PROVE OnFile(e)' /\ e[2] \in rec[e[1]].pend
    <3>1. e \in Exits /\ e[1] \in Owners /\ ~Heard(e) /\ e[2] \in rec[e[1]].pend
      BY <1>1, <1>4, <2>1, SameClients DEF CompletionInv, Typed, Exits, Owing, peers
    <3>2. CASE e[1] = o
      <4>1. Recovered(disk'[o]).capable /\ e[2] \in Recovered(disk'[o]).pend
        BY <1>2, <3>1, <3>2, OneRecord, RecoveredRecord DEF Sound
      <4> QED BY <3>1, <3>2, <4>1 DEF OnFile
    <3>3. CASE e[1] # o
      BY <1>1, <1>2, <2>1, <3>1, <3>3 DEF CompletionInv, Owing, OnFile
    <3> QED BY <3>1, <3>2, <3>3
  <2> QED BY <1>1, <2>1 DEF Owing
<1> QED BY <1>1, <1>2, <1>4, <1>5, <1>6, <1>7, <1>8 DEF CompletionInv

---------------------------------------------------------------------------
(* The broker starts and ends.                                             *)

LEMMA BrokerStartsStep ==
  ASSUME CompletionInv, BrokerStarts PROVE CompletionInv'
<1>1. /\ broker = "down" /\ broker' = "up"
      /\ rec' = [o \in Owners |-> Recovered(disk[o])]
      /\ subs' = [o \in Owners |-> IF rec'[o].capable /\ rec'[o].pend # {} THEN rec'[o].sub ELSE None]
      /\ box' = {e \in Exits : rec'[e[1]].capable /\ e[2] \in rec'[e[1]].pend}
      /\ UNCHANGED <<disk, reg, settling, handling, peers, counts>>
  BY DEF BrokerStarts
<1>2. \A o \in Owners : /\ rec'[o] \in Record /\ Sound(rec'[o]) /\ Sound(disk'[o])
                        /\ rec'[o] = Recovered(disk[o])
  BY <1>1, RecoveredRecord DEF CompletionInv, Typed
<1>3. \A o \in Owners : subs'[o] \in Clients \cup {None} /\ (rec'[o].pend # {} => subs'[o] \in Clients)
  BY <1>1, <1>2 DEF Sound
<1>4. Typed'
  BY <1>1, <1>2, <1>3 DEF CompletionInv, Typed, peers, counts
<1>5. Net(conn', HeardOf')
  BY <1>1, SameClients DEF CompletionInv, peers
<1>6. Held'
  <2>1. handling' = <<>> /\ \A o \in Owners : reg'[o] = 0
    BY <1>1 DEF CompletionInv, Down
  <2> QED BY <1>3, <2>1, EmptySeq, CompletionAssumption DEF Held, Subscribed
<1>7. Down' /\ Kept'
  <2>1. \A o \in Owners : \A r \in rec'[o].pend : <<o, r>> \in box'
    BY <1>1, <1>2 DEF Sound, Exits, Record
  <2> QED BY <1>1, <2>1 DEF Down, Kept
<1>8. Owing'
  BY <1>1, <1>2, SameClients DEF CompletionInv, Typed, Exits, Owing, OnFile, peers, counts
<1> QED BY <1>2, <1>4, <1>5, <1>6, <1>7, <1>8 DEF CompletionInv

LEMMA ShutdownStep ==
  ASSUME CompletionInv, Shutdown PROVE CompletionInv'
<1>1. Typed' /\ Net(conn', HeardOf') /\ Held'
  BY SameClients DEF CompletionInv, Typed, Held, Subscribed, Shutdown, memory, peers
<1>2. Down' /\ Kept' /\ Owing'
  BY SameClients DEF CompletionInv, Down, Kept, Owing, OnFile, Shutdown, memory, peers
<1> QED BY <1>1, <1>2 DEF CompletionInv, Shutdown, memory

\* The end of the broker, however it comes.
LEMMA GoneInv ==
  ASSUME CompletionInv, Gone,
         \A e \in owed' : e \in owed \/ /\ ~Unheard => OnFile(e)
                                        /\ e \in Exits
  PROVE CompletionInv'
<1>1. NoRecord \in Record /\ Sound(NoRecord)
  BY CompletionAssumption DEF NoRecord, Record, Sound
<1>2. Typed' /\ \A o \in Owners : Sound(rec'[o]) /\ Sound(disk'[o])
  BY <1>1, ConnRange DEF CompletionInv, Typed, Gone
<1>3. Net(conn', HeardOf')
  <2>1. <<>> \in Seq(UpLines(HeardOf))
    BY EmptySeq
  <2>2. \A k \in Conns : [conn[k] EXCEPT !.far = FALSE, !.up = <<>>] \in ConnRecords(HeardOf)
    BY <2>1 DEF CompletionInv, Net, ConnRecords
  <2>3. \A k \in Conns : [conn[k] EXCEPT !.far = FALSE, !.up = <<>>].far = FALSE
    BY DEF CompletionInv, Net, ConnRecords
  <2> QED BY <2>2, <2>3, SameClients DEF Net, Gone
<1>4. Held'
  BY EmptySeq DEF Held, Gone, NoRecord
<1>5. Down' /\ Kept'
  <2>1. \A k \in Conns : ~conn'[k].far
    BY DEF Gone, CompletionInv, Net, ConnRecords
  <2> QED BY <2>1 DEF Down, Kept, Gone
<1>6. Owing'
  BY SameClients DEF CompletionInv, Owing, OnFile, Gone
<1> QED BY <1>2, <1>3, <1>4, <1>5, <1>6 DEF CompletionInv

LEMMA ShutdownEndsStep ==
  ASSUME CompletionInv, ShutdownEnds PROVE CompletionInv'
BY GoneInv DEF ShutdownEnds, counts

LEMMA BrokerCrashesStep ==
  ASSUME CompletionInv, BrokerCrashes PROVE CompletionInv'
<1>1. ASSUME NEW o \in Owners, disk[o].state = "running", disk[o].capable
      PROVE <<o, disk[o].run>> \in Exits /\ (~Unheard => OnFile(<<o, disk[o].run>>))
  <2>1. disk[o] \in Record /\ Sound(disk[o])
    BY DEF CompletionInv, Typed
  <2>2. Recovered(disk[o]).capable
    BY <1>1, <2>1 DEF Recovered, Record
  <2> QED BY <1>1, <2>1, <2>2, RecoveredRecord DEF OnFile, Exits, Sound
<1>2. owed' = owed \cup {<<o, disk[o].run>> : o \in {p \in Owners : disk[p].state = "running" /\ disk[p].capable}}
      /\ Gone
  BY DEF BrokerCrashes
<1>3. \A e \in owed' : e \in owed \/ /\ ~Unheard => OnFile(e)
                                     /\ e \in Exits
  BY <1>1, <1>2
<1> QED BY <1>2, <1>3, GoneInv

---------------------------------------------------------------------------
(* Lines the broker reads.                                                 *)

LEMMA BrokerSeesCloseStep ==
  ASSUME CompletionInv, NEW k \in Conns, BrokerSeesClose(k) PROVE CompletionInv'
<1> DEFINE r == [conn[k] EXCEPT !.far = FALSE, !.up = <<>>]
<1>1. /\ conn' = [conn EXCEPT ![k] = r] /\ conn[k].far
      /\ reg' = [o \in Owners |-> IF reg[o] = k THEN 0 ELSE reg[o]]
      /\ UNCHANGED <<broker, disk, rec, subs, box, settling, handling, client, counts>>
  BY DEF BrokerSeesClose
<1>2. r \in ConnRecords(HeardOf) /\ ~r.far
  BY EmptySeq DEF CompletionInv, Net, ConnRecords
<1> HIDE DEF r
<1>3. Typed'
  BY <1>1, ConnRange DEF CompletionInv, Typed, counts
<1>4. Net(conn', HeardOf')
  BY <1>1, <1>2, SameClients DEF CompletionInv, Net
<1>5. Held' /\ Down' /\ Kept'
  BY <1>1 DEF CompletionInv, Held, Subscribed, Down, Kept
<1>6. Owing'
  BY <1>1, SameClients DEF CompletionInv, Owing, OnFile, counts
<1> QED BY <1>1, <1>3, <1>4, <1>5, <1>6 DEF CompletionInv

\* A record bound to a process, and one with fewer exits to send.
LEMMA RecordParts ==
  ASSUME NEW m \in Record, Sound(m)
  PROVE /\ \A c \in Clients : LET n == [m EXCEPT !.capable = TRUE, !.sub = c]
                              IN  n \in Record /\ Sound(n) /\ n.pend = m.pend
        /\ \A S \in SUBSET m.pend : LET n == [m EXCEPT !.pend = S]
                                    IN  n \in Record /\ Sound(n) /\ n.pend = S
<1>1. ASSUME NEW c \in Clients
      PROVE  LET n == [m EXCEPT !.capable = TRUE, !.sub = c]
             IN  n \in Record /\ Sound(n) /\ n.pend = m.pend
  BY DEF Record, Sound
<1>2. ASSUME NEW S \in SUBSET m.pend
      PROVE  LET n == [m EXCEPT !.pend = S] IN n \in Record /\ Sound(n) /\ n.pend = S
  BY DEF Record, Sound
<1> QED BY <1>1, <1>2

LEMMA ReceiveAckStep ==
  ASSUME CompletionInv, NEW k \in Conns, ReceiveAck(k) PROVE CompletionInv'
<1> DEFINE heard == {e \in box \cap Head(conn[k].up).of : reg[e[1]] = k}
<1>1. /\ conn[k].far /\ conn[k].up # <<>> /\ Head(conn[k].up).kind = "ack"
      /\ box' = box \ heard
      /\ rec' = [o \in Owners |-> [rec[o] EXCEPT !.pend = {r \in @ : <<o, r>> \notin heard}]]
      /\ conn' = Rest(k)
      /\ UNCHANGED <<broker, disk, subs, reg, settling, handling, client, counts>>
  BY DEF ReceiveAck, Arrived
<1>2. Net(conn', HeardOf') /\ SameEnds(conn', conn) /\ Head(conn[k].up) \in UpLines(HeardOf)
  BY <1>1, TailUpNet, SameClients DEF CompletionInv, Rest
<1>3. heard \subseteq HeardOf
  BY <1>1, <1>2 DEF UpLines
<1> HIDE DEF heard
<1>4. \A o \in Owners : /\ rec'[o] \in Record /\ Sound(rec'[o])
                        /\ rec'[o].pend = {r \in rec[o].pend : <<o, r>> \notin heard}
  BY <1>1, RecordParts DEF CompletionInv, Typed
<1>5. broker # "down"
  BY <1>1 DEF CompletionInv, Down
<1>6. Typed'
  BY <1>1, <1>4 DEF CompletionInv, Typed, counts
<1>7. Held' /\ Down' /\ Kept'
  BY <1>1, <1>4, <1>5 DEF CompletionInv, Held, Subscribed, Down, Kept
<1>8. Owing'
  <2>1. ASSUME ~Unheard, NEW e \in owed, ~Heard(e)
        PROVE OnFile(e) /\ e[2] \in rec'[e[1]].pend
    <3>1. e \in Exits /\ e[1] \in Owners /\ e = <<e[1], e[2]>> /\ e \notin heard
      BY <1>3, <2>1 DEF CompletionInv, Typed, Exits, HeardOf
    <3> QED BY <1>4, <1>5, <2>1, <3>1 DEF CompletionInv, Owing
  <2> QED BY <1>1, <2>1, SameClients DEF Owing, OnFile, counts
<1> QED BY <1>1, <1>2, <1>4, <1>6, <1>7, <1>8 DEF CompletionInv

\* What binding owners to a process leaves of the invariant to show.
LEMMA Rebound ==
  ASSUME CompletionInv, NEW c \in Clients, NEW T \in SUBSET Owners, rec' = Bound(c, T),
         subs' \in [Owners -> Clients \cup {None}], Subscribed \subseteq Subscribed',
         reg' \in [Owners -> 0 .. MaxConn], \A o \in Owners : reg'[o] # 0 => o \in Subscribed',
         Net(conn', HeardOf), SameEnds(conn', conn),
         handling' \in Seq(Publish(OneOf(Subscribed'))), broker # "down",
         UNCHANGED <<broker, disk, box, settling, client, counts>>
  PROVE CompletionInv'
<1>1. \A o \in Owners : rec'[o] \in Record /\ Sound(rec'[o]) /\ rec'[o].pend = rec[o].pend
  BY RecordParts DEF CompletionInv, Typed, Bound
<1>2. Typed'
  BY <1>1 DEF CompletionInv, Typed, Bound, counts
<1>3. Net(conn', HeardOf') /\ Held'
  BY <1>1, SameClients DEF CompletionInv, Held
<1>4. Down' /\ Kept'
  BY <1>1 DEF CompletionInv, Down, Kept
<1>5. Owing'
  BY <1>1, SameClients DEF CompletionInv, Typed, Exits, Owing, OnFile, counts
<1> QED BY <1>1, <1>2, <1>3, <1>4, <1>5 DEF CompletionInv

LEMMA ReplayedNet ==
  ASSUME CompletionInv, NEW n, Net(n, HeardOf), NEW S, NEW h, h.conn \in Conns
  PROVE Net(Replayed(n, S, h), HeardOf) /\ SameEnds(Replayed(n, S, h), n)
<1> DEFINE again == {e \in box : e[1] \in S /\ (reg[e[1]] # h.conn \/ e[1] \in h.replays)}
<1>1. ExitLine(again) \in DownLines /\ h.conn \in 0 .. MaxConn
  BY ConnRange DEF CompletionInv, Typed, ExitLine, DownLines
<1> HIDE DEF again
<1>2. Net(SendDown(n, h.conn, ExitLine(again)), HeardOf) /\ SameEnds(SendDown(n, h.conn, ExitLine(again)), n)
  BY <1>1, SendDownNet
<1>3. Replayed(n, S, h) = IF again = {} THEN n ELSE SendDown(n, h.conn, ExitLine(again))
  BY DEF Replayed, again
<1> QED BY <1>2, <1>3 DEF SameEnds

\* Registering subscribed owners, and the publishes that wait.
LEMMA RegisteredType ==
  ASSUME CompletionInv, NEW S, NEW k \in Conns
  PROVE /\ Registered(S, k) \in [Owners -> 0 .. MaxConn]
        /\ \A o \in Owners : Registered(S, k)[o] # 0 => o \in S \/ o \in Subscribed
BY ConnRange DEF CompletionInv, Typed, Held, Registered

LEMMA WaitMore ==
  ASSUME NEW S, NEW T, S \subseteq T, NEW q \in Seq(Publish(OneOf(S)))
  PROVE q \in Seq(Publish(OneOf(T)))
<1>1. Publish(OneOf(S)) \subseteq Publish(OneOf(T))
  BY DEF Publish, OneOf
<1> QED BY <1>1, SeqMonotonic

\* A publish that waits for a record, or for none yet.
Begun == Publish(OneOf(Subscribed) \cup {{}})

\* BindsUpTo, for the record it stops to write.
BindsWaitingFor(h, net, queue, w) ==
  \E S \in SUBSET (h.active \ {w}) :
     /\ subs' = [o \in Owners |-> IF o \in S \cup {w} THEN h.client ELSE subs[o]]
     /\ rec' = Bound(h.client, {w})
     /\ reg' = Registered(S \cup h.waits, h.conn)
     /\ conn' = Replayed(net, S \cup h.waits, h)
     /\ handling' = Append(queue, [h EXCEPT !.active = @ \ (S \cup {w}), !.waits = {w}, !.saved = FALSE])

LEMMA BindsUpToInv ==
  ASSUME CompletionInv, NEW h \in Begun, NEW net, Net(net, HeardOf), SameEnds(net, conn),
         NEW queue \in Seq(Publish(OneOf(Subscribed))), broker # "down",
         BindsUpTo(h, net, queue), UNCHANGED <<broker, disk, box, settling, client, counts>>
  PROVE CompletionInv'
<1>0. PICK w \in h.active : BindsWaitingFor(h, net, queue, w)
  BY DEF BindsUpTo, BindsWaitingFor
<1>1. PICK S \in SUBSET (h.active \ {w}) :
        /\ subs' = [o \in Owners |-> IF o \in S \cup {w} THEN h.client ELSE subs[o]]
        /\ rec' = Bound(h.client, {w})
        /\ reg' = Registered(S \cup h.waits, h.conn)
        /\ conn' = Replayed(net, S \cup h.waits, h)
        /\ handling' = Append(queue, [h EXCEPT !.active = @ \ (S \cup {w}), !.waits = {w}, !.saved = FALSE])
  BY <1>0 DEF BindsWaitingFor
<1>2. h.client \in Clients /\ h.conn \in Conns /\ h.active \subseteq Owners /\ h.waits \subseteq Subscribed
  BY DEF Begun, Publish, OneOf
<1>3. subs' \in [Owners -> Clients \cup {None}] /\ Subscribed' = Subscribed \cup S \cup {w}
  BY <1>1, <1>2, CompletionAssumption DEF CompletionInv, Typed, Subscribed
<1>4. reg' \in [Owners -> 0 .. MaxConn] /\ \A o \in Owners : reg'[o] # 0 => o \in Subscribed'
  BY <1>1, <1>2, <1>3, RegisteredType
<1>5. Net(conn', HeardOf) /\ SameEnds(conn', conn)
  BY <1>1, <1>2, ReplayedNet DEF SameEnds
<1>6. handling' \in Seq(Publish(OneOf(Subscribed')))
  <2>1. queue \in Seq(Publish(OneOf(Subscribed')))
    BY <1>3, WaitMore
  <2>2. [h EXCEPT !.active = @ \ (S \cup {w}), !.waits = {w}, !.saved = FALSE] \in Publish(OneOf(Subscribed'))
    BY <1>1, <1>3 DEF Begun, Publish, OneOf
  <2> QED BY <1>1, <2>1, <2>2
<1>7. {w} \in SUBSET Owners
  BY <1>1, <1>2
<1> QED BY <1>1, <1>2, <1>3, <1>4, <1>5, <1>6, <1>7, Rebound

LEMMA BindsToEndInv ==
  ASSUME CompletionInv, NEW h \in Begun, NEW net, Net(net, HeardOf), SameEnds(net, conn),
         NEW queue \in Seq(Publish(OneOf(Subscribed))), broker # "down",
         BindsToEnd(h, net, queue), UNCHANGED <<broker, disk, box, settling, client, counts>>
  PROVE CompletionInv'
<1> DEFINE S      == h.active \cup h.waits
           at     == Registered(S, h.conn)
           left   == {o \in h.detached : subs[o] \in {None, h.client}}
           told   == Replayed(net, S, h)
           answer == [kind |-> "done", of |-> h.replays]
<1>1. /\ subs' = [o \in Owners |-> IF o \in h.active \cup left THEN h.client ELSE subs[o]]
      /\ rec' = Bound(h.client, left)
      /\ reg' = [o \in Owners |-> IF o \in left /\ at[o] # 0 /\ conn[at[o]].client = h.client
                                  THEN 0 ELSE at[o]]
      /\ conn' = IF h.replays = {} THEN told ELSE SendDown(told, h.conn, answer)
      /\ handling' = queue
  BY DEF BindsToEnd
<1>2. /\ h.client \in Clients /\ h.conn \in Conns /\ h.active \subseteq Owners
      /\ h.waits \subseteq Subscribed /\ left \subseteq Owners /\ h.replays \subseteq Owners
  BY DEF Begun, Publish, OneOf
<1>3. /\ subs' \in [Owners -> Clients \cup {None}] /\ Subscribed' = Subscribed \cup h.active \cup left
  BY <1>1, <1>2, CompletionAssumption DEF CompletionInv, Typed, Subscribed
<1>4. reg' \in [Owners -> 0 .. MaxConn] /\ \A o \in Owners : reg'[o] # 0 => o \in Subscribed'
  <2>1. at \in [Owners -> 0 .. MaxConn] /\ \A o \in Owners : at[o] # 0 => o \in S \/ o \in Subscribed
    BY <1>2, RegisteredType
  <2> HIDE DEF at
  <2> QED BY <1>1, <1>2, <1>3, <2>1, ConnRange
<1>5. Net(conn', HeardOf) /\ SameEnds(conn', conn)
  <2>1. Net(told, HeardOf) /\ SameEnds(told, net)
    BY <1>2, ReplayedNet
  <2>2. answer \in DownLines /\ h.conn \in 0 .. MaxConn
    BY <1>2, ConnRange DEF DownLines
  <2> HIDE DEF told, answer
  <2>3. Net(SendDown(told, h.conn, answer), HeardOf) /\ SameEnds(SendDown(told, h.conn, answer), told)
    BY <2>1, <2>2, SendDownNet
  <2> QED BY <1>1, <2>1, <2>3 DEF SameEnds
<1>6. handling' \in Seq(Publish(OneOf(Subscribed')))
  BY <1>1, <1>3, WaitMore
<1> HIDE DEF left, at, told, answer, S
<1> QED BY <1>1, <1>2, <1>3, <1>4, <1>5, <1>6, Rebound

LEMMA BindsInv ==
  ASSUME CompletionInv, NEW h \in Begun, NEW net, Net(net, HeardOf), SameEnds(net, conn),
         NEW queue \in Seq(Publish(OneOf(Subscribed))), broker # "down", Binds(h, net, queue)
  PROVE CompletionInv'
BY BindsUpToInv, BindsToEndInv DEF Binds

LEMMA ReceivePublishStep ==
  ASSUME CompletionInv, NEW k \in Conns, ReceivePublish(k) PROVE CompletionInv'
<1> DEFINE line == Head(conn[k].up)
           h == [conn |-> k, client |-> conn[k].client, active |-> line.active, waits |-> {},
                 saved |-> FALSE, detached |-> line.detached, replays |-> line.replays]
<1>1. /\ conn[k].far /\ conn[k].up # <<>> /\ line.kind = "publish"
      /\ Binds(h, Rest(k), handling)
  BY DEF ReceivePublish, Arrived
<1>2. Net(Rest(k), HeardOf) /\ SameEnds(Rest(k), conn) /\ line \in UpLines(HeardOf)
  BY <1>1, TailUpNet DEF CompletionInv, Rest
<1>3. h \in Begun
  BY <1>1, <1>2 DEF CompletionInv, Net, UpLines, Begun, Publish
<1>4. broker # "down"
  BY <1>1 DEF CompletionInv, Down
<1> HIDE DEF h, line
<1> QED BY <1>1, <1>2, <1>3, <1>4, BindsInv DEF CompletionInv, Held

LEMMA ResumeStep ==
  ASSUME CompletionInv, NEW i \in DOMAIN handling, Resume(i) PROVE CompletionInv'
<1> DEFINE P == Publish(OneOf(Subscribed))
           queue == SubSeq(handling, 1, i - 1) \o SubSeq(handling, i + 1, Len(handling))
<1>1. handling \in Seq(P) /\ Len(handling) \in Nat /\ i \in 1 .. Len(handling) /\ handling[i] \in P
  BY LenProperties, ElementOfSeq DEF CompletionInv, Held
<1> HIDE DEF P
<1>2. \A j \in 1 .. Len(handling) : handling[j] \in P
  BY <1>1, ElementOfSeq
<1>3. SubSeq(handling, 1, i - 1) \in Seq(P) /\ SubSeq(handling, i + 1, Len(handling)) \in Seq(P)
  BY <1>1, <1>2, SubSeqProperties
<1>4. queue \in Seq(P)
  BY <1>3, ConcatProperties
<1>5. handling[i] \in Begun
  BY <1>1 DEF P, Begun, Publish
<1>6. broker # "down"
  BY <1>1 DEF CompletionInv, Down
<1>7. Binds(handling[i], conn, queue)
  BY DEF Resume
<1> HIDE DEF queue
<1> QED BY <1>4, <1>5, <1>6, <1>7, BindsInv DEF CompletionInv, SameEnds, P

---------------------------------------------------------------------------
(* All steps.                                                              *)

LEMMA InitCompletionInv == Init => CompletionInv
<1> SUFFICES ASSUME Init PROVE CompletionInv
  OBVIOUS
<1>1. NoRecord \in Record /\ Sound(NoRecord) /\ NoRecord.pend = {}
  BY CompletionAssumption DEF NoRecord, Record, Sound, Runs
<1>2. Typed
  BY <1>1, CompletionAssumption DEF Init, Typed, NewClient, ClientRecords
<1>3. Net(conn, HeardOf)
  BY EmptySeq DEF Init, Net, NoConn, ConnRecords
<1>4. Held /\ Down
  BY <1>1, EmptySeq DEF Init, Held, Down, NoConn
<1>5. Kept /\ Owing
  BY DEF Init, Kept, Owing
<1> QED BY <1>1, <1>2, <1>3, <1>4, <1>5 DEF Init, CompletionInv

LEMMA ClientSteps ==
  ASSUME CompletionInv, NEW c \in Clients, ClientStep(c) PROVE CompletionInv'
BY OnCompletionStep, UnsubscribeStep, ConnectStep, SeesCloseStep, SinkResolvesStep,
   SinkRejectsStep, ClientDiesStep, ReadLineStep DEF ClientStep

LEMMA NextStep ==
  ASSUME CompletionInv, Next PROVE CompletionInv'
<1>1. ASSUME NEW c \in Clients, ClientStep(c) PROVE CompletionInv'
  BY <1>1, ClientSteps
<1>2. ASSUME NEW k \in Conns, BrokerSeesClose(k) \/ ReceiveAck(k) \/ ReceivePublish(k)
      PROVE CompletionInv'
  BY <1>2, BrokerSeesCloseStep, ReceiveAckStep, ReceivePublishStep
<1>3. ASSUME NEW i \in DOMAIN handling, Resume(i) PROVE CompletionInv'
  BY <1>3, ResumeStep
<1>4. ASSUME NEW o \in Owners,
             Save(o) \/ Launch(o) \/ ExitsByItself(o) \/ StopService(o) \/ StoppedExits(o)
      PROVE CompletionInv'
  BY <1>4, SaveStep, LaunchStep, ExitsByItselfStep, StopServiceStep
<1>5. ASSUME NEW e \in Exits, Notify(e) PROVE CompletionInv'
  BY <1>5, NotifyStep
<1>6. ASSUME BrokerStarts \/ Shutdown \/ ShutdownEnds \/ BrokerCrashes PROVE CompletionInv'
  BY <1>6, BrokerStartsStep, ShutdownStep, ShutdownEndsStep, BrokerCrashesStep
<1> QED BY <1>1, <1>2, <1>3, <1>4, <1>5, <1>6 DEF Next

LEMMA Stutter ==
  ASSUME CompletionInv, UNCHANGED vars PROVE CompletionInv'
<1>1. UNCHANGED <<broker, rec, disk, subs, reg, box, settling, handling, conn, client, owed, used>>
  BY DEF vars, service, memory, peers, counts
<1>2. Typed' /\ Net(conn', HeardOf')
  BY <1>1, SameClients DEF CompletionInv, Typed
<1>3. Held' /\ Down' /\ Kept'
  BY <1>1 DEF CompletionInv, Held, Subscribed, Down, Kept
<1>4. Owing'
  BY <1>1, SameClients DEF CompletionInv, Owing, OnFile
<1> QED BY <1>1, <1>2, <1>3, <1>4 DEF CompletionInv

LEMMA CompletionInvHolds == Spec => []CompletionInv
<1>1. CompletionInv /\ [Next]_vars => CompletionInv'
  BY NextStep, Stutter
<1> QED BY <1>1, InitCompletionInv, PTL DEF Spec

---------------------------------------------------------------------------
(* Safety.                                                                 *)

(* The type invariant; in it, a publish that waits at all waits for the    *)
(* write of one record, never for two and never for none                   *)
(* (broker.ts, #setRecordCompletionCapability).                                *)
THEOREM TypeCorrect == Spec => []TypeOK
<1>1. ASSUME CompletionInv PROVE TypeOK
  <2>1. ASSUME NEW i \in DOMAIN handling
        PROVE  /\ handling[i].conn \in Conns
               /\ handling[i].active \subseteq Owners /\ handling[i].detached \subseteq Owners
               /\ \E o \in Owners : handling[i].waits = {o}
    <3>1. handling[i] \in Publish(OneOf(Subscribed))
      BY <1>1, <2>1, LenProperties, ElementOfSeq DEF CompletionInv, Held
    <3> QED BY <3>1 DEF Publish, OneOf, Subscribed
  <2>2. \A k \in Conns : conn[k].client \in Clients \cup {None} /\ conn[k].near \in BOOLEAN
                         /\ conn[k].far \in BOOLEAN
    BY <1>1 DEF CompletionInv, Net, ConnRecords
  <2>3. \A c \in Clients : client[c].sinks \subseteq Owners /\ client[c].preserved \subseteq Owners
                           /\ client[c].seen \subseteq Exits /\ client[c].sock \in 0 .. MaxConn
    BY <1>1 DEF CompletionInv, Typed, ClientRecords
  <2> QED BY <1>1, <2>1, <2>2, <2>3 DEF CompletionInv, Typed, TypeOK
<1> QED BY <1>1, CompletionInvHolds, PTL

(* An exit the owner is to hear of is not lost, whichever of the broker,   *)
(* the processes and the connections end in between, as long as a service  *)
(* is not launched over an exit that no session has heard of yet           *)
(* (broker.ts, the completions of a record and the outbox).                *)
THEOREM ExitsAreKept == Spec => [](~Unheard => NothingLost)
<1>1. ASSUME CompletionInv, ~Unheard PROVE NothingLost
  <2>1. ASSUME NEW e \in owed, ~Heard(e), broker # "down" PROVE InHand(e)
    <3>1. e \in Exits /\ e[1] \in Owners /\ e = <<e[1], e[2]>>
      BY <1>1, <2>1 DEF CompletionInv, Typed, Exits
    <3>2. e[2] \in rec[e[1]].pend
      BY <1>1, <2>1 DEF CompletionInv, Owing
    <3> QED BY <1>1, <2>1, <3>1, <3>2 DEF CompletionInv, Kept, InHand
  <2>2. ASSUME NEW e \in owed, ~Heard(e), broker = "down" PROVE OnFile(e)
    BY <1>1, <2>2 DEF CompletionInv, Owing
  <2> QED BY <2>1, <2>2 DEF NothingLost
<1>2. CompletionInv => (~Unheard => NothingLost)
  BY <1>1
<1> QED BY <1>2, CompletionInvHolds, PTL

---------------------------------------------------------------------------
(* Where the exits of a session's services are sent: whenever nothing is   *)
(* under way between a process and the broker, the sessions of the process *)
(* are registered on its connection.  The invariant, RegInv, follows the   *)
(* last publish of a connection: while it is on its way its owners are the *)
(* sessions of the process; while it waits for a write each of them is     *)
(* bound, waited for or still to be bound; and once it is done all of them *)
(* are registered.  It is kept because the publishes of other processes do *)
(* not name these sessions any more (Strangers), and because a connection  *)
(* has one publish at hand at a time, which needs ~Overtaken.              *)

\* What the lines s say to the broker: no publish; a last publish, which names the
\* sessions A and leaves none of them; the owners that are named.
NoPublish(s) == \A n \in DOMAIN s : s[n].kind # "publish"
EndsIn(s, A) ==
  \E n \in DOMAIN s :
    /\ s[n].kind = "publish" /\ s[n].active = A /\ s[n].detached \cap A = {}
    /\ \A m \in DOMAIN s : m > n => s[m].kind # "publish"
Names(s, o)  == \E n \in DOMAIN s : s[n].kind = "publish" /\ o \in s[n].active

\* A process has one connection that the broker has not done with.
Socks ==
  \A c \in Clients : \A k \in Conns :
    client[c].sock = k =>
      /\ conn[k].client = c /\ conn[k].near
      /\ \A j \in Conns \ {k} : conn[j].client = c => ~conn[j].far /\ Handlers(j) = {}

\* A session has one process, and a process has a session or has left it.
Apart ==
  \A c \in Clients :
    /\ client[c].sinks \cap client[c].preserved = {}
    /\ \A d \in Clients \ {c} : client[c].sinks \cap client[d].sinks = {}

\* A connection has one publish at hand.
Hands ==
  \A i \in DOMAIN handling :
    /\ handling[i].client = conn[handling[i].conn].client
    /\ \A j \in DOMAIN handling : handling[j].conn = handling[i].conn => j = i

\* The sessions of a process are not named by what others write.
Strangers ==
  \A c \in Clients : \A o \in client[c].sinks :
    /\ \A k \in Conns : conn[k].client # c => ~Names(conn[k].up, o)
    /\ \A i \in DOMAIN handling :
         handling[i].client # c => o \notin handling[i].active \cup handling[i].waits

\* Where session o of process c is with publish h of its connection, and after the last.
BoundBy(c, o, h) ==
  o \in h.active \/ (subs[o] = c /\ (o \in h.waits \/ reg[o] = h.conn))

AtHand(c, k) ==
  \A o \in client[c].sinks :
    /\ Handlers(k) = {} => reg[o] = k /\ subs[o] = c
    /\ \A i \in Handlers(k) : o \notin handling[i].detached /\ BoundBy(c, o, handling[i])

Served ==
  \A c \in Clients : \A k \in Conns :
    client[c].sock = k /\ conn[k].far =>
      EndsIn(conn[k].up, client[c].sinks) \/ (NoPublish(conn[k].up) /\ AtHand(c, k))

RegInv == Socks /\ Apart /\ Hands /\ Strangers /\ Served

---------------------------------------------------------------------------
(* Lines.                                                                  *)

\* The lines t say no more than the lines s, and end as they do.
Milder(s, t) ==
  /\ NoPublish(s) => NoPublish(t)
  /\ \A A : EndsIn(s, A) => EndsIn(t, A)
  /\ \A o : Names(t, o) => Names(s, o)

LEMMA MilderSame == ASSUME NEW s PROVE Milder(s, s)
BY DEF Milder

LEMMA AppendAck ==
  ASSUME NEW L, NEW s \in Seq(L), NEW l \in L, l.kind # "publish"
  PROVE Milder(s, Append(s, l))
<1> DEFINE t == Append(s, l)
<1>1. /\ Len(s) \in Nat /\ DOMAIN s = 1 .. Len(s) /\ DOMAIN t = 1 .. Len(s) + 1
      /\ t[Len(s) + 1] = l /\ \A n \in 1 .. Len(s) : t[n] = s[n]
  BY AppendProperties, LenProperties
<1> HIDE DEF t
<1>2. NoPublish(s) => NoPublish(t)
  BY <1>1 DEF NoPublish
<1>3. ASSUME NEW A, EndsIn(s, A) PROVE EndsIn(t, A)
  BY <1>1, <1>3 DEF EndsIn
<1>4. ASSUME NEW o, Names(t, o) PROVE Names(s, o)
  BY <1>1, <1>4 DEF Names
<1> QED BY <1>2, <1>3, <1>4 DEF Milder, t

LEMMA TailParts ==
  ASSUME NEW L, NEW s \in Seq(L), s # <<>>
  PROVE /\ Len(s) \in Nat \ {0} /\ DOMAIN s = 1 .. Len(s) /\ DOMAIN Tail(s) = 1 .. Len(s) - 1
        /\ Head(s) = s[1] /\ \A n \in 1 .. Len(s) - 1 : Tail(s)[n] = s[n + 1]
BY HeadTailProperties, LenProperties, EmptySeq

LEMMA TailAck ==
  ASSUME NEW L, NEW s \in Seq(L), s # <<>>, Head(s).kind # "publish"
  PROVE Milder(s, Tail(s))
<1> DEFINE t == Tail(s)
<1>1. /\ Len(s) \in Nat \ {0} /\ DOMAIN s = 1 .. Len(s) /\ DOMAIN t = 1 .. Len(s) - 1
      /\ Head(s) = s[1] /\ \A n \in 1 .. Len(s) - 1 : t[n] = s[n + 1]
  BY TailParts
<1> HIDE DEF t
<1>2. NoPublish(s) => NoPublish(t)
  BY <1>1 DEF NoPublish
<1>3. ASSUME NEW A, EndsIn(s, A) PROVE EndsIn(t, A)
  <2>1. PICK n \in DOMAIN s : /\ s[n].kind = "publish" /\ s[n].active = A /\ s[n].detached \cap A = {}
                              /\ \A m \in DOMAIN s : m > n => s[m].kind # "publish"
    BY <1>3 DEF EndsIn
  <2>2. n - 1 \in DOMAIN t /\ t[n - 1] = s[n]
    <3>1. n # 1 /\ n \in 1 .. Len(s)
      BY <1>1, <2>1
    <3>2. n - 1 \in 1 .. Len(s) - 1 /\ (n - 1) + 1 = n
      BY <1>1, <3>1
    <3> QED BY <1>1, <3>2
  <2>3. \A m \in DOMAIN t : m > n - 1 => t[m].kind # "publish"
    <3>1. \A m \in DOMAIN t : m + 1 \in DOMAIN s /\ t[m] = s[m + 1] /\ (m > n - 1 => m + 1 > n)
      BY <1>1, <2>1
    <3> QED BY <2>1, <3>1
  <2> QED BY <2>1, <2>2, <2>3 DEF EndsIn
<1>4. ASSUME NEW o, Names(t, o) PROVE Names(s, o)
  <2>1. PICK n \in DOMAIN t : t[n].kind = "publish" /\ o \in t[n].active
    BY <1>4 DEF Names
  <2>2. n + 1 \in DOMAIN s /\ s[n + 1] = t[n]
    BY <1>1, <2>1
  <2> QED BY <2>1, <2>2 DEF Names
<1> QED BY <1>2, <1>3, <1>4 DEF Milder, t

LEMMA AppendPublish ==
  ASSUME NEW L, NEW s \in Seq(L), NEW l \in L, l.kind = "publish",
         l.detached \cap l.active = {}
  PROVE /\ EndsIn(Append(s, l), l.active)
        /\ \A o : Names(Append(s, l), o) => Names(s, o) \/ o \in l.active
<1> DEFINE t == Append(s, l)
<1>1. /\ Len(s) \in Nat /\ DOMAIN s = 1 .. Len(s) /\ DOMAIN t = 1 .. Len(s) + 1
      /\ t[Len(s) + 1] = l /\ \A n \in 1 .. Len(s) : t[n] = s[n]
  BY AppendProperties, LenProperties
<1> HIDE DEF t
<1>2. EndsIn(t, l.active)
  <2>1. Len(s) + 1 \in DOMAIN t /\ \A m \in DOMAIN t : ~(m > Len(s) + 1)
    BY <1>1
  <2> QED BY <1>1, <2>1 DEF EndsIn
<1>3. ASSUME NEW o, Names(t, o) PROVE Names(s, o) \/ o \in l.active
  BY <1>1, <1>3 DEF Names
<1> QED BY <1>2, <1>3 DEF t

\* When its first line, a publish, is read.
LEMMA TailPublish ==
  ASSUME NEW L, NEW s \in Seq(L), s # <<>>, Head(s).kind = "publish"
  PROVE /\ ~NoPublish(s)
        /\ \A A : EndsIn(s, A) =>
             \/ EndsIn(Tail(s), A)
             \/ NoPublish(Tail(s)) /\ Head(s).active = A /\ Head(s).detached \cap A = {}
        /\ \A o : Names(Tail(s), o) \/ o \in Head(s).active => Names(s, o)
<1> DEFINE t == Tail(s)
<1>1. /\ Len(s) \in Nat \ {0} /\ DOMAIN s = 1 .. Len(s) /\ DOMAIN t = 1 .. Len(s) - 1
      /\ Head(s) = s[1] /\ \A n \in 1 .. Len(s) - 1 : t[n] = s[n + 1]
  BY TailParts
<1> HIDE DEF t
<1>2. 1 \in DOMAIN s
  BY <1>1
<1>3. ASSUME NEW A, EndsIn(s, A)
      PROVE \/ EndsIn(t, A)
            \/ NoPublish(t) /\ Head(s).active = A /\ Head(s).detached \cap A = {}
  <2>1. PICK n \in DOMAIN s : /\ s[n].kind = "publish" /\ s[n].active = A /\ s[n].detached \cap A = {}
                              /\ \A m \in DOMAIN s : m > n => s[m].kind # "publish"
    BY <1>3 DEF EndsIn
  <2>2. CASE n = 1
    <3>1. \A m \in DOMAIN t : m + 1 \in DOMAIN s /\ m + 1 > n /\ t[m] = s[m + 1]
      BY <1>1, <2>2
    <3> QED BY <1>1, <2>1, <2>2, <3>1 DEF NoPublish
  <2>3. CASE n # 1
    <3>1. n - 1 \in DOMAIN t /\ t[n - 1] = s[n]
      BY <1>1, <2>1, <2>3
    <3>2. \A m \in DOMAIN t : m > n - 1 => t[m].kind # "publish"
      BY <1>1, <2>1
    <3> QED BY <2>1, <3>1, <3>2 DEF EndsIn
  <2> QED BY <2>2, <2>3
<1>4. ASSUME NEW o, Names(t, o) PROVE Names(s, o)
  <2>1. PICK n \in DOMAIN t : t[n].kind = "publish" /\ o \in t[n].active
    BY <1>4 DEF Names
  <2>2. n + 1 \in DOMAIN s /\ s[n + 1] = t[n]
    BY <1>1, <2>1
  <2> QED BY <2>1, <2>2 DEF Names
<1>5. \A o : o \in Head(s).active => Names(s, o)
  BY <1>1, <1>2 DEF Names
<1> QED BY <1>1, <1>2, <1>3, <1>4, <1>5 DEF NoPublish, t

LEMMA NothingSaid ==
  /\ NoPublish(<<>>)
  /\ \A A : ~EndsIn(<<>>, A)
  /\ \A o : ~Names(<<>>, o)
BY DEF NoPublish, EndsIn, Names

---------------------------------------------------------------------------
(* Connections, field by field.                                            *)

SameButDown(m, n) ==
  \A j \in Conns : m[j].client = n[j].client /\ m[j].near = n[j].near /\ m[j].far = n[j].far
                   /\ m[j].up = n[j].up

LEMMA SendUpFields ==
  ASSUME NEW H, NEW n, Net(n, H), NEW k \in 0 .. MaxConn, NEW l
  PROVE \A j \in Conns :
          LET m == SendUp(n, k, l)
          IN  /\ m[j].client = n[j].client /\ m[j].near = n[j].near /\ m[j].far = n[j].far
              /\ m[j].up = IF j = k /\ n[k].far THEN Append(n[k].up, l) ELSE n[j].up
<1>1. \A j \in Conns : n[j] \in ConnRecords(H) /\ j # 0
  BY DEF Net, Conns
<1> QED BY <1>1 DEF Net, ConnRecords, SendUp

LEMMA SendDownFields ==
  ASSUME NEW H, NEW n, Net(n, H), NEW k, NEW l
  PROVE SameButDown(SendDown(n, k, l), n)
<1>1. \A j \in Conns : n[j] \in ConnRecords(H)
  BY DEF Net
<1> QED BY <1>1 DEF Net, ConnRecords, SendDown, SameButDown

LEMMA ClosedNearFields ==
  ASSUME NEW H, NEW n, Net(n, H), NEW k \in 0 .. MaxConn
  PROVE \A j \in Conns :
          LET m == ClosedNear(n, k)
          IN  /\ m[j].client = n[j].client /\ m[j].far = n[j].far /\ m[j].up = n[j].up
              /\ (j = k => ~m[j].near) /\ (j # k => m[j].near = n[j].near)
<1>1. \A j \in Conns : n[j] \in ConnRecords(H) /\ j # 0
  BY DEF Net, Conns
<1> QED BY <1>1 DEF Net, ConnRecords, ClosedNear

LEMMA TailUpFields ==
  ASSUME NEW H, NEW n, Net(n, H), NEW k \in Conns
  PROVE \A j \in Conns :
          LET m == [n EXCEPT ![k].up = Tail(@)]
          IN  /\ m[j].client = n[j].client /\ m[j].near = n[j].near /\ m[j].far = n[j].far
              /\ m[j].up = IF j = k THEN Tail(n[k].up) ELSE n[j].up
<1>1. \A j \in Conns : n[j] \in ConnRecords(H)
  BY DEF Net
<1> QED BY <1>1 DEF Net, ConnRecords

LEMMA ReplayedFields ==
  ASSUME NEW H, NEW n, Net(n, H), NEW S, NEW h
  PROVE SameButDown(Replayed(n, S, h), n)
BY SendDownFields DEF Replayed, SameButDown

LEMMA AckedMilder ==
  ASSUME NEW H, NEW n, Net(n, H), NEW k \in 0 .. MaxConn, NEW S \in SUBSET H
  PROVE \A j \in Conns :
          LET m == Acked(n, k, S)
          IN  /\ m[j].client = n[j].client /\ m[j].near = n[j].near /\ m[j].far = n[j].far
              /\ Milder(n[j].up, m[j].up)
<1> DEFINE l == [kind |-> "ack", of |-> S]
<1>1. l \in UpLines(H) /\ l.kind # "publish"
  BY DEF UpLines
<1>2. \A j \in Conns : n[j].up \in Seq(UpLines(H))
  BY DEF Net, ConnRecords
<1> HIDE DEF l
<1>3. \A j \in Conns : Milder(n[j].up, Append(n[j].up, l)) /\ Milder(n[j].up, n[j].up)
  BY <1>1, <1>2, AppendAck, MilderSame
<1> QED BY <1>3, SendUpFields DEF Acked, l

---------------------------------------------------------------------------
(* Steps that leave registrations and publishes at hand alone.             *)

LEMMA HandlingTypes ==
  ASSUME CompletionInv
  PROVE \A i \in DOMAIN handling :
          /\ handling[i] \in Publish(OneOf(Subscribed))
          /\ handling[i].conn \in Conns /\ handling[i].client \in Clients
          /\ handling[i].active \subseteq Owners /\ handling[i].waits \subseteq Owners
<1>1. \A i \in DOMAIN handling : handling[i] \in Publish(OneOf(Subscribed))
  BY LenProperties, ElementOfSeq DEF CompletionInv, Held
<1> QED BY <1>1 DEF Publish, OneOf, Subscribed

LEMMA ConnTypes ==
  ASSUME CompletionInv
  PROVE \A k \in Conns : /\ conn[k].up \in Seq(UpLines(HeardOf))
                         /\ conn[k].far => conn[k].client \in Clients
                         /\ k \in 0 .. MaxConn /\ k # 0
BY ConnRange DEF CompletionInv, Net, ConnRecords, Conns

LEMMA ClientTypes ==
  ASSUME CompletionInv
  PROVE \A c \in Clients : /\ client[c] \in ClientRecords /\ client[c].sock \in 0 .. MaxConn
                           /\ client[c].sinks \subseteq Owners /\ client[c].preserved \subseteq Owners
BY DEF CompletionInv, Typed, ClientRecords

\* The publishes at hand are the same, whether or not they are saved.
SameHands ==
  /\ DOMAIN handling' = DOMAIN handling
  /\ \A i \in DOMAIN handling :
       /\ handling'[i].conn = handling[i].conn /\ handling'[i].client = handling[i].client
       /\ handling'[i].active = handling[i].active /\ handling'[i].waits = handling[i].waits
       /\ handling'[i].detached = handling[i].detached

LEMMA SameHandlers ==
  ASSUME SameHands, NEW k PROVE Handlers(k)' = Handlers(k)
BY DEF SameHands, Handlers

LEMMA NoHands ==
  ASSUME UNCHANGED handling PROVE SameHands
BY DEF SameHands

\* The sessions of the processes and their connections are the same.
SameSessions ==
  \A c \in Clients : /\ client'[c].sinks = client[c].sinks /\ client'[c].sock = client[c].sock
                     /\ client'[c].preserved = client[c].preserved

\* Nothing but lines that are no publish goes up a connection, or is read from it.
MilderNet ==
  \A k \in Conns : /\ conn'[k].client = conn[k].client /\ conn'[k].near = conn[k].near
                   /\ conn'[k].far = conn[k].far /\ Milder(conn[k].up, conn'[k].up)

LEMMA AtHandSame ==
  ASSUME SameHands, UNCHANGED <<subs, reg>>, NEW c, client'[c].sinks = client[c].sinks, NEW k,
         AtHand(c, k)
  PROVE AtHand(c, k)'
<1>1. Handlers(k)' = Handlers(k) /\ Handlers(k) \subseteq DOMAIN handling
  BY SameHandlers DEF Handlers
<1> QED BY <1>1 DEF AtHand, BoundBy, SameHands

LEMMA QuietReg ==
  ASSUME CompletionInv, RegInv, SameHands, UNCHANGED <<subs, reg>>, SameSessions, MilderNet
  PROVE RegInv'
<1>1. Socks'
  BY SameHandlers DEF RegInv, Socks, SameSessions, MilderNet
<1>2. Apart'
  BY DEF RegInv, Apart, SameSessions
<1>3. Hands'
  BY HandlingTypes DEF RegInv, Hands, SameHands, MilderNet
<1>4. Strangers'
  BY DEF RegInv, Strangers, SameHands, SameSessions, MilderNet, Milder
<1>5. Served'
  <2>1. ASSUME NEW c \in Clients, NEW k \in Conns, client'[c].sock = k, conn'[k].far
        PROVE EndsIn(conn'[k].up, client'[c].sinks) \/ (NoPublish(conn'[k].up) /\ AtHand(c, k)')
    <3>1. EndsIn(conn[k].up, client[c].sinks) \/ (NoPublish(conn[k].up) /\ AtHand(c, k))
      BY <2>1 DEF RegInv, Served, SameSessions, MilderNet
    <3>2. Milder(conn[k].up, conn'[k].up) /\ client'[c].sinks = client[c].sinks
      BY DEF SameSessions, MilderNet
    <3> QED BY <3>1, <3>2, AtHandSame DEF Milder
  <2> QED BY <2>1 DEF Served
<1> QED BY <1>1, <1>2, <1>3, <1>4, <1>5 DEF RegInv

\* Process c drops its connection, if it has one.
LEMMA DropsReg ==
  ASSUME CompletionInv, RegInv, NEW c \in Clients, UNCHANGED <<handling, subs, reg>>,
         \A j \in Conns : /\ conn'[j].client = conn[j].client /\ conn'[j].far = conn[j].far
                          /\ conn'[j].up = conn[j].up
                          /\ (j = client[c].sock => ~conn'[j].near)
                          /\ (j # client[c].sock => conn'[j].near = conn[j].near),
         \A d \in Clients \ {c} : client'[d] = client[d],
         client'[c].sock = 0, client'[c].sinks \subseteq client[c].sinks,
         client'[c].preserved \subseteq client[c].preserved
  PROVE RegInv'
<1>0. SameHands /\ \A k : Handlers(k)' = Handlers(k)
  BY NoHands DEF Handlers
<1>1. Socks'
  <2>1. ASSUME NEW d \in Clients, NEW k \in Conns, client'[d].sock = k
        PROVE /\ conn'[k].client = d /\ conn'[k].near
              /\ \A j \in Conns \ {k} : conn'[j].client = d => ~conn'[j].far /\ Handlers(j)' = {}
    <3>1. d # c /\ client[d].sock = k
      BY <2>1, ConnTypes
    <3>2. conn[k].client = d /\ conn[k].near
      BY <3>1 DEF RegInv, Socks
    <3>3. client[c].sock # k
      BY <3>1, <3>2 DEF RegInv, Socks
    <3>4. \A j \in Conns \ {k} : conn[j].client = d => ~conn[j].far /\ Handlers(j) = {}
      BY <3>1 DEF RegInv, Socks
    <3>5. conn'[k].client = d /\ conn'[k].near
      BY <3>2, <3>3
    <3> QED BY <1>0, <3>4, <3>5
  <2> QED BY <2>1 DEF Socks
<1>2. Apart'
  <2>1. \A d \in Clients : /\ client'[d].sinks \subseteq client[d].sinks
                           /\ client'[d].preserved \subseteq client[d].preserved
    OBVIOUS
  <2>2. \A d \in Clients : /\ client[d].sinks \cap client[d].preserved = {}
                           /\ \A e \in Clients \ {d} : client[d].sinks \cap client[e].sinks = {}
    BY DEF RegInv, Apart
  <2>3. ASSUME NEW d \in Clients, NEW e \in Clients \ {d}
        PROVE client'[d].sinks \cap client'[e].sinks = {}
    <3>1. /\ client[d].sinks \cap client[e].sinks = {}
          /\ client'[d].sinks \subseteq client[d].sinks /\ client'[e].sinks \subseteq client[e].sinks
      BY <2>1, <2>2
    <3> QED BY <3>1
  <2>4. ASSUME NEW d \in Clients PROVE client'[d].sinks \cap client'[d].preserved = {}
    <3>1. /\ client[d].sinks \cap client[d].preserved = {}
          /\ client'[d].sinks \subseteq client[d].sinks
          /\ client'[d].preserved \subseteq client[d].preserved
      BY <2>1, <2>2
    <3> QED BY <3>1
  <2> QED BY <2>3, <2>4 DEF Apart
<1>3. Hands'
  BY HandlingTypes DEF RegInv, Hands
<1>4. Strangers'
  <2>1. \A d \in Clients : client'[d].sinks \subseteq client[d].sinks
    OBVIOUS
  <2> QED BY <2>1 DEF RegInv, Strangers
<1>5. Served'
  <2>1. ASSUME NEW d \in Clients, NEW k \in Conns, client'[d].sock = k, conn'[k].far
        PROVE EndsIn(conn'[k].up, client'[d].sinks) \/ (NoPublish(conn'[k].up) /\ AtHand(d, k)')
    <3>1. d # c /\ client'[d] = client[d] /\ conn[k].far /\ conn'[k].up = conn[k].up
      BY <2>1, ConnTypes
    <3>2. EndsIn(conn[k].up, client[d].sinks) \/ (NoPublish(conn[k].up) /\ AtHand(d, k))
      BY <2>1, <3>1 DEF RegInv, Served
    <3> QED BY <1>0, <3>1, <3>2, AtHandSame
  <2> QED BY <2>1 DEF Served
<1> QED BY <1>1, <1>2, <1>3, <1>4, <1>5 DEF RegInv

\* No publish of another process names o any more, on its way or at hand.
Unnamed(c, o) ==
  /\ \A k \in Conns : conn[k].client # c => ~Names(conn[k].up, o)
  /\ \A i \in DOMAIN handling :
       handling[i].client # c => o \notin handling[i].active \cup handling[i].waits

\* What a process that publishes its sessions, or will on its next connection, keeps.
LEMMA MovedReg ==
  ASSUME CompletionInv, RegInv, NEW c \in Clients, UNCHANGED <<handling, subs, reg>>,
         \A d \in Clients \ {c} : client'[d] = client[d],
         client'[c].sock = client[c].sock, client'[c].sinks \cap client'[c].preserved = {},
         \A d \in Clients \ {c} : client'[c].sinks \cap client[d].sinks = {},
         \A o \in client'[c].sinks : Unnamed(c, o),
         \A k \in Conns :
           /\ conn'[k].client = conn[k].client /\ conn'[k].near = conn[k].near
           /\ conn'[k].far = conn[k].far
           /\ k # client[c].sock => conn'[k].up = conn[k].up
           /\ \A o : Names(conn'[k].up, o) => Names(conn[k].up, o) \/ o \in client'[c].sinks
           /\ k = client[c].sock /\ conn[k].far => EndsIn(conn'[k].up, client'[c].sinks)
  PROVE RegInv'
<1>0. SameHands /\ \A k : Handlers(k)' = Handlers(k)
  BY NoHands DEF Handlers
<1>1. Socks'
  <2>1. \A d \in Clients : client'[d].sock = client[d].sock
    OBVIOUS
  <2> QED BY <1>0, <2>1 DEF RegInv, Socks
<1>2. Apart'
  <2>1. ASSUME NEW d \in Clients, NEW e \in Clients \ {d}
        PROVE client'[d].sinks \cap client'[e].sinks = {}
    <3>1. CASE d = c
      BY <2>1, <3>1
    <3>2. CASE d # c /\ e = c
      <4>1. client'[e].sinks \cap client'[d].sinks = {}
        BY <3>2
      <4> QED BY <4>1
    <3>3. CASE d # c /\ e # c
      BY <2>1, <3>3 DEF RegInv, Apart
    <3> QED BY <3>1, <3>2, <3>3
  <2>2. ASSUME NEW d \in Clients PROVE client'[d].sinks \cap client'[d].preserved = {}
    BY DEF RegInv, Apart
  <2> QED BY <2>1, <2>2 DEF Apart
<1>3. Hands'
  BY HandlingTypes DEF RegInv, Hands
<1>4. Strangers'
  <2>1. ASSUME NEW d \in Clients, NEW o \in client'[d].sinks, NEW k \in Conns, conn'[k].client # d
        PROVE ~Names(conn'[k].up, o)
    <3>1. CASE d = c
      <4>1. ~Names(conn[k].up, o) /\ conn[k].client # c
        BY <2>1, <3>1 DEF Unnamed
      <4>2. k # client[c].sock
        BY <4>1 DEF RegInv, Socks
      <4> QED BY <4>1, <4>2
    <3>2. CASE d # c
      <4>1. o \in client[d].sinks /\ o \notin client'[c].sinks
        BY <2>1, <3>2
      <4>2. ~Names(conn[k].up, o)
        BY <2>1, <4>1 DEF RegInv, Strangers
      <4> QED BY <4>1, <4>2
    <3> QED BY <3>1, <3>2
  <2>2. ASSUME NEW d \in Clients, NEW o \in client'[d].sinks, NEW i \in DOMAIN handling,
               handling[i].client # d
        PROVE o \notin handling[i].active \cup handling[i].waits
    BY <2>2 DEF Unnamed, RegInv, Strangers
  <2> QED BY <2>1, <2>2 DEF Strangers
<1>5. Served'
  <2>1. ASSUME NEW d \in Clients, NEW k \in Conns, client'[d].sock = k, conn'[k].far
        PROVE EndsIn(conn'[k].up, client'[d].sinks) \/ (NoPublish(conn'[k].up) /\ AtHand(d, k)')
    <3>1. CASE d = c
      BY <2>1, <3>1
    <3>2. CASE d # c
      <4>1. client[d].sock = k /\ conn[k].far /\ client'[d] = client[d]
        BY <2>1, <3>2
      <4>2. k # client[c].sock
        BY <3>2, <4>1 DEF RegInv, Socks
      <4>3. EndsIn(conn[k].up, client[d].sinks) \/ (NoPublish(conn[k].up) /\ AtHand(d, k))
        BY <4>1 DEF RegInv, Served
      <4> QED BY <1>0, <4>1, <4>2, <4>3, AtHandSame
    <3> QED BY <3>1, <3>2
  <2> QED BY <2>1 DEF Served
<1> QED BY <1>1, <1>2, <1>3, <1>4, <1>5 DEF RegInv

LEMMA PublishesReg ==
  ASSUME CompletionInv, RegInv, NEW c \in Clients, NEW cl \in ClientRecords, Publishes(c, cl),
         cl.sock = client[c].sock, cl.sinks \cap cl.preserved = {},
         \A d \in Clients \ {c} : cl.sinks \cap client[d].sinks = {},
         \A o \in cl.sinks : Unnamed(c, o), UNCHANGED service
  PROVE RegInv'
<1> DEFINE l == PublishOf(cl)
<1>1. /\ l \in UpLines(HeardOf) /\ l.kind = "publish" /\ l.active = cl.sinks
      /\ l.detached = cl.preserved
  BY DEF PublishOf, UpLines, ClientRecords
<1> HIDE DEF l
<1>2. UNCHANGED <<handling, subs, reg>>
  BY DEF service, memory
<1>3. cl.sock \in 0 .. MaxConn /\ Net(conn, HeardOf) /\ client \in [Clients -> ClientRecords]
  BY DEF CompletionInv, Typed, ClientRecords
<1>4. \A d \in Clients \ {c} : client'[d] = client[d]
  BY <1>3 DEF Publishes
<1>5. client'[c].sock = cl.sock /\ client'[c].sinks = cl.sinks /\ client'[c].preserved = cl.preserved
  <2>1. client'[c] = cl \/ client'[c] = [cl EXCEPT !.want = TRUE]
    BY <1>3 DEF Publishes
  <2> QED BY <2>1 DEF ClientRecords
<1>6. \A k \in Conns :
        /\ conn'[k].client = conn[k].client /\ conn'[k].near = conn[k].near
        /\ conn'[k].far = conn[k].far
        /\ conn'[k].up = IF k = cl.sock /\ conn[k].far THEN Append(conn[k].up, l) ELSE conn[k].up
  <2>1. CASE cl.sock # 0
    <3>1. conn' = SendUp(conn, cl.sock, l)
      BY <2>1 DEF Publishes, l
    <3> QED BY <1>3, <3>1, SendUpFields
  <2>2. CASE cl.sock = 0
    BY <2>2, ConnTypes DEF Publishes
  <2> QED BY <2>1, <2>2
<1>7. \A k \in Conns : /\ EndsIn(Append(conn[k].up, l), cl.sinks)
                       /\ \A o : Names(Append(conn[k].up, l), o) => Names(conn[k].up, o) \/ o \in cl.sinks
  <2>1. l.detached \cap l.active = {}
    BY <1>1
  <2> QED BY <1>1, <2>1, ConnTypes, AppendPublish
<1>8. \A k \in Conns :
        /\ k # client[c].sock => conn'[k].up = conn[k].up
        /\ \A o : Names(conn'[k].up, o) => Names(conn[k].up, o) \/ o \in client'[c].sinks
        /\ k = client[c].sock /\ conn[k].far => EndsIn(conn'[k].up, client'[c].sinks)
  BY <1>5, <1>6, <1>7
<1>9. \A d \in Clients \ {c} : client'[c].sinks \cap client[d].sinks = {}
  BY <1>5
<1>10. (\A o \in client'[c].sinks : Unnamed(c, o)) /\ client'[c].sinks \cap client'[c].preserved = {}
  BY <1>5
<1> QED BY <1>2, <1>4, <1>5, <1>6, <1>8, <1>9, <1>10, MovedReg

\* The sessions a process has already are not named by others.
LEMMA OwnUnnamed ==
  ASSUME RegInv, NEW c \in Clients, NEW o \in client[c].sinks PROVE Unnamed(c, o)
BY DEF RegInv, Strangers, Unnamed

LEMMA IdleLine ==
  ASSUME CompletionInv, NEW k \in Conns, ~Busy(k) PROVE conn[k].up = <<>> /\ Handlers(k) = {}
<1>1. conn[k].up \in Seq(UpLines(HeardOf)) /\ conn[k].down \in Seq(DownLines)
  BY DEF CompletionInv, Net, ConnRecords
<1> DEFINE u == Len(conn[k].up)
           v == Len(conn[k].down)
<1>2. u \in Nat /\ v \in Nat
  BY <1>1, LenProperties
<1>3. ~(u + v > 0) /\ Handlers(k) = {}
  BY DEF Busy
<1> HIDE DEF u, v
<1>4. u = 0
  BY <1>2, <1>3
<1> QED BY <1>1, <1>3, <1>4, EmptySeq DEF u

LEMMA LeftUnnamed ==
  ASSUME CompletionInv, RegInv, NEW c \in Clients, NEW o \in Owners, LeftBehind(c, o)
  PROVE Unnamed(c, o)
<1>1. ASSUME NEW k \in Conns, conn[k].client # c PROVE ~Names(conn[k].up, o)
  <2>1. CASE Busy(k)
    BY <1>1, <2>1 DEF LeftBehind, Names
  <2>2. CASE ~Busy(k)
    BY <2>2, IdleLine, NothingSaid
  <2> QED BY <2>1, <2>2
<1>2. ASSUME NEW i \in DOMAIN handling, handling[i].client # c
      PROVE o \notin handling[i].active \cup handling[i].waits
  <2> DEFINE k == handling[i].conn
  <2>1. k \in Conns /\ conn[k].client # c /\ i \in Handlers(k)
    BY <1>2, HandlingTypes DEF RegInv, Hands, Handlers
  <2> QED BY <2>1 DEF LeftBehind, Busy
<1> QED BY <1>1, <1>2 DEF Unnamed

LEMMA OnCompletionReg ==
  ASSUME CompletionInv, RegInv, NEW c \in Clients, NEW o \in Owners, OnCompletion(c, o)
  PROVE RegInv'
<1> DEFINE cl == [client[c] EXCEPT
       !.sinks = @ \cup {o}, !.preserved = @ \ {o},
       !.replays = IF o \in client[c].preserved THEN @ \cup {o} ELSE @]
<1>1. /\ cl \in ClientRecords /\ cl.sinks = client[c].sinks \cup {o}
      /\ cl.preserved = client[c].preserved \ {o} /\ cl.sock = client[c].sock
  BY DEF CompletionInv, Typed, ClientRecords
<1>2. Publishes(c, cl) /\ UNCHANGED service /\ LeftBehind(c, o)
  BY DEF OnCompletion
<1>3. \A d \in Clients : o \notin client[d].sinks
  BY DEF OnCompletion
<1> HIDE DEF cl
<1>4. cl.sinks \cap cl.preserved = {} /\ \A d \in Clients \ {c} : cl.sinks \cap client[d].sinks = {}
  BY <1>1, <1>3 DEF RegInv, Apart
<1>5. \A x \in cl.sinks : Unnamed(c, x)
  BY <1>1, <1>2, LeftUnnamed, OwnUnnamed
<1> QED BY <1>1, <1>2, <1>4, <1>5, PublishesReg

LEMMA UnsubscribeReg ==
  ASSUME CompletionInv, RegInv, NEW c \in Clients, NEW o \in Owners, Unsubscribe(c, o)
  PROVE RegInv'
<1> DEFINE cl == [client[c] EXCEPT !.sinks = @ \ {o}, !.preserved = @ \cup {o}]
<1>1. /\ cl \in ClientRecords /\ cl.sinks = client[c].sinks \ {o}
      /\ cl.preserved = client[c].preserved \cup {o} /\ cl.sock = client[c].sock
  BY DEF CompletionInv, Typed, ClientRecords
<1>2. Publishes(c, cl) /\ UNCHANGED service
  BY DEF Unsubscribe
<1> HIDE DEF cl
<1>4. cl.sinks \cap cl.preserved = {} /\ \A d \in Clients \ {c} : cl.sinks \cap client[d].sinks = {}
  BY <1>1 DEF RegInv, Apart
<1>5. \A x \in cl.sinks : Unnamed(c, x)
  BY <1>1, OwnUnnamed
<1> QED BY <1>1, <1>2, <1>4, <1>5, PublishesReg

LEMMA ConnectReg ==
  ASSUME CompletionInv, RegInv, ~SlowBroker, NEW c \in Clients, NEW k \in Conns, Connect(c, k)
  PROVE RegInv'
<1> DEFINE l == PublishOf(client[c])
<1>1. /\ l.kind = "publish" /\ l.active = client[c].sinks /\ l.detached = client[c].preserved
  BY DEF PublishOf
<1>2. /\ \A j \in Conns : conn[j].client = c => ~conn[j].far /\ Handlers(j) = {}
      /\ ~conn[k].near /\ Handlers(k) = {} /\ client[c].sock = 0
      /\ UNCHANGED <<handling, subs, reg>>
  BY DEF Connect, Free, service, memory
<1>3. /\ conn'[k].client = c /\ conn'[k].near /\ conn'[k].up = <<l>>
      /\ \A j \in Conns \ {k} : conn'[j] = conn[j]
  <2>1. conn \in [Conns -> ConnRecords(HeardOf)]
    BY DEF CompletionInv, Net
  <2> HIDE DEF l
  <2>2. conn' = [conn EXCEPT ![k] = [client |-> c, near |-> TRUE, far |-> TRUE, up |-> <<l>>,
                                     down |-> <<>>]]
    BY DEF Connect, l
  <2> QED BY <2>1, <2>2
<1>4. /\ client'[c].sock = k /\ client'[c].sinks = client[c].sinks
      /\ client'[c].preserved = client[c].preserved
      /\ \A d \in Clients \ {c} : client'[d] = client[d]
  BY DEF Connect, CompletionInv, Typed, ClientRecords
<1> HIDE DEF l
<1>5. \A j : Handlers(j)' = Handlers(j)
  BY <1>2 DEF Handlers
<1>6. EndsIn(<<l>>, client[c].sinks) /\ \A o : Names(<<l>>, o) => o \in client[c].sinks
  <2>1. client[c].preserved \cap client[c].sinks = {}
    BY DEF RegInv, Apart
  <2>2. DOMAIN <<l>> = {1} /\ <<l>>[1] = l
    OBVIOUS
  <2> QED BY <1>1, <2>1, <2>2 DEF EndsIn, Names
<1>7. Socks'
  <2>1. ASSUME NEW d \in Clients, NEW m \in Conns, client'[d].sock = m
        PROVE /\ conn'[m].client = d /\ conn'[m].near
              /\ \A j \in Conns \ {m} : conn'[j].client = d => ~conn'[j].far /\ Handlers(j)' = {}
    <3>1. CASE d = c
      BY <1>2, <1>3, <1>4, <1>5, <2>1, <3>1
    <3>2. CASE d # c
      <4>1. /\ conn[m].client = d /\ conn[m].near
            /\ \A j \in Conns \ {m} : conn[j].client = d => ~conn[j].far /\ Handlers(j) = {}
        BY <1>4, <2>1, <3>2 DEF RegInv, Socks
      <4>2. m # k
        BY <1>2, <4>1
      <4> QED BY <1>3, <1>5, <3>2, <4>1, <4>2
    <3> QED BY <3>1, <3>2
  <2> QED BY <2>1 DEF Socks
<1>8. Apart'
  <2>1. \A d \in Clients : client'[d].sinks = client[d].sinks /\ client'[d].preserved = client[d].preserved
    BY <1>4
  <2> QED BY <2>1 DEF RegInv, Apart
<1>9. \A i \in DOMAIN handling : handling[i].conn \in Conns /\ handling[i].conn # k
  BY <1>2, HandlingTypes DEF Handlers
<1>10. Hands'
  BY <1>2, <1>3, <1>9 DEF RegInv, Hands
<1>11. Strangers'
  <2>1. ASSUME NEW d \in Clients, NEW o \in client'[d].sinks, NEW m \in Conns, conn'[m].client # d
        PROVE ~Names(conn'[m].up, o)
    <3>0. o \in client[d].sinks
      BY <1>4
    <3>1. CASE m = k
      BY <1>3, <1>6, <2>1, <3>0, <3>1 DEF RegInv, Apart
    <3>2. CASE m # k
      BY <1>3, <2>1, <3>0, <3>2 DEF RegInv, Strangers
    <3> QED BY <3>1, <3>2
  <2>2. ASSUME NEW d \in Clients, NEW o \in client'[d].sinks, NEW i \in DOMAIN handling,
               handling[i].client # d
        PROVE o \notin handling[i].active \cup handling[i].waits
    BY <1>4, <2>2 DEF RegInv, Strangers
  <2> QED BY <1>2, <2>1, <2>2 DEF Strangers
<1>12. Served'
  <2>1. ASSUME NEW d \in Clients, NEW m \in Conns, client'[d].sock = m, conn'[m].far
        PROVE EndsIn(conn'[m].up, client'[d].sinks) \/ (NoPublish(conn'[m].up) /\ AtHand(d, m)')
    <3>1. CASE d = c
      BY <1>3, <1>4, <1>6, <2>1, <3>1
    <3>2. CASE d # c
      <4>1. client[d].sock = m /\ client'[d] = client[d]
        BY <1>4, <2>1, <3>2
      <4>2. m # k
        BY <1>2, <4>1 DEF RegInv, Socks
      <4>3. EndsIn(conn[m].up, client[d].sinks) \/ (NoPublish(conn[m].up) /\ AtHand(d, m))
        BY <1>3, <2>1, <4>1, <4>2 DEF RegInv, Served
      <4> QED BY <1>2, <1>3, <4>1, <4>2, <4>3, AtHandSame, NoHands
    <3> QED BY <3>1, <3>2
  <2> QED BY <2>1 DEF Served
<1> QED BY <1>7, <1>8, <1>10, <1>11, <1>12 DEF RegInv

\* The broker closes its end of a connection that its process has dropped.
LEMMA BrokerSeesCloseReg ==
  ASSUME CompletionInv, RegInv, NEW k \in Conns, BrokerSeesClose(k) PROVE RegInv'
<1>1. /\ \A j \in Conns : conn'[j].client = conn[j].client /\ conn'[j].near = conn[j].near
      /\ ~conn'[k].far /\ conn'[k].up = <<>>
      /\ \A j \in Conns \ {k} : conn'[j].far = conn[j].far /\ conn'[j].up = conn[j].up
  BY DEF BrokerSeesClose, CompletionInv, Net, ConnRecords
<1>2. /\ UNCHANGED <<handling, subs, client>> /\ ~conn[k].near
      /\ \A o \in Owners : reg'[o] = IF reg[o] = k THEN 0 ELSE reg[o]
  BY DEF BrokerSeesClose
<1>3. \A j : Handlers(j)' = Handlers(j)
  BY <1>2 DEF Handlers
<1>4. Socks'
  BY <1>1, <1>2, <1>3 DEF RegInv, Socks
<1>5. Apart' /\ Hands'
  BY <1>1, <1>2, HandlingTypes DEF RegInv, Apart, Hands
<1>6. Strangers'
  BY <1>1, <1>2, NothingSaid DEF RegInv, Strangers
<1>7. Served'
  <2>1. ASSUME NEW c \in Clients, NEW m \in Conns, client[c].sock = m, conn'[m].far
        PROVE EndsIn(conn'[m].up, client[c].sinks) \/ (NoPublish(conn'[m].up) /\ AtHand(c, m)')
    <3>1. m # k /\ conn[m].far /\ conn'[m].up = conn[m].up
      BY <1>1, <2>1
    <3>2. EndsIn(conn[m].up, client[c].sinks) \/ (NoPublish(conn[m].up) /\ AtHand(c, m))
      BY <2>1, <3>1 DEF RegInv, Served
    <3>3. \A o \in client[c].sinks : reg[o] = m => reg'[o] = m
      BY <1>2, <3>1, ClientTypes
    <3>4. AtHand(c, m) => AtHand(c, m)'
      BY <1>2, <1>3, <3>3 DEF AtHand, BoundBy, Handlers
    <3> QED BY <3>1, <3>2, <3>4
  <2> QED BY <1>2, <2>1 DEF Served
<1> QED BY <1>4, <1>5, <1>6, <1>7 DEF RegInv

\* No connection is open.
LEMMA ClosedReg ==
  ASSUME CompletionInv, RegInv, UNCHANGED client, handling' = handling \/ handling' = <<>>,
         \A k \in Conns : /\ conn'[k].client = conn[k].client /\ conn'[k].near = conn[k].near
                          /\ ~conn'[k].far /\ (conn'[k].up = conn[k].up \/ conn'[k].up = <<>>)
  PROVE RegInv'
<1>1. \A k : Handlers(k)' = Handlers(k) \/ Handlers(k)' = {}
  BY DEF Handlers
<1>2. Socks'
  BY <1>1 DEF RegInv, Socks
<1>3. Apart' /\ Hands'
  BY HandlingTypes DEF RegInv, Apart, Hands
<1>4. Strangers'
  BY NothingSaid DEF RegInv, Strangers
<1>5. Served'
  BY DEF Served
<1> QED BY <1>2, <1>3, <1>4, <1>5 DEF RegInv

LEMMA GoneReg ==
  ASSUME CompletionInv, RegInv, Gone PROVE RegInv'
<1>1. \A k \in Conns : /\ conn'[k].client = conn[k].client /\ conn'[k].near = conn[k].near
                       /\ ~conn'[k].far /\ conn'[k].up = <<>>
  BY DEF Gone, CompletionInv, Net, ConnRecords
<1> QED BY <1>1, ClosedReg DEF Gone

LEMMA BrokerStartsReg ==
  ASSUME CompletionInv, RegInv, BrokerStarts PROVE RegInv'
<1>1. UNCHANGED <<handling, conn, client>> /\ \A k \in Conns : ~conn[k].far
  BY DEF BrokerStarts, CompletionInv, Down, peers
<1> QED BY <1>1, ClosedReg

---------------------------------------------------------------------------
(* Publishes at hand.                                                      *)

\* Publish h of its connection is at hand, beside those of the queue, all of them of
\* other connections; net is what is under way but for h.
Taken(h, net, queue) ==
  /\ h \in Begun /\ conn[h.conn].client = h.client
  /\ \A k \in Conns : client[h.client].sock = k => k = h.conn
  /\ \A c \in Clients \ {h.client} : client[c].sinks \cap (h.active \cup h.waits) = {}
  /\ Net(net, HeardOf)
  /\ \A j \in Conns : /\ net[j].client = conn[j].client /\ net[j].near = conn[j].near
                      /\ net[j].far = conn[j].far /\ (j # h.conn => net[j].up = conn[j].up)
                      /\ \A o : Names(net[j].up, o) => Names(conn[j].up, o)
  /\ queue \in Seq(Publish(OneOf(Subscribed)))
  /\ \A i \in DOMAIN queue :
       /\ queue[i].conn # h.conn /\ \E m \in DOMAIN handling : queue[i] = handling[m]
       /\ \A j \in DOMAIN queue : queue[j].conn = queue[i].conn => j = i
  /\ \A m \in DOMAIN handling :
       handling[m].conn # h.conn => \E i \in DOMAIN queue : queue[i] = handling[m]

\* The owners of h are those of its process, or will be with a publish on its way.
OwnServed(h, net) ==
  client[h.client].sock = h.conn /\ conn[h.conn].far =>
    \/ EndsIn(net[h.conn].up, client[h.client].sinks)
    \/ /\ NoPublish(net[h.conn].up)
       /\ \A o \in client[h.client].sinks : o \notin h.detached /\ BoundBy(h.client, o, h)

\* A publish g that is h, further on
Later(g, h) ==
  /\ g.conn = h.conn /\ g.client = h.client /\ g.detached = h.detached
  /\ g.active \subseteq h.active /\ g.waits \subseteq h.active

\* What the broker does with h up to its next wait, or its end.
Bind(h, net, queue, g) ==
  /\ UNCHANGED client
  /\ \A j \in Conns : /\ conn'[j].client = net[j].client /\ conn'[j].near = net[j].near
                      /\ conn'[j].far = net[j].far /\ conn'[j].up = net[j].up
  /\ Later(g, h) /\ (handling' = queue \/ handling' = Append(queue, g))
  /\ \A d \in Clients \ {h.client} : \A o \in client[d].sinks :
       subs[o] = d => subs'[o] = d /\ reg'[o] = reg[o]
  /\ \A o \in client[h.client].sinks :
       conn[h.conn].far /\ o \notin h.detached /\ BoundBy(h.client, o, h) =>
         IF handling' = queue THEN reg'[o] = h.conn /\ subs'[o] = h.client
         ELSE o \in g.active \/ (subs'[o] = h.client /\ (o \in g.waits \/ reg'[o] = h.conn))

\* The publishes at hand afterwards: those of the queue, and g if it is not done.
LEMMA HandsAfter ==
  ASSUME NEW h, NEW net, NEW queue, NEW g, Taken(h, net, queue), Bind(h, net, queue, g)
  PROVE /\ \A i \in DOMAIN queue : i \in DOMAIN handling' /\ handling'[i] = queue[i]
        /\ \A i \in DOMAIN handling' \ DOMAIN queue :
             /\ handling' # queue /\ handling'[i] = g
             /\ \A j \in DOMAIN handling' \ DOMAIN queue : j = i
        /\ handling' # queue => \E i \in DOMAIN handling' : handling'[i] = g
<1>1. queue \in Seq(Publish(OneOf(Subscribed))) /\ (handling' = queue \/ handling' = Append(queue, g))
  BY DEF Taken, Bind
<1>2. /\ Len(queue) \in Nat /\ DOMAIN queue = 1 .. Len(queue)
      /\ DOMAIN Append(queue, g) = 1 .. Len(queue) + 1 /\ Append(queue, g)[Len(queue) + 1] = g
      /\ \A i \in 1 .. Len(queue) : Append(queue, g)[i] = queue[i]
  <2>1. Len(queue) \in Nat /\ DOMAIN queue = 1 .. Len(queue)
    BY <1>1, LenProperties
  <2>2. queue \in Seq(Publish(OneOf(Subscribed)) \cup {g}) /\ g \in Publish(OneOf(Subscribed)) \cup {g}
    BY <1>1, SeqMonotonic
  <2> HIDE <1>1
  <2> QED BY <2>1, <2>2, AppendProperties
<1> QED BY <1>1, <1>2

LEMMA HandlersAfter ==
  ASSUME NEW h, NEW net, NEW queue, NEW g, Taken(h, net, queue), Bind(h, net, queue, g),
         NEW k, k # h.conn
  PROVE /\ Handlers(k)' = {} => Handlers(k) = {}
        /\ \A i \in Handlers(k)' : \E m \in Handlers(k) : handling'[i] = handling[m]
<1>1. Handlers(k)' = {i \in DOMAIN handling' : handling'[i].conn = k}
  BY DEF Handlers
<1>2. ASSUME NEW i \in Handlers(k)' PROVE \E m \in Handlers(k) : handling'[i] = handling[m]
  <2>1. i \in DOMAIN handling' /\ handling'[i].conn = k
    BY <1>1, <1>2
  <2>2. i \in DOMAIN queue
    BY <2>1, HandsAfter DEF Bind, Later
  <2>3. handling'[i] = queue[i] /\ \E m \in DOMAIN handling : queue[i] = handling[m]
    BY <2>2, HandsAfter DEF Taken
  <2> QED BY <2>1, <2>3 DEF Handlers
<1>3. ASSUME NEW m \in Handlers(k) PROVE Handlers(k)' # {}
  <2>1. m \in DOMAIN handling /\ handling[m].conn = k
    BY <1>3 DEF Handlers
  <2>2. PICK i \in DOMAIN queue : queue[i] = handling[m]
    BY <2>1 DEF Taken
  <2>3. i \in DOMAIN handling' /\ handling'[i].conn = k
    BY <2>1, <2>2, HandsAfter
  <2> QED BY <1>1, <2>3
<1> QED BY <1>2, <1>3

LEMMA BindReg ==
  ASSUME CompletionInv, RegInv, NEW h, NEW net, NEW queue, NEW g, Taken(h, net, queue),
         OwnServed(h, net), Bind(h, net, queue, g)
  PROVE RegInv'
<1>1. h.conn \in Conns /\ h.client \in Clients
  BY DEF Taken, Begun, Publish
<1>2. \A j \in Conns :
        /\ conn'[j].client = conn[j].client /\ conn'[j].near = conn[j].near
        /\ conn'[j].far = conn[j].far /\ (j # h.conn => conn'[j].up = conn[j].up)
        /\ \A o : Names(conn'[j].up, o) => Names(conn[j].up, o)
  BY DEF Taken, Bind
<1>3. UNCHANGED client
  BY DEF Bind
<1>4. Socks'
  <2>1. ASSUME NEW c \in Clients, NEW k \in Conns, client[c].sock = k, NEW j \in Conns \ {k},
               conn[j].client = c
        PROVE ~conn[j].far /\ Handlers(j)' = {}
    <3>1. ~conn[j].far /\ Handlers(j) = {}
      BY <2>1 DEF RegInv, Socks
    <3>2. j # h.conn
      BY <2>1 DEF Taken
    <3>3. \A i \in Handlers(j)' : \E m \in Handlers(j) : handling'[i] = handling[m]
      BY <3>2, HandlersAfter
    <3> QED BY <3>1, <3>3
  <2> QED BY <1>2, <1>3, <2>1 DEF RegInv, Socks
<1>5. Apart'
  BY <1>3 DEF RegInv, Apart
<1>6. \A i \in DOMAIN handling' :
        \/ i \in DOMAIN queue /\ handling'[i] = queue[i]
        \/ i \notin DOMAIN queue /\ handling'[i] = g
  BY HandsAfter
<1>7. Hands'
  <2>1. ASSUME NEW i \in DOMAIN handling'
        PROVE handling'[i].client = conn'[handling'[i].conn].client
    <3>1. CASE i \in DOMAIN queue /\ handling'[i] = queue[i]
      <4>1. PICK m \in DOMAIN handling : queue[i] = handling[m]
        BY <3>1 DEF Taken
      <4> QED BY <1>2, <3>1, <4>1, HandlingTypes DEF RegInv, Hands
    <3>2. CASE handling'[i] = g
      <4>1. g.conn = h.conn /\ g.client = h.client /\ conn[h.conn].client = h.client
        BY DEF Bind, Later, Taken
      <4> QED BY <1>1, <1>2, <3>2, <4>1
    <3> QED BY <1>6, <3>1, <3>2
  <2>2. ASSUME NEW i \in DOMAIN handling', NEW j \in DOMAIN handling',
               handling'[j].conn = handling'[i].conn
        PROVE j = i
    <3>1. \A m \in DOMAIN handling' : m \in DOMAIN queue <=> handling'[m].conn # h.conn
      BY <1>6 DEF Taken, Bind, Later
    <3>2. CASE i \in DOMAIN queue /\ j \in DOMAIN queue
      BY <1>6, <2>2, <3>2 DEF Taken
    <3>3. CASE i \notin DOMAIN queue /\ j \notin DOMAIN queue
      BY <2>2, <3>3, HandsAfter
    <3> QED BY <2>2, <3>1, <3>2, <3>3
  <2> QED BY <2>1, <2>2 DEF Hands
<1>8. Strangers'
  <2>1. ASSUME NEW c \in Clients, NEW o \in client[c].sinks, NEW k \in Conns, conn'[k].client # c
        PROVE ~Names(conn'[k].up, o)
    BY <1>2, <2>1 DEF RegInv, Strangers
  <2>2. ASSUME NEW c \in Clients, NEW o \in client[c].sinks, NEW i \in DOMAIN handling',
               handling'[i].client # c
        PROVE o \notin handling'[i].active \cup handling'[i].waits
    <3>1. CASE i \in DOMAIN queue /\ handling'[i] = queue[i]
      <4>1. PICK m \in DOMAIN handling : queue[i] = handling[m]
        BY <3>1 DEF Taken
      <4> QED BY <2>2, <3>1, <4>1 DEF RegInv, Strangers
    <3>2. CASE handling'[i] = g
      <4>1. g.client = h.client /\ g.active \subseteq h.active /\ g.waits \subseteq h.active
        BY DEF Bind, Later
      <4>2. client[c].sinks \cap (h.active \cup h.waits) = {}
        BY <2>2, <3>2, <4>1 DEF Taken
      <4> QED BY <3>2, <4>1, <4>2
    <3> QED BY <1>6, <3>1, <3>2
  <2> QED BY <1>3, <2>1, <2>2 DEF Strangers
<1>9. Served'
  <2>1. ASSUME NEW c \in Clients, NEW k \in Conns, client[c].sock = k, conn[k].far, c # h.client
        PROVE EndsIn(conn'[k].up, client[c].sinks) \/ (NoPublish(conn'[k].up) /\ AtHand(c, k)')
    <3>1. k # h.conn
      BY <2>1 DEF RegInv, Socks, Taken
    <3>2. EndsIn(conn[k].up, client[c].sinks) \/ (NoPublish(conn[k].up) /\ AtHand(c, k))
      BY <2>1 DEF RegInv, Served
    <3>3. \A o \in client[c].sinks : subs[o] = c => subs'[o] = c /\ reg'[o] = reg[o]
      BY <2>1 DEF Bind
    <3>4. ASSUME AtHand(c, k), NEW o \in client[c].sinks
          PROVE Handlers(k)' = {} => reg'[o] = k /\ subs'[o] = c
      BY <3>1, <3>3, <3>4, HandlersAfter DEF AtHand
    <3>5. ASSUME AtHand(c, k), NEW o \in client[c].sinks, NEW i \in Handlers(k)'
          PROVE o \notin handling'[i].detached /\ BoundBy(c, o, handling[i])'
      <4>1. PICK m \in Handlers(k) : handling'[i] = handling[m]
        BY <3>1, <3>5, HandlersAfter
      <4>2. o \notin handling[m].detached /\ BoundBy(c, o, handling[m])
        BY <3>5 DEF AtHand
      <4> QED BY <3>3, <4>1, <4>2 DEF BoundBy
    <3>6. AtHand(c, k) => AtHand(c, k)'
      BY <1>3, <3>4, <3>5 DEF AtHand
    <3> QED BY <1>2, <3>1, <3>2, <3>6
  <2>2. ASSUME client[h.client].sock = h.conn, conn[h.conn].far
        PROVE \/ EndsIn(conn'[h.conn].up, client[h.client].sinks)
              \/ NoPublish(conn'[h.conn].up) /\ AtHand(h.client, h.conn)'
    <3>0. conn'[h.conn].up = net[h.conn].up
      BY <1>1 DEF Bind
    <3>1. CASE EndsIn(net[h.conn].up, client[h.client].sinks)
      BY <3>0, <3>1
    <3>2. CASE /\ NoPublish(net[h.conn].up)
               /\ \A o \in client[h.client].sinks : o \notin h.detached /\ BoundBy(h.client, o, h)
      <4>1. \A o \in client[h.client].sinks :
              /\ o \notin h.detached
              /\ IF handling' = queue THEN reg'[o] = h.conn /\ subs'[o] = h.client
                 ELSE o \in g.active \/ (subs'[o] = h.client /\ (o \in g.waits \/ reg'[o] = h.conn))
        BY <2>2, <3>2 DEF Bind
      <4>2. g.conn = h.conn /\ g.detached = h.detached
        BY DEF Bind, Later
      <4>3. \A i \in Handlers(h.conn)' : handling' # queue /\ handling'[i] = g
        <5>1. \A i \in Handlers(h.conn)' : i \in DOMAIN handling' /\ handling'[i].conn = h.conn
          BY DEF Handlers
        <5>2. \A i \in Handlers(h.conn)' : i \in DOMAIN handling' \ DOMAIN queue
          BY <5>1, <1>6 DEF Taken
        <5> QED BY <5>2, HandsAfter
      <4>4. handling' # queue => Handlers(h.conn)' # {}
        <5>1. Handlers(h.conn)' = {i \in DOMAIN handling' : handling'[i].conn = h.conn}
          BY DEF Handlers
        <5> QED BY <4>2, <5>1, HandsAfter
      <4>5. AtHand(h.client, h.conn)'
        <5>1. ASSUME NEW o \in client[h.client].sinks
              PROVE Handlers(h.conn)' = {} => reg'[o] = h.conn /\ subs'[o] = h.client
          BY <4>1, <4>4
        <5>2. ASSUME NEW o \in client[h.client].sinks, NEW i \in Handlers(h.conn)'
              PROVE o \notin handling'[i].detached /\ BoundBy(h.client, o, handling[i])'
          BY <4>1, <4>2, <4>3 DEF BoundBy
        <5> QED BY <1>3, <5>1, <5>2 DEF AtHand
      <4> QED BY <3>0, <3>2, <4>5
    <3> QED BY <2>2, <3>1, <3>2 DEF OwnServed
  <2>3. ASSUME NEW k \in Conns, client[h.client].sock = k PROVE k = h.conn
    BY <2>3 DEF Taken
  <2> QED BY <1>2, <1>3, <2>1, <2>2, <2>3 DEF Served
<1> QED BY <1>4, <1>5, <1>7, <1>8, <1>9 DEF RegInv

LEMMA RegisteredValues ==
  ASSUME NEW S, NEW k \in Conns, NEW o \in Owners
  PROVE /\ o \notin S => Registered(S, k)[o] = reg[o]
        /\ o \in S /\ conn[k].far => Registered(S, k)[o] = k
        /\ reg[o] = k /\ conn[k].far => Registered(S, k)[o] = k
BY DEF Registered

LEMMA BindsUpToBind ==
  ASSUME CompletionInv, NEW h, NEW net, NEW queue, Taken(h, net, queue),
         BindsUpTo(h, net, queue), UNCHANGED client
  PROVE \E g : Bind(h, net, queue, g)
<1>0. PICK w \in h.active : BindsWaitingFor(h, net, queue, w)
  BY DEF BindsUpTo, BindsWaitingFor
<1>1. PICK S \in SUBSET (h.active \ {w}) :
        /\ subs' = [o \in Owners |-> IF o \in S \cup {w} THEN h.client ELSE subs[o]]
        /\ rec' = Bound(h.client, {w})
        /\ reg' = Registered(S \cup h.waits, h.conn)
        /\ conn' = Replayed(net, S \cup h.waits, h)
        /\ handling' = Append(queue, [h EXCEPT !.active = @ \ (S \cup {w}), !.waits = {w}, !.saved = FALSE])
  BY <1>0 DEF BindsWaitingFor
<1> DEFINE g == [h EXCEPT !.active = @ \ (S \cup {w}), !.waits = {w}, !.saved = FALSE]
<1>2. h.client \in Clients /\ h.conn \in Conns /\ h.active \subseteq Owners
  BY DEF Taken, Begun, Publish
<1>3. /\ Later(g, h) /\ g.active = h.active \ (S \cup {w}) /\ g.waits = {w}
  BY <1>0, <1>1 DEF Taken, Begun, Publish, Later
<1>4. handling' = Append(queue, g)
  BY <1>1
<1> HIDE DEF g
<1>5. Append(queue, g) # queue
  <2>1. Len(queue) \in Nat /\ Len(Append(queue, g)) = Len(queue) + 1
    <3>1. queue \in Seq(Publish(OneOf(Subscribed)) \cup {g}) /\ g \in Publish(OneOf(Subscribed)) \cup {g}
      BY SeqMonotonic DEF Taken
    <3> QED BY <3>1, AppendProperties, LenProperties
  <2> QED BY <2>1
<1>6. \A j \in Conns : /\ conn'[j].client = net[j].client /\ conn'[j].near = net[j].near
                       /\ conn'[j].far = net[j].far /\ conn'[j].up = net[j].up
  BY <1>1, ReplayedFields DEF Taken, SameButDown
<1>7. ASSUME NEW d \in Clients \ {h.client}, NEW o \in client[d].sinks, subs[o] = d
      PROVE subs'[o] = d /\ reg'[o] = reg[o]
  <2>1. o \in Owners /\ o \notin h.active \cup h.waits
    BY <1>7, ClientTypes DEF Taken
  <2>2. o \notin S \cup {w} /\ o \notin S \cup h.waits
    BY <1>0, <1>1, <2>1
  <2> QED BY <1>1, <1>2, <1>7, <2>1, <2>2, RegisteredValues
<1>8. ASSUME NEW o \in client[h.client].sinks, conn[h.conn].far, BoundBy(h.client, o, h)
      PROVE o \in g.active \/ (subs'[o] = h.client /\ (o \in g.waits \/ reg'[o] = h.conn))
  <2>1. o \in Owners
    BY <1>2, ClientTypes
  <2>2. CASE o \in h.active
    <3>1. CASE o \in S
      BY <1>1, <1>2, <1>8, <2>1, <3>1, RegisteredValues
    <3>2. CASE o = w
      BY <1>1, <1>3, <2>1, <3>2
    <3>3. CASE o \notin S \cup {w}
      BY <1>3, <2>2, <3>3
    <3> QED BY <3>1, <3>2, <3>3
  <2>3. CASE subs[o] = h.client /\ (o \in h.waits \/ reg[o] = h.conn)
    <3>1. subs'[o] = h.client
      BY <1>1, <2>1, <2>3
    <3>2. reg'[o] = h.conn
      BY <1>1, <1>2, <1>8, <2>1, <2>3, RegisteredValues
    <3> QED BY <3>1, <3>2
  <2> QED BY <1>8, <2>2, <2>3 DEF BoundBy
<1> QED BY <1>3, <1>4, <1>5, <1>6, <1>7, <1>8 DEF Bind

LEMMA BindsToEndBind ==
  ASSUME CompletionInv, NEW h, NEW net, NEW queue, Taken(h, net, queue),
         BindsToEnd(h, net, queue), UNCHANGED client
  PROVE \E g : Bind(h, net, queue, g)
<1> DEFINE S      == h.active \cup h.waits
           at     == Registered(S, h.conn)
           left   == {o \in h.detached : subs[o] \in {None, h.client}}
           told   == Replayed(net, S, h)
           answer == [kind |-> "done", of |-> h.replays]
           g      == [h EXCEPT !.waits = {}]
<1>1. /\ subs' = [o \in Owners |-> IF o \in h.active \cup left THEN h.client ELSE subs[o]]
      /\ reg' = [o \in Owners |-> IF o \in left /\ at[o] # 0 /\ conn[at[o]].client = h.client
                                  THEN 0 ELSE at[o]]
      /\ conn' = IF h.replays = {} THEN told ELSE SendDown(told, h.conn, answer)
      /\ handling' = queue
  BY DEF BindsToEnd
<1>2. h.client \in Clients /\ h.conn \in Conns /\ h.replays \subseteq Owners
  BY DEF Taken, Begun, Publish
<1>3. Later(g, h)
  BY DEF Taken, Begun, Publish, Later
<1>4. \A j \in Conns : /\ conn'[j].client = net[j].client /\ conn'[j].near = net[j].near
                       /\ conn'[j].far = net[j].far /\ conn'[j].up = net[j].up
  <2>1. Net(told, HeardOf) /\ SameButDown(told, net)
    BY <1>2, ReplayedFields, ReplayedNet DEF Taken
  <2> HIDE DEF told, answer
  <2>2. SameButDown(SendDown(told, h.conn, answer), told)
    BY <2>1, SendDownFields
  <2> QED BY <1>1, <2>1, <2>2 DEF SameButDown
<1>5. \A o \in Owners : /\ o \notin S => at[o] = reg[o]
                        /\ o \in S /\ conn[h.conn].far => at[o] = h.conn
                        /\ reg[o] = h.conn /\ conn[h.conn].far => at[o] = h.conn
  BY <1>2, RegisteredValues
<1>6. \A o \in left : o \in h.detached /\ subs[o] \in {None, h.client}
  OBVIOUS
<1> HIDE DEF at, left, told, answer, g
<1>7. ASSUME NEW d \in Clients \ {h.client}, NEW o \in client[d].sinks, subs[o] = d
      PROVE subs'[o] = d /\ reg'[o] = reg[o]
  <2>1. o \in Owners /\ o \notin S
    BY <1>7, ClientTypes DEF Taken
  <2>2. o \notin left
    BY <1>6, <1>7, CompletionAssumption
  <2> QED BY <1>1, <1>5, <1>7, <2>1, <2>2
<1>8. ASSUME NEW o \in client[h.client].sinks, conn[h.conn].far, o \notin h.detached,
             BoundBy(h.client, o, h)
      PROVE reg'[o] = h.conn /\ subs'[o] = h.client
  <2>1. o \in Owners /\ o \notin left
    BY <1>2, <1>6, <1>8, ClientTypes
  <2>2. reg'[o] = at[o] /\ subs'[o] = IF o \in h.active THEN h.client ELSE subs[o]
    BY <1>1, <2>1
  <2> QED BY <1>5, <1>8, <2>1, <2>2 DEF BoundBy
<1>9. Bind(h, net, queue, g)
  BY <1>1, <1>3, <1>4, <1>7, <1>8 DEF Bind
<1> QED BY <1>9

LEMMA BindsReg ==
  ASSUME CompletionInv, RegInv, NEW h, NEW net, NEW queue, Taken(h, net, queue),
         OwnServed(h, net), Binds(h, net, queue)
  PROVE RegInv'
BY BindsUpToBind, BindsToEndBind, BindReg DEF Binds

LEMMA ReceivePublishReg ==
  ASSUME CompletionInv, RegInv, ~Overtaken, NEW k \in Conns, ReceivePublish(k) PROVE RegInv'
<1> DEFINE line == Head(conn[k].up)
           h == [conn |-> k, client |-> conn[k].client, active |-> line.active, waits |-> {},
                 saved |-> FALSE, detached |-> line.detached, replays |-> line.replays]
<1>1. /\ conn[k].far /\ conn[k].up # <<>> /\ line.kind = "publish" /\ Handlers(k) = {}
      /\ Binds(h, Rest(k), handling)
  BY DEF ReceivePublish, Arrived
<1>2. Net(Rest(k), HeardOf) /\ line \in UpLines(HeardOf)
  BY <1>1, TailUpNet DEF CompletionInv, Rest
<1>3. h \in Begun
  BY <1>1, <1>2 DEF CompletionInv, Net, UpLines, Begun, Publish
<1>4. h.conn = k /\ h.client = conn[k].client /\ h.active = line.active /\ h.waits = {} /\ h.detached = line.detached
  OBVIOUS
<1> HIDE DEF h
<1>5. \A j \in Conns :
        /\ Rest(k)[j].client = conn[j].client /\ Rest(k)[j].near = conn[j].near
        /\ Rest(k)[j].far = conn[j].far
        /\ Rest(k)[j].up = IF j = k THEN Tail(conn[k].up) ELSE conn[j].up
  BY TailUpFields DEF CompletionInv, Rest
<1>6. /\ ~NoPublish(conn[k].up)
      /\ \A A : EndsIn(conn[k].up, A) =>
           \/ EndsIn(Tail(conn[k].up), A)
           \/ NoPublish(Tail(conn[k].up)) /\ line.active = A /\ line.detached \cap A = {}
      /\ \A o : Names(Tail(conn[k].up), o) \/ o \in line.active => Names(conn[k].up, o)
  BY <1>1, ConnTypes, TailPublish
<1> HIDE DEF line
<1>7. Taken(h, Rest(k), handling)
  <2>1. \A j \in Conns : client[h.client].sock = j => j = h.conn
    BY <1>1, <1>4, ConnTypes DEF RegInv, Socks
  <2>2. \A c \in Clients \ {h.client} : client[c].sinks \cap (h.active \cup h.waits) = {}
    BY <1>4, <1>6 DEF RegInv, Strangers
  <2>3. \A j \in Conns : /\ Rest(k)[j].client = conn[j].client /\ Rest(k)[j].near = conn[j].near
                         /\ Rest(k)[j].far = conn[j].far
                         /\ (j # h.conn => Rest(k)[j].up = conn[j].up)
                         /\ \A o : Names(Rest(k)[j].up, o) => Names(conn[j].up, o)
    BY <1>4, <1>5, <1>6
  <2>4. \A i \in DOMAIN handling :
          /\ handling[i].conn # h.conn
          /\ \A j \in DOMAIN handling : handling[j].conn = handling[i].conn => j = i
    BY <1>1, <1>4 DEF Handlers, RegInv, Hands
  <2>5. handling \in Seq(Publish(OneOf(Subscribed)))
    BY DEF CompletionInv, Held
  <2> QED BY <1>2, <1>3, <1>4, <2>1, <2>2, <2>3, <2>4, <2>5 DEF Taken
<1>8. OwnServed(h, Rest(k))
  <2>1. ASSUME client[h.client].sock = k
        PROVE EndsIn(conn[k].up, client[h.client].sinks)
    BY <1>1, <1>4, <1>6, <2>1, ConnTypes DEF RegInv, Served
  <2>2. Rest(k)[k].up = Tail(conn[k].up)
    BY <1>5
  <2> QED BY <1>4, <1>6, <2>1, <2>2 DEF OwnServed, BoundBy
<1> QED BY <1>1, <1>7, <1>8, BindsReg

\* A publish taken out of the queue.
LEMMA Removed ==
  ASSUME NEW P, NEW s \in Seq(P), NEW i \in DOMAIN s
  PROVE LET q == SubSeq(s, 1, i - 1) \o SubSeq(s, i + 1, Len(s))
        IN  /\ q \in Seq(P) /\ Len(s) \in Nat /\ i \in 1 .. Len(s)
            /\ DOMAIN s = 1 .. Len(s) /\ DOMAIN q = 1 .. Len(s) - 1
            /\ \A n \in 1 .. Len(s) - 1 : q[n] = s[IF n < i THEN n ELSE n + 1]
<1> DEFINE a == SubSeq(s, 1, i - 1)
           b == SubSeq(s, i + 1, Len(s))
<1>1. Len(s) \in Nat /\ DOMAIN s = 1 .. Len(s) /\ i \in 1 .. Len(s) /\ \A j \in 1 .. Len(s) : s[j] \in P
  BY LenProperties, ElementOfSeq
<1>2. a \in Seq(P) /\ Len(a) = i - 1 /\ \A n \in 1 .. i - 1 : a[n] = s[n]
  BY <1>1, SubSeqProperties
<1>3. b \in Seq(P) /\ Len(b) = Len(s) - i /\ \A n \in 1 .. Len(s) - i : b[n] = s[n + i]
  BY <1>1, SubSeqProperties
<1> HIDE DEF a, b
<1>4. /\ a \o b \in Seq(P) /\ Len(a \o b) = Len(s) - 1
      /\ \A n \in 1 .. Len(s) - 1 : (a \o b)[n] = IF n <= i - 1 THEN a[n] ELSE b[n - (i - 1)]
  <2>1. /\ a \o b \in Seq(P) /\ Len(a \o b) = Len(a) + Len(b)
        /\ \A n \in 1 .. Len(a) + Len(b) : (a \o b)[n] = IF n <= Len(a) THEN a[n] ELSE b[n - Len(a)]
    BY <1>2, <1>3, ConcatProperties
  <2>2. Len(a) + Len(b) = Len(s) - 1
    BY <1>1, <1>2, <1>3
  <2> QED BY <1>2, <2>1, <2>2
<1>5. DOMAIN (a \o b) = 1 .. Len(s) - 1
  BY <1>4, LenProperties
<1>6. ASSUME NEW n \in 1 .. Len(s) - 1
      PROVE (a \o b)[n] = s[IF n < i THEN n ELSE n + 1]
  <2>1. CASE n < i
    BY <1>1, <1>2, <1>4, <2>1
  <2>2. CASE ~(n < i)
    <3>1. n - (i - 1) \in 1 .. Len(s) - i /\ (n - (i - 1)) + i = n + 1 /\ ~(n <= i - 1)
      BY <1>1, <2>2
    <3> QED BY <1>3, <1>4, <2>2, <3>1
  <2> QED BY <2>1, <2>2
<1> QED BY <1>1, <1>4, <1>5, <1>6 DEF a, b

LEMMA ResumeReg ==
  ASSUME CompletionInv, RegInv, NEW i \in DOMAIN handling, Resume(i) PROVE RegInv'
<1> DEFINE P == Publish(OneOf(Subscribed))
           h == handling[i]
           queue == SubSeq(handling, 1, i - 1) \o SubSeq(handling, i + 1, Len(handling))
<1>1. handling \in Seq(P) /\ h \in P
  BY HandlingTypes DEF CompletionInv, Held
<1> HIDE DEF P
<1>2. /\ queue \in Seq(P) /\ Len(handling) \in Nat /\ i \in 1 .. Len(handling)
      /\ DOMAIN handling = 1 .. Len(handling) /\ DOMAIN queue = 1 .. Len(handling) - 1
      /\ \A n \in 1 .. Len(handling) - 1 : queue[n] = handling[IF n < i THEN n ELSE n + 1]
  BY <1>1, Removed
<1>3. Binds(h, conn, queue)
  BY DEF Resume
<1> HIDE DEF queue
<1>4. /\ \A n \in DOMAIN queue : \E m \in DOMAIN handling \ {i} : queue[n] = handling[m]
      /\ \A m \in DOMAIN handling \ {i} : \E n \in DOMAIN queue : queue[n] = handling[m]
  <2>1. ASSUME NEW n \in DOMAIN queue PROVE \E m \in DOMAIN handling \ {i} : queue[n] = handling[m]
    <3>1. (IF n < i THEN n ELSE n + 1) \in DOMAIN handling \ {i}
      BY <1>2
    <3> QED BY <1>2, <3>1
  <2>2. ASSUME NEW m \in DOMAIN handling \ {i} PROVE \E n \in DOMAIN queue : queue[n] = handling[m]
    <3>1. CASE m < i
      BY <1>2, <3>1
    <3>2. CASE ~(m < i)
      <4>1. m - 1 \in DOMAIN queue /\ ~(m - 1 < i) /\ (m - 1) + 1 = m
        BY <1>2, <3>2
      <4> QED BY <1>2, <4>1
    <3> QED BY <3>1, <3>2
  <2> QED BY <2>1, <2>2
<1>5. \A n, m \in DOMAIN queue : queue[n].conn = queue[m].conn => n = m
  <2>1. ASSUME NEW n \in DOMAIN queue, NEW m \in DOMAIN queue, queue[n].conn = queue[m].conn PROVE n = m
    <3> DEFINE x == IF n < i THEN n ELSE n + 1
               y == IF m < i THEN m ELSE m + 1
    <3>1. x \in DOMAIN handling /\ y \in DOMAIN handling /\ queue[n] = handling[x] /\ queue[m] = handling[y]
      BY <1>2
    <3>2. x = y
      <4> HIDE DEF x, y
      <4> QED BY <2>1, <3>1 DEF RegInv, Hands
    <3> QED BY <1>2, <3>2
  <2> QED BY <2>1
<1>6. h.conn \in Conns /\ h.client \in Clients /\ conn[h.conn].client = h.client /\ i \in Handlers(h.conn)
  BY HandlingTypes DEF RegInv, Hands, Handlers
<1>7. \A m \in DOMAIN handling \ {i} : handling[m].conn # h.conn
  BY DEF RegInv, Hands
<1>8. Taken(h, conn, queue)
  <2>1. \A j \in Conns : client[h.client].sock = j => j = h.conn
    BY <1>6 DEF RegInv, Socks
  <2>2. \A c \in Clients \ {h.client} : client[c].sinks \cap (h.active \cup h.waits) = {}
    BY DEF RegInv, Strangers
  <2>3. h \in Begun /\ Net(conn, HeardOf)
    BY <1>1 DEF P, Begun, Publish, CompletionInv
  <2>4. \A n \in DOMAIN queue :
          /\ queue[n].conn # h.conn /\ \E m \in DOMAIN handling : queue[n] = handling[m]
          /\ \A m \in DOMAIN queue : queue[m].conn = queue[n].conn => m = n
    BY <1>4, <1>5, <1>7
  <2>5. \A m \in DOMAIN handling :
          handling[m].conn # h.conn => \E n \in DOMAIN queue : queue[n] = handling[m]
    BY <1>4
  <2> HIDE DEF h
  <2> QED BY <1>2, <1>6, <2>1, <2>2, <2>3, <2>4, <2>5 DEF Taken, P
<1>9. OwnServed(h, conn)
  <2>1. ASSUME client[h.client].sock = h.conn, conn[h.conn].far
        PROVE \/ EndsIn(conn[h.conn].up, client[h.client].sinks)
              \/ /\ NoPublish(conn[h.conn].up)
                 /\ \A o \in client[h.client].sinks : o \notin h.detached /\ BoundBy(h.client, o, h)
    BY <1>6, <2>1 DEF RegInv, Served, AtHand
  <2> QED BY <2>1 DEF OwnServed
<1> HIDE DEF h
<1> QED BY <1>3, <1>8, <1>9, BindsReg

---------------------------------------------------------------------------
(* All steps.                                                              *)

LEMMA StillNet ==
  ASSUME SameButDown(conn', conn) PROVE MilderNet
BY MilderSame DEF SameButDown, MilderNet

LEMMA StillSessions ==
  ASSUME UNCHANGED client PROVE SameSessions
BY DEF SameSessions

LEMMA AllNet == ASSUME CompletionInv PROVE Net(conn, Exits)
BY MoreHeard DEF CompletionInv, HeardOf

LEMMA DroppedNet ==
  ASSUME CompletionInv, NEW c \in Clients, conn' = ClosedNear(conn, client[c].sock)
  PROVE \A j \in Conns : /\ conn'[j].client = conn[j].client /\ conn'[j].far = conn[j].far
                         /\ conn'[j].up = conn[j].up
                         /\ (j = client[c].sock => ~conn'[j].near)
                         /\ (j # client[c].sock => conn'[j].near = conn[j].near)
<1> DEFINE k == client[c].sock
<1>1. k \in 0 .. MaxConn
  BY ClientTypes
<1>2. Net(conn, Exits)
  BY AllNet
<1>3. conn' = ClosedNear(conn, k)
  OBVIOUS
<1> HIDE DEF k
<1>4. \A j \in Conns :
        /\ conn'[j].client = conn[j].client /\ conn'[j].far = conn[j].far
        /\ conn'[j].up = conn[j].up /\ (j = k => ~conn'[j].near)
        /\ (j # k => conn'[j].near = conn[j].near)
  <2>1. \A j \in Conns :
          LET m == ClosedNear(conn, k)
          IN  /\ m[j].client = conn[j].client /\ m[j].far = conn[j].far /\ m[j].up = conn[j].up
              /\ (j = k => ~m[j].near) /\ (j # k => m[j].near = conn[j].near)
    BY <1>1, <1>2, ClosedNearFields
  <2> QED BY <1>3, <2>1
<1> QED BY <1>4 DEF k

LEMMA SeesCloseReg ==
  ASSUME CompletionInv, RegInv, NEW c \in Clients, SeesClose(c) PROVE RegInv'
<1>1. /\ client' = [client EXCEPT ![c] = Dropped(@)] /\ conn' = ClosedNear(conn, client[c].sock)
      /\ UNCHANGED <<handling, subs, reg>>
  BY DEF SeesClose, service, memory
<1>2. /\ \A d \in Clients \ {c} : client'[d] = client[d]
      /\ client'[c].sock = 0 /\ client'[c].sinks = client[c].sinks
      /\ client'[c].preserved = client[c].preserved
  BY <1>1, ClientTypes DEF Dropped, ClientRecords, CompletionInv, Typed
<1>3. \A j \in Conns : /\ conn'[j].client = conn[j].client /\ conn'[j].far = conn[j].far
                       /\ conn'[j].up = conn[j].up
                       /\ (j = client[c].sock => ~conn'[j].near)
                       /\ (j # client[c].sock => conn'[j].near = conn[j].near)
  BY <1>1, DroppedNet
<1> QED BY <1>1, <1>2, <1>3, DropsReg

LEMMA SinkRejectsReg ==
  ASSUME CompletionInv, RegInv, NEW c \in Clients, NEW e \in Exits, SinkRejects(c, e) PROVE RegInv'
<1> DEFINE cl == [client[c] EXCEPT !.inflight = @ \ {e}]
<1>1. /\ client' = [client EXCEPT ![c] = IF cl.sock = 0 THEN cl ELSE Dropped(cl)]
      /\ conn' = ClosedNear(conn, client[c].sock) /\ UNCHANGED <<handling, subs, reg>>
  BY DEF SinkRejects, service, memory
<1>2. /\ cl.sinks = client[c].sinks /\ cl.preserved = client[c].preserved /\ cl \in ClientRecords
  BY ClientTypes DEF ClientRecords
<1> HIDE DEF cl
<1>3. /\ \A d \in Clients \ {c} : client'[d] = client[d]
      /\ client'[c] = IF cl.sock = 0 THEN cl ELSE Dropped(cl)
  BY <1>1 DEF CompletionInv, Typed
<1>4. /\ client'[c].sock = 0 /\ client'[c].sinks = client[c].sinks
      /\ client'[c].preserved = client[c].preserved
  BY <1>2, <1>3 DEF Dropped, ClientRecords
<1>5. \A j \in Conns : /\ conn'[j].client = conn[j].client /\ conn'[j].far = conn[j].far
                       /\ conn'[j].up = conn[j].up
                       /\ (j = client[c].sock => ~conn'[j].near)
                       /\ (j # client[c].sock => conn'[j].near = conn[j].near)
  BY <1>1, DroppedNet
<1> QED BY <1>1, <1>3, <1>4, <1>5, DropsReg

LEMMA ClientDiesReg ==
  ASSUME CompletionInv, RegInv, NEW c \in Clients, ClientDies(c) PROVE RegInv'
<1>1. /\ client' = [client EXCEPT ![c] = [NewClient EXCEPT !.alive = FALSE, !.seen = client[c].seen]]
      /\ conn' = ClosedNear(conn, client[c].sock) /\ UNCHANGED <<handling, subs, reg>>
  BY DEF ClientDies, service, memory
<1>2. /\ \A d \in Clients \ {c} : client'[d] = client[d]
      /\ client'[c].sock = 0 /\ client'[c].sinks = {} /\ client'[c].preserved = {}
  BY <1>1 DEF NewClient, CompletionInv, Typed
<1>3. \A j \in Conns : /\ conn'[j].client = conn[j].client /\ conn'[j].far = conn[j].far
                       /\ conn'[j].up = conn[j].up
                       /\ (j = client[c].sock => ~conn'[j].near)
                       /\ (j # client[c].sock => conn'[j].near = conn[j].near)
  BY <1>1, DroppedNet
<1> QED BY <1>1, <1>2, <1>3, DropsReg

LEMMA ReadLineReg ==
  ASSUME CompletionInv, RegInv, NEW c \in Clients, ReadLine(c) PROVE RegInv'
<1> DEFINE k    == client[c].sock
           line == Head(conn[k].down)
           net  == [conn EXCEPT ![k].down = Tail(@)]
<1>1. /\ k # 0 /\ conn[k].down # <<>> /\ UNCHANGED <<handling, subs, reg>>
      /\ \/ /\ client' = [client EXCEPT ![c].inflight = @ \cup Fresh(client[c], line.of)]
            /\ conn' = Acked(net, k, line.of \cap client[c].seen)
         \/ /\ client' = [client EXCEPT ![c].replays = @ \ (line.of \cap client[c].sinks)]
            /\ conn' = net
  BY DEF ReadLine, service, memory
<1>2. k \in Conns /\ k \in 0 .. MaxConn /\ client[c].seen \subseteq Exits
  BY <1>1, ClientTypes, ConnRange DEF ClientRecords
<1>3. Net(net, Exits)
  <2> HIDE DEF k
  <2>1. Net(conn, Exits) /\ conn[k].down # <<>>
    BY <1>1, AllNet
  <2> QED BY <1>2, <2>1, TailDownNet
<1>4. SameButDown(net, conn)
  BY <1>2, AllNet DEF Net, ConnRecords, SameButDown
<1> HIDE DEF k, line, net
<1>5. SameSessions
  <2>1. client \in [Clients -> ClientRecords]
    BY DEF CompletionInv, Typed
  <2>2. \/ \E v : client' = [client EXCEPT ![c].inflight = v]
        \/ \E v : client' = [client EXCEPT ![c].replays = v]
    BY <1>1
  <2> QED BY <2>1, <2>2 DEF ClientRecords, SameSessions
<1>6. line.of \cap client[c].seen \in SUBSET Exits
  BY <1>2
<1>7. \A j \in Conns :
        LET m == Acked(net, k, line.of \cap client[c].seen)
        IN  /\ m[j].client = net[j].client /\ m[j].near = net[j].near /\ m[j].far = net[j].far
            /\ Milder(net[j].up, m[j].up)
  BY <1>2, <1>3, <1>6, AckedMilder
<1>8. MilderNet
  BY <1>1, <1>4, <1>7, MilderSame DEF MilderNet, SameButDown
<1> QED BY <1>1, <1>5, <1>8, NoHands, QuietReg

LEMMA SinkResolvesReg ==
  ASSUME CompletionInv, RegInv, NEW c \in Clients, NEW e \in Exits, SinkResolves(c, e) PROVE RegInv'
<1>1. /\ client' = [client EXCEPT ![c].seen = @ \cup {e}, ![c].inflight = @ \ {e}]
      /\ conn' = Acked(conn, client[c].sock, {e}) /\ UNCHANGED <<handling, subs, reg>>
  BY DEF SinkResolves, service, memory
<1>2. SameSessions
  BY <1>1, ClientTypes DEF ClientRecords, CompletionInv, Typed, SameSessions
<1>3. MilderNet
  BY <1>1, ClientTypes, AllNet, AckedMilder DEF MilderNet
<1> QED BY <1>1, <1>2, <1>3, NoHands, QuietReg

LEMMA ReceiveAckReg ==
  ASSUME CompletionInv, RegInv, NEW k \in Conns, ReceiveAck(k) PROVE RegInv'
<1>1. /\ conn[k].up # <<>> /\ Head(conn[k].up).kind = "ack" /\ conn' = Rest(k)
      /\ UNCHANGED <<handling, subs, reg, client>>
  BY DEF ReceiveAck, Arrived
<1>2. Milder(conn[k].up, Tail(conn[k].up))
  BY <1>1, ConnTypes, TailAck
<1>3. MilderNet
  BY <1>1, <1>2, AllNet, TailUpFields, MilderSame DEF MilderNet, Rest
<1> QED BY <1>1, <1>3, NoHands, StillSessions, QuietReg

LEMMA SaveReg ==
  ASSUME CompletionInv, RegInv, NEW o \in Owners, Save(o) PROVE RegInv'
<1>1. /\ handling' = [i \in DOMAIN handling |->
                        IF handling[i].waits = {o} THEN [handling[i] EXCEPT !.saved = TRUE]
                        ELSE handling[i]]
      /\ UNCHANGED <<subs, reg, conn, client>>
  BY DEF Save, peers
<1>2. SameHands
  BY <1>1, HandlingTypes DEF SameHands, Publish
<1> QED BY <1>1, <1>2, StillNet, StillSessions, QuietReg DEF SameButDown

LEMMA NotifyReg ==
  ASSUME CompletionInv, RegInv, NEW e \in Exits, Notify(e) PROVE RegInv'
<1>1. /\ conn' = SendDown(conn, reg[e[1]], ExitLine({e})) \/ UNCHANGED conn
      /\ UNCHANGED <<handling, subs, reg, client>>
  BY DEF Notify
<1>2. SameButDown(conn', conn)
  BY <1>1, AllNet, SendDownFields DEF SameButDown
<1> QED BY <1>1, <1>2, NoHands, StillNet, StillSessions, QuietReg

LEMMA StillReg ==
  ASSUME CompletionInv, RegInv, UNCHANGED <<subs, reg, handling, conn, client>> PROVE RegInv'
BY NoHands, StillNet, StillSessions, QuietReg DEF SameButDown

LEMMA RegStep ==
  ASSUME CompletionInv, RegInv, ~SlowBroker, ~Overtaken, Next PROVE RegInv'
<1>1. ASSUME NEW c \in Clients, ClientStep(c) PROVE RegInv'
  BY <1>1, OnCompletionReg, UnsubscribeReg, ConnectReg, SeesCloseReg, SinkResolvesReg,
     SinkRejectsReg, ClientDiesReg, ReadLineReg DEF ClientStep
<1>2. ASSUME NEW k \in Conns, BrokerSeesClose(k) \/ ReceiveAck(k) \/ ReceivePublish(k)
      PROVE RegInv'
  BY <1>2, BrokerSeesCloseReg, ReceiveAckReg, ReceivePublishReg
<1>3. ASSUME NEW i \in DOMAIN handling, Resume(i) PROVE RegInv'
  BY <1>3, ResumeReg
<1>4. ASSUME NEW o \in Owners,
             Save(o) \/ Launch(o) \/ ExitsByItself(o) \/ StopService(o) \/ StoppedExits(o)
      PROVE RegInv'
  <2>1. CASE Save(o)
    BY <2>1, SaveReg
  <2>2. CASE Launch(o) \/ ExitsByItself(o) \/ StopService(o) \/ StoppedExits(o)
    BY <2>2, StillReg DEF Launch, ExitsByItself, StopService, StoppedExits, peers
  <2> QED BY <1>4, <2>1, <2>2
<1>5. ASSUME NEW e \in Exits, Notify(e) PROVE RegInv'
  BY <1>5, NotifyReg
<1>6. ASSUME BrokerStarts \/ Shutdown \/ ShutdownEnds \/ BrokerCrashes PROVE RegInv'
  <2>1. CASE Shutdown
    BY <2>1, StillReg DEF Shutdown, memory, peers
  <2>2. CASE BrokerStarts \/ ShutdownEnds \/ BrokerCrashes
    BY <2>2, BrokerStartsReg, GoneReg DEF ShutdownEnds, BrokerCrashes
  <2> QED BY <1>6, <2>1, <2>2
<1> QED BY <1>1, <1>2, <1>3, <1>4, <1>5, <1>6 DEF Next

LEMMA RegStutter ==
  ASSUME CompletionInv, RegInv, UNCHANGED vars PROVE RegInv'
BY StillReg DEF vars, service, memory, peers

LEMMA InitReg == ASSUME Init PROVE RegInv
<1>1. /\ handling = <<>> /\ \A k \in Conns : conn[k] = NoConn /\ k # 0
      /\ \A c \in Clients : client[c] = NewClient
  BY DEF Init, Conns
<1>2. Socks /\ Served
  BY <1>1 DEF Socks, Served, NewClient
<1>3. Apart /\ Strangers
  BY <1>1 DEF Apart, Strangers, NewClient
<1>4. Hands
  BY <1>1 DEF Hands
<1> QED BY <1>2, <1>3, <1>4 DEF RegInv

LEMMA Registration ==
  ASSUME CompletionInv, RegInv PROVE StaysRegistered
<1>1. ASSUME NEW c \in Clients, NEW o \in client[c].sinks,
             client[c].sock # 0, conn[client[c].sock].far, ~Busy(client[c].sock)
      PROVE  reg[o] = client[c].sock /\ subs[o] = c
  <2>1. client[c].sock \in Conns
    BY <1>1, ClientTypes, ConnRange
  <2>2. conn[client[c].sock].up = <<>> /\ Handlers(client[c].sock) = {}
    BY <1>1, <2>1, IdleLine
  <2>3. AtHand(c, client[c].sock)
    BY <1>1, <2>1, <2>2, NothingSaid DEF RegInv, Served
  <2> QED BY <2>2, <2>3 DEF AtHand
<1> QED BY <1>1 DEF StaysRegistered

(* The sessions of a process are registered on its connection whenever     *)
(* nothing is under way on it, however the publishes of several processes  *)
(* and sessions, their writes, the ends of connections and of the broker   *)
(* fall together; provided that each publish is done before the next of    *)
(* its connection is read, and the broker is done with a connection before *)
(* the process is back on another (broker.ts, #handleLine; client.ts,      *)
(* CONNECT_RETRY_MS).                                                      *)
THEOREM SessionsStayRegistered == Spec => [](~SlowBroker /\ ~Overtaken => StaysRegistered)
<1>1. CompletionInv /\ (~SlowBroker /\ ~Overtaken => RegInv) /\ [Next]_vars
        => (~SlowBroker /\ ~Overtaken => RegInv)'
  BY RegStep, RegStutter
<1>2. Init => (~SlowBroker /\ ~Overtaken => RegInv)
  BY InitReg
<1>3. CompletionInv /\ (~SlowBroker /\ ~Overtaken => RegInv)
        => (~SlowBroker /\ ~Overtaken => StaysRegistered)
  BY Registration
<1> QED BY <1>1, <1>2, <1>3, CompletionInvHolds, PTL DEF Spec

==============================================================================
