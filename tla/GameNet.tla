-------------------------------- MODULE GameNet --------------------------------
(***************************************************************************)
(* brl.gnet (gnet.mod/gnet.bmx): hosts that keep copies of each other's    *)
(* objects.  A host either listens or connects, and it connects once, so   *)
(* that there is one server between the clients: it hands on to the others *)
(* what it learns from one.  GNetSync first sends what the program has     *)
(* done to its objects and then handles what has arrived.  Hosts run       *)
(* concurrently; a host's program does not run during its GNetSync.        *)
(*                                                                         *)
(* An object has one slot.  Objects have a name here, which the program    *)
(* does not know: on every host an object has an id of that host's, which  *)
(* is used again when the object is closed.  The network (pub.enet) keeps  *)
(* the order of messages and loses none, until the connection ends.        *)
(*                                                                         *)
(* Assertions end the program, as they do in a debug build.                *)
(***************************************************************************)
EXTENDS Naturals, Sequences, FiniteSets, Functions

CONSTANTS
  Server, Clients,
  Objects,         \* each is created at most once
  None,            \* no object, no host
  MaxId,           \* GNET_MAXIDS - 1; 4095 in the code
  Creators,        \* bound: the hosts that may create each object, a function
  Busy,            \* bound: the objects that may be written, closed and sent a message
  MaxWrites,       \* bound: so many writes of an object's slot
  Losers,          \* bound: the clients whose connections may break
  Closers,         \* bound: the hosts that may be closed
  MaxBroken        \* bound: so many connections end

ASSUME GameNetAssumption ==
  /\ Server \notin Clients
  /\ None \notin Objects \union Clients \union {Server}
  /\ MaxId \in Nat \ {0} /\ MaxBroken \in Nat
  /\ MaxWrites \in Nat /\ Busy \subseteq Objects
  /\ Losers \subseteq Clients /\ Closers \subseteq Clients \union {Server}
  /\ Creators \in [Objects -> SUBSET (Clients \union {Server})]

Hosts == Clients \union {Server}
Links == {l \in Hosts \X Hosts : Server \in {l[1], l[2]} /\ l[1] # l[2]}
Ids == 1 .. MaxId

VARIABLES
  enetHost,    \* the hosts that listen or have connected: _enetHost is set
  peers,       \* _peers of each host
  live,        \* the links whose ends are both connected
  net,         \* what is on its way on each link, in order
  objects,     \* _objects
  idMap,       \* _idMap: the object, by name, that has an id
  mapped,      \* _localToRemote and _remoteToLocal of each peer, as pairs of ids
  phase,       \* "program", "sync", "closed", or the assertion that has failed, see below
  owner,       \* history: the host that has created an object
  missed,      \* history: <<h, x>> if h was not told of x when it connected
  asked,       \* history: the objects to which a message has been sent; each once
  heard        \* history: <<x, y>> if a message to x was given to y

wires == <<enetHost, peers, live>>
store == <<objects, idMap, mapped>>
history == <<owner, missed, asked, heard>>
vars == <<wires, net, store, phase, history>>

\* A message, also for the events of ENet: state is the sort of either.
Msg(state, id, x, data) == [state |-> state, id |-> id, name |-> x, data |-> data]
Connect == Msg("connect", 0, None, 0)
Disconnect == Msg("disconnect", 0, None, 0)

Init ==
  /\ enetHost = {Server}
  /\ peers = [h \in Hosts |-> {}]
  /\ live = {}
  /\ net = [l \in Links |-> <<>>]
  /\ objects = [h \in Hosts |-> <<>>]
  /\ idMap = [h \in Hosts |-> [i \in Ids |-> None]]
  /\ mapped = [l \in Links |-> {}]
  /\ phase = [h \in Hosts |-> "program"]
  /\ owner = [x \in Objects |-> None]
  /\ missed = {} /\ asked = {} /\ heard = {}

\* The return from GNetSync is not a step of its own: a host is in the loop of GNetSync
\* or out of it.  The phase is "program" if the program has done something since.
Runs(h) == phase[h] \in {"program", "sync"}

\* A host whose program has ended by an assertion ends the behaviour.
Failures == {"send", "unmap", "message", "illegal", "ids", "map", "unmapped"}
Ongoing == \A h \in Hosts : phase[h] \notin Failures

Turn(h) == Ongoing /\ Runs(h)

-----------------------------------------------------------------------------
(* Helpers: state after a part of a handler.                               *)

Goto(h, p) == phase' = [phase EXCEPT ![h] = p]

\* An assertion or a Throw.
Fail(h, why) == Goto(h, why) /\ UNCHANGED <<wires, net, store, history>>

\* BroadCast and SendMsg: msgs to each of ps.
Sent(h, ps, msgs) ==
  [l \in Links |-> IF l[1] = h /\ l[2] \in ps /\ l \in live THEN net[l] \o msgs ELSE net[l]]

\* During GNetSync the end of a connection may have arrived, behind other events: then
\* ENet refuses to send, and SendMsg throws.
Refused(h, ps) ==
  /\ \E p \in ps : Disconnect \in Range(net[<<p, h>>])
  /\ Fail(h, "send")

\* The elements of s that are in S, in their order.  (This and Folded below are recursive
\* functions, of which theorems can be proved, unlike of SelectSeq and FoldLeft.)
Only(s, S) ==
  LET only[n \in 0 .. Len(s)] ==
        IF n = 0 THEN <<>>
        ELSE IF s[n] \in S THEN Append(only[n - 1], s[n]) ELSE only[n - 1]
  IN  only[Len(s)]

Here(h) == Range(objects[h])
IsLocal(o) == o.peer = None
Open(o) == o.state \in {"created", "modified", "synced"}
Unmapped(o) == ~IsLocal(o) /\ ~Open(o)

\* What _idMap refers to at id; and the objects when o has become new.
Object(h, id) == CHOOSE o \in Here(h) : o.id = id /\ ~Unmapped(o)
Changed(h, o, new) ==
  [objects EXCEPT ![h] = [i \in DOMAIN @ |-> IF @[i] = o THEN new ELSE @[i]]]

\* TGNetObject.Close
Closed(o) == [o EXCEPT !.state = IF @ = "created" THEN "zombie" ELSE "closed"]

FreeIds(h) == {i \in Ids : idMap[h][i] = None}

\* Slip: the search for an id begins at 0, which means none.
AllocId_zero(h) == CHOOSE i \in {0} \union FreeIds(h) : \A j \in {0} \union FreeIds(h) : i <= j
AllocId(h) == CHOOSE i \in FreeIds(h) : \A j \in FreeIds(h) : i <= j

-----------------------------------------------------------------------------
(* The program, between its calls of GNetSync.                             *)

CreateObject(h, x) ==
  /\ Turn(h)
  /\ Goto(h, "program")
  /\ owner[x] = None /\ h \in Creators[x]
  /\ FreeIds(h) # {}
  /\ objects' = [objects EXCEPT ![h] =
       Append(@, [name |-> x, id |-> AllocId(h), state |-> "created", peer |-> None, data |-> 0])]
  /\ idMap' = [idMap EXCEPT ![h][AllocId(h)] = x]
  /\ owner' = [owner EXCEPT ![x] = h]
  /\ UNCHANGED <<wires, net, mapped, missed, asked, heard>>

\* WriteSlot, on an object of its own.
WriteSlot(h, x) ==
  /\ Turn(h)
  /\ Goto(h, "program")
  /\ x \in Busy
  /\ \E o \in Here(h) :
       /\ o.name = x /\ IsLocal(o) /\ Open(o) /\ o.data < MaxWrites
       /\ objects' = Changed(h, o,
            [o EXCEPT !.data = @ + 1, !.state = IF @ = "synced" THEN "modified" ELSE @])
  /\ UNCHANGED <<wires, net, idMap, mapped, history>>

\* CloseGNetObject, which asserts that the object is the host's own.
CloseObject(h, x) ==
  /\ Turn(h)
  /\ Goto(h, "program")
  /\ x \in Busy
  /\ \E o \in Here(h) :
       /\ o.name = x /\ IsLocal(o) /\ Open(o)
       /\ objects' = Changed(h, o, Closed(o))
  /\ UNCHANGED <<wires, net, idMap, mapped, owner, missed, asked, heard>>

\* Slip: a message is sent with the id that the object has on this host.
SendMessage_raw(h, x) ==
  /\ Turn(h)
  /\ Goto(h, "program")
  /\ x \in Busy \ asked
  /\ asked' = asked \union {x}
  /\ \E o \in Here(h) :
       /\ o.name = x /\ ~IsLocal(o) /\ Open(o)
       /\ \E pair \in mapped[<<h, o.peer>>] :
            /\ pair[1] = o.id
            /\ net' = Sent(h, {o.peer}, <<Msg("message", pair[1], x, 0)>>)
  /\ UNCHANGED <<wires, store, owner, missed, heard>>

\* SendGNetMessage to a remote object that the program has not been told is closed.
SendMessage(h, x) ==
  /\ Turn(h)
  /\ Goto(h, "program")
  /\ x \in Busy \ asked
  /\ asked' = asked \union {x}
  /\ \E o \in Here(h) :
       /\ o.name = x /\ ~IsLocal(o) /\ Open(o)
       /\ \E pair \in mapped[<<h, o.peer>>] :
            /\ pair[1] = o.id
            /\ net' = Sent(h, {o.peer}, <<Msg("message", pair[2], x, 0)>>)
  /\ UNCHANGED <<wires, store, owner, missed, heard>>

-----------------------------------------------------------------------------
(* AddPeer                                                                 *)

CreatedMsg(o) == Msg("created", o.id, o.name, o.data)
CreatedMsgs(os) == [i \in DOMAIN os |-> CreatedMsg(os[i])]

\* Slip: an object that has been modified since the last GNetSync is forgotten.
ToTell_synced(h) == Only(objects[h], {o \in Here(h) : o.state = "synced"})
ToTell(h) == Only(objects[h], {o \in Here(h) : o.state \in {"synced", "modified"}})

\* Those that p is not told of now, nor will be, and whose messages it will get.
Untold(h, p) ==
  {<<p, o.name>> : o \in {q \in Here(h) :
     IF IsLocal(q) THEN q.state = "closed" ELSE q.state = "created"}}

\* GNetConnect, the side that connects; it has waited for ENet's event.
ConnectTo(c) ==
  /\ c \in Clients \ enetHost
  /\ Turn(c)
  /\ Goto(c, "program")
  /\ phase[Server] \in {"program", "sync"}
  /\ enetHost' = enetHost \union {c}
  /\ peers' = [peers EXCEPT ![c] = {Server}]
  /\ live' = live \union {<<c, Server>>, <<Server, c>>}
  /\ net' = [net EXCEPT ![<<c, Server>>] = <<Connect>> \o CreatedMsgs(ToTell(c))]
  /\ missed' = missed \union Untold(c, Server)
  /\ UNCHANGED <<store, owner, asked, heard>>

-----------------------------------------------------------------------------
(* GNetSync: the objects ...                                               *)

AfterSync(o) ==
  [o EXCEPT !.state = CASE @ \in {"created", "modified"} -> "synced"
                        [] @ = "closed" -> "zombie"
                        [] OTHER -> @]
ToSync(h) ==
  Only(objects[h], {o \in Here(h) : IsLocal(o) /\ o.state \in {"created", "modified", "closed"}})
SyncMsgs(h) ==
  [i \in DOMAIN ToSync(h) |->
     LET o == ToSync(h)[i] IN Msg(o.state, o.id, o.name, o.data)]
Zombies(h) == {o \in Here(h) : AfterSync(o).state = "zombie"}
Synced(h) ==
  LET stay == Only(objects[h], Here(h) \ Zombies(h))
  IN  [i \in DOMAIN stay |-> AfterSync(stay[i])]

\* Slip: the id of an object that has been closed is not given back.
Sync_kept(h) ==
  /\ Turn(h)
  /\ net' = Sent(h, peers[h], SyncMsgs(h))
  /\ objects' = [objects EXCEPT ![h] = Synced(h)]
  /\ Goto(h, "sync")
  /\ UNCHANGED <<wires, idMap, mapped, history>>

Sync(h) ==
  /\ Turn(h)
  /\ net' = Sent(h, peers[h], SyncMsgs(h))
  /\ objects' = [objects EXCEPT ![h] = Synced(h)]
  /\ idMap' = [idMap EXCEPT ![h] = [i \in Ids |->
       IF \E o \in Zombies(h) : IsLocal(o) /\ o.id = i THEN None ELSE @[i]]]
  /\ Goto(h, "sync")
  /\ UNCHANGED <<wires, mapped, history>>

-----------------------------------------------------------------------------
(* ... and the events.                                                     *)

\* What has arrived (_enetEvents) is not told from what is on its way.
\* The next event of p's is of this sort.
Comes(h, p, state) ==
  /\ <<p, h>> \in Links
  /\ Ongoing /\ phase[h] = "sync"
  /\ net[<<p, h>>] # <<>> /\ Head(net[<<p, h>>]).state = state
Message(h, p) == Head(net[<<p, h>>])
Others(h, p) == peers[h] \ {p}

\* BroadCast and SendMsg while the event is handled, and none if msgs is empty.
Handled(h, p, ps, msgs) ==
  net' = [Sent(h, ps, msgs) EXCEPT ![<<p, h>>] = Tail(@)]

HandleConnect(h, p) ==
  /\ Comes(h, p, "connect")
  /\ \/ ToTell(h) # <<>> /\ Refused(h, {p})
     \/ /\ peers' = [peers EXCEPT ![h] = @ \union {p}]
        /\ Handled(h, p, {p}, CreatedMsgs(ToTell(h)))
        /\ missed' = missed \union Untold(h, p)
        /\ UNCHANGED <<enetHost, live, store, phase, owner, asked, heard>>

\* Slip: the objects of the peer stay as they are.
HandleDisconnect_only(h, p) ==
  /\ Comes(h, p, "disconnect")
  /\ Handled(h, p, {}, <<>>)
  /\ peers' = [peers EXCEPT ![h] = @ \ {p}]
  /\ UNCHANGED <<enetHost, live, store, phase, history>>

\* The objects of the peer p, and the messages that they are closed.
Theirs(h, p) == Only(objects[h], {o \in Here(h) : o.peer = p})
ClosedMsg(o) == Msg("closed", o.id, o.name, 0)
ClosedMsgs(os) == [i \in DOMAIN os |-> ClosedMsg(os[i])]

\* Every object of the peer is closed; it has to be unmapped, and is if it is open.
HandleDisconnect(h, p) ==
  /\ Comes(h, p, "disconnect")
  /\ LET theirs == Range(Theirs(h, p))
     IN  \/ theirs # {} /\ Refused(h, Others(h, p))
         \/ (\E o \in theirs : ~Open(o)) /\ Fail(h, "unmap")
         \/ /\ \A o \in theirs : Open(o)
            /\ Handled(h, p, Others(h, p), ClosedMsgs(Theirs(h, p)))
            /\ mapped' = [mapped EXCEPT ![<<h, p>>] = {}]
            /\ idMap' = [idMap EXCEPT ![h] = [i \in Ids |->
                 IF \E o \in theirs : o.id = i THEN None ELSE @[i]]]
            /\ objects' = [objects EXCEPT ![h] = [i \in DOMAIN @ |->
                 IF @[i].peer = p THEN Closed(@[i]) ELSE @[i]]]
            /\ peers' = [peers EXCEPT ![h] = @ \ {p}]
            /\ UNCHANGED <<enetHost, live, phase, history>>

\* GNET_MESSAGE: for an object of this host's, or of another's, or for none.
HandleMessage(h, p) ==
  /\ Comes(h, p, "message")
  /\ LET msg == Message(h, p)
         x == idMap[h][msg.id]
         to == Object(h, msg.id).peer
         remote == {pair[2] : pair \in {q \in mapped[<<h, to>>] : q[1] = msg.id}}
     IN  IF x = None
         THEN Handled(h, p, {}, <<>>) /\ UNCHANGED <<wires, store, phase, history>>
         ELSE IF to = None
         THEN /\ Handled(h, p, {}, <<>>)
              /\ heard' = heard \union {<<msg.name, x>>}
              /\ UNCHANGED <<wires, store, phase, owner, missed, asked>>
         ELSE IF remote = {} THEN Fail(h, "message")
         ELSE \/ Refused(h, {to})
              \/ /\ Handled(h, p, {to}, <<[msg EXCEPT !.id = CHOOSE r \in remote : TRUE]>>)
                 /\ UNCHANGED <<wires, store, phase, history>>

\* RecvMsg: the id here of the object that the peer has named by an id of its own.
LocalIds(h, p) == {pair[1] : pair \in {q \in mapped[<<h, p>>] : q[2] = Message(h, p).id}}

HandleCreated(h, p) ==
  /\ Comes(h, p, "created")
  /\ LET msg == Message(h, p)
         id == AllocId(h)
     IN  IF LocalIds(h, p) # {} THEN Fail(h, "illegal")
         ELSE IF FreeIds(h) = {} THEN Fail(h, "ids")
         ELSE IF \E pair \in mapped[<<h, p>>] : pair[1] = id THEN Fail(h, "map")
         ELSE \/ Refused(h, Others(h, p))
              \/ /\ idMap' = [idMap EXCEPT ![h][id] = msg.name]
                 /\ mapped' = [mapped EXCEPT ![<<h, p>>] = @ \union {<<id, msg.id>>}]
                 /\ objects' = [objects EXCEPT ![h] = Append(@,
                      [name |-> msg.name, id |-> id, state |-> "created", peer |-> p,
                       data |-> msg.data])]
                 /\ Handled(h, p, Others(h, p), <<[msg EXCEPT !.id = id]>>)
                 /\ UNCHANGED <<wires, phase, history>>

\* The object with id is changed by a message.
Updated(h, id, msg) ==
  Changed(h, Object(h, id),
    [Object(h, id) EXCEPT !.state = msg.state, !.data = IF msg.data = 0 THEN @ ELSE msg.data])

HandleModified(h, p) ==
  /\ Comes(h, p, "modified")
  /\ IF LocalIds(h, p) = {} THEN Fail(h, "unmapped")
     ELSE \/ Refused(h, Others(h, p))
          \/ \E id \in LocalIds(h, p) :
            /\ Handled(h, p, Others(h, p), <<[Message(h, p) EXCEPT !.id = id]>>)
            /\ objects' = Updated(h, id, Message(h, p))
            /\ UNCHANGED <<wires, idMap, mapped, phase, history>>

\* Slip: the peer's map keeps the id.
HandleClosed_mapped(h, p) ==
  /\ Comes(h, p, "closed")
  /\ IF LocalIds(h, p) = {} THEN Fail(h, "unmapped")
     ELSE \/ Refused(h, Others(h, p))
          \/ \E id \in LocalIds(h, p) :
            /\ idMap' = [idMap EXCEPT ![h][id] = None]
            /\ Handled(h, p, Others(h, p), <<[Message(h, p) EXCEPT !.id = id]>>)
            /\ objects' = Updated(h, id, Message(h, p))
            /\ UNCHANGED <<wires, mapped, phase, history>>

HandleClosed(h, p) ==
  /\ Comes(h, p, "closed")
  /\ IF LocalIds(h, p) = {} THEN Fail(h, "unmapped")
     ELSE \/ Refused(h, Others(h, p))
          \/ \E id \in LocalIds(h, p) :
            /\ mapped' = [mapped EXCEPT ![<<h, p>>] = {pair \in @ : pair[1] # id}]
            /\ idMap' = [idMap EXCEPT ![h][id] = None]
            /\ Handled(h, p, Others(h, p), <<[Message(h, p) EXCEPT !.id = id]>>)
            /\ objects' = Updated(h, id, Message(h, p))
            /\ UNCHANGED <<wires, phase, history>>

-----------------------------------------------------------------------------
(* Connections end.                                                        *)

\* It gets through or is lost, but for the event of a connection.  (To lose the last
\* messages only is to send them after the connection has ended.)
CutShort(l) ==
  {Append(msgs, Disconnect) : msgs \in {net[l], Only(net[l], {Connect})}}

MayBreak == Cardinality({c \in Clients \intersect enetHost : <<c, Server>> \notin live}) < MaxBroken

\* CloseGNetHost.  Nobody reads what is on its way to the host.
CloseHost(h) ==
  /\ h \in enetHost \intersect Closers
  /\ Turn(h)
  /\ MayBreak
  /\ Goto(h, "closed")
  /\ live' = {l \in live : h \notin {l[1], l[2]}}
  /\ LET out == {l \in live : l[1] = h}
     IN  \E cut \in [out -> UNION {CutShort(l) : l \in out}] :
           /\ \A l \in out : cut[l] \in CutShort(l)
           /\ net' = [l \in Links |-> IF l \in out THEN cut[l]
                                     ELSE IF l[2] = h THEN <<>> ELSE net[l]]
  /\ UNCHANGED <<enetHost, peers, store, history>>

\* ENet gives a connection up; it notices so on both sides.
LoseConnection(c) ==
  /\ c \in Losers /\ <<c, Server>> \in live
  /\ Ongoing /\ MayBreak
  /\ live' = live \ {<<c, Server>>, <<Server, c>>}
  /\ \E up \in CutShort(<<c, Server>>), down \in CutShort(<<Server, c>>) :
       net' = [net EXCEPT ![<<c, Server>>] = up, ![<<Server, c>>] = down]
  /\ UNCHANGED <<enetHost, peers, store, phase, history>>

-----------------------------------------------------------------------------
Program(h) ==
  \/ \E x \in Objects : CreateObject(h, x) \/ WriteSlot(h, x) \/ CloseObject(h, x) \/ SendMessage(h, x)
  \/ ConnectTo(h) \/ CloseHost(h)

Handle(h) ==
  \E p \in Hosts :
    \/ HandleConnect(h, p) \/ HandleDisconnect(h, p) \/ HandleMessage(h, p)
    \/ HandleCreated(h, p) \/ HandleModified(h, p) \/ HandleClosed(h, p)

Next ==
  \/ \E h \in Hosts : Program(h) \/ Sync(h) \/ Handle(h)
  \/ \E c \in Clients : LoseConnection(c)

Spec == Init /\ [][Next]_vars

-----------------------------------------------------------------------------
(* Properties                                                              *)

Messages == [state : {"connect", "disconnect", "created", "modified", "closed", "message"},
             id : 0 .. MaxId, name : Objects \union {None}, data : Nat]
Copies == [name : Objects, id : Ids, state : {"created", "modified", "synced", "closed", "zombie"},
           peer : Hosts \union {None}, data : Nat]

\* Types.
TypeOK ==
  /\ enetHost \subseteq Hosts
  /\ peers \in [Hosts -> SUBSET Hosts]
  /\ live \subseteq Links
  /\ \A l \in Links : net[l] \in Seq(Messages)
  /\ \A h \in Hosts : objects[h] \in Seq(Copies)
  /\ idMap \in [Hosts -> [Ids -> Objects \union {None}]]
  /\ mapped \in [Links -> SUBSET (Ids \X Ids)]
  /\ phase \in [Hosts -> {"program", "sync", "closed"} \union Failures]
  /\ owner \in [Objects -> Hosts \union {None}]
  /\ missed \subseteq Hosts \X Objects /\ asked \subseteq Objects
  /\ heard \subseteq Objects \X Objects

(***************************************************************************)
(* The tables of a host are exact, through every reuse of an id: _idMap    *)
(* has the objects that are not closed, each once and at its id, and the   *)
(* two arrays of a peer map the ids of the peer's objects one to one.      *)
(***************************************************************************)
TablesExact ==
  \A h \in {k \in Hosts : Runs(k)} :
    LET known == {o \in Here(h) : ~Unmapped(o)}
    IN  /\ {<<o.id, o.name>> : o \in known} =
             {<<i, idMap[h][i]>> : i \in {j \in Ids : idMap[h][j] # None}}
        /\ \A p \in Hosts \ {h} : <<h, p>> \in Links =>
             /\ {pair[1] : pair \in mapped[<<h, p>>]} = {o.id : o \in {q \in known : q.peer = p}}
             /\ \A a, b \in mapped[<<h, p>>] : (a[1] = b[1]) = (a[2] = b[2])

Nothing == [name |-> None, data |-> 0]
\* What is known of the object with the id r after a message.
After(r, known, msg) ==
  CASE msg.id # r -> known
    [] msg.id = r /\ msg.state = "created" -> [name |-> msg.name, data |-> msg.data]
    [] msg.id = r /\ msg.state = "modified" /\ known # Nothing -> [known EXCEPT !.data = msg.data]
    [] msg.id = r /\ msg.state = "closed" -> Nothing
    [] OTHER -> known
Folded(r, known, msgs) ==
  LET after[n \in 0 .. Len(msgs)] ==
        IF n = 0 THEN known ELSE After(r, after[n - 1], msgs[n])
  IN  after[Len(msgs)]

\* What h knows by the id r of p's, now and after all that is on its way from p.
KnownNow(h, p, r) ==
  LET ids == {pair[1] : pair \in {q \in mapped[<<h, p>>] : q[2] = r}}
      o == Object(h, CHOOSE i \in ids : TRUE)
  IN  IF ids = {} THEN Nothing ELSE [name |-> o.name, data |-> o.data]
Known(h, p, r) == Folded(r, KnownNow(h, p, r), net[<<p, h>>])

\* The object that p has told h of by the id r, or should have.
Told(p, h, r) ==
  LET x == idMap[p][r]
      o == Object(p, r)
  IN  IF h \notin peers[p] \/ x = None \/ <<h, x>> \in missed THEN None
      ELSE IF o.peer = h \/ (IsLocal(o) /\ o.state \in {"created", "zombie"}) THEN None
      ELSE x

(***************************************************************************)
(* Between two hosts that are connected, and counting what is on its way,  *)
(* the one knows under each id just the object that the other one has      *)
(* there, with the contents it had when the other one last synchronised    *)
(* it.  Objects that were missed when the host connected are left aside.   *)
(***************************************************************************)
CopiesAgree ==
  \A l \in live :
    LET p == l[1]  h == l[2]
    IN  Runs(p) /\ Runs(h) =>
          \A r \in Ids :
            LET known == Known(h, p, r)
                x == Told(p, h, r)
            IN  /\ known.name = x
                /\ x # None =>
                     \/ known.data = Object(p, r).data
                     \/ IsLocal(Object(p, r)) /\ Object(p, r).state \in {"modified", "closed"}

(***************************************************************************)
(* The assertions and exceptions of GNetSync have only these reasons: an   *)
(* object was missed when the host connected (RecvMsg), a connection has   *)
(* ended (SendMsg, and UnmapLocalId or UnmapObject for an object that was  *)
(* closed just before), or there are no more ids (AllocId).                *)
(***************************************************************************)
FailsForReason ==
  \A h \in Hosts :
    /\ phase[h] \notin {"message", "illegal", "map"}
    /\ phase[h] = "unmapped" => \E x \in Objects : <<h, x>> \in missed
    /\ phase[h] \in {"send", "unmap"} =>
         \E c \in Clients \intersect enetHost : h \in {c, Server} /\ <<c, Server>> \notin live

\* The copy of x on h; the object on its owner.
IsOpen(h, x) == \E o \in Here(h) : o.name = x /\ Open(o)
Gone(x) == owner[x] # None /\ (~IsOpen(owner[x], x) \/ phase[owner[x]] = "closed")
\* The connection of its owner has ended.
CutOff(x) == owner[x] \in Clients /\ <<owner[x], Server>> \notin live
Quiet ==
  /\ \A l \in Links : net[l] = <<>>
  /\ \A h \in Hosts : Runs(h) => ToSync(h) = <<>>

(***************************************************************************)
(* A message to an object that its owner has not closed is given to that   *)
(* object, although every host on the way has another id for it.           *)
(***************************************************************************)
NotMisheard ==
  [][\A x, y \in Objects :
       <<x, y>> \in heard' \ heard /\ x # y =>
         Gone(x) \/ CutOff(x)]_vars

(***************************************************************************)
(* Nobody keeps a copy of an object that is gone: once nothing is on its   *)
(* way and every host has synchronised what its program has done, the      *)
(* objects that are closed, and those of hosts whose connection has ended, *)
(* are closed on every host, also on those that know them from the server. *)
(***************************************************************************)
NoOrphans ==
  Quiet => \A h \in Hosts, x \in Objects :
             Runs(h) /\ h # owner[x] /\ IsOpen(h, x) => ~Gone(x) /\ ~CutOff(x)

(***************************************************************************)
(* What GNetMessageObject says it returns: the object that the message was *)
(* sent to.                                                                *)
(***************************************************************************)
MessageObject == \A pair \in heard : pair[1] = pair[2]
=============================================================================
