---------------------------- MODULE GameNetCopies ----------------------------
(***************************************************************************)
(* Proofs about GameNet: hosts that are connected agree on each other's    *)
(* objects, GNetSync fails for the reasons that FailsForReason names,      *)
(* messages come to their object as long as it is there, and nobody keeps  *)
(* a copy of an object that is gone.                                       *)
(***************************************************************************)
EXTENDS GameNetProofs

-----------------------------------------------------------------------------
(***************************************************************************)
(* What a host knows by an id r of its peer's, as messages come in.  gone  *)
(* are the objects that the host has missed: it may get messages about     *)
(* them although it does not know them.                                    *)
(***************************************************************************)
Facts == {Nothing} \union [name : Objects, data : Nat]

Fits(k, m, gone) ==
  /\ m.state = "created" => k = Nothing
  /\ m.state \in {"modified", "closed"} => k.name = m.name \/ (k = Nothing /\ m.name \in gone)
  /\ m.state = "modified" => m.data # 0

Leads(r, gone, k, m, next) ==
  /\ next = After(r, k, m)
  /\ m.id = r => Fits(k, m, gone)

Stream(r, gone, k, msgs, e) ==
  \E a \in [0 .. Len(msgs) -> Facts] :
    /\ a[0] = k /\ a[Len(msgs)] = e
    /\ \A n \in 1 .. Len(msgs) : Leads(r, gone, a[n - 1], msgs[n], a[n])

\* The messages that tell of objects.
Telling == {"created", "modified", "closed"}

\* After, case by case.
LEMMA AfterIs ==
  ASSUME NEW r, NEW k \in Facts, NEW m \in GoodMsgs
  PROVE  /\ m.id # r \/ m.state \notin Telling => After(r, k, m) = k
         /\ m.id = r /\ m.state = "created" =>
              After(r, k, m) = [name |-> m.name, data |-> m.data]
         /\ m.id = r /\ m.state = "modified" =>
              After(r, k, m) = IF k = Nothing THEN Nothing ELSE [name |-> k.name, data |-> m.data]
         /\ m.id = r /\ m.state = "closed" => After(r, k, m) = Nothing
         /\ After(r, k, m) \in Facts
<1>1. m.state \in Telling => m.name \in Objects
  BY DEF GoodMsgs, Telling
<1>2. m.data \in Nat
  BY DEF GoodMsgs, Messages
<1>3. m.id # r \/ m.state \notin Telling => After(r, k, m) = k
  BY DEF After, Telling
<1>4. m.id = r /\ m.state = "created" => After(r, k, m) = [name |-> m.name, data |-> m.data]
  BY DEF After
<1>5. m.id = r /\ m.state = "closed" => After(r, k, m) = Nothing
  BY DEF After
<1>6. ASSUME m.id = r, m.state = "modified"
      PROVE  After(r, k, m) = IF k = Nothing THEN Nothing ELSE [name |-> k.name, data |-> m.data]
  <2>1. CASE k = Nothing
    BY <1>6, <2>1 DEF After
  <2>2. CASE k # Nothing
    <3>1. PICK x \in Objects, d \in Nat : k = [name |-> x, data |-> d]
      BY <2>2 DEF Facts
    <3>2. After(r, k, m) = [k EXCEPT !.data = m.data]
      BY <1>6, <2>2 DEF After
    <3>3. [k EXCEPT !.data = m.data] = [name |-> x, data |-> m.data]
      BY <3>1
    <3>4. QED
      BY <2>2, <3>1, <3>2, <3>3
  <2>3. QED
    BY <2>1, <2>2
<1>7. k # Nothing => k.name \in Objects
  BY DEF Facts
<1>8. After(r, k, m) \in Facts
  BY <1>1, <1>2, <1>3, <1>4, <1>5, <1>6, <1>7 DEF Facts, Telling
<1>9. QED
  BY <1>3, <1>4, <1>5, <1>6, <1>8

\* Known and named are the same.
LEMMA FactName ==
  ASSUME NEW k \in Facts
  PROVE  /\ k = Nothing <=> k.name = None
         /\ k # Nothing => k.name \in Objects /\ k.data \in Nat
BY GameNetAssumption DEF Facts, Nothing

\* No message.
LEMMA StreamEmpty ==
  ASSUME NEW r, NEW gone, NEW k \in Facts
  PROVE  Stream(r, gone, k, <<>>, k)
<1>1. PICK a : a = [n \in 0 .. Len(<<>>) |-> k]
  OBVIOUS
<1>2. a \in [0 .. Len(<<>>) -> Facts] /\ a[0] = k /\ a[Len(<<>>)] = k
  BY <1>1
<1>3. QED
  BY <1>2 DEF Stream

\* One stream after the other.
LEMMA StreamConcat ==
  ASSUME NEW r, NEW gone, NEW k, NEW i, NEW e,
         NEW s \in Seq(GoodMsgs), NEW t \in Seq(GoodMsgs),
         Stream(r, gone, k, s, i), Stream(r, gone, i, t, e)
  PROVE  Stream(r, gone, k, s \o t, e)
<1>1. PICK N \in Nat, M \in Nat : N = Len(s) /\ M = Len(t)
  OBVIOUS
<1>2. PICK a \in [0 .. N -> Facts] :
        /\ a[0] = k /\ a[N] = i
        /\ \A n \in 1 .. N : Leads(r, gone, a[n - 1], s[n], a[n])
  BY <1>1 DEF Stream
<1>3. PICK b \in [0 .. M -> Facts] :
        /\ b[0] = i /\ b[M] = e
        /\ \A n \in 1 .. M : Leads(r, gone, b[n - 1], t[n], b[n])
  BY <1>1 DEF Stream
<1>4. PICK c : c = [n \in 0 .. N + M |-> IF n <= N THEN a[n] ELSE b[n - N]]
  OBVIOUS
<1>5. \A n \in 0 .. N + M : n <= N \/ n - N \in 1 .. M
  OBVIOUS
<1>6. c \in [0 .. N + M -> Facts]
  BY <1>4, <1>5
<1>7. \A n \in 0 .. N : c[n] = a[n]
  BY <1>4
<1>8. \A n \in 0 .. M : c[N + n] = b[n]
  <2>1. SUFFICES ASSUME NEW n \in 0 .. M PROVE c[N + n] = b[n]
    OBVIOUS
  <2>2. CASE n = 0
    BY <1>2, <1>3, <1>7, <2>2
  <2>3. CASE n # 0
    <3>1. N + n \in 0 .. N + M /\ ~ (N + n <= N) /\ (N + n) - N = n
      BY <2>3
    <3>2. QED
      BY <1>4, <3>1
  <2>4. QED
    BY <2>2, <2>3
<1>9. PICK u : u = s \o t
  OBVIOUS
<1>10. /\ Len(u) = N + M
       /\ \A n \in 1 .. N : u[n] = s[n]
       /\ \A n \in 1 .. M : u[N + n] = t[n]
  BY <1>1, <1>9
<1>11. ASSUME NEW n \in 1 .. N + M PROVE Leads(r, gone, c[n - 1], u[n], c[n])
  <2>1. CASE n \in 1 .. N
    <3>1. n - 1 \in 0 .. N /\ n \in 0 .. N
      BY <2>1
    <3>2. QED
      BY <1>2, <1>7, <1>10, <2>1, <3>1
  <2>2. CASE n \notin 1 .. N
    <3>1. PICK j \in 1 .. M : n = N + j
      <4>1. n - N \in 1 .. M /\ n = N + (n - N)
        BY <2>2
      <4>2. QED
        BY <4>1
    <3>2. j - 1 \in 0 .. M /\ j \in 0 .. M /\ n - 1 = N + (j - 1)
      BY <3>1
    <3>3. QED
      BY <1>3, <1>8, <1>10, <3>1, <3>2
  <2>3. QED
    BY <2>1, <2>2
<1>12. c[0] = k /\ c[N + M] = e
  BY <1>2, <1>3, <1>7, <1>8
<1>13. Stream(r, gone, k, u, e)
  BY <1>6, <1>10, <1>11, <1>12 DEF Stream
<1>14. QED
  BY <1>9, <1>13

\* The first message is handled.
LEMMA StreamTail ==
  ASSUME NEW r, NEW gone, NEW k, NEW e, NEW s \in Seq(GoodMsgs), s # <<>>,
         Stream(r, gone, k, s, e)
  PROVE  \E i \in Facts : Leads(r, gone, k, Head(s), i) /\ Stream(r, gone, i, Tail(s), e)
<1>1. PICK N \in Nat : N + 1 = Len(s)
  <2>1. Len(s) \in Nat /\ Len(s) # 0
    OBVIOUS
  <2>2. Len(s) - 1 \in Nat /\ (Len(s) - 1) + 1 = Len(s)
    BY <2>1
  <2>3. QED
    BY <2>2
<1>2. PICK a \in [0 .. N + 1 -> Facts] :
        /\ a[0] = k /\ a[N + 1] = e
        /\ \A n \in 1 .. N + 1 : Leads(r, gone, a[n - 1], s[n], a[n])
  BY <1>1 DEF Stream
<1>3. PICK t : t = Tail(s)
  OBVIOUS
<1>4. Len(t) = N /\ \A n \in 1 .. N : t[n] = s[n + 1]
  BY <1>1, <1>3
<1>5. PICK b : b = [n \in 0 .. N |-> a[n + 1]]
  OBVIOUS
<1>6. b \in [0 .. N -> Facts] /\ \A n \in 0 .. N : b[n] = a[n + 1]
  BY <1>5
<1>7. ASSUME NEW n \in 1 .. N PROVE Leads(r, gone, b[n - 1], t[n], b[n])
  <2>1. n + 1 \in 1 .. N + 1 /\ n - 1 \in 0 .. N /\ n \in 0 .. N
        /\ (n - 1) + 1 = n /\ (n + 1) - 1 = n
    OBVIOUS
  <2>2. Leads(r, gone, a[(n + 1) - 1], s[n + 1], a[n + 1])
    BY <1>2, <2>1
  <2>3. QED
    BY <1>4, <1>6, <2>1, <2>2
<1>8. Stream(r, gone, b[0], t, e)
  <2>1. b[N] = e
    BY <1>2, <1>6
  <2>2. QED
    BY <1>4, <1>6, <1>7, <2>1 DEF Stream
<1>9. b[0] = a[1] /\ a[1] \in Facts /\ s[1] = Head(s)
  BY <1>1, <1>2, <1>6
<1>10. Leads(r, gone, k, s[1], a[1])
  <2>1. 1 \in 1 .. N + 1 /\ 1 - 1 = 0
    OBVIOUS
  <2>2. QED
    BY <1>2, <2>1
<1>11. QED
  BY <1>3, <1>8, <1>9, <1>10

\* More objects have been missed.
LEMMA StreamMore ==
  ASSUME NEW r, NEW gone, NEW more, gone \subseteq more, NEW k, NEW e, NEW s,
         Stream(r, gone, k, s, e)
  PROVE  Stream(r, more, k, s, e)
<1>1. \A i, m, n : Leads(r, gone, i, m, n) => Leads(r, more, i, m, n)
  BY DEF Leads, Fits
<1>2. QED
  BY <1>1 DEF Stream

\* A message that is not about the object.
LEMMA Unconcerned ==
  ASSUME NEW r, NEW gone, NEW k \in Facts, NEW m \in GoodMsgs,
         m.id # r \/ m.state \notin Telling
  PROVE  Leads(r, gone, k, m, k)
BY AfterIs DEF Leads, Fits, Telling

\* At most one of the messages is about the object: the one at c, if any.
LEMMA StreamOne ==
  ASSUME NEW r, NEW gone, NEW k \in Facts, NEW e \in Facts, NEW s \in Seq(GoodMsgs),
         NEW c \in 0 .. Len(s),
         c = 0 => e = k,
         c # 0 => Leads(r, gone, k, s[c], e),
         \A n \in 1 .. Len(s) : n # c => s[n].id # r \/ s[n].state \notin Telling
  PROVE  Stream(r, gone, k, s, e)
<1>1. PICK N \in Nat : N = Len(s)
  OBVIOUS
<1>2. PICK a : a = [n \in 0 .. N |-> IF n < c THEN k ELSE e]
  OBVIOUS
<1>3. a \in [0 .. N -> Facts]
  BY <1>2
<1>4. a[0] = k /\ a[N] = e
  BY <1>1, <1>2
<1>5. ASSUME NEW n \in 1 .. N PROVE Leads(r, gone, a[n - 1], s[n], a[n])
  <2>1. n - 1 \in 0 .. N /\ n \in 0 .. N /\ n \in 1 .. Len(s)
    BY <1>1
  <2>2. s[n] \in GoodMsgs
    BY <2>1
  <2>3. CASE n = c
    <3>1. a[n - 1] = k /\ a[n] = e
      BY <1>2, <2>1, <2>3
    <3>2. QED
      BY <2>1, <2>3, <3>1
  <2>4. CASE n # c
    <3>1. a[n - 1] = a[n] /\ a[n] \in Facts
      BY <1>1, <1>2, <1>3, <2>1, <2>4
    <3>2. QED
      BY <2>1, <2>2, <2>4, <3>1, Unconcerned
  <2>5. QED
    BY <2>3, <2>4
<1>6. QED
  BY <1>1, <1>3, <1>4, <1>5 DEF Stream

\* None of the messages is about the object.
LEMMA StreamNone ==
  ASSUME NEW r, NEW gone, NEW k \in Facts, NEW s \in Seq(GoodMsgs),
         \A m \in Range(s) : m.id # r \/ m.state \notin Telling
  PROVE  Stream(r, gone, k, s, k)
<1>1. \A n \in 1 .. Len(s) : s[n].id # r \/ s[n].state \notin Telling
  BY RangeIs
<1>2. 0 \in 0 .. Len(s)
  OBVIOUS
<1>3. QED
  BY <1>1, <1>2, StreamOne

\* Messages of which no two have the same id; one is about the object.
LEMMA StreamBatch ==
  ASSUME NEW r, NEW gone, NEW k \in Facts, NEW e \in Facts, NEW s \in Seq(GoodMsgs),
         \A i, j \in 1 .. Len(s) : s[i].id = s[j].id => i = j,
         NEW m \in Range(s), m.id = r, Leads(r, gone, k, m, e)
  PROVE  Stream(r, gone, k, s, e)
<1>1. PICK c \in 1 .. Len(s) : s[c] = m
  BY RangeIs
<1>2. \A n \in 1 .. Len(s) : n # c => s[n].id # r
  BY <1>1
<1>3. c \in 0 .. Len(s) /\ c # 0
  OBVIOUS
<1>4. QED
  BY <1>1, <1>2, <1>3, StreamOne

\* A single message is sent.
LEMMA StreamSingle ==
  ASSUME NEW r, NEW gone, NEW k \in Facts, NEW e \in Facts, NEW m \in GoodMsgs,
         Leads(r, gone, k, m, e)
  PROVE  Stream(r, gone, k, <<m>>, e)
<1>1. PICK s : s = <<m>>
  OBVIOUS
<1>2. s \in Seq(GoodMsgs) /\ Len(s) = 1 /\ s[1] = m
  BY <1>1
<1>3. 1 \in 0 .. Len(s) /\ \A n \in 1 .. Len(s) : n = 1
  BY <1>2
<1>4. Stream(r, gone, k, s, e)
  BY <1>2, <1>3, StreamOne
<1>5. QED
  BY <1>1, <1>4

\* Folded follows the stream.
LEMMA StreamFold ==
  ASSUME NEW r, NEW gone, NEW k, NEW e, NEW s \in Seq(GoodMsgs), Stream(r, gone, k, s, e)
  PROVE  Folded(r, k, s) = e
<1>1. PICK N \in Nat : N = Len(s)
  OBVIOUS
<1>2. PICK a \in [0 .. N -> Facts] :
        /\ a[0] = k /\ a[N] = e
        /\ \A n \in 1 .. N : Leads(r, gone, a[n - 1], s[n], a[n])
  BY <1>1 DEF Stream
<1> DEFINE Is(f) == f = [n \in 0 .. Len(s) |-> IF n = 0 THEN k ELSE After(r, f[n - 1], s[n])]
<1>3. PICK f : f = CHOOSE g : Is(g)
  OBVIOUS
<1>4. Folded(r, k, s) = f[N]
  BY <1>1, <1>3, Zenon DEF Folded
<1>5. Is(a)
  <2>1. \A n \in 0 .. N : n # 0 => n \in 1 .. N
    OBVIOUS
  <2>2. \A n \in 0 .. N : a[n] = IF n = 0 THEN k ELSE After(r, a[n - 1], s[n])
    BY <1>2, <2>1 DEF Leads
  <2>3. a = [n \in 0 .. N |-> IF n = 0 THEN k ELSE After(r, a[n - 1], s[n])]
    BY <2>2
  <2>4. QED
    BY <1>1, <2>3
<1>6. Is(f)
  <2> HIDE DEF Is
  <2>1. QED
    BY <1>3, <1>5
<1>7. \A n \in 0 .. N : f[n] = IF n = 0 THEN k ELSE After(r, f[n - 1], s[n])
  BY <1>1, <1>6, Zenon
<1> HIDE DEF Is
<1> DEFINE P == {n \in 0 .. N : f[n] = a[n]}
<1>8. 0 \in P
  BY <1>2, <1>7
<1>9. ASSUME NEW n \in 1 .. N, n - 1 \in P PROVE n \in P
  <2>1. n \in 0 .. N /\ n # 0 /\ f[n - 1] = a[n - 1]
    BY <1>9
  <2>2. f[n] = After(r, f[n - 1], s[n])
    BY <1>7, <2>1
  <2>3. a[n] = After(r, a[n - 1], s[n])
    BY <1>2 DEF Leads
  <2>4. QED
    BY <2>1, <2>2, <2>3
<1>10. N \in P
  <2>1. \A n \in 1 .. N : n - 1 \in P => n \in P
    BY <1>9
  <2> HIDE DEF P
  <2>2. \A n \in 0 .. N : n \in P
    BY <1>8, <2>1, Induct
  <2>3. QED
    BY <2>2
<1>11. QED
  BY <1>2, <1>4, <1>10 DEF P

-----------------------------------------------------------------------------
(***************************************************************************)
(* What the two ends of a link have to do with what is under way on it.    *)
(***************************************************************************)
\* What a host with the objects here, and these pairs of ids for its peer p, knows by r.
Knows(here, pairs, p, r, k) ==
  IF k = Nothing THEN \A pair \in pairs : pair[2] # r
  ELSE \E pair \in pairs, o \in here :
         /\ pair[2] = r /\ o.id = pair[1] /\ o.peer = p /\ Open(o)
         /\ k = [name |-> o.name, data |-> o.data]

\* The host h, which has missed gone, has been told of o by a host with the peers ps, or
\* should have been.
Shown(o, h, ps, gone) ==
  /\ ~Unmapped(o) /\ h \in ps /\ o.name \notin gone /\ o.peer # h
  /\ ~(IsLocal(o) /\ o.state \in {"created", "zombie"})

\* e is right about o, but for what has not been synchronised.
Agrees(e, o) ==
  e.name = o.name /\ (e.data = o.data \/ (IsLocal(o) /\ o.state \in {"modified", "closed"}))

Tells(here, ps, gone, h, r, e) ==
  IF e = Nothing THEN \A o \in here : o.id = r => ~Shown(o, h, ps, gone)
  ELSE \E o \in here : o.id = r /\ Shown(o, h, ps, gone) /\ Agrees(e, o)

MissedBy(h) == {x \in Objects : <<h, x>> \in missed}

Flow(p, h, r) ==
  \E k \in Facts, e \in Facts :
    /\ Knows(Here(h), mapped[<<h, p>>], p, r, k)
    /\ Stream(r, MissedBy(h), k, net[<<p, h>>], e)
    /\ <<p, h>> \in live => Tells(Here(p), peers[p], MissedBy(h), h, r, e)

Flows == \A p, h \in Hosts : <<p, h>> \in Links => \A r \in Ids : Flow(p, h, r)

\* The receiver's objects of p's stay as they are known.
Remains(here, after, p) ==
  \A o \in here : o.peer = p /\ Open(o) =>
    \E q \in after : q.id = o.id /\ q.name = o.name /\ q.data = o.data /\ q.peer = p /\ Open(q)

LEMMA KnowsRemains ==
  ASSUME NEW here, NEW after, NEW p, Remains(here, after, p), NEW pairs, NEW r, NEW k,
         Knows(here, pairs, p, r, k)
  PROVE  Knows(after, pairs, p, r, k)
<1>1. CASE k = Nothing
  BY <1>1 DEF Knows
<1>2. CASE k # Nothing
  <2>1. PICK pair \in pairs, o \in here :
          /\ pair[2] = r /\ o.id = pair[1] /\ o.peer = p /\ Open(o)
          /\ k = [name |-> o.name, data |-> o.data]
    BY <1>2 DEF Knows
  <2>2. PICK q \in after : q.id = o.id /\ q.name = o.name /\ q.data = o.data /\ q.peer = p /\ Open(q)
    BY <2>1 DEF Remains
  <2>3. QED
    BY <1>2, <2>1, <2>2 DEF Knows
<1>3. QED
  BY <1>1, <1>2

\* The objects at r that are shown stay as they are.
LEMMA TellsRemains ==
  ASSUME NEW here, NEW after, NEW ps, NEW pt, NEW gone, NEW more, NEW h, NEW r, NEW e,
         \A o \in here : o.id = r /\ Shown(o, h, ps, gone) =>
           \E q \in after : /\ q.id = r /\ Shown(q, h, pt, more)
                            /\ Agrees(e, o) => Agrees(e, q),
         \A q \in after : q.id = r /\ Shown(q, h, pt, more) =>
           \E o \in here : o.id = r /\ Shown(o, h, ps, gone),
         Tells(here, ps, gone, h, r, e)
  PROVE  Tells(after, pt, more, h, r, e)
<1>1. CASE e = Nothing
  BY <1>1 DEF Tells
<1>2. CASE e # Nothing
  <2>1. PICK o \in here : o.id = r /\ Shown(o, h, ps, gone) /\ Agrees(e, o)
    BY <1>2 DEF Tells
  <2>2. PICK q \in after : q.id = r /\ Shown(q, h, pt, more) /\ Agrees(e, q)
    BY <2>1
  <2>3. QED
    BY <1>2, <2>2 DEF Tells
<1>3. QED
  BY <1>1, <1>2

\* The objects that are shown stay, at an id that is not the one that changes.
LEMMA TellsElsewhere ==
  ASSUME NEW here, NEW after, NEW ps, NEW gone, NEW h, NEW r, NEW e,
         \A o : o.id = r => (o \in after <=> o \in here),
         Tells(here, ps, gone, h, r, e)
  PROVE  Tells(after, ps, gone, h, r, e)
BY DEF Tells

\* On a link something may be sent; what has arrived stays as it is known.
LEMMA FlowSend ==
  ASSUME Inv, NEW p \in Hosts, NEW h \in Hosts, <<p, h>> \in Links, NEW r \in Ids, Flow(p, h, r),
         Remains(Here(h), Here(h)', p), mapped'[<<h, p>>] = mapped[<<h, p>>],
         MissedBy(h) \subseteq MissedBy(h)',
         NEW msgs \in Seq(GoodMsgs), net'[<<p, h>>] = net[<<p, h>>] \o msgs,
         \A e \in Facts :
           (<<p, h>> \in live => Tells(Here(p), peers[p], MissedBy(h), h, r, e)) =>
             \E i \in Facts :
               /\ Stream(r, MissedBy(h)', e, msgs, i)
               /\ <<p, h>> \in live' => Tells(Here(p)', peers'[p], MissedBy(h)', h, r, i)
  PROVE  Flow(p, h, r)'
<1>1. PICK k \in Facts, e \in Facts :
        /\ Knows(Here(h), mapped[<<h, p>>], p, r, k)
        /\ Stream(r, MissedBy(h), k, net[<<p, h>>], e)
        /\ <<p, h>> \in live => Tells(Here(p), peers[p], MissedBy(h), h, r, e)
  BY DEF Flow
<1>2. PICK i \in Facts :
        /\ Stream(r, MissedBy(h)', e, msgs, i)
        /\ <<p, h>> \in live' => Tells(Here(p)', peers'[p], MissedBy(h)', h, r, i)
  BY <1>1
<1>3. Knows(Here(h)', mapped'[<<h, p>>], p, r, k)
  BY <1>1, KnowsRemains
<1>4. net[<<p, h>>] \in Seq(GoodMsgs)
  BY DEF Inv, NetTyped
<1>5. Stream(r, MissedBy(h)', k, net[<<p, h>>], e)
  BY <1>1, StreamMore
<1>6. Stream(r, MissedBy(h)', k, net'[<<p, h>>], i)
  BY <1>2, <1>4, <1>5, StreamConcat
<1>7. QED
  BY <1>2, <1>3, <1>6 DEF Flow

\* On a link nothing happens, nor at its sender; more may have been missed.
LEMMA FlowIdle ==
  ASSUME NEW p \in Hosts, NEW h \in Hosts, <<p, h>> \in Links, NEW r \in Ids, Flow(p, h, r),
         Remains(Here(h), Here(h)', p), mapped'[<<h, p>>] = mapped[<<h, p>>],
         MissedBy(h) \subseteq MissedBy(h)',
         \A o \in Here(p) : o.peer # h /\ o.name \in MissedBy(h)' => o.name \in MissedBy(h),
         net'[<<p, h>>] = net[<<p, h>>],
         <<p, h>> \in live' => <<p, h>> \in live,
         Here(p)' = Here(p), h \in peers'[p] <=> h \in peers[p]
  PROVE  Flow(p, h, r)'
<1>1. PICK k \in Facts, e \in Facts :
        /\ Knows(Here(h), mapped[<<h, p>>], p, r, k)
        /\ Stream(r, MissedBy(h), k, net[<<p, h>>], e)
        /\ <<p, h>> \in live => Tells(Here(p), peers[p], MissedBy(h), h, r, e)
  BY DEF Flow
<1>2. Knows(Here(h)', mapped'[<<h, p>>], p, r, k)
  BY <1>1, KnowsRemains
<1>3. Stream(r, MissedBy(h)', k, net'[<<p, h>>], e)
  BY <1>1, StreamMore
<1>4. \A o \in Here(p) : Shown(o, h, peers[p], MissedBy(h)) <=> Shown(o, h, peers'[p], MissedBy(h)')
  BY DEF Shown
<1>5. ASSUME <<p, h>> \in live'
      PROVE  Tells(Here(p)', peers'[p], MissedBy(h)', h, r, e)
  BY <1>1, <1>4, <1>5 DEF Tells
<1>6. QED
  BY <1>2, <1>3, <1>5 DEF Flow

\* The first message is taken from a link; at its sender nothing happens.
LEMMA FlowTake ==
  ASSUME Inv, NEW p \in Hosts, NEW h \in Hosts, <<p, h>> \in Links, NEW r \in Ids, Flow(p, h, r),
         MissedBy(h) \subseteq MissedBy(h)',
         \A o \in Here(p) : o.peer # h /\ o.name \in MissedBy(h)' => o.name \in MissedBy(h),
         net[<<p, h>>] # <<>>, net'[<<p, h>>] = Tail(net[<<p, h>>]),
         \A k, i \in Facts :
           Knows(Here(h), mapped[<<h, p>>], p, r, k)
             /\ Leads(r, MissedBy(h), k, Head(net[<<p, h>>]), i)
           => Knows(Here(h)', mapped'[<<h, p>>], p, r, i),
         <<p, h>> \in live' => <<p, h>> \in live,
         Here(p)' = Here(p), h \in peers'[p] <=> h \in peers[p]
  PROVE  Flow(p, h, r)'
<1>1. PICK k \in Facts, e \in Facts :
        /\ Knows(Here(h), mapped[<<h, p>>], p, r, k)
        /\ Stream(r, MissedBy(h), k, net[<<p, h>>], e)
        /\ <<p, h>> \in live => Tells(Here(p), peers[p], MissedBy(h), h, r, e)
  BY DEF Flow
<1>2. net[<<p, h>>] \in Seq(GoodMsgs)
  BY DEF Inv, NetTyped
<1>3. PICK i \in Facts : /\ Leads(r, MissedBy(h), k, Head(net[<<p, h>>]), i)
                         /\ Stream(r, MissedBy(h), i, Tail(net[<<p, h>>]), e)
  BY <1>1, <1>2, StreamTail
<1>4. Knows(Here(h)', mapped'[<<h, p>>], p, r, i)
  BY <1>1, <1>3
<1>5. Stream(r, MissedBy(h)', i, net'[<<p, h>>], e)
  BY <1>3, StreamMore
<1>6. \A o \in Here(p) : Shown(o, h, peers[p], MissedBy(h)) <=> Shown(o, h, peers'[p], MissedBy(h)')
  BY DEF Shown
<1>7. ASSUME <<p, h>> \in live'
      PROVE  Tells(Here(p)', peers'[p], MissedBy(h)', h, r, e)
  BY <1>1, <1>6, <1>7 DEF Tells
<1>8. QED
  BY <1>4, <1>5, <1>7 DEF Flow

\* The first message is about the object that is known.
LEMMA FlowFits ==
  ASSUME Inv, NEW p \in Hosts, NEW h \in Hosts, <<p, h>> \in Links,
         NEW msg, msg = Head(net[<<p, h>>]), msg.id \in Ids,
         Flow(p, h, msg.id), net[<<p, h>>] # <<>>
  PROVE  \E k \in Facts : /\ Knows(Here(h), mapped[<<h, p>>], p, msg.id, k)
                          /\ Fits(k, msg, MissedBy(h))
<1>1. PICK k \in Facts, e \in Facts :
        /\ Knows(Here(h), mapped[<<h, p>>], p, msg.id, k)
        /\ Stream(msg.id, MissedBy(h), k, net[<<p, h>>], e)
  BY DEF Flow
<1>2. net[<<p, h>>] \in Seq(GoodMsgs)
  BY DEF Inv, NetTyped
<1>3. PICK i \in Facts : Leads(msg.id, MissedBy(h), k, Head(net[<<p, h>>]), i)
  BY <1>1, <1>2, StreamTail
<1>4. QED
  BY <1>1, <1>3 DEF Leads

-----------------------------------------------------------------------------
(* More about sequences.                                                   *)

\* What is once in a sequence, Only keeps once.
LEMMA OnlyOnce ==
  ASSUME NEW T, NEW s \in Seq(T), NEW S,
         \A i, j \in 1 .. Len(s) : s[i] \in S /\ s[i] = s[j] => i = j
  PROVE  \A i, j \in 1 .. Len(Only(s, S)) : Only(s, S)[i] = Only(s, S)[j] => i = j
<1>1. PICK f : f = CHOOSE g : OnlyRec(s, S, g)
  OBVIOUS
<1>2. OnlyRec(s, S, f)
  BY <1>1, OnlyExists
<1>3. Only(s, S) = f[Len(s)]
  BY <1>1, Zenon DEF Only, OnlyRec
<1>4. PICK N \in Nat : N = Len(s)
  OBVIOUS
<1> DEFINE Good(n) == /\ f[n] \in Seq(T)
                      /\ \A j \in 1 .. Len(f[n]) : \E i \in 1 .. n : f[n][j] = s[i] /\ s[i] \in S
                      /\ \A i, j \in 1 .. Len(f[n]) : f[n][i] = f[n][j] => i = j
           P == {n \in 0 .. N : Good(n)}
<1>5. Good(0)
  <2>1. f[0] = <<>>
    <3>1. 0 \in 0 .. Len(s)
      OBVIOUS
    <3>2. QED
      BY <1>2, <3>1, OnlyAt
  <2>2. QED
    BY <2>1
<1>6. ASSUME NEW n \in 1 .. N, Good(n - 1) PROVE Good(n)
  <2>1. PICK t \in Seq(T) :
          /\ t = f[n - 1]
          /\ \A j \in 1 .. Len(t) : \E i \in 1 .. n - 1 : t[j] = s[i] /\ s[i] \in S
          /\ \A i, j \in 1 .. Len(t) : t[i] = t[j] => i = j
    BY <1>6
  <2>2. f[n] = IF s[n] \in S THEN Append(t, s[n]) ELSE t
    <3>1. n \in 0 .. Len(s) /\ n # 0
      BY <1>4
    <3>2. f[n] = IF n = 0 THEN <<>>
                 ELSE IF s[n] \in S THEN Append(f[n - 1], s[n]) ELSE f[n - 1]
      BY <1>2, <3>1, OnlyAt
    <3>3. t = f[n - 1]
      BY <2>1
    <3>4. QED
      BY <3>1, <3>2, <3>3
  <2>3. s[n] \in T /\ n \in 1 .. Len(s)
    BY <1>4
  <2>4. \A i \in 1 .. n - 1 : i \in 1 .. n /\ i \in 1 .. Len(s) /\ i # n
    BY <1>4
  <2>5. CASE s[n] \in S
    <3>1. PICK M \in Nat : M = Len(t)
      OBVIOUS
    <3>2. PICK u \in Seq(T) : u = f[n]
      <4>1. Append(t, s[n]) \in Seq(T)
        BY <2>3
      <4>2. QED
        BY <2>2, <2>5, <4>1
    <3>3. /\ Len(u) = M + 1 /\ u[M + 1] = s[n]
          /\ \A j \in 1 .. M : u[j] = t[j]
      BY <2>2, <2>5, <3>1, <3>2
    <3>4. \A j \in 1 .. M + 1 : j \in 1 .. M \/ j = M + 1
      OBVIOUS
    <3>5. n \in 1 .. n
      OBVIOUS
    <3>6. \A j \in 1 .. M + 1 : \E i \in 1 .. n : u[j] = s[i] /\ s[i] \in S
      <4>1. ASSUME NEW j \in 1 .. M PROVE \E i \in 1 .. n : u[j] = s[i] /\ s[i] \in S
        <5>1. PICK i \in 1 .. n - 1 : t[j] = s[i] /\ s[i] \in S
          BY <2>1, <3>1
        <5>2. QED
          BY <2>4, <3>3, <5>1
      <4>2. \E i \in 1 .. n : u[M + 1] = s[i] /\ s[i] \in S
        BY <2>5, <3>3, <3>5
      <4>3. QED
        BY <3>4, <4>1, <4>2
    <3>7. \A j \in 1 .. M : u[j] # s[n]
      <4>1. SUFFICES ASSUME NEW j \in 1 .. M PROVE u[j] # s[n]
        OBVIOUS
      <4>2. PICK i \in 1 .. n - 1 : t[j] = s[i] /\ s[i] \in S
        BY <2>1, <3>1
      <4>3. s[i] # s[n]
        BY <2>3, <2>4, <4>2
      <4>4. QED
        BY <3>3, <4>2, <4>3
    <3>8. \A i, j \in 1 .. M + 1 : u[i] = u[j] => i = j
      BY <2>1, <3>1, <3>3, <3>4, <3>7
    <3>9. QED
      BY <3>2, <3>3, <3>6, <3>8
  <2>6. CASE s[n] \notin S
    <3>1. f[n] = t
      BY <2>2, <2>6
    <3>2. QED
      BY <2>1, <2>4, <3>1
  <2>7. QED
    BY <2>5, <2>6
<1> HIDE DEF Good
<1>7. Good(N)
  <2>1. 0 \in P
    BY <1>5
  <2>2. \A n \in 1 .. N : n - 1 \in P => n \in P
    BY <1>6
  <2> HIDE DEF P
  <2>3. \A n \in 0 .. N : n \in P
    BY <2>1, <2>2, Induct
  <2>4. QED
    BY <2>3 DEF P
<1>8. QED
  BY <1>3, <1>4, <1>7 DEF Good

\* Two sequences are put together.
LEMMA ConcatIs ==
  ASSUME NEW T, NEW s \in Seq(T), NEW t \in Seq(T)
  PROVE  /\ s \o t \in Seq(T)
         /\ Len(s \o t) = Len(s) + Len(t)
         /\ \A i \in 1 .. Len(s) : (s \o t)[i] = s[i]
         /\ \A i \in 1 .. Len(t) : (s \o t)[Len(s) + i] = t[i]
         /\ \A i \in 1 .. Len(s) + Len(t) :
              i \in 1 .. Len(s) \/ \E j \in 1 .. Len(t) : i = Len(s) + j
         /\ Range(s \o t) = Range(s) \union Range(t)
<1>1. PICK N \in Nat, M \in Nat : N = Len(s) /\ M = Len(t)
  OBVIOUS
<1>2. PICK u : u = s \o t
  OBVIOUS
<1>3. /\ u \in Seq(T) /\ Len(u) = N + M
      /\ \A i \in 1 .. N : u[i] = s[i]
      /\ \A i \in 1 .. M : u[N + i] = t[i]
  BY <1>1, <1>2
<1>4. \A i \in 1 .. N + M : i \in 1 .. N \/ \E j \in 1 .. M : i = N + j
  <2>1. SUFFICES ASSUME NEW i \in 1 .. N + M, i \notin 1 .. N
                 PROVE  \E j \in 1 .. M : i = N + j
    OBVIOUS
  <2>2. i - N \in 1 .. M /\ i = N + (i - N)
    BY <2>1
  <2>3. QED
    BY <2>2
<1>5. \A i \in 1 .. N : i \in 1 .. N + M
  OBVIOUS
<1>6. \A i \in 1 .. M : N + i \in 1 .. N + M
  OBVIOUS
<1>7. \A x : x \in Range(u) <=> x \in Range(s) \/ x \in Range(t)
  <2>1. \A x : x \in Range(u) <=> \E i \in 1 .. N + M : u[i] = x
    BY <1>3, RangeIs
  <2>2. \A x : x \in Range(s) <=> \E i \in 1 .. N : s[i] = x
    BY <1>1, RangeIs
  <2>3. \A x : x \in Range(t) <=> \E i \in 1 .. M : t[i] = x
    BY <1>1, RangeIs
  <2>4. ASSUME NEW x, x \in Range(u) PROVE x \in Range(s) \/ x \in Range(t)
    <3>1. PICK i \in 1 .. N + M : u[i] = x
      BY <2>1, <2>4
    <3>2. QED
      BY <1>3, <1>4, <2>2, <2>3, <3>1
  <2>5. ASSUME NEW x, x \in Range(s) PROVE x \in Range(u)
    BY <1>3, <1>5, <2>1, <2>2, <2>5
  <2>6. ASSUME NEW x, x \in Range(t) PROVE x \in Range(u)
    BY <1>3, <1>6, <2>1, <2>3, <2>6
  <2>7. QED
    BY <2>4, <2>5, <2>6
<1>8. Range(u) = Range(s) \union Range(t)
  BY <1>7
<1>9. QED
  BY <1>1, <1>2, <1>3, <1>4, <1>8

\* The first element is taken.
LEMMA TailIs ==
  ASSUME NEW T, NEW s \in Seq(T), s # <<>>
  PROVE  /\ Tail(s) \in Seq(T) /\ Len(Tail(s)) + 1 = Len(s)
         /\ Head(s) \in Range(s) /\ s[1] = Head(s) /\ 1 \in 1 .. Len(s)
         /\ \A i \in 1 .. Len(Tail(s)) : i + 1 \in 1 .. Len(s) /\ Tail(s)[i] = s[i + 1]
         /\ Range(Tail(s)) \subseteq Range(s)
<1>1. PICK N \in Nat : N + 1 = Len(s)
  <2>1. Len(s) \in Nat /\ Len(s) # 0
    OBVIOUS
  <2>2. Len(s) - 1 \in Nat /\ (Len(s) - 1) + 1 = Len(s)
    BY <2>1
  <2>3. QED
    BY <2>2
<1>2. PICK t : t = Tail(s)
  OBVIOUS
<1>3. t \in Seq(T) /\ Len(t) = N /\ \A i \in 1 .. N : t[i] = s[i + 1]
  BY <1>1, <1>2
<1>4. \A i \in 1 .. N : i + 1 \in 1 .. N + 1
  OBVIOUS
<1>5. Range(t) \subseteq Range(s)
  <2>1. \A x : x \in Range(t) <=> \E i \in 1 .. N : t[i] = x
    BY <1>3, RangeIs
  <2>2. \A x : x \in Range(s) <=> \E i \in 1 .. N + 1 : s[i] = x
    BY <1>1, RangeIs
  <2>3. QED
    BY <1>3, <1>4, <2>1, <2>2
<1>6. s[1] = Head(s) /\ 1 \in 1 .. N + 1
  BY <1>1
<1>7. Head(s) \in Range(s)
  BY <1>1, <1>6, RangeIs
<1>8. QED
  BY <1>1, <1>2, <1>3, <1>4, <1>5, <1>6, <1>7

-----------------------------------------------------------------------------
(***************************************************************************)
(* The wires: connections have two ends, a connection's events are the     *)
(* first and the last thing under way, and a client that is not connected, *)
(* or of whose connection the server has not heard yet, is a stranger.     *)
(***************************************************************************)
Symmetric ==
  /\ Server \in enetHost
  /\ \A l \in live : <<l[2], l[1]>> \in live /\ l[1] \in enetHost /\ l[2] \in enetHost
Star == \A h \in Hosts : \A p \in peers[h] : <<h, p>> \in Links

Framed(msgs) ==
  \A i \in 1 .. Len(msgs) :
    /\ msgs[i].state = "connect" => i = 1
    /\ msgs[i].state = "disconnect" => i = Len(msgs)
Framing(l) ==
  /\ Framed(net[l])
  /\ \A m \in Range(net[l]) :
       /\ m.state = "connect" => l[2] = Server
       /\ m.state = "disconnect" => l \notin live /\ l[1] \in enetHost /\ l[2] \in enetHost
Frames == \A l \in Links : Framing(l)

Unconnected ==
  \A c \in Clients \ enetHost :
    /\ net[<<c, Server>>] = <<>> /\ net[<<Server, c>>] = <<>>
    /\ \A o \in Here(c) : IsLocal(o)

NotYet(c) == c \notin enetHost \/ \E m \in Range(net[<<c, Server>>]) : m.state = "connect"
Strangers ==
  \A c \in Clients : NotYet(c) =>
    /\ c \notin peers[Server]
    /\ \A o \in Here(Server) : o.peer # c
    /\ \A x \in Objects : <<c, x>> \notin missed

Wired == Symmetric /\ Star /\ Frames /\ Unconnected /\ Strangers

\* What may happen to a link, if messages of the sorts S are sent.
Plain(msgs) == \A m \in Range(msgs) : m.state \notin {"connect", "disconnect"}
Says(msgs, S) == \A m \in Range(msgs) : m.state \in S
Sorts == Telling \union {"message"}

Moves(l, S) ==
  \/ net'[l] = net[l]
  \/ l \in live /\ \E msgs \in Seq(GoodMsgs) : Says(msgs, S) /\ net'[l] = net[l] \o msgs
  \/ net[l] # <<>> /\ net'[l] = Tail(net[l])
  \/ net'[l] = <<>>
  \/ /\ l[2] = Server /\ l[1] \notin enetHost /\ l[1] \in enetHost'
     /\ \E msgs \in Seq(GoodMsgs) : Says(msgs, S) /\ net'[l] = <<Connect>> \o msgs
  \/ l \in live /\ l \notin live' /\ net'[l] \in CutShort(l)

\* Connections begin where there was none.
Opens == /\ enetHost \subseteq enetHost'
         /\ \A l \in live' : l \in live \/ l[1] \notin enetHost \/ l[2] \notin enetHost

LEMMA FramedConcat ==
  ASSUME NEW s \in Seq(GoodMsgs), NEW t \in Seq(GoodMsgs), Framed(s), Plain(t),
         \A m \in Range(s) : m.state # "disconnect"
  PROVE  Framed(s \o t)
<1>1. PICK u : u = s \o t
  OBVIOUS
<1>2. PICK N \in Nat, M \in Nat : N = Len(s) /\ M = Len(t)
  OBVIOUS
<1>3. /\ Len(u) = N + M
      /\ \A i \in 1 .. N : u[i] = s[i]
      /\ \A i \in 1 .. M : u[N + i] = t[i]
      /\ \A i \in 1 .. N + M : i \in 1 .. N \/ \E j \in 1 .. M : i = N + j
  BY <1>1, <1>2, ConcatIs
<1>4. \A i \in 1 .. N : s[i].state # "disconnect" /\ (s[i].state = "connect" => i = 1)
  BY <1>2, RangeIs DEF Framed
<1>5. \A i \in 1 .. M : t[i].state \notin {"connect", "disconnect"}
  BY <1>2, RangeIs DEF Plain
<1>6. ASSUME NEW i \in 1 .. N + M
      PROVE  u[i].state # "disconnect" /\ (u[i].state = "connect" => i = 1)
  <2>1. CASE i \in 1 .. N
    BY <1>3, <1>4, <2>1
  <2>2. CASE i \notin 1 .. N
    <3>1. PICK j \in 1 .. M : i = N + j
      BY <1>3, <2>2
    <3>2. u[i] = t[j]
      BY <1>3, <3>1
    <3>3. QED
      BY <1>5, <3>2
  <2>3. QED
    BY <2>1, <2>2
<1>7. Framed(u)
  BY <1>3, <1>6 DEF Framed
<1>8. QED
  BY <1>1, <1>7

LEMMA FramedTail ==
  ASSUME NEW s \in Seq(GoodMsgs), Framed(s), s # <<>>
  PROVE  /\ Framed(Tail(s))
         /\ \A m \in Range(Tail(s)) : m.state # "connect"
         /\ Head(s).state = "disconnect" => Tail(s) = <<>>
<1>1. PICK t \in Seq(GoodMsgs), N \in Nat :
        /\ t = Tail(s) /\ Len(t) = N /\ N + 1 = Len(s)
        /\ \A i \in 1 .. N : i + 1 \in 1 .. Len(s) /\ t[i] = s[i + 1]
  <2>1. Tail(s) \in Seq(GoodMsgs) /\ Len(Tail(s)) + 1 = Len(s)
    BY TailIs
  <2>2. PICK t \in Seq(GoodMsgs) : t = Tail(s)
    BY <2>1
  <2>3. \A i \in 1 .. Len(Tail(s)) : i + 1 \in 1 .. Len(s) /\ Tail(s)[i] = s[i + 1]
    BY TailIs
  <2>4. PICK N \in Nat : Len(t) = N
    OBVIOUS
  <2>5. QED
    BY <2>1, <2>2, <2>3, <2>4
<1>2. \A i \in 1 .. N : t[i].state # "connect" /\ (t[i].state = "disconnect" => i = N)
  BY <1>1 DEF Framed
<1>3. \A m \in Range(t) : m.state # "connect"
  <2>1. \A m \in Range(t) : \E i \in 1 .. Len(t) : t[i] = m
    BY RangeIs
  <2>2. QED
    BY <1>1, <1>2, <2>1
<1>4. Head(s).state = "disconnect" => N = 0
  <2>1. s[1] = Head(s) /\ 1 \in 1 .. Len(s)
    BY TailIs
  <2>2. QED
    BY <1>1, <2>1 DEF Framed
<1>5. N = 0 => t = <<>>
  BY <1>1
<1>6. QED
  BY <1>1, <1>2, <1>3, <1>4, <1>5 DEF Framed

\* A connection that ends cuts short what is under way on it.
LEMMA CutIs ==
  ASSUME NEW l \in Links, net[l] \in Seq(GoodMsgs), Framed(net[l]),
         \A m \in Range(net[l]) : m.state # "disconnect",
         NEW msgs \in CutShort(l)
  PROVE  \E s \in Seq(GoodMsgs) :
           /\ msgs = Append(s, Disconnect)
           /\ s = net[l] \/ \A m \in Range(s) : m = Connect
           /\ Framed(s) /\ Range(s) \subseteq Range(net[l])
<1>1. PICK n \in Seq(GoodMsgs) : n = net[l]
  OBVIOUS
<1>2. CASE msgs = Append(n, Disconnect)
  BY <1>1, <1>2
<1>3. CASE msgs = Append(Only(n, {Connect}), Disconnect)
  <2>1. PICK S : S = {Connect}
    OBVIOUS
  <2>2. PICK s \in Seq(GoodMsgs) : s = Only(n, S) /\ Range(s) = Range(n) \intersect S
    <3>1. Only(n, S) \in Seq(GoodMsgs) /\ Range(Only(n, S)) = Range(n) \intersect S
      BY OnlyIs
    <3>2. QED
      BY <3>1
  <2>3. \A i, j \in 1 .. Len(n) : n[i] \in S /\ n[i] = n[j] => i = j
    <3>1. Connect.state = "connect"
      BY DEF Connect, Msg
    <3>2. \A i \in 1 .. Len(n) : n[i] = Connect => i = 1
      BY <1>1, <3>1 DEF Framed
    <3>3. QED
      BY <2>1, <3>2
  <2>4. \A i, j \in 1 .. Len(s) : s[i] = s[j] => i = j
    <3>1. \A i, j \in 1 .. Len(Only(n, S)) : Only(n, S)[i] = Only(n, S)[j] => i = j
      BY <2>3, OnlyOnce
    <3>2. QED
      BY <2>2, <3>1
  <2>5. \A i \in 1 .. Len(s) : s[i] = Connect
    BY <2>1, <2>2, RangeIs
  <2>6. \A i \in 1 .. Len(s) : i = 1
    <3>1. SUFFICES ASSUME NEW i \in 1 .. Len(s) PROVE i = 1
      OBVIOUS
    <3>2. 1 \in 1 .. Len(s)
      OBVIOUS
    <3>3. QED
      BY <2>4, <2>5, <3>2
  <2>7. Framed(s)
    BY <2>5, <2>6 DEF Framed, Connect, Msg
  <2>8. \A m \in Range(s) : m = Connect
    BY <2>1, <2>2
  <2>9. QED
    BY <1>1, <1>3, <2>1, <2>2, <2>7, <2>8
<1>4. QED
  BY <1>1, <1>2, <1>3 DEF CutShort

LEMMA DisconnectGood ==
  Disconnect \in GoodMsgs /\ Connect \in GoodMsgs
BY GameNetAssumption DEF Disconnect, Connect, Msg, GoodMsgs, Messages

LEMMA FramedCut ==
  ASSUME NEW s \in Seq(GoodMsgs), Framed(s), \A m \in Range(s) : m.state # "disconnect"
  PROVE  /\ Framed(Append(s, Disconnect))
         /\ Range(Append(s, Disconnect)) = Range(s) \union {Disconnect}
<1>1. PICK N \in Nat : N = Len(s)
  OBVIOUS
<1>2. PICK t : t = Append(s, Disconnect)
  OBVIOUS
<1>3. Len(t) = N + 1 /\ t[N + 1] = Disconnect /\ \A i \in 1 .. N : t[i] = s[i]
  BY <1>1, <1>2
<1>4. \A i \in 1 .. N : s[i].state # "disconnect" /\ (s[i].state = "connect" => i = 1)
  BY <1>1, RangeIs DEF Framed
<1>5. \A i \in 1 .. N + 1 : i \in 1 .. N \/ i = N + 1
  OBVIOUS
<1>6. Framed(t)
  BY <1>3, <1>4, <1>5 DEF Framed, Disconnect, Msg
<1>7. Range(t) = Range(s) \union {Disconnect}
  BY <1>2, DisconnectGood, AppendRange
<1>8. QED
  BY <1>2, <1>6, <1>7

\* The order of what is under way is kept.
LEMMA FramingKeeps ==
  ASSUME Inv, Symmetric, NEW l \in Links, Framing(l), Opens,
         NEW S \in SUBSET Sorts, Moves(l, S)
  PROVE  /\ Framing(l)'
         /\ \A m \in Range(net'[l]) :
              m.state = "connect" => m \in Range(net[l]) \/ l[1] \notin enetHost
<1>1. PICK s \in Seq(GoodMsgs) : s = net[l]
  BY DEF Inv, NetTyped
<1>2. /\ Framed(s)
      /\ \A m \in Range(s) :
           /\ m.state = "connect" => l[2] = Server
           /\ m.state = "disconnect" => l \notin live /\ l[1] \in enetHost /\ l[2] \in enetHost
  BY <1>1 DEF Framing
<1>3. SUFFICES /\ Framed(net'[l])
               /\ \A m \in Range(net'[l]) :
                    /\ m.state = "connect" =>
                         m \in Range(s) \/ (l[2] = Server /\ l[1] \notin enetHost)
                    /\ m.state = "disconnect" =>
                         m \in Range(s) \/ (l \notin live' /\ l[1] \in enetHost /\ l[2] \in enetHost)
  <2>1. \A m \in Range(net'[l]) : m.state = "connect" => l[2] = Server
    BY <1>2, <1>3
  <2>2. \A m \in Range(net'[l]) : m.state = "disconnect" =>
          l \notin live' /\ l[1] \in enetHost' /\ l[2] \in enetHost'
    BY <1>2, <1>3 DEF Opens
  <2>3. QED
    BY <1>1, <1>3, <2>1, <2>2 DEF Framing
<1>4. CASE net'[l] = net[l]
  BY <1>1, <1>2, <1>4
<1>5. ASSUME l \in live, NEW t \in Seq(GoodMsgs), Plain(t), net'[l] = net[l] \o t
      PROVE  /\ Framed(net'[l])
             /\ \A m \in Range(net'[l]) :
                  m.state \in {"connect", "disconnect"} => m \in Range(s)
  <2>1. \A m \in Range(s) : m.state # "disconnect"
    BY <1>2, <1>5
  <2>2. Framed(net'[l])
    BY <1>1, <1>2, <1>5, <2>1, FramedConcat
  <2>3. Range(net'[l]) = Range(s) \union Range(t)
    BY <1>1, <1>5, ConcatIs
  <2>4. QED
    BY <1>5, <2>2, <2>3 DEF Plain
<1>6. CASE net[l] # <<>> /\ net'[l] = Tail(net[l])
  <2>1. Framed(net'[l]) /\ Range(net'[l]) \subseteq Range(s)
    BY <1>1, <1>2, <1>6, FramedTail, TailIs
  <2>2. QED
    BY <2>1
<1>7. CASE net'[l] = <<>>
  BY <1>7 DEF Framed, Range
<1>8. ASSUME l[2] = Server, NEW t \in Seq(GoodMsgs), Plain(t), net'[l] = <<Connect>> \o t
      PROVE  /\ Framed(net'[l])
             /\ \A m \in Range(net'[l]) : m.state # "disconnect"
  <2>1. PICK u \in Seq(GoodMsgs) : u = <<Connect>> /\ Len(u) = 1 /\ u[1] = Connect
    <3>1. <<Connect>> \in Seq(GoodMsgs)
      BY DisconnectGood
    <3>2. QED
      BY <3>1
  <2>2. Range(u) = {Connect}
    <3>1. \A x : x \in Range(u) <=> \E i \in 1 .. 1 : u[i] = x
      BY <2>1, RangeIs
    <3>2. QED
      BY <2>1, <3>1
  <2>3. Connect.state = "connect"
    BY DEF Connect, Msg
  <2>4. Framed(u) /\ \A m \in Range(u) : m.state # "disconnect"
    BY <2>1, <2>2, <2>3 DEF Framed
  <2>5. Framed(u \o t)
    BY <1>8, <2>4, FramedConcat
  <2>6. Range(u \o t) = Range(u) \union Range(t)
    BY <1>8, ConcatIs
  <2>7. QED
    BY <1>8, <2>1, <2>4, <2>5, <2>6 DEF Plain
<1>9. CASE l \in live /\ l \notin live' /\ net'[l] \in CutShort(l)
  <2>1. \A m \in Range(s) : m.state # "disconnect"
    BY <1>2, <1>9
  <2>2. PICK t \in Seq(GoodMsgs) :
          net'[l] = Append(t, Disconnect) /\ Framed(t) /\ Range(t) \subseteq Range(s)
    BY <1>1, <1>2, <1>9, <2>1, CutIs
  <2>3. Framed(net'[l]) /\ Range(net'[l]) = Range(t) \union {Disconnect}
    BY <2>1, <2>2, FramedCut
  <2>4. Disconnect.state = "disconnect"
    BY DEF Disconnect, Msg
  <2>5. l[1] \in enetHost /\ l[2] \in enetHost
    BY <1>9 DEF Symmetric
  <2>6. QED
    BY <1>9, <2>1, <2>2, <2>3, <2>4, <2>5
<1>10. \A t : Says(t, S) => Plain(t)
  BY DEF Says, Plain, Sorts, Telling
<1>11. QED
  BY <1>4, <1>5, <1>6, <1>7, <1>8, <1>9, <1>10 DEF Moves

\* BroadCast and SendMsg, link by link.
LEMMA SentIs ==
  ASSUME NEW h, NEW ps, NEW msgs, NEW l \in Links
  PROVE  Sent(h, ps, msgs)[l] =
           IF l[1] = h /\ l[2] \in ps /\ l \in live THEN net[l] \o msgs ELSE net[l]
BY DEF Sent

LEMMA SentMoves ==
  ASSUME NEW h, NEW ps, NEW msgs \in Seq(GoodMsgs), net' = Sent(h, ps, msgs), NEW S, Says(msgs, S),
         NEW l \in Links
  PROVE  Moves(l, S)
<1>1. net'[l] = IF l[1] = h /\ l[2] \in ps /\ l \in live THEN net[l] \o msgs ELSE net[l]
  BY SentIs
<1>2. QED
  BY <1>1 DEF Moves

LEMMA HandledIs ==
  ASSUME NEW h, NEW p, p # h, <<p, h>> \in Links, NEW ps, NEW msgs, Handled(h, p, ps, msgs),
         NEW l \in Links
  PROVE  net'[l] = IF l = <<p, h>> THEN Tail(net[l])
                   ELSE IF l[1] = h /\ l[2] \in ps /\ l \in live THEN net[l] \o msgs ELSE net[l]
<1>1. PICK sent : sent = Sent(h, ps, msgs)
  OBVIOUS
<1>2. sent[l] = IF l[1] = h /\ l[2] \in ps /\ l \in live THEN net[l] \o msgs ELSE net[l]
  BY <1>1, SentIs
<1>3. DOMAIN sent = Links
  BY <1>1 DEF Sent
<1>4. net' = [sent EXCEPT ![<<p, h>>] = Tail(sent[<<p, h>>])]
  BY <1>1 DEF Handled
<1>5. CASE l = <<p, h>>
  <2>1. sent[l] = net[l]
    BY <1>2, <1>5
  <2>2. QED
    BY <1>3, <1>4, <1>5, <2>1
<1>6. CASE l # <<p, h>>
  BY <1>2, <1>3, <1>4, <1>6
<1>7. QED
  BY <1>5, <1>6

LEMMA HandledMoves ==
  ASSUME NEW h, NEW p, p # h, <<p, h>> \in Links, net[<<p, h>>] # <<>>,
         NEW ps, NEW msgs \in Seq(GoodMsgs),
         Handled(h, p, ps, msgs), NEW S, Says(msgs, S), NEW l \in Links
  PROVE  Moves(l, S)
<1>1. net'[l] = IF l = <<p, h>> THEN Tail(net[l])
                ELSE IF l[1] = h /\ l[2] \in ps /\ l \in live THEN net[l] \o msgs ELSE net[l]
  BY HandledIs
<1>2. QED
  BY <1>1 DEF Moves

-----------------------------------------------------------------------------
(***************************************************************************)
(* The objects.  Each has a position of its own in the list of a host, and *)
(* follows from the one that was there: only creation adds one.            *)
(***************************************************************************)
Single(s) ==
  \A i, j \in 1 .. Len(s) :
    ~Unmapped(s[i]) /\ ~Unmapped(s[j]) /\ s[i].id = s[j].id => i = j
Singles == \A h \in Hosts : Single(objects[h])

Succeeds(o, q) ==
  /\ q.id = o.id /\ q.name = o.name /\ q.peer = o.peer
  /\ q.state = "created" => o.state = "created"
  /\ Unmapped(o) => Unmapped(q)
  /\ IsLocal(q) /\ q.state = "modified" => q = o \/ q.data # 0
Succs(here, after) == \A q \in after : \E o \in here : Succeeds(o, q)

LEMMA SucceedsSelf ==
  \A o : Succeeds(o, o)
BY DEF Succeeds

\* One object is changed.
LEMMA SuccsChange ==
  ASSUME NEW here, NEW o \in here, NEW n, Succeeds(o, n), NEW after, after = (here \ {o}) \union {n}
  PROVE  Succs(here, after)
BY SucceedsSelf DEF Succs

\* The objects of one host are changed.
LEMMA HereStep ==
  ASSUME Inv, NEW h \in Hosts, NEW s \in Seq(Copies), objects' = [objects EXCEPT ![h] = s]
  PROVE  /\ objects'[h] = s /\ Here(h)' = Range(s)
         /\ \A k \in Hosts : k # h => objects'[k] = objects[k] /\ Here(k)' = Here(k)
<1>1. DOMAIN objects = Hosts
  BY DEF Inv, StoreTyped
<1>2. QED
  BY <1>1 DEF Here

LEMMA HereSame ==
  ASSUME objects' = objects
  PROVE  \A h : Here(h)' = Here(h)
BY DEF Here

\* Positions stay, and nothing that has been unmapped comes back.
LEMMA SingleMap ==
  ASSUME NEW s, NEW t, Single(s), Len(t) = Len(s),
         \A i \in 1 .. Len(s) : t[i].id = s[i].id /\ (Unmapped(s[i]) => Unmapped(t[i]))
  PROVE  Single(t)
BY DEF Single

LEMMA SingleAppend ==
  ASSUME NEW s \in Seq(Copies), NEW o \in Copies, Single(s),
         \A q \in Range(s) : ~Unmapped(q) => q.id # o.id
  PROVE  Single(Append(s, o))
<1>1. PICK N \in Nat : N = Len(s)
  OBVIOUS
<1>2. PICK t : t = Append(s, o)
  OBVIOUS
<1>3. Len(t) = N + 1 /\ t[N + 1] = o /\ \A i \in 1 .. N : t[i] = s[i]
  BY <1>1, <1>2
<1>4. \A i \in 1 .. N : ~Unmapped(s[i]) => s[i].id # o.id
  BY <1>1, RangeIs
<1>5. \A i \in 1 .. N + 1 : i \in 1 .. N \/ i = N + 1
  OBVIOUS
<1>6. Single(t)
  BY <1>1, <1>3, <1>4, <1>5 DEF Single
<1>7. QED
  BY <1>2, <1>6

\* Only keeps positions, of objects with different ids.
LEMMA SingleOnly ==
  ASSUME NEW s \in Seq(Copies), Single(s), NEW S, \A o \in S : ~Unmapped(o)
  PROVE  \A i, j \in 1 .. Len(Only(s, S)) : Only(s, S)[i].id = Only(s, S)[j].id => i = j
<1>1. \A i, j \in 1 .. Len(s) : s[i] \in S /\ s[i] = s[j] => i = j
  BY DEF Single
<1>2. Only(s, S) \in Seq(Copies) /\ Range(Only(s, S)) = Range(s) \intersect S
  BY OnlyIs
<1>3. PICK t \in Seq(Copies) : t = Only(s, S) /\ Range(t) = Range(s) \intersect S
  BY <1>2
<1>4. \A i, j \in 1 .. Len(t) : t[i] = t[j] => i = j
  <2>1. \A i, j \in 1 .. Len(Only(s, S)) : Only(s, S)[i] = Only(s, S)[j] => i = j
    BY <1>1, OnlyOnce
  <2>2. QED
    BY <1>3, <2>1
<1>5. \A o, q \in Range(s) \intersect S : o.id = q.id => o = q
  <2>1. \A o \in Range(s) : \E i \in 1 .. Len(s) : s[i] = o
    BY RangeIs
  <2>2. SUFFICES ASSUME NEW o \in Range(s) \intersect S, NEW q \in Range(s) \intersect S, o.id = q.id
                 PROVE  o = q
    OBVIOUS
  <2>3. PICK i \in 1 .. Len(s), j \in 1 .. Len(s) : s[i] = o /\ s[j] = q
    BY <2>1
  <2>4. i = j
    BY <2>2, <2>3 DEF Single
  <2>5. QED
    BY <2>3, <2>4
<1>6. \A i \in 1 .. Len(t) : t[i] \in Range(s) \intersect S
  BY <1>3, RangeIs
<1>7. \A i, j \in 1 .. Len(t) : t[i].id = t[j].id => i = j
  BY <1>4, <1>5, <1>6
<1>8. QED
  BY <1>3, <1>7

-----------------------------------------------------------------------------
(***************************************************************************)
(* The names.  An object is its owner's, who has it once.  Before the      *)
(* message arrives that it has been created, the server has not heard of   *)
(* it, and nobody has missed it; and there is one such message.            *)
(***************************************************************************)
Owned ==
  \A h \in Hosts : \A o \in Here(h) :
    /\ IsLocal(o) => owner[o.name] = h
    /\ h = Server /\ ~IsLocal(o) => owner[o.name] = o.peer
Once == \A h \in Hosts : \A o, q \in Here(h) :
          IsLocal(o) /\ IsLocal(q) /\ o.name = q.name => o = q
Apart == \A o, q \in Here(Server) : ~Unmapped(o) /\ ~Unmapped(q) /\ o.name = q.name => o = q
MissedOwned == \A h \in Hosts, x \in Objects : <<h, x>> \in missed => owner[x] # None

Fresh == \A g \in Hosts : \A o \in Here(g) :
           IsLocal(o) /\ o.state = "created" => \A h \in Hosts : <<h, o.name>> \notin missed
Unheard(x) ==
  /\ \A o \in Here(Server) : o.name # x
  /\ \A h \in Hosts : <<h, x>> \notin missed
Unsent == \A c \in Clients : \A o \in Here(c) :
            IsLocal(o) /\ (o.state = "created" \/ c \notin enetHost) => Unheard(o.name)

Announced(msgs) ==
  \A i, j \in 1 .. Len(msgs) :
    msgs[i].state = "created" /\ msgs[j].state = "created" /\ msgs[i].name = msgs[j].name => i = j
Arrives(c) ==
  /\ Announced(net[<<c, Server>>])
  /\ \A m \in Range(net[<<c, Server>>]) : m.state = "created" =>
       /\ owner[m.name] = c /\ Unheard(m.name)
       /\ \A o \in Here(c) : IsLocal(o) /\ o.name = m.name => o.state # "created"
Arriving == \A c \in Clients : Arrives(c)

\* An object that is modified has been written.
Written == \A h \in Hosts : \A o \in Here(h) : IsLocal(o) /\ o.state = "modified" => o.data # 0

Named == Owned /\ Once /\ Apart /\ MissedOwned /\ Fresh /\ Unsent /\ Arriving /\ Written

\* Two sequences that announce different objects announce no object twice together.
LEMMA AnnouncedConcat ==
  ASSUME NEW s \in Seq(GoodMsgs), NEW t \in Seq(GoodMsgs), Announced(s), Announced(t),
         \A m \in Range(s), n \in Range(t) :
           m.state = "created" /\ n.state = "created" => m.name # n.name
  PROVE  Announced(s \o t)
<1>1. PICK u : u = s \o t
  OBVIOUS
<1>2. PICK N \in Nat, M \in Nat : N = Len(s) /\ M = Len(t)
  OBVIOUS
<1>3. /\ Len(u) = N + M
      /\ \A i \in 1 .. N : u[i] = s[i]
      /\ \A i \in 1 .. M : u[N + i] = t[i]
      /\ \A i \in 1 .. N + M : i \in 1 .. N \/ \E j \in 1 .. M : i = N + j
  BY <1>1, <1>2, ConcatIs
<1>4. \A i \in 1 .. N, j \in 1 .. M :
        s[i].state = "created" /\ t[j].state = "created" => s[i].name # t[j].name
  <2>1. \A i \in 1 .. N : s[i] \in Range(s)
    BY <1>2, RangeIs
  <2>2. \A j \in 1 .. M : t[j] \in Range(t)
    BY <1>2, RangeIs
  <2>3. QED
    BY <2>1, <2>2
<1>5. SUFFICES ASSUME NEW i \in 1 .. N + M, NEW j \in 1 .. N + M,
                      u[i].state = "created", u[j].state = "created", u[i].name = u[j].name
               PROVE  i = j
  BY <1>1, <1>3 DEF Announced
<1>6. CASE i \in 1 .. N /\ j \in 1 .. N
  BY <1>2, <1>3, <1>5, <1>6 DEF Announced
<1>7. CASE i \in 1 .. N /\ j \notin 1 .. N
  <2>1. PICK b \in 1 .. M : j = N + b
    BY <1>3, <1>7
  <2>2. u[i] = s[i] /\ u[j] = t[b]
    BY <1>3, <1>7, <2>1
  <2>3. QED
    BY <1>4, <1>5, <1>7, <2>2
<1>8. CASE i \notin 1 .. N /\ j \in 1 .. N
  <2>1. PICK b \in 1 .. M : i = N + b
    BY <1>3, <1>8
  <2>2. u[j] = s[j] /\ u[i] = t[b]
    BY <1>3, <1>8, <2>1
  <2>3. QED
    BY <1>4, <1>5, <1>8, <2>2
<1>9. CASE i \notin 1 .. N /\ j \notin 1 .. N
  <2>1. PICK a \in 1 .. M : i = N + a
    BY <1>3, <1>9
  <2>2. PICK b \in 1 .. M : j = N + b
    BY <1>3, <1>9
  <2>3. u[i] = t[a] /\ u[j] = t[b]
    BY <1>3, <2>1, <2>2
  <2>4. a = b
    BY <1>2, <1>5, <2>3 DEF Announced
  <2>5. QED
    BY <2>1, <2>2, <2>4
<1>10. QED
  BY <1>6, <1>7, <1>8, <1>9

LEMMA AnnouncedTail ==
  ASSUME NEW s \in Seq(GoodMsgs), Announced(s), s # <<>>
  PROVE  /\ Announced(Tail(s))
         /\ \A m \in Range(Tail(s)) :
              m.state = "created" /\ Head(s).state = "created" => m.name # Head(s).name
<1>1. PICK t \in Seq(GoodMsgs) : t = Tail(s)
  <2>1. Tail(s) \in Seq(GoodMsgs)
    BY TailIs
  <2>2. QED
    BY <2>1
<1>2. PICK N \in Nat : Len(t) = N
  OBVIOUS
<1>3. /\ N + 1 = Len(s)
      /\ \A i \in 1 .. N : i + 1 \in 1 .. Len(s) /\ t[i] = s[i + 1]
      /\ s[1] = Head(s) /\ 1 \in 1 .. Len(s)
  BY <1>1, <1>2, TailIs
<1>4. \A i, j \in 1 .. N : i + 1 = j + 1 => i = j
  OBVIOUS
<1>5. Announced(t)
  BY <1>2, <1>3, <1>4 DEF Announced
<1>6. \A i \in 1 .. N : i + 1 # 1
  OBVIOUS
<1>7. \A i \in 1 .. N :
        t[i].state = "created" /\ Head(s).state = "created" => t[i].name # Head(s).name
  BY <1>3, <1>6 DEF Announced
<1>8. \A m \in Range(t) : \E i \in 1 .. Len(t) : t[i] = m
  BY RangeIs
<1>9. QED
  BY <1>1, <1>2, <1>5, <1>7, <1>8

LEMMA AnnouncedNone ==
  ASSUME NEW s \in Seq(GoodMsgs), \A m \in Range(s) : m.state # "created"
  PROVE  Announced(s)
<1>1. \A i \in 1 .. Len(s) : s[i].state # "created"
  BY RangeIs
<1>2. QED
  BY <1>1 DEF Announced

\* What is under way stays announced.
LEMMA AnnouncedKeeps ==
  ASSUME Inv, NEW l \in Links, Announced(net[l]), Framing(l),
         NEW S, Moves(l, S), "created" \notin S
  PROVE  /\ Announced(net'[l])
         /\ \A m \in Range(net'[l]) : m.state = "created" => m \in Range(net[l])
<1>1. PICK s \in Seq(GoodMsgs) : s = net[l]
  BY DEF Inv, NetTyped
<1>2. CASE net'[l] = net[l]
  BY <1>2
<1>3. ASSUME NEW t \in Seq(GoodMsgs), Says(t, S), net'[l] = net[l] \o t
      PROVE  /\ Announced(net'[l])
             /\ \A m \in Range(net'[l]) : m.state = "created" => m \in Range(net[l])
  <2>1. \A m \in Range(t) : m.state # "created"
    BY <1>3 DEF Says
  <2>2. Announced(s \o t)
    BY <1>1, <2>1, AnnouncedNone, AnnouncedConcat
  <2>3. Range(s \o t) = Range(s) \union Range(t)
    BY ConcatIs
  <2>4. QED
    BY <1>1, <1>3, <2>1, <2>2, <2>3
<1>4. CASE net[l] # <<>> /\ net'[l] = Tail(net[l])
  <2>1. Announced(Tail(s)) /\ Range(Tail(s)) \subseteq Range(s)
    BY <1>1, <1>4, AnnouncedTail, TailIs
  <2>2. QED
    BY <1>1, <1>4, <2>1
<1>5. CASE net'[l] = <<>>
  BY <1>5 DEF Announced, Range
<1>6. ASSUME NEW t \in Seq(GoodMsgs), Says(t, S), net'[l] = <<Connect>> \o t
      PROVE  /\ Announced(net'[l])
             /\ \A m \in Range(net'[l]) : m.state # "created"
  <2>1. PICK u \in Seq(GoodMsgs) : u = <<Connect>> /\ Len(u) = 1 /\ u[1] = Connect
    <3>1. <<Connect>> \in Seq(GoodMsgs)
      BY DisconnectGood
    <3>2. QED
      BY <3>1
  <2>2. \A m \in Range(u) : m.state # "created"
    <3>1. \A x \in Range(u) : \E i \in 1 .. Len(u) : u[i] = x
      BY RangeIs
    <3>2. \A m \in Range(u) : m = Connect
      BY <2>1, <3>1
    <3>3. Connect.state # "created"
      BY DEF Connect, Msg
    <3>4. QED
      BY <3>2, <3>3
  <2>3. Range(u \o t) = Range(u) \union Range(t) /\ u \o t \in Seq(GoodMsgs)
    BY ConcatIs
  <2>4. \A m \in Range(u \o t) : m.state # "created"
    BY <1>6, <2>2, <2>3 DEF Says
  <2>5. Announced(u \o t)
    BY <2>3, <2>4, AnnouncedNone
  <2>6. QED
    BY <1>6, <2>1, <2>4, <2>5
<1>7. CASE l \in live /\ net'[l] \in CutShort(l)
  <2>1. \A m \in Range(s) : m.state # "disconnect"
    BY <1>1, <1>7 DEF Framing
  <2>2. PICK t \in Seq(GoodMsgs) :
          /\ net'[l] = Append(t, Disconnect)
          /\ t = s \/ \A m \in Range(t) : m = Connect
          /\ Framed(t) /\ Range(t) \subseteq Range(s)
    BY <1>1, <1>7, <2>1, CutIs DEF Framing
  <2>3. Announced(t)
    <3>1. CASE t = s
      BY <1>1, <3>1
    <3>2. CASE \A m \in Range(t) : m = Connect
      BY <3>2, AnnouncedNone DEF Connect, Msg
    <3>3. QED
      BY <2>2, <3>1, <3>2
  <2>4. Range(net'[l]) = Range(t) \union {Disconnect}
    BY <2>1, <2>2, FramedCut
  <2>5. Disconnect.state = "disconnect"
    BY DEF Disconnect, Msg
  <2>6. Announced(net'[l])
    <3>1. PICK N \in Nat : N = Len(t)
      OBVIOUS
    <3>2. PICK u : u = Append(t, Disconnect)
      OBVIOUS
    <3>3. Len(u) = N + 1 /\ u[N + 1] = Disconnect /\ \A i \in 1 .. N : u[i] = t[i]
      BY <3>1, <3>2
    <3>4. \A i \in 1 .. N + 1 : i \in 1 .. N \/ i = N + 1
      OBVIOUS
    <3>5. Announced(u)
      BY <2>3, <2>5, <3>1, <3>3, <3>4 DEF Announced
    <3>6. QED
      BY <2>2, <3>2, <3>5
  <2>7. QED
    BY <1>1, <2>2, <2>4, <2>5, <2>6
<1>8. QED
  BY <1>2, <1>3, <1>4, <1>5, <1>6, <1>7 DEF Moves

\* Whose object it is.
LEMMA RowOf ==
  ASSUME Inv, NEW h \in Hosts
  PROVE  /\ \A o \in Here(h) : o.name \in Objects /\ o.id \in Ids /\ o.data \in Nat
         /\ \A o, q \in Here(h) : ~Unmapped(o) /\ ~Unmapped(q) /\ o.id = q.id => o = q
         /\ \A o \in Here(h) : IsLocal(o) => ~Unmapped(o)
         /\ \A o \in Here(h) : ~IsLocal(o) => <<h, o.peer>> \in Links
<1>1. \A o \in Here(h) : o.name \in Objects /\ o.id \in Ids /\ o.data \in Nat
  BY StoreOf, GoodCopy
<1>2. Row(Here(h), idMap[h])
  BY StoreOf DEF Tables
<1>3. \A o, q \in Here(h) : ~Unmapped(o) /\ ~Unmapped(q) /\ o.id = q.id => o = q
  BY <1>2 DEF Row
<1>4. \A o \in Here(h) : ~IsLocal(o) => <<h, o.peer>> \in Links
  BY StoreOf
<1>5. QED
  BY <1>1, <1>3, <1>4 DEF Unmapped

\* Objects follow each other, and nothing new is told of.
LEMMA ApartKeeps ==
  ASSUME Inv', Apart, Succs(Here(Server), Here(Server)')
  PROVE  Apart'
<1>1. SUFFICES ASSUME NEW o \in Here(Server)', NEW q \in Here(Server)',
                      ~Unmapped(o), ~Unmapped(q), o.name = q.name
               PROVE  o = q
  BY DEF Apart, Unmapped, Open, IsLocal
<1>2. PICK a \in Here(Server) : Succeeds(a, o)
  BY DEF Succs
<1>3. PICK b \in Here(Server) : Succeeds(b, q)
  BY DEF Succs
<1>4. a = b
  BY <1>1, <1>2, <1>3 DEF Apart, Succeeds
<1>5. o.id = q.id
  BY <1>2, <1>3, <1>4 DEF Succeeds
<1>6. Row(Here(Server)', idMap'[Server])
  BY DEF Inv, AllTables, Tables, Hosts
<1>7. \A u, v \in Here(Server)' : ~Unmapped(u) /\ ~Unmapped(v) /\ u.id = v.id => u = v
  BY <1>6 DEF Row
<1>8. QED
  BY <1>1, <1>5, <1>7

LEMMA NamedKeeps ==
  ASSUME Inv, Inv', Named, Frames,
         \A h \in Hosts : Succs(Here(h), Here(h)'),
         owner' = owner, missed' = missed, enetHost' = enetHost,
         NEW S, "created" \notin S, \A c \in Clients : Moves(<<c, Server>>, S)
  PROVE  Named'
<1>1. \A h \in Hosts : \A q \in Here(h)' : \E o \in Here(h) :
        /\ q.id = o.id /\ q.name = o.name /\ q.peer = o.peer
        /\ q.state = "created" => o.state = "created"
        /\ IsLocal(q) /\ q.state = "modified" => q = o \/ q.data # 0
  BY DEF Succs, Succeeds
<1>2. Server \in Hosts /\ \A c \in Clients : c \in Hosts /\ <<c, Server>> \in Links
  BY GameNetAssumption DEF Links, Hosts
<1>3. Owned'
  BY <1>1 DEF Named, Owned, IsLocal
<1>4. Once'
  <2>1. SUFFICES ASSUME NEW h \in Hosts, NEW o \in Here(h)', NEW q \in Here(h)',
                        IsLocal(o), IsLocal(q), o.name = q.name
                 PROVE  o = q
    BY DEF Once
  <2>2. PICK a \in Here(h) : o.id = a.id /\ o.name = a.name /\ o.peer = a.peer
    BY <1>1
  <2>3. PICK b \in Here(h) : q.id = b.id /\ q.name = b.name /\ q.peer = b.peer
    BY <1>1
  <2>4. a = b
    BY <2>1, <2>2, <2>3 DEF Named, Once, IsLocal
  <2>5. o.id = q.id
    BY <2>2, <2>3, <2>4
  <2>6. \A u, v \in Here(h)' : ~Unmapped(u) /\ ~Unmapped(v) /\ u.id = v.id => u = v
    <3>1. Row(Here(h)', idMap'[h])
      BY DEF Inv, AllTables, Tables
    <3>2. QED
      BY <3>1 DEF Row
  <2>7. QED
    BY <2>1, <2>5, <2>6 DEF Unmapped
<1>5. MissedOwned'
  BY DEF Named, MissedOwned
<1>6. Fresh'
  BY <1>1 DEF Named, Fresh, IsLocal
<1>7. \A x : Unheard(x) => Unheard(x)'
  BY <1>1, <1>2 DEF Unheard
<1>8. Unsent'
  <2>1. SUFFICES ASSUME NEW c \in Clients, NEW q \in Here(c)',
                        IsLocal(q), q.state = "created" \/ c \notin enetHost
                 PROVE  Unheard(q.name)'
    BY DEF Unsent
  <2>2. PICK o \in Here(c) :
          /\ q.name = o.name /\ q.peer = o.peer
          /\ q.state = "created" => o.state = "created"
    BY <1>1, <1>2
  <2>3. Unheard(o.name)
    BY <2>1, <2>2 DEF Named, Unsent, IsLocal
  <2>4. QED
    BY <1>7, <2>2, <2>3
<1>9. ASSUME NEW c \in Clients PROVE Arrives(c)'
  <2>1. /\ Announced(net'[<<c, Server>>])
        /\ \A m \in Range(net'[<<c, Server>>]) : m.state = "created" => m \in Range(net[<<c, Server>>])
    BY <1>2, AnnouncedKeeps DEF Frames, Named, Arriving, Arrives
  <2>2. \A m \in Range(net'[<<c, Server>>]) : m.state = "created" =>
          /\ owner[m.name] = c /\ Unheard(m.name)
          /\ \A o \in Here(c) : IsLocal(o) /\ o.name = m.name => o.state # "created"
    BY <2>1 DEF Named, Arriving, Arrives
  <2>3. \A m \in Range(net'[<<c, Server>>]) : m.state = "created" =>
          /\ owner'[m.name] = c /\ Unheard(m.name)'
          /\ \A o \in Here(c)' : IsLocal(o) /\ o.name = m.name => o.state # "created"
    BY <1>1, <1>2, <1>7, <2>2 DEF IsLocal
  <2>4. QED
    BY <2>1, <2>3 DEF Arrives
<1>10. Written'
  BY <1>1 DEF Named, Written, IsLocal
<1>11. Apart'
  BY <1>2, ApartKeeps DEF Named
<1>12. QED
  BY <1>3, <1>4, <1>5, <1>6, <1>8, <1>9, <1>10, <1>11 DEF Named, Arriving

\* A client of whose connection the server has heard has not been a stranger before, unless
\* it connects.
LEMMA NotYetKeeps ==
  ASSUME Inv, Wired, Opens, NEW S \in SUBSET Sorts, \A l \in Links : Moves(l, S),
         NEW c \in Clients, NotYet(c)'
  PROVE  NotYet(c)
<1>1. <<c, Server>> \in Links
  BY GameNetAssumption DEF Links, Hosts
<1>2. PICK l \in Links : l = <<c, Server>>
  BY <1>1
<1>3. l[1] = c
  BY <1>2
<1>4. \A m \in Range(net'[l]) : m.state = "connect" => m \in Range(net[l]) \/ l[1] \notin enetHost
  BY FramingKeeps DEF Wired, Frames
<1>5. enetHost \subseteq enetHost'
  BY DEF Opens
<1>6. QED
  BY <1>2, <1>3, <1>4, <1>5 DEF NotYet

\* The wires stay as they should be if their ends do.
LEMMA WiredStep ==
  ASSUME Inv, Wired, Opens, Symmetric', Star',
         \A c \in Clients : c \notin enetHost' => \A o \in Here(c)' : IsLocal(o),
         \A c \in Clients : NotYet(c)' =>
           /\ c \notin peers'[Server]
           /\ \A o \in Here(Server)' : o.peer # c
           /\ \A x \in Objects : <<c, x>> \notin missed',
         NEW S \in SUBSET Sorts, \A l \in Links : Moves(l, S)
  PROVE  Wired'
<1>1. \A c \in Clients : c # Server /\ <<c, Server>> \in Links /\ <<Server, c>> \in Links
  BY GameNetAssumption DEF Links, Hosts
<1>2. Frames'
  BY FramingKeeps DEF Wired, Frames
<1>3. Unconnected'
  <2>1. SUFFICES ASSUME NEW c \in Clients, c \notin enetHost'
                 PROVE  net'[<<c, Server>>] = <<>> /\ net'[<<Server, c>>] = <<>>
    BY DEF Unconnected, IsLocal
  <2>2. c \notin enetHost
    BY <2>1 DEF Opens
  <2>3. net[<<c, Server>>] = <<>> /\ net[<<Server, c>>] = <<>>
    BY <2>2 DEF Wired, Unconnected
  <2>4. <<c, Server>> \notin live /\ <<Server, c>> \notin live
    BY <2>2 DEF Wired, Symmetric
  <2>5. net'[<<c, Server>>] = <<>>
    <3>1. Moves(<<c, Server>>, S)
      BY <1>1
    <3>2. QED
      BY <2>1, <2>3, <2>4, <3>1 DEF Moves
  <2>6. net'[<<Server, c>>] = <<>>
    <3>1. Moves(<<Server, c>>, S)
      BY <1>1
    <3>2. QED
      BY <1>1, <2>3, <2>4, <3>1 DEF Moves
  <2>7. QED
    BY <2>5, <2>6
<1>4. Strangers'
  BY DEF Strangers
<1>5. QED
  BY <1>2, <1>3, <1>4 DEF Wired

\* Nothing begins: the wires stay as they should be.
LEMMA WiredKeeps ==
  ASSUME Inv, Wired, \A h \in Hosts : Succs(Here(h), Here(h)'),
         missed' = missed, enetHost' = enetHost,
         live' \subseteq live, \A l \in live' : <<l[2], l[1]>> \in live',
         \A h \in Hosts : peers'[h] \subseteq peers[h],
         NEW S \in SUBSET Sorts, \A l \in Links : Moves(l, S)
  PROVE  Wired'
<1>1. \A h \in Hosts : \A q \in Here(h)' : \E o \in Here(h) : q.peer = o.peer
  BY DEF Succs, Succeeds
<1>2. Server \in Hosts /\ Clients \subseteq Hosts
  BY DEF Hosts
<1>3. Symmetric'
  BY DEF Wired, Symmetric
<1>4. Star'
  BY DEF Wired, Star
<1>5. Opens
  BY DEF Opens
<1>6. \A c \in Clients : c \notin enetHost' => \A o \in Here(c)' : IsLocal(o)
  BY <1>1, <1>2 DEF Wired, Unconnected, IsLocal
<1>7. \A c \in Clients : NotYet(c)' => NotYet(c)
  BY <1>5, NotYetKeeps
<1>8. \A c \in Clients : NotYet(c)' =>
        /\ c \notin peers'[Server]
        /\ \A o \in Here(Server)' : o.peer # c
        /\ \A x \in Objects : <<c, x>> \notin missed'
  BY <1>1, <1>2, <1>7 DEF Wired, Strangers
<1>9. QED
  BY <1>3, <1>4, <1>5, <1>6, <1>8, WiredStep

-----------------------------------------------------------------------------
(* What is kept apart from the messages, and the actions one by one.       *)

Rest == Singles /\ Wired /\ Named

\* The list of one host changes; the others keep theirs.
LEMMA SinglesStep ==
  ASSUME Inv, Singles, NEW h \in Hosts, NEW s \in Seq(Copies), objects' = [objects EXCEPT ![h] = s],
         Single(s)
  PROVE  Singles'
BY HereStep DEF Singles

LEMMA ChangedStep ==
  ASSUME Inv, Singles, NEW h \in Hosts, NEW o \in Here(h), NEW n \in Copies, n.id = o.id,
         Unmapped(o) => Unmapped(n), objects' = Changed(h, o, n)
  PROVE  /\ Here(h)' = (Here(h) \ {o}) \union {n}
         /\ \A k \in Hosts : k # h => Here(k)' = Here(k)
         /\ Singles'
<1>1. PICK old \in Seq(Copies) : old = objects[h]
  BY StoreOf
<1>2. o \in Range(old) /\ Here(h) = Range(old)
  BY <1>1 DEF Here
<1>3. PICK s : s = [i \in DOMAIN old |-> IF old[i] = o THEN n ELSE old[i]]
  OBVIOUS
<1>4. s \in Seq(Copies) /\ Range(s) = (Range(old) \ {o}) \union {n}
  <2>1. LET t == [i \in DOMAIN old |-> IF old[i] = o THEN n ELSE old[i]]
        IN  t \in Seq(Copies) /\ Range(t) = (Range(old) \ {o}) \union {n}
    BY <1>2, ReplaceIs
  <2>2. QED
    BY <1>3, <2>1
<1>5. objects' = [objects EXCEPT ![h] = s]
  BY <1>1, <1>3 DEF Changed
<1>6. Single(s)
  <2>1. DOMAIN old = 1 .. Len(old)
    OBVIOUS
  <2>2. Len(s) = Len(old) /\ \A i \in 1 .. Len(old) : s[i] = IF old[i] = o THEN n ELSE old[i]
    BY <1>3, <1>4, <2>1
  <2>3. Single(old)
    BY <1>1 DEF Singles
  <2>4. \A i \in 1 .. Len(old) : s[i].id = old[i].id /\ (Unmapped(old[i]) => Unmapped(s[i]))
    BY <2>2
  <2>5. QED
    BY <2>2, <2>3, <2>4, SingleMap
<1>7. Singles'
  BY <1>4, <1>5, <1>6, SinglesStep
<1>8. QED
  BY <1>2, <1>4, <1>5, <1>7, HereStep

LEMMA AppendStep ==
  ASSUME Inv, Singles, NEW h \in Hosts, NEW o \in Copies, idMap[h][o.id] = None,
         objects' = [objects EXCEPT ![h] = Append(@, o)]
  PROVE  /\ Here(h)' = Here(h) \union {o}
         /\ \A k \in Hosts : k # h => Here(k)' = Here(k)
         /\ Singles'
<1>1. PICK old \in Seq(Copies) : old = objects[h]
  BY StoreOf
<1>2. PICK s \in Seq(Copies) : s = Append(old, o) /\ Range(s) = Range(old) \union {o}
  <2>1. Append(old, o) \in Seq(Copies) /\ Range(Append(old, o)) = Range(old) \union {o}
    BY AppendRange
  <2>2. QED
    BY <2>1
<1>3. objects' = [objects EXCEPT ![h] = s]
  BY <1>1, <1>2
<1>4. Range(old) = Here(h)
  BY <1>1 DEF Here
<1>5. \A q \in Range(old) : ~Unmapped(q) => q.id # o.id
  <2>1. \A q \in Here(h) : ~Unmapped(q) => idMap[h][q.id] = q.name
    BY StoreOf DEF Tables, Row
  <2>2. QED
    BY <1>4, <2>1, RowOf, GameNetAssumption
<1>6. Single(s)
  BY <1>1, <1>2, <1>5, SingleAppend DEF Singles
<1>7. Singles'
  BY <1>3, <1>6, SinglesStep
<1>8. QED
  BY <1>2, <1>3, <1>4, <1>7, HereStep

\* The objects that stay are as AfterSync leaves them.
LEMMA SyncedStep ==
  ASSUME Inv, Singles, NEW h \in Hosts, objects' = [objects EXCEPT ![h] = Synced(h)]
  PROVE  /\ Here(h)' = {AfterSync(o) : o \in Here(h) \ Zombies(h)}
         /\ \A k \in Hosts : k # h => Here(k)' = Here(k)
         /\ Singles'
<1>1. PICK old \in Seq(Copies) : old = objects[h]
  BY StoreOf
<1>2. PICK S : S = Here(h) \ Zombies(h)
  OBVIOUS
<1>3. PICK stay \in Seq(Copies) : stay = Only(old, S)
  <2>1. Only(old, S) \in Seq(Copies)
    BY OnlyIs
  <2>2. QED
    BY <2>1
<1>4. PICK s \in Seq(Copies) : s = Synced(h) /\ Range(s) = {AfterSync(o) : o \in Here(h) \ Zombies(h)}
  <2>1. /\ Synced(h) \in Seq(Copies)
        /\ Range(Synced(h)) = {AfterSync(o) : o \in Here(h) \ Zombies(h)}
    BY SyncedIs
  <2>2. QED
    BY <2>1
<1>5. s = [i \in DOMAIN stay |-> AfterSync(stay[i])]
  BY <1>1, <1>2, <1>3, <1>4 DEF Synced
<1>6. \A o \in S : ~Unmapped(o)
  <2>1. \A o \in S : o \in Copies /\ AfterSync(o).state # "zombie"
    BY <1>2, StoreOf DEF Zombies
  <2>2. QED
    BY <2>1 DEF AfterSync, Unmapped, Open, Copies
<1>7. \A i, j \in 1 .. Len(stay) : stay[i].id = stay[j].id => i = j
  <2>1. Single(old)
    BY <1>1 DEF Singles
  <2>2. \A i, j \in 1 .. Len(Only(old, S)) : Only(old, S)[i].id = Only(old, S)[j].id => i = j
    BY <1>6, <2>1, SingleOnly
  <2>3. QED
    BY <1>3, <2>2
<1>8. Single(s)
  <2>1. DOMAIN stay = 1 .. Len(stay) /\ \A i \in 1 .. Len(stay) : stay[i] \in Copies
    OBVIOUS
  <2>2. Len(s) = Len(stay) /\ \A i \in 1 .. Len(stay) : s[i] = AfterSync(stay[i])
    BY <1>4, <1>5, <2>1
  <2>3. \A o \in Copies : AfterSync(o).id = o.id
    BY DEF AfterSync, Copies
  <2>4. QED
    BY <1>7, <2>1, <2>2, <2>3 DEF Single
<1>9. objects' = [objects EXCEPT ![h] = s]
  BY <1>4
<1>10. Singles'
  BY <1>8, <1>9, SinglesStep
<1>11. QED
  BY <1>4, <1>9, <1>10, HereStep

\* AfterSync, case by case.
LEMMA AfterSyncIs ==
  ASSUME NEW o \in Copies, AfterSync(o).state # "zombie"
  PROVE  /\ AfterSync(o) \in Copies
         /\ AfterSync(o).id = o.id /\ AfterSync(o).name = o.name
         /\ AfterSync(o).peer = o.peer /\ AfterSync(o).data = o.data
         /\ o.state \in {"created", "modified", "synced"}
         /\ AfterSync(o).state = "synced"
BY DEF AfterSync, Copies

\* Every object of p's is closed.
LEMMA LoseStep ==
  ASSUME Inv, Singles, NEW h \in Hosts, NEW p \in Hosts,
         objects' = [objects EXCEPT ![h] = [i \in DOMAIN @ |->
           IF @[i].peer = p THEN Closed(@[i]) ELSE @[i]]]
  PROVE  /\ \A q \in Here(h)' : \E o \in Here(h) : q = IF o.peer = p THEN Closed(o) ELSE o
         /\ \A o \in Here(h) : o.peer # p => o \in Here(h)'
         /\ \A k \in Hosts : k # h => Here(k)' = Here(k)
         /\ Singles'
<1>1. PICK old \in Seq(Copies) : old = objects[h]
  BY StoreOf
<1>2. Here(h) = Range(old)
  BY <1>1 DEF Here
<1>3. PICK N \in Nat : N = Len(old) /\ DOMAIN old = 1 .. N
  OBVIOUS
<1>4. PICK s : s = [i \in 1 .. N |-> IF old[i].peer = p THEN Closed(old[i]) ELSE old[i]]
  OBVIOUS
<1>5. \A i \in 1 .. N : old[i] \in Copies
  BY <1>3
<1>6. \A i \in 1 .. N : /\ s[i] = IF old[i].peer = p THEN Closed(old[i]) ELSE old[i]
                        /\ s[i] \in Copies
                        /\ s[i].id = old[i].id
                        /\ Unmapped(old[i]) => Unmapped(s[i])
  <2>1. SUFFICES ASSUME NEW i \in 1 .. N
                 PROVE  /\ s[i] = IF old[i].peer = p THEN Closed(old[i]) ELSE old[i]
                        /\ s[i] \in Copies
                        /\ s[i].id = old[i].id
                        /\ Unmapped(old[i]) => Unmapped(s[i])
    OBVIOUS
  <2>2. s[i] = IF old[i].peer = p THEN Closed(old[i]) ELSE old[i]
    BY <1>4
  <2>3. /\ Closed(old[i]) \in Copies /\ ~Open(Closed(old[i]))
        /\ Closed(old[i]).id = old[i].id /\ Closed(old[i]).peer = old[i].peer
    BY <1>5, ClosedIs
  <2>4. QED
    BY <1>5, <2>2, <2>3 DEF Unmapped, IsLocal
<1>7. s \in Seq(Copies) /\ Len(s) = N
  BY <1>4, <1>6
<1>8. objects' = [objects EXCEPT ![h] = s]
  BY <1>1, <1>3, <1>4
<1>9. Single(s)
  BY <1>1, <1>3, <1>6, <1>7, SingleMap DEF Singles
<1>10. Singles'
  BY <1>7, <1>8, <1>9, SinglesStep
<1>11. \A q \in Range(s) : \E o \in Range(old) : q = IF o.peer = p THEN Closed(o) ELSE o
  <2>1. SUFFICES ASSUME NEW q \in Range(s)
                 PROVE  \E o \in Range(old) : q = IF o.peer = p THEN Closed(o) ELSE o
    OBVIOUS
  <2>2. PICK i \in 1 .. Len(s) : s[i] = q
    BY <1>7, RangeIs
  <2>3. old[i] \in Range(old) /\ q = IF old[i].peer = p THEN Closed(old[i]) ELSE old[i]
    BY <1>3, <1>6, <1>7, <2>2, RangeIs
  <2>4. QED
    BY <2>3
<1>12. \A o \in Range(old) : o.peer # p => o \in Range(s)
  <2>1. SUFFICES ASSUME NEW o \in Range(old), o.peer # p PROVE o \in Range(s)
    OBVIOUS
  <2>2. PICK i \in 1 .. Len(old) : old[i] = o
    BY RangeIs
  <2>3. s[i] = o /\ i \in 1 .. Len(s)
    BY <1>3, <1>6, <1>7, <2>1, <2>2
  <2>4. QED
    BY <1>7, <2>3, RangeIs
<1>13. Here(h)' = Range(s) /\ \A k \in Hosts : k # h => Here(k)' = Here(k)
  BY <1>7, <1>8, HereStep
<1>14. QED
  BY <1>2, <1>10, <1>11, <1>12, <1>13

\* Nothing but the phase of a host changes.
Still == UNCHANGED <<wires, net, store, history>>

LEMMA StillRest ==
  ASSUME Rest, Still
  PROVE  Rest'
<1>1. /\ enetHost' = enetHost /\ peers' = peers /\ live' = live /\ net' = net
      /\ objects' = objects /\ owner' = owner /\ missed' = missed
  BY DEF Still, wires, store, history
<1>2. Singles'
  BY <1>1 DEF Rest, Singles, Single, Unmapped, Open, IsLocal
<1>3. Wired'
  <2>1. Symmetric' /\ Star'
    BY <1>1 DEF Rest, Wired, Symmetric, Star
  <2>2. Frames'
    BY <1>1 DEF Rest, Wired, Frames, Framing, Framed
  <2>3. Unconnected'
    BY <1>1 DEF Rest, Wired, Unconnected, Here, IsLocal
  <2>4. Strangers'
    BY <1>1 DEF Rest, Wired, Strangers, NotYet, Here
  <2>5. QED
    BY <2>1, <2>2, <2>3, <2>4 DEF Wired
<1>4. Named'
  <2>1. Owned' /\ Once' /\ Apart' /\ MissedOwned'
    BY <1>1 DEF Rest, Named, Owned, Once, Apart, MissedOwned, Here, Unmapped, Open, IsLocal
  <2>2. Fresh' /\ Unsent'
    BY <1>1 DEF Rest, Named, Fresh, Unsent, Unheard, Here, IsLocal
  <2>3. Arriving'
    BY <1>1 DEF Rest, Named, Arriving, Arrives, Announced, Unheard, Here
  <2>4. Written'
    BY <1>1 DEF Rest, Named, Written, Here, IsLocal
  <2>5. QED
    BY <2>1, <2>2, <2>3, <2>4 DEF Named
<1>5. QED
  BY <1>2, <1>3, <1>4 DEF Rest

\* Nothing begins, and nothing new is told of.
LEMMA RestKeeps ==
  ASSUME Inv, Inv', Rest, Singles', \A h \in Hosts : Succs(Here(h), Here(h)'),
         owner' = owner, missed' = missed, enetHost' = enetHost,
         live' \subseteq live, \A l \in live' : <<l[2], l[1]>> \in live',
         \A h \in Hosts : peers'[h] \subseteq peers[h],
         NEW S \in SUBSET Sorts, "created" \notin S, \A l \in Links : Moves(l, S)
  PROVE  Rest'
<1>1. Wired'
  BY WiredKeeps DEF Rest
<1>2. \A c \in Clients : Moves(<<c, Server>>, S)
  BY GameNetAssumption DEF Links, Hosts
<1>3. Named'
  BY <1>2, NamedKeeps DEF Rest, Wired
<1>4. QED
  BY <1>1, <1>3 DEF Rest

\* An object is changed as a successor of itself.
LEMMA SuccsOne ==
  ASSUME NEW h \in Hosts, NEW o \in Here(h), NEW n, Succeeds(o, n),
         Here(h)' = (Here(h) \ {o}) \union {n},
         \A k \in Hosts : k # h => Here(k)' = Here(k)
  PROVE  \A k \in Hosts : Succs(Here(k), Here(k)')
<1>1. Succs(Here(h), Here(h)')
  BY SuccsChange
<1>2. \A k \in Hosts : k # h => Succs(Here(k), Here(k)')
  BY SucceedsSelf DEF Succs
<1>3. QED
  BY <1>1, <1>2

\* The links of a connected network keep their symmetry when nothing happens to them.
LEMMA LiveSame ==
  ASSUME Rest, live' = live
  PROVE  live' \subseteq live /\ \A l \in live' : <<l[2], l[1]>> \in live'
BY DEF Rest, Wired, Symmetric

\* The network does not move.
LEMMA NoMoves ==
  ASSUME net' = net
  PROVE  \A l \in Links : Moves(l, {})
BY DEF Moves

-----------------------------------------------------------------------------
(* What the operations do to one object.                                   *)

LEMMA WriteDoes ==
  ASSUME Inv, Singles, NEW h \in Hosts, NEW x \in Objects, WriteSlot(h, x)
  PROVE  \E o \in Here(h), n \in Copies :
           /\ IsLocal(o) /\ o.state \in {"created", "modified", "synced"} /\ Succeeds(o, n)
           /\ n.state = IF o.state = "synced" THEN "modified" ELSE o.state
           /\ Here(h)' = (Here(h) \ {o}) \union {n}
           /\ \A k \in Hosts : k # h => Here(k)' = Here(k)
           /\ Singles'
<1>1. PICK o \in Here(h) :
        /\ IsLocal(o) /\ Open(o)
        /\ objects' = Changed(h, o,
             [o EXCEPT !.data = @ + 1, !.state = IF @ = "synced" THEN "modified" ELSE @])
  BY DEF WriteSlot
<1>2. o \in Copies /\ o.data \in Nat
  BY StoreOf, RowOf
<1>3. PICK d \in Nat : d = o.data + 1 /\ d # 0
  BY <1>2
<1>4. PICK t : t = IF o.state = "synced" THEN "modified" ELSE o.state
  OBVIOUS
<1>5. PICK m : m = [o EXCEPT !.data = d]
  OBVIOUS
<1>6. /\ m \in Copies /\ m.id = o.id /\ m.name = o.name /\ m.peer = o.peer
      /\ m.state = o.state /\ m.data = d
  BY <1>2, <1>5 DEF Copies
<1>7. t \in {"created", "modified", "synced", "closed", "zombie"}
  BY <1>2, <1>4 DEF Copies
<1>8. PICK n : n = [m EXCEPT !.state = t]
  OBVIOUS
<1>9. /\ n \in Copies /\ n.id = o.id /\ n.name = o.name /\ n.peer = o.peer
      /\ n.state = t /\ n.data = d
  BY <1>6, <1>7, <1>8 DEF Copies
<1>10. n = [o EXCEPT !.data = @ + 1, !.state = IF @ = "synced" THEN "modified" ELSE @]
  BY <1>3, <1>4, <1>5, <1>8
<1>11. objects' = Changed(h, o, n)
  BY <1>1, <1>10
<1>12. ~Unmapped(o)
  BY <1>1 DEF Unmapped
<1>13. Succeeds(o, n)
  BY <1>1, <1>3, <1>4, <1>9, <1>12 DEF Succeeds
<1>14. /\ Here(h)' = (Here(h) \ {o}) \union {n}
       /\ \A k \in Hosts : k # h => Here(k)' = Here(k)
       /\ Singles'
  BY <1>9, <1>11, <1>12, ChangedStep
<1>15. QED
  BY <1>1, <1>4, <1>9, <1>13, <1>14 DEF Open

LEMMA CloseDoes ==
  ASSUME Inv, Singles, NEW h \in Hosts, NEW x \in Objects, CloseObject(h, x)
  PROVE  \E o \in Here(h), n \in Copies :
           /\ IsLocal(o) /\ o.state \in {"created", "modified", "synced"} /\ Succeeds(o, n)
           /\ n.state = IF o.state = "created" THEN "zombie" ELSE "closed"
           /\ Here(h)' = (Here(h) \ {o}) \union {n}
           /\ \A k \in Hosts : k # h => Here(k)' = Here(k)
           /\ Singles'
<1>1. PICK o \in Here(h) : IsLocal(o) /\ Open(o) /\ objects' = Changed(h, o, Closed(o))
  BY DEF CloseObject
<1>2. o \in Copies
  BY StoreOf
<1>3. PICK n : n = Closed(o)
  OBVIOUS
<1>4. n \in Copies /\ n.id = o.id /\ n.name = o.name /\ n.peer = o.peer
  BY <1>2, <1>3, ClosedIs
<1>5. n.state = IF o.state = "created" THEN "zombie" ELSE "closed"
  BY <1>2, <1>3 DEF Closed, Copies
<1>6. ~Unmapped(o)
  BY <1>1 DEF Unmapped
<1>7. Succeeds(o, n)
  BY <1>4, <1>5, <1>6 DEF Succeeds
<1>8. /\ Here(h)' = (Here(h) \ {o}) \union {n}
      /\ \A k \in Hosts : k # h => Here(k)' = Here(k)
      /\ Singles'
  BY <1>1, <1>3, <1>4, <1>6, ChangedStep
<1>9. QED
  BY <1>1, <1>4, <1>5, <1>7, <1>8 DEF Open

\* What HandleModified and HandleClosed do, unless the program ends.
Updates(h, p, msg, i, o, n, pair, new) ==
  /\ pair[1] = i /\ pair[2] = msg.id
  /\ o.id = i /\ o.peer = p /\ Open(o) /\ Succeeds(o, n) /\ n.state = msg.state
  /\ n.data = IF msg.data = 0 THEN o.data ELSE msg.data
  /\ Here(h)' = (Here(h) \ {o}) \union {n}
  /\ \A k \in Hosts : k # h => Here(k)' = Here(k)
  /\ new.state = msg.state /\ new.id = i /\ new.name = msg.name /\ new.data = msg.data
  /\ Handled(h, p, Others(h, p), <<new>>)

LEMMA UpdateDoes ==
  ASSUME Inv, Singles, NEW h \in Hosts, NEW p \in Hosts, <<h, p>> \in Links,
         NEW msg \in GoodMsgs, msg = Message(h, p), msg.state \in {"modified", "closed"},
         NEW i \in LocalIds(h, p), objects' = Updated(h, i, msg),
         Handled(h, p, Others(h, p), <<[msg EXCEPT !.id = i]>>)
  PROVE  \E o \in Here(h), n \in Copies, pair \in mapped[<<h, p>>], new \in GoodMsgs :
           i \in Ids /\ Singles' /\ Updates(h, p, msg, i, o, n, pair, new)
<1>1. PICK o \in Here(h) : i \in Ids /\ o.id = i /\ o = Object(h, i) /\ o.peer = p /\ Open(o)
  BY ObjectOf
<1>2. o \in Copies /\ msg.data \in Nat /\ msg.name \in Objects
  BY StoreOf DEF GoodMsgs, Messages
<1>3. PICK d \in Nat : d = IF msg.data = 0 THEN o.data ELSE msg.data
  BY <1>2, GoodCopy
<1>4. PICK m : m = [o EXCEPT !.state = msg.state]
  OBVIOUS
<1>5. m \in Copies /\ m.id = o.id /\ m.name = o.name /\ m.peer = o.peer /\ m.state = msg.state
  BY <1>2, <1>4 DEF Copies
<1>6. PICK n : n = [m EXCEPT !.data = d]
  OBVIOUS
<1>7. /\ n \in Copies /\ n.id = o.id /\ n.name = o.name /\ n.peer = o.peer
      /\ n.state = msg.state /\ n.data = d
  BY <1>3, <1>5, <1>6 DEF Copies
<1>8. n = [o EXCEPT !.state = msg.state, !.data = IF msg.data = 0 THEN @ ELSE msg.data]
  BY <1>3, <1>4, <1>6
<1>9. objects' = Changed(h, o, n)
  BY <1>1, <1>8 DEF Updated
<1>10. ~IsLocal(o) /\ ~Unmapped(o) /\ ~IsLocal(n)
  BY <1>1, <1>7, GameNetAssumption DEF IsLocal, Unmapped, Hosts
<1>11. Succeeds(o, n)
  BY <1>7, <1>10 DEF Succeeds
<1>12. /\ Here(h)' = (Here(h) \ {o}) \union {n}
       /\ \A k \in Hosts : k # h => Here(k)' = Here(k)
       /\ Singles'
  BY <1>7, <1>9, <1>10, ChangedStep
<1>13. PICK pair \in mapped[<<h, p>>] : pair[1] = i /\ pair[2] = msg.id
  BY DEF LocalIds
<1>14. PICK new : new = [msg EXCEPT !.id = i]
  OBVIOUS
<1>15. new \in GoodMsgs
  BY <1>1, <1>2, <1>14, RenamedGood
<1>16. new.state = msg.state /\ new.id = i /\ new.name = msg.name /\ new.data = msg.data
  BY <1>14 DEF GoodMsgs, Messages
<1>17. QED
  <2>1. Updates(h, p, msg, i, o, n, pair, new)
    BY <1>1, <1>3, <1>7, <1>11, <1>12, <1>13, <1>14, <1>16 DEF Updates
  <2>2. QED
    BY <1>1, <1>7, <1>12, <1>15, <2>1

-----------------------------------------------------------------------------
(* Rest, action by action.                                                 *)

LEMMA WriteRest ==
  ASSUME Inv, Inv', Rest, NEW h \in Hosts, NEW x \in Objects, WriteSlot(h, x)
  PROVE  Rest'
<1>1. PICK o \in Here(h), n \in Copies :
        /\ Succeeds(o, n)
        /\ Here(h)' = (Here(h) \ {o}) \union {n}
        /\ \A k \in Hosts : k # h => Here(k)' = Here(k)
        /\ Singles'
  BY WriteDoes DEF Rest
<1>2. \A k \in Hosts : Succs(Here(k), Here(k)')
  BY <1>1, SuccsOne
<1>3. /\ enetHost' = enetHost /\ peers' = peers /\ live' = live /\ net' = net
      /\ owner' = owner /\ missed' = missed
  BY DEF WriteSlot, wires, history
<1>4. \A l \in Links : Moves(l, {})
  BY <1>3, NoMoves
<1>5. QED
  BY <1>1, <1>2, <1>3, <1>4, LiveSame, RestKeeps

LEMMA CloseRest ==
  ASSUME Inv, Inv', Rest, NEW h \in Hosts, NEW x \in Objects, CloseObject(h, x)
  PROVE  Rest'
<1>1. PICK o \in Here(h), n \in Copies :
        /\ Succeeds(o, n)
        /\ Here(h)' = (Here(h) \ {o}) \union {n}
        /\ \A k \in Hosts : k # h => Here(k)' = Here(k)
        /\ Singles'
  BY CloseDoes DEF Rest
<1>2. \A k \in Hosts : Succs(Here(k), Here(k)')
  BY <1>1, SuccsOne
<1>3. /\ enetHost' = enetHost /\ peers' = peers /\ live' = live /\ net' = net
      /\ owner' = owner /\ missed' = missed
  BY DEF CloseObject, wires
<1>4. \A l \in Links : Moves(l, {})
  BY <1>3, NoMoves
<1>5. QED
  BY <1>1, <1>2, <1>3, <1>4, LiveSame, RestKeeps

\* The objects are left alone.
LEMMA SuccsSame ==
  ASSUME objects' = objects
  PROVE  /\ \A h \in Hosts : Succs(Here(h), Here(h)')
         /\ Singles => Singles'
<1>1. \A h \in Hosts : Succs(Here(h), Here(h)')
  BY HereSame, SucceedsSelf DEF Succs
<1>2. Singles => Singles'
  BY DEF Singles, Single, Unmapped, Open, IsLocal
<1>3. QED
  BY <1>1, <1>2

\* A single message is said.
LEMMA SaysOne ==
  ASSUME NEW m \in GoodMsgs, NEW msgs \in Seq(GoodMsgs), msgs = <<m>>
  PROVE  Says(msgs, {m.state})
<1>1. \A e \in Range(msgs) : \E i \in 1 .. Len(msgs) : msgs[i] = e
  BY RangeIs
<1>2. Len(msgs) = 1 /\ msgs[1] = m
  OBVIOUS
<1>3. QED
  BY <1>1, <1>2 DEF Says

\* The message m goes to the peer p, for which o has the id of m by the pair.
Addresses(o, pair, p, m) ==
  ~IsLocal(o) /\ Open(o) /\ o.peer = p /\ pair[1] = o.id /\ m.id = pair[2]

\* The message that SendMessage sends.
LEMMA MessageSent ==
  ASSUME Inv, NEW h \in Hosts, NEW x \in Objects, SendMessage(h, x)
  PROVE  \E p \in Hosts, m \in GoodMsgs, o \in Here(h) : \E pair \in mapped[<<h, p>>] :
           /\ m.state = "message" /\ m.name = x /\ o.name = x
           /\ Addresses(o, pair, p, m) /\ net' = Sent(h, {p}, <<m>>)
<1>1. PICK o \in Here(h) : /\ o.name = x /\ ~IsLocal(o) /\ Open(o)
                           /\ \E pair \in mapped[<<h, o.peer>>] :
                                /\ pair[1] = o.id
                                /\ net' = Sent(h, {o.peer}, <<Msg("message", pair[2], x, 0)>>)
  BY DEF SendMessage
<1>2. mapped[<<h, o.peer>>] \subseteq Ids \X Ids /\ o.peer \in Hosts
  BY <1>1, StoreOf DEF Links
<1>3. PICK pair \in mapped[<<h, o.peer>>] :
        pair[1] = o.id /\ net' = Sent(h, {o.peer}, <<Msg("message", pair[2], x, 0)>>)
  BY <1>1
<1>4. PICK msg \in GoodMsgs : msg = Msg("message", pair[2], x, 0)
  BY <1>2, GoodMsg
<1>5. msg.state = "message" /\ msg.id = pair[2] /\ msg.name = x
  BY <1>4 DEF Msg
<1>6. Addresses(o, pair, o.peer, msg)
  BY <1>1, <1>3, <1>5 DEF Addresses
<1>7. QED
  BY <1>1, <1>2, <1>3, <1>4, <1>5, <1>6

LEMMA MessageRest ==
  ASSUME Inv, Inv', Rest, NEW h \in Hosts, NEW x \in Objects, SendMessage(h, x)
  PROVE  Rest'
<1>1. PICK p \in Hosts, m \in GoodMsgs : m.state = "message" /\ net' = Sent(h, {p}, <<m>>)
  BY MessageSent
<1>2. PICK msgs \in Seq(GoodMsgs) : msgs = <<m>>
  <2>1. <<m>> \in Seq(GoodMsgs)
    OBVIOUS
  <2>2. QED
    BY <2>1
<1>3. Says(msgs, {"message"})
  BY <1>1, <1>2, SaysOne
<1>4. \A l \in Links : Moves(l, {"message"})
  BY <1>1, <1>2, <1>3, SentMoves
<1>5. /\ enetHost' = enetHost /\ peers' = peers /\ live' = live
      /\ objects' = objects /\ owner' = owner /\ missed' = missed
  BY DEF SendMessage, wires, store
<1>6. {"message"} \in SUBSET Sorts
  BY DEF Sorts
<1>7. QED
  BY <1>4, <1>5, <1>6, LiveSame, SuccsSame, RestKeeps DEF Rest

\* A message is handed on.
LEMMA RelayMoves ==
  ASSUME NEW h \in Hosts, NEW p \in Hosts, p # h, <<p, h>> \in Links, net[<<p, h>>] # <<>>,
         NEW ps, NEW m \in GoodMsgs, Handled(h, p, ps, <<m>>), NEW l \in Links
  PROVE  Moves(l, {m.state})
<1>1. PICK msgs \in Seq(GoodMsgs) : msgs = <<m>>
  <2>1. <<m>> \in Seq(GoodMsgs)
    OBVIOUS
  <2>2. QED
    BY <2>1
<1>2. Says(msgs, {m.state})
  BY <1>1, SaysOne
<1>3. QED
  BY <1>1, <1>2, HandledMoves

LEMMA NoneMoves ==
  ASSUME NEW h \in Hosts, NEW p \in Hosts, p # h, <<p, h>> \in Links, net[<<p, h>>] # <<>>,
         NEW ps, Handled(h, p, ps, <<>>), NEW l \in Links
  PROVE  Moves(l, {})
<1>1. PICK msgs \in Seq(GoodMsgs) : msgs = <<>>
  <2>1. <<>> \in Seq(GoodMsgs)
    OBVIOUS
  <2>2. QED
    BY <2>1
<1>2. Says(msgs, {})
  <2>1. \A m \in Range(msgs) : \E i \in 1 .. Len(msgs) : msgs[i] = m
    BY RangeIs
  <2>2. Len(msgs) = 0
    BY <1>1
  <2>3. QED
    BY <2>1, <2>2 DEF Says
<1>3. QED
  BY <1>1, <1>2, HandledMoves

\* A message to an object is handled: it is taken, and may be handed on.
LEMMA HandlesMessage ==
  ASSUME Inv, NEW h \in Hosts, NEW p \in Hosts, HandleMessage(h, p)
  PROVE  \/ Still
         \/ /\ UNCHANGED <<wires, store, owner, missed>>
            /\ \/ Handled(h, p, {}, <<>>)
               \/ \E to \in Hosts, m \in GoodMsgs, o \in Here(h) : \E pair \in mapped[<<h, to>>] :
                    /\ m.state = "message" /\ m.name = Message(h, p).name /\ o.id = Message(h, p).id
                    /\ Addresses(o, pair, to, m) /\ Handled(h, p, {to}, <<m>>)
<1>1. Comes(h, p, "message")
  BY DEF HandleMessage
<1>2. PICK msg \in GoodMsgs : msg = Message(h, p) /\ msg.state = "message"
  BY <1>1, Event
<1>3. /\ <<p, h>> \in Links /\ p # h /\ net[<<p, h>>] # <<>>
  BY <1>1, Event
<1>4. msg.id \in Ids /\ msg.name \in Objects
  BY <1>2 DEF GoodMsgs
<1>5. PICK x \in Objects \union {None} : x = idMap[h][msg.id]
  BY <1>4, StoreOf
<1>6. PICK to : to = Object(h, msg.id).peer
  OBVIOUS
<1>7. PICK remote : remote = {pair[2] : pair \in {q \in mapped[<<h, to>>] : q[1] = msg.id}}
  OBVIOUS
<1>8. CASE x = None \/ to = None
  <2>1. Handled(h, p, {}, <<>>) /\ UNCHANGED <<wires, store, owner, missed>>
    BY <1>2, <1>5, <1>6, <1>8 DEF HandleMessage, history
  <2>2. QED
    BY <2>1
<1>9. CASE x # None /\ to # None
  <2>1. PICK o \in Here(h) : o.id = msg.id /\ o.peer = to /\ ~Unmapped(o)
    BY <1>4, <1>5, <1>6, <1>9, ObjectAt
  <2>2. <<h, to>> \in Links /\ Open(o)
    BY <1>9, <2>1, StoreOf DEF IsLocal, Unmapped
  <2>3. mapped[<<h, to>>] \subseteq Ids \X Ids /\ to \in Hosts
    BY <2>2, StoreOf DEF Links
  <2>4. CASE remote = {} \/ Refused(h, {to})
    <3>1. Fail(h, "message") \/ Refused(h, {to})
      BY <1>2, <1>5, <1>6, <1>7, <1>9, <2>4 DEF HandleMessage
    <3>2. QED
      BY <3>1 DEF Fail, Refused, Still
  <2>5. CASE remote # {} /\ ~Refused(h, {to})
    <3>1. remote \subseteq Ids
      BY <1>7, <2>3
    <3>2. PICK r \in Ids : r = CHOOSE k \in remote : TRUE
      BY <2>5, <3>1
    <3>3. PICK new : new = [msg EXCEPT !.id = r]
      OBVIOUS
    <3>4. new \in GoodMsgs
      BY <1>4, <3>3, RenamedGood
    <3>5. new.state = "message" /\ new.id = r /\ new.name = msg.name
      BY <1>2, <3>3 DEF GoodMsgs, Messages
    <3>6. Handled(h, p, {to}, <<new>>) /\ UNCHANGED <<wires, store, phase, history>>
      BY <1>2, <1>5, <1>6, <1>7, <1>9, <2>5, <3>2, <3>3 DEF HandleMessage
    <3>7. r \in remote
      BY <2>5, <3>2
    <3>8. PICK pair \in mapped[<<h, to>>] : pair[1] = msg.id /\ pair[2] = r
      BY <1>7, <3>7
    <3>9. Addresses(o, pair, to, new)
      BY <1>9, <2>1, <2>2, <3>5, <3>8 DEF Addresses, IsLocal
    <3>10. QED
      BY <1>2, <2>1, <2>3, <3>4, <3>5, <3>6, <3>8, <3>9 DEF history
  <2>6. QED
    BY <2>4, <2>5
<1>10. QED
  BY <1>5, <1>8, <1>9

LEMMA HandleMessageRest ==
  ASSUME Inv, Inv', Rest, NEW h \in Hosts, NEW p \in Hosts, HandleMessage(h, p)
  PROVE  Rest'
<1>1. CASE Still
  BY <1>1, StillRest
<1>2. CASE /\ UNCHANGED <<wires, store, owner, missed>>
           /\ \/ Handled(h, p, {}, <<>>)
              \/ \E to \in Hosts, m \in GoodMsgs : m.state = "message" /\ Handled(h, p, {to}, <<m>>)
  <2>1. Comes(h, p, "message")
    BY DEF HandleMessage
  <2>2. /\ <<p, h>> \in Links /\ p # h /\ net[<<p, h>>] # <<>>
    BY <2>1, Event
  <2>3. PICK S \in SUBSET Sorts : "created" \notin S /\ \A l \in Links : Moves(l, S)
    <3>1. CASE Handled(h, p, {}, <<>>)
      BY <2>2, <3>1, NoneMoves
    <3>2. ASSUME NEW to \in Hosts, NEW m \in GoodMsgs, m.state = "message", Handled(h, p, {to}, <<m>>)
          PROVE  \E S \in SUBSET Sorts : "created" \notin S /\ \A l \in Links : Moves(l, S)
      <4>1. \A l \in Links : Moves(l, {"message"})
        BY <2>2, <3>2, RelayMoves
      <4>2. QED
        BY <4>1 DEF Sorts
    <3>3. QED
      BY <1>2, <3>1, <3>2
  <2>4. /\ enetHost' = enetHost /\ peers' = peers /\ live' = live
        /\ objects' = objects /\ owner' = owner /\ missed' = missed
    BY <1>2 DEF wires, store
  <2>5. QED
    BY <2>3, <2>4, LiveSame, SuccsSame, RestKeeps DEF Rest
<1>3. QED
  BY <1>1, <1>2, HandlesMessage

LEMMA ModifiedDoes ==
  ASSUME Inv, Singles, NEW h \in Hosts, NEW p \in Hosts, HandleModified(h, p)
  PROVE  \/ Still
         \/ /\ UNCHANGED <<wires, mapped, history>>
            /\ \E i \in Ids, o \in Here(h), n \in Copies, pair \in mapped[<<h, p>>], new \in GoodMsgs :
                 Singles' /\ Updates(h, p, Message(h, p), i, o, n, pair, new)
<1>1. Comes(h, p, "modified")
  BY DEF HandleModified
<1>2. PICK msg \in GoodMsgs : msg = Message(h, p) /\ msg.state = "modified"
  BY <1>1, Event
<1>3. <<h, p>> \in Links
  BY <1>1, Event
<1>4. CASE LocalIds(h, p) = {} \/ Refused(h, Others(h, p))
  BY <1>4 DEF HandleModified, Fail, Refused, Still
<1>5. ASSUME NEW i \in LocalIds(h, p),
             Handled(h, p, Others(h, p), <<[msg EXCEPT !.id = i]>>),
             objects' = Updated(h, i, msg),
             UNCHANGED <<wires, idMap, mapped, phase, history>>
      PROVE  \E j \in Ids, o \in Here(h), n \in Copies, pair \in mapped[<<h, p>>], new \in GoodMsgs :
               Singles' /\ Updates(h, p, msg, j, o, n, pair, new)
  <2>1. PICK o \in Here(h), n \in Copies, pair \in mapped[<<h, p>>], new \in GoodMsgs :
          i \in Ids /\ Singles' /\ Updates(h, p, msg, i, o, n, pair, new)
    BY <1>2, <1>3, <1>5, UpdateDoes
  <2>2. QED
    BY <2>1
<1>6. QED
  BY <1>2, <1>4, <1>5 DEF HandleModified

LEMMA ClosedDoes ==
  ASSUME Inv, Singles, NEW h \in Hosts, NEW p \in Hosts, HandleClosed(h, p)
  PROVE  \/ Still
         \/ /\ UNCHANGED <<wires, history>>
            /\ \E i \in Ids, o \in Here(h), n \in Copies, pair \in mapped[<<h, p>>], new \in GoodMsgs :
                 /\ Singles' /\ Updates(h, p, Message(h, p), i, o, n, pair, new)
                 /\ mapped' = [mapped EXCEPT ![<<h, p>>] = {q \in @ : q[1] # i}]
<1>1. Comes(h, p, "closed")
  BY DEF HandleClosed
<1>2. PICK msg \in GoodMsgs : msg = Message(h, p) /\ msg.state = "closed"
  BY <1>1, Event
<1>3. <<h, p>> \in Links
  BY <1>1, Event
<1>4. CASE LocalIds(h, p) = {} \/ Refused(h, Others(h, p))
  BY <1>4 DEF HandleClosed, Fail, Refused, Still
<1>5. ASSUME NEW i \in LocalIds(h, p),
             mapped' = [mapped EXCEPT ![<<h, p>>] = {q \in @ : q[1] # i}],
             Handled(h, p, Others(h, p), <<[msg EXCEPT !.id = i]>>),
             objects' = Updated(h, i, msg)
      PROVE  \E j \in Ids, o \in Here(h), n \in Copies, pair \in mapped[<<h, p>>], new \in GoodMsgs :
               /\ Singles' /\ Updates(h, p, msg, j, o, n, pair, new)
               /\ mapped' = [mapped EXCEPT ![<<h, p>>] = {q \in @ : q[1] # j}]
  <2>1. PICK o \in Here(h), n \in Copies, pair \in mapped[<<h, p>>], new \in GoodMsgs :
          i \in Ids /\ Singles' /\ Updates(h, p, msg, i, o, n, pair, new)
    BY <1>2, <1>3, <1>5, UpdateDoes
  <2>2. QED
    BY <1>5, <2>1
<1>6. QED
  BY <1>2, <1>4, <1>5 DEF HandleClosed

LEMMA UpdatesRest ==
  ASSUME Inv, Inv', Rest, NEW h \in Hosts, NEW p \in Hosts, NEW state \in {"modified", "closed"},
         Comes(h, p, state), UNCHANGED <<wires, history>>,
         NEW i, NEW o \in Here(h), NEW n, NEW pair, NEW new \in GoodMsgs,
         Singles', Updates(h, p, Message(h, p), i, o, n, pair, new)
  PROVE  Rest'
<1>1. /\ <<p, h>> \in Links /\ p # h /\ net[<<p, h>>] # <<>> /\ Message(h, p).state = state
  BY Event
<1>2. \A l \in Links : Moves(l, {state})
  BY <1>1, RelayMoves DEF Updates
<1>3. \A k \in Hosts : Succs(Here(k), Here(k)')
  BY SuccsOne DEF Updates
<1>4. /\ enetHost' = enetHost /\ peers' = peers /\ live' = live
      /\ owner' = owner /\ missed' = missed
  BY DEF wires, history
<1>5. {state} \in SUBSET Sorts /\ "created" \notin {state}
  BY DEF Sorts, Telling
<1>6. QED
  BY <1>2, <1>3, <1>4, <1>5, LiveSame, RestKeeps

LEMMA HandleModifiedRest ==
  ASSUME Inv, Inv', Rest, NEW h \in Hosts, NEW p \in Hosts, HandleModified(h, p)
  PROVE  Rest'
<1>1. Comes(h, p, "modified")
  BY DEF HandleModified
<1>2. QED
  BY <1>1, ModifiedDoes, StillRest, UpdatesRest DEF Rest

LEMMA HandleClosedRest ==
  ASSUME Inv, Inv', Rest, NEW h \in Hosts, NEW p \in Hosts, HandleClosed(h, p)
  PROVE  Rest'
<1>1. Comes(h, p, "closed")
  BY DEF HandleClosed
<1>2. QED
  BY <1>1, ClosedDoes, StillRest, UpdatesRest DEF Rest

-----------------------------------------------------------------------------
(* Several messages at once: one for each of the objects in S, in order.   *)

Batch(s, S, F, t, msgs) ==
  /\ s \in Seq(Copies) /\ Single(s) /\ t = Only(s, S)
  /\ \A o \in S : ~Unmapped(o)
  /\ F \in [Copies -> GoodMsgs] /\ \A o \in Copies : F[o].id = o.id
  /\ msgs \in Seq(GoodMsgs) /\ Len(msgs) = Len(t)
  /\ \A i \in 1 .. Len(t) : msgs[i] = F[t[i]]

LEMMA BatchIs ==
  ASSUME NEW s, NEW S, NEW F, NEW t, NEW msgs, Batch(s, S, F, t, msgs)
  PROVE  /\ \A o \in Range(s) : o \in S => F[o] \in Range(msgs)
         /\ \A m \in Range(msgs) : \E o \in Range(s) : o \in S /\ m = F[o]
         /\ \A i, j \in 1 .. Len(msgs) : msgs[i].id = msgs[j].id => i = j
<1>1. /\ s \in Seq(Copies) /\ Single(s) /\ (\A o \in S : ~Unmapped(o)) /\ t = Only(s, S)
      /\ F \in [Copies -> GoodMsgs] /\ (\A o \in Copies : F[o].id = o.id)
      /\ msgs \in Seq(GoodMsgs) /\ Len(msgs) = Len(t)
      /\ \A i \in 1 .. Len(t) : msgs[i] = F[t[i]]
  BY DEF Batch
<1>2. t \in Seq(Copies) /\ Range(t) = Range(s) \intersect S
  BY <1>1, OnlyIs
<1>3. \A i, j \in 1 .. Len(t) : t[i].id = t[j].id => i = j
  <2>1. \A i, j \in 1 .. Len(Only(s, S)) : Only(s, S)[i].id = Only(s, S)[j].id => i = j
    BY <1>1, SingleOnly
  <2>2. QED
    BY <1>1, <2>1
<1>4. PICK N \in Nat : N = Len(t) /\ DOMAIN t = 1 .. N
  BY <1>2
<1>5. \A i \in 1 .. N : t[i] \in Copies
  BY <1>2, <1>4
<1>6. \A i \in 1 .. N : msgs[i] = F[t[i]] /\ msgs[i] \in GoodMsgs /\ msgs[i].id = t[i].id
  BY <1>1, <1>4, <1>5
<1>7. msgs \in Seq(GoodMsgs) /\ Len(msgs) = N
  BY <1>1, <1>4
<1>8. \A m \in Range(msgs) : \E o \in Range(s) : o \in S /\ m = F[o]
  <2>1. SUFFICES ASSUME NEW m \in Range(msgs)
                 PROVE  \E o \in Range(s) : o \in S /\ m = F[o]
    OBVIOUS
  <2>2. \A e \in Range(msgs) : \E i \in 1 .. Len(msgs) : msgs[i] = e
    BY <1>7, RangeIs
  <2>3. PICK i \in 1 .. N : msgs[i] = m
    BY <1>7, <2>2
  <2>4. t[i] \in Range(t)
    <3>1. \A j \in 1 .. Len(t) : t[j] \in Range(t)
      BY <1>2, RangeIs
    <3>2. QED
      BY <1>4, <3>1
  <2>5. QED
    BY <1>2, <1>6, <2>3, <2>4
<1>9. \A o \in Range(s) : o \in S => F[o] \in Range(msgs)
  <2>1. SUFFICES ASSUME NEW o \in Range(s), o \in S
                 PROVE  F[o] \in Range(msgs)
    OBVIOUS
  <2>2. o \in Range(t)
    BY <1>2, <2>1
  <2>3. \A e \in Range(t) : \E i \in 1 .. Len(t) : t[i] = e
    BY <1>2, RangeIs
  <2>4. PICK i \in 1 .. N : t[i] = o
    BY <1>4, <2>2, <2>3
  <2>5. msgs[i] = F[o] /\ i \in 1 .. Len(msgs)
    BY <1>6, <1>7, <2>4
  <2>6. \A k \in 1 .. Len(msgs) : msgs[k] \in Range(msgs)
    BY <1>7, RangeIs
  <2>7. QED
    BY <2>5, <2>6
<1>10. \A i, j \in 1 .. Len(msgs) : msgs[i].id = msgs[j].id => i = j
  BY <1>3, <1>4, <1>6, <1>7
<1>11. QED
  BY <1>8, <1>9, <1>10

\* The messages that the objects of p are closed, if they are open.
LEMMA ClosedMsgsAre ==
  ASSUME Inv, Singles, NEW h \in Hosts, NEW p \in Hosts,
         \A o \in Here(h) : o.peer = p => Open(o)
  PROVE  \E msgs \in Seq(GoodMsgs) :
           /\ msgs = ClosedMsgs(Theirs(h, p))
           /\ \A o \in Here(h) : o.peer = p => \E m \in Range(msgs) : m.id = o.id
           /\ \A m \in Range(msgs) : m.state = "closed" /\ \E o \in Here(h) :
                o.peer = p /\ m.id = o.id /\ m.name = o.name
           /\ \A i, j \in 1 .. Len(msgs) : msgs[i].id = msgs[j].id => i = j
<1>1. PICK s \in Seq(Copies) : s = objects[h] /\ Here(h) = Range(s)
  BY StoreOf DEF Here
<1>2. PICK S : S = {o \in Here(h) : o.peer = p}
  OBVIOUS
<1>3. \A o \in S : ~Unmapped(o)
  BY <1>2 DEF Unmapped
<1>4. PICK F : F = [o \in Copies |-> ClosedMsg(o)]
  OBVIOUS
<1>5. \A o \in Copies : /\ F[o] = Msg("closed", o.id, o.name, 0) /\ F[o] \in GoodMsgs
                        /\ F[o].id = o.id /\ F[o].name = o.name /\ F[o].state = "closed"
  BY <1>4, GoodCopy, GoodMsg DEF ClosedMsg, Msg
<1>6. F \in [Copies -> GoodMsgs]
  BY <1>4, <1>5
<1>7. PICK t \in Seq(Copies) : t = Theirs(h, p)
  BY TheirsIs
<1>8. t = Only(s, S)
  BY <1>1, <1>2, <1>7 DEF Theirs
<1>9. PICK msgs : msgs = [i \in DOMAIN t |-> F[t[i]]]
  OBVIOUS
<1>10. DOMAIN t = 1 .. Len(t) /\ \A i \in 1 .. Len(t) : t[i] \in Copies
  OBVIOUS
<1>11. msgs = ClosedMsgs(Theirs(h, p))
  BY <1>4, <1>7, <1>9, <1>10 DEF ClosedMsgs
<1>12. Single(s)
  BY <1>1 DEF Singles
<1>13. /\ msgs \in Seq(GoodMsgs) /\ Len(msgs) = Len(t)
       /\ \A i \in 1 .. Len(t) : msgs[i] = F[t[i]]
  BY <1>5, <1>9, <1>10
<1>14. /\ \A o \in Range(s) : o \in S => F[o] \in Range(msgs)
       /\ \A m \in Range(msgs) : \E o \in Range(s) : o \in S /\ m = F[o]
       /\ \A i, j \in 1 .. Len(msgs) : msgs[i].id = msgs[j].id => i = j
  <2>1. Batch(s, S, F, t, msgs)
    BY <1>3, <1>5, <1>6, <1>8, <1>12, <1>13 DEF Batch
  <2>2. QED
    BY <2>1, BatchIs
<1>15. \A o \in Here(h) : o \in Copies
  BY StoreOf
<1>16. \A o \in Here(h) : o.peer = p => \E m \in Range(msgs) : m.id = o.id
  BY <1>1, <1>2, <1>5, <1>14, <1>15
<1>17. \A m \in Range(msgs) : m.state = "closed" /\ \E o \in Here(h) :
         o.peer = p /\ m.id = o.id /\ m.name = o.name
  BY <1>1, <1>2, <1>5, <1>14, <1>15
<1>18. QED
  BY <1>11, <1>14, <1>16, <1>17, <1>13

\* The messages that AddPeer sends.
LEMMA CreatedMsgsAre ==
  ASSUME Inv, Singles, NEW h \in Hosts
  PROVE  \E msgs \in Seq(GoodMsgs) :
           /\ msgs = CreatedMsgs(ToTell(h))
           /\ \A o \in Here(h) : o.state \in {"synced", "modified"} =>
                \E m \in Range(msgs) : m.id = o.id
           /\ \A m \in Range(msgs) : m.state = "created" /\ \E o \in Here(h) :
                /\ o.state \in {"synced", "modified"}
                /\ m.id = o.id /\ m.name = o.name /\ m.data = o.data
           /\ \A i, j \in 1 .. Len(msgs) : msgs[i].id = msgs[j].id => i = j
<1>1. PICK s \in Seq(Copies) : s = objects[h] /\ Here(h) = Range(s)
  BY StoreOf DEF Here
<1>2. PICK S : S = {o \in Here(h) : o.state \in {"synced", "modified"}}
  OBVIOUS
<1>3. \A o \in S : ~Unmapped(o)
  BY <1>2 DEF Unmapped, Open
<1>4. PICK F : F = [o \in Copies |-> CreatedMsg(o)]
  OBVIOUS
<1>5. \A o \in Copies : /\ F[o] = Msg("created", o.id, o.name, o.data) /\ F[o] \in GoodMsgs
                        /\ F[o].id = o.id /\ F[o].name = o.name /\ F[o].state = "created"
                        /\ F[o].data = o.data
  BY <1>4, GoodCopy, GoodMsg DEF CreatedMsg, Msg
<1>6. F \in [Copies -> GoodMsgs]
  BY <1>4, <1>5
<1>7. PICK t \in Seq(Copies) : t = Only(s, S)
  <2>1. Only(s, S) \in Seq(Copies)
    BY OnlyIs
  <2>2. QED
    BY <2>1
<1>8. t = ToTell(h)
  BY <1>1, <1>2, <1>7 DEF ToTell
<1>9. PICK msgs : msgs = [i \in DOMAIN t |-> F[t[i]]]
  OBVIOUS
<1>10. DOMAIN t = 1 .. Len(t) /\ \A i \in 1 .. Len(t) : t[i] \in Copies
  OBVIOUS
<1>11. msgs = CreatedMsgs(ToTell(h))
  BY <1>4, <1>8, <1>9, <1>10 DEF CreatedMsgs
<1>12. Single(s)
  BY <1>1 DEF Singles
<1>13. /\ msgs \in Seq(GoodMsgs) /\ Len(msgs) = Len(t)
       /\ \A i \in 1 .. Len(t) : msgs[i] = F[t[i]]
  BY <1>5, <1>9, <1>10
<1>14. /\ \A o \in Range(s) : o \in S => F[o] \in Range(msgs)
       /\ \A m \in Range(msgs) : \E o \in Range(s) : o \in S /\ m = F[o]
       /\ \A i, j \in 1 .. Len(msgs) : msgs[i].id = msgs[j].id => i = j
  <2>1. Batch(s, S, F, t, msgs)
    BY <1>3, <1>5, <1>6, <1>7, <1>12, <1>13 DEF Batch
  <2>2. QED
    BY <2>1, BatchIs
<1>15. \A o \in Here(h) : o \in Copies
  BY StoreOf
<1>16. \A o \in Here(h) : o.state \in {"synced", "modified"} => \E m \in Range(msgs) : m.id = o.id
  BY <1>1, <1>2, <1>5, <1>14, <1>15
<1>17. \A m \in Range(msgs) : m.state = "created" /\ \E o \in Here(h) :
         /\ o.state \in {"synced", "modified"}
         /\ m.id = o.id /\ m.name = o.name /\ m.data = o.data
  BY <1>1, <1>2, <1>5, <1>14, <1>15
<1>18. QED
  BY <1>11, <1>13, <1>14, <1>16, <1>17

\* The messages that GNetSync sends of the objects.
LEMMA SyncMsgsAre ==
  ASSUME Inv, Singles, NEW h \in Hosts
  PROVE  \E msgs \in Seq(GoodMsgs) :
           /\ msgs = SyncMsgs(h)
           /\ \A o \in Here(h) : IsLocal(o) /\ o.state \in {"created", "modified", "closed"} =>
                \E m \in Range(msgs) : m.id = o.id
           /\ \A m \in Range(msgs) : \E o \in Here(h) :
                /\ IsLocal(o) /\ o.state \in {"created", "modified", "closed"}
                /\ m.state = o.state /\ m.id = o.id /\ m.name = o.name /\ m.data = o.data
           /\ \A i, j \in 1 .. Len(msgs) : msgs[i].id = msgs[j].id => i = j
<1>1. PICK s \in Seq(Copies) : s = objects[h] /\ Here(h) = Range(s)
  BY StoreOf DEF Here
<1>2. PICK S : S = {o \in Here(h) : IsLocal(o) /\ o.state \in {"created", "modified", "closed"}}
  OBVIOUS
<1>3. \A o \in S : ~Unmapped(o)
  BY <1>2 DEF Unmapped
<1>4. PICK F : F = [o \in Copies |->
        IF o.state \in {"modified", "closed"} THEN Msg(o.state, o.id, o.name, o.data)
        ELSE Msg("created", o.id, o.name, o.data)]
  OBVIOUS
<1>5. \A o \in Copies : F[o] \in GoodMsgs /\ F[o].id = o.id
  BY <1>4, GoodCopy, GoodMsg DEF Msg
<1>6. \A o \in Copies : o.state \in {"created", "modified", "closed"} =>
        /\ F[o] = Msg(o.state, o.id, o.name, o.data)
        /\ F[o].state = o.state /\ F[o].name = o.name /\ F[o].data = o.data
  BY <1>4 DEF Msg
<1>7. F \in [Copies -> GoodMsgs]
  BY <1>4, <1>5
<1>8. PICK t \in Seq(Copies) : t = Only(s, S) /\ Range(t) = Range(s) \intersect S
  <2>1. Only(s, S) \in Seq(Copies) /\ Range(Only(s, S)) = Range(s) \intersect S
    BY OnlyIs
  <2>2. QED
    BY <2>1
<1>9. t = ToSync(h)
  BY <1>1, <1>2, <1>8 DEF ToSync
<1>10. PICK msgs : msgs = [i \in DOMAIN t |-> F[t[i]]]
  OBVIOUS
<1>11. DOMAIN t = 1 .. Len(t) /\ \A i \in 1 .. Len(t) : t[i] \in Copies /\ t[i] \in Range(t)
  BY RangeIs
<1>12. msgs = SyncMsgs(h)
  <2>1. \A i \in 1 .. Len(t) : F[t[i]] = Msg(t[i].state, t[i].id, t[i].name, t[i].data)
    BY <1>2, <1>6, <1>8, <1>11
  <2>2. QED
    BY <1>9, <1>10, <1>11, <2>1 DEF SyncMsgs
<1>13. Single(s)
  BY <1>1 DEF Singles
<1>14. /\ msgs \in Seq(GoodMsgs) /\ Len(msgs) = Len(t)
       /\ \A i \in 1 .. Len(t) : msgs[i] = F[t[i]]
  BY <1>5, <1>10, <1>11
<1>15. /\ \A o \in Range(s) : o \in S => F[o] \in Range(msgs)
       /\ \A m \in Range(msgs) : \E o \in Range(s) : o \in S /\ m = F[o]
       /\ \A i, j \in 1 .. Len(msgs) : msgs[i].id = msgs[j].id => i = j
  <2>1. Batch(s, S, F, t, msgs)
    BY <1>3, <1>5, <1>7, <1>8, <1>13, <1>14 DEF Batch
  <2>2. QED
    BY <2>1, BatchIs
<1>16. \A o \in Here(h) : o \in Copies
  BY StoreOf
<1>17. \A o \in Here(h) : IsLocal(o) /\ o.state \in {"created", "modified", "closed"} =>
         \E m \in Range(msgs) : m.id = o.id
  BY <1>1, <1>2, <1>5, <1>15, <1>16
<1>18. \A m \in Range(msgs) : \E o \in Here(h) :
         /\ IsLocal(o) /\ o.state \in {"created", "modified", "closed"}
         /\ m.state = o.state /\ m.id = o.id /\ m.name = o.name /\ m.data = o.data
  BY <1>1, <1>2, <1>5, <1>6, <1>15, <1>16
<1>19. QED
  BY <1>12, <1>14, <1>15, <1>17, <1>18

\* What HandleDisconnect does, unless the program ends.
Loses(h, p, msgs) ==
  /\ \A o \in Here(h) : o.peer = p => Open(o)
  /\ Handled(h, p, Others(h, p), msgs)
  /\ \A o \in Here(h) : o.peer = p => \E m \in Range(msgs) : m.id = o.id
  /\ \A m \in Range(msgs) : m.state = "closed" /\ \E o \in Here(h) :
       o.peer = p /\ m.id = o.id /\ m.name = o.name
  /\ \A i, j \in 1 .. Len(msgs) : msgs[i].id = msgs[j].id => i = j
  /\ mapped' = [mapped EXCEPT ![<<h, p>>] = {}]
  /\ \A q \in Here(h)' : \E o \in Here(h) : q = IF o.peer = p THEN Closed(o) ELSE o
  /\ \A o \in Here(h) : o.peer # p => o \in Here(h)'
  /\ \A k \in Hosts : k # h => Here(k)' = Here(k)
  /\ peers' = [peers EXCEPT ![h] = @ \ {p}]

LEMMA DisconnectDoes ==
  ASSUME Inv, Singles, NEW h \in Hosts, NEW p \in Hosts, HandleDisconnect(h, p)
  PROVE  \/ Still
         \/ /\ UNCHANGED <<enetHost, live, history>> /\ Singles'
            /\ \E msgs \in Seq(GoodMsgs) : Loses(h, p, msgs)
<1>1. \A o : o \in Range(Theirs(h, p)) <=> o \in Here(h) /\ o.peer = p
  BY TheirsIs
<1>2. CASE Refused(h, Others(h, p)) \/ Fail(h, "unmap")
  BY <1>2 DEF Refused, Fail, Still
<1>3. CASE ~(Refused(h, Others(h, p)) \/ Fail(h, "unmap"))
  <2>1. /\ \A o \in Range(Theirs(h, p)) : Open(o)
        /\ Handled(h, p, Others(h, p), ClosedMsgs(Theirs(h, p)))
        /\ mapped' = [mapped EXCEPT ![<<h, p>>] = {}]
        /\ objects' = [objects EXCEPT ![h] = [i \in DOMAIN @ |->
             IF @[i].peer = p THEN Closed(@[i]) ELSE @[i]]]
        /\ peers' = [peers EXCEPT ![h] = @ \ {p}]
        /\ UNCHANGED <<enetHost, live, phase, history>>
    BY <1>3 DEF HandleDisconnect
  <2>2. \A o \in Here(h) : o.peer = p => Open(o)
    BY <1>1, <2>1
  <2>3. PICK msgs \in Seq(GoodMsgs) :
          /\ msgs = ClosedMsgs(Theirs(h, p))
          /\ \A o \in Here(h) : o.peer = p => \E m \in Range(msgs) : m.id = o.id
          /\ \A m \in Range(msgs) : m.state = "closed" /\ \E o \in Here(h) :
               o.peer = p /\ m.id = o.id /\ m.name = o.name
          /\ \A i, j \in 1 .. Len(msgs) : msgs[i].id = msgs[j].id => i = j
    BY <2>2, ClosedMsgsAre
  <2>4. /\ \A q \in Here(h)' : \E o \in Here(h) : q = IF o.peer = p THEN Closed(o) ELSE o
        /\ \A o \in Here(h) : o.peer # p => o \in Here(h)'
        /\ \A k \in Hosts : k # h => Here(k)' = Here(k)
        /\ Singles'
    BY <2>1, LoseStep
  <2>5. Loses(h, p, msgs)
    BY <2>1, <2>2, <2>3, <2>4 DEF Loses
  <2>6. QED
    BY <2>1, <2>4, <2>5
<1>4. QED
  BY <1>2, <1>3

LEMMA HandleDisconnectRest ==
  ASSUME Inv, Inv', Rest, NEW h \in Hosts, NEW p \in Hosts, HandleDisconnect(h, p)
  PROVE  Rest'
<1>1. Comes(h, p, "disconnect")
  BY DEF HandleDisconnect
<1>2. <<p, h>> \in Links /\ p # h /\ net[<<p, h>>] # <<>>
  BY <1>1, Event
<1>3. CASE Still
  BY <1>3, StillRest
<1>4. ASSUME UNCHANGED <<enetHost, live, history>>, Singles',
             NEW msgs \in Seq(GoodMsgs), Loses(h, p, msgs)
      PROVE  Rest'
  <2>1. \A l \in Links : Moves(l, {"closed"})
    BY <1>2, <1>4, HandledMoves DEF Loses, Says
  <2>2. Succs(Here(h), Here(h)')
    <3>1. \A o \in Copies : o.peer = p => Succeeds(o, Closed(o))
      <4>1. \A o \in Copies : /\ Closed(o).id = o.id /\ Closed(o).name = o.name
                              /\ Closed(o).peer = o.peer /\ ~Open(Closed(o))
        BY ClosedIs
      <4>2. \A o \in Copies : Closed(o).state # "created"
        BY <4>1 DEF Open
      <4>3. p # None
        BY GameNetAssumption DEF Hosts
      <4>4. QED
        BY <4>1, <4>2, <4>3 DEF Succeeds, Unmapped, IsLocal
    <3>2. \A o \in Here(h) : o \in Copies
      BY StoreOf
    <3>3. QED
      BY <1>4, <3>1, <3>2, SucceedsSelf DEF Loses, Succs
  <2>3. \A k \in Hosts : Succs(Here(k), Here(k)')
    <3>1. \A k \in Hosts : k # h => Succs(Here(k), Here(k)')
      BY <1>4, SucceedsSelf DEF Loses, Succs
    <3>2. QED
      BY <2>2, <3>1
  <2>4. enetHost' = enetHost /\ live' = live /\ owner' = owner /\ missed' = missed
    BY <1>4 DEF history
  <2>5. \A k \in Hosts : peers'[k] \subseteq peers[k]
    BY <1>4 DEF Loses, Inv, WiresTyped
  <2>6. {"closed"} \in SUBSET Sorts /\ "created" \notin {"closed"}
    BY DEF Sorts, Telling
  <2>7. QED
    BY <1>4, <2>1, <2>3, <2>4, <2>5, <2>6, LiveSame, RestKeeps
<1>5. QED
  BY <1>3, <1>4, DisconnectDoes DEF Rest

\* Connections end: what happens to each link.
Ends(l) ==
  \/ net'[l] = net[l] /\ (l \in live' <=> l \in live)
  \/ l \notin live' /\ (net'[l] = <<>> \/ (l \in live /\ net'[l] \in CutShort(l)))

LEMMA CloseHostDoes ==
  ASSUME Inv, NEW h \in Hosts, CloseHost(h)
  PROVE  /\ UNCHANGED <<enetHost, peers, store, history>>
         /\ live' \subseteq live /\ \A l \in live : <<l[2], l[1]>> \in live => (l \in live' <=> <<l[2], l[1]>> \in live')
         /\ \A l \in Links : Ends(l)
<1>1. PICK out : out = {l \in live : l[1] = h}
  OBVIOUS
<1>2. PICK cut : /\ \A l \in out : cut[l] \in CutShort(l)
                 /\ net' = [l \in Links |-> IF l \in out THEN cut[l]
                                           ELSE IF l[2] = h THEN <<>> ELSE net[l]]
  BY <1>1 DEF CloseHost
<1>3. live' = {l \in live : h \notin {l[1], l[2]}}
  BY DEF CloseHost
<1>4. \A l \in Links : Ends(l)
  BY <1>1, <1>2, <1>3 DEF Ends
<1>5. UNCHANGED <<enetHost, peers, store, history>>
  BY DEF CloseHost
<1>6. QED
  BY <1>3, <1>4, <1>5

LEMMA LoseDoes ==
  ASSUME Inv, Symmetric, NEW c \in Clients, LoseConnection(c)
  PROVE  /\ UNCHANGED <<enetHost, peers, store, history>>
         /\ live' \subseteq live /\ \A l \in live : <<l[2], l[1]>> \in live => (l \in live' <=> <<l[2], l[1]>> \in live')
         /\ \A l \in Links : Ends(l)
<1>1. <<c, Server>> \in Links /\ <<Server, c>> \in Links /\ <<c, Server>> # <<Server, c>>
  BY GameNetAssumption DEF Links, Hosts
<1>2. PICK up \in CutShort(<<c, Server>>), down \in CutShort(<<Server, c>>) :
        net' = [net EXCEPT ![<<c, Server>>] = up, ![<<Server, c>>] = down]
  BY DEF LoseConnection
<1>3. DOMAIN net = Links
  BY DEF Inv, NetTyped
<1>4. /\ net'[<<c, Server>>] = up /\ net'[<<Server, c>>] = down
      /\ \A l \in Links : l # <<c, Server>> /\ l # <<Server, c>> => net'[l] = net[l]
  BY <1>1, <1>2, <1>3
<1>5. live' = live \ {<<c, Server>>, <<Server, c>>} /\ <<c, Server>> \in live
  BY DEF LoseConnection
<1>6. <<Server, c>> \in live
  <2>1. \A l \in live : <<l[2], l[1]>> \in live
    BY DEF Symmetric
  <2>2. <<Server, c>> = <<<<c, Server>>[2], <<c, Server>>[1]>>
    OBVIOUS
  <2>3. QED
    BY <1>5, <2>1, <2>2
<1>7. \A l \in Links : Ends(l)
  BY <1>2, <1>4, <1>5, <1>6 DEF Ends
<1>8. UNCHANGED <<enetHost, peers, store, history>>
  BY DEF LoseConnection
<1>9. \A l \in live : l \in Links
  BY DEF Inv, WiresTyped
<1>10. \A l \in live : <<l[2], l[1]>> \in live => (l \in live' <=> <<l[2], l[1]>> \in live')
  <2>1. SUFFICES ASSUME NEW l \in live, <<l[2], l[1]>> \in live
                 PROVE  l \in live' <=> <<l[2], l[1]>> \in live'
    OBVIOUS
  <2>2. l = <<l[1], l[2]>>
    BY <1>9 DEF Links
  <2>3. QED
    BY <1>5, <2>1, <2>2
<1>11. QED
  BY <1>5, <1>7, <1>8, <1>10

LEMMA EndsRest ==
  ASSUME Inv, Inv', Rest, UNCHANGED <<enetHost, peers, store, history>>, live' \subseteq live,
         \A l \in live : <<l[2], l[1]>> \in live => (l \in live' <=> <<l[2], l[1]>> \in live'),
         \A l \in Links : Ends(l)
  PROVE  Rest'
<1>1. /\ enetHost' = enetHost /\ peers' = peers /\ objects' = objects
      /\ owner' = owner /\ missed' = missed
  BY DEF store, history
<1>2. \A l \in Links : Moves(l, {})
  BY DEF Ends, Moves
<1>3. \A l \in live' : <<l[2], l[1]>> \in live'
  BY DEF Rest, Wired, Symmetric
<1>4. QED
  BY <1>1, <1>2, <1>3, SuccsSame, RestKeeps DEF Rest

LEMMA CloseHostRest ==
  ASSUME Inv, Inv', Rest, NEW h \in Hosts, CloseHost(h)
  PROVE  Rest'
BY CloseHostDoes, EndsRest

LEMMA LoseConnectionRest ==
  ASSUME Inv, Inv', Rest, NEW c \in Clients, LoseConnection(c)
  PROVE  Rest'
BY LoseDoes, EndsRest DEF Rest, Wired

\* What GNetSync does to the objects, and what it sends of them.
SyncSays(h, msgs) ==
  /\ \A o \in Here(h) : IsLocal(o) /\ o.state \in {"created", "modified", "closed"} =>
       \E m \in Range(msgs) : m.id = o.id
  /\ \A m \in Range(msgs) : \E o \in Here(h) :
       /\ IsLocal(o) /\ o.state \in {"created", "modified", "closed"}
       /\ m.state = o.state /\ m.id = o.id /\ m.name = o.name /\ m.data = o.data
  /\ \A i, j \in 1 .. Len(msgs) : msgs[i].id = msgs[j].id => i = j

\* o after GNetSync
Settled(o, q) ==
  /\ q.id = o.id /\ q.name = o.name /\ q.peer = o.peer /\ q.data = o.data
  /\ o.state \in {"created", "modified", "synced"} /\ q.state = "synced"

Settles(h) ==
  /\ \A q \in Here(h)' : \E o \in Here(h) : Settled(o, q)
  /\ \A o \in Here(h) : o.state \in {"created", "modified", "synced"} =>
       \E q \in Here(h)' : Settled(o, q)
  /\ \A k \in Hosts : k # h => Here(k)' = Here(k)

LEMMA SyncDoes ==
  ASSUME Inv, Singles, NEW h \in Hosts, Sync(h)
  PROVE  /\ Singles' /\ UNCHANGED <<wires, mapped, history>> /\ Settles(h)
         /\ \E msgs \in Seq(GoodMsgs) : net' = Sent(h, peers[h], msgs) /\ SyncSays(h, msgs)
<1>1. /\ net' = Sent(h, peers[h], SyncMsgs(h))
      /\ objects' = [objects EXCEPT ![h] = Synced(h)]
      /\ UNCHANGED <<wires, mapped, history>>
  BY DEF Sync
<1>2. /\ Here(h)' = {AfterSync(o) : o \in Here(h) \ Zombies(h)}
      /\ \A k \in Hosts : k # h => Here(k)' = Here(k)
      /\ Singles'
  BY <1>1, SyncedStep
<1>3. \A o \in Here(h) : o \in Copies
  BY StoreOf
<1>4. \A o \in Here(h) \ Zombies(h) : AfterSync(o).state # "zombie"
  BY DEF Zombies
<1>5. \A o \in Here(h) \ Zombies(h) : Settled(o, AfterSync(o))
  BY <1>3, <1>4, AfterSyncIs DEF Settled
<1>6. \A o \in Here(h) : o.state \in {"created", "modified", "synced"} => o \notin Zombies(h)
  BY <1>3 DEF Zombies, AfterSync, Copies
<1>7. Settles(h)
  BY <1>2, <1>5, <1>6 DEF Settles
<1>8. \E msgs \in Seq(GoodMsgs) : msgs = SyncMsgs(h) /\ SyncSays(h, msgs)
  BY SyncMsgsAre DEF SyncSays
<1>9. QED
  BY <1>1, <1>2, <1>7, <1>8

LEMMA UnheardKeeps ==
  ASSUME Succs(Here(Server), Here(Server)'), missed' = missed, NEW x, Unheard(x)
  PROVE  Unheard(x)'
BY DEF Succs, Succeeds, Unheard

LEMMA SyncRest ==
  ASSUME Inv, Inv', Rest, NEW h \in Hosts, Sync(h)
  PROVE  Rest'
<1>1. Singles' /\ UNCHANGED <<wires, mapped, history>> /\ Settles(h)
  BY SyncDoes DEF Rest
<1>2. PICK msgs \in Seq(GoodMsgs) : net' = Sent(h, peers[h], msgs) /\ SyncSays(h, msgs)
  BY SyncDoes DEF Rest
<1>3. /\ enetHost' = enetHost /\ peers' = peers /\ live' = live
      /\ owner' = owner /\ missed' = missed
  BY <1>1 DEF wires, history
<1>4. \A o \in Here(h) : o.state \in {"created", "modified", "synced"} => ~Unmapped(o)
  BY DEF Unmapped, Open
<1>5. \A o, q : Settled(o, q) /\ o \in Here(h) => Succeeds(o, q)
  BY <1>4 DEF Settled, Succeeds
<1>6. \A k \in Hosts : Succs(Here(k), Here(k)')
  <2>1. Succs(Here(h), Here(h)')
    BY <1>1, <1>5 DEF Settles, Succs
  <2>2. \A k \in Hosts : k # h => Succs(Here(k), Here(k)')
    BY <1>1, SucceedsSelf DEF Settles, Succs
  <2>3. QED
    BY <2>1, <2>2
<1>7. Says(msgs, Telling)
  BY <1>2 DEF SyncSays, Says, Telling
<1>8. \A l \in Links : Moves(l, Telling)
  BY <1>2, <1>7, SentMoves
<1>9. Telling \in SUBSET Sorts
  BY DEF Sorts
<1>10. Wired'
  BY <1>3, <1>6, <1>8, <1>9, LiveSame, WiredKeeps DEF Rest
<1>11. Named
  BY DEF Rest
<1>12. Owned'
  <2>1. SUFFICES ASSUME NEW k \in Hosts, NEW q \in Here(k)'
                 PROVE  /\ IsLocal(q) => owner[q.name] = k
                        /\ k = Server /\ ~IsLocal(q) => owner[q.name] = q.peer
    BY <1>3 DEF Owned, IsLocal
  <2>2. PICK o \in Here(k) : Succeeds(o, q)
    BY <1>6 DEF Succs
  <2>3. QED
    BY <1>11, <2>2 DEF Named, Owned, Succeeds, IsLocal
<1>13. Once'
  <2>1. ASSUME NEW q \in Here(h)', NEW r \in Here(h)', IsLocal(q), IsLocal(r), q.name = r.name
        PROVE  q = r
    <3>1. PICK o \in Here(h) : Settled(o, q)
      BY <1>1 DEF Settles
    <3>2. PICK n \in Here(h) : Settled(n, r)
      BY <1>1 DEF Settles
    <3>3. o = n
      BY <1>11, <2>1, <3>1, <3>2 DEF Named, Once, Settled, IsLocal
    <3>4. q.id = r.id
      BY <3>1, <3>2, <3>3 DEF Settled
    <3>5. Row(Here(h)', idMap'[h])
      BY DEF Inv, AllTables, Tables
    <3>6. \A u, v \in Here(h)' : ~Unmapped(u) /\ ~Unmapped(v) /\ u.id = v.id => u = v
      BY <3>5 DEF Row
    <3>7. QED
      BY <2>1, <3>4, <3>6 DEF Unmapped
  <2>2. \A k \in Hosts : k # h => \A q, r \in Here(k)' :
          IsLocal(q) /\ IsLocal(r) /\ q.name = r.name => q = r
    BY <1>1, <1>11 DEF Settles, Named, Once
  <2>3. QED
    BY <2>1, <2>2 DEF Once, IsLocal
<1>14. MissedOwned' /\ Apart'
  BY <1>3, <1>6, <1>11, ApartKeeps DEF Named, MissedOwned, Hosts
<1>15. Fresh'
  <2>1. SUFFICES ASSUME NEW g \in Hosts, NEW q \in Here(g)', IsLocal(q), q.state = "created"
                 PROVE  \A k \in Hosts : <<k, q.name>> \notin missed
    BY <1>3 DEF Fresh, IsLocal
  <2>2. PICK o \in Here(g) : Succeeds(o, q)
    BY <1>6 DEF Succs
  <2>3. QED
    BY <1>11, <2>1, <2>2 DEF Named, Fresh, Succeeds, IsLocal
<1>16. Written'
  <2>1. SUFFICES ASSUME NEW g \in Hosts, NEW q \in Here(g)', IsLocal(q), q.state = "modified"
                 PROVE  q.data # 0
    BY DEF Written, IsLocal
  <2>2. g # h
    BY <1>1, <2>1 DEF Settles, Settled
  <2>3. QED
    BY <1>1, <1>11, <2>1, <2>2 DEF Named, Written, Settles
<1>17. Succs(Here(Server), Here(Server)')
  BY <1>6 DEF Hosts
<1>18. Unsent'
  <2>1. SUFFICES ASSUME NEW c \in Clients, NEW q \in Here(c)', IsLocal(q),
                        q.state = "created" \/ c \notin enetHost
                 PROVE  Unheard(q.name)'
    BY <1>3 DEF Unsent, IsLocal
  <2>2. c \in Hosts
    BY DEF Hosts
  <2>3. PICK o \in Here(c) : Succeeds(o, q)
    BY <1>6, <2>2 DEF Succs
  <2>4. Unheard(o.name)
    BY <1>11, <2>1, <2>3 DEF Named, Unsent, Succeeds, IsLocal
  <2>5. \A x : Unheard(x) => Unheard(x)'
    BY <1>3, <1>17 DEF Succs, Succeeds, Unheard
  <2>6. QED
    BY <2>3, <2>4, <2>5 DEF Succeeds, Unheard
<1>19. Arriving'
  <2>1. SUFFICES ASSUME NEW c \in Clients
                 PROVE  Arrives(c)'
    BY DEF Arriving
  <2>2. <<c, Server>> \in Links /\ c \in Hosts
    BY GameNetAssumption DEF Links, Hosts
  <2>3. PICK l \in Links : l = <<c, Server>>
    BY <2>2
  <2>4. net'[l] = net[l] \/ (c = h /\ net'[l] = net[l] \o msgs)
    <3>1. l[1] = c
      BY <2>3
    <3>2. Sent(h, peers[h], msgs)[l] =
            IF l[1] = h /\ l[2] \in peers[h] /\ l \in live THEN net[l] \o msgs ELSE net[l]
      BY SentIs
    <3>3. QED
      BY <1>2, <3>1, <3>2
  <2>5. net[l] \in Seq(GoodMsgs)
    BY <2>2, <2>3 DEF Inv, NetTyped
  <2>6. \A x : Unheard(x) => Unheard(x)'
    BY <1>3, <1>17 DEF Succs, Succeeds, Unheard
  <2>7. Arrives(c)
    BY <1>11 DEF Named, Arriving
  <2>8. \A m \in Range(msgs) : m.state = "created" => \E o \in Here(h) :
          IsLocal(o) /\ o.state = "created" /\ m.name = o.name /\ m.id = o.id
    BY <1>2 DEF SyncSays
  <2>9. \A m \in Range(net[l]) : m.state = "created" =>
          /\ owner'[m.name] = c /\ Unheard(m.name)'
          /\ \A o \in Here(c)' : IsLocal(o) /\ o.name = m.name => o.state # "created"
    <3>1. SUFFICES ASSUME NEW m \in Range(net[l]), m.state = "created"
                   PROVE  /\ owner'[m.name] = c /\ Unheard(m.name)'
                          /\ \A o \in Here(c)' : IsLocal(o) /\ o.name = m.name => o.state # "created"
      OBVIOUS
    <3>2. /\ owner[m.name] = c /\ Unheard(m.name)
          /\ \A o \in Here(c) : IsLocal(o) /\ o.name = m.name => o.state # "created"
      BY <2>3, <2>7, <3>1 DEF Arrives
    <3>3. \A q \in Here(c)' : \E o \in Here(c) : Succeeds(o, q)
      BY <1>6, <2>2 DEF Succs
    <3>4. QED
      BY <1>3, <2>6, <3>2, <3>3 DEF Succeeds, IsLocal
  <2>10. CASE net'[l] = net[l]
    <3>1. Announced(net'[<<c, Server>>])
      BY <2>3, <2>7, <2>10 DEF Arrives
    <3>2. QED
      BY <2>3, <2>9, <2>10, <3>1 DEF Arrives
  <2>11. CASE c = h /\ net'[l] = net[l] \o msgs
    <3>1. Announced(msgs)
      <4>1. SUFFICES ASSUME NEW i \in 1 .. Len(msgs), NEW j \in 1 .. Len(msgs),
                            msgs[i].state = "created", msgs[j].state = "created",
                            msgs[i].name = msgs[j].name
                     PROVE  i = j
        BY DEF Announced
      <4>2. \A k \in 1 .. Len(msgs) : msgs[k] \in Range(msgs)
        BY RangeIs
      <4>3. PICK o \in Here(h) : IsLocal(o) /\ msgs[i].name = o.name /\ msgs[i].id = o.id
        BY <2>8, <4>1, <4>2
      <4>4. PICK q \in Here(h) : IsLocal(q) /\ msgs[j].name = q.name /\ msgs[j].id = q.id
        BY <2>8, <4>1, <4>2
      <4>5. o = q
        BY <1>11, <4>1, <4>3, <4>4 DEF Named, Once
      <4>6. msgs[i].id = msgs[j].id
        BY <4>3, <4>4, <4>5
      <4>7. \A a, b \in 1 .. Len(msgs) : msgs[a].id = msgs[b].id => a = b
        BY <1>2 DEF SyncSays
      <4>8. QED
        BY <4>6, <4>7
    <3>2. \A m \in Range(net[l]), n \in Range(msgs) :
            m.state = "created" /\ n.state = "created" => m.name # n.name
      <4>1. SUFFICES ASSUME NEW m \in Range(net[l]), NEW n \in Range(msgs),
                            m.state = "created", n.state = "created", m.name = n.name
                     PROVE  FALSE
        OBVIOUS
      <4>2. PICK o \in Here(c) : IsLocal(o) /\ o.state = "created" /\ n.name = o.name
        BY <2>8, <2>11, <4>1
      <4>3. \A q \in Here(c) : IsLocal(q) /\ q.name = m.name => q.state # "created"
        BY <2>3, <2>7, <4>1 DEF Arrives
      <4>4. QED
        BY <4>1, <4>2, <4>3
    <3>3. Announced(net[l])
      BY <2>3, <2>7 DEF Arrives
    <3>4. Announced(net[l] \o msgs)
      BY <2>5, <3>1, <3>2, <3>3, AnnouncedConcat, SMTT(30)
    <3>5. Announced(net'[<<c, Server>>])
      BY <2>3, <2>11, <3>4
    <3>6. Range(net[l] \o msgs) = Range(net[l]) \union Range(msgs)
      BY <2>5, ConcatIs
    <3>7. \A m \in Range(msgs) : m.state = "created" =>
            /\ owner'[m.name] = c /\ Unheard(m.name)'
            /\ \A o \in Here(c)' : IsLocal(o) /\ o.name = m.name => o.state # "created"
      <4>1. SUFFICES ASSUME NEW m \in Range(msgs), m.state = "created"
                     PROVE  /\ owner'[m.name] = c /\ Unheard(m.name)'
                            /\ \A o \in Here(c)' : IsLocal(o) /\ o.name = m.name => o.state # "created"
        OBVIOUS
      <4>2. PICK o \in Here(h) : IsLocal(o) /\ o.state = "created" /\ m.name = o.name
        BY <2>8, <4>1
      <4>3. owner[m.name] = c /\ Unheard(m.name)
        BY <1>11, <2>11, <4>2 DEF Named, Owned, Unsent
      <4>4. \A q \in Here(h)' : q.state = "synced"
        BY <1>1 DEF Settles, Settled
      <4>5. QED
        BY <1>3, <2>6, <2>11, <4>3, <4>4
    <3>8. QED
      BY <2>3, <2>9, <2>11, <3>5, <3>6, <3>7 DEF Arrives
  <2>12. QED
    BY <2>4, <2>10, <2>11
<1>20. QED
  BY <1>1, <1>10, <1>12, <1>13, <1>14, <1>15, <1>16, <1>18, <1>19 DEF Rest, Named

\* What CreateObject does.
Creates(h, x, o) ==
  /\ IsLocal(o) /\ o.state = "created" /\ o.name = x
  /\ idMap[h][o.id] = None
  /\ Here(h)' = Here(h) \union {o}
  /\ \A k \in Hosts : k # h => Here(k)' = Here(k)
  /\ owner[x] = None /\ owner' = [owner EXCEPT ![x] = h]
  /\ enetHost' = enetHost /\ peers' = peers /\ live' = live /\ net' = net
  /\ mapped' = mapped /\ missed' = missed

LEMMA CreateDoes ==
  ASSUME Inv, Singles, NEW h \in Hosts, NEW x \in Objects, CreateObject(h, x)
  PROVE  Singles' /\ \E o \in Copies : Creates(h, x, o)
<1>1. PICK i \in Ids : i = AllocId(h) /\ idMap[h][i] = None
  BY AllocIdIs DEF CreateObject
<1>2. PICK o : o = [name |-> x, id |-> i, state |-> "created", peer |-> None, data |-> 0]
  OBVIOUS
<1>3. o \in Copies /\ IsLocal(o) /\ o.state = "created" /\ o.name = x /\ o.id = i
  BY <1>2 DEF Copies, IsLocal
<1>4. objects' = [objects EXCEPT ![h] = Append(@, o)]
  BY <1>1, <1>2 DEF CreateObject
<1>5. /\ Here(h)' = Here(h) \union {o}
      /\ \A k \in Hosts : k # h => Here(k)' = Here(k)
      /\ Singles'
  BY <1>1, <1>3, <1>4, AppendStep
<1>6. /\ owner[x] = None /\ owner' = [owner EXCEPT ![x] = h]
      /\ enetHost' = enetHost /\ peers' = peers /\ live' = live /\ net' = net
      /\ mapped' = mapped /\ missed' = missed
  BY DEF CreateObject, wires
<1>7. Creates(h, x, o)
  BY <1>1, <1>3, <1>5, <1>6 DEF Creates
<1>8. QED
  BY <1>3, <1>5, <1>7

\* Nothing happens to the wires, and new objects do not come from a stranger.
LEMMA WiredSame ==
  ASSUME Wired, enetHost' = enetHost, peers' = peers, live' = live, net' = net, missed' = missed,
         \A h \in Hosts : \A q \in Here(h)' : IsLocal(q) \/ \E o \in Here(h) : q.peer = o.peer
  PROVE  Wired'
<1>1. Symmetric' /\ Star'
  BY DEF Wired, Symmetric, Star
<1>2. Frames'
  BY DEF Wired, Frames, Framing, Framed
<1>3. Clients \subseteq Hosts /\ Server \in Hosts
  BY DEF Hosts
<1>4. Unconnected'
  BY <1>3 DEF Wired, Unconnected, IsLocal
<1>5. Strangers'
  <2>1. SUFFICES ASSUME NEW c \in Clients, NotYet(c)'
                 PROVE  /\ c \notin peers[Server]
                        /\ \A q \in Here(Server)' : q.peer # c
                        /\ \A x \in Objects : <<c, x>> \notin missed
    BY DEF Strangers
  <2>2. NotYet(c)
    BY <2>1 DEF NotYet
  <2>3. None # c
    BY GameNetAssumption
  <2>4. QED
    BY <1>3, <2>2, <2>3 DEF Wired, Strangers, IsLocal
<1>6. QED
  BY <1>1, <1>2, <1>4, <1>5 DEF Wired

LEMMA CreateRest ==
  ASSUME Inv, Inv', Rest, NEW h \in Hosts, NEW x \in Objects, CreateObject(h, x)
  PROVE  Rest'
<1>1. Singles'
  BY CreateDoes DEF Rest
<1>2. PICK o \in Copies : Creates(h, x, o)
  BY CreateDoes DEF Rest
<1>3. /\ IsLocal(o) /\ o.state = "created" /\ o.name = x
      /\ Here(h)' = Here(h) \union {o}
      /\ \A k \in Hosts : k # h => Here(k)' = Here(k)
      /\ owner[x] = None
      /\ enetHost' = enetHost /\ peers' = peers /\ live' = live /\ net' = net
      /\ missed' = missed
  BY <1>2 DEF Creates
<1>4. owner'[x] = h /\ \A y \in Objects : y # x => owner'[y] = owner[y]
  BY <1>2 DEF Creates, Inv, HistoryTyped
<1>5. \A k \in Hosts : \A q \in Here(k)' : q \in Here(k) \/ (k = h /\ q = o)
  BY <1>3
<1>6. Wired'
  BY <1>3, <1>5, WiredSame DEF Rest
<1>7. Named /\ None \notin Hosts
  BY GameNetAssumption DEF Rest, Hosts
<1>8. \A k \in Hosts : \A q \in Here(k) : q.name \in Objects
  BY RowOf
<1>9. \A k \in Hosts : \A q \in Here(k) : IsLocal(q) \/ k = Server => q.name # x
  <2>1. \A k \in Hosts : \A q \in Here(k) : IsLocal(q) => owner[q.name] \in Hosts
    BY <1>7 DEF Named, Owned
  <2>2. Server \in Hosts
    BY DEF Hosts
  <2>3. \A q \in Here(Server) : ~IsLocal(q) => owner[q.name] = q.peer /\ <<Server, q.peer>> \in Links
    BY <1>7, <2>2, RowOf DEF Named, Owned
  <2>4. \A q \in Here(Server) : ~IsLocal(q) => owner[q.name] \in Hosts
    BY <2>3 DEF Links
  <2>5. QED
    BY <1>3, <1>7, <2>1, <2>4
<1>10. Owned'
  <2>1. SUFFICES ASSUME NEW k \in Hosts, NEW q \in Here(k)'
                 PROVE  /\ IsLocal(q) => owner'[q.name] = k
                        /\ k = Server /\ ~IsLocal(q) => owner'[q.name] = q.peer
    BY DEF Owned, IsLocal
  <2>2. CASE q \in Here(k)
    BY <1>4, <1>7, <1>8, <1>9, <2>2 DEF Named, Owned
  <2>3. CASE k = h /\ q = o
    BY <1>3, <1>4, <2>3
  <2>4. QED
    BY <1>5, <2>2, <2>3
<1>11. Once'
  <2>1. SUFFICES ASSUME NEW k \in Hosts, NEW q \in Here(k)', NEW r \in Here(k)',
                        IsLocal(q), IsLocal(r), q.name = r.name
                 PROVE  q = r
    BY DEF Once, IsLocal
  <2>2. CASE q \in Here(k) /\ r \in Here(k)
    BY <1>7, <2>1, <2>2 DEF Named, Once
  <2>3. QED
    BY <1>3, <1>5, <1>9, <2>1, <2>2
<1>12. MissedOwned' /\ Apart'
  <2>1. MissedOwned'
    BY <1>3, <1>4, <1>7 DEF Named, MissedOwned
  <2>2. SUFFICES ASSUME NEW q \in Here(Server)', NEW r \in Here(Server)',
                        ~Unmapped(q), ~Unmapped(r), q.name = r.name
                 PROVE  q = r
    BY <2>1 DEF Apart, Unmapped, Open, IsLocal
  <2>3. CASE q \in Here(Server) /\ r \in Here(Server)
    BY <1>7, <2>2, <2>3 DEF Named, Apart
  <2>4. Server \in Hosts
    BY DEF Hosts
  <2>5. QED
    BY <1>3, <1>5, <1>9, <2>2, <2>3, <2>4
<1>13. \A k \in Hosts : <<k, x>> \notin missed
  BY <1>3, <1>7 DEF Named, MissedOwned
<1>14. Fresh'
  <2>1. SUFFICES ASSUME NEW g \in Hosts, NEW q \in Here(g)', IsLocal(q), q.state = "created"
                 PROVE  \A k \in Hosts : <<k, q.name>> \notin missed
    BY <1>3 DEF Fresh, IsLocal
  <2>2. QED
    BY <1>3, <1>5, <1>7, <1>13, <2>1 DEF Named, Fresh
<1>15. \A y : y # x /\ Unheard(y) => Unheard(y)'
  <2>1. \A q \in Here(Server)' : q \in Here(Server) \/ q.name = x
    BY <1>3, <1>5 DEF Hosts
  <2>2. QED
    BY <1>3, <2>1 DEF Unheard
<1>16. h # Server => Unheard(x)'
  <2>1. Here(Server)' = Here(Server) \/ h = Server
    BY <1>3 DEF Hosts
  <2>2. QED
    BY <1>3, <1>9, <1>13, <2>1 DEF Unheard, Hosts
<1>17. Unsent'
  <2>1. SUFFICES ASSUME NEW c \in Clients, NEW q \in Here(c)', IsLocal(q),
                        q.state = "created" \/ c \notin enetHost
                 PROVE  Unheard(q.name)'
    BY <1>3 DEF Unsent, IsLocal
  <2>2. c \in Hosts /\ c # Server
    BY GameNetAssumption DEF Hosts
  <2>3. CASE q \in Here(c)
    <3>1. Unheard(q.name) /\ q.name # x
      BY <1>7, <1>9, <2>1, <2>2, <2>3 DEF Named, Unsent
    <3>2. QED
      BY <1>15, <3>1
  <2>4. CASE c = h /\ q = o
    BY <1>3, <1>16, <2>2, <2>4
  <2>5. QED
    BY <1>5, <2>2, <2>3, <2>4
<1>18. Arriving'
  <2>1. SUFFICES ASSUME NEW c \in Clients
                 PROVE  Arrives(c)'
    BY DEF Arriving
  <2>2. c \in Hosts
    BY DEF Hosts
  <2>3. Arrives(c)
    BY <1>7 DEF Named, Arriving
  <2>4. \A m \in Range(net[<<c, Server>>]) : m.state = "created" =>
          /\ owner'[m.name] = c /\ Unheard(m.name)'
          /\ \A q \in Here(c)' : IsLocal(q) /\ q.name = m.name => q.state # "created"
    <3>1. SUFFICES ASSUME NEW m \in Range(net[<<c, Server>>]), m.state = "created"
                   PROVE  /\ owner'[m.name] = c /\ Unheard(m.name)'
                          /\ \A q \in Here(c)' : IsLocal(q) /\ q.name = m.name => q.state # "created"
      OBVIOUS
    <3>2. /\ owner[m.name] = c /\ Unheard(m.name)
          /\ \A q \in Here(c) : IsLocal(q) /\ q.name = m.name => q.state # "created"
      BY <2>3, <3>1 DEF Arrives
    <3>3. m.name \in Objects
      <4>1. <<c, Server>> \in Links
        BY GameNetAssumption DEF Links, Hosts
      <4>2. net[<<c, Server>>] \in Seq(GoodMsgs)
        BY <4>1 DEF Inv, NetTyped
      <4>3. Range(net[<<c, Server>>]) \subseteq GoodMsgs
        BY <4>2, RangeIs
      <4>4. QED
        BY <3>1, <4>3 DEF GoodMsgs
    <3>4. m.name # x
      BY <1>3, <1>7, <2>2, <3>2
    <3>5. QED
      BY <1>3, <1>4, <1>5, <1>15, <2>2, <3>2, <3>3, <3>4
  <2>5. Announced(net'[<<c, Server>>])
    BY <1>3, <2>3 DEF Arrives
  <2>6. QED
    BY <1>3, <2>4, <2>5 DEF Arrives
<1>19. Written'
  BY <1>3, <1>5, <1>7 DEF Named, Written, IsLocal
<1>20. QED
  BY <1>1, <1>6, <1>10, <1>11, <1>12, <1>14, <1>17, <1>18, <1>19 DEF Rest, Named

\* What HandleCreated does, unless the program ends.
Receives(h, p, msg, o, new) ==
  /\ o.name = msg.name /\ o.peer = p /\ o.state = "created" /\ o.data = msg.data
  /\ \A pair \in mapped[<<h, p>>] : pair[2] # msg.id
  /\ idMap[h][o.id] = None
  /\ Here(h)' = Here(h) \union {o}
  /\ \A k \in Hosts : k # h => Here(k)' = Here(k)
  /\ mapped' = [mapped EXCEPT ![<<h, p>>] = @ \union {<<o.id, msg.id>>}]
  /\ new.state = "created" /\ new.id = o.id /\ new.name = msg.name /\ new.data = msg.data
  /\ Handled(h, p, Others(h, p), <<new>>)

LEMMA CreatedDoes ==
  ASSUME Inv, Singles, NEW h \in Hosts, NEW p \in Hosts, HandleCreated(h, p)
  PROVE  \/ Still
         \/ /\ UNCHANGED <<wires, history>> /\ Singles'
            /\ \E o \in Copies, new \in GoodMsgs : Receives(h, p, Message(h, p), o, new)
<1>1. Comes(h, p, "created")
  BY DEF HandleCreated
<1>2. PICK msg \in GoodMsgs : msg = Message(h, p) /\ msg.state = "created"
  BY <1>1, Event
<1>3. msg.id \in Ids /\ msg.name \in Objects /\ msg.data \in Nat
  BY <1>2 DEF GoodMsgs, Messages
<1>4. CASE \/ LocalIds(h, p) # {} \/ FreeIds(h) = {} \/ Refused(h, Others(h, p))
           \/ \E pair \in mapped[<<h, p>>] : pair[1] = AllocId(h)
  BY <1>4 DEF HandleCreated, Fail, Refused, Still
<1>5. CASE ~(\/ LocalIds(h, p) # {} \/ FreeIds(h) = {} \/ Refused(h, Others(h, p))
             \/ \E pair \in mapped[<<h, p>>] : pair[1] = AllocId(h))
  <2>1. PICK i \in Ids : i = AllocId(h) /\ idMap[h][i] = None
    BY <1>5, AllocIdIs
  <2>2. /\ mapped' = [mapped EXCEPT ![<<h, p>>] = @ \union {<<i, msg.id>>}]
        /\ objects' = [objects EXCEPT ![h] = Append(@,
             [name |-> msg.name, id |-> i, state |-> "created", peer |-> p, data |-> msg.data])]
        /\ Handled(h, p, Others(h, p), <<[msg EXCEPT !.id = i]>>)
        /\ UNCHANGED <<wires, phase, history>>
    BY <1>2, <1>5, <2>1 DEF HandleCreated
  <2>3. PICK o : o = [name |-> msg.name, id |-> i, state |-> "created", peer |-> p,
                      data |-> msg.data]
    OBVIOUS
  <2>4. /\ o \in Copies /\ o.peer = p /\ o.state = "created" /\ o.id = i /\ o.name = msg.name
        /\ o.data = msg.data
    BY <1>3, <2>3 DEF Copies
  <2>5. objects' = [objects EXCEPT ![h] = Append(@, o)]
    BY <2>2, <2>3
  <2>6. /\ Here(h)' = Here(h) \union {o}
        /\ \A k \in Hosts : k # h => Here(k)' = Here(k)
        /\ Singles'
    BY <2>1, <2>4, <2>5, AppendStep
  <2>7. PICK new : new = [msg EXCEPT !.id = i]
    OBVIOUS
  <2>8. new \in GoodMsgs
    BY <1>3, <2>7, RenamedGood
  <2>9. new.state = "created" /\ new.id = i /\ new.name = msg.name /\ new.data = msg.data
    BY <1>2, <2>7 DEF GoodMsgs, Messages
  <2>10. \A pair \in mapped[<<h, p>>] : pair[2] # msg.id
    BY <1>2, <1>5 DEF LocalIds
  <2>11. Receives(h, p, msg, o, new)
    BY <2>1, <2>2, <2>4, <2>6, <2>7, <2>9, <2>10 DEF Receives
  <2>12. QED
    BY <1>2, <2>2, <2>4, <2>6, <2>8, <2>11
<1>6. QED
  BY <1>4, <1>5

\* What is said of the network when h takes the first message from p.
LEMMA Taken ==
  ASSUME Inv, Wired, NEW h \in Hosts, NEW p \in Hosts, NEW state, Comes(h, p, state),
         NEW ps, NEW msgs \in Seq(GoodMsgs), Handled(h, p, ps, msgs)
  PROVE  /\ <<p, h>> \in Links /\ <<h, p>> \in Links /\ p # h /\ net[<<p, h>>] # <<>>
         /\ net[<<p, h>>] \in Seq(GoodMsgs)
         /\ p \in Clients => p \in enetHost
         /\ h \in Clients => h \in enetHost
         /\ p = Server \/ (h = Server /\ p \in Clients)
         /\ net'[<<p, h>>] = Tail(net[<<p, h>>])
         /\ \A l \in Links : l # <<p, h>> =>
              net'[l] = IF l[1] = h /\ l[2] \in ps /\ l \in live THEN net[l] \o msgs ELSE net[l]
<1>1. <<p, h>> \in Links /\ <<h, p>> \in Links /\ p # h /\ net[<<p, h>>] # <<>>
  BY Event
<1>2. net[<<p, h>>] \in Seq(GoodMsgs)
  BY <1>1 DEF Inv, NetTyped
<1>3. p = Server \/ (h = Server /\ p \in Clients)
  BY <1>1 DEF Links, Hosts
<1>4. /\ p \in Clients => p \in enetHost
      /\ h \in Clients => h \in enetHost
  <2>1. h \in Clients => p = Server
    BY <1>1, GameNetAssumption DEF Links
  <2>2. p \in Clients => h = Server
    BY <1>3, GameNetAssumption
  <2>3. QED
    BY <1>1, <2>1, <2>2 DEF Wired, Unconnected
<1>5. \A l \in Links : net'[l] = IF l = <<p, h>> THEN Tail(net[l])
                   ELSE IF l[1] = h /\ l[2] \in ps /\ l \in live THEN net[l] \o msgs ELSE net[l]
  BY <1>1, HandledIs
<1>6. QED
  BY <1>1, <1>2, <1>3, <1>4, <1>5

\* The server has handled the first event of a client's: that client is no stranger any more.
LEMMA Heard ==
  ASSUME Inv, Wired, NEW p \in Clients, net[<<p, Server>>] # <<>>,
         net'[<<p, Server>>] = Tail(net[<<p, Server>>]), enetHost' = enetHost
  PROVE  ~NotYet(p)'
<1>1. <<p, Server>> \in Links
  BY GameNetAssumption DEF Links, Hosts
<1>2. net[<<p, Server>>] \in Seq(GoodMsgs) /\ Framed(net[<<p, Server>>])
  BY <1>1 DEF Inv, NetTyped, Wired, Frames, Framing
<1>3. \A m \in Range(Tail(net[<<p, Server>>])) : m.state # "connect"
  BY <1>2, FramedTail
<1>4. p \in enetHost
  BY DEF Wired, Unconnected
<1>5. QED
  BY <1>3, <1>4 DEF NotYet

\* Clients do not hand on what they learn: they have one peer.
LEMMA NoOthers ==
  ASSUME Wired, NEW h \in Hosts, h # Server, NEW p \in Hosts, <<p, h>> \in Links
  PROVE  Others(h, p) = {} /\ p = Server
<1>1. p = Server
  BY DEF Links
<1>2. \A q \in peers[h] : <<h, q>> \in Links
  BY DEF Wired, Star
<1>3. \A q \in peers[h] : q = Server
  BY <1>2 DEF Links
<1>4. QED
  BY <1>1, <1>3 DEF Others

\* The server is told of an object, or a client is.
LEMMA ReceivesRest ==
  ASSUME Inv, Inv', Rest, NEW h \in Hosts, NEW p \in Hosts, Comes(h, p, "created"),
         UNCHANGED <<wires, history>>, Singles', NEW o \in Copies, NEW new \in GoodMsgs,
         Receives(h, p, Message(h, p), o, new)
  PROVE  Rest'
<1>1. PICK msg \in GoodMsgs : /\ msg = Message(h, p) /\ msg.state = "created"
                              /\ msg = Head(net[<<p, h>>])
  BY Event DEF Message
<1>2. /\ o.name = msg.name /\ o.peer = p /\ o.state = "created"
      /\ Here(h)' = Here(h) \union {o}
      /\ \A k \in Hosts : k # h => Here(k)' = Here(k)
      /\ new.state = "created" /\ new.name = msg.name
      /\ Handled(h, p, Others(h, p), <<new>>)
  BY <1>1 DEF Receives
<1>3. /\ enetHost' = enetHost /\ peers' = peers /\ live' = live
      /\ owner' = owner /\ missed' = missed
  BY DEF wires, history
<1>4. PICK msgs \in Seq(GoodMsgs) : msgs = <<new>>
  <2>1. <<new>> \in Seq(GoodMsgs)
    OBVIOUS
  <2>2. QED
    BY <2>1
<1>5. Wired /\ Named
  BY DEF Rest
<1>6. /\ <<p, h>> \in Links /\ <<h, p>> \in Links /\ p # h /\ net[<<p, h>>] # <<>>
      /\ net[<<p, h>>] \in Seq(GoodMsgs)
      /\ p \in Clients => p \in enetHost
      /\ h \in Clients => h \in enetHost
      /\ p = Server \/ (h = Server /\ p \in Clients)
      /\ net'[<<p, h>>] = Tail(net[<<p, h>>])
      /\ \A l \in Links : l # <<p, h>> =>
           net'[l] = IF l[1] = h /\ l[2] \in Others(h, p) /\ l \in live THEN net[l] \o msgs ELSE net[l]
  BY <1>2, <1>4, <1>5, Taken
<1>7. ~IsLocal(o)
  BY <1>2, GameNetAssumption DEF IsLocal, Hosts
<1>8. \A l \in Links : Moves(l, {new.state})
  BY <1>2, <1>6, RelayMoves
<1>9. PICK S \in SUBSET Sorts : \A l \in Links : Moves(l, S)
  BY <1>2, <1>8 DEF Sorts, Telling
<1>10. Opens
  BY <1>3, <1>5 DEF Opens, Wired
<1>11. \A k \in Hosts : \A q \in Here(k)' : q \in Here(k) \/ (k = h /\ q = o)
  BY <1>2
<1>12. Server \in Hosts /\ \A c \in Clients : c \in Hosts /\ c # Server
  BY GameNetAssumption DEF Hosts
<1>13. Wired'
  <2>1. Symmetric' /\ Star'
    BY <1>3, <1>5 DEF Wired, Symmetric, Star
  <2>2. \A c \in Clients : c \notin enetHost' => \A q \in Here(c)' : IsLocal(q)
    BY <1>3, <1>5, <1>6, <1>11, <1>12 DEF Wired, Unconnected
  <2>3. \A c \in Clients : NotYet(c)' => NotYet(c)
    BY <1>5, <1>9, <1>10, NotYetKeeps
  <2>4. \A c \in Clients : NotYet(c)' /\ h = Server => p # c
    BY <1>3, <1>5, <1>6, Heard
  <2>5. \A c \in Clients : NotYet(c)' =>
          /\ c \notin peers'[Server]
          /\ \A q \in Here(Server)' : q.peer # c
          /\ \A x \in Objects : <<c, x>> \notin missed'
    BY <1>2, <1>3, <1>5, <1>11, <1>12, <2>3, <2>4 DEF Wired, Strangers
  <2>6. QED
    BY <1>5, <1>9, <1>10, <2>1, <2>2, <2>5, WiredStep
<1>14. h = Server => /\ p \in Clients /\ owner[msg.name] = p
                     /\ \A q \in Here(p) : IsLocal(q) /\ q.name = msg.name => q.state # "created"
                     /\ \A m \in Range(net'[<<p, Server>>]) : m.state = "created" => m.name # msg.name
                     /\ Announced(net'[<<p, Server>>])
                     /\ Range(net'[<<p, Server>>]) \subseteq Range(net[<<p, Server>>])
  <2>1. SUFFICES ASSUME h = Server
                 PROVE  /\ p \in Clients /\ owner[msg.name] = p
                        /\ \A q \in Here(p) : IsLocal(q) /\ q.name = msg.name => q.state # "created"
                        /\ \A m \in Range(net'[<<p, Server>>]) : m.state = "created" => m.name # msg.name
                        /\ Announced(net'[<<p, Server>>])
                        /\ Range(net'[<<p, Server>>]) \subseteq Range(net[<<p, Server>>])
    OBVIOUS
  <2>2. p \in Clients
    BY <1>6, <2>1
  <2>3. PICK s \in Seq(GoodMsgs) : s = net[<<p, Server>>] /\ s # <<>>
    BY <1>6, <2>1
  <2>4. Arrives(p)
    BY <1>5, <2>2 DEF Named, Arriving
  <2>5. msg = Head(s) /\ msg \in Range(s) /\ Range(Tail(s)) \subseteq Range(s)
    BY <1>1, <2>1, <2>3, TailIs
  <2>6. /\ Announced(Tail(s))
        /\ \A m \in Range(Tail(s)) :
             m.state = "created" /\ Head(s).state = "created" => m.name # Head(s).name
    BY <2>3, <2>4, AnnouncedTail DEF Arrives
  <2>7. net'[<<p, Server>>] = Tail(s)
    BY <1>6, <2>1, <2>3
  <2>8. /\ owner[msg.name] = p
        /\ \A q \in Here(p) : IsLocal(q) /\ q.name = msg.name => q.state # "created"
    BY <1>1, <2>3, <2>4, <2>5 DEF Arrives
  <2>9. QED
    BY <1>1, <2>2, <2>3, <2>5, <2>6, <2>7, <2>8
<1>15. \A x : Unheard(x) /\ (h = Server => x # msg.name) => Unheard(x)'
  BY <1>2, <1>3, <1>11, <1>12 DEF Unheard
<1>16. Owned'
  BY <1>2, <1>3, <1>5, <1>7, <1>11, <1>14 DEF Named, Owned, IsLocal
<1>17. Once'
  BY <1>5, <1>7, <1>11 DEF Named, Once, IsLocal
<1>18. MissedOwned' /\ Fresh' /\ Written'
  BY <1>3, <1>5, <1>7, <1>11 DEF Named, MissedOwned, Fresh, Written, IsLocal
<1>19. Unsent'
  <2>1. SUFFICES ASSUME NEW c \in Clients, NEW q \in Here(c)', IsLocal(q),
                        q.state = "created" \/ c \notin enetHost
                 PROVE  Unheard(q.name)'
    BY <1>3 DEF Unsent, IsLocal
  <2>2. q \in Here(c)
    BY <1>7, <1>11, <1>12, <2>1
  <2>3. Unheard(q.name) /\ owner[q.name] = c
    BY <1>5, <1>12, <2>1, <2>2 DEF Named, Unsent, Owned
  <2>4. h = Server => q.name # msg.name
    BY <1>6, <1>14, <2>1, <2>2, <2>3
  <2>5. QED
    BY <1>15, <2>3, <2>4
<1>20. Arriving'
  <2>1. SUFFICES ASSUME NEW c \in Clients
                 PROVE  Arrives(c)'
    BY DEF Arriving
  <2>2. Arrives(c) /\ <<c, Server>> \in Links /\ c # Server /\ c \in Hosts
    BY <1>5, <1>12 DEF Named, Arriving, Links
  <2>3. /\ Announced(net'[<<c, Server>>])
        /\ Range(net'[<<c, Server>>]) \subseteq Range(net[<<c, Server>>])
        /\ h = Server => \A m \in Range(net'[<<c, Server>>]) : m.state = "created" => m.name # msg.name
    <3>1. CASE h = Server /\ c = p
      BY <1>14, <3>1
    <3>2. CASE h = Server /\ c # p
      <4>1. PICK l \in Links : l = <<c, Server>>
        BY <2>2
      <4>2. l # <<p, h>> /\ l[1] # h
        BY <2>2, <3>2, <4>1
      <4>3. net'[l] = net[l]
        BY <1>6, <4>2
      <4>4. \A m \in Range(net[<<c, Server>>]) : m.state = "created" => m.name # msg.name
        BY <1>14, <2>2, <3>2 DEF Arrives
      <4>5. QED
        BY <2>2, <4>1, <4>3, <4>4 DEF Arrives
    <3>3. CASE h # Server
      <4>1. Others(h, p) = {} /\ p = Server
        BY <1>5, <1>6, <3>3, NoOthers
      <4>2. PICK l \in Links : l = <<c, Server>>
        BY <2>2
      <4>3. l # <<p, h>>
        BY <2>2, <4>1, <4>2
      <4>4. net'[l] = net[l]
        BY <1>6, <4>1, <4>3
      <4>5. QED
        BY <2>2, <3>3, <4>2, <4>4 DEF Arrives
    <3>4. QED
      BY <3>1, <3>2, <3>3
  <2>4. \A m \in Range(net'[<<c, Server>>]) : m.state = "created" =>
          /\ owner'[m.name] = c /\ Unheard(m.name)'
          /\ \A q \in Here(c)' : IsLocal(q) /\ q.name = m.name => q.state # "created"
    <3>1. \A m \in Range(net'[<<c, Server>>]) : m.state = "created" =>
            /\ owner[m.name] = c /\ Unheard(m.name)
            /\ \A q \in Here(c) : IsLocal(q) /\ q.name = m.name => q.state # "created"
      BY <2>2, <2>3 DEF Arrives
    <3>2. \A q \in Here(c)' : IsLocal(q) => q \in Here(c)
      BY <1>7, <1>11, <2>2
    <3>3. QED
      BY <1>3, <1>15, <2>3, <3>1, <3>2
  <2>5. QED
    BY <2>3, <2>4 DEF Arrives
<1>21. Apart'
  <2>1. SUFFICES ASSUME NEW q \in Here(Server)', NEW r \in Here(Server)',
                        ~Unmapped(q), ~Unmapped(r), q.name = r.name
                 PROVE  q = r
    BY DEF Apart, Unmapped, Open, IsLocal
  <2>2. CASE q \in Here(Server) /\ r \in Here(Server)
    BY <1>5, <2>1, <2>2 DEF Named, Apart
  <2>3. \A u \in Here(Server) : h = Server => u.name # msg.name
    <3>1. SUFFICES ASSUME h = Server
                   PROVE  \A u \in Here(Server) : u.name # msg.name
      OBVIOUS
    <3>2. Arrives(p)
      BY <1>5, <1>14, <3>1 DEF Named, Arriving
    <3>3. msg \in Range(net[<<p, Server>>])
      BY <1>1, <1>6, <3>1, TailIs
    <3>4. QED
      BY <1>1, <3>2, <3>3 DEF Arrives, Unheard
  <2>4. QED
    BY <1>2, <1>11, <1>12, <2>1, <2>2, <2>3
<1>22. QED
  BY <1>13, <1>16, <1>17, <1>18, <1>19, <1>20, <1>21 DEF Rest, Named

LEMMA HandleCreatedRest ==
  ASSUME Inv, Inv', Rest, NEW h \in Hosts, NEW p \in Hosts, HandleCreated(h, p)
  PROVE  Rest'
<1>1. Comes(h, p, "created")
  BY DEF HandleCreated
<1>2. QED
  BY <1>1, CreatedDoes, StillRest, ReceivesRest DEF Rest

\* What a host tells of its objects to a new peer.
AddsAll(h, msgs) ==
  /\ \A o \in Here(h) : o.state \in {"synced", "modified"} => \E m \in Range(msgs) : m.id = o.id
  /\ \A m \in Range(msgs) : m.state = "created" /\ \E o \in Here(h) :
       /\ o.state \in {"synced", "modified"}
       /\ m.id = o.id /\ m.name = o.name /\ m.data = o.data
  /\ \A i, j \in 1 .. Len(msgs) : msgs[i].id = msgs[j].id => i = j

\* What ConnectTo does.
Joins(c, msgs) ==
  /\ c \in Clients /\ c \notin enetHost
  /\ enetHost' = enetHost \union {c}
  /\ peers'[c] = {Server} /\ \A k \in Hosts : k # c => peers'[k] = peers[k]
  /\ \A l : l \in live' <=> l \in live \/ l = <<c, Server>> \/ l = <<Server, c>>
  /\ net'[<<c, Server>>] = <<Connect>> \o msgs
  /\ \A l \in Links : l # <<c, Server>> => net'[l] = net[l]
  /\ missed \subseteq missed'
  /\ \A k \in Hosts, x \in Objects : <<k, x>> \in missed' => <<k, x>> \in missed
       \/ (k = Server /\ \E o \in Here(c) : o.name = x /\ IsLocal(o) /\ o.state = "closed")
  /\ \A o \in Here(c) : IsLocal(o) /\ o.state = "closed" => <<Server, o.name>> \in missed'
  /\ objects' = objects /\ mapped' = mapped /\ owner' = owner

LEMMA ConnectToDoes ==
  ASSUME Inv, Singles, Unconnected, NEW c \in Hosts, ConnectTo(c)
  PROVE  \E msgs \in Seq(GoodMsgs) : Joins(c, msgs) /\ AddsAll(c, msgs)
<1>1. PICK msgs \in Seq(GoodMsgs) : msgs = CreatedMsgs(ToTell(c)) /\ AddsAll(c, msgs)
  BY CreatedMsgsAre DEF AddsAll
<1>2. /\ c \in Clients /\ c \notin enetHost
      /\ enetHost' = enetHost \union {c}
      /\ peers' = [peers EXCEPT ![c] = {Server}]
      /\ live' = live \union {<<c, Server>>, <<Server, c>>}
      /\ net' = [net EXCEPT ![<<c, Server>>] = <<Connect>> \o msgs]
      /\ missed' = missed \union Untold(c, Server)
      /\ objects' = objects /\ mapped' = mapped /\ owner' = owner
  BY <1>1 DEF ConnectTo, store
<1>3. <<c, Server>> \in Links /\ DOMAIN net = Links /\ DOMAIN peers = Hosts
  BY <1>2, GameNetAssumption DEF Links, Hosts, Inv, NetTyped, WiresTyped
<1>4. /\ net'[<<c, Server>>] = <<Connect>> \o msgs
      /\ \A l \in Links : l # <<c, Server>> => net'[l] = net[l]
  BY <1>2, <1>3
<1>5. peers'[c] = {Server} /\ \A k \in Hosts : k # c => peers'[k] = peers[k]
  BY <1>2, <1>3
<1>6. \A o \in Here(c) : IsLocal(o)
  BY <1>2 DEF Unconnected
<1>7. Untold(c, Server) = {<<Server, o.name>> : o \in {q \in Here(c) : q.state = "closed"}}
  BY <1>6 DEF Untold
<1>8. /\ missed \subseteq missed'
      /\ \A k \in Hosts, x \in Objects : <<k, x>> \in missed' => <<k, x>> \in missed
           \/ (k = Server /\ \E o \in Here(c) : o.name = x /\ IsLocal(o) /\ o.state = "closed")
      /\ \A o \in Here(c) : IsLocal(o) /\ o.state = "closed" => <<Server, o.name>> \in missed'
  BY <1>2, <1>6, <1>7
<1>9. Joins(c, msgs)
  BY <1>2, <1>4, <1>5, <1>8 DEF Joins
<1>10. QED
  BY <1>1, <1>9

\* The messages of AddPeer name each object once.
LEMMA AddsOnce ==
  ASSUME Named, NEW c \in Hosts, \A o \in Here(c) : IsLocal(o),
         NEW msgs \in Seq(GoodMsgs), AddsAll(c, msgs)
  PROVE  Announced(msgs)
<1>1. SUFFICES ASSUME NEW i \in 1 .. Len(msgs), NEW j \in 1 .. Len(msgs),
                      msgs[i].name = msgs[j].name
               PROVE  i = j
  BY DEF Announced
<1>2. \A k \in 1 .. Len(msgs) : msgs[k] \in Range(msgs)
  BY RangeIs
<1>3. PICK o \in Here(c) : msgs[i].name = o.name /\ msgs[i].id = o.id
  BY <1>2 DEF AddsAll
<1>4. PICK q \in Here(c) : msgs[j].name = q.name /\ msgs[j].id = q.id
  BY <1>2 DEF AddsAll
<1>5. o = q
  BY <1>1, <1>3, <1>4 DEF Named, Once
<1>6. \A a, b \in 1 .. Len(msgs) : msgs[a].id = msgs[b].id => a = b
  BY DEF AddsAll
<1>7. QED
  BY <1>3, <1>4, <1>5, <1>6

\* A connection begins with the event and the messages of AddPeer.
LEMMA OpeningIs ==
  ASSUME NEW msgs \in Seq(GoodMsgs), Announced(msgs)
  PROVE  /\ Announced(<<Connect>> \o msgs)
         /\ \A m \in Range(<<Connect>> \o msgs) : m = Connect \/ m \in Range(msgs)
         /\ Connect.state = "connect"
<1>1. Connect.state = "connect"
  BY DEF Connect, Msg
<1>2. PICK s \in Seq(GoodMsgs) : s = <<Connect>>
  <2>1. <<Connect>> \in Seq(GoodMsgs)
    BY DisconnectGood
  <2>2. QED
    BY <2>1
<1>3. \A m \in Range(s) : m = Connect
  <2>1. \A e \in Range(s) : \E i \in 1 .. Len(s) : s[i] = e
    BY RangeIs
  <2>2. Len(s) = 1 /\ s[1] = Connect
    BY <1>2
  <2>3. QED
    BY <2>1, <2>2
<1>4. Announced(s)
  BY <1>1, <1>3, AnnouncedNone
<1>5. Announced(s \o msgs) /\ Range(s \o msgs) = Range(s) \union Range(msgs)
  BY <1>1, <1>3, <1>4, AnnouncedConcat, ConcatIs
<1>6. QED
  BY <1>1, <1>2, <1>3, <1>5

LEMMA JoinsRest ==
  ASSUME Inv, Inv', Rest, NEW c \in Hosts, NEW msgs \in Seq(GoodMsgs), Joins(c, msgs), AddsAll(c, msgs)
  PROVE  Rest'
<1>1. /\ c \in Clients /\ c \notin enetHost
      /\ enetHost' = enetHost \union {c}
      /\ peers'[c] = {Server} /\ \A k \in Hosts : k # c => peers'[k] = peers[k]
      /\ \A l : l \in live' <=> l \in live \/ l = <<c, Server>> \/ l = <<Server, c>>
      /\ net'[<<c, Server>>] = <<Connect>> \o msgs
      /\ \A l \in Links : l # <<c, Server>> => net'[l] = net[l]
      /\ missed \subseteq missed'
      /\ \A k \in Hosts, x \in Objects : <<k, x>> \in missed' => <<k, x>> \in missed
           \/ (k = Server /\ \E o \in Here(c) : o.name = x /\ IsLocal(o) /\ o.state = "closed")
      /\ objects' = objects /\ owner' = owner
  BY DEF Joins
<1>2. Wired /\ Named /\ Singles
  BY DEF Rest
<1>3. \A k : Here(k)' = Here(k)
  BY <1>1, HereSame
<1>4. /\ Server \in Hosts /\ c # Server /\ \A k \in Clients : k \in Hosts /\ k # Server
      /\ <<c, Server>> \in Links
  BY <1>1, GameNetAssumption DEF Hosts, Links
<1>5. \A o \in Here(c) : IsLocal(o)
  BY <1>1, <1>2 DEF Wired, Unconnected
<1>6. Says(msgs, {"created"})
  BY DEF AddsAll, Says
<1>7. \A l \in Links : Moves(l, {"created"})
  <2>1. PICK k \in Links : k = <<c, Server>>
    BY <1>4
  <2>2. k[1] = c /\ k[2] = Server
    BY <2>1
  <2>3. Moves(k, {"created"})
    BY <1>1, <1>6, <2>1, <2>2 DEF Moves
  <2>4. QED
    BY <1>1, <2>1, <2>3 DEF Moves
<1>8. PICK S \in SUBSET Sorts : \A l \in Links : Moves(l, S)
  BY <1>7 DEF Sorts, Telling
<1>9. Opens
  <2>1. \A l \in live' : l \in live \/ l[1] \notin enetHost \/ l[2] \notin enetHost
    BY <1>1
  <2>2. QED
    BY <1>1, <2>1 DEF Opens
<1>10. Wired'
  <2>1. Symmetric'
    <3>1. Server \in enetHost /\ \A l \in live : <<l[2], l[1]>> \in live /\ l[1] \in enetHost /\ l[2] \in enetHost
      BY <1>2 DEF Wired, Symmetric
    <3>2. SUFFICES ASSUME NEW l \in live'
                   PROVE  <<l[2], l[1]>> \in live' /\ l[1] \in enetHost' /\ l[2] \in enetHost'
      BY <1>1, <3>1 DEF Symmetric
    <3>3. CASE l \in live
      BY <1>1, <3>1, <3>3
    <3>4. CASE l = <<c, Server>>
      <4>1. l[1] = c /\ l[2] = Server
        BY <3>4
      <4>2. QED
        BY <1>1, <3>1, <4>1
    <3>5. CASE l = <<Server, c>>
      <4>1. l[1] = Server /\ l[2] = c
        BY <3>5
      <4>2. QED
        BY <1>1, <3>1, <4>1
    <3>6. QED
      BY <1>1, <3>2, <3>3, <3>4, <3>5
  <2>2. Star'
    BY <1>1, <1>2, <1>4 DEF Wired, Star
  <2>3. \A k \in Clients : k \notin enetHost' => \A o \in Here(k)' : IsLocal(o)
    BY <1>1, <1>2, <1>3 DEF Wired, Unconnected
  <2>4. \A k \in Clients : NotYet(k)' => NotYet(k)
    BY <1>2, <1>8, <1>9, NotYetKeeps
  <2>5. \A k \in Clients : NotYet(k)' =>
          /\ k \notin peers'[Server]
          /\ \A o \in Here(Server)' : o.peer # k
          /\ \A x \in Objects : <<k, x>> \notin missed'
    BY <1>1, <1>2, <1>3, <1>4, <2>4 DEF Wired, Strangers
  <2>6. QED
    BY <1>2, <1>8, <1>9, <2>1, <2>2, <2>3, <2>5, WiredStep
<1>11. Owned' /\ Once' /\ Apart' /\ Written'
  BY <1>1, <1>2, <1>3 DEF Named, Owned, Once, Apart, Written, Unmapped, Open, IsLocal
<1>12. \A k \in Hosts : \A o \in Here(k) : o.name \in Objects
  BY RowOf
<1>13. MissedOwned'
  <2>1. \A o \in Here(c) : owner[o.name] = c
    BY <1>2, <1>5 DEF Named, Owned
  <2>2. c # None
    BY <1>1, GameNetAssumption
  <2>3. QED
    BY <1>1, <1>2, <2>1, <2>2 DEF Named, MissedOwned
<1>14. \A g \in Hosts : \A o \in Here(g) : IsLocal(o) /\ o.state # "closed" =>
         \A k \in Hosts : <<k, o.name>> \notin missed => <<k, o.name>> \notin missed'
  <2>1. SUFFICES ASSUME NEW g \in Hosts, NEW o \in Here(g), IsLocal(o), o.state # "closed",
                        NEW k \in Hosts, <<k, o.name>> \notin missed, <<k, o.name>> \in missed'
                 PROVE  FALSE
    OBVIOUS
  <2>2. PICK q \in Here(c) : q.name = o.name /\ IsLocal(q) /\ q.state = "closed"
    BY <1>1, <1>12, <2>1
  <2>3. g = c
    BY <1>2, <2>1, <2>2 DEF Named, Owned
  <2>4. q = o
    BY <1>2, <2>1, <2>2, <2>3 DEF Named, Once
  <2>5. QED
    BY <2>1, <2>2, <2>4
<1>15. Fresh'
  <2>1. SUFFICES ASSUME NEW g \in Hosts, NEW o \in Here(g), IsLocal(o), o.state = "created", NEW k \in Hosts
                 PROVE  <<k, o.name>> \notin missed'
    BY <1>3 DEF Fresh, IsLocal
  <2>2. <<k, o.name>> \notin missed
    BY <1>2, <2>1 DEF Named, Fresh
  <2>3. QED
    BY <1>14, <2>1, <2>2
<1>16. Unsent'
  <2>1. SUFFICES ASSUME NEW k \in Clients, NEW o \in Here(k), IsLocal(o),
                        o.state = "created" \/ k \notin enetHost'
                 PROVE  Unheard(o.name)'
    BY <1>3 DEF Unsent, IsLocal
  <2>2. Unheard(o.name)
    BY <1>1, <1>2, <2>1 DEF Named, Unsent
  <2>3. CASE o.state = "created"
    BY <1>3, <1>4, <1>14, <2>1, <2>2, <2>3 DEF Unheard
  <2>4. CASE k \notin enetHost'
    <3>1. k # c /\ owner[o.name] = k
      BY <1>1, <1>2, <1>4, <2>1, <2>4 DEF Named, Owned
    <3>2. \A q \in Here(c) : q.name # o.name
      BY <1>2, <1>5, <3>1 DEF Named, Owned
    <3>3. QED
      BY <1>1, <1>3, <1>4, <1>12, <2>2, <3>2 DEF Unheard
  <2>5. QED
    BY <2>1, <2>3, <2>4
<1>17. \A k \in Clients : k # c => Arrives(k)'
  <2>1. SUFFICES ASSUME NEW k \in Clients, k # c
                 PROVE  Arrives(k)'
    OBVIOUS
  <2>2. <<k, Server>> \in Links /\ <<k, Server>> # <<c, Server>>
    BY <1>4, <2>1 DEF Links
  <2>3. net'[<<k, Server>>] = net[<<k, Server>>] /\ Arrives(k)
    BY <1>1, <1>2, <2>2 DEF Named, Arriving
  <2>4. \A m \in Range(net[<<k, Server>>]) : m.name \in Objects \/ m.state # "created"
    <3>1. net[<<k, Server>>] \in Seq(GoodMsgs)
      BY <2>2 DEF Inv, NetTyped
    <3>2. Range(net[<<k, Server>>]) \subseteq GoodMsgs
      BY <3>1, RangeIs
    <3>3. QED
      BY <3>2 DEF GoodMsgs
  <2>5. \A x \in Objects : owner[x] = k => \A q \in Here(c) : q.name # x
    BY <1>2, <1>5, <2>1 DEF Named, Owned
  <2>6. \A x \in Objects : owner[x] = k /\ Unheard(x) => Unheard(x)'
    BY <1>1, <1>3, <2>5 DEF Unheard
  <2>7. \A m \in Range(net[<<k, Server>>]) : m.state = "created" =>
          /\ owner'[m.name] = k /\ Unheard(m.name)'
          /\ \A o \in Here(k)' : IsLocal(o) /\ o.name = m.name => o.state # "created"
    BY <1>1, <1>3, <2>3, <2>4, <2>6 DEF Arrives
  <2>8. QED
    BY <2>3, <2>7 DEF Arrives
<1>18. Arrives(c)'
  <2>1. /\ Announced(<<Connect>> \o msgs)
        /\ \A m \in Range(<<Connect>> \o msgs) : m = Connect \/ m \in Range(msgs)
        /\ Connect.state = "connect"
    BY <1>2, <1>5, AddsOnce, OpeningIs
  <2>2. \A m \in Range(msgs) :
          /\ owner'[m.name] = c /\ Unheard(m.name)'
          /\ \A o \in Here(c)' : IsLocal(o) /\ o.name = m.name => o.state # "created"
    <3>1. SUFFICES ASSUME NEW m \in Range(msgs)
                   PROVE  /\ owner'[m.name] = c /\ Unheard(m.name)'
                          /\ \A o \in Here(c)' : IsLocal(o) /\ o.name = m.name => o.state # "created"
      OBVIOUS
    <3>2. PICK q \in Here(c) : q.state \in {"synced", "modified"} /\ q.name = m.name
      BY DEF AddsAll
    <3>3. owner[m.name] = c /\ Unheard(m.name)
      BY <1>1, <1>2, <1>5, <3>2 DEF Named, Owned, Unsent
    <3>4. \A o \in Here(c) : o.name = m.name => o = q
      BY <1>2, <1>5, <3>2 DEF Named, Once
    <3>5. Unheard(m.name)'
      <4>1. \A k \in Hosts : <<k, q.name>> \notin missed'
        BY <1>5, <1>14, <3>2, <3>3 DEF Unheard
      <4>2. QED
        BY <1>3, <3>2, <3>3, <4>1 DEF Unheard
    <3>6. QED
      BY <1>1, <1>3, <3>2, <3>3, <3>4, <3>5
  <2>3. \A m \in Range(net'[<<c, Server>>]) : m.state = "created" =>
          /\ owner'[m.name] = c /\ Unheard(m.name)'
          /\ \A o \in Here(c)' : IsLocal(o) /\ o.name = m.name => o.state # "created"
    BY <1>1, <2>1, <2>2
  <2>4. Announced(net'[<<c, Server>>])
    BY <1>1, <2>1
  <2>5. QED
    BY <2>3, <2>4 DEF Arrives
<1>19. Arriving'
  BY <1>17, <1>18 DEF Arriving
<1>20. Singles'
  BY <1>1, <1>2, SuccsSame
<1>21. QED
  BY <1>10, <1>11, <1>13, <1>15, <1>16, <1>19, <1>20 DEF Rest, Named

LEMMA ConnectToRest ==
  ASSUME Inv, Inv', Rest, NEW c \in Hosts, ConnectTo(c)
  PROVE  Rest'
BY ConnectToDoes, JoinsRest DEF Rest, Wired

\* What HandleConnect does, unless ENet refuses to send.
Admits(h, p, msgs) ==
  /\ peers'[h] = peers[h] \union {p} /\ \A k \in Hosts : k # h => peers'[k] = peers[k]
  /\ enetHost' = enetHost /\ live' = live
  /\ Handled(h, p, {p}, msgs)
  /\ missed \subseteq missed'
  /\ \A k \in Hosts, x \in Objects : <<k, x>> \in missed' => <<k, x>> \in missed
       \/ (k = p /\ \E o \in Here(h) : o.name = x /\ (IF IsLocal(o) THEN o.state = "closed"
                                                                   ELSE o.state = "created"))
  /\ \A o \in Here(h) : (IF IsLocal(o) THEN o.state = "closed" ELSE o.state = "created")
                          => <<p, o.name>> \in missed'
  /\ objects' = objects /\ idMap' = idMap /\ mapped' = mapped /\ owner' = owner

LEMMA ConnectDoes ==
  ASSUME Inv, Singles, NEW h \in Hosts, NEW p \in Hosts, HandleConnect(h, p)
  PROVE  \/ Still
         \/ \E msgs \in Seq(GoodMsgs) : Admits(h, p, msgs) /\ AddsAll(h, msgs)
<1>1. PICK msgs \in Seq(GoodMsgs) : msgs = CreatedMsgs(ToTell(h)) /\ AddsAll(h, msgs)
  BY CreatedMsgsAre DEF AddsAll
<1>2. CASE Refused(h, {p})
  BY <1>2 DEF Fail, Refused, Still
<1>3. CASE ~Refused(h, {p})
  <2>1. /\ peers' = [peers EXCEPT ![h] = @ \union {p}]
        /\ Handled(h, p, {p}, msgs)
        /\ missed' = missed \union Untold(h, p)
        /\ UNCHANGED <<enetHost, live, store, phase, owner, asked, heard>>
    BY <1>1, <1>3 DEF HandleConnect
  <2>2. peers'[h] = peers[h] \union {p} /\ \A k \in Hosts : k # h => peers'[k] = peers[k]
    BY <2>1 DEF Inv, WiresTyped
  <2>3. \A k \in Hosts, x \in Objects : <<k, x>> \in Untold(h, p) =>
          k = p /\ \E o \in Here(h) : o.name = x /\ (IF IsLocal(o) THEN o.state = "closed"
                                                                  ELSE o.state = "created")
    BY DEF Untold
  <2>4. \A o \in Here(h) : (IF IsLocal(o) THEN o.state = "closed" ELSE o.state = "created")
                             => <<p, o.name>> \in Untold(h, p)
    BY DEF Untold
  <2>5. Admits(h, p, msgs)
    BY <2>1, <2>2, <2>3, <2>4 DEF Admits, store
  <2>6. QED
    BY <1>1, <2>5
<1>4. QED
  BY <1>2, <1>3

\* A client is no longer a stranger to the server.
LEMMA AdmitsRest ==
  ASSUME Inv, Inv', Rest, NEW h \in Hosts, NEW p \in Hosts, Comes(h, p, "connect"),
         NEW msgs \in Seq(GoodMsgs), Admits(h, p, msgs), AddsAll(h, msgs)
  PROVE  Rest'
<1>1. /\ peers'[h] = peers[h] \union {p} /\ \A k \in Hosts : k # h => peers'[k] = peers[k]
      /\ enetHost' = enetHost /\ live' = live
      /\ Handled(h, p, {p}, msgs)
      /\ missed \subseteq missed'
      /\ \A k \in Hosts, x \in Objects : <<k, x>> \in missed' => <<k, x>> \in missed
           \/ (k = p /\ \E o \in Here(h) : o.name = x /\ (IF IsLocal(o) THEN o.state = "closed"
                                                                       ELSE o.state = "created"))
      /\ objects' = objects /\ owner' = owner
  BY DEF Admits
<1>2. Wired /\ Named /\ Singles
  BY DEF Rest
<1>3. \A k : Here(k)' = Here(k)
  BY <1>1, HereSame
<1>4. /\ <<p, h>> \in Links /\ <<h, p>> \in Links /\ p # h /\ net[<<p, h>>] # <<>>
      /\ net[<<p, h>>] \in Seq(GoodMsgs)
      /\ p \in Clients => p \in enetHost
      /\ h \in Clients => h \in enetHost
      /\ p = Server \/ (h = Server /\ p \in Clients)
      /\ net'[<<p, h>>] = Tail(net[<<p, h>>])
      /\ \A l \in Links : l # <<p, h>> =>
           net'[l] = IF l[1] = h /\ l[2] \in {p} /\ l \in live THEN net[l] \o msgs ELSE net[l]
  BY <1>1, <1>2, Taken
<1>5. h = Server /\ p \in Clients /\ p \in enetHost
  <2>1. Head(net[<<p, h>>]) \in Range(net[<<p, h>>])
    BY <1>4, TailIs
  <2>2. Head(net[<<p, h>>]).state = "connect"
    BY DEF Comes
  <2>3. Framing(<<p, h>>)
    BY <1>2, <1>4 DEF Wired, Frames
  <2>4. <<p, h>>[2] = h
    OBVIOUS
  <2>5. h = Server
    BY <2>1, <2>2, <2>3, <2>4 DEF Framing
  <2>6. QED
    BY <1>4, <2>5
<1>6. Server \in Hosts /\ \A c \in Clients : c \in Hosts /\ c # Server
  BY GameNetAssumption DEF Hosts
<1>7. Says(msgs, {"created"})
  BY DEF AddsAll, Says
<1>8. \A l \in Links : Moves(l, {"created"})
  BY <1>1, <1>4, <1>7, HandledMoves
<1>9. PICK S \in SUBSET Sorts : \A l \in Links : Moves(l, S)
  BY <1>8 DEF Sorts, Telling
<1>10. Opens
  BY <1>1 DEF Opens
<1>11. Wired'
  <2>1. Symmetric'
    BY <1>1, <1>2 DEF Wired, Symmetric
  <2>2. Star'
    BY <1>1, <1>2, <1>4 DEF Wired, Star
  <2>3. \A c \in Clients : c \notin enetHost' => \A o \in Here(c)' : IsLocal(o)
    BY <1>1, <1>2, <1>3 DEF Wired, Unconnected
  <2>4. \A c \in Clients : NotYet(c)' => NotYet(c)
    BY <1>2, <1>9, <1>10, NotYetKeeps
  <2>5. ~NotYet(p)'
    BY <1>1, <1>2, <1>4, <1>5, Heard
  <2>6. \A c \in Clients : NotYet(c)' =>
          /\ c \notin peers'[Server]
          /\ \A q \in Here(Server)' : q.peer # c
          /\ \A x \in Objects : <<c, x>> \notin missed'
    BY <1>1, <1>2, <1>3, <1>5, <1>6, <2>4, <2>5 DEF Wired, Strangers
  <2>7. QED
    BY <1>2, <1>9, <1>10, <2>1, <2>2, <2>3, <2>6, WiredStep
<1>12. Owned' /\ Once' /\ Apart' /\ Written'
  BY <1>1, <1>2, <1>3 DEF Named, Owned, Once, Apart, Written, Unmapped, Open, IsLocal
<1>13. \A k \in Hosts : \A o \in Here(k) : o.name \in Objects
  BY RowOf
<1>14. \A q \in Here(Server) : IsLocal(q) \/ q.peer \in Clients
  <2>1. \A q \in Here(Server) : IsLocal(q) \/ <<Server, q.peer>> \in Links
    BY <1>6, RowOf
  <2>2. \A q : <<Server, q>> \in Links => q \in Clients
    BY DEF Links, Hosts
  <2>3. QED
    BY <2>1, <2>2
<1>15. \A x \in Objects : Unheard(x) => Unheard(x)'
  BY <1>1, <1>3, <1>5 DEF Unheard
<1>16. MissedOwned'
  <2>1. \A q \in Here(Server) : owner[q.name] # None
    BY <1>2, <1>6, <1>14, GameNetAssumption DEF Named, Owned
  <2>2. QED
    BY <1>1, <1>2, <1>5, <2>1 DEF Named, MissedOwned
<1>17. Fresh'
  <2>1. SUFFICES ASSUME NEW g \in Hosts, NEW o \in Here(g), IsLocal(o), o.state = "created",
                        NEW k \in Hosts, <<k, o.name>> \in missed'
                 PROVE  FALSE
    BY <1>3 DEF Fresh, IsLocal
  <2>2. <<k, o.name>> \notin missed
    BY <1>2, <2>1 DEF Named, Fresh
  <2>3. PICK q \in Here(Server) : q.name = o.name /\ (IF IsLocal(q) THEN q.state = "closed"
                                                                   ELSE q.state = "created")
    BY <1>1, <1>5, <1>13, <2>1, <2>2
  <2>4. owner[o.name] = g
    BY <1>2, <2>1 DEF Named, Owned
  <2>5. CASE g \in Clients
    <3>1. Unheard(o.name)
      BY <1>2, <2>1, <2>5 DEF Named, Unsent
    <3>2. QED
      BY <2>3, <3>1 DEF Unheard
  <2>6. CASE g = Server
    <3>1. IsLocal(q)
      BY <1>2, <1>6, <1>14, <2>3, <2>4, <2>6 DEF Named, Owned
    <3>2. q = o
      BY <1>2, <1>6, <2>1, <2>3, <2>6, <3>1 DEF Named, Once
    <3>3. QED
      BY <2>1, <2>3, <3>1, <3>2
  <2>7. QED
    BY <2>1, <2>5, <2>6 DEF Hosts
<1>18. Unsent'
  BY <1>1, <1>2, <1>3, <1>6, <1>13, <1>15 DEF Named, Unsent, IsLocal
<1>19. Arriving'
  <2>1. SUFFICES ASSUME NEW c \in Clients
                 PROVE  Arrives(c)'
    BY DEF Arriving
  <2>2. Arrives(c) /\ <<c, Server>> \in Links /\ c # Server /\ c \in Hosts
    BY <1>2, <1>6 DEF Named, Arriving, Links
  <2>3. /\ Announced(net'[<<c, Server>>])
        /\ Range(net'[<<c, Server>>]) \subseteq Range(net[<<c, Server>>])
    <3>1. CASE c = p
      <4>1. PICK s \in Seq(GoodMsgs) : s = net[<<p, Server>>] /\ s # <<>>
        BY <1>4, <1>5
      <4>2. Announced(Tail(s)) /\ Range(Tail(s)) \subseteq Range(s)
        BY <2>2, <3>1, <4>1, AnnouncedTail, TailIs DEF Arrives
      <4>3. QED
        BY <1>4, <1>5, <3>1, <4>1, <4>2
    <3>2. CASE c # p
      <4>1. PICK l \in Links : l = <<c, Server>>
        BY <2>2
      <4>2. l # <<p, h>> /\ l[1] # h
        BY <1>5, <2>2, <3>2, <4>1
      <4>3. net'[l] = net[l]
        BY <1>4, <4>2
      <4>4. QED
        BY <2>2, <4>1, <4>3 DEF Arrives
    <3>3. QED
      BY <3>1, <3>2
  <2>4. \A m \in Range(net[<<c, Server>>]) : m.name \in Objects \/ m.state # "created"
    <3>1. net[<<c, Server>>] \in Seq(GoodMsgs)
      BY <2>2 DEF Inv, NetTyped
    <3>2. Range(net[<<c, Server>>]) \subseteq GoodMsgs
      BY <3>1, RangeIs
    <3>3. QED
      BY <3>2 DEF GoodMsgs
  <2>5. \A m \in Range(net'[<<c, Server>>]) : m.state = "created" =>
          /\ owner'[m.name] = c /\ Unheard(m.name)'
          /\ \A q \in Here(c)' : IsLocal(q) /\ q.name = m.name => q.state # "created"
    <3>1. \A m \in Range(net'[<<c, Server>>]) : m.state = "created" =>
            /\ owner[m.name] = c /\ Unheard(m.name) /\ m.name \in Objects
            /\ \A q \in Here(c) : IsLocal(q) /\ q.name = m.name => q.state # "created"
      BY <2>2, <2>3, <2>4 DEF Arrives
    <3>2. QED
      BY <1>1, <1>3, <1>15, <3>1
  <2>6. QED
    BY <2>3, <2>5 DEF Arrives
<1>20. Singles'
  BY <1>1, <1>2, SuccsSame
<1>21. QED
  BY <1>11, <1>12, <1>16, <1>17, <1>18, <1>19, <1>20 DEF Rest, Named

LEMMA HandleConnectRest ==
  ASSUME Inv, Inv', Rest, NEW h \in Hosts, NEW p \in Hosts, HandleConnect(h, p)
  PROVE  Rest'
<1>1. Comes(h, p, "connect")
  BY DEF HandleConnect
<1>2. QED
  BY <1>1, ConnectDoes, StillRest, AdmitsRest DEF Rest

\* The parts of Rest hold in every state.
LEMMA RestInit ==
  Init => Rest
<1> SUFFICES ASSUME Init PROVE Rest
  OBVIOUS
<1>1. \A h \in Hosts : objects[h] = <<>>
  BY DEF Init
<1>2. \A h \in Hosts : Here(h) = {}
  BY <1>1, RangeIs DEF Here, Range
<1>3. Server \in Hosts /\ \A c \in Clients : c \in Hosts /\ c # Server
  BY GameNetAssumption DEF Hosts
<1>4. \A l \in Links : net[l] = <<>> /\ Range(net[l]) = {}
  BY DEF Init, Range
<1>5. \A c \in Clients : <<c, Server>> \in Links /\ <<Server, c>> \in Links
  BY <1>3 DEF Links
<1>6. Singles
  BY <1>1 DEF Singles, Single
<1>7. Symmetric /\ Star /\ Frames
  BY <1>4 DEF Init, Symmetric, Star, Frames, Framing, Framed
<1>8. Unconnected /\ Strangers
  BY <1>2, <1>3, <1>4, <1>5 DEF Init, Unconnected, Strangers
<1>9. Owned /\ Once /\ Apart /\ MissedOwned /\ Fresh /\ Unsent /\ Written
  BY <1>2, <1>3 DEF Init, Owned, Once, Apart, MissedOwned, Fresh, Unsent, Written
<1>10. Arriving
  <2>1. \A c \in Clients : net[<<c, Server>>] = <<>> /\ Range(net[<<c, Server>>]) = {}
    BY <1>4, <1>5
  <2>2. QED
    BY <2>1 DEF Arriving, Arrives, Announced
<1>11. QED
  BY <1>6, <1>7, <1>8, <1>9, <1>10 DEF Rest, Wired, Named

LEMMA RestStep ==
  Inv /\ Inv' /\ Rest /\ [Next]_vars => Rest'
<1> SUFFICES ASSUME Inv, Inv', Rest, [Next]_vars PROVE Rest'
  OBVIOUS
<1>1. CASE UNCHANGED vars
  BY <1>1, StillRest DEF vars, Still
<1>2. ASSUME NEW h \in Hosts, Program(h) PROVE Rest'
  BY <1>2, CreateRest, WriteRest, CloseRest, MessageRest, ConnectToRest, CloseHostRest DEF Program
<1>3. ASSUME NEW h \in Hosts, Handle(h) PROVE Rest'
  BY <1>3, HandleConnectRest, HandleDisconnectRest, HandleMessageRest, HandleCreatedRest,
     HandleModifiedRest, HandleClosedRest DEF Handle
<1>4. QED
  BY <1>1, <1>2, <1>3, SyncRest, LoseConnectionRest DEF Next

-----------------------------------------------------------------------------
(***************************************************************************)
(* What the operations do to the links.                                    *)
(***************************************************************************)
\* Who is no peer has been told nothing.
LEMMA TellsNobody ==
  ASSUME NEW here, NEW ps, NEW gone, NEW h, h \notin ps, NEW r, NEW e
  PROVE  Tells(here, ps, gone, h, r, e) <=> e = Nothing
BY DEF Tells, Shown

\* What is told by the id of an object is about that object.
LEMMA TellsIs ==
  ASSUME Inv, NEW p \in Hosts, NEW o \in Here(p), ~Unmapped(o), NEW ps, NEW gone, NEW h, NEW e,
         Tells(Here(p), ps, gone, h, o.id, e)
  PROVE  /\ Shown(o, h, ps, gone) => e # Nothing /\ Agrees(e, o)
         /\ ~Shown(o, h, ps, gone) => e = Nothing
<1>1. \A q \in Here(p) : ~Unmapped(q) /\ q.id = o.id => q = o
  BY RowOf
<1>2. \A q \in Here(p) : q.id = o.id /\ Shown(q, h, ps, gone) => q = o
  BY <1>1 DEF Shown
<1>3. QED
  BY <1>2 DEF Tells

\* Nothing is told by an id that no object has.
LEMMA TellsNone ==
  ASSUME NEW here, NEW r, \A o \in here : ~Unmapped(o) => o.id # r, NEW ps, NEW gone, NEW h, NEW e
  PROVE  Tells(here, ps, gone, h, r, e) <=> e = Nothing
BY DEF Tells, Shown

\* What is known of an object.
LEMMA FactOf ==
  ASSUME NEW x \in Objects, NEW d \in Nat
  PROVE  /\ [name |-> x, data |-> d] \in Facts /\ [name |-> x, data |-> d] # Nothing
         /\ [name |-> x, data |-> d].name = x /\ [name |-> x, data |-> d].data = d
<1>1. PICK e : e = [name |-> x, data |-> d]
  OBVIOUS
<1>2. e \in Facts /\ e.name = x /\ e.data = d
  BY <1>1 DEF Facts
<1>3. e # Nothing
  BY <1>2, GameNetAssumption DEF Nothing
<1>4. QED
  BY <1>1, <1>2, <1>3

\* On a link nothing is sent or taken.
LEMMA FlowStays ==
  ASSUME NEW p \in Hosts, NEW h \in Hosts, <<p, h>> \in Links, NEW r \in Ids, Flow(p, h, r),
         Remains(Here(h), Here(h)', p), mapped'[<<h, p>>] = mapped[<<h, p>>], missed' = missed,
         net'[<<p, h>>] = net[<<p, h>>], <<p, h>> \in live' => <<p, h>> \in live,
         \A e \in Facts : Tells(Here(p), peers[p], MissedBy(h), h, r, e) =>
                          Tells(Here(p)', peers'[p], MissedBy(h), h, r, e)
  PROVE  Flow(p, h, r)'
<1>1. PICK k \in Facts, e \in Facts :
        /\ Knows(Here(h), mapped[<<h, p>>], p, r, k)
        /\ Stream(r, MissedBy(h), k, net[<<p, h>>], e)
        /\ <<p, h>> \in live => Tells(Here(p), peers[p], MissedBy(h), h, r, e)
  BY DEF Flow
<1>2. MissedBy(h)' = MissedBy(h)
  BY DEF MissedBy
<1>3. Knows(Here(h)', mapped'[<<h, p>>], p, r, k)
  BY <1>1, KnowsRemains
<1>4. Stream(r, MissedBy(h)', k, net'[<<p, h>>], e)
  BY <1>1, <1>2
<1>5. <<p, h>> \in live' => Tells(Here(p)', peers'[p], MissedBy(h)', h, r, e)
  BY <1>1, <1>2
<1>6. QED
  BY <1>3, <1>4, <1>5 DEF Flow

\* A host tells its peers.
LEMMA FlowSpread ==
  ASSUME Inv, NEW p \in Hosts, NEW h \in Hosts, <<p, h>> \in Links, NEW r \in Ids, Flow(p, h, r),
         Here(h)' = Here(h), mapped'[<<h, p>>] = mapped[<<h, p>>], missed' = missed, live' = live,
         h \in peers'[p] <=> h \in peers[p],
         NEW msgs \in Seq(GoodMsgs),
         net'[<<p, h>>] = IF h \in peers[p] /\ <<p, h>> \in live THEN net[<<p, h>>] \o msgs
                          ELSE net[<<p, h>>],
         h \in peers[p] => \A e \in Facts : Tells(Here(p), peers[p], MissedBy(h), h, r, e) =>
           \E i \in Facts : /\ Stream(r, MissedBy(h), e, msgs, i)
                            /\ Tells(Here(p)', peers'[p], MissedBy(h), h, r, i)
  PROVE  Flow(p, h, r)'
<1>1. PICK k \in Facts, e \in Facts :
        /\ Knows(Here(h), mapped[<<h, p>>], p, r, k)
        /\ Stream(r, MissedBy(h), k, net[<<p, h>>], e)
        /\ <<p, h>> \in live => Tells(Here(p), peers[p], MissedBy(h), h, r, e)
  BY DEF Flow
<1>2. MissedBy(h)' = MissedBy(h)
  BY DEF MissedBy
<1>3. Knows(Here(h)', mapped'[<<h, p>>], p, r, k)
  BY <1>1
<1>4. CASE <<p, h>> \notin live
  <2>1. Stream(r, MissedBy(h)', k, net'[<<p, h>>], e) /\ <<p, h>> \notin live'
    BY <1>1, <1>2, <1>4
  <2>2. QED
    BY <1>1, <1>3, <2>1 DEF Flow
<1>5. CASE <<p, h>> \in live /\ h \notin peers[p]
  <2>1. Stream(r, MissedBy(h)', k, net'[<<p, h>>], e)
    BY <1>1, <1>2, <1>5
  <2>2. e = Nothing
    BY <1>1, <1>5, TellsNobody
  <2>3. Tells(Here(p)', peers'[p], MissedBy(h)', h, r, e)
    BY <1>5, <2>2, TellsNobody
  <2>4. QED
    BY <1>1, <1>3, <2>1, <2>3 DEF Flow
<1>6. CASE <<p, h>> \in live /\ h \in peers[p]
  <2>1. PICK i \in Facts : /\ Stream(r, MissedBy(h), e, msgs, i)
                           /\ Tells(Here(p)', peers'[p], MissedBy(h), h, r, i)
    BY <1>1, <1>6
  <2>2. net[<<p, h>>] \in Seq(GoodMsgs)
    BY DEF Inv, NetTyped
  <2>3. Stream(r, MissedBy(h), k, net[<<p, h>>] \o msgs, i)
    BY <1>1, <2>1, <2>2, StreamConcat
  <2>4. Stream(r, MissedBy(h)', k, net'[<<p, h>>], i)
    BY <1>2, <1>6, <2>3
  <2>5. QED
    BY <1>2, <1>1, <1>3, <2>1, <2>4 DEF Flow
<1>7. QED
  BY <1>4, <1>5, <1>6

LEMMA StillFlow ==
  ASSUME Still, Flows
  PROVE  Flows'
<1>1. /\ mapped' = mapped /\ missed' = missed /\ net' = net /\ live' = live /\ peers' = peers
      /\ objects' = objects
  BY DEF Still, wires, store, history
<1>2. \A k : Here(k)' = Here(k)
  BY <1>1, HereSame
<1>3. \A h : MissedBy(h)' = MissedBy(h)
  BY <1>1 DEF MissedBy
<1>4. QED
  BY <1>1, <1>2, <1>3 DEF Flows, Flow

\* What is known of the objects of a peer stays if they stay.
LEMMA RemainsStay ==
  ASSUME NEW here, NEW after, NEW p, \A o \in here : o.peer = p /\ Open(o) => o \in after
  PROVE  Remains(here, after, p)
BY DEF Remains

\* A host changes an object of its own, and does not send anything yet.
LEMMA ChangeFlow ==
  ASSUME Inv, Flows, NEW h \in Hosts, NEW o \in Here(h), NEW n,
         IsLocal(o), n.id = o.id, n.name = o.name, n.peer = o.peer,
         o.state \in {"created", "modified", "synced"},
         o.state = "created" => n.state \in {"created", "zombie"},
         o.state # "created" => n.state \in {"modified", "closed"},
         Here(h)' = (Here(h) \ {o}) \union {n},
         \A k \in Hosts : k # h => Here(k)' = Here(k),
         UNCHANGED <<wires, net, mapped, missed>>
  PROVE  Flows'
<1>1. SUFFICES ASSUME NEW p \in Hosts, NEW g \in Hosts, <<p, g>> \in Links, NEW r \in Ids
               PROVE  Flow(p, g, r)'
  BY DEF Flows
<1>2. /\ net' = net /\ mapped' = mapped /\ missed' = missed /\ live' = live /\ peers' = peers
  BY DEF wires
<1>3. Flow(p, g, r)
  BY <1>1 DEF Flows
<1>4. p # None
  BY GameNetAssumption DEF Hosts
<1>5. Remains(Here(g), Here(g)', p)
  <2>1. \A q \in Here(g) : q.peer = p => q \in Here(g)'
    BY <1>4 DEF IsLocal
  <2>2. QED
    BY <2>1, RemainsStay
<1>6. ASSUME NEW e \in Facts, Tells(Here(p), peers[p], MissedBy(g), g, r, e)
      PROVE  Tells(Here(p)', peers'[p], MissedBy(g), g, r, e)
  <2>1. CASE p # h
    BY <1>2, <1>6, <2>1
  <2>2. CASE p = h /\ r # o.id
    <3>1. \A q : q.id = r => (q \in Here(p)' <=> q \in Here(p))
      BY <2>2
    <3>2. QED
      BY <1>2, <1>6, <3>1, TellsElsewhere
  <2>3. CASE p = h /\ r = o.id
    <3>1. Shown(o, g, peers[p], MissedBy(g)) <=> Shown(n, g, peers[p], MissedBy(g))
      BY DEF Shown, IsLocal, Unmapped
    <3>2. Shown(o, g, peers[p], MissedBy(g)) => n.state \in {"modified", "closed"}
      BY DEF Shown
    <3>3. Shown(o, g, peers[p], MissedBy(g)) /\ Agrees(e, o) => Agrees(e, n)
      BY <3>2 DEF Agrees, IsLocal
    <3>4. \A q \in Here(p) : q.id = r /\ Shown(q, g, peers[p], MissedBy(g)) =>
            \E u \in Here(p)' : /\ u.id = r /\ Shown(u, g, peers'[p], MissedBy(g))
                                /\ Agrees(e, q) => Agrees(e, u)
      BY <1>2, <2>3, <3>1, <3>3
    <3>5. \A q \in Here(p)' : q.id = r /\ Shown(q, g, peers'[p], MissedBy(g)) =>
            \E u \in Here(p) : u.id = r /\ Shown(u, g, peers[p], MissedBy(g))
      BY <1>2, <2>3, <3>1
    <3>6. QED
      BY <1>6, <3>4, <3>5, TellsRemains
  <2>4. QED
    BY <2>1, <2>2, <2>3
<1>7. QED
  BY <1>1, <1>2, <1>3, <1>5, <1>6, FlowStays

LEMMA WriteFlow ==
  ASSUME Inv, Singles, Flows, NEW h \in Hosts, NEW x \in Objects, WriteSlot(h, x)
  PROVE  Flows'
<1>1. PICK o \in Here(h), n \in Copies :
        /\ IsLocal(o) /\ o.state \in {"created", "modified", "synced"} /\ Succeeds(o, n)
        /\ n.state = IF o.state = "synced" THEN "modified" ELSE o.state
        /\ Here(h)' = (Here(h) \ {o}) \union {n}
        /\ \A k \in Hosts : k # h => Here(k)' = Here(k)
  BY WriteDoes
<1>2. UNCHANGED <<wires, net, mapped, missed>>
  BY DEF WriteSlot, history
<1>3. QED
  BY <1>1, <1>2, ChangeFlow DEF Succeeds

LEMMA CloseFlow ==
  ASSUME Inv, Singles, Flows, NEW h \in Hosts, NEW x \in Objects, CloseObject(h, x)
  PROVE  Flows'
<1>1. PICK o \in Here(h), n \in Copies :
        /\ IsLocal(o) /\ o.state \in {"created", "modified", "synced"} /\ Succeeds(o, n)
        /\ n.state = IF o.state = "created" THEN "zombie" ELSE "closed"
        /\ Here(h)' = (Here(h) \ {o}) \union {n}
        /\ \A k \in Hosts : k # h => Here(k)' = Here(k)
  BY CloseDoes
<1>2. UNCHANGED <<wires, net, mapped, missed>>
  BY DEF CloseObject
<1>3. QED
  BY <1>1, <1>2, ChangeFlow DEF Succeeds

LEMMA CreateFlow ==
  ASSUME Inv, Singles, Flows, NEW h \in Hosts, NEW x \in Objects, CreateObject(h, x)
  PROVE  Flows'
<1>1. PICK o \in Copies : Creates(h, x, o)
  BY CreateDoes
<1>2. /\ IsLocal(o) /\ o.state = "created"
      /\ Here(h)' = Here(h) \union {o}
      /\ \A k \in Hosts : k # h => Here(k)' = Here(k)
      /\ net' = net /\ mapped' = mapped /\ missed' = missed /\ live' = live /\ peers' = peers
  BY <1>1 DEF Creates
<1>3. SUFFICES ASSUME NEW p \in Hosts, NEW g \in Hosts, <<p, g>> \in Links, NEW r \in Ids
               PROVE  Flow(p, g, r)'
  BY DEF Flows
<1>4. Flow(p, g, r)
  BY <1>3 DEF Flows
<1>5. Remains(Here(g), Here(g)', p)
  BY <1>2, RemainsStay
<1>6. \A ps, gone : ~Shown(o, g, ps, gone)
  BY <1>2 DEF Shown
<1>7. ASSUME NEW e \in Facts, Tells(Here(p), peers[p], MissedBy(g), g, r, e)
      PROVE  Tells(Here(p)', peers'[p], MissedBy(g), g, r, e)
  <2>1. \A q \in Here(p)' : q \in Here(p) \/ q = o
    BY <1>2
  <2>2. \A q \in Here(p) : q \in Here(p)'
    BY <1>2
  <2>3. QED
    BY <1>2, <1>6, <1>7, <2>1, <2>2 DEF Tells
<1>8. QED
  BY <1>2, <1>3, <1>4, <1>5, <1>7, FlowStays

\* Messages of the program are sent and handled, which tell nothing of the objects.
LEMMA QuietFlow ==
  ASSUME Inv, Flows, UNCHANGED <<wires, store, missed>>,
         \A l \in Links :
           \/ net'[l] = net[l]
           \/ \E m \in GoodMsgs : m.state = "message" /\ net'[l] = net[l] \o <<m>>
           \/ net[l] # <<>> /\ Head(net[l]).state = "message" /\ net'[l] = Tail(net[l])
  PROVE  Flows'
<1>1. /\ mapped' = mapped /\ missed' = missed /\ live' = live /\ peers' = peers /\ objects' = objects
  BY DEF wires, store
<1>2. \A k : Here(k)' = Here(k)
  BY <1>1, HereSame
<1>3. SUFFICES ASSUME NEW p \in Hosts, NEW h \in Hosts, <<p, h>> \in Links, NEW r \in Ids
               PROVE  Flow(p, h, r)'
  BY DEF Flows
<1>4. PICK k \in Facts, e \in Facts :
        /\ Knows(Here(h), mapped[<<h, p>>], p, r, k)
        /\ Stream(r, MissedBy(h), k, net[<<p, h>>], e)
        /\ <<p, h>> \in live => Tells(Here(p), peers[p], MissedBy(h), h, r, e)
  BY <1>3 DEF Flows, Flow
<1>5. MissedBy(h)' = MissedBy(h)
  BY <1>1 DEF MissedBy
<1>6. net[<<p, h>>] \in Seq(GoodMsgs)
  BY <1>3 DEF Inv, NetTyped
<1>7. "message" \notin Telling
  BY DEF Telling
<1>8. Stream(r, MissedBy(h), k, net'[<<p, h>>], e)
  <2>1. CASE net'[<<p, h>>] = net[<<p, h>>]
    BY <1>4, <2>1
  <2>2. ASSUME NEW m \in GoodMsgs, m.state = "message", net'[<<p, h>>] = net[<<p, h>>] \o <<m>>
        PROVE  Stream(r, MissedBy(h), k, net'[<<p, h>>], e)
    <3>1. Stream(r, MissedBy(h), e, <<m>>, e)
      BY <1>7, <2>2, Unconcerned, StreamSingle
    <3>2. <<m>> \in Seq(GoodMsgs)
      OBVIOUS
    <3>3. QED
      BY <1>4, <1>6, <2>2, <3>1, <3>2, StreamConcat
  <2>3. CASE /\ net[<<p, h>>] # <<>> /\ Head(net[<<p, h>>]).state = "message"
             /\ net'[<<p, h>>] = Tail(net[<<p, h>>])
    <3>1. PICK i \in Facts : /\ Leads(r, MissedBy(h), k, Head(net[<<p, h>>]), i)
                             /\ Stream(r, MissedBy(h), i, Tail(net[<<p, h>>]), e)
      BY <1>4, <1>6, <2>3, StreamTail
    <3>2. Head(net[<<p, h>>]) \in GoodMsgs
      BY <1>6, <2>3
    <3>3. i = k
      BY <1>7, <2>3, <3>1, <3>2, AfterIs DEF Leads
    <3>4. QED
      BY <2>3, <3>1, <3>3
  <2>4. QED
    BY <1>3, <2>1, <2>2, <2>3
<1>9. QED
  BY <1>1, <1>2, <1>4, <1>5, <1>8 DEF Flow

LEMMA MessageFlow ==
  ASSUME Inv, Flows, NEW h \in Hosts, NEW x \in Objects, SendMessage(h, x)
  PROVE  Flows'
<1>1. PICK p \in Hosts, m \in GoodMsgs : m.state = "message" /\ net' = Sent(h, {p}, <<m>>)
  BY MessageSent
<1>2. UNCHANGED <<wires, store, missed>>
  BY DEF SendMessage
<1>3. \A l \in Links : net'[l] = net[l] \/ net'[l] = net[l] \o <<m>>
  <2>1. SUFFICES ASSUME NEW l \in Links
                 PROVE  net'[l] = net[l] \/ net'[l] = net[l] \o <<m>>
    OBVIOUS
  <2>2. Sent(h, {p}, <<m>>)[l] =
          IF l[1] = h /\ l[2] \in {p} /\ l \in live THEN net[l] \o <<m>> ELSE net[l]
    BY SentIs
  <2>3. QED
    BY <1>1, <2>2
<1>4. QED
  BY <1>1, <1>2, <1>3, QuietFlow

LEMMA HandleMessageFlow ==
  ASSUME Inv, Flows, NEW h \in Hosts, NEW p \in Hosts, HandleMessage(h, p)
  PROVE  Flows'
<1>1. Comes(h, p, "message")
  BY DEF HandleMessage
<1>2. /\ <<p, h>> \in Links /\ p # h /\ net[<<p, h>>] # <<>>
      /\ Head(net[<<p, h>>]).state = "message"
  BY <1>1, Event DEF Comes
<1>3. ASSUME UNCHANGED <<wires, store, owner, missed>>, NEW ps, NEW m \in GoodMsgs,
             m.state = "message", NEW msgs \in {<<>>, <<m>>}, Handled(h, p, ps, msgs)
      PROVE  Flows'
  <2>1. \A l \in Links : net'[l] = IF l = <<p, h>> THEN Tail(net[l])
                         ELSE IF l[1] = h /\ l[2] \in ps /\ l \in live THEN net[l] \o msgs ELSE net[l]
    BY <1>2, <1>3, HandledIs
  <2>2. \A l \in Links : net[l] \in Seq(GoodMsgs)
    BY DEF Inv, NetTyped
  <2>3. \A l \in Links : net[l] \o <<>> = net[l]
    BY <2>2
  <2>4. \A l \in Links :
           \/ net'[l] = net[l]
           \/ net'[l] = net[l] \o <<m>>
           \/ net[l] # <<>> /\ Head(net[l]).state = "message" /\ net'[l] = Tail(net[l])
    BY <1>2, <1>3, <2>1, <2>3
  <2>5. QED
    BY <1>3, <2>4, QuietFlow
<1>4. Head(net[<<p, h>>]) \in GoodMsgs
  BY <1>2 DEF Inv, NetTyped
<1>5. CASE Still
  BY <1>5, StillFlow
<1>6. CASE UNCHANGED <<wires, store, owner, missed>> /\ Handled(h, p, {}, <<>>)
  BY <1>2, <1>3, <1>4, <1>6
<1>7. ASSUME UNCHANGED <<wires, store, owner, missed>>, NEW to \in Hosts, NEW m \in GoodMsgs,
             m.state = "message", Handled(h, p, {to}, <<m>>)
      PROVE  Flows'
  BY <1>3, <1>7
<1>8. QED
  BY <1>5, <1>6, <1>7, HandlesMessage

LEMMA EndsFlow ==
  ASSUME Inv, Wired, Flows, UNCHANGED <<enetHost, peers, store, history>>, live' \subseteq live,
         \A l \in Links : Ends(l)
  PROVE  Flows'
<1>1. /\ mapped' = mapped /\ missed' = missed /\ peers' = peers /\ objects' = objects
  BY DEF store, history
<1>2. \A k : Here(k)' = Here(k)
  BY <1>1, HereSame
<1>3. SUFFICES ASSUME NEW p \in Hosts, NEW h \in Hosts, <<p, h>> \in Links, NEW r \in Ids
               PROVE  Flow(p, h, r)'
  BY DEF Flows
<1>4. PICK k \in Facts, e \in Facts :
        /\ Knows(Here(h), mapped[<<h, p>>], p, r, k)
        /\ Stream(r, MissedBy(h), k, net[<<p, h>>], e)
        /\ <<p, h>> \in live => Tells(Here(p), peers[p], MissedBy(h), h, r, e)
  BY <1>3 DEF Flows, Flow
<1>5. MissedBy(h)' = MissedBy(h)
  BY <1>1 DEF MissedBy
<1>6. Knows(Here(h)', mapped'[<<h, p>>], p, r, k)
  BY <1>1, <1>2, <1>4
<1>7. CASE net'[<<p, h>>] = net[<<p, h>>] /\ (<<p, h>> \in live' <=> <<p, h>> \in live)
  BY <1>1, <1>2, <1>4, <1>5, <1>6, <1>7 DEF Flow
<1>8. CASE net'[<<p, h>>] = <<>> /\ <<p, h>> \notin live'
  <2>1. Stream(r, MissedBy(h)', k, net'[<<p, h>>], k)
    BY <1>8, StreamEmpty
  <2>2. QED
    BY <1>4, <1>6, <1>8, <2>1 DEF Flow
<1>9. CASE <<p, h>> \in live /\ <<p, h>> \notin live' /\ net'[<<p, h>>] \in CutShort(<<p, h>>)
  <2>1. PICK l \in Links : l = <<p, h>>
    BY <1>3
  <2>2. net[l] \in Seq(GoodMsgs) /\ Framing(l) /\ l \in live
    BY <1>9, <2>1 DEF Inv, NetTyped, Wired, Frames
  <2>3. PICK s \in Seq(GoodMsgs) :
          /\ net'[l] = Append(s, Disconnect)
          /\ s = net[l] \/ \A m \in Range(s) : m = Connect
    BY <1>9, <2>1, <2>2, CutIs DEF Framing
  <2>4. PICK i \in Facts : Stream(r, MissedBy(h), k, s, i)
    <3>1. CASE s = net[l]
      BY <1>4, <2>1, <3>1
    <3>2. CASE \A m \in Range(s) : m = Connect
      <4>1. Connect.state \notin Telling
        BY DEF Connect, Msg, Telling
      <4>2. Stream(r, MissedBy(h), k, s, k)
        BY <3>2, <4>1, StreamNone
      <4>3. QED
        BY <4>2
    <3>3. QED
      BY <2>3, <3>1, <3>2
  <2>5. Stream(r, MissedBy(h), i, <<Disconnect>>, i)
    <3>1. Disconnect.state \notin Telling
      BY DEF Disconnect, Msg, Telling
    <3>2. QED
      BY <3>1, DisconnectGood, Unconcerned, StreamSingle
  <2>6. <<Disconnect>> \in Seq(GoodMsgs) /\ net'[l] = s \o <<Disconnect>>
    <3>1. PICK d \in GoodMsgs : d = Disconnect
      BY DisconnectGood
    <3>2. <<d>> \in Seq(GoodMsgs) /\ Append(s, d) = s \o <<d>>
      OBVIOUS
    <3>3. QED
      BY <2>3, <3>1, <3>2
  <2>7. Stream(r, MissedBy(h)', k, net'[<<p, h>>], i)
    BY <1>5, <2>1, <2>4, <2>5, <2>6, StreamConcat
  <2>8. QED
    BY <1>4, <1>6, <1>9, <2>7 DEF Flow
<1>10. QED
  BY <1>3, <1>7, <1>8, <1>9 DEF Ends

LEMMA CloseHostFlow ==
  ASSUME Inv, Wired, Flows, NEW h \in Hosts, CloseHost(h)
  PROVE  Flows'
BY CloseHostDoes, EndsFlow

LEMMA LoseConnectionFlow ==
  ASSUME Inv, Wired, Flows, NEW c \in Clients, LoseConnection(c)
  PROVE  Flows'
BY LoseDoes, EndsFlow DEF Wired

\* What h tells of its objects when it synchronises, of those with the id r.
LEMMA SyncTells ==
  ASSUME Inv, Rest, NEW h \in Hosts, NEW g \in Hosts, g # h, g \in peers[h], NEW r \in Ids,
         Settles(h), NEW msgs \in Seq(GoodMsgs), SyncSays(h, msgs), peers' = peers,
         NEW e \in Facts, Tells(Here(h), peers[h], MissedBy(g), g, r, e)
  PROVE  \E i \in Facts : /\ Stream(r, MissedBy(g), e, msgs, i)
                          /\ Tells(Here(h)', peers'[h], MissedBy(g), g, r, i)
<1>1. /\ \A o, q \in Here(h) : ~Unmapped(o) /\ ~Unmapped(q) /\ o.id = q.id => o = q
      /\ \A o \in Here(h) : o.name \in Objects /\ o.data \in Nat /\ (IsLocal(o) => ~Unmapped(o))
  BY RowOf
<1>2. /\ \A m \in Range(msgs) : \E o \in Here(h) :
           /\ IsLocal(o) /\ o.state \in {"created", "modified", "closed"}
           /\ m.state = o.state /\ m.id = o.id /\ m.name = o.name /\ m.data = o.data
      /\ \A i, j \in 1 .. Len(msgs) : msgs[i].id = msgs[j].id => i = j
  BY DEF SyncSays
<1>3. \A o, q : Settled(o, q) =>
        /\ q.id = o.id /\ q.name = o.name /\ q.peer = o.peer /\ q.data = o.data
        /\ o.state \in {"created", "modified", "synced"} /\ q.state = "synced"
        /\ ~Unmapped(o) /\ ~Unmapped(q)
  BY DEF Settled, Unmapped, Open
<1>4. \A q \in Here(h)' : \E o \in Here(h) : Settled(o, q)
  BY DEF Settles
<1>5. g # None
  BY GameNetAssumption DEF Hosts
<1>6. ASSUME NEW o \in Here(h), o.id = r, IsLocal(o), o.state \in {"created", "modified", "closed"}
      PROVE  \E i \in Facts : /\ Stream(r, MissedBy(g), e, msgs, i)
                              /\ Tells(Here(h)', peers'[h], MissedBy(g), g, r, i)
  <2>1. ~Unmapped(o) /\ o.name \in Objects /\ o.data \in Nat
    BY <1>1, <1>6
  <2>2. PICK m \in Range(msgs) :
          m.state = o.state /\ m.id = r /\ m.name = o.name /\ m.data = o.data
    <3>1. PICK m \in Range(msgs) : m.id = o.id
      BY <1>6 DEF SyncSays
    <3>2. PICK q \in Here(h) :
           /\ IsLocal(q)
           /\ m.state = q.state /\ m.id = q.id /\ m.name = q.name /\ m.data = q.data
      BY <1>2
    <3>3. q = o
      BY <1>1, <1>6, <3>1, <3>2
    <3>4. QED
      BY <1>6, <3>1, <3>2, <3>3
  <2>3. m \in GoodMsgs
    BY <2>2, RangeIs
  <2>4. /\ Shown(o, g, peers[h], MissedBy(g)) => e # Nothing /\ Agrees(e, o)
        /\ ~Shown(o, g, peers[h], MissedBy(g)) => e = Nothing
    BY <1>6, <2>1, TellsIs
  <2>5. Shown(o, g, peers[h], MissedBy(g)) <=> o.name \notin MissedBy(g) /\ o.state # "created"
    BY <1>5, <1>6, <2>1 DEF Shown, IsLocal
  <2>6. \A q \in Here(h)' : q.id = r => Settled(o, q)
    BY <1>1, <1>3, <1>4, <1>6, <2>1
  <2>7. ASSUME NEW i \in Facts, Leads(r, MissedBy(g), e, m, i)
        PROVE  Stream(r, MissedBy(g), e, msgs, i)
    BY <1>2, <2>2, <2>7, StreamBatch
  <2>8. ASSUME NEW i \in Facts, i = Nothing, o.name \in MissedBy(g) \/ o.state = "closed"
        PROVE  Tells(Here(h)', peers'[h], MissedBy(g), g, r, i)
    <3>1. \A q \in Here(h)' : q.id = r => q.name \in MissedBy(g)
      BY <1>3, <2>6, <2>8
    <3>2. QED
      BY <2>8, <3>1 DEF Tells, Shown
  <2>9. ASSUME NEW i \in Facts, i # Nothing, i.name = o.name, i.data = o.data,
               o.name \notin MissedBy(g), o.state # "closed"
        PROVE  Tells(Here(h)', peers'[h], MissedBy(g), g, r, i)
    <3>1. PICK q \in Here(h)' : Settled(o, q)
      BY <1>6, <2>9 DEF Settles
    <3>2. q.id = r /\ q.name = o.name /\ q.data = o.data /\ q.peer = o.peer /\ q.state = "synced"
          /\ ~Unmapped(q)
      BY <1>3, <1>6, <3>1
    <3>3. Shown(q, g, peers'[h], MissedBy(g)) /\ Agrees(i, q)
      BY <1>5, <1>6, <2>9, <3>2 DEF Shown, Agrees, IsLocal
    <3>4. QED
      BY <2>9, <3>2, <3>3 DEF Tells
  <2>10. e = Nothing \/ e.name = o.name
    BY <2>4 DEF Agrees
  <2>11. CASE o.state = "created"
    <3>1. o.name \notin MissedBy(g)
      BY <1>6, <2>11 DEF Rest, Named, Fresh, MissedBy
    <3>2. e = Nothing
      BY <2>4, <2>5, <2>11
    <3>3. PICK i \in Facts : i = [name |-> o.name, data |-> o.data] /\ i # Nothing
                             /\ i.name = o.name /\ i.data = o.data
      BY <2>1, FactOf
    <3>4. Leads(r, MissedBy(g), e, m, i)
      BY <2>2, <2>3, <2>11, <3>2, <3>3, AfterIs DEF Leads, Fits
    <3>5. QED
      BY <2>7, <2>9, <2>11, <3>1, <3>3, <3>4
  <2>12. CASE o.state = "modified" /\ o.name \in MissedBy(g)
    <3>1. e = Nothing
      BY <2>4, <2>5, <2>12
    <3>2. o.data # 0
      BY <1>6, <2>12 DEF Rest, Named, Written
    <3>3. Leads(r, MissedBy(g), e, m, e)
      BY <2>2, <2>3, <2>12, <3>1, <3>2, AfterIs DEF Leads, Fits
    <3>4. QED
      BY <2>7, <2>8, <2>12, <3>1, <3>3
  <2>13. CASE o.state = "modified" /\ o.name \notin MissedBy(g)
    <3>1. e # Nothing /\ e.name = o.name
      BY <2>4, <2>5, <2>10, <2>13
    <3>2. o.data # 0
      BY <1>6, <2>13 DEF Rest, Named, Written
    <3>3. PICK i \in Facts : i = [name |-> o.name, data |-> o.data] /\ i # Nothing
                             /\ i.name = o.name /\ i.data = o.data
      BY <2>1, FactOf
    <3>4. Leads(r, MissedBy(g), e, m, i)
      BY <2>2, <2>3, <2>13, <3>1, <3>2, <3>3, AfterIs DEF Leads, Fits
    <3>5. QED
      BY <2>7, <2>9, <2>13, <3>3, <3>4
  <2>14. CASE o.state = "closed"
    <3>1. PICK i \in Facts : i = Nothing
      BY DEF Facts
    <3>2. e.name = o.name \/ (e = Nothing /\ o.name \in MissedBy(g))
      BY <2>4, <2>5, <2>10, <2>14
    <3>3. Leads(r, MissedBy(g), e, m, i)
      BY <2>2, <2>3, <2>14, <3>1, <3>2, AfterIs DEF Leads, Fits
    <3>4. QED
      BY <2>7, <2>8, <2>14, <3>1, <3>3
  <2>15. QED
    BY <1>6, <2>11, <2>12, <2>13, <2>14
<1>7. ASSUME \A o \in Here(h) : o.id = r => ~(IsLocal(o) /\ o.state \in {"created", "modified", "closed"})
      PROVE  \E i \in Facts : /\ Stream(r, MissedBy(g), e, msgs, i)
                              /\ Tells(Here(h)', peers'[h], MissedBy(g), g, r, i)
  <2>1. \A m \in Range(msgs) : m.id # r
    BY <1>2, <1>7
  <2>2. Stream(r, MissedBy(g), e, msgs, e)
    BY <2>1, StreamNone
  <2>3. \A o \in Here(h) : o.id = r /\ Shown(o, g, peers[h], MissedBy(g)) =>
          \E q \in Here(h)' : /\ q.id = r /\ Shown(q, g, peers'[h], MissedBy(g))
                              /\ Agrees(e, o) => Agrees(e, q)
    <3>1. SUFFICES ASSUME NEW o \in Here(h), o.id = r, Shown(o, g, peers[h], MissedBy(g))
                   PROVE  \E q \in Here(h)' : /\ q.id = r /\ Shown(q, g, peers'[h], MissedBy(g))
                                              /\ Agrees(e, o) => Agrees(e, q)
      OBVIOUS
    <3>2. o \in Copies
      BY StoreOf
    <3>3. o.state \in {"created", "modified", "synced"}
      BY <1>7, <3>1, <3>2 DEF Shown, Unmapped, Open, Copies
    <3>4. PICK q \in Here(h)' : Settled(o, q)
      BY <3>3 DEF Settles
    <3>5. /\ q.id = o.id /\ q.name = o.name /\ q.peer = o.peer /\ q.data = o.data
          /\ q.state = "synced" /\ ~Unmapped(q)
      BY <1>3, <3>4
    <3>6. Shown(q, g, peers'[h], MissedBy(g))
      BY <3>1, <3>5 DEF Shown
    <3>7. Agrees(e, o) => Agrees(e, q)
      BY <1>7, <3>1, <3>5 DEF Agrees
    <3>8. QED
      BY <3>1, <3>5, <3>6, <3>7
  <2>4. \A q \in Here(h)' : q.id = r /\ Shown(q, g, peers'[h], MissedBy(g)) =>
          \E o \in Here(h) : o.id = r /\ Shown(o, g, peers[h], MissedBy(g))
    <3>1. SUFFICES ASSUME NEW q \in Here(h)', q.id = r, Shown(q, g, peers'[h], MissedBy(g))
                   PROVE  \E o \in Here(h) : o.id = r /\ Shown(o, g, peers[h], MissedBy(g))
      OBVIOUS
    <3>2. PICK o \in Here(h) : Settled(o, q)
      BY <1>4
    <3>3. /\ q.id = o.id /\ q.name = o.name /\ q.peer = o.peer /\ ~Unmapped(o)
          /\ o.state \in {"created", "modified", "synced"}
      BY <1>3, <3>2
    <3>4. Shown(o, g, peers[h], MissedBy(g))
      BY <1>7, <3>1, <3>3 DEF Shown
    <3>5. QED
      BY <3>1, <3>3, <3>4
  <2>5. Tells(Here(h)', peers'[h], MissedBy(g), g, r, e)
    BY <2>3, <2>4, TellsRemains
  <2>6. QED
    BY <2>2, <2>5
<1>8. QED
  BY <1>6, <1>7

LEMMA SyncFlow ==
  ASSUME Inv, Rest, Flows, NEW h \in Hosts, Sync(h)
  PROVE  Flows'
<1>1. UNCHANGED <<wires, mapped, history>> /\ Settles(h)
  BY SyncDoes DEF Rest
<1>2. PICK msgs \in Seq(GoodMsgs) : net' = Sent(h, peers[h], msgs) /\ SyncSays(h, msgs)
  BY SyncDoes DEF Rest
<1>3. mapped' = mapped /\ missed' = missed /\ live' = live /\ peers' = peers
  BY <1>1 DEF wires, history
<1>4. \A k \in Hosts : k # h => Here(k)' = Here(k)
  BY <1>1 DEF Settles
<1>5. SUFFICES ASSUME NEW p \in Hosts, NEW g \in Hosts, <<p, g>> \in Links, NEW r \in Ids
               PROVE  Flow(p, g, r)'
  BY DEF Flows
<1>6. Flow(p, g, r) /\ p # g
  BY <1>5 DEF Flows, Links
<1>7. net'[<<p, g>>] = IF p = h /\ g \in peers[h] /\ <<p, g>> \in live THEN net[<<p, g>>] \o msgs
                       ELSE net[<<p, g>>]
  <2>1. PICK l \in Links : l = <<p, g>>
    BY <1>5
  <2>2. l[1] = p /\ l[2] = g
    BY <2>1
  <2>3. Sent(h, peers[h], msgs)[l] =
          IF l[1] = h /\ l[2] \in peers[h] /\ l \in live THEN net[l] \o msgs ELSE net[l]
    BY SentIs
  <2>4. QED
    BY <1>2, <2>1, <2>2, <2>3
<1>8. CASE p = h
  <2>1. g \in peers[h] => \A e \in Facts : Tells(Here(h), peers[h], MissedBy(g), g, r, e) =>
          \E i \in Facts : /\ Stream(r, MissedBy(g), e, msgs, i)
                           /\ Tells(Here(h)', peers'[h], MissedBy(g), g, r, i)
    BY <1>1, <1>2, <1>3, <1>6, <1>8, SyncTells
  <2>2. QED
    BY <1>3, <1>4, <1>5, <1>6, <1>7, <1>8, <2>1, FlowSpread
<1>9. CASE p # h
  <2>1. Remains(Here(g), Here(g)', p)
    <3>1. CASE g # h
      BY <1>4, <3>1, RemainsStay
    <3>2. CASE g = h
      <4>1. ASSUME NEW o \in Here(h), Open(o)
            PROVE  \E q \in Here(h)' :
                     q.id = o.id /\ q.name = o.name /\ q.data = o.data /\ q.peer = o.peer /\ Open(q)
        <5>1. PICK q \in Here(h)' : Settled(o, q)
          BY <1>1, <4>1 DEF Settles, Open
        <5>2. QED
          BY <5>1 DEF Settled, Open
      <4>2. QED
        BY <3>2, <4>1 DEF Remains
    <3>3. QED
      BY <3>1, <3>2
  <2>2. QED
    BY <1>3, <1>4, <1>5, <1>6, <1>7, <1>9, <2>1, FlowStays
<1>10. QED
  BY <1>8, <1>9

-----------------------------------------------------------------------------
(* A host hands on what it is told of an object.                           *)

\* What is told at another id stays, and nothing of the message is about it.
LEMMA ElsewhereTells ==
  ASSUME NEW here, NEW after, NEW ps, NEW gone, NEW g, NEW r, NEW new \in GoodMsgs, new.id # r,
         \A o : o.id = r => (o \in after <=> o \in here),
         NEW e \in Facts, Tells(here, ps, gone, g, r, e)
  PROVE  \E i \in Facts : Stream(r, gone, e, <<new>>, i) /\ Tells(after, ps, gone, g, r, i)
<1>1. Leads(r, gone, e, new, e)
  BY Unconcerned
<1>2. Stream(r, gone, e, <<new>>, e)
  BY <1>1, StreamSingle
<1>3. Tells(after, ps, gone, g, r, e)
  BY TellsElsewhere
<1>4. QED
  BY <1>2, <1>3

\* The object of another host is modified or closed.
LEMMA UpdateTells ==
  ASSUME Inv, NEW h \in Hosts, NEW o \in Here(h), NEW n, NEW new \in GoodMsgs,
         ~IsLocal(o), Open(o), Succeeds(o, n), new.state = n.state, new.id = o.id,
         new.name = o.name, n.data \in Nat, n.state \in {"modified", "closed"},
         new.state = "modified" => new.data # 0 /\ n.data = new.data,
         Here(h)' = (Here(h) \ {o}) \union {n},
         NEW g \in Hosts, o.peer # g, NEW ps, g \in ps, NEW gone, NEW e \in Facts,
         Tells(Here(h), ps, gone, g, o.id, e)
  PROVE  \E i \in Facts : /\ Stream(o.id, gone, e, <<new>>, i)
                          /\ Tells(Here(h)', ps, gone, g, o.id, i)
<1>1. ~Unmapped(o) /\ n.id = o.id /\ n.name = o.name /\ n.peer = o.peer
  BY DEF Unmapped, Succeeds
<1>2. o.name \in Objects /\ \A q \in Here(h) : ~Unmapped(q) /\ q.id = o.id => q = o
  BY <1>1, RowOf
<1>3. /\ Shown(o, g, ps, gone) => e # Nothing /\ Agrees(e, o)
      /\ ~Shown(o, g, ps, gone) => e = Nothing
  BY <1>1, TellsIs
<1>4. Shown(o, g, ps, gone) <=> o.name \notin gone
  BY <1>1 DEF Shown
<1>5. \A q \in Here(h)' : ~Unmapped(q) /\ q.id = o.id => q = n
  BY <1>2
<1>6. IsLocal(n) <=> FALSE
  BY <1>1 DEF IsLocal
<1>7. CASE n.state = "modified" /\ o.name \notin gone
  <2>1. PICK i \in Facts : i = [name |-> o.name, data |-> new.data] /\ i # Nothing
                           /\ i.name = o.name /\ i.data = n.data
    BY <1>2, <1>7, FactOf
  <2>2. e # Nothing /\ e.name = o.name
    BY <1>3, <1>4, <1>7 DEF Agrees
  <2>3. Leads(o.id, gone, e, new, i)
    BY <1>7, <2>1, <2>2, AfterIs DEF Leads, Fits
  <2>4. Open(n) /\ n \in Here(h)'
    BY <1>7 DEF Open
  <2>5. Shown(n, g, ps, gone) /\ Agrees(i, n)
    BY <1>1, <1>6, <1>7, <2>1, <2>4 DEF Shown, Agrees, Unmapped
  <2>6. Tells(Here(h)', ps, gone, g, o.id, i)
    BY <1>1, <2>1, <2>4, <2>5 DEF Tells
  <2>7. QED
    BY <2>3, <2>6, StreamSingle
<1>8. CASE n.state = "closed" \/ o.name \in gone
  <2>1. PICK i \in Facts : i = Nothing
    BY DEF Facts
  <2>2. e.name = o.name \/ (e = Nothing /\ o.name \in gone)
    BY <1>3, <1>4 DEF Agrees
  <2>3. Leads(o.id, gone, e, new, i)
    <3>1. CASE n.state = "closed"
      BY <2>1, <2>2, <3>1, AfterIs DEF Leads, Fits
    <3>2. CASE n.state = "modified" /\ o.name \in gone
      <4>1. e = Nothing
        BY <1>3, <1>4, <3>2
      <4>2. QED
        BY <2>1, <2>2, <3>2, <4>1, AfterIs DEF Leads, Fits
    <3>3. QED
      BY <1>8, <3>1, <3>2
  <2>4. ~Shown(n, g, ps, gone)
    BY <1>1, <1>6, <1>8 DEF Shown, Unmapped, Open
  <2>5. Tells(Here(h)', ps, gone, g, o.id, i)
    BY <1>5, <2>1, <2>4 DEF Tells, Shown
  <2>6. QED
    BY <2>3, <2>5, StreamSingle
<1>9. QED
  BY <1>7, <1>8

\* An object is new.
LEMMA CreateTells ==
  ASSUME Inv, NEW h \in Hosts, NEW o, NEW new \in GoodMsgs,
         ~IsLocal(o), Open(o), \A q \in Here(h) : ~Unmapped(q) => q.id # o.id,
         o.name \in Objects, o.data \in Nat,
         new.state = "created", new.id = o.id, new.name = o.name, new.data = o.data,
         Here(h)' = Here(h) \union {o},
         NEW g \in Hosts, o.peer # g, NEW ps, g \in ps, NEW gone, o.name \notin gone, NEW e \in Facts,
         Tells(Here(h), ps, gone, g, o.id, e)
  PROVE  \E i \in Facts : /\ Stream(o.id, gone, e, <<new>>, i)
                          /\ Tells(Here(h)', ps, gone, g, o.id, i)
<1>1. e = Nothing
  BY TellsNone
<1>2. PICK i \in Facts : i = [name |-> o.name, data |-> o.data] /\ i # Nothing
                         /\ i.name = o.name /\ i.data = o.data
  BY FactOf
<1>3. Leads(o.id, gone, e, new, i)
  BY <1>1, <1>2, AfterIs DEF Leads, Fits
<1>4. Shown(o, g, ps, gone) /\ Agrees(i, o)
  BY <1>2 DEF Shown, Agrees, Unmapped
<1>5. Tells(Here(h)', ps, gone, g, o.id, i)
  BY <1>2, <1>4 DEF Tells
<1>6. QED
  BY <1>3, <1>5, StreamSingle

\* What is said of a link when h takes the first message from p and hands msgs on.
LEMMA TakenAt ==
  ASSUME Inv, Wired, NEW h \in Hosts, NEW p \in Hosts, NEW state, Comes(h, p, state),
         NEW ps, NEW msgs \in Seq(GoodMsgs), Handled(h, p, ps, msgs),
         NEW a \in Hosts, NEW g \in Hosts, <<a, g>> \in Links, a # p \/ g # h
  PROVE  net'[<<a, g>>] = IF a = h /\ g \in ps /\ <<a, g>> \in live THEN net[<<a, g>>] \o msgs
                          ELSE net[<<a, g>>]
<1>1. PICK l \in Links : l = <<a, g>>
  OBVIOUS
<1>2. l[1] = a /\ l[2] = g /\ l # <<p, h>>
  BY <1>1
<1>3. p # h /\ <<p, h>> \in Links /\ net[<<p, h>>] # <<>>
  BY Event
<1>4. net'[l] = IF l = <<p, h>> THEN Tail(net[l])
                ELSE IF l[1] = h /\ l[2] \in ps /\ l \in live THEN net[l] \o msgs ELSE net[l]
  BY <1>3, HandledIs
<1>5. QED
  BY <1>1, <1>2, <1>4

\* The message is about the object that it changes.
LEMMA UpdatesFits ==
  ASSUME Inv, Flows, NEW h \in Hosts, NEW p \in Hosts, NEW state \in {"modified", "closed"},
         Comes(h, p, state), NEW i, NEW o \in Here(h), NEW n, NEW pair \in mapped[<<h, p>>], NEW new,
         Updates(h, p, Message(h, p), i, o, n, pair, new)
  PROVE  /\ Message(h, p).name = o.name
         /\ state = "modified" => Message(h, p).data # 0
<1>1. PICK msg \in GoodMsgs : msg = Message(h, p) /\ msg = Head(net[<<p, h>>]) /\ msg.state = state
  BY Event DEF Message
<1>2. <<p, h>> \in Links /\ <<h, p>> \in Links /\ net[<<p, h>>] # <<>>
  BY Event
<1>3. msg.id \in Ids
  BY <1>1 DEF GoodMsgs
<1>4. Flow(p, h, msg.id)
  BY <1>2, <1>3 DEF Flows
<1>5. PICK k \in Facts : /\ Knows(Here(h), mapped[<<h, p>>], p, msg.id, k)
                         /\ Fits(k, msg, MissedBy(h))
  BY <1>1, <1>2, <1>3, <1>4, FlowFits
<1>6. pair[1] = i /\ pair[2] = msg.id /\ o.id = i /\ Open(o)
  BY <1>1 DEF Updates
<1>7. k # Nothing
  BY <1>5, <1>6 DEF Knows
<1>8. PICK pr \in mapped[<<h, p>>], q \in Here(h) :
        /\ pr[2] = msg.id /\ q.id = pr[1] /\ Open(q)
        /\ k = [name |-> q.name, data |-> q.data]
  BY <1>5, <1>7 DEF Knows
<1>9. Arrays(Here(h), p, mapped[<<h, p>>])
  BY <1>2, StoreOf DEF Tables
<1>10. pr[1] = i
  BY <1>6, <1>8, <1>9 DEF Arrays
<1>11. q = o
  BY <1>6, <1>8, <1>10, RowOf DEF Unmapped
<1>12. k.name = o.name
  BY <1>8, <1>11
<1>13. QED
  BY <1>1, <1>5, <1>7, <1>12 DEF Fits

\* What the receiver knows after a message that changes an object.
LEMMA UpdatesKnows ==
  ASSUME Inv, NEW h \in Hosts, NEW p \in Hosts, <<h, p>> \in Links, NEW msg \in GoodMsgs,
         NEW state \in {"modified", "closed"}, msg.state = state,
         NEW i, NEW o \in Here(h), NEW n, NEW pair \in mapped[<<h, p>>], NEW new,
         Updates(h, p, msg, i, o, n, pair, new), state = "modified" => msg.data # 0,
         mapped'[<<h, p>>] = IF state = "closed" THEN {q \in mapped[<<h, p>>] : q[1] # i}
                             ELSE mapped[<<h, p>>],
         NEW r, NEW gone, NEW k \in Facts, NEW e \in Facts,
         Knows(Here(h), mapped[<<h, p>>], p, r, k), Leads(r, gone, k, msg, e)
  PROVE  Knows(Here(h)', mapped'[<<h, p>>], p, r, e)
<1>1. /\ pair[1] = i /\ pair[2] = msg.id
      /\ o.id = i /\ o.peer = p /\ Open(o) /\ Succeeds(o, n) /\ n.state = msg.state
      /\ n.data = IF msg.data = 0 THEN o.data ELSE msg.data
      /\ Here(h)' = (Here(h) \ {o}) \union {n}
  BY DEF Updates
<1>2. \A a, b \in mapped[<<h, p>>] : a[1] = b[1] <=> a[2] = b[2]
  <2>1. Arrays(Here(h), p, mapped[<<h, p>>])
    BY StoreOf DEF Tables
  <2>2. QED
    BY <2>1 DEF Arrays
<1>3. \A q \in Here(h) : Open(q) /\ q.id = i => q = o
  BY <1>1, RowOf DEF Unmapped
<1>4. e = After(r, k, msg)
  BY DEF Leads
<1>5. CASE r # msg.id
  <2>1. e = k
    BY <1>4, <1>5, AfterIs
  <2>2. \A q \in mapped[<<h, p>>] : q[2] = r => q[1] # i
    BY <1>1, <1>2, <1>5
  <2>3. CASE k = Nothing
    BY <2>1, <2>3 DEF Knows
  <2>4. CASE k # Nothing
    <3>1. PICK q \in mapped[<<h, p>>], u \in Here(h) :
            /\ q[2] = r /\ u.id = q[1] /\ u.peer = p /\ Open(u)
            /\ k = [name |-> u.name, data |-> u.data]
      BY <2>4 DEF Knows
    <3>2. q \in mapped'[<<h, p>>] /\ u \in Here(h)'
      BY <1>1, <2>2, <3>1
    <3>3. QED
      BY <2>1, <2>4, <3>1, <3>2 DEF Knows
  <2>5. QED
    BY <2>3, <2>4
<1>6. CASE r = msg.id
  <2>1. k # Nothing
    BY <1>1, <1>6 DEF Knows
  <2>2. PICK q \in mapped[<<h, p>>], u \in Here(h) :
          /\ q[2] = r /\ u.id = q[1] /\ u.peer = p /\ Open(u)
          /\ k = [name |-> u.name, data |-> u.data]
    BY <2>1 DEF Knows
  <2>3. u = o
    BY <1>1, <1>2, <1>3, <1>6, <2>2
  <2>4. CASE state = "modified"
    <3>1. e = [name |-> o.name, data |-> msg.data]
      BY <1>4, <1>6, <2>1, <2>2, <2>3, <2>4, AfterIs
    <3>2. e # Nothing
      <4>1. o.name \in Objects /\ msg.data \in Nat
        BY RowOf DEF GoodMsgs, Messages
      <4>2. QED
        BY <3>1, <4>1, FactOf
    <3>3. n.data = msg.data /\ n.name = o.name /\ n.id = i /\ n.peer = p /\ Open(n) /\ n \in Here(h)'
      BY <1>1, <2>4 DEF Succeeds, Open
    <3>4. pair \in mapped'[<<h, p>>]
      BY <2>4
    <3>5. QED
      BY <1>1, <1>6, <3>1, <3>2, <3>3, <3>4 DEF Knows
  <2>5. CASE state = "closed"
    <3>1. e = Nothing
      BY <1>4, <1>6, <2>5, AfterIs
    <3>2. \A q2 \in mapped'[<<h, p>>] : q2[2] # r
      BY <1>1, <1>2, <1>6, <2>5
    <3>3. QED
      BY <3>1, <3>2 DEF Knows
  <2>6. QED
    BY <2>4, <2>5
<1>7. QED
  BY <1>5, <1>6

LEMMA UpdatesFlow ==
  ASSUME Inv, Rest, Flows, NEW h \in Hosts, NEW p \in Hosts, NEW state \in {"modified", "closed"},
         Comes(h, p, state), UNCHANGED <<wires, history>>,
         NEW i, NEW o \in Here(h), NEW n \in Copies, NEW pair \in mapped[<<h, p>>],
         NEW new \in GoodMsgs, Updates(h, p, Message(h, p), i, o, n, pair, new),
         mapped' = [mapped EXCEPT ![<<h, p>>] = IF state = "closed" THEN {q \in @ : q[1] # i} ELSE @]
  PROVE  Flows'
<1>1. PICK msg \in GoodMsgs : msg = Message(h, p) /\ msg = Head(net[<<p, h>>]) /\ msg.state = state
  BY Event DEF Message
<1>2. missed' = missed /\ live' = live /\ peers' = peers
  BY DEF wires, history
<1>3. /\ o.id = i /\ o.peer = p /\ Open(o) /\ Succeeds(o, n) /\ n.state = state
      /\ n.data = IF msg.data = 0 THEN o.data ELSE msg.data
      /\ Here(h)' = (Here(h) \ {o}) \union {n}
      /\ \A k \in Hosts : k # h => Here(k)' = Here(k)
      /\ new.state = state /\ new.id = i /\ new.name = msg.name /\ new.data = msg.data
      /\ Handled(h, p, Others(h, p), <<new>>)
  BY <1>1 DEF Updates
<1>4. PICK msgs \in Seq(GoodMsgs) : msgs = <<new>>
  <2>1. <<new>> \in Seq(GoodMsgs)
    OBVIOUS
  <2>2. QED
    BY <2>1
<1>5. Wired /\ Handled(h, p, Others(h, p), msgs)
  BY <1>3, <1>4 DEF Rest
<1>6. /\ <<p, h>> \in Links /\ <<h, p>> \in Links /\ p # h /\ net[<<p, h>>] # <<>>
      /\ net'[<<p, h>>] = Tail(net[<<p, h>>])
  BY <1>5, Taken
<1>7. /\ mapped'[<<h, p>>] = IF state = "closed" THEN {q \in mapped[<<h, p>>] : q[1] # i}
                             ELSE mapped[<<h, p>>]
      /\ \A l \in Links : l # <<h, p>> => mapped'[l] = mapped[l]
  BY <1>6 DEF Inv, StoreTyped
<1>8. msg.name = o.name /\ (state = "modified" => msg.data # 0)
  <2>1. Message(h, p).name = o.name /\ (state = "modified" => Message(h, p).data # 0)
    BY UpdatesFits, SMTT(30)
  <2>2. QED
    BY <1>1, <2>1
<1>9. ~IsLocal(o) /\ n.data \in Nat /\ msg.data \in Nat
  BY <1>3, GameNetAssumption DEF IsLocal, Hosts, Copies, GoodMsgs, Messages
<1>10. SUFFICES ASSUME NEW a \in Hosts, NEW g \in Hosts, <<a, g>> \in Links, NEW r \in Ids
                PROVE  Flow(a, g, r)'
  BY DEF Flows
<1>11. Flow(a, g, r) /\ a # g /\ <<g, a>> \in Links
  BY <1>10 DEF Flows, Links
<1>12. a # p \/ g # h =>
         net'[<<a, g>>] = IF a = h /\ g \in Others(h, p) /\ <<a, g>> \in live
                          THEN net[<<a, g>>] \o msgs ELSE net[<<a, g>>]
  BY <1>5, <1>10, TakenAt
<1>13. g # h \/ a # p => mapped'[<<g, a>>] = mapped[<<g, a>>]
  BY <1>7, <1>11
<1>14. CASE a = p /\ g = h
  <2>1. \A k, e \in Facts :
          Knows(Here(h), mapped[<<h, p>>], p, r, k)
            /\ Leads(r, MissedBy(h), k, Head(net[<<p, h>>]), e)
          => Knows(Here(h)', mapped'[<<h, p>>], p, r, e)
    <3>1. SUFFICES ASSUME NEW k \in Facts, NEW e \in Facts,
                          Knows(Here(h), mapped[<<h, p>>], p, r, k),
                          Leads(r, MissedBy(h), k, msg, e)
                   PROVE  Knows(Here(h)', mapped'[<<h, p>>], p, r, e)
      BY <1>1
    <3>2. Updates(h, p, msg, i, o, n, pair, new)
      BY <1>1
    <3>3. QED
      BY <1>1, <1>6, <1>7, <1>8, <3>1, <3>2, UpdatesKnows, ZenonT(60)
  <2>2. MissedBy(h)' = MissedBy(h)
    BY <1>2 DEF MissedBy
  <2>3. Here(p)' = Here(p)
    BY <1>3, <1>6
  <2>4. QED
    BY <1>2, <1>6, <1>10, <1>11, <1>14, <2>1, <2>2, <2>3, FlowTake
<1>15. CASE a = h /\ g = p
  <2>1. net'[<<a, g>>] = net[<<a, g>>]
    BY <1>6, <1>12, <1>15 DEF Others
  <2>2. Remains(Here(g), Here(g)', a)
    BY <1>3, <1>6, <1>15, RemainsStay
  <2>3. \A gone : ~Shown(o, p, peers[h], gone) /\ ~Shown(n, p, peers[h], gone)
    BY <1>3 DEF Shown, Succeeds
  <2>4. \A q : q # o /\ q # n => (q \in Here(h) <=> q \in Here(h)')
    BY <1>3
  <2>5. \A e \in Facts : Tells(Here(h), peers[h], MissedBy(p), p, r, e) =>
                         Tells(Here(h)', peers'[h], MissedBy(p), p, r, e)
    BY <1>2, <2>3, <2>4 DEF Tells
  <2>6. QED
    BY <1>2, <1>6, <1>10, <1>11, <1>13, <1>15, <2>1, <2>2, <2>5, FlowStays
<1>16. CASE a = h /\ g # p
  <2>1. g \in Others(h, p) <=> g \in peers[h]
    BY <1>16 DEF Others
  <2>2. Here(g)' = Here(g) /\ mapped'[<<g, a>>] = mapped[<<g, a>>]
    BY <1>3, <1>6, <1>11, <1>13, <1>16
  <2>3. net'[<<a, g>>] = IF g \in peers[h] /\ <<a, g>> \in live THEN net[<<a, g>>] \o msgs
                         ELSE net[<<a, g>>]
    BY <1>12, <1>16, <2>1
  <2>4. ASSUME g \in peers[h], NEW e \in Facts, Tells(Here(h), peers[h], MissedBy(g), g, r, e)
        PROVE  \E j \in Facts : /\ Stream(r, MissedBy(g), e, msgs, j)
                                /\ Tells(Here(h)', peers'[h], MissedBy(g), g, r, j)
    <3>1. CASE r = i
      <4>1. n.state = new.state /\ new.id = o.id /\ new.name = o.name /\ o.peer # g
        BY <1>3, <1>8, <1>16
      <4>2. new.state = "modified" => new.data # 0 /\ n.data = new.data
        BY <1>3, <1>8
      <4>3. n.state \in {"modified", "closed"}
        BY <1>3
      <4>4. Tells(Here(h), peers[h], MissedBy(g), g, o.id, e)
        BY <1>3, <2>4, <3>1
      <4>5. \E j \in Facts : /\ Stream(o.id, MissedBy(g), e, <<new>>, j)
                             /\ Tells(Here(h)', peers[h], MissedBy(g), g, o.id, j)
        BY <1>3, <1>9, <2>4, <4>1, <4>2, <4>3, <4>4, UpdateTells, ZenonT(60)
      <4>6. QED
        BY <1>2, <1>3, <1>4, <3>1, <4>5
    <3>2. CASE r # i
      <4>1. \A q : q.id = r => (q \in Here(h)' <=> q \in Here(h))
        BY <1>3, <3>2 DEF Succeeds
      <4>2. QED
        BY <1>2, <1>3, <1>4, <2>4, <3>2, <4>1, ElsewhereTells
    <3>3. QED
      BY <3>1, <3>2
  <2>5. QED
    BY <1>2, <1>10, <1>11, <1>16, <2>2, <2>3, <2>4, FlowSpread
<1>17. CASE a # h /\ (a # p \/ g # h)
  <2>1. net'[<<a, g>>] = net[<<a, g>>] /\ Here(a)' = Here(a) /\ mapped'[<<g, a>>] = mapped[<<g, a>>]
    BY <1>3, <1>10, <1>12, <1>13, <1>17
  <2>2. \A q \in Here(g) : q.peer = a => q \in Here(g)'
    <3>1. CASE g # h
      BY <1>3, <3>1
    <3>2. CASE g = h
      BY <1>3, <1>17, <3>2
    <3>3. QED
      BY <3>1, <3>2
  <2>3. Remains(Here(g), Here(g)', a)
    BY <2>2, RemainsStay
  <2>4. QED
    BY <1>2, <1>10, <1>11, <2>1, <2>3, FlowStays
<1>18. QED
  BY <1>14, <1>15, <1>16, <1>17

LEMMA HandleModifiedFlow ==
  ASSUME Inv, Rest, Flows, NEW h \in Hosts, NEW p \in Hosts, HandleModified(h, p)
  PROVE  Flows'
<1>1. Comes(h, p, "modified")
  BY DEF HandleModified
<1>2. CASE Still
  BY <1>2, StillFlow
<1>3. ASSUME UNCHANGED <<wires, mapped, history>>,
             NEW i \in Ids, NEW o \in Here(h), NEW n \in Copies, NEW pair \in mapped[<<h, p>>],
             NEW new \in GoodMsgs, Updates(h, p, Message(h, p), i, o, n, pair, new)
      PROVE  Flows'
  <2>1. mapped' = [mapped EXCEPT ![<<h, p>>] =
                     IF "modified" = "closed" THEN {q \in @ : q[1] # i} ELSE @]
    BY <1>3 DEF Inv, StoreTyped
  <2>2. QED
    BY <1>1, <1>3, <2>1, UpdatesFlow
<1>4. QED
  BY <1>2, <1>3, ModifiedDoes DEF Rest

LEMMA HandleClosedFlow ==
  ASSUME Inv, Rest, Flows, NEW h \in Hosts, NEW p \in Hosts, HandleClosed(h, p)
  PROVE  Flows'
<1>1. Comes(h, p, "closed")
  BY DEF HandleClosed
<1>2. CASE Still
  BY <1>2, StillFlow
<1>3. ASSUME UNCHANGED <<wires, history>>,
             NEW i \in Ids, NEW o \in Here(h), NEW n \in Copies, NEW pair \in mapped[<<h, p>>],
             NEW new \in GoodMsgs, Updates(h, p, Message(h, p), i, o, n, pair, new),
             mapped' = [mapped EXCEPT ![<<h, p>>] = {q \in @ : q[1] # i}]
      PROVE  Flows'
  <2>1. mapped' = [mapped EXCEPT ![<<h, p>>] =
                     IF "closed" = "closed" THEN {q \in @ : q[1] # i} ELSE @]
    BY <1>3
  <2>2. QED
    BY <1>1, <1>3, <2>1, UpdatesFlow
<1>4. QED
  BY <1>2, <1>3, ClosedDoes DEF Rest

\* What the receiver knows after a message that an object has been created.
LEMMA ReceivesKnows ==
  ASSUME Inv, NEW h \in Hosts, NEW p \in Hosts, <<h, p>> \in Links, NEW msg \in GoodMsgs,
         msg.state = "created", NEW o \in Copies, NEW new, Receives(h, p, msg, o, new),
         NEW r, NEW gone, NEW k \in Facts, NEW e \in Facts,
         Knows(Here(h), mapped[<<h, p>>], p, r, k), Leads(r, gone, k, msg, e)
  PROVE  Knows(Here(h)', mapped'[<<h, p>>], p, r, e)
<1>1. /\ o.name = msg.name /\ o.peer = p /\ o.state = "created" /\ o.data = msg.data
      /\ \A pair \in mapped[<<h, p>>] : pair[2] # msg.id
      /\ Here(h)' = Here(h) \union {o}
      /\ mapped' = [mapped EXCEPT ![<<h, p>>] = @ \union {<<o.id, msg.id>>}]
  BY DEF Receives
<1>2. mapped'[<<h, p>>] = mapped[<<h, p>>] \union {<<o.id, msg.id>>}
  BY <1>1 DEF Inv, StoreTyped
<1>3. e = After(r, k, msg)
  BY DEF Leads
<1>4. CASE r # msg.id
  <2>1. e = k
    BY <1>3, <1>4, AfterIs
  <2>2. CASE k = Nothing
    BY <1>2, <1>4, <2>1, <2>2 DEF Knows
  <2>3. CASE k # Nothing
    <3>1. PICK q \in mapped[<<h, p>>], u \in Here(h) :
            /\ q[2] = r /\ u.id = q[1] /\ u.peer = p /\ Open(u)
            /\ k = [name |-> u.name, data |-> u.data]
      BY <2>3 DEF Knows
    <3>2. q \in mapped'[<<h, p>>] /\ u \in Here(h)'
      BY <1>1, <1>2
    <3>3. QED
      BY <2>1, <2>3, <3>1, <3>2 DEF Knows
  <2>4. QED
    BY <2>2, <2>3
<1>5. CASE r = msg.id
  <2>1. e = [name |-> o.name, data |-> o.data]
    BY <1>1, <1>3, <1>5, AfterIs
  <2>2. e # Nothing
    <3>1. o.name \in Objects /\ o.data \in Nat
      BY DEF Copies
    <3>2. QED
      BY <2>1, <3>1, FactOf
  <2>3. PICK q \in mapped'[<<h, p>>] : q[1] = o.id /\ q[2] = r
    <3>1. PICK pair : pair = <<o.id, msg.id>>
      OBVIOUS
    <3>2. pair[1] = o.id /\ pair[2] = r
      BY <1>5, <3>1
    <3>3. pair \in mapped'[<<h, p>>]
      BY <1>2, <3>1
    <3>4. QED
      BY <3>2, <3>3
  <2>4. o \in Here(h)' /\ Open(o)
    BY <1>1 DEF Open
  <2>5. o.peer = p /\ q[2] = r /\ o.id = q[1]
    BY <1>1, <2>3
  <2>6. \E pair \in mapped'[<<h, p>>], u \in Here(h)' :
          /\ pair[2] = r /\ u.id = pair[1] /\ u.peer = p /\ Open(u)
          /\ e = [name |-> u.name, data |-> u.data]
    BY <2>1, <2>3, <2>4, <2>5, ZenonT(60)
  <2>7. QED
    BY <2>2, <2>6, ZenonT(60) DEF Knows
<1>6. QED
  BY <1>4, <1>5

LEMMA ReceivesFlow ==
  ASSUME Inv, Rest, Flows, NEW h \in Hosts, NEW p \in Hosts, Comes(h, p, "created"),
         UNCHANGED <<wires, history>>, NEW o \in Copies, NEW new \in GoodMsgs,
         Receives(h, p, Message(h, p), o, new)
  PROVE  Flows'
<1>1. PICK msg \in GoodMsgs : msg = Message(h, p) /\ msg = Head(net[<<p, h>>]) /\ msg.state = "created"
  BY Event DEF Message
<1>2. missed' = missed /\ live' = live /\ peers' = peers
  BY DEF wires, history
<1>3. /\ o.name = msg.name /\ o.peer = p /\ o.state = "created" /\ o.data = msg.data
      /\ idMap[h][o.id] = None
      /\ Here(h)' = Here(h) \union {o}
      /\ \A k \in Hosts : k # h => Here(k)' = Here(k)
      /\ mapped' = [mapped EXCEPT ![<<h, p>>] = @ \union {<<o.id, msg.id>>}]
      /\ new.state = "created" /\ new.id = o.id /\ new.name = msg.name /\ new.data = msg.data
      /\ Handled(h, p, Others(h, p), <<new>>)
  BY <1>1 DEF Receives
<1>4. PICK msgs \in Seq(GoodMsgs) : msgs = <<new>>
  <2>1. <<new>> \in Seq(GoodMsgs)
    OBVIOUS
  <2>2. QED
    BY <2>1
<1>5. Wired /\ Handled(h, p, Others(h, p), msgs)
  BY <1>3, <1>4 DEF Rest
<1>6. /\ <<p, h>> \in Links /\ <<h, p>> \in Links /\ p # h /\ net[<<p, h>>] # <<>>
      /\ net'[<<p, h>>] = Tail(net[<<p, h>>]) /\ net[<<p, h>>] \in Seq(GoodMsgs)
      /\ p = Server \/ (h = Server /\ p \in Clients)
  BY <1>5, Taken
<1>7. \A l \in Links : l # <<h, p>> => mapped'[l] = mapped[l]
  BY <1>3, <1>6 DEF Inv, StoreTyped
<1>8. ~IsLocal(o) /\ Open(o) /\ o.name \in Objects /\ o.data \in Nat
  BY <1>3, GameNetAssumption DEF IsLocal, Open, Hosts, Copies
<1>9. \A q \in Here(h) : ~Unmapped(q) => q.id # o.id
  <2>1. \A q \in Here(h) : ~Unmapped(q) => idMap[h][q.id] = q.name
    BY StoreOf DEF Tables, Row
  <2>2. \A q \in Here(h) : q.name # None
    BY RowOf, GameNetAssumption
  <2>3. QED
    BY <1>3, <2>1, <2>2
<1>10. SUFFICES ASSUME NEW a \in Hosts, NEW g \in Hosts, <<a, g>> \in Links, NEW r \in Ids
                PROVE  Flow(a, g, r)'
  BY DEF Flows
<1>11. Flow(a, g, r) /\ a # g /\ <<g, a>> \in Links
  BY <1>10 DEF Flows, Links
<1>12. a # p \/ g # h =>
         net'[<<a, g>>] = IF a = h /\ g \in Others(h, p) /\ <<a, g>> \in live
                          THEN net[<<a, g>>] \o msgs ELSE net[<<a, g>>]
  BY <1>5, <1>10, TakenAt
<1>13. g # h \/ a # p => mapped'[<<g, a>>] = mapped[<<g, a>>]
  BY <1>7, <1>11
<1>14. CASE a = p /\ g = h
  <2>1. \A k, e \in Facts :
          Knows(Here(h), mapped[<<h, p>>], p, r, k)
            /\ Leads(r, MissedBy(h), k, Head(net[<<p, h>>]), e)
          => Knows(Here(h)', mapped'[<<h, p>>], p, r, e)
    <3>1. SUFFICES ASSUME NEW k \in Facts, NEW e \in Facts,
                          Knows(Here(h), mapped[<<h, p>>], p, r, k),
                          Leads(r, MissedBy(h), k, msg, e)
                   PROVE  Knows(Here(h)', mapped'[<<h, p>>], p, r, e)
      BY <1>1
    <3>2. Receives(h, p, msg, o, new)
      BY <1>1
    <3>3. QED
      BY <1>1, <1>6, <3>1, <3>2, ReceivesKnows, ZenonT(60)
  <2>2. MissedBy(h)' = MissedBy(h)
    BY <1>2 DEF MissedBy
  <2>3. Here(p)' = Here(p)
    BY <1>3, <1>6
  <2>4. QED
    BY <1>2, <1>6, <1>10, <1>11, <1>14, <2>1, <2>2, <2>3, FlowTake
<1>15. CASE a = h /\ g = p
  <2>1. net'[<<a, g>>] = net[<<a, g>>]
    BY <1>6, <1>12, <1>15 DEF Others
  <2>2. Remains(Here(g), Here(g)', a)
    BY <1>3, <1>6, <1>15, RemainsStay
  <2>3. \A gone : ~Shown(o, p, peers[h], gone)
    BY <1>3 DEF Shown
  <2>4. \A q : q # o => (q \in Here(h) <=> q \in Here(h)')
    BY <1>3
  <2>5. \A e \in Facts : Tells(Here(h), peers[h], MissedBy(p), p, r, e) =>
                         Tells(Here(h)', peers'[h], MissedBy(p), p, r, e)
    BY <1>2, <2>3, <2>4 DEF Tells
  <2>6. QED
    BY <1>2, <1>6, <1>10, <1>11, <1>13, <1>15, <2>1, <2>2, <2>5, FlowStays
<1>16. CASE a = h /\ g # p
  <2>1. g \in Others(h, p) <=> g \in peers[h]
    BY <1>16 DEF Others
  <2>2. Here(g)' = Here(g) /\ mapped'[<<g, a>>] = mapped[<<g, a>>]
    BY <1>3, <1>6, <1>11, <1>13, <1>16
  <2>3. net'[<<a, g>>] = IF g \in peers[h] /\ <<a, g>> \in live THEN net[<<a, g>>] \o msgs
                         ELSE net[<<a, g>>]
    BY <1>12, <1>16, <2>1
  <2>4. h = Server /\ p \in Clients
    BY <1>6, <1>10, <1>16 DEF Links
  <2>5. o.name \notin MissedBy(g)
    <3>1. Arrives(p)
      BY <2>4 DEF Rest, Named, Arriving
    <3>2. msg \in Range(net[<<p, Server>>])
      BY <1>1, <1>6, <2>4, TailIs
    <3>3. Unheard(msg.name)
      BY <1>1, <3>1, <3>2 DEF Arrives
    <3>4. QED
      BY <1>3, <1>10, <3>3 DEF Unheard, MissedBy
  <2>6. ASSUME g \in peers[h], NEW e \in Facts, Tells(Here(h), peers[h], MissedBy(g), g, r, e)
        PROVE  \E j \in Facts : /\ Stream(r, MissedBy(g), e, msgs, j)
                                /\ Tells(Here(h)', peers'[h], MissedBy(g), g, r, j)
    <3>1. CASE r = o.id
      <4>1. /\ new.state = "created" /\ new.id = o.id /\ new.name = o.name /\ new.data = o.data
            /\ o.peer # g
        BY <1>3, <1>16
      <4>2. Tells(Here(h), peers[h], MissedBy(g), g, o.id, e)
        BY <2>6, <3>1
      <4>3. \E j \in Facts : /\ Stream(o.id, MissedBy(g), e, <<new>>, j)
                             /\ Tells(Here(h)', peers[h], MissedBy(g), g, o.id, j)
        BY <1>3, <1>8, <1>9, <2>5, <2>6, <4>1, <4>2, CreateTells, ZenonT(60)
      <4>4. QED
        BY <1>2, <1>4, <3>1, <4>3
    <3>2. CASE r # o.id
      <4>1. \A q : q.id = r => (q \in Here(h)' <=> q \in Here(h))
        BY <1>3, <3>2
      <4>2. QED
        BY <1>2, <1>3, <1>4, <2>6, <3>2, <4>1, ElsewhereTells
    <3>3. QED
      BY <3>1, <3>2
  <2>7. QED
    BY <1>2, <1>10, <1>11, <1>16, <2>2, <2>3, <2>6, FlowSpread
<1>17. CASE a # h /\ (a # p \/ g # h)
  <2>1. net'[<<a, g>>] = net[<<a, g>>] /\ Here(a)' = Here(a) /\ mapped'[<<g, a>>] = mapped[<<g, a>>]
    BY <1>3, <1>10, <1>12, <1>13, <1>17
  <2>2. \A q \in Here(g) : q.peer = a => q \in Here(g)'
    BY <1>3, <1>10
  <2>3. Remains(Here(g), Here(g)', a)
    BY <2>2, RemainsStay
  <2>4. QED
    BY <1>2, <1>10, <1>11, <2>1, <2>3, FlowStays
<1>18. QED
  BY <1>14, <1>15, <1>16, <1>17

LEMMA HandleCreatedFlow ==
  ASSUME Inv, Rest, Flows, NEW h \in Hosts, NEW p \in Hosts, HandleCreated(h, p)
  PROVE  Flows'
<1>1. Comes(h, p, "created")
  BY DEF HandleCreated
<1>2. QED
  BY <1>1, CreatedDoes, StillFlow, ReceivesFlow DEF Rest

\* The objects of a peer that is gone are closed, and the others are told so.
LEMMA LosesTells ==
  ASSUME Inv, NEW h \in Hosts, NEW p \in Hosts, NEW msgs \in Seq(GoodMsgs), Loses(h, p, msgs),
         NEW g \in Hosts, g # p, NEW ps, g \in ps, NEW pt, g \in pt, NEW gone,
         NEW r \in Ids, NEW e \in Facts, Tells(Here(h), ps, gone, g, r, e)
  PROVE  \E i \in Facts : Stream(r, gone, e, msgs, i) /\ Tells(Here(h)', pt, gone, g, r, i)
<1>1. /\ \A o \in Here(h) : o.peer = p => Open(o)
      /\ \A o \in Here(h) : o.peer = p => \E m \in Range(msgs) : m.id = o.id
      /\ \A m \in Range(msgs) : m.state = "closed" /\ \E o \in Here(h) :
           o.peer = p /\ m.id = o.id /\ m.name = o.name
      /\ \A i, j \in 1 .. Len(msgs) : msgs[i].id = msgs[j].id => i = j
      /\ \A q \in Here(h)' : \E o \in Here(h) : q = IF o.peer = p THEN Closed(o) ELSE o
      /\ \A o \in Here(h) : o.peer # p => o \in Here(h)'
  BY DEF Loses
<1>2. p # None
  BY GameNetAssumption DEF Hosts
<1>3. \A q \in Here(h)' : ~Unmapped(q) => q \in Here(h) /\ q.peer # p
  <2>1. SUFFICES ASSUME NEW q \in Here(h)', ~Unmapped(q)
                 PROVE  q \in Here(h) /\ q.peer # p
    OBVIOUS
  <2>2. PICK o \in Here(h) : q = IF o.peer = p THEN Closed(o) ELSE o
    BY <1>1
  <2>3. CASE o.peer = p
    <3>1. o \in Copies
      BY StoreOf
    <3>2. q.peer = p /\ ~Open(q)
      BY <2>2, <2>3, <3>1, ClosedIs
    <3>3. QED
      BY <1>2, <2>1, <3>2 DEF Unmapped, IsLocal
  <2>4. QED
    BY <2>2, <2>3
<1>4. \A a, b \in Here(h) : ~Unmapped(a) /\ ~Unmapped(b) /\ a.id = b.id => a = b
  BY RowOf
<1>5. CASE \E o \in Here(h) : o.peer = p /\ o.id = r
  <2>1. PICK o \in Here(h) : o.peer = p /\ o.id = r
    BY <1>5
  <2>2. Open(o) /\ ~Unmapped(o) /\ ~IsLocal(o)
    BY <1>1, <1>2, <2>1 DEF Unmapped, IsLocal
  <2>3. PICK m \in Range(msgs) : m.id = r
    BY <1>1, <2>1
  <2>4. PICK u \in Here(h) : u.peer = p /\ m.id = u.id /\ m.name = u.name /\ m.state = "closed"
    BY <1>1
  <2>5. ~Unmapped(u)
    BY <1>1, <2>4 DEF Unmapped
  <2>6. u = o
    BY <1>4, <2>1, <2>2, <2>3, <2>4, <2>5
  <2>7. /\ Shown(o, g, ps, gone) => e # Nothing /\ Agrees(e, o)
        /\ ~Shown(o, g, ps, gone) => e = Nothing
    BY <2>1, <2>2, TellsIs
  <2>8. e.name = m.name \/ (e = Nothing /\ m.name \in gone)
    BY <2>1, <2>2, <2>4, <2>6, <2>7 DEF Shown, Agrees
  <2>9. PICK i \in Facts : i = Nothing
    BY DEF Facts
  <2>10. m \in GoodMsgs
    BY RangeIs
  <2>11. After(r, e, m) = i
    BY <2>3, <2>4, <2>9, <2>10, AfterIs
  <2>12. Leads(r, gone, e, m, i)
    BY <2>4, <2>8, <2>11 DEF Leads, Fits
  <2>13. Stream(r, gone, e, msgs, i)
    BY <1>1, <2>3, <2>12, StreamBatch
  <2>14. \A q \in Here(h)' : ~Unmapped(q) => q.id # r
    BY <1>3, <1>4, <2>1, <2>2
  <2>15. Tells(Here(h)', pt, gone, g, r, i)
    BY <2>9, <2>14 DEF Tells, Shown
  <2>16. QED
    BY <2>13, <2>15
<1>6. CASE \A o \in Here(h) : o.peer = p => o.id # r
  <2>1. \A m \in Range(msgs) : m.id # r
    BY <1>1, <1>6
  <2>2. Stream(r, gone, e, msgs, e)
    BY <2>1, StreamNone
  <2>3. \A o \in Here(h) : o.id = r /\ Shown(o, g, ps, gone) =>
          \E q \in Here(h)' : /\ q.id = r /\ Shown(q, g, pt, gone)
                              /\ Agrees(e, o) => Agrees(e, q)
    BY <1>1, <1>6 DEF Shown
  <2>4. \A q \in Here(h)' : q.id = r /\ Shown(q, g, pt, gone) =>
          \E o \in Here(h) : o.id = r /\ Shown(o, g, ps, gone)
    BY <1>3 DEF Shown
  <2>5. Tells(Here(h)', pt, gone, g, r, e)
    BY <2>3, <2>4, TellsRemains
  <2>6. QED
    BY <2>2, <2>5
<1>7. QED
  BY <1>5, <1>6

LEMMA LosesFlow ==
  ASSUME Inv, Rest, Flows, NEW h \in Hosts, NEW p \in Hosts, Comes(h, p, "disconnect"),
         UNCHANGED <<enetHost, live, history>>, NEW msgs \in Seq(GoodMsgs), Loses(h, p, msgs)
  PROVE  Flows'
<1>1. /\ Handled(h, p, Others(h, p), msgs)
      /\ mapped' = [mapped EXCEPT ![<<h, p>>] = {}]
      /\ \A o \in Here(h) : o.peer # p => o \in Here(h)'
      /\ \A k \in Hosts : k # h => Here(k)' = Here(k)
      /\ peers' = [peers EXCEPT ![h] = @ \ {p}]
  BY DEF Loses
<1>2. missed' = missed /\ live' = live
  BY DEF history
<1>3. Wired
  BY DEF Rest
<1>4. /\ <<p, h>> \in Links /\ <<h, p>> \in Links /\ p # h /\ net[<<p, h>>] # <<>>
      /\ net'[<<p, h>>] = Tail(net[<<p, h>>]) /\ net[<<p, h>>] \in Seq(GoodMsgs)
  BY <1>1, <1>3, Taken
<1>5. \A l \in Links : l # <<h, p>> => mapped'[l] = mapped[l]
  BY <1>1, <1>4 DEF Inv, StoreTyped
<1>6. mapped'[<<h, p>>] = {}
  BY <1>1, <1>4 DEF Inv, StoreTyped
<1>7. \A k \in Hosts : peers'[k] = IF k = h THEN peers[k] \ {p} ELSE peers[k]
  BY <1>1 DEF Inv, WiresTyped
<1>8. Tail(net[<<p, h>>]) = <<>> /\ <<p, h>> \notin live /\ <<h, p>> \notin live
  <2>1. Framing(<<p, h>>)
    BY <1>3, <1>4 DEF Wired, Frames
  <2>2. Head(net[<<p, h>>]).state = "disconnect" /\ Head(net[<<p, h>>]) \in Range(net[<<p, h>>])
    BY <1>4, TailIs DEF Comes
  <2>3. Tail(net[<<p, h>>]) = <<>> /\ <<p, h>> \notin live
    BY <1>4, <2>1, <2>2, FramedTail DEF Framing
  <2>4. <<h, p>> \in live => <<p, h>> \in live
    <3>1. PICK l : l = <<h, p>>
      OBVIOUS
    <3>2. l[1] = h /\ l[2] = p
      BY <3>1
    <3>3. l \in live => <<l[2], l[1]>> \in live
      BY <1>3 DEF Wired, Symmetric
    <3>4. QED
      BY <3>1, <3>2, <3>3
  <2>5. QED
    BY <2>3, <2>4
<1>9. SUFFICES ASSUME NEW a \in Hosts, NEW g \in Hosts, <<a, g>> \in Links, NEW r \in Ids
               PROVE  Flow(a, g, r)'
  BY DEF Flows
<1>10. Flow(a, g, r) /\ a # g /\ <<g, a>> \in Links
  BY <1>9 DEF Flows, Links
<1>11. a # p \/ g # h =>
         net'[<<a, g>>] = IF a = h /\ g \in Others(h, p) /\ <<a, g>> \in live
                          THEN net[<<a, g>>] \o msgs ELSE net[<<a, g>>]
  BY <1>1, <1>3, <1>9, TakenAt
<1>12. g # h \/ a # p => mapped'[<<g, a>>] = mapped[<<g, a>>]
  BY <1>5, <1>10
<1>13. MissedBy(g)' = MissedBy(g)
  BY <1>2 DEF MissedBy
<1>14. CASE a = p /\ g = h
  <2>1. PICK k \in Facts : k = Nothing
    BY DEF Facts
  <2>2. Knows(Here(g)', mapped'[<<g, a>>], a, r, k)
    BY <1>6, <1>14, <2>1 DEF Knows
  <2>3. Stream(r, MissedBy(g)', k, net'[<<a, g>>], k)
    BY <1>4, <1>8, <1>14, StreamEmpty
  <2>4. <<a, g>> \notin live'
    BY <1>2, <1>8, <1>14
  <2>5. QED
    BY <2>2, <2>3, <2>4 DEF Flow
<1>15. CASE a = h /\ g = p
  <2>1. net'[<<a, g>>] = net[<<a, g>>]
    BY <1>8, <1>11, <1>15, <1>4
  <2>2. Here(g)' = Here(g) /\ mapped'[<<g, a>>] = mapped[<<g, a>>]
    BY <1>1, <1>4, <1>12, <1>15
  <2>3. <<a, g>> \notin live'
    BY <1>2, <1>8, <1>15
  <2>4. PICK k \in Facts, e \in Facts : /\ Knows(Here(g), mapped[<<g, a>>], a, r, k)
                                        /\ Stream(r, MissedBy(g), k, net[<<a, g>>], e)
    BY <1>10 DEF Flow
  <2>5. QED
    BY <1>13, <2>1, <2>2, <2>3, <2>4 DEF Flow
<1>16. CASE a = h /\ g # p
  <2>1. g \in Others(h, p) <=> g \in peers[h]
    BY <1>16 DEF Others
  <2>2. Here(g)' = Here(g) /\ mapped'[<<g, a>>] = mapped[<<g, a>>]
    BY <1>1, <1>10, <1>12, <1>16
  <2>3. net'[<<a, g>>] = IF g \in peers[h] /\ <<a, g>> \in live THEN net[<<a, g>>] \o msgs
                         ELSE net[<<a, g>>]
    BY <1>11, <1>16, <2>1
  <2>4. g \in peers'[h] <=> g \in peers[h]
    BY <1>7, <1>16
  <2>5. ASSUME g \in peers[h], NEW e \in Facts, Tells(Here(h), peers[h], MissedBy(g), g, r, e)
        PROVE  \E i \in Facts : /\ Stream(r, MissedBy(g), e, msgs, i)
                                /\ Tells(Here(h)', peers'[h], MissedBy(g), g, r, i)
    <3>1. g \in peers'[h] /\ g # p
      BY <1>16, <2>4, <2>5
    <3>2. QED
      BY <1>9, <2>5, <3>1, LosesTells, ZenonT(60)
  <2>6. QED
    BY <1>2, <1>9, <1>10, <1>16, <2>2, <2>3, <2>4, <2>5, FlowSpread
<1>17. CASE a # h /\ (a # p \/ g # h)
  <2>1. net'[<<a, g>>] = net[<<a, g>>] /\ Here(a)' = Here(a) /\ mapped'[<<g, a>>] = mapped[<<g, a>>]
        /\ peers'[a] = peers[a]
    BY <1>1, <1>7, <1>9, <1>11, <1>12, <1>17
  <2>2. \A q \in Here(g) : q.peer = a => q \in Here(g)'
    BY <1>1, <1>9, <1>17
  <2>3. Remains(Here(g), Here(g)', a)
    BY <2>2, RemainsStay
  <2>4. QED
    BY <1>2, <1>9, <1>10, <2>1, <2>3, FlowStays
<1>18. QED
  BY <1>14, <1>15, <1>16, <1>17

LEMMA HandleDisconnectFlow ==
  ASSUME Inv, Rest, Flows, NEW h \in Hosts, NEW p \in Hosts, HandleDisconnect(h, p)
  PROVE  Flows'
<1>1. Comes(h, p, "disconnect")
  BY DEF HandleDisconnect
<1>2. QED
  BY <1>1, DisconnectDoes, StillFlow, LosesFlow DEF Rest

\* A new peer is told of each object that it is to be shown.
LEMMA AddsTells ==
  ASSUME Inv, NEW h \in Hosts, NEW msgs \in Seq(GoodMsgs), AddsAll(h, msgs),
         NEW g, NEW ps, NEW gone, NEW r \in Ids,
         \A o \in Here(h) : Shown(o, g, ps, gone) <=> o.state \in {"synced", "modified"}
  PROVE  \E i \in Facts : Stream(r, gone, Nothing, msgs, i) /\ Tells(Here(h), ps, gone, g, r, i)
<1>1. /\ \A o \in Here(h) : o.state \in {"synced", "modified"} => \E m \in Range(msgs) : m.id = o.id
      /\ \A m \in Range(msgs) : m.state = "created" /\ \E o \in Here(h) :
           /\ o.state \in {"synced", "modified"}
           /\ m.id = o.id /\ m.name = o.name /\ m.data = o.data
      /\ \A i, j \in 1 .. Len(msgs) : msgs[i].id = msgs[j].id => i = j
  BY DEF AddsAll
<1>2. PICK k \in Facts : k = Nothing
  BY DEF Facts
<1>3. \A a, b \in Here(h) : ~Unmapped(a) /\ ~Unmapped(b) /\ a.id = b.id => a = b
  BY RowOf
<1>4. CASE \E o \in Here(h) : o.id = r /\ o.state \in {"synced", "modified"}
  <2>1. PICK o \in Here(h) : o.id = r /\ o.state \in {"synced", "modified"}
    BY <1>4
  <2>2. Shown(o, g, ps, gone) /\ ~Unmapped(o)
    BY <2>1 DEF Shown
  <2>3. PICK m \in Range(msgs) : m.id = r
    BY <1>1, <2>1
  <2>4. PICK u \in Here(h) : /\ u.state \in {"synced", "modified"} /\ m.state = "created"
                             /\ m.id = u.id /\ m.name = u.name /\ m.data = u.data
    BY <1>1
  <2>5. ~Unmapped(u)
    BY <2>4 DEF Shown
  <2>6. u = o
    BY <1>3, <2>1, <2>2, <2>3, <2>4, <2>5
  <2>7. o.name \in Objects /\ o.data \in Nat
    BY RowOf
  <2>8. PICK i \in Facts : i = [name |-> o.name, data |-> o.data] /\ i # Nothing
                           /\ i.name = o.name /\ i.data = o.data
    BY <2>7, FactOf
  <2>9. m \in GoodMsgs
    BY RangeIs
  <2>10. After(r, k, m) = i
    BY <2>3, <2>4, <2>6, <2>8, <2>9, AfterIs
  <2>11. Leads(r, gone, k, m, i)
    BY <1>2, <2>4, <2>10 DEF Leads, Fits
  <2>12. Stream(r, gone, k, msgs, i)
    BY <1>1, <2>3, <2>11, StreamBatch
  <2>13. Agrees(i, o)
    BY <2>8 DEF Agrees
  <2>14. Tells(Here(h), ps, gone, g, r, i)
    BY <2>1, <2>2, <2>8, <2>13 DEF Tells
  <2>15. QED
    BY <1>2, <2>12, <2>14
<1>5. CASE \A o \in Here(h) : o.id = r => o.state \notin {"synced", "modified"}
  <2>1. \A m \in Range(msgs) : m.id # r
    BY <1>1, <1>5
  <2>2. Stream(r, gone, k, msgs, k)
    BY <2>1, StreamNone
  <2>3. Tells(Here(h), ps, gone, g, r, k)
    BY <1>2, <1>5 DEF Tells
  <2>4. QED
    BY <1>2, <2>2, <2>3
<1>6. QED
  BY <1>4, <1>5

LEMMA JoinsFlow ==
  ASSUME Inv, Rest, Flows, NEW c \in Hosts, NEW msgs \in Seq(GoodMsgs), Joins(c, msgs), AddsAll(c, msgs)
  PROVE  Flows'
<1>1. /\ c \in Clients /\ c \notin enetHost
      /\ peers'[c] = {Server} /\ \A k \in Hosts : k # c => peers'[k] = peers[k]
      /\ \A l : l \in live' <=> l \in live \/ l = <<c, Server>> \/ l = <<Server, c>>
      /\ net'[<<c, Server>>] = <<Connect>> \o msgs
      /\ \A l \in Links : l # <<c, Server>> => net'[l] = net[l]
      /\ missed \subseteq missed'
      /\ \A k \in Hosts, x \in Objects : <<k, x>> \in missed' => <<k, x>> \in missed
           \/ (k = Server /\ \E o \in Here(c) : o.name = x /\ IsLocal(o) /\ o.state = "closed")
      /\ \A o \in Here(c) : IsLocal(o) /\ o.state = "closed" => <<Server, o.name>> \in missed'
      /\ objects' = objects /\ mapped' = mapped
  BY DEF Joins
<1>2. Wired /\ Named
  BY DEF Rest
<1>3. \A k : Here(k)' = Here(k)
  BY <1>1, HereSame
<1>4. Server \in Hosts /\ c # Server
  BY <1>1, GameNetAssumption DEF Hosts
<1>5. <<c, Server>> \in Links /\ <<Server, c>> \in Links
  BY <1>4 DEF Links
<1>6. /\ net[<<c, Server>>] = <<>> /\ net[<<Server, c>>] = <<>>
      /\ \A o \in Here(c) : IsLocal(o)
  BY <1>1, <1>2 DEF Wired, Unconnected
<1>7. /\ c \notin peers[Server]
      /\ \A o \in Here(Server) : o.peer # c
  BY <1>1, <1>2 DEF Wired, Strangers, NotYet
<1>8. \A k \in Hosts : \A o \in Here(k) : o.name \in Objects /\ o \in Copies
  BY StoreOf, RowOf
<1>9. \A k \in Hosts : MissedBy(k) \subseteq MissedBy(k)'
  BY <1>1 DEF MissedBy
<1>10. \A o \in Here(c) : o.state \in {"created", "modified", "synced", "closed", "zombie"}
  BY <1>8 DEF Copies
<1>11. ASSUME NEW r \in Ids
       PROVE  Flow(c, Server, r)'
  <2>1. PICK k \in Facts, e \in Facts : Knows(Here(Server), mapped[<<Server, c>>], c, r, k)
    BY <1>4, <1>5, <1>11 DEF Flows, Flow
  <2>2. k = Nothing
    BY <1>7, <2>1 DEF Knows
  <2>3. Knows(Here(Server)', mapped'[<<Server, c>>], c, r, k)
    BY <1>1, <1>3, <2>1
  <2>4. ASSUME NEW o \in Here(c)
        PROVE  Shown(o, Server, peers'[c], MissedBy(Server)') <=> o.state \in {"synced", "modified"}
    <3>1. IsLocal(o) /\ ~Unmapped(o) /\ o.peer # Server /\ Server \in peers'[c]
      BY <1>1, <1>6, <2>4, GameNetAssumption DEF IsLocal, Unmapped
    <3>2. o.state = "closed" => o.name \in MissedBy(Server)'
      BY <1>1, <1>8, <2>4, <3>1 DEF MissedBy
    <3>3. o.state \in {"synced", "modified"} => o.name \notin MissedBy(Server)'
      <4>1. SUFFICES ASSUME o.state \in {"synced", "modified"}, <<Server, o.name>> \in missed'
                     PROVE  FALSE
        BY DEF MissedBy
      <4>2. <<Server, o.name>> \notin missed
        BY <1>1, <1>2, <1>4, <2>4, <3>1 DEF Named, Unsent, Unheard
      <4>3. PICK q \in Here(c) : q.name = o.name /\ IsLocal(q) /\ q.state = "closed"
        BY <1>1, <1>4, <1>8, <2>4, <4>1, <4>2
      <4>4. q = o
        BY <1>2, <2>4, <3>1, <4>3 DEF Named, Once
      <4>5. QED
        BY <4>1, <4>3, <4>4
    <3>4. QED
      BY <1>10, <2>4, <3>1, <3>2, <3>3 DEF Shown
  <2>5. PICK i \in Facts : /\ Stream(r, MissedBy(Server)', Nothing, msgs, i)
                           /\ Tells(Here(c), peers'[c], MissedBy(Server)', Server, r, i)
    BY <1>11, <2>4, AddsTells
  <2>6. PICK s \in Seq(GoodMsgs) : s = <<Connect>>
    <3>1. <<Connect>> \in Seq(GoodMsgs)
      BY DisconnectGood
    <3>2. QED
      BY <3>1
  <2>7. Stream(r, MissedBy(Server)', k, <<Connect>>, k)
    <3>1. Connect.state \notin Telling
      BY DEF Connect, Msg, Telling
    <3>2. QED
      BY <3>1, DisconnectGood, Unconcerned, StreamSingle
  <2>8. Stream(r, MissedBy(Server)', k, net'[<<c, Server>>], i)
    <3>1. Stream(r, MissedBy(Server)', k, s \o msgs, i)
      BY <2>2, <2>5, <2>6, <2>7, StreamConcat
    <3>2. QED
      BY <1>1, <2>6, <3>1
  <2>9. Tells(Here(c)', peers'[c], MissedBy(Server)', Server, r, i)
    BY <1>3, <2>5
  <2>10. QED
    BY <2>3, <2>8, <2>9 DEF Flow
<1>12. ASSUME NEW r \in Ids
       PROVE  Flow(Server, c, r)'
  <2>1. PICK k \in Facts, e \in Facts : Knows(Here(c), mapped[<<c, Server>>], Server, r, k)
    BY <1>4, <1>5, <1>12 DEF Flows, Flow
  <2>2. k = Nothing
    BY <1>6, <2>1, GameNetAssumption DEF Knows, IsLocal
  <2>3. Knows(Here(c)', mapped'[<<c, Server>>], Server, r, k)
    BY <1>1, <1>3, <2>1
  <2>4. net'[<<Server, c>>] = <<>>
    <3>1. PICK l \in Links : l = <<Server, c>>
      BY <1>5
    <3>2. l # <<c, Server>>
      BY <1>4, <3>1
    <3>3. QED
      BY <1>1, <1>6, <3>1, <3>2
  <2>5. Stream(r, MissedBy(c)', k, net'[<<Server, c>>], k)
    BY <2>4, StreamEmpty
  <2>6. Tells(Here(Server)', peers'[Server], MissedBy(c)', c, r, k)
    BY <1>1, <1>4, <1>7, <2>2, TellsNobody
  <2>7. QED
    BY <2>3, <2>5, <2>6 DEF Flow
<1>13. SUFFICES ASSUME NEW a \in Hosts, NEW g \in Hosts, <<a, g>> \in Links, NEW r \in Ids,
                       ~(a = c /\ g = Server), ~(a = Server /\ g = c)
                PROVE  Flow(a, g, r)'
  BY <1>11, <1>12 DEF Flows
<1>14. Flow(a, g, r)
  BY <1>13 DEF Flows
<1>15. a # c
  BY <1>4, <1>13 DEF Links
<1>16. net'[<<a, g>>] = net[<<a, g>>] /\ (<<a, g>> \in live' => <<a, g>> \in live)
  <2>1. PICK l \in Links : l = <<a, g>>
    BY <1>13
  <2>2. l[1] = a /\ l[2] = g
    BY <2>1
  <2>3. l # <<c, Server>> /\ l # <<Server, c>>
    BY <1>13, <2>2
  <2>4. QED
    BY <1>1, <2>1, <2>3
<1>17. \A o \in Here(a) : o.peer # g /\ o.name \in MissedBy(g)' => o.name \in MissedBy(g)
  <2>1. SUFFICES ASSUME NEW o \in Here(a), o.peer # g, <<g, o.name>> \in missed',
                        <<g, o.name>> \notin missed
                 PROVE  FALSE
    BY DEF MissedBy
  <2>2. PICK q \in Here(c) : q.name = o.name /\ IsLocal(q) /\ g = Server
    BY <1>1, <1>8, <1>13, <2>1
  <2>3. owner[o.name] = c
    BY <1>2, <2>2 DEF Named, Owned
  <2>4. IsLocal(o)
    <3>1. ~IsLocal(o) => <<a, o.peer>> \in Links
      BY <1>13, <2>1, RowOf
    <3>2. a # Server
      BY <1>13, <2>2 DEF Links
    <3>3. <<a, o.peer>> \in Links => o.peer = Server
      BY <3>2 DEF Links
    <3>4. QED
      BY <2>1, <2>2, <3>1, <3>3
  <2>5. owner[o.name] = a
    BY <1>2, <1>13, <2>1, <2>4 DEF Named, Owned
  <2>6. QED
    BY <1>15, <2>3, <2>5
<1>18. Remains(Here(g), Here(g)', a)
  BY <1>3, RemainsStay
<1>19. Here(a)' = Here(a) /\ peers'[a] = peers[a] /\ mapped'[<<g, a>>] = mapped[<<g, a>>]
  BY <1>1, <1>3, <1>13, <1>15
<1>20. QED
  BY <1>9, <1>13, <1>14, <1>16, <1>17, <1>18, <1>19, FlowIdle

LEMMA ConnectToFlow ==
  ASSUME Inv, Rest, Flows, NEW c \in Hosts, ConnectTo(c)
  PROVE  Flows'
BY ConnectToDoes, JoinsFlow DEF Rest, Wired

LEMMA AdmitsFlow ==
  ASSUME Inv, Rest, Flows, NEW h \in Hosts, NEW p \in Hosts, Comes(h, p, "connect"),
         NEW msgs \in Seq(GoodMsgs), Admits(h, p, msgs), AddsAll(h, msgs)
  PROVE  Flows'
<1>1. /\ peers'[h] = peers[h] \union {p} /\ \A k \in Hosts : k # h => peers'[k] = peers[k]
      /\ live' = live
      /\ Handled(h, p, {p}, msgs)
      /\ missed \subseteq missed'
      /\ \A k \in Hosts, x \in Objects : <<k, x>> \in missed' => <<k, x>> \in missed
           \/ (k = p /\ \E o \in Here(h) : o.name = x /\ (IF IsLocal(o) THEN o.state = "closed"
                                                                       ELSE o.state = "created"))
      /\ \A o \in Here(h) : (IF IsLocal(o) THEN o.state = "closed" ELSE o.state = "created")
                              => <<p, o.name>> \in missed'
      /\ objects' = objects /\ mapped' = mapped
  BY DEF Admits
<1>2. Wired /\ Named
  BY DEF Rest
<1>3. \A k : Here(k)' = Here(k)
  BY <1>1, HereSame
<1>4. /\ <<p, h>> \in Links /\ <<h, p>> \in Links /\ p # h /\ net[<<p, h>>] # <<>>
      /\ net[<<p, h>>] \in Seq(GoodMsgs)
      /\ p = Server \/ (h = Server /\ p \in Clients)
      /\ net'[<<p, h>>] = Tail(net[<<p, h>>])
  BY <1>1, <1>2, Taken
<1>5. Head(net[<<p, h>>]) \in Range(net[<<p, h>>]) /\ Head(net[<<p, h>>]).state = "connect"
      /\ Head(net[<<p, h>>]) \in GoodMsgs
  BY <1>4, TailIs DEF Comes
<1>6. h = Server /\ p \in Clients
  <2>1. Framing(<<p, h>>)
    BY <1>2, <1>4 DEF Wired, Frames
  <2>2. <<p, h>>[2] = h
    OBVIOUS
  <2>3. h = Server
    BY <1>5, <2>1, <2>2 DEF Framing
  <2>4. QED
    BY <1>4, <2>3
<1>7. /\ p \notin peers[h]
      /\ \A o \in Here(h) : o.peer # p
      /\ \A x \in Objects : <<p, x>> \notin missed
  BY <1>2, <1>5, <1>6 DEF Wired, Strangers, NotYet
<1>8. \A k \in Hosts : \A o \in Here(k) : o.name \in Objects /\ o \in Copies
  BY StoreOf, RowOf
<1>9. \A k \in Hosts : MissedBy(k) \subseteq MissedBy(k)' /\ (k # p => MissedBy(k)' = MissedBy(k))
  BY <1>1 DEF MissedBy
<1>10. SUFFICES ASSUME NEW a \in Hosts, NEW g \in Hosts, <<a, g>> \in Links, NEW r \in Ids
                PROVE  Flow(a, g, r)'
  BY DEF Flows
<1>11. Flow(a, g, r) /\ a # g
  BY <1>10 DEF Flows, Links
<1>12. a # p \/ g # h =>
         net'[<<a, g>>] = IF a = h /\ g \in {p} /\ <<a, g>> \in live
                          THEN net[<<a, g>>] \o msgs ELSE net[<<a, g>>]
  BY <1>1, <1>2, <1>10, TakenAt
<1>13. CASE a = p /\ g = h
  <2>1. \A k, i \in Facts :
          Knows(Here(h), mapped[<<h, p>>], p, r, k)
            /\ Leads(r, MissedBy(h), k, Head(net[<<p, h>>]), i)
          => Knows(Here(h)', mapped'[<<h, p>>], p, r, i)
    <3>1. SUFFICES ASSUME NEW k \in Facts, NEW i \in Facts,
                          Knows(Here(h), mapped[<<h, p>>], p, r, k),
                          Leads(r, MissedBy(h), k, Head(net[<<p, h>>]), i)
                   PROVE  Knows(Here(h)', mapped'[<<h, p>>], p, r, i)
      OBVIOUS
    <3>2. i = k
      BY <1>5, <3>1, AfterIs DEF Leads, Telling
    <3>3. QED
      BY <1>1, <1>3, <3>1, <3>2
  <2>2. MissedBy(h)' = MissedBy(h)
    BY <1>4, <1>9
  <2>3. Here(p)' = Here(p) /\ peers'[p] = peers[p]
    BY <1>1, <1>3, <1>4
  <2>4. QED
    BY <1>1, <1>4, <1>10, <1>11, <1>13, <2>1, <2>2, <2>3, FlowTake
<1>14. CASE a = h /\ g = p
  <2>1. PICK k \in Facts, e \in Facts :
          /\ Knows(Here(p), mapped[<<p, h>>], h, r, k)
          /\ Stream(r, MissedBy(p), k, net[<<h, p>>], e)
          /\ <<h, p>> \in live => Tells(Here(h), peers[h], MissedBy(p), p, r, e)
    BY <1>11, <1>14 DEF Flow
  <2>2. Knows(Here(p)', mapped'[<<p, h>>], h, r, k)
    BY <1>1, <1>3, <2>1
  <2>3. Stream(r, MissedBy(p)', k, net[<<h, p>>], e)
    BY <1>9, <2>1, StreamMore
  <2>4. CASE <<h, p>> \notin live
    <3>1. net'[<<h, p>>] = net[<<h, p>>] /\ <<h, p>> \notin live'
      BY <1>1, <1>4, <1>12, <1>14, <2>4
    <3>2. QED
      BY <1>14, <2>1, <2>2, <2>3, <3>1 DEF Flow
  <2>5. CASE <<h, p>> \in live
    <3>1. e = Nothing
      BY <1>7, <2>1, <2>5, TellsNobody
    <3>2. ASSUME NEW o \in Here(h)
          PROVE  Shown(o, p, peers'[h], MissedBy(p)') <=> o.state \in {"synced", "modified"}
      <4>1. o.peer # p /\ p \in peers'[h] /\ o \in Copies /\ o.name \in Objects
        BY <1>1, <1>7, <1>8, <3>2
      <4>2. o.state \in {"created", "modified", "synced", "closed", "zombie"}
        BY <4>1 DEF Copies
      <4>3. (IF IsLocal(o) THEN o.state = "closed" ELSE o.state = "created")
              => o.name \in MissedBy(p)'
        BY <1>1, <3>2, <4>1 DEF MissedBy
      <4>4. o.state \in {"synced", "modified"} => o.name \notin MissedBy(p)'
        <5>1. SUFFICES ASSUME o.state \in {"synced", "modified"}, <<p, o.name>> \in missed'
                       PROVE  FALSE
          BY DEF MissedBy
        <5>2. PICK q \in Here(h) : q.name = o.name /\ (IF IsLocal(q) THEN q.state = "closed"
                                                                    ELSE q.state = "created")
          BY <1>1, <1>7, <4>1, <5>1
        <5>3. ~Unmapped(q) /\ ~Unmapped(o)
          BY <5>1, <5>2 DEF Unmapped, Open
        <5>4. q = o
          BY <1>2, <1>6, <3>2, <5>2, <5>3 DEF Named, Apart
        <5>5. QED
          BY <5>1, <5>2, <5>4
      <4>5. QED
        BY <4>1, <4>2, <4>3, <4>4 DEF Shown, Unmapped, Open
    <3>3. PICK i \in Facts : /\ Stream(r, MissedBy(p)', Nothing, msgs, i)
                             /\ Tells(Here(h), peers'[h], MissedBy(p)', p, r, i)
      BY <1>10, <3>2, AddsTells
    <3>4. net[<<h, p>>] \in Seq(GoodMsgs)
      BY <1>4 DEF Inv, NetTyped
    <3>5. net'[<<h, p>>] = net[<<h, p>>] \o msgs
      BY <1>4, <1>12, <1>14, <2>5
    <3>6. Stream(r, MissedBy(p)', e, msgs, i)
      BY <3>1, <3>3
    <3>7. Stream(r, MissedBy(p)', k, net'[<<h, p>>], i)
      BY <2>3, <3>4, <3>5, <3>6, StreamConcat
    <3>8. Tells(Here(h)', peers'[h], MissedBy(p)', p, r, i)
      BY <1>3, <3>3
    <3>9. QED
      BY <1>14, <2>1, <2>2, <3>3, <3>7, <3>8 DEF Flow
  <2>6. QED
    BY <2>4, <2>5
<1>15. CASE ~(a = p /\ g = h) /\ ~(a = h /\ g = p)
  <2>1. g # p
    <3>1. a = Server \/ g = Server
      BY <1>10 DEF Links
    <3>2. QED
      BY <1>4, <1>6, <1>15, <3>1
  <2>2. net'[<<a, g>>] = net[<<a, g>>]
    BY <1>12, <1>15
  <2>3. MissedBy(g)' = MissedBy(g)
    BY <1>9, <2>1
  <2>4. g \in peers'[a] <=> g \in peers[a]
    BY <1>1, <1>10, <2>1
  <2>5. Remains(Here(g), Here(g)', a)
    BY <1>3, RemainsStay
  <2>6. Here(a)' = Here(a) /\ mapped'[<<g, a>>] = mapped[<<g, a>>]
    BY <1>1, <1>3
  <2>7. QED
    BY <1>1, <1>10, <1>11, <2>2, <2>3, <2>4, <2>5, <2>6, FlowIdle
<1>16. QED
  BY <1>13, <1>14, <1>15

LEMMA HandleConnectFlow ==
  ASSUME Inv, Rest, Flows, NEW h \in Hosts, NEW p \in Hosts, HandleConnect(h, p)
  PROVE  Flows'
<1>1. Comes(h, p, "connect")
  BY DEF HandleConnect
<1>2. QED
  BY <1>1, ConnectDoes, StillFlow, AdmitsFlow DEF Rest

LEMMA FlowsInit ==
  Init => Flows
<1> SUFFICES ASSUME Init, NEW p \in Hosts, NEW h \in Hosts, <<p, h>> \in Links, NEW r \in Ids
             PROVE  Flow(p, h, r)
  BY DEF Flows
<1>1. \A k \in Hosts : Here(k) = {} /\ peers[k] = {}
  BY DEF Init, Here, Range
<1>2. <<h, p>> \in Links
  BY DEF Links
<1>3. mapped[<<h, p>>] = {} /\ net[<<p, h>>] = <<>>
  BY <1>2 DEF Init
<1>4. PICK k \in Facts : k = Nothing
  BY DEF Facts
<1>5. Knows(Here(h), mapped[<<h, p>>], p, r, k)
  BY <1>3, <1>4 DEF Knows
<1>6. Stream(r, MissedBy(h), k, net[<<p, h>>], k)
  BY <1>3, StreamEmpty
<1>7. Tells(Here(p), peers[p], MissedBy(h), h, r, k)
  BY <1>1, <1>4 DEF Tells
<1>8. QED
  BY <1>5, <1>6, <1>7 DEF Flow

LEMMA FlowsStep ==
  Inv /\ Rest /\ Flows /\ [Next]_vars => Flows'
<1> SUFFICES ASSUME Inv, Rest, Flows, [Next]_vars PROVE Flows'
  OBVIOUS
<1>1. Singles /\ Wired
  BY DEF Rest
<1>2. CASE UNCHANGED vars
  BY <1>2, StillFlow DEF vars, Still
<1>3. ASSUME NEW h \in Hosts, Program(h) PROVE Flows'
  BY <1>1, <1>3, CreateFlow, WriteFlow, CloseFlow, MessageFlow, ConnectToFlow, CloseHostFlow
     DEF Program
<1>4. ASSUME NEW h \in Hosts, Handle(h) PROVE Flows'
  BY <1>1, <1>4, HandleConnectFlow, HandleDisconnectFlow, HandleMessageFlow, HandleCreatedFlow,
     HandleModifiedFlow, HandleClosedFlow DEF Handle
<1>5. QED
  BY <1>1, <1>2, <1>3, <1>4, SyncFlow, LoseConnectionFlow DEF Next

\* The invariant of the protocol: tables, wires and names, and what is under way.
LEMMA AllHold ==
  Spec => [](Inv /\ Rest /\ Flows)
<1>1. Init => Inv /\ Rest /\ Flows
  BY InitInv, RestInit, FlowsInit
<1>2. Inv /\ Rest /\ Flows /\ [Next]_vars => Inv' /\ Rest' /\ Flows'
  BY NextInv, RestStep, FlowsStep
<1>3. QED
  BY <1>1, <1>2, PTL DEF Spec

-----------------------------------------------------------------------------
(***************************************************************************)
(* The copies.                                                             *)
(***************************************************************************)
\* KnownNow is what h knows.
LEMMA KnownIs ==
  ASSUME Inv, NEW h \in Hosts, NEW p \in Hosts, <<h, p>> \in Links, NEW r \in Ids, NEW k \in Facts,
         Knows(Here(h), mapped[<<h, p>>], p, r, k)
  PROVE  KnownNow(h, p, r) = k
<1>1. PICK pairs : pairs = mapped[<<h, p>>]
  OBVIOUS
<1>2. Arrays(Here(h), p, pairs)
  BY <1>1, StoreOf DEF Tables
<1>3. PICK ids : ids = {pair[1] : pair \in {q \in pairs : q[2] = r}}
  OBVIOUS
<1>4. PICK o : o = Object(h, CHOOSE i \in ids : TRUE)
  OBVIOUS
<1>5. KnownNow(h, p, r) = IF ids = {} THEN Nothing ELSE [name |-> o.name, data |-> o.data]
  BY <1>1, <1>3, <1>4 DEF KnownNow
<1>6. CASE k = Nothing
  <2>1. ids = {}
    BY <1>1, <1>3, <1>6 DEF Knows
  <2>2. QED
    BY <1>5, <1>6, <2>1
<1>7. CASE k # Nothing
  <2>1. PICK pair \in pairs, u \in Here(h) :
          /\ pair[2] = r /\ u.id = pair[1] /\ Open(u)
          /\ k = [name |-> u.name, data |-> u.data]
    BY <1>1, <1>7 DEF Knows
  <2>2. \A i \in ids : i = u.id
    <3>1. \A q \in pairs : q[2] = r => q[1] = pair[1]
      BY <1>2, <2>1 DEF Arrays
    <3>2. QED
      BY <1>3, <2>1, <3>1
  <2>3. u.id \in ids
    BY <1>3, <2>1
  <2>4. (CHOOSE i \in ids : TRUE) = u.id
    BY <2>2, <2>3
  <2>5. o = u
    BY <1>4, <2>1, <2>4, ObjectIs DEF Unmapped
  <2>6. QED
    BY <1>5, <2>1, <2>3, <2>5
<1>8. QED
  BY <1>6, <1>7

\* Told is the object that is shown.
LEMMA ToldIs ==
  ASSUME Inv, NEW p \in Hosts, NEW h \in Hosts, NEW r \in Ids, NEW e \in Facts,
         Tells(Here(p), peers[p], MissedBy(h), h, r, e)
  PROVE  /\ e.name = Told(p, h, r)
         /\ e # Nothing => Agrees(e, Object(p, r))
<1>1. PICK x, o : x = idMap[p][r] /\ o = Object(p, r)
  OBVIOUS
<1>2. Told(p, h, r) =
        IF h \notin peers[p] \/ x = None \/ <<h, x>> \in missed THEN None
        ELSE IF o.peer = h \/ (IsLocal(o) /\ o.state \in {"created", "zombie"}) THEN None
        ELSE x
  BY <1>1 DEF Told
<1>3. Row(Here(p), idMap[p]) /\ idMap[p] \in [Ids -> Objects \union {None}]
  BY StoreOf DEF Tables
<1>4. \A q \in Here(p) : q.name \in Objects
  BY RowOf
<1>5. CASE e = Nothing
  <2>1. e.name = None
    BY <1>5 DEF Nothing
  <2>2. ASSUME x # None PROVE Told(p, h, r) = None
    <3>1. PICK q \in Here(p) : q.id = r /\ ~Unmapped(q)
      BY <1>1, <1>3, <2>2 DEF Row
    <3>2. q = o /\ x = q.name
      BY <1>1, <1>3, <3>1, ObjectIs DEF Row
    <3>3. ~Shown(q, h, peers[p], MissedBy(h))
      BY <1>5, <3>1 DEF Tells
    <3>4. x \in MissedBy(h) => <<h, x>> \in missed
      BY DEF MissedBy
    <3>5. QED
      BY <1>2, <3>1, <3>2, <3>3, <3>4 DEF Shown
  <2>3. QED
    BY <1>2, <1>5, <2>1, <2>2
<1>6. CASE e # Nothing
  <2>1. PICK q \in Here(p) : q.id = r /\ Shown(q, h, peers[p], MissedBy(h)) /\ Agrees(e, q)
    BY <1>6 DEF Tells
  <2>2. ~Unmapped(q)
    BY <2>1 DEF Shown
  <2>3. q = o /\ x = q.name
    BY <1>1, <1>3, <2>1, <2>2, ObjectIs DEF Row
  <2>4. x # None /\ x \in Objects
    BY <1>4, <2>3, GameNetAssumption
  <2>5. <<h, x>> \notin missed
    BY <2>1, <2>3, <2>4 DEF Shown, MissedBy
  <2>6. Told(p, h, r) = x
    BY <1>2, <2>1, <2>3, <2>4, <2>5 DEF Shown
  <2>7. QED
    BY <1>1, <2>1, <2>3, <2>6 DEF Agrees
<1>7. QED
  BY <1>5, <1>6

LEMMA FlowsAgree ==
  Inv /\ Flows => CopiesAgree
<1> SUFFICES ASSUME Inv, Flows, NEW l \in live, NEW p, NEW h, p = l[1], h = l[2], NEW r \in Ids
             PROVE  LET known == Known(h, p, r)
                        x == Told(p, h, r)
                    IN  /\ known.name = x
                        /\ x # None =>
                             \/ known.data = Object(p, r).data
                             \/ IsLocal(Object(p, r)) /\ Object(p, r).state \in {"modified", "closed"}
  BY DEF CopiesAgree
<1>1. l \in Links
  BY DEF Inv, WiresTyped
<1>2. l = <<p, h>> /\ p \in Hosts /\ h \in Hosts /\ <<h, p>> \in Links
  BY <1>1 DEF Links
<1>3. PICK k \in Facts, e \in Facts :
        /\ Knows(Here(h), mapped[<<h, p>>], p, r, k)
        /\ Stream(r, MissedBy(h), k, net[<<p, h>>], e)
        /\ Tells(Here(p), peers[p], MissedBy(h), h, r, e)
  BY <1>1, <1>2 DEF Flows, Flow
<1>4. KnownNow(h, p, r) = k
  BY <1>2, <1>3, KnownIs
<1>5. net[<<p, h>>] \in Seq(GoodMsgs)
  BY <1>1, <1>2 DEF Inv, NetTyped
<1>6. Known(h, p, r) = e
  BY <1>3, <1>4, <1>5, StreamFold DEF Known
<1>7. /\ e.name = Told(p, h, r)
      /\ e # Nothing => Agrees(e, Object(p, r))
  BY <1>2, <1>3, ToldIs
<1>8. Told(p, h, r) # None => e # Nothing
  BY <1>7, FactName
<1>9. QED
  BY <1>6, <1>7, <1>8 DEF Agrees

(***************************************************************************)
(* Hosts that are connected agree, counting what is on its way, on each    *)
(* other's objects, by GNetSync, GNetConnect and AddPeer (gnet.bmx): for   *)
(* any number of clients, objects and ids, whoever creates, writes and     *)
(* closes what, and in whatever order the events of different peers are    *)
(* handled, objects are closed, ids are used again and connections end.    *)
(***************************************************************************)
THEOREM CopiesCorrect ==
  Spec => []CopiesAgree
BY AllHold, FlowsAgree, PTL

-----------------------------------------------------------------------------
(***************************************************************************)
(* Why the program may end.                                                *)
(***************************************************************************)
Broken(h) == \E c \in Clients \intersect enetHost : h \in {c, Server} /\ <<c, Server>> \notin live
Reason(h, why) ==
  /\ why # "illegal"
  /\ why = "unmapped" => \E x \in Objects : <<h, x>> \in missed
  /\ why \in {"send", "unmap"} => Broken(h)
Reasons == \A h \in Hosts : Reason(h, phase[h])

\* What has been missed remains so, and a connection that has ended is not made again.
Persists ==
  /\ missed \subseteq missed'
  /\ \A c \in Clients \intersect enetHost :
       c \in enetHost' /\ (<<c, Server>> \notin live => <<c, Server>> \notin live')

LEMMA ReasonStays ==
  ASSUME Persists, NEW h \in Hosts, NEW why, Reason(h, why)
  PROVE  Reason(h, why)'
<1>1. Broken(h) => Broken(h)'
  BY DEF Broken, Persists
<1>2. (\E x \in Objects : <<h, x>> \in missed) => (\E x \in Objects : <<h, x>> \in missed')
  BY DEF Persists
<1>3. QED
  BY <1>1, <1>2 DEF Reason

\* One host goes on, or ends for a reason.
LEMMA ReasonsStep ==
  ASSUME Inv, Reasons, Persists, NEW h \in Hosts, NEW why, Reason(h, why), Goto(h, why)
  PROVE  Reasons'
<1>1. SUFFICES ASSUME NEW k \in Hosts
               PROVE  Reason(k, phase[k])'
  BY DEF Reasons
<1>2. phase'[k] = IF k = h THEN why ELSE phase[k]
  BY DEF Goto, Inv, WiresTyped
<1>3. PICK w : w = phase'[k]
  OBVIOUS
<1>4. Reason(k, w)
  BY <1>2, <1>3 DEF Reasons
<1>5. Reason(k, w)'
  BY <1>4, ReasonStays
<1>6. QED
  BY <1>3, <1>5 DEF Reason

LEMMA ReasonsStay ==
  ASSUME Reasons, Persists, phase' = phase
  PROVE  Reasons'
<1>1. SUFFICES ASSUME NEW k \in Hosts
               PROVE  Reason(k, phase[k])'
  BY DEF Reasons
<1>2. PICK w : w = phase[k]
  OBVIOUS
<1>3. Reason(k, w)'
  BY <1>2, ReasonStays DEF Reasons
<1>4. QED
  BY <1>2, <1>3 DEF Reason

\* A host that goes on has no need of a reason.
LEMMA NoReason ==
  ASSUME NEW h, NEW why \in {"program", "sync", "closed", "ids"}
  PROVE  Reason(h, why)
BY DEF Reason

\* Persists, from the clauses of the operations.
LEMMA PersistsIf ==
  ASSUME missed \subseteq missed', enetHost \subseteq enetHost', live' \subseteq live
  PROVE  Persists
BY DEF Persists

\* The end of a connection is under way to h, or has come.
LEMMA BrokenIf ==
  ASSUME Wired, NEW h \in Hosts, NEW p \in Hosts, <<p, h>> \in Links,
         NEW m \in Range(net[<<p, h>>]), m.state = "disconnect"
  PROVE  Broken(h)
<1>1. PICK l \in Links : l = <<p, h>>
  OBVIOUS
<1>2. l[1] = p /\ l[2] = h
  BY <1>1
<1>3. l \notin live /\ p \in enetHost /\ h \in enetHost
  BY <1>1, <1>2 DEF Wired, Frames, Framing
<1>4. p # h /\ (p = Server \/ h = Server)
  BY <1>2 DEF Links
<1>5. CASE h = Server
  <2>1. p \in Clients
    BY <1>4, <1>5 DEF Hosts
  <2>2. QED
    BY <1>1, <1>3, <1>5, <2>1 DEF Broken
<1>6. CASE p = Server /\ h # Server
  <2>1. h \in Clients
    BY <1>6 DEF Hosts
  <2>2. <<h, Server>> \notin live
    <3>1. PICK k : k = <<h, Server>>
      OBVIOUS
    <3>2. k[1] = h /\ k[2] = Server
      BY <3>1
    <3>3. k \in live => <<k[2], k[1]>> \in live
      BY DEF Wired, Symmetric
    <3>4. QED
      BY <1>1, <1>3, <1>6, <3>1, <3>2, <3>3
  <2>3. QED
    BY <1>3, <2>1, <2>2 DEF Broken
<1>7. QED
  BY <1>4, <1>5, <1>6

LEMMA RefusedBroken ==
  ASSUME Wired, NEW h \in Hosts, NEW ps, \A p \in ps : <<h, p>> \in Links, Refused(h, ps)
  PROVE  Broken(h) /\ Fail(h, "send")
<1>1. PICK p \in ps : Disconnect \in Range(net[<<p, h>>]) /\ Fail(h, "send")
  BY DEF Refused
<1>2. Disconnect.state = "disconnect"
  BY DEF Disconnect, Msg
<1>3. <<p, h>> \in Links /\ p \in Hosts
  BY <1>1 DEF Links
<1>4. QED
  BY <1>1, <1>2, <1>3, BrokenIf

\* ENet refuses to send.
LEMMA RefusedReasons ==
  ASSUME Inv, Wired, Reasons, NEW h \in Hosts, NEW ps, \A p \in ps : <<h, p>> \in Links,
         Refused(h, ps)
  PROVE  Reasons'
<1>1. Broken(h) /\ Fail(h, "send")
  BY RefusedBroken
<1>2. Reason(h, "send")
  BY <1>1 DEF Reason
<1>3. Persists /\ Goto(h, "send")
  BY <1>1, PersistsIf DEF Fail, wires, history
<1>4. QED
  BY <1>2, <1>3, ReasonsStep

\* An assertion fails.
LEMMA FailReasons ==
  ASSUME Inv, Reasons, NEW h \in Hosts, NEW why, Reason(h, why), Fail(h, why)
  PROVE  Reasons'
<1>1. Persists /\ Goto(h, why)
  BY PersistsIf DEF Fail, wires, history
<1>2. QED
  BY <1>1, ReasonsStep

\* Nothing happens to the phases and to the connections.
LEMMA QuietReasons ==
  ASSUME Reasons, UNCHANGED <<enetHost, live, phase>>, missed \subseteq missed'
  PROVE  Reasons'
<1>1. Persists
  BY PersistsIf
<1>2. QED
  BY <1>1, ReasonsStay

LEMMA ProgramReasons ==
  ASSUME Inv, Rest, Reasons, NEW h \in Hosts, Program(h)
  PROVE  Reasons'
<1>1. ASSUME NEW x \in Objects,
             CreateObject(h, x) \/ WriteSlot(h, x) \/ CloseObject(h, x) \/ SendMessage(h, x)
      PROVE  Reasons'
  <2>1. Goto(h, "program") /\ UNCHANGED <<enetHost, live, missed>>
    BY <1>1 DEF CreateObject, WriteSlot, CloseObject, SendMessage, wires, history
  <2>2. QED
    BY <2>1, PersistsIf, NoReason, ReasonsStep
<1>2. CASE ConnectTo(h)
  <2>1. /\ Goto(h, "program") /\ h \notin enetHost
        /\ enetHost' = enetHost \union {h}
        /\ live' = live \union {<<h, Server>>, <<Server, h>>}
        /\ missed \subseteq missed'
    BY <1>2 DEF ConnectTo
  <2>2. ASSUME NEW c \in Clients \intersect enetHost, <<c, Server>> \in live' PROVE <<c, Server>> \in live
    <3>1. c # h /\ c # Server
      BY <2>1, <2>2, GameNetAssumption
    <3>2. <<c, Server>> # <<h, Server>> /\ <<c, Server>> # <<Server, h>>
      BY <3>1
    <3>3. QED
      BY <2>1, <2>2, <3>2
  <2>3. Persists
    BY <2>1, <2>2 DEF Persists
  <2>4. QED
    BY <2>1, <2>3, NoReason, ReasonsStep
<1>3. CASE CloseHost(h)
  <2>1. Goto(h, "closed") /\ UNCHANGED <<enetHost, missed>> /\ live' \subseteq live
    BY <1>3 DEF CloseHost, history
  <2>2. QED
    BY <2>1, PersistsIf, NoReason, ReasonsStep
<1>4. QED
  BY <1>1, <1>2, <1>3 DEF Program

\* All the peers are at the other end of a link.
LEMMA PeersLinked ==
  ASSUME Wired, NEW h \in Hosts, NEW p
  PROVE  \A q \in Others(h, p) : <<h, q>> \in Links
BY DEF Wired, Star, Others

\* A message about an object that is not mapped was missed; and what is created was not known.
LEMMA UnmappedMissed ==
  ASSUME Inv, Flows, NEW h \in Hosts, NEW p \in Hosts, NEW state \in Telling, Comes(h, p, state)
  PROVE  /\ state = "created" => LocalIds(h, p) = {}
         /\ state # "created" /\ LocalIds(h, p) = {} => \E x \in Objects : <<h, x>> \in missed
<1>1. PICK msg \in GoodMsgs : msg = Message(h, p) /\ msg = Head(net[<<p, h>>]) /\ msg.state = state
  BY Event DEF Message
<1>2. <<p, h>> \in Links /\ net[<<p, h>>] # <<>>
  BY Event
<1>3. msg.id \in Ids /\ msg.name \in Objects
  BY <1>1 DEF GoodMsgs, Telling
<1>4. Flow(p, h, msg.id)
  BY <1>2, <1>3 DEF Flows
<1>5. PICK k \in Facts : /\ Knows(Here(h), mapped[<<h, p>>], p, msg.id, k)
                         /\ Fits(k, msg, MissedBy(h))
  BY <1>1, <1>2, <1>3, <1>4, FlowFits
<1>6. LocalIds(h, p) = {} <=> \A pair \in mapped[<<h, p>>] : pair[2] # msg.id
  BY <1>1 DEF LocalIds
<1>7. CASE state = "created"
  BY <1>1, <1>5, <1>6, <1>7 DEF Fits, Knows
<1>8. CASE state # "created" /\ LocalIds(h, p) = {}
  <2>1. k = Nothing
    BY <1>5, <1>6, <1>8 DEF Knows
  <2>2. k.name = None
    BY <2>1 DEF Nothing
  <2>3. msg.name \in MissedBy(h)
    BY <1>1, <1>3, <1>5, <1>8, <2>2, GameNetAssumption DEF Fits, Telling
  <2>4. QED
    BY <1>3, <1>8, <2>3 DEF MissedBy
<1>9. QED
  BY <1>7, <1>8

LEMMA HandleReasons ==
  ASSUME Inv, Inv', Rest, Flows, Reasons, NEW h \in Hosts, Handle(h)
  PROVE  Reasons'
<1>1. Wired
  BY DEF Rest
<1>2. \A w \in {"message", "map"} : ~Fail(h, w)
  <2>1. phase'[h] \notin {"message", "map"}
    BY DEF Inv, WiresTyped, Phases
  <2>2. \A w : Fail(h, w) => phase'[h] = w
    BY DEF Fail, Goto, Inv, WiresTyped
  <2>3. QED
    BY <2>1, <2>2
<1>3. PICK p \in Hosts :
        \/ HandleConnect(h, p) \/ HandleDisconnect(h, p) \/ HandleMessage(h, p)
        \/ HandleCreated(h, p) \/ HandleModified(h, p) \/ HandleClosed(h, p)
  BY DEF Handle
<1>4. CASE HandleConnect(h, p)
  <2>1. <<h, p>> \in Links
    <3>1. Comes(h, p, "connect")
      BY <1>4 DEF HandleConnect
    <3>2. QED
      BY <3>1, Event
  <2>2. CASE Refused(h, {p})
    BY <1>1, <2>1, <2>2, RefusedReasons
  <2>3. CASE UNCHANGED <<enetHost, live, phase>> /\ missed \subseteq missed'
    BY <2>3, QuietReasons
  <2>4. QED
    BY <1>4, <2>2, <2>3 DEF HandleConnect
<1>5. CASE HandleDisconnect(h, p)
  <2>1. Comes(h, p, "disconnect")
    BY <1>5 DEF HandleDisconnect
  <2>2. CASE Refused(h, Others(h, p))
    BY <1>1, <2>2, PeersLinked, RefusedReasons
  <2>3. CASE Fail(h, "unmap")
    <3>1. /\ <<p, h>> \in Links /\ net[<<p, h>>] # <<>>
          /\ Head(net[<<p, h>>]).state = "disconnect"
      BY <2>1 DEF Comes
    <3>2. net[<<p, h>>] \in Seq(GoodMsgs)
      BY <3>1 DEF Inv, NetTyped
    <3>3. Head(net[<<p, h>>]) \in Range(net[<<p, h>>])
      BY <3>1, <3>2, TailIs
    <3>4. Broken(h)
      BY <1>1, <3>1, <3>3, BrokenIf
    <3>5. Reason(h, "unmap")
      BY <3>4 DEF Reason
    <3>6. QED
      BY <2>3, <3>5, FailReasons
  <2>4. CASE UNCHANGED <<enetHost, live, phase, history>>
    BY <2>4, QuietReasons DEF history
  <2>5. QED
    BY <1>5, <2>2, <2>3, <2>4 DEF HandleDisconnect
<1>6. CASE HandleMessage(h, p)
  <2>1. PICK id, to : id = Message(h, p).id /\ to = Object(h, id).peer
    OBVIOUS
  <2>2. Comes(h, p, "message")
    BY <1>6 DEF HandleMessage
  <2>3. id \in Ids
    <3>1. Message(h, p) \in GoodMsgs /\ Message(h, p).state = "message"
      BY <2>2, Event
    <3>2. QED
      BY <2>1, <3>1 DEF GoodMsgs
  <2>4. CASE idMap[h][id] # None /\ to # None /\ Refused(h, {to})
    <3>1. PICK o \in Here(h) : o.id = id /\ ~Unmapped(o)
      BY <2>3, <2>4, StoreOf DEF Tables, Row
    <3>2. to = o.peer
      BY <2>1, <3>1, ObjectIs
    <3>3. <<h, to>> \in Links
      BY <2>4, <3>2, RowOf DEF IsLocal
    <3>4. QED
      BY <1>1, <2>4, <3>3, RefusedReasons
  <2>5. CASE UNCHANGED <<enetHost, live, phase, missed>>
    BY <2>5, QuietReasons
  <2>6. (idMap[h][id] # None /\ to # None /\ Refused(h, {to})) \/ Fail(h, "message")
        \/ UNCHANGED <<enetHost, live, phase, missed>>
    BY <1>6, <2>1 DEF HandleMessage, wires, history
  <2>7. QED
    BY <1>2, <2>4, <2>5, <2>6
<1>7. CASE HandleCreated(h, p)
  <2>1. Comes(h, p, "created")
    BY <1>7 DEF HandleCreated
  <2>2. LocalIds(h, p) = {}
    BY <2>1, UnmappedMissed DEF Telling
  <2>3. CASE Refused(h, Others(h, p))
    BY <1>1, <2>3, PeersLinked, RefusedReasons
  <2>4. CASE Fail(h, "ids")
    BY <2>4, NoReason, FailReasons
  <2>5. CASE UNCHANGED <<wires, phase, history>>
    BY <2>5, QuietReasons DEF wires, history
  <2>6. Refused(h, Others(h, p)) \/ Fail(h, "ids") \/ Fail(h, "map")
        \/ UNCHANGED <<wires, phase, history>>
    BY <1>7, <2>2 DEF HandleCreated
  <2>7. QED
    BY <1>2, <2>3, <2>4, <2>5, <2>6
<1>8. CASE HandleModified(h, p) \/ HandleClosed(h, p)
  <2>1. PICK state \in {"modified", "closed"} : Comes(h, p, state)
    BY <1>8 DEF HandleModified, HandleClosed
  <2>2. LocalIds(h, p) = {} => \E x \in Objects : <<h, x>> \in missed
    BY <2>1, UnmappedMissed DEF Telling
  <2>3. CASE Refused(h, Others(h, p))
    BY <1>1, <2>3, PeersLinked, RefusedReasons
  <2>4. CASE LocalIds(h, p) = {} /\ Fail(h, "unmapped")
    <3>1. Reason(h, "unmapped")
      BY <2>2, <2>4 DEF Reason
    <3>2. QED
      BY <2>4, <3>1, FailReasons
  <2>5. CASE UNCHANGED <<wires, phase, history>>
    BY <2>5, QuietReasons DEF wires, history
  <2>6. QED
    BY <1>8, <2>3, <2>4, <2>5 DEF HandleModified, HandleClosed
<1>9. QED
  BY <1>3, <1>4, <1>5, <1>6, <1>7, <1>8

LEMMA ReasonsHold ==
  Inv /\ Inv' /\ Rest /\ Flows /\ Reasons /\ [Next]_vars => Reasons'
<1> SUFFICES ASSUME Inv, Inv', Rest, Flows, Reasons, [Next]_vars PROVE Reasons'
  OBVIOUS
<1>1. CASE UNCHANGED vars
  BY <1>1, QuietReasons DEF vars, wires, history
<1>2. ASSUME NEW h \in Hosts, Sync(h) PROVE Reasons'
  <2>1. Goto(h, "sync") /\ UNCHANGED <<wires, history>>
    BY <1>2 DEF Sync
  <2>2. Persists
    BY <2>1, PersistsIf DEF wires, history
  <2>3. QED
    BY <2>1, <2>2, NoReason, ReasonsStep
<1>3. ASSUME NEW c \in Clients, LoseConnection(c) PROVE Reasons'
  <2>1. UNCHANGED <<enetHost, phase, missed>> /\ live' \subseteq live
    BY <1>3 DEF LoseConnection, history
  <2>2. QED
    BY <2>1, PersistsIf, ReasonsStay
<1>4. QED
  BY <1>1, <1>2, <1>3, ProgramReasons, HandleReasons DEF Next

(***************************************************************************)
(* GNetSync ends the program (gnet.bmx: its Throws and the assertions of   *)
(* RecvMsg, SendMsg, AllocId, MapLocalId, UnmapLocalId and UnmapObject)    *)
(* only because an object was missed when the host connected, because a    *)
(* connection has ended, or for want of ids.                               *)
(***************************************************************************)
THEOREM FailuresExplained ==
  Spec => []FailsForReason
<1>1. Init => Reasons
  BY DEF Init, Reasons, Reason
<1>2. Inv /\ Inv' /\ Rest /\ Flows /\ Reasons /\ [Next]_vars => Reasons'
  BY ReasonsHold
<1>3. Inv /\ Reasons => FailsForReason
  BY DEF Reasons, Reason, Broken, FailsForReason, Inv, WiresTyped, Phases
<1>4. QED
  BY <1>1, <1>2, <1>3, AllHold, PTL DEF Spec

-----------------------------------------------------------------------------
(***************************************************************************)
(* What has come to an end.  An object is lost if its owner has closed it  *)
(* or has been closed, or if its owner's connection has ended; it remains  *)
(* so.  Only objects that are lost are said to be closed, and a message is *)
(* on its way to where its object is, or the object is lost.               *)
(***************************************************************************)
Cut(x) == owner[x] \in Clients \intersect enetHost /\ <<owner[x], Server>> \notin live
Lost(x) == Gone(x) \/ Cut(x)

Has(l, m) == \E o \in Here(l[2]) : ~Unmapped(o) /\ o.id = m.id /\ o.name = m.name /\ o.peer # l[1]
Good(l, m) ==
  /\ m.state = "created" => owner[m.name] \notin {l[2], None}
  /\ m.state = "closed" => Lost(m.name)
  /\ m.state = "message" => Lost(m.name) \/ Has(l, m)
Carried == \A l \in Links : \A m \in Range(net[l]) : Good(l, m)

\* A host has no copies of its own objects.
Foreign == \A h \in Hosts : \A o \in Here(h) : ~IsLocal(o) => owner[o.name] \notin {h, None}

\* A connection that has ended is about to be noticed, or has been.
Clear(l) == \A o \in Here(l[2]) : o.peer = l[1] => ~Open(o)
Parted(l) ==
  \/ \E m \in Range(net[l]) : m.state = "disconnect"
  \/ net[l] = <<>> /\ Clear(l)
Ending == \A l \in Links : l \notin live /\ phase[l[2]] # "closed" => Parted(l)

\* A host that has been closed has no connections.
Shut == \A h \in Hosts : phase[h] = "closed" => \A l \in live : h \notin {l[1], l[2]}

\* While a host handles events, its own objects are synchronised.
Current == \A h \in Hosts : phase[h] \notin {"program", "closed"} =>
             \A o \in Here(h) : IsLocal(o) => o.state = "synced"

Lasts == Carried /\ Foreign /\ Ending /\ Shut /\ Current

-----------------------------------------------------------------------------
(***************************************************************************)
(* What a step does that these depend on.                                  *)
(***************************************************************************)
Lasting ==
  /\ \A x \in Objects : owner[x] # None => owner'[x] = owner[x]
  /\ \A h \in Hosts : phase[h] = "closed" => phase'[h] = "closed"
  /\ \A c \in Clients \intersect enetHost :
       c \in enetHost' /\ (<<c, Server>> \notin live => <<c, Server>> \notin live')

Kept(o, q) == q.id = o.id /\ q.name = o.name /\ q.peer = o.peer /\ (Open(q) => Open(o))
Derived(h) == \A q \in Here(h)' :
  \/ \E o \in Here(h) : Kept(o, q)
  \/ IsLocal(q) /\ owner[q.name] = None /\ owner'[q.name] = h
  \/ ~IsLocal(q) /\ \E m \in Range(net[<<q.peer, h>>]) : m.state = "created" /\ m.name = q.name

Stays(h) == \A o \in Here(h) : ~Unmapped(o) =>
  \/ \E q \in Here(h)' : ~Unmapped(q) /\ q.id = o.id /\ q.name = o.name /\ q.peer = o.peer
  \/ Lost(o.name)
  \/ ~IsLocal(o) /\ h # Server

Calm(h) == phase'[h] \notin {"program", "closed"} =>
             \A q \in Here(h)' : IsLocal(q) => q.state = "synced"

Passes(l) == \A m \in Range(net'[l]) : Good(l, m)
Fades(l) == l \notin live' =>
  \/ phase'[l[2]] = "closed"
  \/ \E m \in Range(net'[l]) : m.state = "disconnect"
  \/ l \notin live /\ net'[l] = net[l]
  \/ net'[l] = <<>> /\ \A q \in Here(l[2])' : q.peer = l[1] => ~Open(q)

Effect ==
  /\ Lasting
  /\ \A h \in Hosts : Derived(h) /\ Stays(h) /\ Calm(h)
  /\ \A l \in Links : Passes(l) /\ Fades(l)

\* The link on which a copy has come.
LEMMA CopyLink ==
  ASSUME Inv, NEW h \in Hosts, NEW o \in Here(h), ~IsLocal(o)
  PROVE  o.peer \in Hosts /\ <<o.peer, h>> \in Links /\ <<h, o.peer>> \in Links /\ o.name \in Objects
<1>1. <<h, o.peer>> \in Links /\ o \in Copies
  BY StoreOf DEF Inv, StoreTyped
<1>2. QED
  BY <1>1 DEF Links, Copies

LEMMA LostLasts ==
  ASSUME Inv, Inv', Carried, Effect, NEW x \in Objects, Lost(x)
  PROVE  Lost(x)'
<1>1. PICK h \in Hosts : h = owner[x] /\ h = owner'[x]
  <2>1. owner[x] # None
    BY GameNetAssumption DEF Lost, Gone, Cut
  <2>2. owner[x] \in Hosts
    BY <2>1 DEF Inv, HistoryTyped
  <2>3. QED
    BY <2>1, <2>2 DEF Effect, Lasting
<1>2. CASE phase[h] = "closed"
  <2>1. phase'[h] = "closed" /\ h # None
    BY <1>2, GameNetAssumption DEF Effect, Lasting, Hosts
  <2>2. QED
    BY <1>1, <2>1 DEF Lost, Gone
<1>3. CASE ~IsOpen(h, x)
  <2>1. ASSUME NEW q \in Here(h)', q.name = x, Open(q) PROVE FALSE
    <3>1. CASE \E o \in Here(h) : Kept(o, q)
      BY <1>3, <2>1, <3>1 DEF Kept, IsOpen
    <3>2. CASE ~IsLocal(q) /\ \E m \in Range(net[<<q.peer, h>>]) : m.state = "created" /\ m.name = q.name
      <4>1. PICK l \in Links : l = <<q.peer, h>>
        <5>1. <<h, q.peer>> \in Links
          BY <3>2 DEF Inv, StoreTyped
        <5>2. QED
          BY <5>1 DEF Links
      <4>2. PICK m \in Range(net[l]) : m.state = "created" /\ m.name = x
        BY <2>1, <3>2, <4>1
      <4>3. Good(l, m)
        BY <4>2 DEF Carried
      <4>4. l[2] = h
        BY <4>1
      <4>5. QED
        BY <1>1, <4>2, <4>3, <4>4 DEF Good
    <3>3. CASE owner[q.name] = None
      BY <1>1, <2>1, <3>3, GameNetAssumption DEF Hosts
    <3>4. QED
      BY <3>1, <3>2, <3>3 DEF Effect, Derived
  <2>2. ~(\E q \in Here(h)' : q.name = x /\ Open(q)) /\ h # None
    BY <2>1, GameNetAssumption DEF Hosts
  <2>3. QED
    BY <1>1, <2>2 DEF Lost, Gone, IsOpen, Here
<1>4. CASE Cut(x)
  <2>1. h \in Clients \intersect enetHost /\ <<h, Server>> \notin live
    BY <1>1, <1>4 DEF Cut
  <2>2. h \in enetHost' /\ <<h, Server>> \notin live'
    BY <2>1 DEF Effect, Lasting
  <2>3. QED
    BY <1>1, <2>1, <2>2 DEF Lost, Cut
<1>5. QED
  BY <1>1, <1>2, <1>3, <1>4 DEF Lost, Gone

LEMMA CarriedKeeps ==
  ASSUME Inv, Inv', Carried, Effect
  PROVE  Carried'
<1> SUFFICES ASSUME NEW l \in Links, NEW m \in Range(net'[l]) PROVE Good(l, m)'
  BY DEF Carried
<1>1. Good(l, m)
  BY DEF Effect, Passes
<1>2. PICK a \in Hosts, h \in Hosts : l = <<a, h>> /\ l[1] = a /\ l[2] = h /\ (h # Server => a = Server)
  BY DEF Links
<1>3. m \in GoodMsgs
  <2>1. net'[l] \in Seq(GoodMsgs)
    BY DEF Inv, NetTyped
  <2>2. QED
    BY <2>1, RangeIs
<1>4. m.state \in {"created", "closed", "message"} => m.name \in Objects
  BY <1>3 DEF GoodMsgs
<1>5. m.state = "created" => owner'[m.name] \notin {h, None}
  BY <1>1, <1>2, <1>4 DEF Good, Effect, Lasting
<1>6. m.state \in {"closed", "message"} /\ Lost(m.name) => Lost(m.name)'
  BY <1>4, LostLasts
<1>7. ASSUME m.state = "message", Has(l, m)
      PROVE  Lost(m.name) \/ Has(l, m)'
  <2>1. PICK o \in Here(h) : ~Unmapped(o) /\ o.id = m.id /\ o.name = m.name /\ o.peer # a
    BY <1>2, <1>7 DEF Has
  <2>2. ~IsLocal(o) => h = Server
    <3>1. ~IsLocal(o) => <<o.peer, h>> \in Links
      BY CopyLink
    <3>2. QED
      BY <1>2, <2>1, <3>1 DEF Links
  <2>3. Stays(h)
    BY DEF Effect
  <2>4. CASE \E q \in Here(h)' : ~Unmapped(q) /\ q.id = o.id /\ q.name = o.name /\ q.peer = o.peer
    BY <1>2, <2>1, <2>4 DEF Has
  <2>5. QED
    BY <2>1, <2>2, <2>3, <2>4 DEF Stays
<1>8. QED
  BY <1>1, <1>2, <1>5, <1>6, <1>7 DEF Good

LEMMA ForeignKeeps ==
  ASSUME Inv, Inv', Rest, Carried, Foreign, Effect
  PROVE  Foreign'
<1> SUFFICES ASSUME NEW h \in Hosts, NEW q \in Here(h)', ~IsLocal(q)
             PROVE  owner'[q.name] \notin {h, None}
  BY DEF Foreign
<1>1. q.name \in Objects
  <2>1. q \in Copies
    <3>1. objects'[h] \in Seq(Copies)
      BY DEF Inv, StoreTyped
    <3>2. QED
      BY <3>1, RangeIs DEF Here
  <2>2. QED
    BY <2>1 DEF Copies
<1>2. owner[q.name] \notin {h, None}
  <2>1. CASE \E o \in Here(h) : Kept(o, q)
    BY <2>1 DEF Kept, Foreign, IsLocal
  <2>2. CASE \E m \in Range(net[<<q.peer, h>>]) : m.state = "created" /\ m.name = q.name
    <3>1. PICK l \in Links : l = <<q.peer, h>>
      <4>1. <<h, q.peer>> \in Links
        BY DEF Inv, StoreTyped
      <4>2. QED
        BY <4>1 DEF Links
    <3>2. PICK m \in Range(net[l]) : m.state = "created" /\ m.name = q.name
      BY <2>2, <3>1
    <3>3. l[2] = h
      BY <3>1
    <3>4. QED
      BY <3>2, <3>3 DEF Carried, Good
  <2>3. QED
    BY <2>1, <2>2 DEF Effect, Derived
<1>3. QED
  BY <1>1, <1>2 DEF Effect, Lasting

LEMMA EndingKeeps ==
  ASSUME Inv, Inv', Ending, Effect, Rest
  PROVE  Ending'
<1> SUFFICES ASSUME NEW l \in Links, l \notin live', phase'[l[2]] # "closed"
             PROVE  Parted(l)'
  BY DEF Ending
<1>1. PICK a \in Hosts, h \in Hosts : l = <<a, h>> /\ l[1] = a /\ l[2] = h
  BY DEF Links
<1>2. Fades(l)
  BY DEF Effect
<1>3. CASE \E m \in Range(net'[l]) : m.state = "disconnect"
  BY <1>3 DEF Parted
<1>4. CASE net'[l] = <<>> /\ \A q \in Here(h)' : q.peer = a => ~Open(q)
  BY <1>1, <1>4 DEF Parted, Clear
<1>5. CASE l \notin live /\ net'[l] = net[l]
  <2>1. phase[h] # "closed"
    BY <1>1 DEF Effect, Lasting
  <2>2. Parted(l)
    BY <1>1, <1>5, <2>1 DEF Ending
  <2>3. CASE net[l] = <<>> /\ Clear(l)
    <3>1. Range(net[l]) = {}
      BY <2>3 DEF Range
    <3>2. ASSUME NEW q \in Here(h)', q.peer = a PROVE ~Open(q)
      <4>1. ~IsLocal(q)
        BY <3>2, GameNetAssumption DEF IsLocal, Hosts
      <4>2. PICK o \in Here(h) : Kept(o, q)
        BY <1>1, <3>1, <3>2, <4>1 DEF Effect, Derived
      <4>3. QED
        BY <1>1, <2>3, <3>2, <4>2 DEF Kept, Clear
    <3>3. QED
      BY <1>4, <1>5, <2>3, <3>2
  <2>4. QED
    BY <1>3, <1>5, <2>2, <2>3 DEF Parted
<1>6. QED
  BY <1>1, <1>2, <1>3, <1>4, <1>5 DEF Fades

LEMMA EffectKeeps ==
  ASSUME Inv, Inv', Rest, Carried, Foreign, Ending, Effect
  PROVE  Carried' /\ Foreign' /\ Ending' /\ Current'
<1>1. Current'
  BY DEF Effect, Calm, Current
<1>2. QED
  BY <1>1, CarriedKeeps, ForeignKeeps, EndingKeeps

-----------------------------------------------------------------------------
(* Parts of effects.                                                       *)

LEMMA GotoIs ==
  ASSUME Inv, NEW h \in Hosts, NEW w, Goto(h, w)
  PROVE  phase'[h] = w /\ \A k \in Hosts : k # h => phase'[k] = phase[k]
BY DEF Goto, Inv, WiresTyped

\* Hosts that a step leaves alone.
LEMMA ElseHost ==
  ASSUME Current, NEW k \in Hosts, Here(k)' = Here(k), phase'[k] = phase[k]
  PROVE  Derived(k) /\ Stays(k) /\ Calm(k)
<1>1. \A o : Kept(o, o)
  BY DEF Kept
<1>2. QED
  BY <1>1 DEF Derived, Stays, Calm, Current

\* The objects of a host stay as they are.
LEMMA StillHost ==
  ASSUME Current, NEW k \in Hosts, objects' = objects,
         phase'[k] = phase[k] \/ phase'[k] \in {"program", "closed"} \/ phase[k] = "sync"
  PROVE  Derived(k) /\ Stays(k) /\ Calm(k)
<1>1. Here(k)' = Here(k)
  BY HereSame
<1>2. \A o : Kept(o, o)
  BY DEF Kept
<1>3. QED
  BY <1>1, <1>2 DEF Derived, Stays, Calm, Current

LEMMA OneMsg ==
  ASSUME NEW m \in GoodMsgs
  PROVE  <<m>> \in Seq(GoodMsgs) /\ Range(<<m>>) = {m}
<1>1. PICK s \in Seq(GoodMsgs) : s = <<m>>
  <2>1. <<m>> \in Seq(GoodMsgs)
    OBVIOUS
  <2>2. QED
    BY <2>1
<1>2. \A e : e \in Range(s) <=> \E i \in 1 .. 1 : s[i] = e
  BY <1>1, RangeIs
<1>3. QED
  BY <1>1, <1>2

LEMMA NoMsg == <<>> \in Seq(GoodMsgs) /\ \A m : m \notin Range(<<>>)
BY DEF Range

\* One object is changed.
LEMMA OneHost ==
  ASSUME Current, NEW h \in Hosts, NEW o \in Here(h), NEW n, Succeeds(o, n), Open(o),
         Here(h)' = (Here(h) \ {o}) \union {n},
         ~Unmapped(n) \/ Lost(o.name),
         phase'[h] \in {"program", "closed"} \/ (phase[h] = "sync" /\ ~IsLocal(o))
  PROVE  Derived(h) /\ Stays(h) /\ Calm(h)
<1>1. \A q : Kept(q, q)
  BY DEF Kept
<1>2. Kept(o, n)
  BY DEF Kept, Succeeds
<1>3. Derived(h)
  BY <1>1, <1>2 DEF Derived
<1>4. Stays(h)
  BY DEF Stays, Succeeds
<1>5. Calm(h)
  <2>1. CASE phase[h] = "sync" /\ ~IsLocal(o)
    <3>1. ~IsLocal(n)
      BY <2>1 DEF Succeeds, IsLocal
    <3>2. QED
      BY <2>1, <3>1 DEF Calm, Current
  <2>2. QED
    BY <2>1 DEF Calm
<1>6. QED
  BY <1>3, <1>4, <1>5

\* The history stays as it is.
LEMMA LastingIf ==
  ASSUME owner' = owner, enetHost' = enetHost, live' \subseteq live,
         \A h \in Hosts : phase[h] = "closed" => phase'[h] = "closed"
  PROVE  Lasting
BY DEF Lasting

\* The phase of one host changes.
LEMMA ClosedStays ==
  ASSUME NEW h \in Hosts, phase[h] # "closed", \A k \in Hosts : k # h => phase'[k] = phase[k]
  PROVE  \A k \in Hosts : phase[k] = "closed" => phase'[k] = "closed"
OBVIOUS

LEMMA SameLink ==
  ASSUME Carried, NEW l \in Links, net'[l] = net[l], l \in live => l \in live'
  PROVE  Passes(l) /\ Fades(l)
BY DEF Carried, Passes, Fades

LEMMA MoreLink ==
  ASSUME Inv, Carried, NEW l \in Links, NEW msgs \in Seq(GoodMsgs), net'[l] = net[l] \o msgs,
         l \in live', \A m \in Range(msgs) : Good(l, m)
  PROVE  Passes(l) /\ Fades(l)
<1>1. net[l] \in Seq(GoodMsgs)
  BY DEF Inv, NetTyped
<1>2. Range(net'[l]) = Range(net[l]) \union Range(msgs)
  BY <1>1, ConcatIs
<1>3. QED
  BY <1>2 DEF Carried, Passes, Fades

LEMMA SentEffect ==
  ASSUME Inv, Carried, NEW h \in Hosts, NEW ps, NEW msgs \in Seq(GoodMsgs), net' = Sent(h, ps, msgs),
         live' = live,
         \A l \in live : l[1] = h /\ l[2] \in ps => \A m \in Range(msgs) : Good(l, m)
  PROVE  \A l \in Links : Passes(l) /\ Fades(l)
<1> TAKE l \in Links
<1>1. net'[l] = IF l[1] = h /\ l[2] \in ps /\ l \in live THEN net[l] \o msgs ELSE net[l]
  BY SentIs
<1>2. CASE l[1] = h /\ l[2] \in ps /\ l \in live
  <2>1. net'[l] = net[l] \o msgs /\ l \in live' /\ \A m \in Range(msgs) : Good(l, m)
    BY <1>1, <1>2
  <2>2. QED
    BY <2>1, MoreLink
<1>3. CASE ~(l[1] = h /\ l[2] \in ps /\ l \in live)
  BY <1>1, <1>3, SameLink
<1>4. QED
  BY <1>2, <1>3

LEMMA HandledEffect ==
  ASSUME Inv, Rest, Carried, Ending, NEW h \in Hosts, NEW p \in Hosts, NEW state, Comes(h, p, state),
         NEW ps, NEW msgs \in Seq(GoodMsgs), Handled(h, p, ps, msgs), live' = live,
         \A l \in live : l[1] = h /\ l[2] \in ps => \A m \in Range(msgs) : Good(l, m),
         state = "disconnect" => \A q \in Here(h)' : q.peer = p => ~Open(q)
  PROVE  \A l \in Links : Passes(l) /\ Fades(l)
<1> TAKE l \in Links
<1>1. /\ <<p, h>> \in Links /\ net[<<p, h>>] # <<>>
      /\ net[<<p, h>>] \in Seq(GoodMsgs)
      /\ net'[<<p, h>>] = Tail(net[<<p, h>>])
      /\ l # <<p, h>> =>
           net'[l] = IF l[1] = h /\ l[2] \in ps /\ l \in live THEN net[l] \o msgs ELSE net[l]
  <2>1. Wired
    BY DEF Rest
  <2>2. /\ <<p, h>> \in Links /\ net[<<p, h>>] # <<>>
        /\ net[<<p, h>>] \in Seq(GoodMsgs)
        /\ net'[<<p, h>>] = Tail(net[<<p, h>>])
        /\ \A k \in Links : k # <<p, h>> =>
             net'[k] = IF k[1] = h /\ k[2] \in ps /\ k \in live THEN net[k] \o msgs ELSE net[k]
    BY <2>1, Taken, ZenonT(60)
  <2>3. QED
    BY <2>2
<1>2. CASE l # <<p, h>>
  BY <1>1, <1>2, SameLink, MoreLink
<1>3. CASE l = <<p, h>>
  <2>1. l[1] = p /\ l[2] = h
    BY <1>3
  <2>2. PICK s \in Seq(GoodMsgs) : s = net[l] /\ s # <<>>
    BY <1>1, <1>3
  <2>3. PICK t \in Seq(GoodMsgs) :
          /\ t = Tail(s) /\ Len(t) + 1 = Len(s)
          /\ \A i \in 1 .. Len(t) : t[i] = s[i + 1]
          /\ Range(t) \subseteq Range(s) /\ s[1] = Head(s)
    BY <2>2, TailIs
  <2>4. net'[l] = t /\ s[1].state = state /\ phase[h] = "sync"
    <3>1. phase[h] = "sync" /\ Head(net[<<p, h>>]).state = state
      BY DEF Comes
    <3>2. QED
      BY <1>1, <1>3, <2>2, <2>3, <3>1
  <2>5. Passes(l)
    BY <2>2, <2>3, <2>4 DEF Passes, Carried
  <2>6. ASSUME l \notin live PROVE Fades(l)
    <3>1. phase[l[2]] # "closed"
      BY <2>1, <2>4
    <3>8. Parted(l)
      BY <2>6, <3>1 DEF Ending
    <3>2. PICK m \in Range(s) : m.state = "disconnect"
      BY <2>2, <3>8 DEF Parted
    <3>3. PICK i \in 1 .. Len(s) : s[i] = m
      BY <2>2, <3>2, RangeIs
    <3>4. i = Len(s)
      <4>1. Framed(s)
        BY <2>2 DEF Rest, Wired, Frames, Framing
      <4>2. QED
        BY <3>2, <3>3, <4>1 DEF Framed
    <3>5. CASE i = 1
      <4>1. state = "disconnect"
        BY <2>4, <3>2, <3>3, <3>5
      <4>2. Len(t) = 0
        BY <2>3, <3>4, <3>5
      <4>3. t = <<>>
        BY <4>2
      <4>4. QED
        BY <2>1, <2>4, <4>1, <4>3 DEF Fades
    <3>6. CASE i # 1
      <4>1. PICK N \in Nat : N = Len(t)
        OBVIOUS
      <4>2. N \in 1 .. N /\ N + 1 = i
        BY <2>3, <3>4, <3>6, <4>1
      <4>3. t[N] = m
        BY <2>3, <3>3, <4>1, <4>2
      <4>4. m \in Range(t)
        BY <4>1, <4>2, <4>3, RangeIs
      <4>5. QED
        BY <2>4, <3>2, <4>4 DEF Fades
    <3>7. QED
      BY <3>5, <3>6
  <2>7. l \in live => Fades(l)
    BY DEF Fades
  <2>8. QED
    BY <2>5, <2>6, <2>7
<1>4. QED
  BY <1>2, <1>3

-----------------------------------------------------------------------------
(* The program's actions.                                                  *)

\* An object that its owner does not have open is gone.
LEMMA GoneIf ==
  ASSUME Inv, Rest, Foreign, NEW h \in Hosts, NEW o \in Here(h), IsLocal(o), ~Open(o)
  PROVE  Lost(o.name)
<1>1. owner[o.name] = h
  BY DEF Rest, Named, Owned
<1>2. ASSUME NEW q \in Here(h), q.name = o.name, Open(q) PROVE FALSE
  <2>1. IsLocal(q)
    BY <1>1, <1>2 DEF Foreign
  <2>2. QED
    BY <1>2, <2>1 DEF Rest, Named, Once
<1>3. h # None
  BY GameNetAssumption DEF Hosts
<1>4. QED
  BY <1>1, <1>2, <1>3 DEF Lost, Gone, IsOpen

\* A program's action on one of its objects.
LEMMA OwnEffect ==
  ASSUME Inv, Rest, Carried, Current, NEW h \in Hosts, NEW o \in Here(h), NEW n, IsLocal(o), Open(o),
         Succeeds(o, n), Turn(h), Goto(h, "program"),
         Here(h)' = (Here(h) \ {o}) \union {n}, \A k \in Hosts : k # h => Here(k)' = Here(k),
         UNCHANGED <<wires, net, owner>>
  PROVE  Effect
<1>1. /\ phase'[h] = "program" /\ phase[h] # "closed"
      /\ \A k \in Hosts : k # h => phase'[k] = phase[k]
  BY GotoIs DEF Turn, Runs
<1>2. ~Unmapped(n)
  BY DEF Succeeds, Unmapped, IsLocal
<1>3. Derived(h) /\ Stays(h) /\ Calm(h)
  BY <1>1, <1>2, OneHost
<1>4. \A k \in Hosts : Derived(k) /\ Stays(k) /\ Calm(k)
  BY <1>1, <1>3, ElseHost
<1>5. enetHost' = enetHost /\ live' = live
  BY DEF wires
<1>6. Lasting
  BY <1>1, <1>5, ClosedStays, LastingIf
<1>7. \A l \in Links : Passes(l) /\ Fades(l)
  BY <1>5, SameLink
<1>8. QED
  BY <1>4, <1>6, <1>7 DEF Effect

LEMMA WriteEffect ==
  ASSUME Inv, Rest, Carried, Current, NEW h \in Hosts, NEW x \in Objects, WriteSlot(h, x)
  PROVE  Effect
<1>1. PICK o \in Here(h), n \in Copies :
        /\ IsLocal(o) /\ o.state \in {"created", "modified", "synced"} /\ Succeeds(o, n)
        /\ Here(h)' = (Here(h) \ {o}) \union {n}
        /\ \A k \in Hosts : k # h => Here(k)' = Here(k)
  BY WriteDoes DEF Rest
<1>2. Turn(h) /\ Goto(h, "program") /\ UNCHANGED <<wires, net, owner>>
  BY DEF WriteSlot, history
<1>3. QED
  BY <1>1, <1>2, OwnEffect DEF Open

LEMMA CloseEffect ==
  ASSUME Inv, Rest, Carried, Current, NEW h \in Hosts, NEW x \in Objects, CloseObject(h, x)
  PROVE  Effect
<1>1. PICK o \in Here(h), n \in Copies :
        /\ IsLocal(o) /\ o.state \in {"created", "modified", "synced"} /\ Succeeds(o, n)
        /\ Here(h)' = (Here(h) \ {o}) \union {n}
        /\ \A k \in Hosts : k # h => Here(k)' = Here(k)
  BY CloseDoes DEF Rest
<1>2. Turn(h) /\ Goto(h, "program") /\ UNCHANGED <<wires, net, owner>>
  BY DEF CloseObject
<1>3. QED
  BY <1>1, <1>2, OwnEffect DEF Open

LEMMA CreateEffect ==
  ASSUME Inv, Rest, Carried, Current, NEW h \in Hosts, NEW x \in Objects, CreateObject(h, x)
  PROVE  Effect
<1>1. PICK o \in Copies : Creates(h, x, o)
  BY CreateDoes DEF Rest
<1>2. Turn(h) /\ Goto(h, "program")
  BY DEF CreateObject
<1>3. /\ phase'[h] = "program" /\ phase[h] # "closed"
      /\ \A k \in Hosts : k # h => phase'[k] = phase[k]
  BY <1>2, GotoIs DEF Turn, Runs
<1>4. owner[x] = None /\ \A y \in Objects : y # x => owner'[y] = owner[y]
  BY <1>1 DEF Creates, Inv, HistoryTyped
<1>5. owner'[x] = h
  BY <1>1 DEF Creates, Inv, HistoryTyped
<1>6. \A q : Kept(q, q)
  BY DEF Kept
<1>7. /\ IsLocal(o) /\ o.name = x /\ Here(h)' = Here(h) \union {o}
      /\ \A k \in Hosts : k # h => Here(k)' = Here(k)
      /\ enetHost' = enetHost /\ live' = live /\ net' = net
  BY <1>1 DEF Creates
<1>8. Derived(h)
  BY <1>4, <1>5, <1>6, <1>7 DEF Derived
<1>9. Stays(h)
  BY <1>7 DEF Stays
<1>10. Calm(h)
  BY <1>3 DEF Calm
<1>11. \A k \in Hosts : Derived(k) /\ Stays(k) /\ Calm(k)
  BY <1>3, <1>7, <1>8, <1>9, <1>10, ElseHost
<1>12. Lasting
  <2>1. \A k \in Hosts : phase[k] = "closed" => phase'[k] = "closed"
    BY <1>3, ClosedStays
  <2>2. QED
    BY <1>4, <1>7, <2>1 DEF Lasting
<1>13. \A l \in Links : Passes(l) /\ Fades(l)
  BY <1>7, SameLink
<1>14. QED
  BY <1>11, <1>12, <1>13 DEF Effect

-----------------------------------------------------------------------------
(***************************************************************************)
(* Where a message to an object goes: unless the object is lost, the peer  *)
(* from which a host knows it has it at the id to which the message is     *)
(* addressed.                                                              *)
(***************************************************************************)
LEMMA StreamName ==
  ASSUME NEW r, NEW gone, NEW k \in Facts, NEW e, NEW s \in Seq(GoodMsgs), Stream(r, gone, k, s, e),
         k # Nothing, \A m \in Range(s) : m.state = "closed" => m.name # k.name
  PROVE  e \in Facts /\ e # Nothing /\ e.name = k.name
<1>1. PICK N \in Nat : N = Len(s)
  OBVIOUS
<1>2. PICK a \in [0 .. N -> Facts] :
        /\ a[0] = k /\ a[N] = e
        /\ \A n \in 1 .. N : Leads(r, gone, a[n - 1], s[n], a[n])
  BY <1>1 DEF Stream
<1> DEFINE P == {n \in 0 .. N : a[n] # Nothing /\ a[n].name = k.name}
<1>3. 0 \in P
  BY <1>2
<1>4. ASSUME NEW n \in 1 .. N, n - 1 \in P PROVE n \in P
  <2>1. n \in 0 .. N /\ n - 1 \in 0 .. N
    OBVIOUS
  <2>2. PICK b \in Facts : b = a[n - 1]
    BY <1>2, <2>1
  <2>3. PICK m \in GoodMsgs : m = s[n]
    BY <1>1
  <2>4. Leads(r, gone, b, m, a[n])
    BY <1>2, <2>2, <2>3
  <2>5. b # Nothing /\ b.name = k.name
    BY <1>4, <2>2
  <2>6. m \in Range(s)
    BY <1>1, <2>3, RangeIs
  <2>7. m.id = r => m.state \notin {"created", "closed"}
    BY <2>4, <2>5, <2>6 DEF Leads, Fits
  <2>8. a[n] = b \/ a[n] = [name |-> b.name, data |-> m.data]
    BY <2>4, <2>5, <2>7, AfterIs DEF Leads, Telling
  <2>9. b.name \in Objects
    BY <2>5 DEF Facts
  <2>10. a[n] # Nothing /\ a[n].name = b.name
    BY <2>5, <2>8, <2>9, GameNetAssumption DEF Nothing
  <2>11. QED
    BY <2>1, <2>5, <2>10
<1> HIDE DEF P
<1>5. \A n \in 0 .. N : n \in P
  BY <1>3, <1>4, Induct
<1>6. N \in P
  BY <1>5
<1>7. QED
  BY <1>2, <1>6 DEF P

LEMMA Traced ==
  ASSUME Inv, Flows, Carried, NEW h \in Hosts, NEW p \in Hosts, <<p, h>> \in live,
         NEW o \in Here(h), o.peer = p, Open(o), NEW pair \in mapped[<<h, p>>], pair[1] = o.id,
         ~Lost(o.name)
  PROVE  \E q \in Here(p) :
           q.id = pair[2] /\ q.name = o.name /\ Shown(q, h, peers[p], MissedBy(h))
<1>1. <<p, h>> \in Links /\ <<h, p>> \in Links
  <2>1. <<p, h>> \in Links
    BY DEF Inv, WiresTyped
  <2>2. QED
    BY <2>1 DEF Links
<1>2. PICK r \in Ids : r = pair[2]
  BY <1>1, StoreOf
<1>3. Flow(p, h, r)
  BY <1>1 DEF Flows
<1>4. PICK k \in Facts, e \in Facts :
        /\ Knows(Here(h), mapped[<<h, p>>], p, r, k)
        /\ Stream(r, MissedBy(h), k, net[<<p, h>>], e)
        /\ <<p, h>> \in live => Tells(Here(p), peers[p], MissedBy(h), h, r, e)
  BY <1>3 DEF Flow
<1>5. Arrays(Here(h), p, mapped[<<h, p>>]) /\ Row(Here(h), idMap[h])
  BY <1>1, StoreOf DEF Tables
<1>6. ~Unmapped(o)
  BY DEF Unmapped
<1>7. k # Nothing /\ k.name = o.name
  <2>1. k # Nothing
    BY <1>2, <1>4 DEF Knows
  <2>2. PICK w \in mapped[<<h, p>>], q \in Here(h) :
          /\ w[2] = r /\ q.id = w[1] /\ q.peer = p /\ Open(q)
          /\ k = [name |-> q.name, data |-> q.data]
    BY <1>4, <2>1 DEF Knows
  <2>3. w[1] = pair[1]
    BY <1>2, <1>5, <2>2 DEF Arrays
  <2>4. q = o
    BY <1>5, <1>6, <2>2, <2>3 DEF Row, Unmapped
  <2>5. QED
    BY <2>1, <2>2, <2>4
<1>8. PICK l \in Links : l = <<p, h>>
  BY <1>1
<1>9. net[l] \in Seq(GoodMsgs)
  BY DEF Inv, NetTyped
<1>10. \A m \in Range(net[l]) : m.state = "closed" => m.name # k.name
  BY <1>7 DEF Carried, Good
<1>11. e # Nothing /\ e.name = k.name
  BY <1>4, <1>7, <1>8, <1>9, <1>10, StreamName
<1>12. PICK q \in Here(p) : q.id = r /\ Shown(q, h, peers[p], MissedBy(h)) /\ Agrees(e, q)
  BY <1>4, <1>11 DEF Tells
<1>13. QED
  BY <1>2, <1>7, <1>11, <1>12 DEF Agrees

\* A message that is sent, or handed on, to an object.
LEMMA AddressedGood ==
  ASSUME Inv, Rest, Flows, Carried, NEW h \in Hosts, NEW p \in Hosts, NEW m,
         m.state = "message", NEW o \in Here(h), NEW pair \in mapped[<<h, p>>], Addresses(o, pair, p, m),
         Lost(m.name) \/ o.name = m.name, <<h, p>> \in live
  PROVE  Good(<<h, p>>, m)
<1>1. PICK l : l = <<h, p>>
  OBVIOUS
<1>2. l[1] = h /\ l[2] = p
  BY <1>1
<1>3. CASE Lost(m.name)
  BY <1>1, <1>3 DEF Good
<1>4. CASE ~Lost(m.name)
  <2>1. <<p, h>> \in live
    BY <1>1, <1>2 DEF Rest, Wired, Symmetric
  <2>2. o.name = m.name /\ o.peer = p /\ Open(o) /\ pair[1] = o.id /\ m.id = pair[2]
    BY <1>4 DEF Addresses
  <2>3. PICK q \in Here(p) :
          q.id = pair[2] /\ q.name = o.name /\ Shown(q, h, peers[p], MissedBy(h))
    BY <1>4, <2>1, <2>2, Traced
  <2>4. ~Unmapped(q) /\ q.id = m.id /\ q.name = m.name /\ q.peer # h
    BY <2>2, <2>3 DEF Shown
  <2>5. Has(l, m)
    BY <1>2, <2>4 DEF Has
  <2>6. QED
    BY <1>1, <2>5 DEF Good
<1>5. QED
  BY <1>3, <1>4

LEMMA MessageEffect ==
  ASSUME Inv, Rest, Flows, Carried, Current, NEW h \in Hosts, NEW x \in Objects, SendMessage(h, x)
  PROVE  Effect
<1>1. PICK p \in Hosts, m \in GoodMsgs, o \in Here(h) : \E pair \in mapped[<<h, p>>] :
        /\ m.state = "message" /\ m.name = x /\ o.name = x
        /\ Addresses(o, pair, p, m) /\ net' = Sent(h, {p}, <<m>>)
  BY MessageSent
<1>2. /\ Turn(h) /\ Goto(h, "program") /\ owner' = owner /\ enetHost' = enetHost /\ live' = live
      /\ objects' = objects
  BY DEF SendMessage, wires, store
<1>3. /\ phase'[h] = "program" /\ phase[h] # "closed"
      /\ \A k \in Hosts : k # h => phase'[k] = phase[k]
  BY <1>2, GotoIs DEF Turn, Runs
<1>4. Lasting
  BY <1>2, <1>3, ClosedStays, LastingIf
<1>5. \A k \in Hosts : Derived(k) /\ Stays(k) /\ Calm(k)
  BY <1>2, <1>3, StillHost
<1>6. PICK msgs \in Seq(GoodMsgs) : msgs = <<m>> /\ Range(msgs) = {m}
  BY OneMsg
<1>7. ASSUME NEW l \in live, l[1] = h, l[2] \in {p}
      PROVE  \A n \in Range(msgs) : Good(l, n)
  <2>1. l = <<h, p>>
    BY <1>7 DEF Inv, WiresTyped, Links
  <2>2. QED
    BY <1>1, <1>6, <1>7, <2>1, AddressedGood
<1>8. \A l \in Links : Passes(l) /\ Fades(l)
  BY <1>1, <1>2, <1>6, <1>7, SentEffect
<1>9. QED
  BY <1>4, <1>5, <1>8 DEF Effect

-----------------------------------------------------------------------------
(* The events.                                                             *)

Handler(h, p) ==
  \/ HandleConnect(h, p) \/ HandleDisconnect(h, p) \/ HandleMessage(h, p)
  \/ HandleCreated(h, p) \/ HandleModified(h, p) \/ HandleClosed(h, p)

\* No handler ends a connection or a program, except by failing.
LEMMA HandlerLasts ==
  ASSUME Inv, NEW h \in Hosts, NEW p \in Hosts, Handler(h, p)
  PROVE  /\ Lasting /\ live' = live /\ phase[h] = "sync" /\ phase'[h] # "closed"
         /\ \A k \in Hosts : k # h => phase'[k] = phase[k]
<1>1. phase[h] = "sync"
  BY DEF Handler, HandleConnect, HandleDisconnect, HandleMessage, HandleCreated, HandleModified,
         HandleClosed, Comes
<1>2. enetHost' = enetHost /\ live' = live /\ owner' = owner
  <2>1. ASSUME NEW w, Fail(h, w) PROVE enetHost' = enetHost /\ live' = live /\ owner' = owner
    BY <2>1 DEF Fail, wires, history
  <2>2. ASSUME NEW ps, Refused(h, ps) PROVE enetHost' = enetHost /\ live' = live /\ owner' = owner
    BY <2>1, <2>2 DEF Refused
  <2>3. CASE HandleConnect(h, p)
    BY <2>2, <2>3 DEF HandleConnect
  <2>4. CASE HandleDisconnect(h, p)
    BY <2>1, <2>2, <2>4 DEF HandleDisconnect, history
  <2>5. CASE HandleMessage(h, p)
    BY <2>1, <2>2, <2>5 DEF HandleMessage, wires, history
  <2>6. CASE HandleCreated(h, p)
    BY <2>1, <2>2, <2>6 DEF HandleCreated, wires, history
  <2>7. CASE HandleModified(h, p) \/ HandleClosed(h, p)
    BY <2>1, <2>2, <2>7 DEF HandleModified, HandleClosed, wires, history
  <2>8. QED
    BY <2>3, <2>4, <2>5, <2>6, <2>7 DEF Handler
<1>3. phase' = phase \/ \E w \in Failures : Goto(h, w)
  <2>1. ASSUME NEW w \in Failures, Fail(h, w) PROVE \E f \in Failures : Goto(h, f)
    BY <2>1 DEF Fail
  <2>2. ASSUME NEW ps, Refused(h, ps) PROVE \E f \in Failures : Goto(h, f)
    BY <2>1, <2>2 DEF Refused, Failures
  <2>3. CASE HandleConnect(h, p)
    BY <2>2, <2>3 DEF HandleConnect
  <2>4. CASE HandleDisconnect(h, p)
    BY <2>1, <2>2, <2>4 DEF HandleDisconnect, Failures
  <2>5. CASE HandleMessage(h, p)
    BY <2>1, <2>2, <2>5 DEF HandleMessage, Failures
  <2>6. CASE HandleCreated(h, p)
    BY <2>1, <2>2, <2>6 DEF HandleCreated, Failures
  <2>7. CASE HandleModified(h, p) \/ HandleClosed(h, p)
    BY <2>1, <2>2, <2>7 DEF HandleModified, HandleClosed, Failures
  <2>8. QED
    BY <2>3, <2>4, <2>5, <2>6, <2>7 DEF Handler
<1>4. phase'[h] # "closed" /\ \A k \in Hosts : k # h => phase'[k] = phase[k]
  <2>1. CASE phase' = phase
    BY <1>1, <2>1
  <2>2. CASE \E w \in Failures : Goto(h, w)
    BY <2>2, GotoIs DEF Failures
  <2>3. QED
    BY <1>3, <2>1, <2>2
<1>5. Lasting
  BY <1>1, <1>2, <1>4, ClosedStays, LastingIf
<1>6. QED
  BY <1>1, <1>2, <1>4, <1>5

LEMMA StillEffect ==
  ASSUME Inv, Carried, Current, NEW h \in Hosts, NEW p \in Hosts, Handler(h, p), Still
  PROVE  Effect
<1>1. /\ Lasting /\ live' = live /\ phase[h] = "sync"
      /\ \A k \in Hosts : k # h => phase'[k] = phase[k]
  BY HandlerLasts
<1>2. objects' = objects /\ net' = net
  BY DEF Still, store
<1>3. \A k \in Hosts : Derived(k) /\ Stays(k) /\ Calm(k)
  BY <1>1, <1>2, StillHost
<1>4. \A l \in Links : Passes(l) /\ Fades(l)
  BY <1>1, <1>2, SameLink
<1>5. QED
  BY <1>1, <1>3, <1>4 DEF Effect

\* What is said of the first message on a link.
LEMMA HeadGood ==
  ASSUME Inv, Carried, NEW h \in Hosts, NEW p \in Hosts, NEW state, Comes(h, p, state)
  PROVE  /\ Good(<<p, h>>, Message(h, p)) /\ Message(h, p).state = state
         /\ Message(h, p) \in GoodMsgs /\ Message(h, p) \in Range(net[<<p, h>>])
<1>1. /\ <<p, h>> \in Links /\ net[<<p, h>>] # <<>>
      /\ Message(h, p) \in GoodMsgs /\ Message(h, p).state = state
  BY Event
<1>2. net[<<p, h>>] \in Seq(GoodMsgs)
  BY <1>1 DEF Inv, NetTyped
<1>3. Message(h, p) \in Range(net[<<p, h>>])
  BY <1>1, <1>2, TailIs DEF Message
<1>4. QED
  BY <1>1, <1>3 DEF Carried

LEMMA HandleMessageEffect ==
  ASSUME Inv, Rest, Flows, Carried, Ending, Current, NEW h \in Hosts, NEW p \in Hosts,
         HandleMessage(h, p)
  PROVE  Effect
<1>1. Comes(h, p, "message")
  BY DEF HandleMessage
<1>2. PICK msg \in GoodMsgs : msg = Message(h, p) /\ msg.state = "message" /\ Good(<<p, h>>, msg)
  BY <1>1, HeadGood
<1>3. Handler(h, p)
  BY DEF Handler
<1>4. /\ Lasting /\ live' = live /\ phase[h] = "sync"
      /\ \A k \in Hosts : k # h => phase'[k] = phase[k]
  BY <1>3, HandlerLasts
<1>5. CASE Still
  BY <1>3, <1>5, StillEffect
<1>6. ASSUME NEW ps, NEW msgs \in Seq(GoodMsgs), Handled(h, p, ps, msgs), objects' = objects,
             \A l \in live : l[1] = h /\ l[2] \in ps => \A m \in Range(msgs) : Good(l, m)
      PROVE  Effect
  <2>1. \A k \in Hosts : Derived(k) /\ Stays(k) /\ Calm(k)
    BY <1>4, <1>6, StillHost
  <2>2. \A l \in Links : Passes(l) /\ Fades(l)
    BY <1>1, <1>4, <1>6, HandledEffect
  <2>3. QED
    BY <1>4, <2>1, <2>2 DEF Effect
<1>7. CASE Handled(h, p, {}, <<>>) /\ objects' = objects
  <2>1. PICK msgs \in Seq(GoodMsgs) : msgs = <<>>
    BY NoMsg
  <2>5. PICK ps : ps = {}
    OBVIOUS
  <2>2. Handled(h, p, ps, msgs) /\ objects' = objects
    BY <1>7, <2>1, <2>5
  <2>3. \A l \in live : l[1] = h /\ l[2] \in ps => \A m \in Range(msgs) : Good(l, m)
    BY <2>5
  <2>4. QED
    BY <1>6, <2>2, <2>3
<1>8. ASSUME objects' = objects, NEW to \in Hosts, NEW m \in GoodMsgs, NEW o \in Here(h),
             NEW pair \in mapped[<<h, to>>], m.state = "message", m.name = msg.name, o.id = msg.id,
             Addresses(o, pair, to, m), Handled(h, p, {to}, <<m>>)
      PROVE  Effect
  <2>1. PICK msgs \in Seq(GoodMsgs) : msgs = <<m>> /\ Range(msgs) = {m}
    BY OneMsg
  <2>2. Lost(m.name) \/ o.name = m.name
    <3>1. PICK l : l = <<p, h>>
      OBVIOUS
    <3>4. l[2] = h
      BY <3>1
    <3>2. CASE Has(l, msg)
      <4>1. PICK q \in Here(h) : ~Unmapped(q) /\ q.id = msg.id /\ q.name = msg.name
        BY <3>2, <3>4 DEF Has
      <4>2. ~Unmapped(o)
        BY <1>8 DEF Addresses, Unmapped
      <4>3. q = o
        BY <1>8, <4>1, <4>2, StoreOf DEF Tables, Row
      <4>4. QED
        BY <1>8, <4>1, <4>3
    <3>3. QED
      BY <1>2, <1>8, <3>1, <3>2 DEF Good
  <2>3. ASSUME NEW l \in live, l[1] = h, l[2] \in {to}
        PROVE  \A n \in Range(msgs) : Good(l, n)
    <3>1. l = <<h, to>>
      BY <2>3 DEF Inv, WiresTyped, Links
    <3>2. QED
      BY <1>8, <2>1, <2>2, <2>3, <3>1, AddressedGood
  <2>4. QED
    BY <1>6, <1>8, <2>1, <2>3
<1>9. QED
  <2>1. Still \/ objects' = objects
    BY HandlesMessage DEF store
  <2>2. QED
    BY <1>2, <1>5, <1>7, <1>8, <2>1, HandlesMessage DEF store

-----------------------------------------------------------------------------
LEMMA UpdatesEffect ==
  ASSUME Inv, Rest, Flows, Carried, Ending, Current, NEW h \in Hosts, NEW p \in Hosts, Handler(h, p),
         NEW state \in {"modified", "closed"}, Comes(h, p, state), NEW msg \in GoodMsgs,
         msg = Message(h, p), NEW i \in Ids, NEW o \in Here(h), NEW n \in Copies,
         NEW pair \in mapped[<<h, p>>], NEW new \in GoodMsgs, Updates(h, p, msg, i, o, n, pair, new)
  PROVE  Effect
<1>1. /\ Lasting /\ live' = live /\ phase[h] = "sync"
      /\ \A k \in Hosts : k # h => phase'[k] = phase[k]
  BY HandlerLasts
<1>2. /\ Good(<<p, h>>, msg) /\ msg.state = state /\ msg.id \in Ids /\ msg.name \in Objects
  BY HeadGood DEF GoodMsgs
<1>3. /\ pair[1] = i /\ pair[2] = msg.id
      /\ o.id = i /\ o.peer = p /\ Open(o) /\ Succeeds(o, n) /\ n.state = msg.state
      /\ Here(h)' = (Here(h) \ {o}) \union {n}
      /\ \A k \in Hosts : k # h => Here(k)' = Here(k)
      /\ new.state = msg.state /\ new.name = msg.name
      /\ Handled(h, p, Others(h, p), <<new>>)
  BY DEF Updates
<1>4. ~IsLocal(o)
  BY <1>3, GameNetAssumption DEF IsLocal, Hosts
<1>5. state = "closed" => Lost(msg.name)
  BY <1>2 DEF Good
<1>6. o.name = msg.name
  <2>1. /\ <<p, h>> \in Links /\ <<h, p>> \in Links /\ net[<<p, h>>] # <<>>
        /\ msg = Head(net[<<p, h>>])
    BY Event DEF Message
  <2>2. Flow(p, h, msg.id)
    BY <1>2, <2>1 DEF Flows
  <2>3. PICK k \in Facts : /\ Knows(Here(h), mapped[<<h, p>>], p, msg.id, k)
                           /\ Fits(k, msg, MissedBy(h))
    BY <1>2, <2>1, <2>2, FlowFits
  <2>4. k # Nothing
    BY <1>3, <2>3 DEF Knows
  <2>5. PICK w \in mapped[<<h, p>>], q \in Here(h) :
          /\ w[2] = msg.id /\ q.id = w[1] /\ q.peer = p /\ Open(q) /\ k.name = q.name
    BY <2>3, <2>4 DEF Knows
  <2>6. Arrays(Here(h), p, mapped[<<h, p>>]) /\ Row(Here(h), idMap[h])
    BY <2>1, StoreOf DEF Tables
  <2>7. q = o
    BY <1>3, <2>5, <2>6 DEF Arrays, Row, Unmapped
  <2>8. QED
    BY <1>2, <2>3, <2>4, <2>5, <2>7 DEF Fits
<1>7. ~Unmapped(n) \/ Lost(o.name)
  BY <1>2, <1>3, <1>5, <1>6 DEF Unmapped, Open
<1>8. Derived(h) /\ Stays(h) /\ Calm(h)
  BY <1>1, <1>3, <1>4, <1>7, OneHost
<1>9. \A k \in Hosts : Derived(k) /\ Stays(k) /\ Calm(k)
  BY <1>1, <1>3, <1>8, ElseHost
<1>10. PICK msgs \in Seq(GoodMsgs) : msgs = <<new>> /\ Range(msgs) = {new}
  BY OneMsg
<1>11. \A l \in live : Good(l, new)
  BY <1>2, <1>3, <1>5 DEF Good
<1>12. \A l \in Links : Passes(l) /\ Fades(l)
  <2>1. PICK ps : ps = Others(h, p) /\ Handled(h, p, ps, msgs)
    BY <1>3, <1>10
  <2>2. \A l \in live : l[1] = h /\ l[2] \in ps => \A m \in Range(msgs) : Good(l, m)
    BY <1>10, <1>11
  <2>3. state # "disconnect"
    OBVIOUS
  <2>4. QED
    BY <1>1, <2>1, <2>2, <2>3, HandledEffect
<1>13. QED
  BY <1>1, <1>9, <1>12 DEF Effect

LEMMA HandleUpdateEffect ==
  ASSUME Inv, Rest, Flows, Carried, Ending, Current, NEW h \in Hosts, NEW p \in Hosts,
         HandleModified(h, p) \/ HandleClosed(h, p)
  PROVE  Effect
<1>1. Handler(h, p)
  BY DEF Handler
<1>2. PICK state \in {"modified", "closed"} : Comes(h, p, state)
  BY DEF HandleModified, HandleClosed
<1>3. PICK msg \in GoodMsgs : msg = Message(h, p)
  BY <1>2, Event
<1>4. CASE Still
  BY <1>1, <1>4, StillEffect
<1>5. CASE \E i \in Ids, o \in Here(h), n \in Copies, pair \in mapped[<<h, p>>], new \in GoodMsgs :
             Updates(h, p, msg, i, o, n, pair, new)
  BY <1>1, <1>2, <1>3, <1>5, UpdatesEffect
<1>6. QED
  BY <1>3, <1>4, <1>5, ModifiedDoes, ClosedDoes DEF Rest

LEMMA ReceivesEffect ==
  ASSUME Inv, Rest, Carried, Ending, Current, NEW h \in Hosts, NEW p \in Hosts, Handler(h, p),
         Comes(h, p, "created"), NEW o \in Copies, NEW new \in GoodMsgs,
         Receives(h, p, Message(h, p), o, new)
  PROVE  Effect
<1>1. /\ Lasting /\ live' = live /\ phase[h] = "sync"
      /\ \A k \in Hosts : k # h => phase'[k] = phase[k]
  BY HandlerLasts
<1>2. PICK msg \in GoodMsgs : msg = Message(h, p)
  BY HeadGood
<1>3. msg.state = "created" /\ msg \in Range(net[<<p, h>>])
  BY <1>2, HeadGood
<1>4. /\ o.name = msg.name /\ o.peer = p
      /\ Here(h)' = Here(h) \union {o}
      /\ \A k \in Hosts : k # h => Here(k)' = Here(k)
      /\ new.state = "created" /\ new.name = msg.name
      /\ Handled(h, p, Others(h, p), <<new>>)
  BY <1>2 DEF Receives
<1>5. ~IsLocal(o)
  BY <1>4, GameNetAssumption DEF IsLocal, Hosts
<1>6. \A q : Kept(q, q)
  BY DEF Kept
<1>7. Derived(h)
  BY <1>3, <1>4, <1>5, <1>6 DEF Derived
<1>8. Stays(h)
  BY <1>4 DEF Stays
<1>9. Calm(h)
  BY <1>1, <1>4, <1>5 DEF Calm, Current
<1>10. \A k \in Hosts : Derived(k) /\ Stays(k) /\ Calm(k)
  BY <1>1, <1>4, <1>7, <1>8, <1>9, ElseHost
<1>11. PICK msgs \in Seq(GoodMsgs) : msgs = <<new>> /\ Range(msgs) = {new}
  BY OneMsg
<1>12. PICK ps : ps = Others(h, p) /\ Handled(h, p, ps, msgs)
  BY <1>4, <1>11
<1>13. ASSUME NEW l \in live, l[1] = h, l[2] \in ps PROVE Good(l, new)
  <2>1. <<p, h>> \in Links
    BY Event
  <2>2. h = Server
    BY <1>12, <1>13, <2>1, NoOthers DEF Rest
  <2>3. p \in Clients
    BY <2>1, <2>2 DEF Links, Hosts
  <2>4. owner[msg.name] = p
    BY <1>3, <2>2, <2>3 DEF Rest, Named, Arriving, Arrives
  <2>5. l[2] # p
    BY <1>12, <1>13 DEF Others
  <2>6. p # None
    BY GameNetAssumption DEF Hosts
  <2>7. QED
    BY <1>4, <2>4, <2>5, <2>6 DEF Good
<1>14. \A l \in Links : Passes(l) /\ Fades(l)
  <2>1. \A l \in live : l[1] = h /\ l[2] \in ps => \A m \in Range(msgs) : Good(l, m)
    BY <1>11, <1>13
  <2>2. QED
    BY <1>1, <1>12, <2>1, HandledEffect
<1>15. QED
  BY <1>1, <1>10, <1>14 DEF Effect

LEMMA HandleCreatedEffect ==
  ASSUME Inv, Rest, Carried, Ending, Current, NEW h \in Hosts, NEW p \in Hosts, HandleCreated(h, p)
  PROVE  Effect
<1>1. Handler(h, p)
  BY DEF Handler
<1>2. Comes(h, p, "created")
  BY DEF HandleCreated
<1>3. CASE Still
  BY <1>1, <1>3, StillEffect
<1>4. ASSUME NEW o \in Copies, NEW new \in GoodMsgs, Receives(h, p, Message(h, p), o, new)
      PROVE  Effect
  BY <1>1, <1>2, <1>4, ReceivesEffect
<1>5. QED
  BY <1>3, <1>4, CreatedDoes DEF Rest

\* The objects of a client whose connection has ended are lost.
LEMMA TheirsLost ==
  ASSUME Inv, Rest, Carried, NEW p \in Hosts, Comes(Server, p, "disconnect")
  PROVE  \A o \in Here(Server) : o.peer = p => Lost(o.name)
<1>1. Server \in Hosts
  BY DEF Hosts
<1>2. PICK l \in Links : l = <<p, Server>>
  BY <1>1, Event
<1>3. Message(Server, p) \in Range(net[l]) /\ Message(Server, p).state = "disconnect"
  BY <1>1, <1>2, HeadGood
<1>4. l \notin live /\ l[1] \in enetHost
  BY <1>3 DEF Rest, Wired, Frames, Framing
<1>5. l[1] = p /\ p \in Clients
  BY <1>2 DEF Links, Hosts
<1>6. ASSUME NEW o \in Here(Server), o.peer = p PROVE owner[o.name] = p
  <2>1. ~IsLocal(o)
    BY <1>6, GameNetAssumption DEF IsLocal, Hosts
  <2>2. QED
    BY <1>1, <1>6, <2>1 DEF Rest, Named, Owned
<1>7. QED
  BY <1>2, <1>4, <1>5, <1>6 DEF Lost, Cut

LEMMA LosesEffect ==
  ASSUME Inv, Rest, Carried, Ending, Current, NEW h \in Hosts, NEW p \in Hosts, Handler(h, p),
         Comes(h, p, "disconnect"), NEW msgs \in Seq(GoodMsgs), Loses(h, p, msgs)
  PROVE  Effect
<1>1. /\ Lasting /\ live' = live /\ phase[h] = "sync"
      /\ \A k \in Hosts : k # h => phase'[k] = phase[k]
  BY HandlerLasts
<1>2. /\ Handled(h, p, Others(h, p), msgs)
      /\ \A m \in Range(msgs) : m.state = "closed" /\ \E o \in Here(h) : o.peer = p /\ m.name = o.name
      /\ \A q \in Here(h)' : \E o \in Here(h) : q = IF o.peer = p THEN Closed(o) ELSE o
      /\ \A o \in Here(h) : o.peer # p => o \in Here(h)'
      /\ \A k \in Hosts : k # h => Here(k)' = Here(k)
  BY DEF Loses
<1>3. h = Server => \A o \in Here(h) : o.peer = p => Lost(o.name)
  BY TheirsLost
<1>4. p # None
  BY GameNetAssumption DEF Hosts
<1>5. \A o \in Here(h) : o \in Copies
  BY StoreOf
<1>6. \A o \in Copies : Closed(o).id = o.id /\ Closed(o).name = o.name /\ Closed(o).peer = o.peer
                        /\ ~Open(Closed(o))
  BY DEF Closed, Copies, Open
<1>7. \A q \in Here(h)' : \E o \in Here(h) :
        /\ q.id = o.id /\ q.name = o.name /\ q.peer = o.peer
        /\ o.peer = p => ~Open(q)
        /\ o.peer # p => q = o
  BY <1>2, <1>5, <1>6
<1>8. Derived(h)
  BY <1>7 DEF Derived, Kept
<1>9. Stays(h)
  BY <1>2, <1>3, <1>4 DEF Stays, IsLocal
<1>10. Calm(h)
  BY <1>1, <1>4, <1>7 DEF Calm, Current, IsLocal
<1>11. \A k \in Hosts : Derived(k) /\ Stays(k) /\ Calm(k)
  BY <1>1, <1>2, <1>8, <1>9, <1>10, ElseHost
<1>12. PICK ps : ps = Others(h, p) /\ Handled(h, p, ps, msgs)
  BY <1>2
<1>13. ASSUME NEW l \in live, l[1] = h, l[2] \in ps, NEW m \in Range(msgs) PROVE Good(l, m)
  <2>1. <<p, h>> \in Links
    BY Event
  <2>2. h = Server
    BY <1>12, <1>13, <2>1, NoOthers DEF Rest
  <2>3. QED
    BY <1>2, <1>3, <2>2 DEF Good
<1>14. \A q \in Here(h)' : q.peer = p => ~Open(q)
  BY <1>7
<1>15. \A l \in Links : Passes(l) /\ Fades(l)
  <2>1. \A l \in live : l[1] = h /\ l[2] \in ps => \A m \in Range(msgs) : Good(l, m)
    BY <1>13
  <2>2. QED
    BY <1>1, <1>12, <1>14, <2>1, HandledEffect
<1>16. QED
  BY <1>1, <1>11, <1>15 DEF Effect

LEMMA HandleDisconnectEffect ==
  ASSUME Inv, Rest, Carried, Ending, Current, NEW h \in Hosts, NEW p \in Hosts, HandleDisconnect(h, p)
  PROVE  Effect
<1>1. Handler(h, p)
  BY DEF Handler
<1>2. Comes(h, p, "disconnect")
  BY DEF HandleDisconnect
<1>3. CASE Still
  BY <1>1, <1>3, StillEffect
<1>4. ASSUME NEW msgs \in Seq(GoodMsgs), Loses(h, p, msgs)
      PROVE  Effect
  BY <1>1, <1>2, <1>4, LosesEffect
<1>5. QED
  BY <1>3, <1>4, DisconnectDoes DEF Rest

LEMMA HandleConnectEffect ==
  ASSUME Inv, Rest, Carried, Foreign, Ending, Current, NEW h \in Hosts, NEW p \in Hosts,
         HandleConnect(h, p)
  PROVE  Effect
<1>1. Handler(h, p)
  BY DEF Handler
<1>2. Comes(h, p, "connect")
  BY DEF HandleConnect
<1>3. CASE Still
  BY <1>1, <1>3, StillEffect
<1>4. ASSUME NEW msgs \in Seq(GoodMsgs), Admits(h, p, msgs), AddsAll(h, msgs)
      PROVE  Effect
  <2>1. /\ Lasting /\ live' = live /\ phase[h] = "sync"
        /\ \A k \in Hosts : k # h => phase'[k] = phase[k]
    BY <1>1, HandlerLasts
  <2>2. objects' = objects
    BY DEF HandleConnect, Refused, Fail, store
  <2>3. \A k \in Hosts : Derived(k) /\ Stays(k) /\ Calm(k)
    BY <2>1, <2>2, StillHost
  <2>4. PICK l \in Links : l = <<p, h>>
    BY <1>2, Event
  <2>5. PICK msg \in Range(net[l]) : msg.state = "connect"
    BY <1>2, <2>4, HeadGood
  <2>6. h = Server /\ p \in Clients
    <3>1. l[2] = Server /\ l[2] = h
      BY <2>4, <2>5 DEF Rest, Wired, Frames, Framing
    <3>2. QED
      BY <2>4, <3>1 DEF Links, Hosts
  <2>7. \A o \in Here(h) : o.peer # p
    BY <2>4, <2>5, <2>6 DEF Rest, Wired, Strangers, NotYet
  <2>8. ASSUME NEW o \in Here(h) PROVE owner[o.name] \notin {p, None}
    <3>1. CASE IsLocal(o)
      <4>1. owner[o.name] = h
        BY <3>1 DEF Rest, Named, Owned
      <4>2. h # p /\ h # None
        BY <2>6, GameNetAssumption DEF Hosts
      <4>3. QED
        BY <4>1, <4>2
    <3>2. CASE ~IsLocal(o)
      <4>1. owner[o.name] = o.peer
        BY <2>6, <3>2 DEF Rest, Named, Owned
      <4>2. owner[o.name] # None
        BY <3>2 DEF Foreign
      <4>3. QED
        BY <2>7, <4>1, <4>2
    <3>3. QED
      BY <3>1, <3>2
  <2>9. PICK ps : ps = {p} /\ Handled(h, p, ps, msgs)
    BY <1>4 DEF Admits
  <2>10. ASSUME NEW k \in live, k[2] \in ps, NEW m \in Range(msgs) PROVE Good(k, m)
    <3>1. PICK o \in Here(h) : m.state = "created" /\ m.name = o.name
      BY <1>4, <2>10 DEF AddsAll
    <3>2. QED
      BY <2>8, <2>9, <2>10, <3>1 DEF Good
  <2>11. \A k \in Links : Passes(k) /\ Fades(k)
    <3>1. \A k \in live : k[1] = h /\ k[2] \in ps => \A m \in Range(msgs) : Good(k, m)
      BY <2>10
    <3>2. QED
      BY <1>2, <2>1, <2>9, <3>1, HandledEffect
  <2>12. QED
    BY <2>1, <2>3, <2>11 DEF Effect
<1>5. QED
  BY <1>3, <1>4, ConnectDoes DEF Rest

-----------------------------------------------------------------------------
(* Connections begin and end; GNetSync.                                    *)

LEMMA ConnectToEffect ==
  ASSUME Inv, Rest, Carried, Current, NEW c \in Hosts, ConnectTo(c)
  PROVE  Effect
<1>1. PICK msgs \in Seq(GoodMsgs) : Joins(c, msgs) /\ AddsAll(c, msgs)
  BY ConnectToDoes DEF Rest, Wired
<1>2. Turn(c) /\ Goto(c, "program") /\ objects' = objects /\ owner' = owner
  BY DEF ConnectTo, store
<1>3. /\ phase'[c] = "program" /\ phase[c] # "closed"
      /\ \A k \in Hosts : k # c => phase'[k] = phase[k]
  BY <1>2, GotoIs DEF Turn, Runs
<1>4. \A k \in Hosts : Derived(k) /\ Stays(k) /\ Calm(k)
  BY <1>2, <1>3, StillHost
<1>5. /\ c \in Clients /\ c \notin enetHost
      /\ enetHost' = enetHost \union {c}
      /\ \A l : l \in live' <=> l \in live \/ l = <<c, Server>> \/ l = <<Server, c>>
      /\ net'[<<c, Server>>] = <<Connect>> \o msgs
      /\ \A l \in Links : l # <<c, Server>> => net'[l] = net[l]
  BY <1>1 DEF Joins
<1>6. Lasting
  <2>1. \A k \in Hosts : phase[k] = "closed" => phase'[k] = "closed"
    BY <1>3, ClosedStays
  <2>2. \A k \in Clients \intersect enetHost :
          k \in enetHost' /\ (<<k, Server>> \notin live => <<k, Server>> \notin live')
    <3>1. \A k \in Clients : k # Server
      BY GameNetAssumption
    <3>2. QED
      BY <1>5, <3>1
  <2>3. QED
    BY <1>2, <2>1, <2>2 DEF Lasting
<1>7. \A o \in Here(c) : owner[o.name] = c
  BY <1>5 DEF Rest, Wired, Unconnected, Named, Owned
<1>8. c # Server /\ c # None
  BY <1>5, GameNetAssumption
<1>9. PICK l \in Links : l = <<c, Server>>
  BY <1>5, <1>8 DEF Links, Hosts
<1>10. PICK first \in Seq(GoodMsgs) : first = <<Connect>> /\ Range(first) = {Connect}
  <2>1. Connect \in GoodMsgs
    BY DisconnectGood
  <2>2. QED
    BY <2>1, OneMsg
<1>11. Passes(l)
  <2>1. Range(first \o msgs) = Range(first) \union Range(msgs)
    BY <1>10, ConcatIs
  <2>2. ASSUME NEW m \in Range(net'[l]) PROVE m = Connect \/ m \in Range(msgs)
    BY <1>5, <1>9, <1>10, <2>1, <2>2
  <2>3. Connect.state = "connect"
    BY DEF Connect, Msg
  <2>4. Good(l, Connect)
    BY <2>3 DEF Good
  <2>5. ASSUME NEW m \in Range(msgs) PROVE Good(l, m)
    <3>1. PICK o \in Here(c) : m.state = "created" /\ m.name = o.name
      BY <1>1, <2>5 DEF AddsAll
    <3>2. l[2] = Server
      BY <1>9
    <3>3. QED
      BY <1>7, <1>8, <3>1, <3>2 DEF Good
  <2>6. QED
    BY <2>2, <2>4, <2>5 DEF Passes
<1>12. Fades(l)
  BY <1>5, <1>9 DEF Fades
<1>13. \A k \in Links : k # l => Passes(k) /\ Fades(k)
  BY <1>5, <1>9, SameLink
<1>14. QED
  BY <1>4, <1>6, <1>11, <1>12, <1>13 DEF Effect

LEMMA CutEffect ==
  ASSUME Inv, Rest, Carried, NEW l \in Links, l \in live, net'[l] \in CutShort(l)
  PROVE  Passes(l) /\ Fades(l)
<1>1. /\ net[l] \in Seq(GoodMsgs) /\ Framed(net[l])
      /\ \A m \in Range(net[l]) : m.state # "disconnect"
  BY DEF Inv, NetTyped, Rest, Wired, Frames, Framing
<1>2. PICK s \in Seq(GoodMsgs) : net'[l] = Append(s, Disconnect) /\ Range(s) \subseteq Range(net[l])
  BY <1>1, CutIs
<1>3. PICK last \in Seq(GoodMsgs) : last = <<Disconnect>> /\ Range(last) = {Disconnect}
  BY DisconnectGood, OneMsg
<1>4. Append(s, Disconnect) = s \o last
  BY <1>3, DisconnectGood
<1>5. Range(net'[l]) = Range(s) \union {Disconnect}
  <2>1. Range(s \o last) = Range(s) \union Range(last)
    BY ConcatIs
  <2>2. QED
    BY <1>2, <1>3, <1>4, <2>1
<1>6. Disconnect.state = "disconnect"
  BY DEF Disconnect, Msg
<1>7. Good(l, Disconnect)
  BY <1>6 DEF Good
<1>8. QED
  BY <1>2, <1>5, <1>6, <1>7 DEF Passes, Fades, Carried

LEMMA CloseHostEffect ==
  ASSUME Inv, Rest, Carried, Current, NEW h \in Hosts, CloseHost(h)
  PROVE  Effect
<1>1. /\ Turn(h) /\ Goto(h, "closed") /\ objects' = objects /\ owner' = owner
      /\ enetHost' = enetHost /\ live' = {l \in live : h \notin {l[1], l[2]}}
  BY DEF CloseHost, store, history
<1>2. /\ phase'[h] = "closed" /\ phase[h] # "closed"
      /\ \A k \in Hosts : k # h => phase'[k] = phase[k]
  BY <1>1, GotoIs DEF Turn, Runs
<1>3. \A k \in Hosts : Derived(k) /\ Stays(k) /\ Calm(k)
  BY <1>1, <1>2, StillHost
<1>4. Lasting
  <2>1. live' \subseteq live
    BY <1>1
  <2>2. QED
    BY <1>1, <1>2, <2>1, ClosedStays, LastingIf
<1>5. ASSUME NEW l \in Links PROVE Passes(l) /\ Fades(l)
  <2>1. IF l \in live /\ l[1] = h THEN net'[l] \in CutShort(l)
        ELSE net'[l] = IF l[2] = h THEN <<>> ELSE net[l]
    BY DEF CloseHost
  <2>2. CASE l \in live /\ l[1] = h
    BY <2>1, <2>2, CutEffect
  <2>3. CASE ~(l \in live /\ l[1] = h) /\ l[2] = h
    <3>1. net'[l] = <<>>
      BY <2>1, <2>3
    <3>2. Passes(l)
      BY <3>1, NoMsg DEF Passes
    <3>3. QED
      BY <1>2, <2>3, <3>2 DEF Fades
  <2>4. CASE ~(l \in live /\ l[1] = h) /\ l[2] # h
    <3>1. net'[l] = net[l]
      BY <2>1, <2>4
    <3>2. l \in live => l \in live'
      BY <1>1, <2>4
    <3>3. QED
      BY <3>1, <3>2, SameLink
  <2>5. QED
    BY <2>2, <2>3, <2>4
<1>6. QED
  BY <1>3, <1>4, <1>5 DEF Effect

LEMMA LoseEffect ==
  ASSUME Inv, Rest, Carried, Current, NEW c \in Clients, LoseConnection(c)
  PROVE  Effect
<1>1. /\ objects' = objects /\ owner' = owner /\ enetHost' = enetHost /\ phase' = phase
      /\ live' = live \ {<<c, Server>>, <<Server, c>>} /\ <<c, Server>> \in live
  BY DEF LoseConnection, store, history
<1>2. \A k \in Hosts : Derived(k) /\ Stays(k) /\ Calm(k)
  BY <1>1, StillHost
<1>3. Lasting
  <2>1. live' \subseteq live
    BY <1>1
  <2>2. QED
    BY <1>1, <2>1, LastingIf
<1>4. PICK a \in Links, b \in Links : a = <<c, Server>> /\ b = <<Server, c>> /\ a # b
  <2>1. c # Server /\ c \in Hosts /\ Server \in Hosts
    BY GameNetAssumption DEF Hosts
  <2>2. <<c, Server>> \in Links /\ <<Server, c>> \in Links
    BY <2>1 DEF Links
  <2>3. <<c, Server>> # <<Server, c>>
    BY <2>1
  <2>4. QED
    BY <2>2, <2>3
<1>5. a \in live /\ b \in live
  <2>1. a \in live
    BY <1>1, <1>4
  <2>2. <<a[2], a[1]>> \in live
    BY <2>1 DEF Rest, Wired, Symmetric
  <2>3. QED
    BY <1>4, <2>1, <2>2
<1>6. PICK up \in CutShort(a), down \in CutShort(b) : net' = [net EXCEPT ![a] = up, ![b] = down]
  BY <1>4 DEF LoseConnection
<1>7. net'[a] = up /\ net'[b] = down /\ \A l \in Links : l \notin {a, b} => net'[l] = net[l]
  BY <1>4, <1>6 DEF Inv, NetTyped
<1>8. ASSUME NEW l \in Links PROVE Passes(l) /\ Fades(l)
  <2>1. CASE l \in {a, b}
    BY <1>5, <1>7, <2>1, CutEffect
  <2>2. CASE l \notin {a, b}
    BY <1>1, <1>4, <1>7, <2>2, SameLink
  <2>3. QED
    BY <2>1, <2>2
<1>9. QED
  BY <1>2, <1>3, <1>8 DEF Effect

LEMMA SyncEffect ==
  ASSUME Inv, Rest, Carried, Foreign, Current, NEW h \in Hosts, Sync(h)
  PROVE  Effect
<1>1. /\ enetHost' = enetHost /\ live' = live /\ owner' = owner /\ Settles(h)
      /\ \E msgs \in Seq(GoodMsgs) : net' = Sent(h, peers[h], msgs) /\ SyncSays(h, msgs)
  BY SyncDoes DEF Rest, wires, history
<1>2. Turn(h) /\ Goto(h, "sync")
  BY DEF Sync
<1>3. /\ phase'[h] = "sync" /\ phase[h] # "closed"
      /\ \A k \in Hosts : k # h => phase'[k] = phase[k]
  BY <1>2, GotoIs DEF Turn, Runs
<1>4. Lasting
  BY <1>1, <1>3, ClosedStays, LastingIf
<1>5. Derived(h)
  BY <1>1 DEF Derived, Kept, Settles, Settled, Open
<1>6. Stays(h)
  <2> SUFFICES ASSUME NEW o \in Here(h), ~Unmapped(o)
               PROVE  \/ \E q \in Here(h)' : /\ ~Unmapped(q) /\ q.id = o.id
                                             /\ q.name = o.name /\ q.peer = o.peer
                      \/ Lost(o.name)
    BY DEF Stays
  <2>1. CASE Open(o)
    <3>1. PICK q \in Here(h)' : Settled(o, q)
      BY <1>1, <2>1 DEF Settles, Open
    <3>2. QED
      BY <3>1 DEF Settled, Unmapped, Open
  <2>2. CASE ~Open(o)
    <3>1. IsLocal(o)
      BY <2>2 DEF Unmapped
    <3>2. QED
      BY <2>2, <3>1, GoneIf
  <2>3. QED
    BY <2>1, <2>2
<1>7. Calm(h)
  BY <1>1 DEF Calm, Settles, Settled
<1>8. \A k \in Hosts : Derived(k) /\ Stays(k) /\ Calm(k)
  BY <1>1, <1>3, <1>5, <1>6, <1>7, ElseHost DEF Settles
<1>9. PICK msgs \in Seq(GoodMsgs), ps \in SUBSET Hosts :
        ps = peers[h] /\ net' = Sent(h, ps, msgs) /\ SyncSays(h, msgs)
  BY <1>1 DEF Inv, WiresTyped
<1>10. ASSUME NEW l \in live, l[1] = h, NEW m \in Range(msgs) PROVE Good(l, m)
  <2>1. PICK o \in Here(h) : /\ IsLocal(o) /\ o.state \in {"created", "modified", "closed"}
                             /\ m.state = o.state /\ m.name = o.name
    BY <1>9, <1>10 DEF SyncSays
  <2>2. owner[o.name] = h
    BY <2>1 DEF Rest, Named, Owned
  <2>3. l[2] # h /\ h # None
    <3>1. l \in Links
      BY DEF Inv, WiresTyped
    <3>2. QED
      BY <1>10, <3>1, GameNetAssumption DEF Links, Hosts
  <2>4. o.state = "closed" => Lost(o.name)
    BY <2>1, GoneIf DEF Open
  <2>5. QED
    BY <2>1, <2>2, <2>3, <2>4 DEF Good
<1>11. \A l \in Links : Passes(l) /\ Fades(l)
  <2>1. \A l \in live : l[1] = h /\ l[2] \in ps => \A m \in Range(msgs) : Good(l, m)
    BY <1>10
  <2>2. QED
    BY <1>1, <1>9, <2>1, SentEffect
<1>12. QED
  BY <1>4, <1>8, <1>11 DEF Effect

-----------------------------------------------------------------------------
(* Together.                                                               *)

LEMMA EffectOfNext ==
  ASSUME Inv, Rest, Flows, Lasts, Next
  PROVE  Effect
<1>1. Carried /\ Foreign /\ Ending /\ Current
  BY DEF Lasts
<1>2. ASSUME NEW h \in Hosts, NEW x \in Objects,
             CreateObject(h, x) \/ WriteSlot(h, x) \/ CloseObject(h, x) \/ SendMessage(h, x)
      PROVE  Effect
  BY <1>1, <1>2, CreateEffect, WriteEffect, CloseEffect, MessageEffect
<1>3. ASSUME NEW h \in Hosts, NEW p \in Hosts, Handler(h, p) PROVE Effect
  BY <1>1, <1>3, HandleConnectEffect, HandleDisconnectEffect, HandleMessageEffect,
     HandleCreatedEffect, HandleUpdateEffect DEF Handler
<1>4. ASSUME NEW h \in Hosts, ConnectTo(h) \/ CloseHost(h) \/ Sync(h) PROVE Effect
  BY <1>1, <1>4, ConnectToEffect, CloseHostEffect, SyncEffect
<1>5. ASSUME NEW c \in Clients, LoseConnection(c) PROVE Effect
  BY <1>1, <1>5, LoseEffect
<1>6. QED
  BY <1>2, <1>3, <1>4, <1>5 DEF Next, Program, Handle, Handler

LEMMA ShutIf ==
  ASSUME Shut, live' \subseteq live, \A h \in Hosts : phase'[h] = "closed" => phase[h] = "closed"
  PROVE  Shut'
BY DEF Shut

LEMMA ShutGoto ==
  ASSUME Inv, Shut, NEW h \in Hosts, NEW w, w # "closed", Goto(h, w), live' = live
  PROVE  Shut'
<1>1. phase'[h] = w /\ \A k \in Hosts : k # h => phase'[k] = phase[k]
  BY GotoIs
<1>2. QED
  BY <1>1, ShutIf

LEMMA ShutKeeps ==
  ASSUME Inv, Rest, Shut, Next
  PROVE  Shut'
<1>1. ASSUME NEW h \in Hosts, NEW x \in Objects,
             CreateObject(h, x) \/ WriteSlot(h, x) \/ CloseObject(h, x) \/ SendMessage(h, x)
      PROVE  Shut'
  <2>1. Goto(h, "program") /\ live' = live
    BY <1>1 DEF CreateObject, WriteSlot, CloseObject, SendMessage, wires
  <2>2. QED
    BY <2>1, ShutGoto
<1>2. ASSUME NEW h \in Hosts, NEW p \in Hosts, Handler(h, p) PROVE Shut'
  <2>1. live' = live /\ phase'[h] # "closed" /\ \A k \in Hosts : k # h => phase'[k] = phase[k]
    BY <1>2, HandlerLasts
  <2>2. QED
    BY <2>1, ShutIf
<1>3. ASSUME NEW h \in Hosts, Sync(h) PROVE Shut'
  <2>1. Goto(h, "sync") /\ live' = live
    BY <1>3 DEF Sync, wires
  <2>2. QED
    BY <2>1, ShutGoto
<1>4. ASSUME NEW h \in Hosts, CloseHost(h) PROVE Shut'
  <2>1. Goto(h, "closed") /\ live' = {l \in live : h \notin {l[1], l[2]}}
    BY <1>4 DEF CloseHost
  <2>2. \A k \in Hosts : k # h => phase'[k] = phase[k]
    BY <2>1, GotoIs
  <2>3. QED
    BY <2>1, <2>2 DEF Shut
<1>5. ASSUME NEW c \in Hosts, ConnectTo(c) PROVE Shut'
  <2>1. Goto(c, "program") /\ phase[Server] # "closed" /\ c # Server
        /\ live' = live \union {<<c, Server>>, <<Server, c>>}
    BY <1>5, GameNetAssumption DEF ConnectTo
  <2>2. phase'[c] = "program" /\ \A k \in Hosts : k # c => phase'[k] = phase[k]
    BY <2>1, GotoIs
  <2>3. ASSUME NEW k \in Hosts, phase'[k] = "closed", NEW l \in live' PROVE k \notin {l[1], l[2]}
    <3>1. k # c /\ phase[k] = "closed" /\ k # Server
      BY <2>1, <2>2, <2>3
    <3>2. CASE l \in live
      BY <3>1, <3>2 DEF Shut
    <3>3. CASE l = <<c, Server>> \/ l = <<Server, c>>
      BY <3>1, <3>3
    <3>4. QED
      BY <2>1, <3>2, <3>3
  <2>4. QED
    BY <2>3 DEF Shut
<1>6. ASSUME NEW c \in Clients, LoseConnection(c) PROVE Shut'
  <2>1. phase' = phase /\ live' \subseteq live
    BY <1>6 DEF LoseConnection
  <2>2. QED
    BY <2>1, ShutIf
<1>7. QED
  BY <1>1, <1>2, <1>3, <1>4, <1>5, <1>6 DEF Next, Program, Handle, Handler

LEMMA LastsInit ==
  ASSUME Init
  PROVE  Lasts
<1>1. \A h \in Hosts : Range(objects[h]) = {} /\ phase[h] = "program"
  BY DEF Init, Range
<1>2. \A l \in Links : net[l] = <<>> /\ Range(net[l]) = {}
  BY DEF Init, Range
<1>3. \A l \in Links : l[2] \in Hosts
  BY DEF Links
<1>4. Carried /\ Foreign /\ Shut /\ Current
  BY <1>1, <1>2 DEF Carried, Foreign, Shut, Current, Here, Init
<1>5. Ending
  BY <1>1, <1>2, <1>3 DEF Ending, Parted, Clear, Here
<1>6. QED
  BY <1>4, <1>5 DEF Lasts

LEMMA LastsStep ==
  Inv /\ Inv' /\ Rest /\ Flows /\ Lasts /\ [Next]_vars => Lasts'
<1> SUFFICES ASSUME Inv, Inv', Rest, Flows, Lasts, [Next]_vars PROVE Lasts'
  OBVIOUS
<1>1. CASE Next
  <2>1. Effect
    BY <1>1, EffectOfNext
  <2>2. Shut'
    BY <1>1, ShutKeeps DEF Lasts
  <2>3. QED
    BY <2>1, <2>2, EffectKeeps DEF Lasts
<1>2. CASE UNCHANGED vars
  <2>1. UNCHANGED <<enetHost, live, net, objects, phase, owner>>
    BY <1>2 DEF vars, wires, store, history
  <2>2. Carried' /\ Foreign' /\ Shut' /\ Current' /\ Ending'
    BY <2>1 DEF Lasts, Carried, Foreign, Shut, Current, Ending, Parted, Clear, Good, Has, Lost, Gone,
                IsOpen, Cut, Here
  <2>3. QED
    BY <2>2 DEF Lasts
<1>3. QED
  BY <1>1, <1>2

LEMMA AllLast ==
  Spec => [](Inv /\ Rest /\ Flows /\ Lasts)
<1>1. Init => Lasts
  BY LastsInit
<1>2. Inv /\ Inv' /\ Rest /\ Flows /\ Lasts /\ [Next]_vars => Lasts'
  BY LastsStep
<1>3. QED
  BY <1>1, <1>2, AllHold, PTL DEF Spec

-----------------------------------------------------------------------------
(* What is heard.                                                          *)

\* Only GNET_MESSAGE gives messages to objects.
LEMMA OnlyMessages ==
  ASSUME Inv, Next
  PROVE  heard' = heard \/ \E h, p \in Hosts : HandleMessage(h, p)
<1>1. ASSUME NEW h \in Hosts, NEW x \in Objects,
             CreateObject(h, x) \/ WriteSlot(h, x) \/ CloseObject(h, x) \/ SendMessage(h, x)
      PROVE  heard' = heard
  <2>1. CASE CreateObject(h, x)
    BY <2>1 DEF CreateObject
  <2>2. CASE WriteSlot(h, x)
    BY <2>2 DEF WriteSlot, history
  <2>3. CASE CloseObject(h, x)
    BY <2>3 DEF CloseObject, history
  <2>4. CASE SendMessage(h, x)
    BY <2>4 DEF SendMessage, history
  <2>5. QED
    BY <1>1, <2>1, <2>2, <2>3, <2>4
<1>2. ASSUME NEW h \in Hosts, ConnectTo(h) \/ CloseHost(h) \/ Sync(h) PROVE heard' = heard
  BY <1>2 DEF ConnectTo, CloseHost, Sync, history
<1>3. ASSUME NEW c \in Clients, LoseConnection(c) PROVE heard' = heard
  BY <1>3 DEF LoseConnection, history
<1>4. ASSUME NEW h \in Hosts, NEW p \in Hosts,
             \/ HandleConnect(h, p) \/ HandleDisconnect(h, p)
             \/ HandleCreated(h, p) \/ HandleModified(h, p) \/ HandleClosed(h, p)
      PROVE  heard' = heard
  <2>1. \A w : Fail(h, w) => heard' = heard
    BY DEF Fail, history
  <2>2. \A ps : Refused(h, ps) => heard' = heard
    BY <2>1 DEF Refused
  <2>3. CASE HandleConnect(h, p)
    BY <2>2, <2>3 DEF HandleConnect
  <2>4. CASE HandleDisconnect(h, p)
    BY <2>1, <2>2, <2>4 DEF HandleDisconnect, history
  <2>5. CASE HandleCreated(h, p)
    BY <2>1, <2>2, <2>5 DEF HandleCreated, history
  <2>6. CASE HandleModified(h, p)
    BY <2>1, <2>2, <2>6 DEF HandleModified, history
  <2>7. CASE HandleClosed(h, p)
    BY <2>1, <2>2, <2>7 DEF HandleClosed, history
  <2>8. QED
    BY <1>4, <2>3, <2>4, <2>5, <2>6, <2>7
<1>5. QED
  BY <1>1, <1>2, <1>3, <1>4 DEF Next, Program, Handle

\* Who hears a message.
LEMMA HeardIs ==
  ASSUME Inv, NEW h \in Hosts, NEW p \in Hosts, HandleMessage(h, p)
  PROVE  heard' \subseteq heard \union {<<Message(h, p).name, idMap[h][Message(h, p).id]>>}
<1>1. PICK msg, x, to, remote :
        /\ msg = Message(h, p) /\ x = idMap[h][msg.id] /\ to = Object(h, msg.id).peer
        /\ remote = {pair[2] : pair \in {q \in mapped[<<h, to>>] : q[1] = msg.id}}
  OBVIOUS
<1>2. \A w : Fail(h, w) => heard' = heard
  BY DEF Fail, history
<1>3. \A ps : Refused(h, ps) => heard' = heard
  BY <1>2 DEF Refused
<1>4. heard' = heard \/ heard' = heard \union {<<msg.name, x>>}
  BY <1>1, <1>2, <1>3 DEF HandleMessage, history
<1>5. QED
  BY <1>1, <1>4

LEMMA HeardRight ==
  ASSUME Inv, Carried, NEW h \in Hosts, NEW p \in Hosts, HandleMessage(h, p),
         NEW x \in Objects, NEW y \in Objects, <<x, y>> \in heard', <<x, y>> \notin heard, x # y
  PROVE  Gone(x) \/ CutOff(x)
<1>1. Comes(h, p, "message")
  BY DEF HandleMessage
<1>2. PICK msg \in GoodMsgs : msg = Message(h, p) /\ msg.state = "message" /\ Good(<<p, h>>, msg)
  BY <1>1, HeadGood
<1>3. x = msg.name /\ y = idMap[h][msg.id]
  <2>1. PICK z, w : z = msg.name /\ w = idMap[h][msg.id] /\ heard' \subseteq heard \union {<<z, w>>}
    BY <1>2, HeardIs
  <2>2. <<x, y>> = <<z, w>>
    BY <2>1
  <2>3. QED
    BY <2>1, <2>2
<1>4. PICK l : l = <<p, h>>
  OBVIOUS
<1>5. l[2] = h
  BY <1>4
<1>6. ~Has(l, msg)
  <2>1. ASSUME NEW o \in Here(h), ~Unmapped(o), o.id = msg.id, o.name = msg.name PROVE FALSE
    <3>1. idMap[h][o.id] = o.name
      BY <2>1, StoreOf DEF Tables, Row
    <3>2. QED
      BY <1>3, <2>1, <3>1
  <2>2. QED
    BY <1>5, <2>1 DEF Has
<1>7. Lost(x)
  BY <1>2, <1>3, <1>4, <1>6 DEF Good
<1>8. QED
  BY <1>7 DEF Lost, Cut, CutOff

(***************************************************************************)
(* HandleMessage (gnet.bmx: GNET_MESSAGE in GNetSync, SendMsg): a message  *)
(* that is given to another object than it was sent to was sent to an      *)
(* object that its owner has closed, or whose owner is not connected any   *)
(* more.                                                                   *)
(***************************************************************************)
THEOREM MessagesArrive ==
  Spec => NotMisheard
<1>1. Inv /\ Lasts /\ [Next]_vars =>
        [\A x, y \in Objects :
           <<x, y>> \in heard' \ heard /\ x # y => Gone(x) \/ CutOff(x)]_vars
  <2> SUFFICES ASSUME Inv, Lasts, Next, NEW x \in Objects, NEW y \in Objects,
                      <<x, y>> \in heard' \ heard, x # y
               PROVE  Gone(x) \/ CutOff(x)
    OBVIOUS
  <2>1. PICK h \in Hosts, p \in Hosts : HandleMessage(h, p)
    BY OnlyMessages
  <2>2. QED
    BY <2>1, HeardRight DEF Lasts
<1>2. QED
  BY <1>1, AllLast, PTL DEF Spec, NotMisheard

-----------------------------------------------------------------------------
(* Copies that stay.                                                       *)

\* When nothing is under way, what a host has a copy of is on the host it has it from.
LEMMA Upstream ==
  ASSUME Inv, Rest, Flows, Lasts, \A l \in Links : net[l] = <<>>,
         NEW h \in Hosts, phase[h] # "closed", NEW o \in Here(h), ~IsLocal(o), Open(o)
  PROVE  /\ o.peer \in Hosts /\ <<o.peer, h>> \in Links /\ <<o.peer, h>> \in live
         /\ \E q \in Here(o.peer) : q.name = o.name /\ Shown(q, h, peers[o.peer], MissedBy(h))
<1>1. PICK p \in Hosts : p = o.peer /\ <<p, h>> \in Links /\ <<h, p>> \in Links
  BY CopyLink
<1>2. PICK l \in Links : l = <<p, h>>
  BY <1>1
<1>3. l[1] = p /\ l[2] = h /\ net[l] = <<>>
  BY <1>2
<1>4. l \in live
  <2>1. SUFFICES ASSUME l \notin live PROVE FALSE
    OBVIOUS
  <2>2. Parted(l)
    BY <1>3, <2>1 DEF Lasts, Ending
  <2>3. Range(net[l]) = {}
    BY <1>3 DEF Range
  <2>4. QED
    BY <1>1, <1>3, <2>2, <2>3 DEF Parted, Clear
<1>5. PICK pair \in mapped[<<h, p>>] : pair[1] = o.id
  BY <1>1, StoreOf DEF Tables, Arrays
<1>6. PICK k \in Facts, e \in Facts :
        /\ Knows(Here(h), mapped[<<h, p>>], p, pair[2], k)
        /\ Stream(pair[2], MissedBy(h), k, net[<<p, h>>], e)
        /\ <<p, h>> \in live => Tells(Here(p), peers[p], MissedBy(h), h, pair[2], e)
  <2>1. mapped[<<h, p>>] \subseteq Ids \X Ids
    BY <1>1, StoreOf
  <2>2. pair[2] \in Ids
    BY <2>1
  <2>3. QED
    BY <1>1, <2>2 DEF Flows, Flow
<1>7. k = e
  BY <1>2, <1>3, <1>6 DEF Stream
<1>8. k # Nothing
  BY <1>6 DEF Knows
<1>9. k.name = o.name
  <2>1. PICK w \in mapped[<<h, p>>], q \in Here(h) :
          /\ w[2] = pair[2] /\ q.id = w[1] /\ q.peer = p /\ Open(q)
          /\ k = [name |-> q.name, data |-> q.data]
    BY <1>6, <1>8 DEF Knows
  <2>2. Arrays(Here(h), p, mapped[<<h, p>>]) /\ Row(Here(h), idMap[h])
    BY <1>1, StoreOf DEF Tables
  <2>3. w[1] = pair[1]
    BY <2>1, <2>2 DEF Arrays
  <2>4. q = o
    BY <1>5, <2>1, <2>2, <2>3 DEF Row, Unmapped
  <2>5. QED
    BY <2>1, <2>4
<1>10. PICK q \in Here(p) : Shown(q, h, peers[p], MissedBy(h)) /\ Agrees(e, q)
  BY <1>2, <1>4, <1>6, <1>7, <1>8 DEF Tells
<1>11. QED
  BY <1>1, <1>2, <1>4, <1>7, <1>9, <1>10 DEF Agrees

\* Nothing of a host's own is left to synchronise.
LEMMA NothingToSync ==
  ASSUME Inv, NEW h \in Hosts, ToSync(h) = <<>>, NEW o \in Here(h), IsLocal(o)
  PROVE  o.state \notin {"created", "modified", "closed"}
<1>1. PICK S : S = {q \in Here(h) : IsLocal(q) /\ q.state \in {"created", "modified", "closed"}}
  OBVIOUS
<1>2. objects[h] \in Seq(Copies)
  BY StoreOf
<1>3. Only(objects[h], S) = <<>>
  BY <1>1 DEF ToSync
<1>4. Range(Only(objects[h], S)) = Here(h) \intersect S
  BY <1>2, OnlyIs DEF Here
<1>5. Range(<<>>) = {}
  BY DEF Range
<1>6. o \notin S
  BY <1>3, <1>4, <1>5
<1>7. QED
  BY <1>1, <1>6

\* An object of a host's own that it shows to a peer is not gone.
LEMMA ShownOpen ==
  ASSUME Inv, Rest, Lasts, Quiet, NEW p \in Hosts, NEW h \in Hosts, <<p, h>> \in live,
         NEW q \in Here(p), IsLocal(q), NEW ps, NEW gone, Shown(q, h, ps, gone)
  PROVE  owner[q.name] = p /\ ~Gone(q.name) /\ ~CutOff(q.name)
<1>1. PICK l \in Links : l = <<p, h>> /\ l \in live
  BY DEF Inv, WiresTyped
<1>2. l[1] = p /\ l[2] = h
  BY <1>1
<1>3. owner[q.name] = p
  BY DEF Rest, Named, Owned
<1>4. phase[p] # "closed"
  BY <1>1, <1>2 DEF Lasts, Shut
<1>5. q.state = "synced"
  <2>1. CASE Runs(p)
    <3>1. q.state \notin {"created", "modified", "closed"}
      BY <2>1, NothingToSync DEF Quiet
    <3>2. q \in Copies
      BY StoreOf
    <3>3. QED
      BY <3>1, <3>2 DEF Shown, Copies
  <2>2. CASE ~Runs(p)
    BY <1>4, <2>2 DEF Lasts, Current, Runs
  <2>3. QED
    BY <2>1, <2>2
<1>6. IsOpen(p, q.name)
  BY <1>5 DEF IsOpen, Open
<1>7. ~Gone(q.name)
  BY <1>3, <1>4, <1>6 DEF Gone
<1>8. ~CutOff(q.name)
  <2>1. p \in Clients => h = Server
    BY <1>1, <1>2, GameNetAssumption DEF Links
  <2>2. QED
    BY <1>1, <1>3, <2>1 DEF CutOff
<1>9. QED
  BY <1>3, <1>7, <1>8

LEMMA OrphansNone ==
  ASSUME Inv, Rest, Flows, Lasts
  PROVE  NoOrphans
<1> SUFFICES ASSUME Quiet, NEW h \in Hosts, NEW x \in Objects, Runs(h), h # owner[x], IsOpen(h, x)
             PROVE  ~Gone(x) /\ ~CutOff(x)
  BY DEF NoOrphans
<1>1. PICK o \in Here(h) : o.name = x /\ Open(o)
  BY DEF IsOpen
<1>2. ~IsLocal(o)
  BY <1>1 DEF Rest, Named, Owned
<1>3. \A l \in Links : net[l] = <<>>
  BY DEF Quiet
<1>4. phase[h] # "closed"
  BY DEF Runs
<1>5. PICK p \in Hosts : p = o.peer /\ <<p, h>> \in Links /\ <<p, h>> \in live
  BY <1>1, <1>2, <1>3, <1>4, Upstream
<1>6. PICK q \in Here(p) : q.name = x /\ Shown(q, h, peers[p], MissedBy(h))
  BY <1>1, <1>2, <1>3, <1>4, <1>5, Upstream
<1>7. CASE IsLocal(q)
  BY <1>5, <1>6, <1>7, ShownOpen
<1>8. CASE ~IsLocal(q)
  <2>1. Open(q) /\ q.peer # h
    BY <1>6, <1>8 DEF Shown, Unmapped
  <2>2. p = Server
    <3>1. <<q.peer, p>> \in Links
      BY <1>8, CopyLink
    <3>2. QED
      BY <1>5, <2>1, <3>1 DEF Links
  <2>3. phase[p] # "closed"
    <3>1. PICK l \in live : l = <<p, h>>
      BY <1>5
    <3>2. l[1] = p
      BY <3>1
    <3>3. QED
      BY <3>2 DEF Lasts, Shut
  <2>4. PICK c \in Hosts : c = q.peer /\ <<c, p>> \in Links /\ <<c, p>> \in live
    BY <1>3, <1>8, <2>1, <2>3, Upstream
  <2>5. PICK n \in Here(c) : n.name = x /\ Shown(n, p, peers[c], MissedBy(p))
    BY <1>3, <1>6, <1>8, <2>1, <2>3, <2>4, Upstream
  <2>6. IsLocal(n)
    <3>1. ~IsLocal(n) => <<n.peer, c>> \in Links
      BY CopyLink
    <3>2. n.peer # p
      BY <2>5 DEF Shown
    <3>3. QED
      BY <2>2, <2>4, <3>1, <3>2 DEF Links
  <2>7. QED
    BY <2>4, <2>5, <2>6, ShownOpen
<1>9. QED
  BY <1>7, <1>8

(***************************************************************************)
(* The handlers of GNetSync (gnet.bmx: GNET_CLOSED, and the disconnection  *)
(* of a peer): in any network, once nothing is under way and all is synchronised, a host  *)
(* has no copy of an object whose owner has closed it or is cut off.       *)
(***************************************************************************)
THEOREM OrphansCorrect ==
  Spec => []NoOrphans
<1>1. Inv /\ Rest /\ Flows /\ Lasts => NoOrphans
  BY OrphansNone
<1>2. QED
  BY <1>1, AllLast, PTL
=============================================================================
