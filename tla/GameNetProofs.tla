----------------------------- MODULE GameNetProofs -----------------------------
(***************************************************************************)
(* Proofs about GameNet, for any clients, objects, numbers of identifiers  *)
(* and bounds.                                                             *)
(***************************************************************************)
EXTENDS GameNet, WellFoundedInduction, TLAPS

-----------------------------------------------------------------------------
(* Numbers, and functions on them that are defined by recursion.           *)

\* A set of natural numbers has a least element.
LEMMA LeastNatural ==
  ASSUME NEW T, T \subseteq Nat, T # {}
  PROVE  \E x \in T : \A y \in T : x <= y
<1> DEFINE R == {ss \in Nat \X Nat : ss[1] < ss[2]}
<1>1. IsWellFoundedOn(R, Nat)
  BY NatLessThanWellFounded DEF OpToRel
<1> HIDE DEF R
<1>2. PICK x \in T : \A y \in T : ~ (<<y, x>> \in R)
  BY <1>1, WFMin
<1>3. \A y \in T : ~ (y < x)
  BY <1>2 DEF R
<1>4. QED
  BY <1>3

\* Induction along a sequence, over a set that stands for what is to be shown.
LEMMA Induct ==
  ASSUME NEW N \in Nat, NEW P, 0 \in P, \A n \in 1 .. N : n - 1 \in P => n \in P
  PROVE  \A n \in 0 .. N : n \in P
<1> DEFINE T == (0 .. N) \ P
<1>1. SUFFICES ASSUME T # {} PROVE FALSE
  OBVIOUS
<1>2. T \subseteq Nat
  OBVIOUS
<1>3. PICK x \in T : \A y \in T : x <= y
  <2> HIDE DEF T
  <2>1. QED
    BY <1>1, <1>2, LeastNatural
<1>4. x \in 1 .. N /\ x - 1 \in 0 .. N /\ ~ (x <= x - 1)
  BY <1>3
<1>5. x - 1 \in P
  BY <1>3, <1>4
<1>6. QED
  BY <1>3, <1>4, <1>5

\* Values that follow each other.
Follows(f, N, d, step) == f[0] = d /\ \A n \in 1 .. N : f[n] = step[<<n, f[n - 1]>>]

\* There is a function for every first value and every step.
LEMMA Recursion ==
  ASSUME NEW N \in Nat, NEW D, NEW d \in D, NEW step \in [(1 .. N) \X D -> D]
  PROVE  \E f \in [0 .. N -> D] : Follows(f, N, d, step)
<1> DEFINE P == {n \in 0 .. N : \E f \in [0 .. n -> D] : Follows(f, n, d, step)}
<1>1. 0 \in P
  <2>1. [n \in 0 .. 0 |-> d] \in [0 .. 0 -> D]
    OBVIOUS
  <2>2. Follows([n \in 0 .. 0 |-> d], 0, d, step)
    BY DEF Follows
  <2>3. QED
    BY <2>1, <2>2
<1>2. ASSUME NEW n \in 1 .. N, n - 1 \in P PROVE n \in P
  <2>1. PICK f \in [0 .. n - 1 -> D] : Follows(f, n - 1, d, step)
    BY <1>2
  <2>2. PICK e \in D : e = step[<<n, f[n - 1]>>]
    <3>1. n - 1 \in 0 .. n - 1
      OBVIOUS
    <3>2. <<n, f[n - 1]>> \in (1 .. N) \X D
      BY <3>1
    <3>3. QED
      BY <3>2
  <2>3. PICK g : g = [k \in 0 .. n |-> IF k = n THEN e ELSE f[k]]
    OBVIOUS
  <2>4. \A k \in 0 .. n : k # n => k \in 0 .. n - 1
    OBVIOUS
  <2>5. g \in [0 .. n -> D]
    BY <2>3, <2>4
  <2>6. g[n] = e /\ \A k \in 0 .. n - 1 : g[k] = f[k]
    BY <2>3
  <2>7. g[0] = d
    BY <2>1, <2>6 DEF Follows
  <2>8. ASSUME NEW k \in 1 .. n PROVE g[k] = step[<<k, g[k - 1]>>]
    <3>1. k - 1 \in 0 .. n - 1 /\ g[k - 1] = f[k - 1]
      BY <2>6
    <3>2. CASE k = n
      BY <2>2, <2>6, <3>1, <3>2
    <3>3. CASE k # n
      <4>1. k \in 1 .. n - 1 /\ k \in 0 .. n - 1
        BY <3>3
      <4>2. f[k] = step[<<k, f[k - 1]>>]
        BY <2>1, <4>1 DEF Follows
      <4>3. QED
        BY <2>6, <3>1, <4>1, <4>2
    <3>4. QED
      BY <3>2, <3>3
  <2>9. QED
    BY <2>5, <2>7, <2>8 DEF Follows
<1> HIDE DEF P
<1>3. N \in P
  BY <1>1, <1>2, Induct
<1>4. QED
  BY <1>3 DEF P

-----------------------------------------------------------------------------
(* Sequences.                                                              *)

\* The elements of a sequence are those at its indices.
LEMMA RangeIs ==
  ASSUME NEW T, NEW s \in Seq(T)
  PROVE  /\ Range(s) \subseteq T
         /\ \A e : e \in Range(s) <=> \E i \in 1 .. Len(s) : s[i] = e
<1>1. DOMAIN s = 1 .. Len(s) /\ \A i \in 1 .. Len(s) : s[i] \in T
  OBVIOUS
<1>2. QED
  BY <1>1 DEF Range

\* An element is added at the end.
LEMMA AppendRange ==
  ASSUME NEW T, NEW s \in Seq(T), NEW e \in T
  PROVE  Append(s, e) \in Seq(T) /\ Range(Append(s, e)) = Range(s) \union {e}
<1>1. PICK n \in Nat : n = Len(s)
  OBVIOUS
<1>2. PICK t \in Seq(T) : t = Append(s, e)
  <2>1. Append(s, e) \in Seq(T)
    OBVIOUS
  <2>2. QED
    BY <2>1
<1>3. Len(t) = n + 1 /\ t[n + 1] = e /\ \A i \in 1 .. n : t[i] = s[i]
  BY <1>1, <1>2
<1>4. \A i : i \in 1 .. n + 1 <=> i \in 1 .. n \/ i = n + 1
  BY <1>1
<1>5. \A x : x \in Range(t) <=> x \in Range(s) \/ x = e
  BY <1>1, <1>3, <1>4, RangeIs
<1>6. QED
  BY <1>2, <1>5

\* The function by which Only is defined.
OnlyRec(s, S, f) ==
  f = [n \in 0 .. Len(s) |->
        IF n = 0 THEN <<>>
        ELSE IF s[n] \in S THEN Append(f[n - 1], s[n]) ELSE f[n - 1]]

\* Its values, one after the other.
LEMMA OnlyAt ==
  ASSUME NEW s, NEW S, NEW f, OnlyRec(s, S, f), NEW n \in 0 .. Len(s)
  PROVE  f[n] = IF n = 0 THEN <<>>
                ELSE IF s[n] \in S THEN Append(f[n - 1], s[n]) ELSE f[n - 1]
BY Zenon DEF OnlyRec

\* There is such a function.
LEMMA OnlyExists ==
  ASSUME NEW T, NEW s \in Seq(T), NEW S
  PROVE  \E f : OnlyRec(s, S, f)
<1>1. PICK N \in Nat : N = Len(s)
  OBVIOUS
<1>2. PICK step : step = [x \in (1 .. N) \X Seq(T) |->
                            IF s[x[1]] \in S THEN Append(x[2], s[x[1]]) ELSE x[2]]
  OBVIOUS
<1>3. ASSUME NEW x \in (1 .. N) \X Seq(T)
      PROVE  (IF s[x[1]] \in S THEN Append(x[2], s[x[1]]) ELSE x[2]) \in Seq(T)
  <2>1. PICK i \in 1 .. N, t \in Seq(T) : x = <<i, t>>
    OBVIOUS
  <2>2. s[i] \in T
    BY <1>1
  <2>3. QED
    BY <2>1, <2>2
<1>4. step \in [(1 .. N) \X Seq(T) -> Seq(T)]
  BY <1>2, <1>3
<1>5. <<>> \in Seq(T)
  OBVIOUS
<1>6. PICK f \in [0 .. N -> Seq(T)] : Follows(f, N, <<>>, step)
  BY <1>4, <1>5, Recursion
<1>7. ASSUME NEW n \in 1 .. N
      PROVE  f[n] = IF s[n] \in S THEN Append(f[n - 1], s[n]) ELSE f[n - 1]
  <2>1. n - 1 \in 0 .. N
    OBVIOUS
  <2>2. PICK t \in Seq(T) : t = f[n - 1]
    BY <2>1
  <2>3. f[n] = step[<<n, t>>]
    BY <1>6, <2>2 DEF Follows
  <2>4. QED
    BY <1>2, <2>2, <2>3
<1>8. \A n \in 0 .. N : n = 0 \/ n \in 1 .. N
  OBVIOUS
<1>9. f[0] = <<>>
  BY <1>6 DEF Follows
<1>10. f = [n \in 0 .. N |->
             IF n = 0 THEN <<>>
             ELSE IF s[n] \in S THEN Append(f[n - 1], s[n]) ELSE f[n - 1]]
  BY <1>7, <1>8, <1>9
<1>11. QED
  BY <1>1, <1>10 DEF OnlyRec

\* Only keeps the elements that are in S, and no others.
LEMMA OnlyIs ==
  ASSUME NEW T, NEW s \in Seq(T), NEW S
  PROVE  /\ Only(s, S) \in Seq(T)
         /\ Range(Only(s, S)) = Range(s) \intersect S
<1>1. PICK f : f = CHOOSE g : OnlyRec(s, S, g)
  OBVIOUS
<1>2. OnlyRec(s, S, f)
  BY <1>1, OnlyExists
<1>3. Only(s, S) = f[Len(s)]
  BY <1>1, Zenon DEF Only, OnlyRec
<1>4. PICK N \in Nat : N = Len(s)
  OBVIOUS
<1> DEFINE Good(n) == f[n] \in Seq(T) /\ Range(f[n]) = {s[i] : i \in 1 .. n} \intersect S
           P == {n \in 0 .. N : Good(n)}
<1>5. Good(0)
  <2>1. f[0] = <<>>
    <3>1. 0 \in 0 .. Len(s)
      OBVIOUS
    <3>2. QED
      BY <1>2, <3>1, OnlyAt
  <2>2. Range(<<>>) = {} /\ {s[i] : i \in 1 .. 0} = {}
    BY DEF Range
  <2>3. QED
    BY <2>1, <2>2
<1>6. ASSUME NEW n \in 1 .. N, Good(n - 1) PROVE Good(n)
  <2>1. PICK t \in Seq(T) : t = f[n - 1] /\ Range(t) = {s[i] : i \in 1 .. n - 1} \intersect S
    BY <1>6
  <2>2. f[n] = IF s[n] \in S THEN Append(t, s[n]) ELSE t
    <3>1. n \in 0 .. Len(s) /\ n # 0
      BY <1>4
    <3>2. f[n] = IF n = 0 THEN <<>>
                 ELSE IF s[n] \in S THEN Append(f[n - 1], s[n]) ELSE f[n - 1]
      BY <1>2, <3>1, OnlyAt
    <3>3. t = f[n - 1]
      BY <2>1
    <3>4. QED
      BY <3>1, <3>2, <3>3
  <2>3. s[n] \in T
    BY <1>4
  <2>4. \A i : i \in 1 .. n <=> i \in 1 .. n - 1 \/ i = n
    OBVIOUS
  <2>5. {s[i] : i \in 1 .. n} = {s[i] : i \in 1 .. n - 1} \union {s[n]}
    BY <2>4
  <2>6. CASE s[n] \in S
    <3>1. f[n] = Append(t, s[n]) /\ f[n] \in Seq(T)
      BY <2>2, <2>3, <2>6
    <3>2. Range(f[n]) = Range(t) \union {s[n]}
      BY <2>3, <3>1, AppendRange
    <3>3. Range(f[n]) = {s[i] : i \in 1 .. n} \intersect S
      BY <2>1, <2>5, <2>6, <3>2
    <3>4. QED
      BY <3>1, <3>3
  <2>7. CASE s[n] \notin S
    BY <2>1, <2>2, <2>5, <2>7
  <2>8. QED
    BY <2>6, <2>7
<1> HIDE DEF Good
<1>7. Good(N)
  <2>1. 0 \in P
    BY <1>5
  <2>2. \A n \in 1 .. N : n - 1 \in P => n \in P
    BY <1>6
  <2> HIDE DEF P
  <2>3. \A n \in 0 .. N : n \in P
    BY <2>1, <2>2, Induct
  <2>4. QED
    BY <2>3 DEF P
<1>8. {s[i] : i \in 1 .. N} = Range(s)
  BY <1>4 DEF Range
<1>9. QED
  BY <1>3, <1>4, <1>7, <1>8 DEF Good

-----------------------------------------------------------------------------
(***************************************************************************)
(* The inductive invariant: types, and the tables of every host.  What is  *)
(* said of an id is said of the object that has it and has not been        *)
(* unmapped, of which there is one.                                        *)
(***************************************************************************)
\* A message that is not an event of a connection names an object by an id.
GoodMsgs == {m \in Messages : m.state \in {"connect", "disconnect"} \/ (m.id \in Ids /\ m.name \in Objects)}

\* The assertions of MapLocalId and SendMsg do not fail: the tables are as they should be.
Phases == {"program", "sync", "closed", "send", "unmap", "illegal", "ids", "unmapped"}

WiresTyped ==
  /\ enetHost \subseteq Hosts
  /\ peers \in [Hosts -> SUBSET Hosts]
  /\ live \subseteq Links
  /\ phase \in [Hosts -> Phases]

HistoryTyped ==
  /\ owner \in [Objects -> Hosts \union {None}]
  /\ missed \subseteq Hosts \X Objects
  /\ asked \subseteq Objects
  /\ heard \subseteq Objects \X Objects

StoreTyped ==
  /\ objects \in [Hosts -> Seq(Copies)]
  /\ idMap \in [Hosts -> [Ids -> Objects \union {None}]]
  /\ mapped \in [Links -> SUBSET (Ids \X Ids)]
  /\ \A h \in Hosts : \A o \in Here(h) : IsLocal(o) \/ <<h, o.peer>> \in Links

NetTyped == net \in [Links -> Seq(GoodMsgs)]

\* What TablesExact says of a host with the objects here and the row ids of _idMap,
Row(here, ids) ==
  /\ \A o \in here : ~Unmapped(o) => ids[o.id] = o.name
  /\ \A i \in Ids : ids[i] # None => \E o \in here : o.id = i /\ ~Unmapped(o)
  /\ \A o, q \in here : ~Unmapped(o) /\ ~Unmapped(q) /\ o.id = q.id => o = q

\* and with the pairs of ids in the arrays of its peer p.
Arrays(here, p, pairs) ==
  /\ \A pair \in pairs : \E o \in here : o.id = pair[1] /\ o.peer = p /\ Open(o)
  /\ \A o \in here : o.peer = p /\ Open(o) => \E pair \in pairs : pair[1] = o.id
  /\ \A a, b \in pairs : a[1] = b[1] <=> a[2] = b[2]

Tables(h, here, ids, maps) ==
  /\ Row(here, ids)
  /\ \A p \in Hosts : <<h, p>> \in Links => Arrays(here, p, maps[<<h, p>>])

AllTables == \A h \in Hosts : Tables(h, Here(h), idMap[h], mapped)

Inv == WiresTyped /\ HistoryTyped /\ StoreTyped /\ NetTyped /\ AllTables

-----------------------------------------------------------------------------
(* What the operations do to the tables of a host.                         *)

\* An object of the host's own gets an id that is free.
LEMMA TablesCreate ==
  ASSUME NEW h, NEW here \in SUBSET Copies, NEW ids \in [Ids -> Objects \union {None}], NEW maps,
         Tables(h, here, ids, maps),
         NEW o \in Copies, IsLocal(o), ids[o.id] = None
  PROVE  Tables(h, here \union {o}, [ids EXCEPT ![o.id] = o.name], maps)
<1>1. o.id \in Ids /\ o.name \in Objects /\ o.name # None /\ None \notin Hosts
  BY GameNetAssumption DEF Copies, Hosts
<1>2. \A q \in here : q.id \in Ids /\ q.name # None
  BY GameNetAssumption DEF Copies
<1>3. \A q \in here : ~Unmapped(q) => q.id # o.id
  BY <1>2 DEF Tables, Row
<1>4. \A p \in Hosts : o.peer # p
  BY <1>1 DEF IsLocal
<1>5. ~Unmapped(o)
  BY DEF Unmapped
<1>6. PICK row : /\ row[o.id] = o.name
                 /\ \A i \in Ids : i # o.id => row[i] = ids[i]
                 /\ row = [ids EXCEPT ![o.id] = o.name]
  BY <1>1
<1>7. Row(here \union {o}, row)
  BY <1>1, <1>2, <1>3, <1>5, <1>6 DEF Tables, Row
<1>8. ASSUME NEW p \in Hosts, NEW pairs, Arrays(here, p, pairs)
      PROVE  Arrays(here \union {o}, p, pairs)
  BY <1>4, <1>8 DEF Arrays
<1>9. QED
  BY <1>6, <1>7, <1>8 DEF Tables

\* An object is changed that stays in the tables.
LEMMA TablesChange ==
  ASSUME NEW h, NEW here, NEW ids, NEW maps, Tables(h, here, ids, maps),
         NEW o \in here, ~Unmapped(o), NEW n, ~Unmapped(n),
         n.id = o.id, n.name = o.name, n.peer = o.peer
  PROVE  Tables(h, (here \ {o}) \union {n}, ids, maps)
<1>1. \A q \in here : q # o /\ ~Unmapped(q) => q.id # n.id
  BY DEF Tables, Row
<1>2. \A q : q \in (here \ {o}) \union {n} <=> q = n \/ (q \in here /\ q # o)
  OBVIOUS
<1>3. \A p \in Hosts : o.peer = p /\ Open(o) => Open(n) /\ n.peer = p
  BY GameNetAssumption DEF Unmapped, IsLocal, Hosts
<1>4. \A p \in Hosts : n.peer = p /\ Open(n) => Open(o) /\ o.peer = p
  BY GameNetAssumption DEF Unmapped, IsLocal, Hosts
<1>5. Row((here \ {o}) \union {n}, ids)
  BY <1>1, <1>2 DEF Tables, Row
<1>6. ASSUME NEW p \in Hosts, NEW pairs, Arrays(here, p, pairs)
      PROVE  Arrays((here \ {o}) \union {n}, p, pairs)
  <2>1. ASSUME NEW pair \in pairs
        PROVE  \E q \in (here \ {o}) \union {n} : q.id = pair[1] /\ q.peer = p /\ Open(q)
    <3>1. PICK q \in here : q.id = pair[1] /\ q.peer = p /\ Open(q)
      BY <1>6 DEF Arrays
    <3>2. CASE q = o
      BY <1>3, <3>1, <3>2
    <3>3. CASE q # o
      BY <3>1, <3>3
    <3>4. QED
      BY <3>2, <3>3
  <2>2. ASSUME NEW q \in (here \ {o}) \union {n}, q.peer = p, Open(q)
        PROVE  \E pair \in pairs : pair[1] = q.id
    <3>1. CASE q = n
      <4>1. o.peer = p /\ Open(o) /\ o.id = q.id
        BY <1>4, <2>2, <3>1
      <4>2. QED
        BY <1>6, <4>1 DEF Arrays
    <3>2. CASE q # n
      BY <1>2, <1>6, <2>2, <3>2 DEF Arrays
    <3>3. QED
      BY <3>1, <3>2
  <2>3. QED
    BY <1>6, <2>1, <2>2 DEF Arrays
<1>7. QED
  BY <1>5, <1>6 DEF Tables

\* Objects that have been unmapped come or go.
LEMMA TablesForget ==
  ASSUME NEW h, NEW here, NEW ids, NEW maps, Tables(h, here, ids, maps),
         NEW rest, {o \in rest : ~Unmapped(o)} = {o \in here : ~Unmapped(o)},
         \A o \in here \union rest : o.peer \in Hosts => ~IsLocal(o)
  PROVE  Tables(h, rest, ids, maps)
<1>1. \A o : o \in here /\ ~Unmapped(o) <=> o \in rest /\ ~Unmapped(o)
  OBVIOUS
<1>2. \A o : Open(o) => ~Unmapped(o)
  BY DEF Unmapped
<1>3. QED
  BY <1>1, <1>2 DEF Tables, Row, Arrays

\* An object of p's gets an id that is free, and both arrays of p have it.
LEMMA TablesReceive ==
  ASSUME NEW h, NEW here \in SUBSET Copies, NEW ids \in [Ids -> Objects \union {None}],
         NEW maps \in [Links -> SUBSET (Ids \X Ids)], Tables(h, here, ids, maps),
         NEW o \in Copies, NEW p \in Hosts, o.peer = p, Open(o), <<h, p>> \in Links,
         ids[o.id] = None,
         NEW r \in Ids, \A pair \in maps[<<h, p>>] : pair[1] # o.id /\ pair[2] # r
  PROVE  Tables(h, here \union {o}, [ids EXCEPT ![o.id] = o.name],
                [maps EXCEPT ![<<h, p>>] = @ \union {<<o.id, r>>}])
<1>1. o.id \in Ids /\ o.name \in Objects /\ o.name # None /\ None \notin Hosts
  BY GameNetAssumption DEF Copies, Hosts
<1>2. \A q \in here : q.id \in Ids /\ q.name # None
  BY GameNetAssumption DEF Copies
<1>3. \A q \in here : ~Unmapped(q) => q.id # o.id
  BY <1>2 DEF Tables, Row
<1>4. ~Unmapped(o)
  BY DEF Unmapped
<1>5. PICK row : /\ row[o.id] = o.name /\ \A i \in Ids : i # o.id => row[i] = ids[i]
                 /\ row = [ids EXCEPT ![o.id] = o.name]
  BY <1>1
<1>6. PICK new : /\ new[<<h, p>>] = maps[<<h, p>>] \union {<<o.id, r>>}
                 /\ \A q \in Hosts : q # p /\ <<h, q>> \in Links => new[<<h, q>>] = maps[<<h, q>>]
                 /\ new = [maps EXCEPT ![<<h, p>>] = @ \union {<<o.id, r>>}]
  <2>1. PICK new : new = [maps EXCEPT ![<<h, p>>] = @ \union {<<o.id, r>>}]
    OBVIOUS
  <2>2. new[<<h, p>>] = maps[<<h, p>>] \union {<<o.id, r>>}
    BY <2>1
  <2>3. \A l \in Links : l # <<h, p>> => new[l] = maps[l]
    BY <2>1
  <2>4. \A q \in Hosts : q # p => <<h, q>> # <<h, p>>
    OBVIOUS
  <2>5. QED
    BY <2>1, <2>2, <2>3, <2>4
<1>7. Row(here \union {o}, row)
  BY <1>1, <1>2, <1>3, <1>4, <1>5 DEF Tables, Row
<1>8. ASSUME NEW q \in Hosts, q # p, NEW pairs, Arrays(here, q, pairs)
      PROVE  Arrays(here \union {o}, q, pairs)
  BY <1>8 DEF Arrays
<1>9. ASSUME NEW pairs, pairs = maps[<<h, p>>]
      PROVE  Arrays(here \union {o}, p, pairs \union {<<o.id, r>>})
  <2>1. Arrays(here, p, pairs)
    BY <1>9 DEF Tables
  <2>2. \A pair \in pairs : pair[1] # o.id /\ pair[2] # r
    BY <1>9
  <2>3. ASSUME NEW a \in pairs \union {<<o.id, r>>}, NEW b \in pairs \union {<<o.id, r>>}
        PROVE  a[1] = b[1] <=> a[2] = b[2]
    <3>1. CASE a \in pairs /\ b \in pairs
      BY <2>1, <3>1 DEF Arrays
    <3>2. CASE a = <<o.id, r>>
      BY <2>2, <3>2
    <3>3. CASE b = <<o.id, r>>
      BY <2>2, <3>3
    <3>4. QED
      BY <3>1, <3>2, <3>3
  <2>4. ASSUME NEW pair \in pairs \union {<<o.id, r>>}
        PROVE  \E k \in here \union {o} : k.id = pair[1] /\ k.peer = p /\ Open(k)
    <3>1. CASE pair \in pairs
      BY <2>1, <3>1 DEF Arrays
    <3>2. CASE pair = <<o.id, r>>
      BY <3>2
    <3>3. QED
      BY <3>1, <3>2
  <2>5. ASSUME NEW k \in here \union {o}, k.peer = p, Open(k)
        PROVE  \E pair \in pairs \union {<<o.id, r>>} : pair[1] = k.id
    <3>1. CASE k \in here
      <4>1. PICK pair \in pairs : pair[1] = k.id
        BY <2>1, <2>5, <3>1 DEF Arrays
      <4>2. QED
        BY <4>1
    <3>2. CASE k = o
      <4>1. <<o.id, r>>[1] = k.id
        BY <3>2
      <4>2. QED
        BY <4>1
    <3>3. QED
      BY <3>1, <3>2
  <2>6. QED
    BY <2>3, <2>4, <2>5 DEF Arrays
<1>10. Tables(h, here \union {o}, row, new)
  BY <1>6, <1>7, <1>8, <1>9 DEF Tables
<1>11. QED
  BY <1>5, <1>6, <1>10

\* An object of p's is closed: it leaves _idMap and the arrays.
LEMMA TablesClose ==
  ASSUME NEW h, NEW here \in SUBSET Copies, NEW ids \in [Ids -> Objects \union {None}],
         NEW maps, Tables(h, here, ids, maps),
         NEW p \in Hosts, <<h, p>> \in Links, NEW o \in here, o.peer = p, Open(o),
         NEW n, Unmapped(n), n.peer = p,
         NEW row, row[o.id] = None, \A i \in Ids : i # o.id => row[i] = ids[i],
         NEW new, \A q \in Hosts : q # p /\ <<h, q>> \in Links => new[<<h, q>>] = maps[<<h, q>>],
         \A pair : pair \in new[<<h, p>>] <=> pair \in maps[<<h, p>>] /\ pair[1] # o.id
  PROVE  Tables(h, (here \ {o}) \union {n}, row, new)
<1>1. o.id \in Ids /\ None \notin Hosts /\ ~Unmapped(o) /\ ~Open(n)
  BY GameNetAssumption DEF Copies, Hosts, Unmapped
<1>2. \A q \in here : q.id \in Ids /\ q.name # None
  BY GameNetAssumption DEF Copies
<1>3. \A q \in here : q # o /\ ~Unmapped(q) => q.id # o.id
  BY <1>1 DEF Tables, Row
<1>4. \A q : q \in (here \ {o}) \union {n} <=> q = n \/ (q \in here /\ q # o)
  OBVIOUS
<1>7. Row((here \ {o}) \union {n}, row)
  <2>1. ASSUME NEW i \in Ids, row[i] # None
        PROVE  \E q \in (here \ {o}) \union {n} : q.id = i /\ ~Unmapped(q)
    <3>1. i # o.id /\ ids[i] # None
      BY <2>1
    <3>2. PICK q \in here : q.id = i /\ ~Unmapped(q)
      BY <3>1 DEF Tables, Row
    <3>3. QED
      BY <3>1, <3>2
  <2>2. QED
    BY <1>2, <1>3, <1>4, <2>1 DEF Tables, Row
<1>8. ASSUME NEW q \in Hosts, q # p, NEW pairs, Arrays(here, q, pairs)
      PROVE  Arrays((here \ {o}) \union {n}, q, pairs)
  BY <1>4, <1>8 DEF Arrays
<1>9. Arrays((here \ {o}) \union {n}, p, new[<<h, p>>])
  <2>1. Arrays(here, p, maps[<<h, p>>])
    BY DEF Tables
  <2>2. ASSUME NEW pair \in new[<<h, p>>]
        PROVE  \E q \in (here \ {o}) \union {n} : q.id = pair[1] /\ q.peer = p /\ Open(q)
    <3>1. pair \in maps[<<h, p>>] /\ pair[1] # o.id
      BY <2>2
    <3>2. PICK q \in here : q.id = pair[1] /\ q.peer = p /\ Open(q)
      BY <2>1, <3>1 DEF Arrays
    <3>3. QED
      BY <3>1, <3>2
  <2>3. ASSUME NEW q \in (here \ {o}) \union {n}, q.peer = p, Open(q)
        PROVE  \E pair \in new[<<h, p>>] : pair[1] = q.id
    <3>1. q \in here /\ q # o /\ ~Unmapped(q)
      BY <1>1, <1>4, <2>3 DEF Unmapped
    <3>2. PICK pair \in maps[<<h, p>>] : pair[1] = q.id
      BY <2>1, <2>3, <3>1 DEF Arrays
    <3>3. QED
      BY <1>3, <3>1, <3>2
  <2>4. \A a, b \in new[<<h, p>>] : a[1] = b[1] <=> a[2] = b[2]
    BY <2>1 DEF Arrays
  <2>5. QED
    BY <2>2, <2>3, <2>4 DEF Arrays
<1>10. QED
  BY <1>7, <1>8, <1>9 DEF Tables

\* All objects of p's are closed, and p's arrays are empty.
LEMMA TablesLose ==
  ASSUME NEW h, NEW here \in SUBSET Copies, NEW ids \in [Ids -> Objects \union {None}],
         NEW maps, Tables(h, here, ids, maps),
         NEW p \in Hosts, <<h, p>> \in Links,
         \A o \in here : o.peer = p => Open(o),
         NEW after, \A o \in after : o.peer = p => Unmapped(o),
         \A o : o.peer # p => (o \in after <=> o \in here),
         NEW row,
         \A i \in Ids : (\E o \in here : o.peer = p /\ o.id = i) => row[i] = None,
         \A i \in Ids : (\A o \in here : o.peer = p => o.id # i) => row[i] = ids[i],
         NEW new, new[<<h, p>>] = {},
         \A q \in Hosts : q # p /\ <<h, q>> \in Links => new[<<h, q>>] = maps[<<h, q>>]
  PROVE  Tables(h, after, row, new)
<1>1. \A o \in after : o.peer = p => ~Open(o)
  BY DEF Unmapped
<1>2. \A o \in here : o.peer = p => ~Unmapped(o)
  BY DEF Unmapped
<1>3. \A q \in here : q.id \in Ids /\ q.name # None
  BY GameNetAssumption DEF Copies
<1>4. \A i \in Ids : /\ (\E o \in here : o.peer = p /\ o.id = i) => row[i] = None
                     /\ row[i] = None \/ row[i] = ids[i]
                     /\ (\A o \in here : o.peer = p => o.id # i) => row[i] = ids[i]
  OBVIOUS
<1>5. Row(after, row)
  <2>1. ASSUME NEW o \in after, ~Unmapped(o) PROVE o \in here /\ o.peer # p
    BY <2>1
  <2>2. ASSUME NEW o \in after, ~Unmapped(o) PROVE row[o.id] = o.name
    <3>1. \A q \in here : q.peer = p => q.id # o.id
      BY <1>2, <2>1, <2>2 DEF Tables, Row
    <3>2. row[o.id] = ids[o.id]
      BY <1>3, <1>4, <2>1, <2>2, <3>1
    <3>3. QED
      BY <2>1, <2>2, <3>2 DEF Tables, Row
  <2>3. ASSUME NEW i \in Ids, row[i] # None PROVE \E o \in after : o.id = i /\ ~Unmapped(o)
    <3>1. ids[i] # None /\ \A o \in here : o.peer = p => o.id # i
      BY <1>4, <2>3
    <3>2. PICK o \in here : o.id = i /\ ~Unmapped(o)
      BY <3>1 DEF Tables, Row
    <3>3. QED
      BY <3>1, <3>2
  <2>4. \A o, q \in after : ~Unmapped(o) /\ ~Unmapped(q) /\ o.id = q.id => o = q
    BY <2>1 DEF Tables, Row
  <2>5. QED
    BY <2>2, <2>3, <2>4 DEF Row
<1>6. ASSUME NEW q \in Hosts, q # p, NEW pairs, Arrays(here, q, pairs)
      PROVE  Arrays(after, q, pairs)
  <2>1. \A o : o.peer = q => (o \in after <=> o \in here)
    BY <1>6
  <2>2. QED
    BY <1>6, <2>1 DEF Arrays
<1>7. Arrays(after, p, {})
  BY <1>1 DEF Arrays
<1>8. QED
  BY <1>5, <1>6, <1>7 DEF Tables

\* Objects that are synchronised are the same objects, but those of the host's own that
\* have been closed, and those that others have closed, go.
LEMMA TablesSync ==
  ASSUME NEW h, NEW here \in SUBSET Copies, NEW ids \in [Ids -> Objects \union {None}],
         NEW maps, Tables(h, here, ids, maps),
         NEW gone, gone = {o \in here : AfterSync(o).state = "zombie"}
  PROVE  Tables(h, {AfterSync(o) : o \in here \ gone},
                [i \in Ids |-> IF \E o \in gone : IsLocal(o) /\ o.id = i THEN None ELSE ids[i]],
                maps)
<1>1. \A o \in here : /\ AfterSync(o).id = o.id /\ AfterSync(o).name = o.name
                      /\ AfterSync(o).peer = o.peer /\ o.id \in Ids /\ o.name # None
                      /\ Open(AfterSync(o)) <=> Open(o)
                      /\ o \notin gone => Open(o)
  BY GameNetAssumption DEF Copies, AfterSync, Open
<1>2. PICK after : after = {AfterSync(o) : o \in here \ gone}
  OBVIOUS
<1>3. \A n : n \in after <=> \E o \in here : o \notin gone /\ n = AfterSync(o)
  BY <1>2
<1>4. PICK row : row = [i \in Ids |-> IF \E o \in gone : IsLocal(o) /\ o.id = i
                                      THEN None ELSE ids[i]]
  OBVIOUS
<1>5. \A i \in Ids : /\ row[i] # None => ids[i] # None /\ \A o \in gone : IsLocal(o) => o.id # i
                     /\ (\A o \in gone : IsLocal(o) => o.id # i) => row[i] = ids[i]
  BY <1>4
<1>6. \A o \in gone : o \in here /\ ~Open(o)
  <2>1. \A o \in here : AfterSync(o).state = "zombie" => ~Open(o)
    BY DEF Copies, AfterSync, Open
  <2>2. QED
    BY <2>1
<1>7. Row(after, row)
  <2>1. ASSUME NEW o \in here, o \notin gone PROVE ~Unmapped(o) /\ row[o.id] = ids[o.id]
    <3>1. Open(o) /\ ~Unmapped(o)
      BY <1>1, <2>1 DEF Unmapped
    <3>2. \A q \in gone : IsLocal(q) => q.id # o.id
      BY <1>6, <2>1, <3>1 DEF Tables, Row, Unmapped
    <3>3. QED
      BY <1>1, <1>5, <3>1, <3>2
  <2>2. \A n \in after : row[n.id] = n.name
    BY <1>1, <1>3, <2>1 DEF Tables, Row
  <2>3. ASSUME NEW i \in Ids, row[i] # None PROVE \E n \in after : n.id = i /\ ~Unmapped(n)
    <3>1. PICK o \in here : o.id = i /\ ~Unmapped(o)
      BY <1>5, <2>3 DEF Tables, Row
    <3>2. o \notin gone
      BY <1>5, <1>6, <2>3, <3>1 DEF Unmapped
    <3>3. AfterSync(o) \in after /\ AfterSync(o).id = i /\ Open(AfterSync(o))
      BY <1>1, <1>3, <3>1, <3>2
    <3>4. QED
      BY <3>3 DEF Unmapped
  <2>4. \A n, m \in after : n.id = m.id => n = m
    BY <1>1, <1>3, <2>1 DEF Tables, Row
  <2>5. QED
    BY <2>2, <2>3, <2>4 DEF Row
<1>8. ASSUME NEW p \in Hosts, NEW pairs, Arrays(here, p, pairs)
      PROVE  Arrays(after, p, pairs)
  <2>1. ASSUME NEW pair \in pairs PROVE \E n \in after : n.id = pair[1] /\ n.peer = p /\ Open(n)
    <3>1. PICK o \in here : o.id = pair[1] /\ o.peer = p /\ Open(o)
      BY <1>8 DEF Arrays
    <3>2. o \notin gone
      BY <1>6, <3>1
    <3>3. AfterSync(o) \in after
      BY <1>3, <3>2
    <3>4. QED
      BY <1>1, <3>1, <3>3
  <2>2. ASSUME NEW n \in after, n.peer = p PROVE \E pair \in pairs : pair[1] = n.id
    <3>1. PICK o \in here : o \notin gone /\ n = AfterSync(o)
      BY <1>3
    <3>2. o.peer = p /\ Open(o) /\ o.id = n.id
      BY <1>1, <2>2, <3>1
    <3>3. QED
      BY <1>8, <3>2 DEF Arrays
  <2>3. QED
    BY <1>8, <2>1, <2>2 DEF Arrays
<1>9. QED
  BY <1>2, <1>4, <1>7, <1>8 DEF Tables

-----------------------------------------------------------------------------
(* Parts of the invariant, and steps that leave parts of it alone.         *)

\* The store of one host.
LEMMA StoreOf ==
  ASSUME Inv, NEW h \in Hosts
  PROVE  /\ objects[h] \in Seq(Copies) /\ Here(h) \in SUBSET Copies
         /\ idMap[h] \in [Ids -> Objects \union {None}]
         /\ mapped \in [Links -> SUBSET (Ids \X Ids)]
         /\ Tables(h, Here(h), idMap[h], mapped)
         /\ \A o \in Here(h) : IsLocal(o) \/ <<h, o.peer>> \in Links
<1>1. objects[h] \in Seq(Copies)
  BY DEF Inv, StoreTyped
<1>2. Here(h) \subseteq Copies
  BY <1>1, RangeIs DEF Here
<1>3. QED
  BY <1>1, <1>2 DEF Inv, StoreTyped, AllTables

\* A step changes the store of one host.
LEMMA StoreStep ==
  ASSUME Inv, NEW h \in Hosts,
         NEW s \in Seq(Copies), objects' = [objects EXCEPT ![h] = s],
         \A o \in Range(s) : IsLocal(o) \/ <<h, o.peer>> \in Links,
         NEW row \in [Ids -> Objects \union {None}], idMap' = [idMap EXCEPT ![h] = row],
         NEW maps \in [Links -> SUBSET (Ids \X Ids)], mapped' = maps,
         \A l \in Links : l[1] # h => maps[l] = mapped[l],
         Tables(h, Range(s), row, maps)
  PROVE  StoreTyped' /\ AllTables'
<1>1. /\ objects \in [Hosts -> Seq(Copies)]
      /\ idMap \in [Hosts -> [Ids -> Objects \union {None}]]
  BY DEF Inv, StoreTyped
<1>2. /\ objects' \in [Hosts -> Seq(Copies)]
      /\ idMap' \in [Hosts -> [Ids -> Objects \union {None}]]
      /\ objects'[h] = s /\ idMap'[h] = row
      /\ \A g \in Hosts : g # h => objects'[g] = objects[g] /\ idMap'[g] = idMap[g]
  BY <1>1
<1>3. ASSUME NEW g \in Hosts
      PROVE  /\ \A o \in Range(objects'[g]) : IsLocal(o) \/ <<g, o.peer>> \in Links
             /\ Tables(g, Range(objects'[g]), idMap'[g], maps)
  <2>1. CASE g = h
    BY <1>2, <2>1
  <2>2. CASE g # h
    <3>1. \A o \in Range(objects[g]) : IsLocal(o) \/ <<g, o.peer>> \in Links
      BY DEF Inv, StoreTyped, Here
    <3>2. Tables(g, Range(objects[g]), idMap[g], mapped)
      BY DEF Inv, AllTables, Here
    <3>3. \A p \in Hosts : <<g, p>> \in Links => maps[<<g, p>>] = mapped[<<g, p>>]
      <4>1. \A p \in Hosts : <<g, p>>[1] # h
        BY <2>2
      <4>2. QED
        BY <4>1
    <3>4. Tables(g, Range(objects[g]), idMap[g], maps)
      BY <3>2, <3>3 DEF Tables
    <3>5. QED
      BY <1>2, <2>2, <3>1, <3>4
  <2>3. QED
    BY <2>1, <2>2
<1>4. StoreTyped'
  BY <1>2, <1>3 DEF StoreTyped, Here, IsLocal
<1>5. AllTables'
  BY <1>3 DEF AllTables, Here
<1>6. QED
  BY <1>4, <1>5

\* A step changes the store of no host.
LEMMA StoreKept ==
  ASSUME Inv, UNCHANGED store
  PROVE  StoreTyped' /\ AllTables'
<1>1. objects' = objects /\ idMap' = idMap /\ mapped' = mapped
  BY DEF store
<1>2. \A h : Here(h)' = Here(h)
  BY <1>1 DEF Here
<1>3. QED
  BY <1>1, <1>2 DEF Inv, StoreTyped, AllTables

\* The messages that are sent are well formed, and so is what is on its way.
LEMMA SentTyped ==
  ASSUME NetTyped, NEW h, NEW ps, NEW msgs \in Seq(GoodMsgs)
  PROVE  Sent(h, ps, msgs) \in [Links -> Seq(GoodMsgs)]
<1>1. \A l \in Links : net[l] \in Seq(GoodMsgs)
  BY DEF NetTyped
<1>2. \A l \in Links : net[l] \o msgs \in Seq(GoodMsgs)
  BY <1>1
<1>3. QED
  BY <1>1, <1>2 DEF Sent

\* Also when the event that is handled has been taken.
LEMMA HandledTyped ==
  ASSUME NetTyped, NEW h, NEW p, <<p, h>> \in Links, net[<<p, h>>] # <<>>,
         NEW ps, NEW msgs \in Seq(GoodMsgs), Handled(h, p, ps, msgs), p # h
  PROVE  NetTyped'
<1>1. PICK sent \in [Links -> Seq(GoodMsgs)] : sent = Sent(h, ps, msgs)
  BY SentTyped
<1>2. sent[<<p, h>>] = net[<<p, h>>]
  BY <1>1 DEF Sent
<1>3. Tail(net[<<p, h>>]) \in Seq(GoodMsgs)
  BY DEF NetTyped
<1>4. net' = [sent EXCEPT ![<<p, h>>] = Tail(net[<<p, h>>])]
  BY <1>1, <1>2 DEF Handled
<1>5. QED
  BY <1>3, <1>4 DEF NetTyped

\* The event that is handled.
LEMMA Event ==
  ASSUME Inv, NEW h \in Hosts, NEW p \in Hosts, NEW state, Comes(h, p, state)
  PROVE  /\ <<p, h>> \in Links /\ <<h, p>> \in Links /\ p # h
         /\ net[<<p, h>>] # <<>> /\ Message(h, p) \in GoodMsgs /\ Message(h, p).state = state
         /\ phase[h] = "sync"
<1>1. <<p, h>> \in Links /\ net[<<p, h>>] \in Seq(GoodMsgs) /\ net[<<p, h>>] # <<>>
  BY DEF Comes, Inv, NetTyped
<1>2. <<h, p>> \in Links /\ p # h
  BY <1>1 DEF Links
<1>3. Head(net[<<p, h>>]) \in GoodMsgs
  BY <1>1
<1>4. QED
  BY <1>1, <1>2, <1>3 DEF Comes, Message

\* The only thing that an assertion changes is the phase of the host.
LEMMA FailKeeps ==
  ASSUME Inv, NEW h \in Hosts, NEW why \in Phases, Fail(h, why)
  PROVE  Inv'
<1>1. UNCHANGED <<wires, net, store, history>> /\ phase' = [phase EXCEPT ![h] = why]
  BY DEF Fail, Goto
<1>2. StoreTyped' /\ AllTables'
  BY <1>1, StoreKept
<1>3. WiresTyped' /\ HistoryTyped' /\ NetTyped'
  BY <1>1 DEF Inv, WiresTyped, HistoryTyped, NetTyped, wires, history
<1>4. QED
  BY <1>2, <1>3 DEF Inv

\* That goes for ENet's refusal to send.
LEMMA RefusedKeeps ==
  ASSUME Inv, NEW h \in Hosts, NEW ps, Refused(h, ps)
  PROVE  Inv'
<1>1. Fail(h, "send") /\ "send" \in Phases
  BY DEF Refused, Phases
<1>2. QED
  BY <1>1, FailKeeps

\* The messages that tell of objects.
LEMMA GoodMsg ==
  ASSUME NEW state \in {"created", "modified", "closed", "message"}, NEW i \in Ids,
         NEW x \in Objects, NEW d \in Nat
  PROVE  Msg(state, i, x, d) \in GoodMsgs
<1>1. i \in 0 .. MaxId
  BY GameNetAssumption DEF Ids
<1>2. QED
  BY <1>1 DEF Msg, GoodMsgs, Messages

\* The same message, with the id that the object has for someone else.
LEMMA RenamedGood ==
  ASSUME NEW msg \in GoodMsgs, msg.name \in Objects, NEW i \in Ids
  PROVE  [msg EXCEPT !.id = i] \in GoodMsgs
<1>1. msg \in Messages
  BY DEF GoodMsgs
<1>2. i \in 0 .. MaxId
  BY GameNetAssumption DEF Ids
<1>3. PICK n : n = [msg EXCEPT !.id = i]
  OBVIOUS
<1>4. n \in Messages /\ n.id = i /\ n.name = msg.name
  BY <1>1, <1>2, <1>3 DEF Messages
<1>5. QED
  BY <1>3, <1>4 DEF GoodMsgs

\* The fields of an object.
LEMMA GoodCopy ==
  ASSUME NEW o \in Copies
  PROVE  o.id \in Ids /\ o.name \in Objects /\ o.data \in Nat
BY DEF Copies

\* AddPeer
LEMMA ToldTyped ==
  ASSUME Inv, NEW h \in Hosts
  PROVE  CreatedMsgs(ToTell(h)) \in Seq(GoodMsgs)
<1>1. PICK s \in Seq(Copies) : s = ToTell(h)
  BY StoreOf, OnlyIs DEF ToTell
<1>2. DOMAIN s = 1 .. Len(s) /\ \A i \in 1 .. Len(s) : s[i] \in Copies
  OBVIOUS
<1>3. \A i \in 1 .. Len(s) : CreatedMsg(s[i]) \in GoodMsgs
  BY <1>2, GoodCopy, GoodMsg DEF CreatedMsg
<1>4. QED
  BY <1>1, <1>2, <1>3 DEF CreatedMsgs

\* What the peer is not told of.
LEMMA UntoldTyped ==
  ASSUME Inv, NEW h \in Hosts, NEW p \in Hosts
  PROVE  Untold(h, p) \subseteq Hosts \X Objects
<1>1. \A o \in Here(h) : o.name \in Objects
  BY StoreOf, GoodCopy
<1>2. QED
  BY <1>1 DEF Untold

\* The loop over the objects in GNetSync
LEMMA SyncTyped ==
  ASSUME Inv, NEW h \in Hosts
  PROVE  SyncMsgs(h) \in Seq(GoodMsgs)
<1>1. PICK S : S = {o \in Here(h) : IsLocal(o) /\ o.state \in {"created", "modified", "closed"}}
  OBVIOUS
<1>2. PICK s \in Seq(Copies) : s = ToSync(h) /\ Range(s) = Here(h) \intersect S
  BY <1>1, StoreOf, OnlyIs DEF ToSync, Here
<1>3. DOMAIN s = 1 .. Len(s) /\ \A i \in 1 .. Len(s) : s[i] \in Copies /\ s[i] \in Range(s)
  BY RangeIs
<1>4. \A i \in 1 .. Len(s) : s[i].state \in {"created", "modified", "closed"}
  BY <1>1, <1>2, <1>3
<1>5. \A i \in 1 .. Len(s) : Msg(s[i].state, s[i].id, s[i].name, s[i].data) \in GoodMsgs
  BY <1>3, <1>4, GoodCopy, GoodMsg
<1>6. QED
  BY <1>2, <1>3, <1>5 DEF SyncMsgs

\* An object is replaced in a list.
LEMMA ReplaceIs ==
  ASSUME NEW T, NEW s \in Seq(T), NEW o \in Range(s), NEW n \in T
  PROVE  LET t == [i \in DOMAIN s |-> IF s[i] = o THEN n ELSE s[i]]
         IN  t \in Seq(T) /\ Range(t) = (Range(s) \ {o}) \union {n}
<1>1. PICK t : t = [i \in DOMAIN s |-> IF s[i] = o THEN n ELSE s[i]]
  OBVIOUS
<1>2. DOMAIN s = 1 .. Len(s) /\ \A i \in 1 .. Len(s) : s[i] \in T
  OBVIOUS
<1>3. t \in Seq(T) /\ Len(t) = Len(s)
  BY <1>1, <1>2
<1>4. PICK k \in 1 .. Len(s) : s[k] = o
  BY RangeIs
<1>5. \A x : x \in Range(t) <=> x = n \/ (x \in Range(s) /\ x # o)
  <2>1. ASSUME NEW x \in Range(t) PROVE x = n \/ (x \in Range(s) /\ x # o)
    <3>1. PICK i \in 1 .. Len(s) : t[i] = x
      BY <1>3, RangeIs
    <3>2. QED
      BY <1>1, <1>2, <3>1, RangeIs
  <2>2. n \in Range(t)
    <3>1. t[k] = n
      BY <1>1, <1>2, <1>4
    <3>2. QED
      BY <1>3, <1>4, <3>1, RangeIs
  <2>3. ASSUME NEW x \in Range(s), x # o PROVE x \in Range(t)
    <3>1. PICK i \in 1 .. Len(s) : s[i] = x
      BY RangeIs
    <3>2. t[i] = x
      BY <1>1, <1>2, <2>3, <3>1
    <3>3. QED
      BY <1>3, <3>1, <3>2, RangeIs
  <2>4. QED
    BY <2>1, <2>2, <2>3
<1>6. Range(t) = (Range(s) \ {o}) \union {n}
  BY <1>5
<1>7. QED
  BY <1>1, <1>3, <1>6

\* An object is replaced among those of a host.
LEMMA ChangedIs ==
  ASSUME Inv, NEW h \in Hosts, NEW o \in Here(h), NEW n \in Copies
  PROVE  \E s \in Seq(Copies) : /\ Changed(h, o, n) = [objects EXCEPT ![h] = s]
                                /\ Range(s) = (Here(h) \ {o}) \union {n}
<1>1. PICK old \in Seq(Copies) : old = objects[h]
  BY StoreOf
<1>2. o \in Range(old) /\ Here(h) = Range(old)
  BY <1>1 DEF Here
<1>3. PICK s : s = [i \in DOMAIN old |-> IF old[i] = o THEN n ELSE old[i]]
  OBVIOUS
<1>4. s \in Seq(Copies) /\ Range(s) = (Range(old) \ {o}) \union {n}
  BY <1>2, <1>3, ReplaceIs
<1>5. Changed(h, o, n) = [objects EXCEPT ![h] = s]
  BY <1>1, <1>3 DEF Changed
<1>6. QED
  BY <1>2, <1>4, <1>5

\* The object that _idMap has at an id.
LEMMA ObjectIs ==
  ASSUME Inv, NEW h \in Hosts, NEW o \in Here(h), ~Unmapped(o)
  PROVE  Object(h, o.id) = o
<1>1. \A q \in Here(h) : ~Unmapped(q) /\ q.id = o.id => q = o
  BY StoreOf DEF Tables, Row
<1>2. QED
  BY <1>1 DEF Object

\* There is one where _idMap has a name.
LEMMA ObjectAt ==
  ASSUME Inv, NEW h \in Hosts, NEW i \in Ids, idMap[h][i] # None
  PROVE  \E o \in Here(h) : o.id = i /\ o = Object(h, i) /\ ~Unmapped(o)
<1>1. PICK o \in Here(h) : o.id = i /\ ~Unmapped(o)
  BY StoreOf DEF Tables, Row
<1>2. QED
  BY <1>1, ObjectIs

\* The object that a message of p's is about.
LEMMA ObjectOf ==
  ASSUME Inv, NEW h \in Hosts, NEW p \in Hosts, <<h, p>> \in Links,
         NEW i \in LocalIds(h, p)
  PROVE  \E o \in Here(h) : i \in Ids /\ o.id = i /\ o = Object(h, i) /\ o.peer = p /\ Open(o)
<1>1. PICK pair \in mapped[<<h, p>>] : pair[1] = i
  BY DEF LocalIds
<1>2. mapped[<<h, p>>] \subseteq Ids \X Ids
  BY StoreOf
<1>3. i \in Ids
  BY <1>1, <1>2
<1>4. Arrays(Here(h), p, mapped[<<h, p>>])
  BY StoreOf DEF Tables
<1>5. PICK o \in Here(h) : o.id = i /\ o.peer = p /\ Open(o)
  BY <1>1, <1>4 DEF Arrays
<1>6. Object(h, i) = o
  BY <1>5, ObjectIs DEF Unmapped
<1>7. QED
  BY <1>3, <1>5, <1>6

\* The id that AllocId finds is free.
LEMMA AllocIdIs ==
  ASSUME Inv, NEW h \in Hosts, FreeIds(h) # {}
  PROVE  AllocId(h) \in Ids /\ idMap[h][AllocId(h)] = None
<1>1. PICK F : F = FreeIds(h)
  OBVIOUS
<1>2. F \subseteq Nat /\ F # {}
  BY <1>1 DEF FreeIds, Ids
<1>3. \E i \in F : \A j \in F : i <= j
  BY <1>2, LeastNatural
<1>4. AllocId(h) \in F
  BY <1>1, <1>3 DEF AllocId
<1>5. QED
  BY <1>1, <1>4 DEF FreeIds

-----------------------------------------------------------------------------
(* The steps.                                                              *)

\* The first state: no object, nothing on its way.
LEMMA InitInv ==
  Init => Inv
<1> SUFFICES ASSUME Init PROVE Inv
  OBVIOUS
<1>1. \A h \in Hosts : Here(h) = {}
  BY DEF Init, Here, Range
<1>2. Server \in Hosts
  BY DEF Hosts
<1>3. WiresTyped /\ HistoryTyped
  BY <1>2 DEF Init, WiresTyped, HistoryTyped, Phases
<1>4. <<>> \in Seq(Copies) /\ <<>> \in Seq(GoodMsgs)
  OBVIOUS
<1>5. StoreTyped /\ NetTyped
  BY <1>1, <1>4 DEF Init, StoreTyped, NetTyped
<1>6. AllTables
  BY <1>1 DEF Init, AllTables, Tables, Row, Arrays
<1>7. QED
  BY <1>3, <1>5, <1>6 DEF Inv

\* CreateObject: the id of the new object is free.
LEMMA CreateObjectStep ==
  ASSUME Inv, NEW h \in Hosts, NEW x \in Objects, CreateObject(h, x)
  PROVE  Inv'
<1>1. PICK i \in Ids : i = AllocId(h) /\ idMap[h][i] = None
  BY AllocIdIs DEF CreateObject
<1>2. PICK o : o = [name |-> x, id |-> i, state |-> "created", peer |-> None, data |-> 0]
  OBVIOUS
<1>3. o \in Copies /\ IsLocal(o) /\ o.id = i /\ o.name = x
  BY <1>2 DEF Copies, IsLocal
<1>4. PICK old \in Seq(Copies) : old = objects[h] /\ Range(old) = Here(h)
  BY StoreOf DEF Here
<1>5. PICK s \in Seq(Copies) : s = Append(old, o) /\ Range(s) = Here(h) \union {o}
  <2>1. Append(old, o) \in Seq(Copies) /\ Range(Append(old, o)) = Range(old) \union {o}
    BY <1>3, AppendRange
  <2>2. QED
    BY <1>4, <2>1
<1>6. PICK row \in [Ids -> Objects \union {None}] :
        row = [idMap[h] EXCEPT ![o.id] = o.name] /\ row = [idMap[h] EXCEPT ![i] = x]
  BY <1>3, StoreOf
<1>7. Tables(h, Range(s), row, mapped)
  <2>1. PICK here \in SUBSET Copies, ids \in [Ids -> Objects \union {None}] :
          here = Here(h) /\ ids = idMap[h]
    BY StoreOf
  <2>2. Tables(h, here, ids, mapped) /\ ids[o.id] = None
    BY <1>1, <1>3, <2>1, StoreOf
  <2>3. Tables(h, here \union {o}, [ids EXCEPT ![o.id] = o.name], mapped)
    BY <1>3, <2>2, TablesCreate
  <2>4. QED
    BY <1>5, <1>6, <2>1, <2>3
<1>8. \A q \in Range(s) : IsLocal(q) \/ <<h, q.peer>> \in Links
  BY <1>3, <1>5, StoreOf
<1>9. objects' = [objects EXCEPT ![h] = s] /\ idMap' = [idMap EXCEPT ![h] = row] /\ mapped' = mapped
  BY <1>1, <1>2, <1>4, <1>5, <1>6 DEF CreateObject, Inv, StoreTyped
<1>10. StoreTyped' /\ AllTables'
  BY <1>7, <1>8, <1>9, StoreOf, StoreStep
<1>11. WiresTyped' /\ HistoryTyped' /\ NetTyped'
  BY DEF CreateObject, Goto, Phases, Inv, WiresTyped, HistoryTyped, NetTyped, wires
<1>12. QED
  BY <1>10, <1>11 DEF Inv

\* WriteSlot: the object keeps its id.
LEMMA WriteSlotStep ==
  ASSUME Inv, NEW h \in Hosts, NEW x \in Objects, WriteSlot(h, x)
  PROVE  Inv'
<1>1. PICK o \in Here(h) :
        /\ Open(o)
        /\ objects' = Changed(h, o,
             [o EXCEPT !.data = @ + 1, !.state = IF @ = "synced" THEN "modified" ELSE @])
  BY DEF WriteSlot
<1>2. PICK n : n = [o EXCEPT !.data = @ + 1, !.state = IF @ = "synced" THEN "modified" ELSE @]
  OBVIOUS
<1>3. o \in Copies
  BY StoreOf
<1>4. n \in Copies /\ Open(n) /\ n.id = o.id /\ n.name = o.name /\ n.peer = o.peer
  <2>1. PICK m : m = [o EXCEPT !.data = @ + 1]
    OBVIOUS
  <2>2. /\ m \in Copies /\ m.id = o.id /\ m.name = o.name /\ m.peer = o.peer
        /\ m.state = o.state
    BY <1>3, <2>1 DEF Copies
  <2>3. n = [m EXCEPT !.state = IF o.state = "synced" THEN "modified" ELSE o.state]
    BY <1>2, <2>1
  <2>4. QED
    BY <1>1, <2>2, <2>3 DEF Copies, Open
<1>5. PICK s \in Seq(Copies) : /\ objects' = [objects EXCEPT ![h] = s]
                               /\ Range(s) = (Here(h) \ {o}) \union {n}
  BY <1>1, <1>2, <1>4, ChangedIs
<1>6. Tables(h, Range(s), idMap[h], mapped)
  BY <1>1, <1>4, <1>5, StoreOf, TablesChange DEF Unmapped
<1>7. \A q \in Range(s) : IsLocal(q) \/ <<h, q.peer>> \in Links
  BY <1>4, <1>5, StoreOf DEF IsLocal
<1>8. idMap' = [idMap EXCEPT ![h] = idMap[h]] /\ mapped' = mapped
  BY DEF WriteSlot, Inv, StoreTyped
<1>9. StoreTyped' /\ AllTables'
  BY <1>5, <1>6, <1>7, <1>8, StoreOf, StoreStep
<1>10. WiresTyped' /\ HistoryTyped' /\ NetTyped'
  BY DEF WriteSlot, Goto, Phases, Inv, WiresTyped, HistoryTyped, NetTyped, wires, history
<1>11. QED
  BY <1>9, <1>10 DEF Inv

\* Close keeps what the tables say of an object, but the object is not open any more.
LEMMA ClosedIs ==
  ASSUME NEW o \in Copies
  PROVE  /\ Closed(o) \in Copies /\ ~Open(Closed(o))
         /\ Closed(o).id = o.id /\ Closed(o).name = o.name /\ Closed(o).peer = o.peer
<1>1. PICK n : n = Closed(o)
  OBVIOUS
<1>2. n = [o EXCEPT !.state = IF o.state = "created" THEN "zombie" ELSE "closed"]
  BY <1>1 DEF Closed
<1>3. n \in Copies /\ ~Open(n) /\ n.id = o.id /\ n.name = o.name /\ n.peer = o.peer
  BY <1>2 DEF Copies, Open
<1>4. QED
  BY <1>1, <1>3

\* CloseObject: an object of the host's own stays in _idMap until GNetSync.
LEMMA CloseObjectStep ==
  ASSUME Inv, NEW h \in Hosts, NEW x \in Objects, CloseObject(h, x)
  PROVE  Inv'
<1>1. PICK o \in Here(h) :
        /\ IsLocal(o)
        /\ objects' = Changed(h, o, Closed(o))
  BY DEF CloseObject
<1>2. PICK n : n = Closed(o)
  OBVIOUS
<1>3. o \in Copies
  BY StoreOf
<1>4. n \in Copies /\ n.id = o.id /\ n.name = o.name /\ n.peer = o.peer
  BY <1>2, <1>3, ClosedIs
<1>5. PICK s \in Seq(Copies) : /\ objects' = [objects EXCEPT ![h] = s]
                               /\ Range(s) = (Here(h) \ {o}) \union {n}
  BY <1>1, <1>2, <1>4, ChangedIs
<1>6. Tables(h, Range(s), idMap[h], mapped)
  BY <1>1, <1>4, <1>5, StoreOf, TablesChange DEF Unmapped, IsLocal
<1>7. \A q \in Range(s) : IsLocal(q) \/ <<h, q.peer>> \in Links
  BY <1>4, <1>5, StoreOf DEF IsLocal
<1>8. idMap' = [idMap EXCEPT ![h] = idMap[h]] /\ mapped' = mapped
  BY DEF CloseObject, Inv, StoreTyped
<1>9. StoreTyped' /\ AllTables'
  BY <1>5, <1>6, <1>7, <1>8, StoreOf, StoreStep
<1>10. WiresTyped' /\ HistoryTyped' /\ NetTyped'
  BY DEF CloseObject, Goto, Phases, Inv, WiresTyped, HistoryTyped, NetTyped, wires
<1>11. QED
  BY <1>9, <1>10 DEF Inv

\* SendMessage: the arrays of the peer have an id of the object's for it.
LEMMA SendMessageStep ==
  ASSUME Inv, NEW h \in Hosts, NEW x \in Objects, SendMessage(h, x)
  PROVE  Inv'
<1>1. PICK o \in Here(h) : /\ ~IsLocal(o)
                           /\ \E pair \in mapped[<<h, o.peer>>] :
                                net' = Sent(h, {o.peer}, <<Msg("message", pair[2], x, 0)>>)
  BY DEF SendMessage
<1>2. mapped[<<h, o.peer>>] \subseteq Ids \X Ids
  BY <1>1, StoreOf
<1>3. PICK r \in Ids : net' = Sent(h, {o.peer}, <<Msg("message", r, x, 0)>>)
  BY <1>1, <1>2
<1>4. PICK msg \in GoodMsgs : msg = Msg("message", r, x, 0)
  BY GoodMsg
<1>5. <<msg>> \in Seq(GoodMsgs)
  OBVIOUS
<1>6. NetTyped'
  BY <1>3, <1>4, <1>5, SentTyped DEF NetTyped, Inv
<1>7. StoreTyped' /\ AllTables'
  BY StoreKept DEF SendMessage
<1>8. WiresTyped' /\ HistoryTyped'
  BY DEF SendMessage, Goto, Phases, Inv, WiresTyped, HistoryTyped, wires
<1>9. QED
  BY <1>6, <1>7, <1>8 DEF Inv

\* ConnectTo: the peer is told of objects that are well formed.
LEMMA ConnectToStep ==
  ASSUME Inv, NEW c \in Hosts, ConnectTo(c)
  PROVE  Inv'
<1>1. c \in Clients /\ c # Server /\ Server \in Hosts
  BY GameNetAssumption DEF ConnectTo, Hosts
<1>2. <<c, Server>> \in Links /\ <<Server, c>> \in Links
  BY <1>1 DEF Links, Hosts
<1>3. Connect \in GoodMsgs
  BY GameNetAssumption DEF Connect, Msg, GoodMsgs, Messages
<1>4. PICK told \in Seq(GoodMsgs) : told = CreatedMsgs(ToTell(c))
  BY ToldTyped
<1>5. <<Connect>> \o told \in Seq(GoodMsgs)
  BY <1>3
<1>6. net' = [net EXCEPT ![<<c, Server>>] = <<Connect>> \o told]
  BY <1>4 DEF ConnectTo
<1>7. NetTyped'
  BY <1>5, <1>6 DEF NetTyped, Inv
<1>8. StoreTyped' /\ AllTables'
  BY StoreKept DEF ConnectTo
<1>9. WiresTyped'
  BY <1>1, <1>2 DEF ConnectTo, Goto, Phases, Inv, WiresTyped
<1>10. HistoryTyped'
  BY <1>1, UntoldTyped DEF ConnectTo, Inv, HistoryTyped
<1>11. QED
  BY <1>7, <1>8, <1>9, <1>10 DEF Inv

\* The objects after the loop of GNetSync.
LEMMA SyncedIs ==
  ASSUME Inv, NEW h \in Hosts
  PROVE  /\ Synced(h) \in Seq(Copies)
         /\ Range(Synced(h)) = {AfterSync(o) : o \in Here(h) \ Zombies(h)}
<1>1. PICK S : S = Here(h) \ Zombies(h)
  OBVIOUS
<1>2. PICK stay \in Seq(Copies) : stay = Only(objects[h], S) /\ Range(stay) = S
  <2>1. /\ Only(objects[h], S) \in Seq(Copies)
        /\ Range(Only(objects[h], S)) = Here(h) \intersect S
    BY StoreOf, OnlyIs DEF Here
  <2>2. QED
    BY <1>1, <2>1
<1>3. PICK s : s = [i \in DOMAIN stay |-> AfterSync(stay[i])]
  OBVIOUS
<1>4. s = Synced(h)
  BY <1>1, <1>2, <1>3 DEF Synced
<1>5. DOMAIN stay = 1 .. Len(stay) /\ \A i \in 1 .. Len(stay) : stay[i] \in Copies
  OBVIOUS
<1>6. \A o \in Copies : AfterSync(o) \in Copies
  BY DEF Copies, AfterSync
<1>7. s \in Seq(Copies) /\ Len(s) = Len(stay)
  BY <1>3, <1>5, <1>6
<1>8. \A i \in 1 .. Len(stay) : s[i] = AfterSync(stay[i])
  BY <1>3, <1>5
<1>9. \A x : x \in Range(s) <=> \E o \in S : x = AfterSync(o)
  <2>1. \A x : x \in Range(s) <=> \E i \in 1 .. Len(stay) : AfterSync(stay[i]) = x
    BY <1>7, <1>8, RangeIs
  <2>2. \A o : o \in S <=> \E i \in 1 .. Len(stay) : stay[i] = o
    BY <1>2, RangeIs
  <2>3. QED
    BY <2>1, <2>2
<1>10. Range(s) = {AfterSync(o) : o \in S}
  BY <1>9
<1>11. QED
  BY <1>1, <1>4, <1>7, <1>10

\* Sync: the objects that have been closed leave the list, and the host's own leave _idMap.
LEMMA SyncStep ==
  ASSUME Inv, NEW h \in Hosts, Sync(h)
  PROVE  Inv'
<1>1. PICK here \in SUBSET Copies, ids \in [Ids -> Objects \union {None}] :
        here = Here(h) /\ ids = idMap[h] /\ Tables(h, here, ids, mapped)
  BY StoreOf
<1>2. PICK gone : gone = {o \in here : AfterSync(o).state = "zombie"} /\ gone = Zombies(h)
  BY <1>1 DEF Zombies
<1>3. PICK s \in Seq(Copies) : s = Synced(h) /\ Range(s) = {AfterSync(o) : o \in here \ gone}
  <2>1. /\ Synced(h) \in Seq(Copies)
        /\ Range(Synced(h)) = {AfterSync(o) : o \in here \ gone}
    BY <1>1, <1>2, SyncedIs
  <2>2. QED
    BY <2>1
<1>4. PICK row \in [Ids -> Objects \union {None}] :
        row = [i \in Ids |-> IF \E o \in gone : IsLocal(o) /\ o.id = i THEN None ELSE ids[i]]
  OBVIOUS
<1>5. Tables(h, Range(s), row, mapped)
  BY <1>1, <1>2, <1>3, <1>4, TablesSync
<1>6. \A o \in here : AfterSync(o).peer = o.peer
  BY DEF Copies, AfterSync
<1>7. \A o \in Range(s) : IsLocal(o) \/ <<h, o.peer>> \in Links
  BY <1>1, <1>3, <1>6, StoreOf DEF IsLocal
<1>8. objects' = [objects EXCEPT ![h] = s] /\ idMap' = [idMap EXCEPT ![h] = row] /\ mapped' = mapped
  BY <1>1, <1>2, <1>3, <1>4 DEF Sync
<1>9. StoreTyped' /\ AllTables'
  BY <1>5, <1>7, <1>8, StoreOf, StoreStep
<1>10. NetTyped'
  BY SyncTyped, SentTyped DEF Sync, NetTyped, Inv
<1>11. WiresTyped' /\ HistoryTyped'
  BY DEF Sync, Goto, Phases, Inv, WiresTyped, HistoryTyped, wires, history
<1>12. QED
  BY <1>9, <1>10, <1>11 DEF Inv

\* HandleConnect: as for the side that connects.
LEMMA HandleConnectStep ==
  ASSUME Inv, NEW h \in Hosts, NEW p \in Hosts, HandleConnect(h, p)
  PROVE  Inv'
<1>1. Comes(h, p, "connect")
  BY DEF HandleConnect
<1>2. /\ <<p, h>> \in Links /\ p # h /\ net[<<p, h>>] # <<>>
  BY <1>1, Event
<1>3. CASE Refused(h, {p})
  BY <1>3, RefusedKeeps
<1>4. CASE /\ peers' = [peers EXCEPT ![h] = @ \union {p}]
           /\ Handled(h, p, {p}, CreatedMsgs(ToTell(h)))
           /\ missed' = missed \union Untold(h, p)
           /\ UNCHANGED <<enetHost, live, store, phase, owner, asked, heard>>
  <2>1. NetTyped'
    BY <1>2, <1>4, ToldTyped, HandledTyped DEF Inv
  <2>2. StoreTyped' /\ AllTables'
    BY <1>4, StoreKept
  <2>3. WiresTyped'
    BY <1>4 DEF Inv, WiresTyped
  <2>4. HistoryTyped'
    BY <1>4, UntoldTyped DEF Inv, HistoryTyped
  <2>5. QED
    BY <2>1, <2>2, <2>3, <2>4 DEF Inv
<1>5. QED
  BY <1>3, <1>4 DEF HandleConnect

\* HandleMessage: an object of another host is mapped, so that the message is handed on.
LEMMA HandleMessageStep ==
  ASSUME Inv, NEW h \in Hosts, NEW p \in Hosts, HandleMessage(h, p)
  PROVE  Inv'
<1>1. Comes(h, p, "message")
  BY DEF HandleMessage
<1>2. PICK msg \in GoodMsgs : msg = Message(h, p) /\ msg.state = "message"
  BY <1>1, Event
<1>3. /\ <<p, h>> \in Links /\ p # h /\ net[<<p, h>>] # <<>>
  BY <1>1, Event
<1>4. msg.id \in Ids /\ msg.name \in Objects
  BY <1>2 DEF GoodMsgs
<1>5. PICK x \in Objects \union {None} : x = idMap[h][msg.id]
  BY <1>4, StoreOf
<1>6. PICK to : to = Object(h, msg.id).peer
  OBVIOUS
<1>7. PICK remote : remote = {pair[2] : pair \in {q \in mapped[<<h, to>>] : q[1] = msg.id}}
  OBVIOUS
<1>8. <<>> \in Seq(GoodMsgs)
  OBVIOUS
<1>9. CASE Handled(h, p, {}, <<>>) /\ UNCHANGED <<wires, store, phase, history>>
  <2>1. NetTyped'
    BY <1>3, <1>8, <1>9, HandledTyped DEF Inv
  <2>2. StoreTyped' /\ AllTables'
    BY <1>9, StoreKept
  <2>3. WiresTyped' /\ HistoryTyped'
    BY <1>9 DEF Inv, WiresTyped, HistoryTyped, wires, history
  <2>4. QED
    BY <2>1, <2>2, <2>3 DEF Inv
<1>10. CASE /\ x # None
            /\ Handled(h, p, {}, <<>>)
            /\ heard' = heard \union {<<msg.name, x>>}
            /\ UNCHANGED <<wires, store, phase, owner, missed, asked>>
  <2>1. NetTyped'
    BY <1>3, <1>8, <1>10, HandledTyped DEF Inv
  <2>2. StoreTyped' /\ AllTables'
    BY <1>10, StoreKept
  <2>3. WiresTyped' /\ HistoryTyped'
    BY <1>4, <1>5, <1>10 DEF Inv, WiresTyped, HistoryTyped, wires
  <2>4. QED
    BY <2>1, <2>2, <2>3 DEF Inv
<1>11. CASE x # None /\ to # None
  <2>1. PICK o \in Here(h) : o.id = msg.id /\ o.peer = to /\ ~Unmapped(o)
    BY <1>4, <1>5, <1>6, <1>11, ObjectAt
  <2>2. <<h, to>> \in Links /\ Open(o)
    BY <1>11, <2>1, StoreOf DEF IsLocal, Unmapped
  <2>3. mapped[<<h, to>>] \subseteq Ids \X Ids /\ to \in Hosts
    BY <2>2, StoreOf DEF Links
  <2>4. remote # {}
    <3>1. PICK pair \in mapped[<<h, to>>] : pair[1] = o.id
      BY <2>1, <2>2, <2>3, StoreOf DEF Tables, Arrays
    <3>2. QED
      BY <1>7, <2>1, <3>1
  <2>5. remote \subseteq Ids
    BY <1>7, <2>3
  <2>6. PICK r \in Ids : r = CHOOSE k \in remote : TRUE
    BY <2>4, <2>5
  <2>7. PICK new : new = [msg EXCEPT !.id = r]
    OBVIOUS
  <2>8. new \in GoodMsgs
    BY <1>4, <2>7, RenamedGood
  <2>9. Refused(h, {to}) \/ (/\ Handled(h, p, {to}, <<new>>)
                             /\ UNCHANGED <<wires, store, phase, history>>)
    BY <1>2, <1>5, <1>6, <1>7, <1>11, <2>4, <2>6, <2>7 DEF HandleMessage
  <2>10. CASE Refused(h, {to})
    BY <2>10, RefusedKeeps
  <2>11. CASE Handled(h, p, {to}, <<new>>) /\ UNCHANGED <<wires, store, phase, history>>
    <3>1. <<new>> \in Seq(GoodMsgs)
      BY <2>8
    <3>2. NetTyped'
      BY <1>3, <2>11, <3>1, HandledTyped DEF Inv
    <3>3. StoreTyped' /\ AllTables'
      BY <2>11, StoreKept
    <3>4. WiresTyped' /\ HistoryTyped'
      BY <2>11 DEF Inv, WiresTyped, HistoryTyped, wires, history
    <3>5. QED
      BY <3>2, <3>3, <3>4 DEF Inv
  <2>12. QED
    BY <2>9, <2>10, <2>11
<1>12. QED
  BY <1>2, <1>5, <1>6, <1>9, <1>10, <1>11 DEF HandleMessage

\* HandleCreated: neither array of the peer has the ids of the object.
LEMMA HandleCreatedStep ==
  ASSUME Inv, NEW h \in Hosts, NEW p \in Hosts, HandleCreated(h, p)
  PROVE  Inv'
<1>1. Comes(h, p, "created")
  BY DEF HandleCreated
<1>2. PICK msg \in GoodMsgs : msg = Message(h, p) /\ msg.state = "created"
  BY <1>1, Event
<1>3. /\ <<p, h>> \in Links /\ <<h, p>> \in Links /\ p # h /\ net[<<p, h>>] # <<>>
  BY <1>1, Event
<1>4. msg.id \in Ids /\ msg.name \in Objects /\ msg.data \in Nat
  BY <1>2 DEF GoodMsgs, Messages
<1>5. PICK here \in SUBSET Copies, ids \in [Ids -> Objects \union {None}],
           maps \in [Links -> SUBSET (Ids \X Ids)] :
        here = Here(h) /\ ids = idMap[h] /\ maps = mapped /\ Tables(h, here, ids, maps)
  BY StoreOf
<1>6. CASE LocalIds(h, p) # {}
  BY <1>6, FailKeeps DEF HandleCreated, Phases
<1>7. CASE FreeIds(h) = {} /\ LocalIds(h, p) = {}
  BY <1>7, FailKeeps DEF HandleCreated, Phases
<1>8. CASE Refused(h, Others(h, p))
  BY <1>8, RefusedKeeps
<1>9. CASE LocalIds(h, p) = {} /\ FreeIds(h) # {} /\ ~Refused(h, Others(h, p))
  <2>1. PICK i \in Ids : i = AllocId(h) /\ ids[i] = None
    BY <1>5, <1>9, AllocIdIs
  <2>2. \A pair \in maps[<<h, p>>] : pair[1] # i /\ pair[2] # msg.id
    <3>1. ASSUME NEW pair \in maps[<<h, p>>], pair[1] = i PROVE FALSE
      <4>1. PICK o \in here : o.id = i /\ Open(o)
        <5>1. Arrays(here, p, maps[<<h, p>>])
          BY <1>3, <1>5 DEF Tables
        <5>2. QED
          BY <3>1, <5>1 DEF Arrays
      <4>2. ids[i] = o.name /\ o.name \in Objects
        BY <1>5, <4>1, GoodCopy DEF Tables, Row, Unmapped
      <4>3. QED
        BY <2>1, <4>2, GameNetAssumption
    <3>2. QED
      BY <1>2, <1>5, <1>9, <3>1 DEF LocalIds
  <2>3. /\ idMap' = [idMap EXCEPT ![h][i] = msg.name]
        /\ mapped' = [mapped EXCEPT ![<<h, p>>] = @ \union {<<i, msg.id>>}]
        /\ objects' = [objects EXCEPT ![h] = Append(@,
             [name |-> msg.name, id |-> i, state |-> "created", peer |-> p, data |-> msg.data])]
        /\ Handled(h, p, Others(h, p), <<[msg EXCEPT !.id = i]>>)
        /\ UNCHANGED <<wires, phase, history>>
    BY <1>2, <1>5, <1>9, <2>1, <2>2 DEF HandleCreated
  <2>4. PICK o : o = [name |-> msg.name, id |-> i, state |-> "created", peer |-> p,
                      data |-> msg.data]
    OBVIOUS
  <2>5. o \in Copies /\ o.peer = p /\ Open(o) /\ o.id = i /\ o.name = msg.name
    BY <1>4, <2>4 DEF Copies, Open
  <2>6. PICK old \in Seq(Copies) : old = objects[h] /\ Range(old) = here
    BY <1>5, StoreOf DEF Here
  <2>7. PICK s \in Seq(Copies) : s = Append(old, o) /\ Range(s) = here \union {o}
    <3>1. Append(old, o) \in Seq(Copies) /\ Range(Append(old, o)) = Range(old) \union {o}
      BY <2>5, AppendRange
    <3>2. QED
      BY <2>6, <3>1
  <2>8. PICK row \in [Ids -> Objects \union {None}] : row = [ids EXCEPT ![o.id] = o.name]
    BY <1>4, <2>5
  <2>9. PICK new \in [Links -> SUBSET (Ids \X Ids)] :
          /\ new = [maps EXCEPT ![<<h, p>>] = @ \union {<<o.id, msg.id>>}]
          /\ \A l \in Links : l[1] # h => new[l] = maps[l]
    <3>1. PICK new : new = [maps EXCEPT ![<<h, p>>] = @ \union {<<o.id, msg.id>>}]
      OBVIOUS
    <3>2. maps[<<h, p>>] \union {<<o.id, msg.id>>} \in SUBSET (Ids \X Ids)
      BY <1>3, <1>4, <2>5
    <3>3. new \in [Links -> SUBSET (Ids \X Ids)]
      BY <3>1, <3>2
    <3>4. \A l \in Links : l[1] # h => l # <<h, p>>
      OBVIOUS
    <3>5. \A l \in Links : l[1] # h => new[l] = maps[l]
      BY <3>1, <3>4
    <3>6. QED
      BY <3>1, <3>3, <3>5
  <2>10. Tables(h, here \union {o}, row, new)
    <3>1. PICK r \in Ids : r = msg.id
      BY <1>4
    <3>2. \A pair \in maps[<<h, p>>] : pair[1] # o.id /\ pair[2] # r
      BY <2>2, <2>5, <3>1
    <3>3. ids[o.id] = None
      BY <2>1, <2>5
    <3>4. Tables(h, here \union {o}, [ids EXCEPT ![o.id] = o.name],
                 [maps EXCEPT ![<<h, p>>] = @ \union {<<o.id, r>>}])
      BY <1>3, <1>5, <2>5, <3>2, <3>3, TablesReceive
    <3>5. QED
      BY <2>8, <2>9, <3>1, <3>4
  <2>11. \A q \in Range(s) : IsLocal(q) \/ <<h, q.peer>> \in Links
    BY <1>3, <1>5, <2>5, <2>7, StoreOf
  <2>12. /\ objects' = [objects EXCEPT ![h] = s]
         /\ idMap' = [idMap EXCEPT ![h] = row]
         /\ mapped' = new
    BY <1>5, <2>3, <2>4, <2>5, <2>6, <2>7, <2>8, <2>9
  <2>13. StoreTyped' /\ AllTables'
    <3>1. Tables(h, Range(s), row, new)
      BY <2>7, <2>10
    <3>2. \A l \in Links : l[1] # h => new[l] = mapped[l]
      BY <1>5, <2>9
    <3>3. QED
      BY <2>11, <2>12, <3>1, <3>2, StoreStep
  <2>14. NetTyped'
    <3>1. PICK sent : sent = [msg EXCEPT !.id = i]
      OBVIOUS
    <3>2. sent \in GoodMsgs
      BY <1>4, <3>1, RenamedGood
    <3>3. <<sent>> \in Seq(GoodMsgs)
      BY <3>2
    <3>4. QED
      BY <1>3, <2>3, <3>1, <3>3, HandledTyped DEF Inv
  <2>15. WiresTyped' /\ HistoryTyped'
    BY <2>3 DEF Inv, WiresTyped, HistoryTyped, wires, history
  <2>16. QED
    BY <2>13, <2>14, <2>15 DEF Inv
<1>10. QED
  BY <1>6, <1>7, <1>8, <1>9

\* An object of p's is updated by a message.
LEMMA UpdatedIs ==
  ASSUME Inv, NEW h \in Hosts, NEW p \in Hosts, <<h, p>> \in Links, NEW i \in LocalIds(h, p),
         NEW msg \in GoodMsgs, msg.state \in {"modified", "closed"}
  PROVE  \E o \in Here(h), n \in Copies, s \in Seq(Copies) :
           /\ i \in Ids /\ o.id = i /\ o.peer = p /\ Open(o)
           /\ n.id = i /\ n.name = o.name /\ n.peer = p /\ n.state = msg.state
           /\ Updated(h, i, msg) = [objects EXCEPT ![h] = s]
           /\ Range(s) = (Here(h) \ {o}) \union {n}
<1>1. PICK o \in Here(h) : i \in Ids /\ o.id = i /\ o = Object(h, i) /\ o.peer = p /\ Open(o)
  BY ObjectOf
<1>2. o \in Copies /\ msg.data \in Nat
  BY StoreOf DEF GoodMsgs, Messages
<1>3. PICK d \in Nat : d = IF msg.data = 0 THEN o.data ELSE msg.data
  BY <1>2, GoodCopy
<1>4. PICK m : m = [o EXCEPT !.state = msg.state]
  OBVIOUS
<1>5. m \in Copies /\ m.id = o.id /\ m.name = o.name /\ m.peer = o.peer /\ m.state = msg.state
  BY <1>2, <1>4 DEF Copies
<1>6. PICK n : n = [m EXCEPT !.data = d]
  OBVIOUS
<1>7. n \in Copies /\ n.id = o.id /\ n.name = o.name /\ n.peer = o.peer /\ n.state = msg.state
  BY <1>3, <1>5, <1>6 DEF Copies
<1>8. n = [o EXCEPT !.state = msg.state, !.data = IF msg.data = 0 THEN @ ELSE msg.data]
  BY <1>3, <1>4, <1>6
<1>9. Updated(h, i, msg) = Changed(h, o, n)
  BY <1>1, <1>8 DEF Updated
<1>10. QED
  BY <1>1, <1>7, <1>9, ChangedIs

\* HandleModified: the object that is mapped is open and the peer's.
LEMMA HandleModifiedStep ==
  ASSUME Inv, NEW h \in Hosts, NEW p \in Hosts, HandleModified(h, p)
  PROVE  Inv'
<1>1. Comes(h, p, "modified")
  BY DEF HandleModified
<1>2. PICK msg \in GoodMsgs : msg = Message(h, p) /\ msg.state = "modified"
  BY <1>1, Event
<1>3. /\ <<p, h>> \in Links /\ <<h, p>> \in Links /\ p # h /\ net[<<p, h>>] # <<>>
  BY <1>1, Event
<1>4. msg.name \in Objects
  BY <1>2 DEF GoodMsgs
<1>5. CASE LocalIds(h, p) = {}
  BY <1>5, FailKeeps DEF HandleModified, Phases
<1>6. CASE Refused(h, Others(h, p))
  BY <1>6, RefusedKeeps
<1>7. ASSUME NEW i \in LocalIds(h, p),
             Handled(h, p, Others(h, p), <<[msg EXCEPT !.id = i]>>),
             objects' = Updated(h, i, msg),
             UNCHANGED <<wires, idMap, mapped, phase, history>>
      PROVE  Inv'
  <2>1. PICK o \in Here(h), n \in Copies, s \in Seq(Copies) :
           /\ i \in Ids /\ o.id = i /\ o.peer = p /\ Open(o)
           /\ n.id = i /\ n.name = o.name /\ n.peer = p /\ n.state = "modified"
           /\ objects' = [objects EXCEPT ![h] = s]
           /\ Range(s) = (Here(h) \ {o}) \union {n}
    BY <1>2, <1>3, <1>7, UpdatedIs
  <2>2. ~Unmapped(o) /\ ~Unmapped(n)
    BY <2>1 DEF Unmapped, Open
  <2>3. Tables(h, Range(s), idMap[h], mapped)
    BY <2>1, <2>2, StoreOf, TablesChange
  <2>4. \A q \in Range(s) : IsLocal(q) \/ <<h, q.peer>> \in Links
    BY <1>3, <2>1, StoreOf
  <2>5. idMap' = [idMap EXCEPT ![h] = idMap[h]] /\ mapped' = mapped
    BY <1>7 DEF Inv, StoreTyped
  <2>6. StoreTyped' /\ AllTables'
    BY <2>1, <2>3, <2>4, <2>5, StoreOf, StoreStep
  <2>7. <<[msg EXCEPT !.id = i]>> \in Seq(GoodMsgs)
    BY <1>4, <2>1, RenamedGood
  <2>8. NetTyped'
    BY <1>3, <1>7, <2>7, HandledTyped DEF Inv
  <2>9. WiresTyped' /\ HistoryTyped'
    BY <1>7 DEF Inv, WiresTyped, HistoryTyped, wires, history
  <2>10. QED
    BY <2>6, <2>8, <2>9 DEF Inv
<1>8. QED
  BY <1>2, <1>5, <1>6, <1>7 DEF HandleModified

\* HandleClosed: the object leaves _idMap and both arrays.
LEMMA HandleClosedStep ==
  ASSUME Inv, NEW h \in Hosts, NEW p \in Hosts, HandleClosed(h, p)
  PROVE  Inv'
<1>1. Comes(h, p, "closed")
  BY DEF HandleClosed
<1>2. PICK msg \in GoodMsgs : msg = Message(h, p) /\ msg.state = "closed"
  BY <1>1, Event
<1>3. /\ <<p, h>> \in Links /\ <<h, p>> \in Links /\ p # h /\ net[<<p, h>>] # <<>>
  BY <1>1, Event
<1>4. msg.name \in Objects
  BY <1>2 DEF GoodMsgs
<1>5. CASE LocalIds(h, p) = {}
  BY <1>5, FailKeeps DEF HandleClosed, Phases
<1>6. CASE Refused(h, Others(h, p))
  BY <1>6, RefusedKeeps
<1>7. ASSUME NEW i \in LocalIds(h, p),
             mapped' = [mapped EXCEPT ![<<h, p>>] = {pair \in @ : pair[1] # i}],
             idMap' = [idMap EXCEPT ![h][i] = None],
             Handled(h, p, Others(h, p), <<[msg EXCEPT !.id = i]>>),
             objects' = Updated(h, i, msg),
             UNCHANGED <<wires, phase, history>>
      PROVE  Inv'
  <2>1. PICK o \in Here(h), n \in Copies, s \in Seq(Copies) :
           /\ i \in Ids /\ o.id = i /\ o.peer = p /\ Open(o)
           /\ n.id = i /\ n.name = o.name /\ n.peer = p /\ n.state = "closed"
           /\ objects' = [objects EXCEPT ![h] = s]
           /\ Range(s) = (Here(h) \ {o}) \union {n}
    BY <1>2, <1>3, <1>7, UpdatedIs
  <2>2. Unmapped(n)
    BY <2>1, GameNetAssumption DEF Unmapped, Open, IsLocal, Hosts
  <2>3. PICK here \in SUBSET Copies, ids \in [Ids -> Objects \union {None}],
             maps \in [Links -> SUBSET (Ids \X Ids)] :
          here = Here(h) /\ ids = idMap[h] /\ maps = mapped /\ Tables(h, here, ids, maps)
    BY StoreOf
  <2>4. PICK row \in [Ids -> Objects \union {None}] : row = [ids EXCEPT ![o.id] = None]
    OBVIOUS
  <2>5. PICK new \in [Links -> SUBSET (Ids \X Ids)] :
          /\ new = [maps EXCEPT ![<<h, p>>] = {pair \in @ : pair[1] # o.id}]
          /\ \A l \in Links : l[1] # h => new[l] = maps[l]
    <3>1. PICK new : new = [maps EXCEPT ![<<h, p>>] = {pair \in @ : pair[1] # o.id}]
      OBVIOUS
    <3>2. {pair \in maps[<<h, p>>] : pair[1] # o.id} \in SUBSET (Ids \X Ids)
      BY <1>3
    <3>3. new \in [Links -> SUBSET (Ids \X Ids)]
      BY <3>1, <3>2
    <3>4. \A l \in Links : l[1] # h => l # <<h, p>>
      OBVIOUS
    <3>5. \A l \in Links : l[1] # h => new[l] = maps[l]
      BY <3>1, <3>4
    <3>6. QED
      BY <3>1, <3>3, <3>5
  <2>6. Tables(h, (here \ {o}) \union {n}, row, new)
    <3>1. o \in here /\ o.peer = p /\ Open(o) /\ n.peer = p
      BY <2>1, <2>3
    <3>2. row[o.id] = None /\ \A k \in Ids : k # o.id => row[k] = ids[k]
      BY <2>1, <2>4
    <3>3. \A q \in Hosts : q # p /\ <<h, q>> \in Links => new[<<h, q>>] = maps[<<h, q>>]
      <4>1. \A q \in Hosts : q # p => <<h, q>> # <<h, p>>
        OBVIOUS
      <4>2. QED
        BY <2>5, <4>1
    <3>4. \A pair : pair \in new[<<h, p>>] <=> pair \in maps[<<h, p>>] /\ pair[1] # o.id
      BY <1>3, <2>5
    <3>5. QED
      BY <1>3, <2>2, <2>3, <3>1, <3>2, <3>3, <3>4, TablesClose, SMTT(30)
  <2>7. \A q \in Range(s) : IsLocal(q) \/ <<h, q.peer>> \in Links
    BY <1>3, <2>1, StoreOf
  <2>8. idMap' = [idMap EXCEPT ![h] = row] /\ mapped' = new
    BY <1>7, <2>1, <2>3, <2>4, <2>5
  <2>9. StoreTyped' /\ AllTables'
    <3>1. Tables(h, Range(s), row, new)
      BY <2>1, <2>3, <2>6
    <3>2. \A l \in Links : l[1] # h => new[l] = mapped[l]
      BY <2>3, <2>5
    <3>3. QED
      BY <2>1, <2>7, <2>8, <3>1, <3>2, StoreStep
  <2>10. <<[msg EXCEPT !.id = i]>> \in Seq(GoodMsgs)
    BY <1>4, <2>1, RenamedGood
  <2>11. NetTyped'
    BY <1>3, <1>7, <2>10, HandledTyped DEF Inv
  <2>12. WiresTyped' /\ HistoryTyped'
    BY <1>7 DEF Inv, WiresTyped, HistoryTyped, wires, history
  <2>13. QED
    BY <2>9, <2>11, <2>12 DEF Inv
<1>8. QED
  BY <1>2, <1>5, <1>6, <1>7 DEF HandleClosed

\* The objects that p has told h of.
LEMMA TheirsIs ==
  ASSUME Inv, NEW h \in Hosts, NEW p
  PROVE  /\ Theirs(h, p) \in Seq(Copies)
         /\ \A o : o \in Range(Theirs(h, p)) <=> o \in Here(h) /\ o.peer = p
<1>1. PICK S : S = {o \in Here(h) : o.peer = p}
  OBVIOUS
<1>2. /\ Only(objects[h], S) \in Seq(Copies)
      /\ Range(Only(objects[h], S)) = Here(h) \intersect S
  BY StoreOf, OnlyIs DEF Here
<1>3. QED
  BY <1>1, <1>2 DEF Theirs

\* What the others are told of them.
LEMMA ClosedTyped ==
  ASSUME Inv, NEW h \in Hosts, NEW p
  PROVE  ClosedMsgs(Theirs(h, p)) \in Seq(GoodMsgs)
<1>1. PICK s \in Seq(Copies) : s = Theirs(h, p)
  BY TheirsIs
<1>2. DOMAIN s = 1 .. Len(s) /\ \A i \in 1 .. Len(s) : s[i] \in Copies
  OBVIOUS
<1>3. \A i \in 1 .. Len(s) : ClosedMsg(s[i]) \in GoodMsgs
  BY <1>2, GoodCopy, GoodMsg DEF ClosedMsg
<1>4. QED
  BY <1>1, <1>2, <1>3 DEF ClosedMsgs

\* HandleDisconnect: all objects of the peer leave _idMap, and its arrays with them.
LEMMA HandleDisconnectStep ==
  ASSUME Inv, NEW h \in Hosts, NEW p \in Hosts, HandleDisconnect(h, p)
  PROVE  Inv'
<1>1. Comes(h, p, "disconnect")
  BY DEF HandleDisconnect
<1>2. /\ <<p, h>> \in Links /\ <<h, p>> \in Links /\ p # h /\ net[<<p, h>>] # <<>>
  BY <1>1, Event
<1>3. PICK theirs : theirs = Range(Theirs(h, p))
  OBVIOUS
<1>4. \A o : o \in theirs <=> o \in Here(h) /\ o.peer = p
  BY <1>3, TheirsIs
<1>5. CASE Refused(h, Others(h, p))
  BY <1>5, RefusedKeeps
<1>6. CASE Fail(h, "unmap")
  BY <1>6, FailKeeps DEF Phases
<1>7. CASE /\ \A o \in theirs : Open(o)
           /\ Handled(h, p, Others(h, p), ClosedMsgs(Theirs(h, p)))
           /\ mapped' = [mapped EXCEPT ![<<h, p>>] = {}]
           /\ idMap' = [idMap EXCEPT ![h] = [i \in Ids |->
                IF \E o \in theirs : o.id = i THEN None ELSE @[i]]]
           /\ objects' = [objects EXCEPT ![h] = [i \in DOMAIN @ |->
                IF @[i].peer = p THEN Closed(@[i]) ELSE @[i]]]
           /\ peers' = [peers EXCEPT ![h] = @ \ {p}]
           /\ UNCHANGED <<enetHost, live, phase, history>>
  <2>1. PICK here \in SUBSET Copies, ids \in [Ids -> Objects \union {None}],
             maps \in [Links -> SUBSET (Ids \X Ids)] :
          here = Here(h) /\ ids = idMap[h] /\ maps = mapped /\ Tables(h, here, ids, maps)
    BY StoreOf
  <2>2. PICK old \in Seq(Copies) : old = objects[h] /\ Range(old) = here
    BY <2>1, StoreOf DEF Here
  <2>3. \A o \in here : o.peer = p => Open(o)
    BY <1>4, <1>7, <2>1
  <2>4. \A o \in Copies : Closed(o) \in Copies /\ Closed(o).peer = o.peer /\ ~Open(Closed(o))
    BY ClosedIs
  <2>5. PICK s : s = [i \in DOMAIN old |-> IF old[i].peer = p THEN Closed(old[i]) ELSE old[i]]
    OBVIOUS
  <2>6. DOMAIN old = 1 .. Len(old) /\ \A i \in 1 .. Len(old) : old[i] \in Copies
    OBVIOUS
  <2>7. s \in Seq(Copies) /\ Len(s) = Len(old)
    BY <2>4, <2>5, <2>6
  <2>8. \A i \in 1 .. Len(old) : s[i] = IF old[i].peer = p THEN Closed(old[i]) ELSE old[i]
    BY <2>5, <2>6
  <2>9. \A x : x \in Range(s) <=> \E o \in here : x = IF o.peer = p THEN Closed(o) ELSE o
    <3>1. \A x : x \in Range(s) <=> \E i \in 1 .. Len(old) : s[i] = x
      BY <2>7, RangeIs
    <3>2. \A o : o \in here <=> \E i \in 1 .. Len(old) : old[i] = o
      BY <2>2, RangeIs
    <3>3. QED
      BY <2>8, <3>1, <3>2
  <2>10. /\ \A o \in Range(s) : o.peer = p => Unmapped(o)
         /\ \A o : o.peer # p => (o \in Range(s) <=> o \in here)
    <3>1. None # p
      BY GameNetAssumption DEF Hosts
    <3>2. QED
      BY <2>1, <2>4, <2>9, <3>1 DEF Unmapped, IsLocal
  <2>11. PICK row \in [Ids -> Objects \union {None}] :
           row = [i \in Ids |-> IF \E o \in theirs : o.id = i THEN None ELSE ids[i]]
    OBVIOUS
  <2>12. PICK new \in [Links -> SUBSET (Ids \X Ids)] :
           /\ new = [maps EXCEPT ![<<h, p>>] = {}]
           /\ \A l \in Links : l # <<h, p>> => new[l] = maps[l]
    <3>1. PICK new : new = [maps EXCEPT ![<<h, p>>] = {}]
      OBVIOUS
    <3>2. new \in [Links -> SUBSET (Ids \X Ids)]
      BY <3>1
    <3>3. \A l \in Links : l # <<h, p>> => new[l] = maps[l]
      BY <3>1
    <3>4. QED
      BY <3>1, <3>2, <3>3
  <2>13. Tables(h, Range(s), row, new)
    <3>1. \A i \in Ids : (\E o \in here : o.peer = p /\ o.id = i) => row[i] = None
      BY <1>4, <2>1, <2>11
    <3>2. \A i \in Ids : (\A o \in here : o.peer = p => o.id # i) => row[i] = ids[i]
      BY <1>4, <2>1, <2>11
    <3>3. PICK after : after = Range(s)
      OBVIOUS
    <3>4. /\ \A o \in after : o.peer = p => Unmapped(o)
          /\ \A o : o.peer # p => (o \in after <=> o \in here)
      BY <2>10, <3>3
    <3>5. \A q \in Hosts : q # p /\ <<h, q>> \in Links => new[<<h, q>>] = maps[<<h, q>>]
      <4>1. \A q \in Hosts : q # p => <<h, q>> # <<h, p>>
        OBVIOUS
      <4>2. QED
        BY <2>12, <4>1
    <3>6. new[<<h, p>>] = {}
      BY <1>2, <2>12
    <3>7. Tables(h, after, row, new)
      BY <1>2, <2>1, <2>3, <3>1, <3>2, <3>4, <3>5, <3>6, TablesLose, SMTT(30)
    <3>8. QED
      BY <3>3, <3>7
  <2>14. \A q \in Range(s) : IsLocal(q) \/ <<h, q.peer>> \in Links
    BY <1>2, <2>1, <2>10, StoreOf
  <2>15. objects' = [objects EXCEPT ![h] = s]
    BY <1>7, <2>2, <2>5
  <2>16. idMap' = [idMap EXCEPT ![h] = row] /\ mapped' = new
    BY <1>7, <2>1, <2>11, <2>12
  <2>17. StoreTyped' /\ AllTables'
    <3>1. \A l \in Links : l[1] # h => l # <<h, p>>
      OBVIOUS
    <3>2. \A l \in Links : l[1] # h => new[l] = mapped[l]
      BY <2>1, <2>12, <3>1
    <3>3. QED
      BY <2>7, <2>13, <2>14, <2>15, <2>16, <3>2, StoreStep
  <2>18. NetTyped'
    BY <1>2, <1>7, ClosedTyped, HandledTyped DEF Inv
  <2>19. WiresTyped' /\ HistoryTyped'
    BY <1>7 DEF Inv, WiresTyped, HistoryTyped, history
  <2>20. QED
    BY <2>17, <2>18, <2>19 DEF Inv
<1>8. QED
  BY <1>3, <1>5, <1>6, <1>7 DEF HandleDisconnect

\* What gets through when a connection ends.
LEMMA CutTyped ==
  ASSUME Inv, NEW l \in Links, NEW msgs \in CutShort(l)
  PROVE  msgs \in Seq(GoodMsgs)
<1>1. PICK sent \in Seq(GoodMsgs) : sent = net[l]
  BY DEF Inv, NetTyped
<1>2. PICK T : T = {Connect}
  OBVIOUS
<1>3. Only(sent, T) \in Seq(GoodMsgs)
  BY OnlyIs
<1>4. Disconnect \in GoodMsgs
  BY GameNetAssumption DEF Disconnect, Msg, GoodMsgs, Messages
<1>5. PICK got \in Seq(GoodMsgs) : msgs = Append(got, Disconnect)
  BY <1>1, <1>2, <1>3 DEF CutShort
<1>6. QED
  BY <1>4, <1>5

\* CloseHost: what is on its way is cut short.
LEMMA CloseHostStep ==
  ASSUME Inv, NEW h \in Hosts, CloseHost(h)
  PROVE  Inv'
<1>1. PICK out : out = {l \in live : l[1] = h}
  OBVIOUS
<1>2. PICK cut : /\ \A l \in out : cut[l] \in CutShort(l)
                 /\ net' = [l \in Links |-> IF l \in out THEN cut[l]
                                           ELSE IF l[2] = h THEN <<>> ELSE net[l]]
  BY <1>1 DEF CloseHost
<1>3. \A l \in out : cut[l] \in Seq(GoodMsgs)
  BY <1>1, <1>2, CutTyped DEF Inv, WiresTyped
<1>4. <<>> \in Seq(GoodMsgs)
  OBVIOUS
<1>5. NetTyped'
  BY <1>2, <1>3, <1>4 DEF Inv, NetTyped
<1>6. StoreTyped' /\ AllTables'
  BY StoreKept DEF CloseHost
<1>7. WiresTyped' /\ HistoryTyped'
  BY DEF CloseHost, Goto, Phases, Inv, WiresTyped, HistoryTyped, history
<1>8. QED
  BY <1>5, <1>6, <1>7 DEF Inv

\* LoseConnection: as for CloseHost, on both sides.
LEMMA LoseConnectionStep ==
  ASSUME Inv, NEW c \in Clients, LoseConnection(c)
  PROVE  Inv'
<1>1. <<c, Server>> \in Links /\ <<Server, c>> \in Links
  BY GameNetAssumption DEF Links, Hosts
<1>2. PICK up \in CutShort(<<c, Server>>), down \in CutShort(<<Server, c>>) :
        net' = [net EXCEPT ![<<c, Server>>] = up, ![<<Server, c>>] = down]
  BY DEF LoseConnection
<1>3. up \in Seq(GoodMsgs) /\ down \in Seq(GoodMsgs)
  BY <1>1, CutTyped
<1>4. NetTyped'
  BY <1>1, <1>2, <1>3 DEF Inv, NetTyped
<1>5. StoreTyped' /\ AllTables'
  BY StoreKept DEF LoseConnection
<1>6. WiresTyped' /\ HistoryTyped'
  BY DEF LoseConnection, Inv, WiresTyped, HistoryTyped, history
<1>7. QED
  BY <1>4, <1>5, <1>6 DEF Inv

\* Every step keeps the invariant.
LEMMA NextInv ==
  Inv /\ [Next]_vars => Inv'
<1> SUFFICES ASSUME Inv, [Next]_vars PROVE Inv'
  OBVIOUS
<1>1. CASE UNCHANGED vars
  <2>1. UNCHANGED <<wires, net, store, phase, history>>
    BY <1>1 DEF vars
  <2>2. StoreTyped' /\ AllTables'
    BY <2>1, StoreKept
  <2>3. WiresTyped' /\ HistoryTyped' /\ NetTyped'
    BY <2>1 DEF Inv, WiresTyped, HistoryTyped, NetTyped, wires, history
  <2>4. QED
    BY <2>2, <2>3 DEF Inv
<1>2. ASSUME NEW h \in Hosts, Program(h) PROVE Inv'
  BY <1>2, CreateObjectStep, WriteSlotStep, CloseObjectStep, SendMessageStep, ConnectToStep,
     CloseHostStep DEF Program
<1>3. ASSUME NEW h \in Hosts, Handle(h) PROVE Inv'
  BY <1>3, HandleConnectStep, HandleDisconnectStep, HandleMessageStep, HandleCreatedStep,
     HandleModifiedStep, HandleClosedStep DEF Handle
<1>4. QED
  BY <1>1, <1>2, <1>3, SyncStep, LoseConnectionStep DEF Next

\* The invariant holds in every state.
LEMMA Invariant ==
  Spec => []Inv
<1>1. Init => Inv
  BY InitInv
<1>2. Inv /\ [Next]_vars => Inv'
  BY NextInv
<1>3. QED
  BY <1>1, <1>2, PTL DEF Spec

-----------------------------------------------------------------------------
(* What follows from the invariant.                                        *)

\* It says more than the types of TypeOK,
LEMMA InvTypes ==
  Inv => TypeOK
<1> SUFFICES ASSUME Inv PROVE TypeOK
  OBVIOUS
<1>1. \A l \in Links : net[l] \in Seq(Messages)
  <2>1. \A l \in Links : net[l] \in Seq(GoodMsgs)
    BY DEF Inv, NetTyped
  <2>2. GoodMsgs \subseteq Messages
    BY DEF GoodMsgs
  <2>3. \A s \in Seq(GoodMsgs) : s \in Seq(Messages)
    BY <2>2
  <2>4. QED
    BY <2>1, <2>3
<1>2. phase \in [Hosts -> {"program", "sync", "closed"} \union Failures]
  BY DEF Inv, WiresTyped, Phases, Failures
<1>3. /\ \A h \in Hosts : objects[h] \in Seq(Copies)
      /\ idMap \in [Hosts -> [Ids -> Objects \union {None}]]
      /\ mapped \in [Links -> SUBSET (Ids \X Ids)]
  BY DEF Inv, StoreTyped
<1>4. QED
  BY <1>1, <1>2, <1>3 DEF TypeOK, Inv, WiresTyped, HistoryTyped

\* and more than TablesExact, which is about the hosts that run.
LEMMA InvTables ==
  Inv => TablesExact
<1> SUFFICES ASSUME Inv, NEW h \in Hosts, NEW known, known = {o \in Here(h) : ~Unmapped(o)}
    PROVE  /\ {<<o.id, o.name>> : o \in known} =
                {<<i, idMap[h][i]>> : i \in {j \in Ids : idMap[h][j] # None}}
           /\ \A p \in Hosts \ {h} : <<h, p>> \in Links =>
                /\ {pair[1] : pair \in mapped[<<h, p>>]} = {o.id : o \in {q \in known : q.peer = p}}
                /\ \A a, b \in mapped[<<h, p>>] : (a[1] = b[1]) = (a[2] = b[2])
  BY DEF TablesExact
<1>1. \A o : o \in known <=> o \in Here(h) /\ ~Unmapped(o)
  OBVIOUS
<1>2. \A o \in known : o.id \in Ids /\ o.name \in Objects /\ o.name # None
  BY <1>1, StoreOf, GoodCopy, GameNetAssumption
<1>3. Row(Here(h), idMap[h]) /\ \A p \in Hosts : <<h, p>> \in Links => Arrays(Here(h), p, mapped[<<h, p>>])
  BY StoreOf DEF Tables
<1>4. {<<o.id, o.name>> : o \in known} =
        {<<i, idMap[h][i]>> : i \in {j \in Ids : idMap[h][j] # None}}
  <2>1. \A o \in known : idMap[h][o.id] = o.name
    BY <1>1, <1>3 DEF Row
  <2>2. ASSUME NEW i \in Ids, idMap[h][i] # None
        PROVE  \E o \in known : o.id = i /\ o.name = idMap[h][i]
    <3>1. PICK o \in known : o.id = i
      BY <1>1, <1>3, <2>2 DEF Row
    <3>2. QED
      BY <2>1, <3>1
  <2>3. QED
    BY <1>2, <2>1, <2>2
<1>5. ASSUME NEW p \in Hosts, <<h, p>> \in Links
      PROVE  /\ {pair[1] : pair \in mapped[<<h, p>>]} = {o.id : o \in {q \in known : q.peer = p}}
             /\ \A a, b \in mapped[<<h, p>>] : (a[1] = b[1]) = (a[2] = b[2])
  <2>1. PICK pairs : pairs = mapped[<<h, p>>] /\ Arrays(Here(h), p, pairs)
    BY <1>3, <1>5
  <2>2. \A o \in known : o.peer = p <=> o.peer = p /\ Open(o)
    BY <1>1, GameNetAssumption DEF Unmapped, IsLocal, Hosts
  <2>3. ASSUME NEW pair \in pairs PROVE \E o \in known : o.peer = p /\ o.id = pair[1]
    BY <1>1, <2>1 DEF Arrays, Unmapped
  <2>4. ASSUME NEW o \in known, o.peer = p PROVE \E pair \in pairs : pair[1] = o.id
    BY <1>1, <2>1, <2>2, <2>4 DEF Arrays
  <2>5. {pair[1] : pair \in pairs} = {o.id : o \in {q \in known : q.peer = p}}
    BY <2>3, <2>4
  <2>6. \A a, b \in pairs : (a[1] = b[1]) = (a[2] = b[2])
    BY <2>1 DEF Arrays
  <2>7. QED
    BY <2>1, <2>5, <2>6
<1>6. QED
  BY <1>4, <1>5

(***************************************************************************)
(* The types of everything that the hosts of GNet keep, and of everything  *)
(* that is on its way between them (gnet.bmx).                             *)
(***************************************************************************)
THEOREM TypeCorrect ==
  Spec => []TypeOK
BY Invariant, InvTypes, PTL

(***************************************************************************)
(* _idMap, _localToRemote and _remoteToLocal of every host are exact in    *)
(* every state: in the midst of GNetSync too, and however often ids are    *)
(* used again, connections end and objects are closed on both sides.       *)
(***************************************************************************)
THEOREM TablesCorrect ==
  Spec => []TablesExact
BY Invariant, InvTables, PTL

(***************************************************************************)
(* Two assertions never fail: that of MapLocalId, that neither array has   *)
(* the ids of an object that is received, and that of SendMsg, that an     *)
(* object of another host, for which a message is handed on, is mapped.    *)
(***************************************************************************)
THEOREM MapsHold ==
  Spec => [](\A h \in Hosts : phase[h] \notin {"map", "message"})
<1>1. Inv => \A h \in Hosts : phase[h] \notin {"map", "message"}
  BY DEF Inv, WiresTyped, Phases
<1>2. QED
  BY <1>1, Invariant, PTL
=============================================================================
