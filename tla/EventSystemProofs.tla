--------------------------- MODULE EventSystemProofs ---------------------------
(***************************************************************************)
(* Proofs about EventSystem, for any hooks, priorities, events and sizes   *)
(* of the ring and of the counters: the lists of hooks, the ring, and the  *)
(* refinement of EventFifo.                                                *)
(***************************************************************************)
EXTENDS EventSystem, FiniteSetTheorems, WellFoundedInduction, TLAPS

-----------------------------------------------------------------------------
(* Numbers.                                                                *)

\* What induction comes down to: a set of natural numbers has a least element.
LEMMA LeastNatural ==
  ASSUME NEW T, T \subseteq Nat, T # {}
  PROVE  \E x \in T : \A y \in T : x <= y
<1> DEFINE R == {ss \in Nat \X Nat : ss[1] < ss[2]}
<1>1. IsWellFoundedOn(R, Nat)
  BY NatLessThanWellFounded DEF OpToRel
<1> HIDE DEF R
<1>2. PICK x \in T : \A y \in T : ~ (<<y, x>> \in R)
  BY <1>1, WFMin
<1>3. \A y \in T : ~ (y < x)
  BY <1>2 DEF R
<1>4. QED
  BY <1>3

\* Division with remainder.
LEMMA Division ==
  ASSUME NEW a \in Int, NEW n \in Nat \ {0}
  PROVE  /\ a \div n \in Int
         /\ a % n \in 0 .. n - 1
         /\ a = n * (a \div n) + (a % n)
OBVIOUS

\* The remainder is the only one.
LEMMA Remainder ==
  ASSUME NEW n \in Nat \ {0}, NEW k \in Int, NEW r \in 0 .. n - 1, NEW s \in 0 .. n - 1,
         r = n * k + s
  PROVE  r = s
<1>1. CASE k = 0
  BY <1>1
<1>2. CASE k >= 1
  <2>1. n * k >= n
    BY <1>2
  <2>2. QED
    BY <2>1
<1>3. CASE k <= -1
  <2>1. n * k <= -n
    BY <1>3
  <2>2. QED
    BY <2>1
<1>4. QED
  BY <1>1, <1>2, <1>3

\* Adding a multiple does not change the remainder.
LEMMA Congruent ==
  ASSUME NEW n \in Nat \ {0}, NEW a \in Int, NEW b \in Int, NEW k \in Int, a = n * k + b
  PROVE  a % n = b % n
<1>1. PICK p \in Int, r \in 0 .. n - 1 : a = n * p + r /\ r = a % n
  BY Division
<1>2. PICK q \in Int, s \in 0 .. n - 1 : b = n * q + s /\ s = b % n
  BY Division
<1>3. PICK j \in Int : j = k + q - p
  OBVIOUS
<1>4. n * j = n * k + n * q - n * p
  BY <1>3
<1>5. r = n * j + s
  <2>1. /\ n * k \in Int /\ n * q \in Int /\ n * p \in Int /\ n * j \in Int
        /\ r \in Int /\ s \in Int
    OBVIOUS
  <2>2. n * k + (n * q + s) = n * p + r
    BY <1>1, <1>2
  <2>3. QED
    BY <1>4, <2>1, <2>2
<1>6. r = s
  BY <1>5, Remainder
<1>7. QED
  BY <1>1, <1>2, <1>6

Capacity == 2 ^ Width

\* The counters wrap at a multiple of the number of slots.
LEMMA CapacityIs ==
  /\ Capacity \in Nat \ {0}
  /\ QueueSize \in Nat \ {0}
  /\ QueueSize < Capacity
  /\ \E k \in Int : Capacity = QueueSize * k
<1>1. /\ Capacity \in Nat \ {0} /\ QueueSize \in Nat \ {0} /\ QueueSize < Capacity
      /\ Capacity % QueueSize = 0
  BY SystemAssumption DEF Capacity
<1>2. Capacity = QueueSize * (Capacity \div QueueSize) + 0 /\ Capacity \div QueueSize \in Int
  BY <1>1, Division
<1>3. PICK k \in Int : k = Capacity \div QueueSize
  BY <1>2
<1>4. Capacity = QueueSize * k
  <2>1. QueueSize * k \in Int
    BY <1>1
  <2>2. QED
    BY <1>1, <1>2, <1>3, <2>1
<1>5. QED
  BY <1>1, <1>4

\* A number below the modulus is its own remainder.
LEMMA Small ==
  ASSUME NEW n \in Nat \ {0}, NEW r \in 0 .. n - 1
  PROVE  r % n = r
<1>1. r \in Int
  OBVIOUS
<1>2. PICK k \in Int, s \in 0 .. n - 1 : r = n * k + s /\ s = r % n
  BY <1>1, Division
<1>3. r = s
  BY <1>2, Remainder
<1>4. QED
  BY <1>2, <1>3

\* The remainder of a remainder, and of a sum with one.
LEMMA Nested ==
  ASSUME NEW n \in Nat \ {0}, NEW a \in Int, NEW b \in Int
  PROVE  /\ ((a % n) + b) % n = (a + b) % n
         /\ (b - (a % n)) % n = (b - a) % n
         /\ ((a % n) - b) % n = (a - b) % n
<1>1. PICK k \in Int, r \in 0 .. n - 1 : a = n * k + r /\ r = a % n
  BY Division
<1>2. n * k \in Int /\ n * (-k) = -(n * k)
  OBVIOUS
<1>3. (a + b) % n = (r + b) % n
  <2>1. a + b = n * k + (r + b)
    BY <1>1, <1>2
  <2>2. a + b \in Int /\ r + b \in Int /\ k \in Int
    OBVIOUS
  <2>3. QED
    BY <2>1, <2>2, Congruent
<1>4. (b - a) % n = (b - r) % n
  <2>1. b - a = n * (-k) + (b - r)
    BY <1>1, <1>2
  <2>2. b - a \in Int /\ b - r \in Int /\ -k \in Int
    OBVIOUS
  <2>3. QED
    BY <2>1, <2>2, Congruent
<1>5. (a - b) % n = (r - b) % n
  <2>1. a - b = n * k + (r - b)
    BY <1>1, <1>2
  <2>2. a - b \in Int /\ r - b \in Int /\ k \in Int
    OBVIOUS
  <2>3. QED
    BY <2>1, <2>2, Congruent
<1>6. QED
  BY <1>1, <1>3, <1>4, <1>5

\* A counter that wraps leads to the slot to which one would lead that does not.
LEMMA SlotOf ==
  ASSUME NEW a \in Int
  PROVE  (a % Capacity) % QueueSize = a % QueueSize
<1>1. PICK k \in Int : Capacity = QueueSize * k
  BY CapacityIs
<1>2. PICK d \in Int, r \in 0 .. Capacity - 1 : a = Capacity * d + r /\ r = a % Capacity
  BY Division, CapacityIs
<1>3. PICK j \in Int : j = k * d
  OBVIOUS
<1>4. Capacity * d = QueueSize * j
  BY <1>1, <1>3, CapacityIs
<1>5. a = QueueSize * j + r
  BY <1>2, <1>4
<1>6. r \in Int /\ QueueSize \in Nat \ {0}
  BY CapacityIs
<1>7. a % QueueSize = r % QueueSize
  BY <1>5, <1>6, Congruent
<1>8. QED
  BY <1>2, <1>7

\* So many numbers in a row lead to as many slots.
LEMMA SlotsApart ==
  ASSUME NEW a \in Int, NEW i \in Int, NEW j \in Int,
         i - j \in 0 .. QueueSize - 1, (a + i) % QueueSize = (a + j) % QueueSize
  PROVE  i = j
<1>1. QueueSize \in Nat \ {0}
  BY CapacityIs
<1>0. a + i \in Int /\ a + j \in Int
  OBVIOUS
<1>2. PICK p \in Int, r \in 0 .. QueueSize - 1 :
        a + i = QueueSize * p + r /\ r = (a + i) % QueueSize
  BY <1>0, <1>1, Division
<1>3. PICK q \in Int, s \in 0 .. QueueSize - 1 :
        a + j = QueueSize * q + s /\ s = (a + j) % QueueSize
  BY <1>0, <1>1, Division
<1>4. PICK k \in Int : k = p - q
  OBVIOUS
<1>5. QueueSize * k = QueueSize * p - QueueSize * q
  BY <1>1, <1>4
<1>6. QueueSize * p \in Int /\ QueueSize * q \in Int /\ QueueSize * k \in Int
  BY <1>1
<1>7. i - j = QueueSize * k + 0
  BY <1>1, <1>2, <1>3, <1>5, <1>6
<1>8. i - j = 0
  BY <1>1, <1>7, Remainder
<1>9. QED
  BY <1>8

-----------------------------------------------------------------------------
(* The counters of the ring, g for get and p for put.                      *)

Counters == 0 .. Capacity - 1

Count(g, p) == (p - g) % Capacity
SlotAt(g, i) == (g + i) % QueueSize

RingOf(g, p) == [i \in 1 .. Count(g, p) |-> SlotAt(g, i - 1)]

\* The distance between the counters leads from the one to the other.
LEMMA Distance ==
  ASSUME NEW g \in Counters, NEW p \in Counters
  PROVE  /\ Count(g, p) \in Counters
         /\ g = p <=> Count(g, p) = 0
         /\ p % QueueSize = SlotAt(g, Count(g, p))
<1>1. /\ Capacity \in Nat \ {0} /\ g \in Int /\ p \in Int /\ p - g \in Int
      /\ g \in 0 .. Capacity - 1 /\ p \in 0 .. Capacity - 1
  BY CapacityIs DEF Counters
<1>2. PICK c \in 0 .. Capacity - 1 : c = (p - g) % Capacity
  BY <1>1, Division
<1>3. (c + g) % Capacity = p
  <2>1. (((p - g) % Capacity) + g) % Capacity = ((p - g) + g) % Capacity
    BY <1>1, Nested
  <2>2. (p - g) + g = p
    BY <1>1
  <2>3. p % Capacity = p
    BY <1>1, Small
  <2>4. QED
    BY <1>2, <2>1, <2>2, <2>3
<1>4. g = p => c = 0
  <2>1. 0 % Capacity = 0
    BY <1>1, Small
  <2>2. g = p => p - g = 0
    BY <1>1
  <2>3. QED
    BY <1>2, <2>1, <2>2
<1>5. c = 0 => g = p
  <2>1. c = 0 => c + g = g
    BY <1>1
  <2>2. g % Capacity = g
    BY <1>1, Small
  <2>3. QED
    BY <1>3, <2>1, <2>2
<1>6. p % QueueSize = (g + c) % QueueSize
  <2>1. c + g \in Int /\ c + g = g + c
    BY <1>1
  <2>2. ((c + g) % Capacity) % QueueSize = (c + g) % QueueSize
    BY <2>1, SlotOf
  <2>3. QED
    BY <1>3, <2>1, <2>2
<1>7. QED
  BY <1>2, <1>4, <1>5, <1>6 DEF Count, SlotAt, Counters

\* Putting one in counts one up.
LEMMA PutOne ==
  ASSUME NEW g \in Counters, NEW p \in Counters, Count(g, p) < QueueSize
  PROVE  /\ (p + 1) % Capacity \in Counters
         /\ Count(g, (p + 1) % Capacity) = Count(g, p) + 1
<1>1. /\ Capacity \in Nat \ {0} /\ QueueSize \in Nat /\ QueueSize < Capacity
      /\ g \in Int /\ p \in Int /\ p - g \in Int /\ p + 1 \in Int
  BY CapacityIs DEF Counters
<1>2. (p + 1) % Capacity \in 0 .. Capacity - 1
  BY <1>1, Division
<1>3. PICK c \in 0 .. Capacity - 1 : c = (p - g) % Capacity
  BY <1>1, Division
<1>4. c < QueueSize
  BY <1>3 DEF Count
<1>5. (((p + 1) % Capacity) - g) % Capacity = ((p + 1) - g) % Capacity
  BY <1>1, Nested
<1>6. (((p - g) % Capacity) + 1) % Capacity = ((p - g) + 1) % Capacity
  <2>1. PICK one \in Int : one = 1
    OBVIOUS
  <2>2. (((p - g) % Capacity) + one) % Capacity = ((p - g) + one) % Capacity
    BY <1>1, Nested
  <2>3. QED
    BY <2>1, <2>2
<1>7. (p + 1) - g = (p - g) + 1
  BY <1>1
<1>8. c + 1 \in 0 .. Capacity - 1
  BY <1>1, <1>4
<1>9. (c + 1) % Capacity = c + 1
  BY <1>1, <1>8, Small
<1>10. QED
  BY <1>2, <1>3, <1>5, <1>6, <1>7, <1>9 DEF Count, Counters

\* Getting one out counts one down, and the others move up.
LEMMA GetOne ==
  ASSUME NEW g \in Counters, NEW p \in Counters, g # p
  PROVE  /\ (g + 1) % Capacity \in Counters
         /\ Count((g + 1) % Capacity, p) = Count(g, p) - 1
         /\ \A i \in Int : SlotAt((g + 1) % Capacity, i) = SlotAt(g, i + 1)
<1>1. /\ Capacity \in Nat \ {0} /\ QueueSize \in Nat /\ QueueSize < Capacity
      /\ g \in Int /\ p \in Int /\ p - g \in Int /\ g + 1 \in Int
  BY CapacityIs DEF Counters
<1>2. (g + 1) % Capacity \in 0 .. Capacity - 1
  BY <1>1, Division
<1>3. PICK c \in 0 .. Capacity - 1 : c = (p - g) % Capacity
  BY <1>1, Division
<1>4. c # 0
  BY <1>3, Distance DEF Count
<1>5. (p - ((g + 1) % Capacity)) % Capacity = (p - (g + 1)) % Capacity
  BY <1>1, Nested
<1>6. (((p - g) % Capacity) - 1) % Capacity = ((p - g) - 1) % Capacity
  <2>1. PICK one \in Int : one = 1
    OBVIOUS
  <2>2. (((p - g) % Capacity) - one) % Capacity = ((p - g) - one) % Capacity
    BY <1>1, Nested
  <2>3. QED
    BY <2>1, <2>2
<1>7. p - (g + 1) = (p - g) - 1
  BY <1>1
<1>8. c - 1 \in 0 .. Capacity - 1
  BY <1>1, <1>4
<1>9. (c - 1) % Capacity = c - 1
  BY <1>1, <1>8, Small
<1>10. ASSUME NEW i \in Int
       PROVE  (((g + 1) % Capacity) + i) % QueueSize = (g + (i + 1)) % QueueSize
  <2>1. PICK r \in 0 .. Capacity - 1 : r = (g + 1) % Capacity
    BY <1>2
  <2>2. r + i \in Int /\ (g + 1) + i \in Int /\ (g + 1) + i = g + (i + 1)
    BY <1>1
  <2>3. (r + i) % Capacity = ((g + 1) + i) % Capacity
    BY <1>1, <2>1, Nested
  <2>4. QED
    BY <2>1, <2>2, <2>3, SlotOf
<1>11. QED
  BY <1>2, <1>3, <1>5, <1>6, <1>7, <1>9, <1>10 DEF Count, Counters, SlotAt

-----------------------------------------------------------------------------
(* The links of the hooks, for any function sc in place of succ.           *)

Fuel == Cardinality(Hooks)
Ends == Hooks \union {Nil}

\* The body of ChainFrom: the lists of up to n hooks from those of up to n - 1.
Link(sc, f, n) ==
  [g \in Ends |-> IF g = Nil \/ n = 0 THEN <<>> ELSE <<g>> \o f[n - 1][sc[g]]]

Follows(sc, f, m) == f = [n \in 0 .. m |-> Link(sc, f, n)]

ChainsOf(sc) == CHOOSE f : Follows(sc, f, Fuel)

\* A list of n depends on those of n - 1.
LEMMA LinkSame ==
  ASSUME NEW sc, NEW f, NEW h, NEW n \in Nat, n = 0 \/ f[n - 1] = h[n - 1]
  PROVE  Link(sc, f, n) = Link(sc, h, n)
BY DEF Link

\* The recursive function exists.
LEMMA ChainsExist ==
  ASSUME NEW sc, NEW m \in Nat
  PROVE  \E f : Follows(sc, f, m)
<1> DEFINE T == {k \in Nat : ~ \E f : Follows(sc, f, k)}
<1>1. SUFFICES ASSUME T # {} PROVE FALSE
  OBVIOUS
<1>2. PICK x \in T : \A y \in T : x <= y
  <2>1. T \subseteq Nat
    OBVIOUS
  <2> HIDE DEF T
  <2>2. QED
    BY <1>1, <2>1, LeastNatural
<1>3. CASE x = 0
  <2> DEFINE f == [n \in 0 .. 0 |-> Link(sc, <<>>, 0)]
  <2>1. \A n \in 0 .. 0 : Link(sc, f, n) = Link(sc, <<>>, 0)
    BY LinkSame
  <2>2. Follows(sc, f, 0)
    BY <2>1 DEF Follows
  <2>3. QED
    BY <1>3, <2>2
<1>4. CASE x # 0
  <2>1. x \in Nat /\ x - 1 \in Nat /\ x - 1 \notin T
    BY <1>2, <1>4
  <2>2. PICK f : Follows(sc, f, x - 1)
    BY <2>1
  <2> DEFINE h == [n \in 0 .. x |-> IF n = x THEN Link(sc, f, x) ELSE f[n]]
  <2>3. \A n \in 0 .. x - 1 : h[n] = f[n] /\ f[n] = Link(sc, f, n)
    <3>1. ASSUME NEW n \in 0 .. x - 1 PROVE n \in 0 .. x /\ n # x
      BY <2>1
    <3>2. \A n \in 0 .. x - 1 : f[n] = Link(sc, f, n)
      BY <2>2 DEF Follows
    <3>3. QED
      BY <3>1, <3>2
  <2>4. \A n \in 0 .. x : n = 0 \/ h[n - 1] = f[n - 1]
    BY <2>1, <2>3
  <2> HIDE DEF h
  <2>5. \A n \in 0 .. x : Link(sc, h, n) = Link(sc, f, n)
    BY <2>1, <2>4, LinkSame
  <2>6. h = [n \in 0 .. x |-> Link(sc, h, n)]
    BY <2>1, <2>3, <2>5 DEF h
  <2>7. QED
    BY <2>6 DEF Follows
<1>5. QED
  BY <1>3, <1>4

\* ChainFrom is what its recursive definition says.
LEMMA ChainsAre ==
  ASSUME NEW sc
  PROVE  Follows(sc, ChainsOf(sc), Fuel)
<1>1. Fuel \in Nat
  BY SystemAssumption, FS_CardinalityType DEF Fuel
<1>2. \E f : Follows(sc, f, Fuel)
  BY <1>1, ChainsExist
<1>3. QED
  BY <1>2 DEF ChainsOf

\* ChainFrom is the function that ChainWithFuel speaks of, with fuel for every hook.
LEMMA ChainFromIs ==
  ASSUME NEW h
  PROVE  List!ChainFrom(h) = ChainsOf(succ)[Fuel][h]
<1>1. List!Cardinality(Hooks) = Fuel
  BY DEF List!Cardinality, Cardinality, Fuel
<1>2. QED
  BY <1>1, Zenon DEF List!ChainFrom, ChainsOf, Follows, Link, Ends

-----------------------------------------------------------------------------
(***************************************************************************)
(* The order of the hooks.  Less is an order of all hooks that have ever   *)
(* been added, L is the set of those that have not been removed.  A hook   *)
(* that is removed keeps its place, and its link leads to a later hook     *)
(* without passing over one in L.                                          *)
(***************************************************************************)
Added == Hooks \ fresh

AtOrAfter(Less, x, y) == x = y \/ <<x, y>> \in Less

Order(Less) ==
  /\ Less \subseteq Added \X Added
  /\ \A x \in Added : <<x, x>> \notin Less
  /\ \A x, y, z \in Added : <<x, y>> \in Less /\ <<y, z>> \in Less => <<x, z>> \in Less

Links(Less, L) ==
  /\ L \subseteq Added
  /\ succ \in [Hooks -> Ends]
  /\ first \in L \union {Nil}
  /\ \A x \in Added : succ[x] # Nil => <<x, succ[x]>> \in Less
  /\ \A x \in L : succ[x] \in L \union {Nil}
  /\ \A y \in L : first # Nil /\ AtOrAfter(Less, first, y)
  /\ \A x \in Added, y \in L :
       <<x, y>> \in Less => succ[x] # Nil /\ AtOrAfter(Less, succ[x], y)

ByPriority(Less, L) == \A x, y \in L : <<x, y>> \in Less => Priority[x] >= Priority[y]

Runs(Less, L) ==
  \A i \in DOMAIN runs :
    /\ runs[i].at \in Added
    /\ runs[i].due \subseteq L
    /\ \A y \in runs[i].due : <<runs[i].at, y>> \in Less

HooksOrdered ==
  \E Less \in SUBSET (Hooks \X Hooks), L \in SUBSET Hooks :
    Order(Less) /\ Links(Less, L) /\ ByPriority(Less, L) /\ Runs(Less, L)

\* What ChainFrom(x) is to be: a list of hooks from x on in their order, that
\* passes over none in L, and ends in L if it begins there.
Chain(Less, L, x, c) ==
  /\ c \in Seq(Added)
  /\ \A i \in DOMAIN c : AtOrAfter(Less, x, c[i])
  /\ \A i, j \in DOMAIN c : i < j => <<c[i], c[j]>> \in Less
  /\ \A y \in L : AtOrAfter(Less, x, y) => \E i \in DOMAIN c : c[i] = y
  /\ x \in L \union {Nil} => c \in Seq(L)

Later(Less, x) == {y \in Added : AtOrAfter(Less, x, y)}

\* Fewer hooks are later than the next one.
LEMMA FewerLater ==
  ASSUME NEW Less, NEW L, Order(Less), Links(Less, L), NEW x \in Added
  PROVE  /\ Cardinality(Later(Less, x)) \in Nat
         /\ Cardinality(Later(Less, succ[x])) \in Nat
         /\ Cardinality(Later(Less, succ[x])) < Cardinality(Later(Less, x))
         /\ Cardinality(Later(Less, x)) <= Fuel
<1>1. /\ Later(Less, x) \subseteq Hooks
      /\ Later(Less, succ[x]) \subseteq Later(Less, x)
      /\ x \in Later(Less, x)
      /\ x \notin Later(Less, succ[x])
  <2>1. Later(Less, x) \subseteq Hooks /\ x \in Later(Less, x)
    BY DEF Later, Added, AtOrAfter
  <2>2. succ[x] = Nil => Later(Less, succ[x]) = {}
    BY SystemAssumption DEF Later, AtOrAfter, Order, Added
  <2>3. succ[x] # Nil => succ[x] \in Added /\ <<x, succ[x]>> \in Less
    BY DEF Order, Links
  <2>4. ASSUME succ[x] # Nil, NEW y \in Later(Less, succ[x])
        PROVE  y \in Later(Less, x) /\ y # x
    BY <2>3, <2>4 DEF Later, AtOrAfter, Order
  <2>5. QED
    BY <2>1, <2>2, <2>4
<1>2. IsFiniteSet(Hooks) /\ IsFiniteSet(Later(Less, x)) /\ IsFiniteSet(Later(Less, succ[x]))
  BY <1>1, SystemAssumption, FS_Subset
<1>3. Cardinality(Later(Less, x)) <= Fuel
  BY <1>1, <1>2, FS_Subset DEF Fuel
<1>4. Cardinality(Later(Less, succ[x])) < Cardinality(Later(Less, x))
  <2>1. /\ Cardinality(Later(Less, succ[x])) <= Cardinality(Later(Less, x))
        /\ Cardinality(Later(Less, succ[x])) # Cardinality(Later(Less, x))
    BY <1>1, <1>2, FS_Subset
  <2>2. QED
    BY <1>2, <2>1, FS_CardinalityType
<1>5. QED
  BY <1>2, <1>3, <1>4, FS_CardinalityType

\* The list of nothing.
LEMMA ChainNil ==
  ASSUME NEW Less, NEW L, Order(Less), Links(Less, L)
  PROVE  Chain(Less, L, Nil, <<>>)
<1>1. \A y \in L : ~ AtOrAfter(Less, Nil, y)
  BY SystemAssumption DEF AtOrAfter, Order, Links, Added
<1>2. QED
  BY <1>1 DEF Chain

\* A hook in front of the list from the next one.
LEMMA ChainCons ==
  ASSUME NEW Less, NEW L, Order(Less), Links(Less, L), NEW x \in Added,
         NEW d, Chain(Less, L, succ[x], d)
  PROVE  Chain(Less, L, x, <<x>> \o d)
<1>1. PICK c : c = <<x>> \o d
  OBVIOUS
<1>2. d \in Seq(Added)
  BY DEF Chain
<1>3. /\ c \in Seq(Added)
      /\ DOMAIN c = 1 .. Len(d) + 1 /\ DOMAIN d = 1 .. Len(d) /\ Len(d) \in Nat
      /\ c[1] = x
      /\ \A i \in 1 .. Len(d) : c[i + 1] = d[i] /\ d[i] \in Added
  BY <1>1, <1>2
<1>4. \A i \in DOMAIN c : i = 1 \/ (i - 1 \in DOMAIN d /\ c[i] = d[i - 1] /\ c[i] \in Added)
  BY <1>3
<1>5. \A i \in DOMAIN d : succ[x] # Nil /\ <<x, d[i]>> \in Less
  <2>1. ASSUME NEW i \in DOMAIN d PROVE succ[x] # Nil /\ <<x, d[i]>> \in Less
    <3>1. AtOrAfter(Less, succ[x], d[i]) /\ d[i] \in Added
      BY <1>3 DEF Chain
    <3>2. succ[x] # Nil
      BY <3>1, SystemAssumption DEF AtOrAfter, Order, Added
    <3>3. succ[x] \in Added /\ <<x, succ[x]>> \in Less
      BY <3>2 DEF Order, Links
    <3>4. QED
      BY <3>1, <3>2, <3>3 DEF AtOrAfter, Order
  <2>2. QED
    BY <2>1
<1>6. \A i \in DOMAIN c : AtOrAfter(Less, x, c[i])
  BY <1>3, <1>4, <1>5 DEF AtOrAfter
<1>7. ASSUME NEW i \in DOMAIN c, NEW j \in DOMAIN c, i < j PROVE <<c[i], c[j]>> \in Less
  <2>1. j # 1 /\ j - 1 \in DOMAIN d /\ c[j] = d[j - 1]
    BY <1>3, <1>4, <1>7
  <2>2. CASE i = 1
    BY <1>3, <1>5, <2>1, <2>2
  <2>3. CASE i # 1
    <3>1. i - 1 \in DOMAIN d /\ c[i] = d[i - 1] /\ i - 1 < j - 1
      BY <1>3, <1>4, <1>7, <2>3
    <3>2. QED
      BY <2>1, <3>1 DEF Chain
  <2>4. QED
    BY <2>2, <2>3
<1>8. ASSUME NEW y \in L, AtOrAfter(Less, x, y) PROVE \E i \in DOMAIN c : c[i] = y
  <2>1. CASE x = y
    BY <1>3, <2>1
  <2>2. CASE x # y
    <3>1. AtOrAfter(Less, succ[x], y)
      BY <1>8, <2>2 DEF AtOrAfter, Links
    <3>2. PICK i \in DOMAIN d : d[i] = y
      BY <3>1 DEF Chain
    <3>3. i + 1 \in DOMAIN c /\ c[i + 1] = y
      BY <1>3, <3>2
    <3>4. QED
      BY <3>3
  <2>3. QED
    BY <2>1, <2>2
<1>9. ASSUME x \in L PROVE c \in Seq(L)
  <2>1. d \in Seq(L)
    BY <1>9 DEF Chain, Links
  <2>2. QED
    BY <1>1, <1>9, <2>1
<1>10. x # Nil
  BY SystemAssumption DEF Added
<1>11. QED
  BY <1>1, <1>3, <1>6, <1>7, <1>8, <1>9, <1>10 DEF Chain

\* With enough fuel the recursive function follows the links to their end.
LEMMA ChainWithFuel ==
  ASSUME NEW Less, NEW L, Order(Less), Links(Less, L), NEW n \in 0 .. Fuel,
         NEW x \in Added \union {Nil}, Cardinality(Later(Less, x)) <= n
  PROVE  Chain(Less, L, x, ChainsOf(succ)[n][x])
<1> DEFINE P(m, y) == Chain(Less, L, y, ChainsOf(succ)[m][y])
           T == {m \in 0 .. Fuel : \E y \in Added \union {Nil} :
                   Cardinality(Later(Less, y)) <= m /\ ~ P(m, y)}
<1>1. SUFFICES ASSUME T # {} PROVE FALSE
  OBVIOUS
<1>2. Fuel \in Nat
  BY SystemAssumption, FS_CardinalityType DEF Fuel
<1>3. PICK m \in T : \A k \in T : m <= k
  <2>1. T \subseteq Nat
    BY <1>2
  <2> HIDE DEF T
  <2>2. QED
    BY <1>1, <2>1, LeastNatural
<1>4. PICK y \in Added \union {Nil} : Cardinality(Later(Less, y)) <= m /\ ~ P(m, y)
  BY <1>3
<1>5. m \in 0 .. Fuel /\ ChainsOf(succ)[m] = Link(succ, ChainsOf(succ), m)
  BY <1>3, ChainsAre DEF Follows
<1>6. ChainsOf(succ)[m][y] =
        IF y = Nil \/ m = 0 THEN <<>> ELSE <<y>> \o ChainsOf(succ)[m - 1][succ[y]]
  BY <1>5 DEF Link, Ends, Added
<1>7. CASE y = Nil
  BY <1>4, <1>6, <1>7, ChainNil
<1>8. CASE y # Nil
  <2>1. y \in Added
    BY <1>8
  <2>2. /\ Cardinality(Later(Less, succ[y])) \in Nat
        /\ Cardinality(Later(Less, succ[y])) < Cardinality(Later(Less, y))
        /\ Cardinality(Later(Less, y)) \in Nat
    BY <2>1, FewerLater
  <2>3. m # 0 /\ m - 1 \in 0 .. Fuel /\ Cardinality(Later(Less, succ[y])) <= m - 1
    BY <1>2, <1>4, <1>5, <2>2
  <2>4. m - 1 \notin T
    BY <1>2, <1>3, <1>5
  <2>5. succ[y] \in Added \union {Nil}
    <3>1. succ[y] # Nil => <<y, succ[y]>> \in Less
      BY <2>1 DEF Links
    <3>2. Less \subseteq Added \X Added
      BY DEF Order
    <3>3. QED
      BY <3>1, <3>2
  <2>6. P(m - 1, succ[y])
    <3>1. PICK k : k = m - 1
      OBVIOUS
    <3>2. k \in 0 .. Fuel /\ k \notin T /\ Cardinality(Later(Less, succ[y])) <= k
      BY <2>3, <2>4, <3>1
    <3> HIDE DEF P
    <3>3. P(k, succ[y])
      BY <2>5, <3>2
    <3>4. QED
      BY <3>1, <3>3
  <2>7. Chain(Less, L, y, <<y>> \o ChainsOf(succ)[m - 1][succ[y]])
    BY <2>1, <2>6, ChainCons
  <2>8. QED
    BY <1>4, <1>6, <1>8, <2>3, <2>7
<1>9. QED
  BY <1>7, <1>8

\* So does ChainFrom.
LEMMA ChainFromOrdered ==
  ASSUME NEW Less, NEW L, Order(Less), Links(Less, L), NEW x \in Added \union {Nil}
  PROVE  Chain(Less, L, x, List!ChainFrom(x))
<1>1. Fuel \in Nat /\ Fuel \in 0 .. Fuel
  BY SystemAssumption, FS_CardinalityType DEF Fuel
<1>2. Cardinality(Later(Less, x)) <= Fuel
  <2>1. Later(Less, x) \subseteq Hooks
    BY DEF Later, Added
  <2>2. QED
    BY <2>1, SystemAssumption, FS_Subset DEF Fuel
<1>3. Chain(Less, L, x, ChainsOf(succ)[Fuel][x])
  BY <1>1, <1>2, ChainWithFuel
<1>4. QED
  BY <1>3, ChainFromIs

\* The hooks in the list are those in L, in their order.
LEMMA ListIs ==
  ASSUME NEW Less, NEW L, Order(Less), Links(Less, L)
  PROVE  /\ List!List \in Seq(L)
         /\ List!Listed = L
         /\ \A i, j \in DOMAIN List!List : i < j => <<List!List[i], List!List[j]>> \in Less
         /\ \A y \in L : \E i \in DOMAIN List!List : List!List[i] = y
<1>1. PICK c : c = List!ChainFrom(first)
  OBVIOUS
<1>2. first \in Added \union {Nil} /\ first \in L \union {Nil}
  BY DEF Links
<1>3. Chain(Less, L, first, c)
  BY <1>1, <1>2, ChainFromOrdered
<1>4. /\ c \in Seq(L)
      /\ \A i, j \in DOMAIN c : i < j => <<c[i], c[j]>> \in Less
  BY <1>2, <1>3 DEF Chain
<1>5. \A y \in L : \E i \in DOMAIN c : c[i] = y
  BY <1>3 DEF Chain, Links
<1>6. {c[i] : i \in DOMAIN c} = L
  BY <1>4, <1>5
<1>7. QED
  BY <1>1, <1>4, <1>5, <1>6 DEF List!List, List!Listed, List!Range

\* The invariant implies the two properties of the list.
LEMMA OrderedNow == HooksOrdered => Ordered
<1> SUFFICES ASSUME HooksOrdered,
                    NEW i \in DOMAIN List!List, NEW j \in DOMAIN List!List, i < j
             PROVE  /\ Priority[List!List[i]] >= Priority[List!List[j]]
                    /\ List!List[i] # List!List[j]
  BY DEF Ordered, List!Ordered
<1>1. PICK Less \in SUBSET (Hooks \X Hooks), L \in SUBSET Hooks :
        Order(Less) /\ Links(Less, L) /\ ByPriority(Less, L)
  BY DEF HooksOrdered
<1>2. <<List!List[i], List!List[j]>> \in Less /\ List!List \in Seq(L)
  BY <1>1, ListIs
<1>3. List!List[i] \in L /\ List!List[j] \in L
  BY <1>2
<1>4. List!List[i] \in Added
  BY <1>1, <1>3 DEF Links
<1>5. QED
  BY <1>1, <1>2, <1>3, <1>4 DEF ByPriority, Order

\* ... and the hooks that are due, the property of RunHooks.
LEMMA StayersNow == HooksOrdered => StayersCalled
<1> SUFFICES ASSUME HooksOrdered, NEW i \in DOMAIN runs, NEW y \in runs[i].due
             PROVE  y \in List!Range(List!ChainFrom(succ[runs[i].at]))
  BY DEF StayersCalled, List!StayersCalled
<1>1. PICK Less \in SUBSET (Hooks \X Hooks), L \in SUBSET Hooks :
        Order(Less) /\ Links(Less, L) /\ Runs(Less, L)
  BY DEF HooksOrdered
<1>2. PICK x : x = runs[i].at
  OBVIOUS
<1>3. x \in Added /\ y \in L /\ <<x, y>> \in Less
  BY <1>1, <1>2 DEF Runs
<1>4. succ[x] # Nil /\ AtOrAfter(Less, succ[x], y)
  BY <1>1, <1>3 DEF Links
<1>5. succ[x] \in Added \union {Nil}
  <2>1. <<x, succ[x]>> \in Less
    BY <1>1, <1>3, <1>4 DEF Links
  <2>2. QED
    BY <1>1, <2>1 DEF Order
<1>6. PICK c : c = List!ChainFrom(succ[x])
  OBVIOUS
<1>7. Chain(Less, L, succ[x], c)
  BY <1>1, <1>5, <1>6, ChainFromOrdered
<1>8. \E k \in DOMAIN c : c[k] = y
  BY <1>3, <1>4, <1>7 DEF Chain
<1>9. QED
  BY <1>2, <1>6, <1>8 DEF List!Range

-----------------------------------------------------------------------------
(* The operations of HookList keep the order.                              *)

RunRecord == [at : Hooks, data : Events \union {Nil}, due : SUBSET Hooks]

HookTypes == fresh \subseteq Hooks /\ runs \in Seq(RunRecord)

HookInv == HookTypes /\ HooksOrdered

\* AddHook finds the last hook of its own priority or a higher one.
LEMMA BeforeIs ==
  ASSUME NEW Less, NEW L, Order(Less), Links(Less, L), ByPriority(Less, L),
         L \subseteq Hooks, NEW h \in Hooks
  PROVE  \/ /\ List!Before(h) = Nil
            /\ \A y \in L : Priority[h] > Priority[y]
         \/ /\ List!Before(h) \in L
            /\ Priority[List!Before(h)] >= Priority[h]
            /\ \A y \in L : <<List!Before(h), y>> \in Less => Priority[h] > Priority[y]
<1> DEFINE c == List!List
           ahead == {i \in DOMAIN c : \A j \in 1 .. i : Priority[c[j]] >= Priority[h]}
           last == CHOOSE i \in ahead : \A j \in ahead : j <= i
<1>1. /\ c \in Seq(L)
      /\ \A i, j \in DOMAIN c : i < j => <<c[i], c[j]>> \in Less
      /\ \A y \in L : \E i \in DOMAIN c : c[i] = y
  BY ListIs
<1>2. List!Before(h) = IF ahead = {} THEN Nil ELSE c[last]
  BY DEF List!Before
<1> HIDE DEF c
<1>3. /\ DOMAIN c = 1 .. Len(c) /\ Len(c) \in Nat
      /\ \A i \in DOMAIN c : c[i] \in L /\ Priority[c[i]] \in Int
      /\ Priority[h] \in Int
  BY <1>1, SystemAssumption
<1>4. ASSUME NEW i \in DOMAIN c, Priority[c[i]] >= Priority[h] PROVE i \in ahead
  <2>1. ASSUME NEW j \in 1 .. i PROVE Priority[c[j]] >= Priority[h]
    <3>1. j \in DOMAIN c /\ (j = i \/ j < i)
      BY <1>3
    <3>2. j = i \/ Priority[c[j]] >= Priority[c[i]]
      BY <1>1, <1>3, <3>1 DEF ByPriority
    <3>3. QED
      BY <1>3, <1>4, <3>1, <3>2
  <2>2. QED
    BY <2>1
<1>5. CASE ahead = {}
  <2>1. ASSUME NEW y \in L PROVE Priority[h] > Priority[y]
    <3>1. PICK i \in DOMAIN c : c[i] = y
      BY <1>1
    <3>2. i \notin ahead
      BY <1>5
    <3> HIDE DEF ahead
    <3>3. QED
      BY <1>3, <1>4, <3>1, <3>2
  <2>2. QED
    BY <1>2, <1>5, <2>1
<1>6. CASE ahead # {}
  <2>1. \E i \in ahead : \A j \in ahead : j <= i
    <3> DEFINE T == {Len(c) - i : i \in ahead}
    <3>1. ahead \subseteq 1 .. Len(c)
      BY <1>3
    <3> HIDE DEF ahead
    <3>2. T \subseteq Nat /\ T # {}
      <4>1. \A i \in ahead : Len(c) - i \in Nat
        BY <1>3, <3>1
      <4>2. QED
        BY <1>6, <4>1
    <3>3. PICK x \in T : \A y \in T : x <= y
      <4> HIDE DEF T
      <4>1. QED
        BY <3>2, LeastNatural
    <3>4. PICK i \in ahead : x = Len(c) - i
      BY <3>3
    <3>5. \A j \in ahead : Len(c) - i <= Len(c) - j
      BY <3>3, <3>4
    <3>6. QED
      BY <1>3, <3>1, <3>4, <3>5
  <2>2. last \in ahead /\ \A j \in ahead : j <= last
    <3> HIDE DEF ahead
    <3>1. QED
      BY <2>1
  <2> HIDE DEF last
  <2>3. last \in DOMAIN c /\ last \in 1 .. last /\ Priority[c[last]] >= Priority[h]
    BY <1>3, <2>2
  <2>4. ASSUME NEW y \in L, <<c[last], y>> \in Less PROVE Priority[h] > Priority[y]
    <3>1. PICK i \in DOMAIN c : c[i] = y
      BY <1>1
    <3>2. ~ (i < last) /\ i # last
      <4>1. c[last] \in Added /\ y \in Added
        BY <1>3, <2>3 DEF Links
      <4>2. i < last => <<y, c[last]>> \in Less
        BY <1>1, <2>3, <3>1
      <4>3. QED
        BY <2>4, <3>1, <4>1, <4>2 DEF Order
    <3>3. i \notin ahead
      <4> HIDE DEF ahead
      <4>1. QED
        BY <1>3, <2>2, <2>3, <3>2
    <3> HIDE DEF ahead
    <3>4. QED
      BY <1>3, <1>4, <3>1, <3>3
  <2>5. QED
    BY <1>2, <1>3, <1>6, <2>3, <2>4
<1>7. QED
  BY <1>5, <1>6

\* Less with h put in after the hooks in A and before those in B.
Insertion(Less, h, A, B, N) ==
  /\ N \subseteq (Added \union {h}) \X (Added \union {h})
  /\ \A x, y : <<x, y>> \in N <=>
       \/ <<x, y>> \in Less
       \/ x \in A /\ y = h
       \/ x = h /\ y \in B

\* It is an order if A and B are.
LEMMA InsertionOrder ==
  ASSUME NEW Less, Order(Less), NEW h \in Hooks, h \notin Added, Added' = Added \union {h},
         NEW A \in SUBSET Added, NEW B \in SUBSET Added,
         \A x \in Added, y \in A : <<x, y>> \in Less => x \in A,
         \A x \in B, y \in Added : <<x, y>> \in Less => y \in B,
         \A x \in A, y \in B : <<x, y>> \in Less
  PROVE  \E N \in SUBSET (Hooks \X Hooks) : Insertion(Less, h, A, B, N) /\ Order(N)'
<1>1. PICK N : N = Less \union (A \X {h}) \union ({h} \X B)
  OBVIOUS
<1>2. Less \subseteq Added \X Added /\ Added \subseteq Hooks
  BY DEF Order, Added
<1>3. Insertion(Less, h, A, B, N)
  BY <1>1, <1>2 DEF Insertion
<1>4. N \in SUBSET (Hooks \X Hooks)
  BY <1>2, <1>3 DEF Insertion
<1>5. \A x, y : <<x, y>> \in Less => x \in Added /\ y \in Added /\ x # h /\ y # h
  BY <1>2
<1>6. ASSUME NEW x \in Added' PROVE <<x, x>> \notin N
  BY <1>3, <1>5, <1>6 DEF Insertion, Order
<1>7. ASSUME NEW x \in Added', NEW y \in Added', NEW z \in Added',
             <<x, y>> \in N, <<y, z>> \in N
      PROVE  <<x, z>> \in N
  <2>1. \A v \in A : v \in Added /\ v # h
    OBVIOUS
  <2>2. \A v \in B : v \in Added /\ v # h
    OBVIOUS
  <2>3. \/ <<x, y>> \in Less
        \/ x \in A /\ y = h
        \/ x = h /\ y \in B
    BY <1>3, <1>7 DEF Insertion
  <2>4. \/ <<y, z>> \in Less
        \/ y \in A /\ z = h
        \/ y = h /\ z \in B
    BY <1>3, <1>7 DEF Insertion
  <2>5. \/ <<x, z>> \in Less
        \/ x \in A /\ z = h
        \/ x = h /\ z \in B
    BY <1>5, <2>1, <2>2, <2>3, <2>4 DEF Order
  <2>6. QED
    BY <1>3, <2>5 DEF Insertion
<1>8. QED
  BY <1>3, <1>4, <1>6, <1>7 DEF Order, Insertion

\* What AddHook leaves alone.
LEMMA AddFrame ==
  ASSUME HookTypes, NEW h \in Hooks, List!AddHook(h)
  PROVE  /\ h \in Hooks /\ h \notin Added /\ Added' = Added \union {h}
         /\ HookTypes'
         /\ runs' = runs
  BY DEF List!AddHook, HookTypes, Added

\* A hook of the highest priority is put in front of all others.
LEMMA AddFirst ==
  ASSUME HookTypes, NEW Less, NEW L,
         Order(Less), Links(Less, L), ByPriority(Less, L), Runs(Less, L),
         NEW h \in Hooks, List!AddHook(h), List!Before(h) = Nil,
         \A y \in L : Priority[h] > Priority[y]
  PROVE  HooksOrdered'
<1>1. /\ h \notin Added /\ Added' = Added \union {h} /\ runs' = runs
  BY AddFrame
<1>2. PICK N \in SUBSET (Hooks \X Hooks) : Insertion(Less, h, {}, Added, N) /\ Order(N)'
  BY <1>1, InsertionOrder
<1>3. PICK K : K = L \union {h}
  OBVIOUS
<1>4. /\ L \subseteq Added /\ Added \subseteq Hooks /\ K \in SUBSET Hooks /\ Nil \notin Hooks
      /\ Less \subseteq Added \X Added
  BY <1>3, SystemAssumption DEF Links, Added, Order
<1>5. first' = h /\ succ' = [succ EXCEPT ![h] = first]
  BY DEF List!AddHook
<1>6. /\ succ' \in [Hooks -> Ends] /\ succ'[h] = first
      /\ \A x \in Added : succ'[x] = succ[x]
  BY <1>1, <1>4, <1>5 DEF Links, Ends
<1>7. \A x, y : <<x, y>> \in N <=> <<x, y>> \in Less \/ (x = h /\ y \in Added)
  BY <1>2 DEF Insertion
<1>8. Links(N, K)'
  <2>1. K \subseteq Added' /\ first' \in K \union {Nil}
    BY <1>1, <1>3, <1>4, <1>5
  <2>2. ASSUME NEW x \in Added', succ'[x] # Nil PROVE <<x, succ'[x]>> \in N
    BY <1>1, <1>4, <1>6, <1>7, <2>2 DEF Links
  <2>3. ASSUME NEW x \in K PROVE succ'[x] \in K \union {Nil}
    BY <1>3, <1>4, <1>6 DEF Links
  <2>4. ASSUME NEW y \in K PROVE first' # Nil /\ AtOrAfter(N, first', y)
    BY <1>3, <1>4, <1>5, <1>7 DEF AtOrAfter
  <2>5. ASSUME NEW x \in Added', NEW y \in K, <<x, y>> \in N
        PROVE  succ'[x] # Nil /\ AtOrAfter(N, succ'[x], y)
    <3>1. y \in L
      BY <1>1, <1>3, <1>4, <1>7, <2>5
    <3>2. CASE x = h
      BY <1>6, <1>7, <3>1, <3>2 DEF Links, AtOrAfter
    <3>3. CASE x # h
      <4>1. x \in Added /\ <<x, y>> \in Less
        BY <1>1, <1>7, <2>5, <3>3
      <4>2. QED
        BY <1>6, <1>7, <3>1, <4>1 DEF Links, AtOrAfter
    <3>4. QED
      BY <3>2, <3>3
  <2>6. QED
    BY <1>6, <2>1, <2>2, <2>3, <2>4, <2>5 DEF Links, AtOrAfter
<1>9. ByPriority(N, K)'
  <2>1. ASSUME NEW x \in K, NEW y \in K, <<x, y>> \in N PROVE Priority[x] >= Priority[y]
    <3>1. y \in L
      BY <1>1, <1>3, <1>4, <1>7, <2>1
    <3>2. CASE x = h
      <4>1. Priority[h] \in Int /\ Priority[y] \in Int
        BY <1>4, <3>1, SystemAssumption
      <4>2. QED
        BY <3>1, <3>2, <4>1
    <3>3. CASE x # h
      BY <1>3, <1>7, <2>1, <3>1, <3>3 DEF ByPriority
    <3>4. QED
      BY <3>2, <3>3
  <2>2. QED
    BY <2>1 DEF ByPriority
<1>10. Runs(N, K)'
  BY <1>1, <1>3, <1>7 DEF Runs
<1>11. QED
  BY <1>2, <1>4, <1>8, <1>9, <1>10 DEF HooksOrdered

\* Any other hook is put behind the one that AddHook has found.
LEMMA AddBehind ==
  ASSUME HookTypes, NEW Less, NEW L,
         Order(Less), Links(Less, L), ByPriority(Less, L), Runs(Less, L),
         NEW h \in Hooks, List!AddHook(h), NEW p \in L, p = List!Before(h),
         Priority[p] >= Priority[h],
         \A y \in L : <<p, y>> \in Less => Priority[h] > Priority[y]
  PROVE  HooksOrdered'
<1>1. /\ h \notin Added /\ Added' = Added \union {h} /\ runs' = runs
  BY AddFrame
<1>2. PICK A : A = {x \in Added : AtOrAfter(Less, x, p)}
  OBVIOUS
<1>3. PICK B : B = {y \in Added : <<p, y>> \in Less}
  OBVIOUS
<1>4. PICK K : K = L \union {h}
  OBVIOUS
<1>5. /\ L \subseteq Added /\ Added \subseteq Hooks /\ K \in SUBSET Hooks /\ Nil \notin Hooks
      /\ Less \subseteq Added \X Added
      /\ p \in Added /\ p # h
  BY <1>1, <1>4, SystemAssumption DEF Links, Added, Order
<1>6. PICK N \in SUBSET (Hooks \X Hooks) : Insertion(Less, h, A, B, N) /\ Order(N)'
  <2>1. A \in SUBSET Added /\ B \in SUBSET Added
    BY <1>2, <1>3
  <2>2. \A x \in Added, y \in A : <<x, y>> \in Less => x \in A
    BY <1>2, <1>5 DEF AtOrAfter, Order
  <2>3. \A x \in B, y \in Added : <<x, y>> \in Less => y \in B
    BY <1>3, <1>5 DEF Order
  <2>4. \A x \in A, y \in B : <<x, y>> \in Less
    BY <1>2, <1>3, <1>5 DEF AtOrAfter, Order
  <2>5. QED
    BY <1>1, <2>1, <2>2, <2>3, <2>4, InsertionOrder
<1>7. first' = first /\ succ' = [succ EXCEPT ![h] = succ[p], ![p] = h]
  BY <1>5 DEF List!AddHook
<1>8. /\ succ' \in [Hooks -> Ends] /\ succ'[h] = succ[p] /\ succ'[p] = h
      /\ \A x \in Added \ {p} : succ'[x] = succ[x]
  <2>1. succ \in [Hooks -> Ends] /\ succ[p] \in Ends /\ h \in Ends
    BY <1>5 DEF Links, Ends
  <2>2. QED
    BY <1>1, <1>5, <1>7, <2>1
<1>9. \A x, y : <<x, y>> \in N <=>
        <<x, y>> \in Less \/ (x \in A /\ y = h) \/ (x = h /\ y \in B)
  BY <1>6 DEF Insertion
<1>10. p \in A /\ <<p, h>> \in N
  BY <1>2, <1>5, <1>9 DEF AtOrAfter
<1>11. \A y \in Added : <<p, y>> \in Less => <<h, y>> \in N
  BY <1>3, <1>9
<1>12. ASSUME NEW x, <<x, h>> \in N PROVE x \in A /\ x \in Added /\ x # h
  <2>1. <<x, h>> \notin Less
    BY <1>1, <1>5
  <2>2. h \notin B /\ A \subseteq Added
    BY <1>1, <1>2, <1>3
  <2>3. QED
    BY <1>1, <1>9, <1>12, <2>1, <2>2
<1>13. Links(N, K)'
  <2>1. K \subseteq Added' /\ first' \in K \union {Nil}
    BY <1>1, <1>4, <1>5, <1>7 DEF Links
  <2>2. ASSUME NEW x \in Added', succ'[x] # Nil PROVE <<x, succ'[x]>> \in N
    <3>1. CASE x = h
      <4>1. succ[p] # Nil /\ <<p, succ[p]>> \in Less
        BY <1>5, <1>8, <2>2, <3>1 DEF Links
      <4>2. succ[p] \in Added
        BY <1>5, <4>1
      <4>3. QED
        BY <1>8, <1>11, <3>1, <4>1, <4>2
    <3>2. CASE x = p
      BY <1>8, <1>10, <3>2
    <3>3. CASE x # h /\ x # p
      BY <1>1, <1>8, <1>9, <2>2, <3>3 DEF Links
    <3>4. QED
      BY <3>1, <3>2, <3>3
  <2>3. ASSUME NEW x \in K PROVE succ'[x] \in K \union {Nil}
    BY <1>4, <1>5, <1>8 DEF Links
  <2>4. ASSUME NEW y \in K PROVE first' # Nil /\ AtOrAfter(N, first', y)
    <3>1. first # Nil /\ AtOrAfter(Less, first, p) /\ first \in Added
      BY <1>5 DEF Links
    <3>2. CASE y = h
      <4>1. first \in A
        BY <1>2, <3>1
      <4>2. QED
        BY <1>7, <1>9, <3>1, <3>2, <4>1 DEF AtOrAfter
    <3>3. CASE y # h
      <4>1. AtOrAfter(Less, first, y)
        BY <1>4, <3>3 DEF Links
      <4>2. QED
        BY <1>7, <1>9, <3>1, <4>1 DEF AtOrAfter
    <3>4. QED
      BY <3>2, <3>3
  <2>5. ASSUME NEW x \in Added', NEW y \in K, <<x, y>> \in N
        PROVE  succ'[x] # Nil /\ AtOrAfter(N, succ'[x], y)
    <3>1. CASE y = h
      <4>1. x \in A /\ x \in Added
        BY <1>12, <2>5, <3>1
      <4>2. CASE x = p
        BY <1>5, <1>8, <3>1, <4>2 DEF AtOrAfter
      <4>3. CASE x # p
        <5>1. <<x, p>> \in Less
          BY <1>2, <4>1, <4>3 DEF AtOrAfter
        <5>2. succ[x] # Nil /\ AtOrAfter(Less, succ[x], p) /\ <<x, succ[x]>> \in Less
          BY <4>1, <5>1 DEF Links
        <5>3. succ[x] \in Added
          BY <1>5, <5>2
        <5>4. succ[x] \in A
          BY <1>2, <5>2, <5>3
        <5>5. QED
          BY <1>8, <1>9, <3>1, <4>1, <4>3, <5>2, <5>4 DEF AtOrAfter
      <4>4. QED
        BY <4>2, <4>3
    <3>2. CASE y # h /\ x = h
      <4>1. y \in L /\ <<p, y>> \in Less
        BY <1>1, <1>3, <1>4, <1>5, <1>9, <2>5, <3>2
      <4>2. succ[p] # Nil /\ AtOrAfter(Less, succ[p], y)
        BY <1>5, <4>1 DEF Links
      <4>3. QED
        BY <1>8, <1>9, <3>2, <4>2 DEF AtOrAfter
    <3>3. CASE y # h /\ x # h
      <4>1. y \in L /\ <<x, y>> \in Less /\ x \in Added
        BY <1>1, <1>4, <1>9, <2>5, <3>3
      <4>2. CASE x = p
        <5>1. <<h, y>> \in N
          BY <1>5, <1>11, <4>1, <4>2
        <5>2. QED
          BY <1>5, <1>8, <4>2, <5>1 DEF AtOrAfter
      <4>3. CASE x # p
        <5>1. succ[x] # Nil /\ AtOrAfter(Less, succ[x], y)
          BY <4>1 DEF Links
        <5>2. QED
          BY <1>8, <1>9, <4>1, <4>3, <5>1 DEF AtOrAfter
      <4>4. QED
        BY <4>2, <4>3
    <3>4. QED
      BY <3>1, <3>2, <3>3
  <2>6. QED
    BY <1>8, <2>1, <2>2, <2>3, <2>4, <2>5 DEF Links, AtOrAfter
<1>14. ByPriority(N, K)'
  <2>1. ASSUME NEW x \in K, NEW y \in K, <<x, y>> \in N PROVE Priority[x] >= Priority[y]
    <3>1. Priority[x] \in Int /\ Priority[y] \in Int /\ Priority[p] \in Int /\ Priority[h] \in Int
      BY <1>4, <1>5, SystemAssumption
    <3>2. CASE y = h
      <4>1. x \in A /\ x # h
        BY <1>12, <2>1, <3>2
      <4>2. x \in L /\ (x = p \/ <<x, p>> \in Less)
        BY <1>2, <1>4, <4>1 DEF AtOrAfter
      <4>3. x = p \/ Priority[x] >= Priority[p]
        BY <4>2 DEF ByPriority
      <4>4. QED
        BY <3>1, <3>2, <4>3
    <3>3. CASE y # h /\ x = h
      <4>1. y \in L /\ <<p, y>> \in Less
        BY <1>1, <1>3, <1>4, <1>5, <1>9, <2>1, <3>3
      <4>2. QED
        BY <3>1, <3>3, <4>1
    <3>4. CASE y # h /\ x # h
      <4>1. x \in L /\ y \in L /\ <<x, y>> \in Less
        BY <1>4, <1>9, <2>1, <3>4
      <4>2. QED
        BY <4>1 DEF ByPriority
    <3>5. QED
      BY <3>2, <3>3, <3>4
  <2>2. QED
    BY <2>1 DEF ByPriority
<1>15. Runs(N, K)'
  BY <1>1, <1>4, <1>9 DEF Runs
<1>16. QED
  BY <1>5, <1>6, <1>13, <1>14, <1>15 DEF HooksOrdered

\* A hook is added as the first one or behind another.
LEMMA AddKeeps ==
  ASSUME HookInv, NEW h \in Hooks, List!AddHook(h)
  PROVE  HookInv'
<1>1. HookTypes /\ HooksOrdered
  BY DEF HookInv
<1>2. PICK Less \in SUBSET (Hooks \X Hooks), L \in SUBSET Hooks :
        Order(Less) /\ Links(Less, L) /\ ByPriority(Less, L) /\ Runs(Less, L)
  BY <1>1 DEF HooksOrdered
<1>3. PICK p : p = List!Before(h)
  OBVIOUS
<1>4. \/ p = Nil /\ \A y \in L : Priority[h] > Priority[y]
      \/ /\ p \in L /\ Priority[p] >= Priority[h]
         /\ \A y \in L : <<p, y>> \in Less => Priority[h] > Priority[y]
  BY <1>2, <1>3, BeforeIs
<1>5. HookTypes'
  BY <1>1, AddFrame
<1>6. CASE p = Nil /\ \A y \in L : Priority[h] > Priority[y]
  BY <1>1, <1>2, <1>3, <1>5, <1>6, AddFirst DEF HookInv
<1>7. CASE /\ p \in L /\ Priority[p] >= Priority[h]
           /\ \A y \in L : <<p, y>> \in Less => Priority[h] > Priority[y]
  BY <1>1, <1>2, <1>3, <1>5, <1>7, AddBehind DEF HookInv
<1>8. QED
  BY <1>4, <1>6, <1>7

\* Nobody is passed over when the links lead around a hook that is removed.
LEMMA RemoveKeeps ==
  ASSUME HookInv, NEW h \in Hooks, List!RemoveHook(h)
  PROVE  HookInv'
<1>1. HookTypes /\ HooksOrdered
  BY DEF HookInv
<1>2. PICK Less \in SUBSET (Hooks \X Hooks), L \in SUBSET Hooks :
        Order(Less) /\ Links(Less, L) /\ ByPriority(Less, L) /\ Runs(Less, L)
  BY <1>1 DEF HooksOrdered
<1>3. PICK K : K = L \ {h}
  OBVIOUS
<1>4. List!Listed = L
  BY <1>2, ListIs
<1>5. /\ h \in L
      /\ first' = IF first = h THEN succ[h] ELSE first
      /\ succ' = [g \in Hooks |-> IF succ[g] = h /\ g \in L THEN succ[h] ELSE succ[g]]
      /\ runs' = [i \in DOMAIN runs |-> [runs[i] EXCEPT !.due = @ \ {h}]]
      /\ fresh' = fresh /\ Added' = Added
  BY <1>4 DEF List!RemoveHook, Added
<1>6. /\ L \subseteq Added /\ Added \subseteq Hooks /\ K \in SUBSET Hooks /\ Nil \notin Hooks
      /\ Less \subseteq Added \X Added
  BY <1>2, <1>3, SystemAssumption DEF Links, Added, Order
<1>7. /\ succ[h] \in L \union {Nil}
      /\ succ[h] # Nil => <<h, succ[h]>> \in Less
      /\ succ[h] # h
  BY <1>2, <1>5, <1>6 DEF Links, Order
<1>8. /\ runs' \in Seq(RunRecord) /\ DOMAIN runs' = DOMAIN runs
      /\ \A i \in DOMAIN runs : runs'[i].at = runs[i].at /\ runs'[i].due = runs[i].due \ {h}
  <2>1. PICK n \in Nat : DOMAIN runs = 1 .. n
    BY <1>1 DEF HookTypes
  <2>2. \A i \in 1 .. n : runs[i] \in RunRecord
    BY <1>1, <2>1 DEF HookTypes
  <2>3. ASSUME NEW r \in RunRecord
        PROVE  LET q == [r EXCEPT !.due = @ \ {h}]
               IN  q \in RunRecord /\ q.at = r.at /\ q.due = r.due \ {h}
    BY DEF RunRecord
  <2>4. /\ DOMAIN runs' = 1 .. n
        /\ \A i \in 1 .. n : /\ runs'[i] \in RunRecord
                             /\ runs'[i].at = runs[i].at
                             /\ runs'[i].due = runs[i].due \ {h}
    BY <1>5, <2>1, <2>2, <2>3
  <2>5. runs' = [i \in 1 .. n |-> runs'[i]]
    BY <1>5, <2>1
  <2>6. runs' \in Seq(RunRecord)
    BY <2>4, <2>5
  <2>7. QED
    BY <2>1, <2>4, <2>6
<1>9. HookTypes'
  BY <1>1, <1>5, <1>8 DEF HookTypes
<1>10. Order(Less)'
  BY <1>2, <1>5 DEF Order
<1>11. Links(Less, K)'
  <2>1. succ' \in [Hooks -> Ends] /\ K \subseteq Added'
    BY <1>2, <1>3, <1>5, <1>6 DEF Links
  <2>2. first' \in K \union {Nil}
    BY <1>2, <1>3, <1>5, <1>7 DEF Links
  <2>3. ASSUME NEW x \in Added', succ'[x] # Nil PROVE <<x, succ'[x]>> \in Less
    <3>1. x \in Added /\ x \in Hooks
      BY <1>5, <1>6
    <3>2. CASE succ[x] = h /\ x \in L
      <4>1. succ'[x] = succ[h] /\ <<x, h>> \in Less /\ <<h, succ[h]>> \in Less
        BY <1>2, <1>5, <1>6, <1>7, <2>3, <3>1, <3>2 DEF Links
      <4>2. h \in Added /\ succ[h] \in Added
        BY <1>6, <4>1
      <4>3. QED
        BY <1>2, <3>1, <4>1, <4>2 DEF Order
    <3>3. CASE ~ (succ[x] = h /\ x \in L)
      BY <1>2, <1>5, <2>3, <3>1, <3>3 DEF Links
    <3>4. QED
      BY <3>2, <3>3
  <2>4. ASSUME NEW x \in K PROVE succ'[x] \in K \union {Nil}
    BY <1>2, <1>3, <1>5, <1>6, <1>7 DEF Links
  <2>5. ASSUME NEW y \in K PROVE first' # Nil /\ AtOrAfter(Less, first', y)
    <3>1. y \in L /\ y # h /\ AtOrAfter(Less, first, y) /\ first # Nil
      BY <1>2, <1>3 DEF Links
    <3>2. CASE first = h
      <4>1. <<h, y>> \in Less
        BY <3>1, <3>2 DEF AtOrAfter
      <4>2. QED
        BY <1>2, <1>5, <1>6, <3>1, <3>2, <4>1 DEF Links
    <3>3. CASE first # h
      BY <1>5, <3>1, <3>3
    <3>4. QED
      BY <3>2, <3>3
  <2>6. ASSUME NEW x \in Added', NEW y \in K, <<x, y>> \in Less
        PROVE  succ'[x] # Nil /\ AtOrAfter(Less, succ'[x], y)
    <3>1. x \in Added /\ x \in Hooks /\ y \in L /\ y # h
      BY <1>3, <1>5, <1>6
    <3>2. succ[x] # Nil /\ AtOrAfter(Less, succ[x], y)
      BY <1>2, <2>6, <3>1 DEF Links
    <3>3. CASE succ[x] = h /\ x \in L
      <4>1. <<h, y>> \in Less
        BY <3>1, <3>2, <3>3 DEF AtOrAfter
      <4>2. succ[h] # Nil /\ AtOrAfter(Less, succ[h], y)
        BY <1>2, <1>5, <1>6, <3>1, <4>1 DEF Links
      <4>3. QED
        BY <1>5, <3>1, <3>3, <4>2
    <3>4. CASE ~ (succ[x] = h /\ x \in L)
      BY <1>5, <3>1, <3>2, <3>4
    <3>5. QED
      BY <3>3, <3>4
  <2>7. QED
    BY <2>1, <2>2, <2>3, <2>4, <2>5, <2>6 DEF Links, AtOrAfter
<1>12. ByPriority(Less, K)'
  BY <1>2, <1>3 DEF ByPriority
<1>13. Runs(Less, K)'
  <2>1. ASSUME NEW i \in DOMAIN runs'
        PROVE  /\ runs'[i].at \in Added'
               /\ runs'[i].due \subseteq K
               /\ \A y \in runs'[i].due : <<runs'[i].at, y>> \in Less
    <3>1. i \in DOMAIN runs /\ runs'[i].at = runs[i].at /\ runs'[i].due = runs[i].due \ {h}
      BY <1>8
    <3>2. /\ runs[i].at \in Added
          /\ runs[i].due \subseteq L
          /\ \A y \in runs[i].due : <<runs[i].at, y>> \in Less
      BY <1>2, <3>1 DEF Runs
    <3>3. runs'[i].at \in Added' /\ \A y \in runs'[i].due : <<runs'[i].at, y>> \in Less
      <4>1. Added' = Added
        BY <1>5
      <4>2. QED
        BY <3>1, <3>2, <4>1
    <3>4. runs'[i].due \subseteq K
      BY <1>3, <3>1, <3>2
    <3>5. QED
      BY <3>3, <3>4
  <2>2. QED
    BY <2>1 DEF Runs
<1>14. QED
  BY <1>2, <1>6, <1>9, <1>10, <1>11, <1>12, <1>13 DEF HookInv, HooksOrdered

\* RunHooks begins with the first of those that are in the list.
LEMMA BeginKeeps ==
  ASSUME HookInv, NEW data \in Events, List!Begin(data)
  PROVE  HookInv'
<1>1. HookTypes /\ HooksOrdered
  BY DEF HookInv
<1>2. PICK Less \in SUBSET (Hooks \X Hooks), L \in SUBSET Hooks :
        Order(Less) /\ Links(Less, L) /\ ByPriority(Less, L) /\ Runs(Less, L)
  BY <1>1 DEF HooksOrdered
<1>3. List!Listed = L
  BY <1>2, ListIs
<1>4. PICK r : r = [at |-> first, data |-> data, due |-> L \ {first}]
  OBVIOUS
<1>5. /\ first # Nil /\ runs' = <<r>> \o runs
      /\ first' = first /\ succ' = succ /\ fresh' = fresh /\ Added' = Added
  BY <1>3, <1>4 DEF List!Begin, Added
<1>6. first \in L /\ L \subseteq Added /\ Added \subseteq Hooks
  BY <1>2, <1>5 DEF Links, Added
<1>7. r \in RunRecord /\ r.at = first /\ r.due = L \ {first}
  BY <1>4, <1>6 DEF RunRecord
<1>8. /\ runs' \in Seq(RunRecord)
      /\ \A i \in DOMAIN runs' : runs'[i] = r \/ \E j \in DOMAIN runs : runs'[i] = runs[j]
  <2>1. runs \in Seq(RunRecord)
    BY <1>1 DEF HookTypes
  <2>2. \A i \in DOMAIN (<<r>> \o runs) :
          (<<r>> \o runs)[i] = r \/ (i - 1 \in DOMAIN runs /\ (<<r>> \o runs)[i] = runs[i - 1])
    BY <1>7, <2>1
  <2>3. QED
    BY <1>5, <1>7, <2>1, <2>2
<1>9. Links(Less, L)' /\ Order(Less)' /\ ByPriority(Less, L)'
  BY <1>2, <1>5 DEF Links, Order, ByPriority, AtOrAfter
<1>10. Runs(Less, L)'
  <2>1. /\ r.at \in Added /\ r.due \subseteq L
        /\ \A y \in r.due : <<r.at, y>> \in Less
    BY <1>2, <1>6, <1>7 DEF Links, AtOrAfter
  <2>2. QED
    BY <1>2, <1>5, <1>8, <2>1 DEF Runs
<1>11. QED
  BY <1>1, <1>2, <1>5, <1>8, <1>9, <1>10 DEF HookInv, HookTypes, HooksOrdered

\* The link of the hook that was called leads to the next one that is due.
LEMMA ReturnKeeps ==
  ASSUME HookInv, NEW data \in Events \union {Nil}, List!Return(data)
  PROVE  HookInv'
<1>1. HookTypes /\ HooksOrdered
  BY DEF HookInv
<1>2. PICK Less \in SUBSET (Hooks \X Hooks), L \in SUBSET Hooks :
        Order(Less) /\ Links(Less, L) /\ ByPriority(Less, L) /\ Runs(Less, L)
  BY <1>1 DEF HooksOrdered
<1>3. /\ runs \in Seq(RunRecord) /\ runs # <<>>
      /\ first' = first /\ succ' = succ /\ fresh' = fresh /\ Added' = Added
  BY <1>1 DEF HookTypes, List!Return, Added
<1>4. PICK r : r = Head(runs)
  OBVIOUS
<1>5. r \in RunRecord /\ r = runs[1] /\ 1 \in DOMAIN runs
  BY <1>3, <1>4
<1>6. PICK next : next = succ[r.at]
  OBVIOUS
<1>7. PICK q : q = [r EXCEPT !.at = next, !.data = data, !.due = @ \ {next}]
  OBVIOUS
<1>8. runs' = IF next = Nil THEN Tail(runs) ELSE <<q>> \o Tail(runs)
  BY <1>4, <1>6, <1>7 DEF List!Return
<1>9. /\ Tail(runs) \in Seq(RunRecord)
      /\ \A i \in DOMAIN Tail(runs) : i + 1 \in DOMAIN runs /\ Tail(runs)[i] = runs[i + 1]
  BY <1>3
<1>10. Links(Less, L)' /\ Order(Less)' /\ ByPriority(Less, L)'
  BY <1>2, <1>3 DEF Links, Order, ByPriority, AtOrAfter
<1>11. CASE next = Nil
  <2>1. runs' \in Seq(RunRecord) /\ HookTypes'
    BY <1>1, <1>3, <1>8, <1>9, <1>11 DEF HookTypes
  <2>2. Runs(Less, L)'
    BY <1>2, <1>3, <1>8, <1>9, <1>11 DEF Runs
  <2>3. QED
    BY <1>2, <1>10, <2>1, <2>2 DEF HookInv, HooksOrdered
<1>12. CASE next # Nil
  <2>1. r.at \in Added /\ r.due \subseteq L /\ \A y \in r.due : <<r.at, y>> \in Less
    BY <1>2, <1>5 DEF Runs
  <2>2. <<r.at, next>> \in Less
    BY <1>2, <1>6, <1>12, <2>1 DEF Links
  <2>3. next \in Added /\ next \in Hooks
    BY <1>2, <2>2 DEF Order, Added
  <2>4. /\ q \in RunRecord /\ q.at = next /\ q.due = r.due \ {next}
    BY <1>5, <1>7, <2>3 DEF RunRecord
  <2>5. ASSUME NEW y \in q.due PROVE y \in L /\ <<q.at, y>> \in Less
    <3>1. y \in L /\ y # next /\ <<r.at, y>> \in Less
      BY <2>1, <2>4
    <3>2. AtOrAfter(Less, next, y)
      BY <1>2, <1>6, <2>1, <3>1 DEF Links
    <3>3. QED
      BY <2>4, <3>1, <3>2 DEF AtOrAfter
  <2>6. PICK t : t = Tail(runs)
    OBVIOUS
  <2>7. t \in Seq(RunRecord) /\ runs' = <<q>> \o t
    BY <1>8, <1>9, <1>12, <2>6
  <2>8. \A i \in DOMAIN (<<q>> \o t) :
          (<<q>> \o t)[i] = q \/ (i - 1 \in DOMAIN t /\ (<<q>> \o t)[i] = t[i - 1])
    BY <2>4, <2>7
  <2>9. \A i \in DOMAIN runs' : runs'[i] = q \/ \E j \in DOMAIN runs : runs'[i] = runs[j]
    BY <1>9, <2>6, <2>7, <2>8
  <2>10. runs' \in Seq(RunRecord) /\ HookTypes'
    BY <1>1, <1>3, <2>4, <2>7 DEF HookTypes
  <2>11. Runs(Less, L)'
    BY <1>2, <1>3, <2>3, <2>4, <2>5, <2>9 DEF Runs
  <2>12. QED
    BY <1>2, <1>10, <2>10, <2>11 DEF HookInv, HooksOrdered
<1>13. QED
  BY <1>11, <1>12

-----------------------------------------------------------------------------
(* The hooks in the system.                                                *)

\* What a run hands on is an event or nothing.
LEMMA DataTyped ==
  ASSUME HookInv, runs # <<>>
  PROVE  Head(runs).data \in Events \union {Nil}
<1>1. runs \in Seq(RunRecord)
  BY DEF HookInv, HookTypes
<1>2. Head(runs) \in RunRecord
  BY <1>1
<1>3. QED
  BY <1>2 DEF RunRecord

\* One hook, of eventqueue.bmx, and no RunHooks.
LEMMA HookInit == Init => HookInv
<1> SUFFICES ASSUME Init PROVE HookInv
  OBVIOUS
<1>1. /\ first = QueueHook /\ QueueHook \in Hooks /\ Nil \notin Hooks
      /\ succ = [h \in Hooks |-> Nil]
      /\ fresh = Hooks \ {QueueHook} /\ Added = {QueueHook}
      /\ runs = <<>>
  BY SystemAssumption DEF Init, Added
<1>2. HookTypes
  BY <1>1 DEF HookTypes
<1>3. PICK L : L = {QueueHook}
  OBVIOUS
<1>4. Order({}) /\ ByPriority({}, L) /\ Runs({}, L)
  BY <1>1 DEF Order, ByPriority, Runs
<1>5. Links({}, L)
  BY <1>1, <1>3 DEF Links, Ends, AtOrAfter
<1>6. {} \in SUBSET (Hooks \X Hooks) /\ L \in SUBSET Hooks
  BY <1>1, <1>3
<1>7. HooksOrdered
  BY <1>4, <1>5, <1>6 DEF HooksOrdered
<1>8. QED
  BY <1>2, <1>7 DEF HookInv

\* Every step keeps the order of the hooks.
LEMMA HookStep == HookInv /\ [Next]_vars => HookInv'
<1> SUFFICES ASSUME HookInv, [Next]_vars PROVE HookInv'
  OBVIOUS
<1>1. CASE UNCHANGED hookVars
  <2>1. PICK Less \in SUBSET (Hooks \X Hooks), L \in SUBSET Hooks :
          Order(Less) /\ Links(Less, L) /\ ByPriority(Less, L) /\ Runs(Less, L)
    BY DEF HookInv, HooksOrdered
  <2>2. first' = first /\ succ' = succ /\ runs' = runs /\ fresh' = fresh /\ Added' = Added
    BY <1>1 DEF hookVars, Added
  <2>3. Order(Less)' /\ ByPriority(Less, L)' /\ HookTypes'
    BY <2>1, <2>2 DEF Order, ByPriority, HookInv, HookTypes
  <2>4. Links(Less, L)'
    BY <2>1, <2>2 DEF Links, AtOrAfter
  <2>5. Runs(Less, L)'
    BY <2>1, <2>2 DEF Runs
  <2>6. QED
    BY <2>3, <2>4, <2>5 DEF HookInv, HooksOrdered
<1>2. ASSUME NEW event \in Events, EmitEvent(event) PROVE HookInv'
  BY <1>2, BeginKeeps DEF EmitEvent
<1>3. ASSUME NEW event \in Events, PostEvent(event, event.key \in Updating) PROVE HookInv'
  BY <1>1, <1>3 DEF PostEvent
<1>4. ASSUME NEW h \in Hooks, AddHook(h) PROVE HookInv'
  BY <1>4, AddKeeps DEF AddHook
<1>5. ASSUME NEW h \in Hooks, RemoveHook(h) PROVE HookInv'
  BY <1>5, RemoveKeeps DEF RemoveHook
<1>6. CASE HookReturns
  <2>1. PICK data \in {Head(runs).data, Nil} : List!Return(data)
    BY <1>6 DEF HookReturns, Returns
  <2>2. runs # <<>>
    BY <2>1 DEF List!Return
  <2>3. data \in Events \union {Nil}
    BY <2>2, DataTyped
  <2>4. QED
    BY <2>1, <2>3, ReturnKeeps
<1>7. CASE Hook
  <2>1. PICK data \in {Head(runs).data, Nil} : List!Return(data)
    BY <1>7 DEF Hook, Returns
  <2>2. runs # <<>>
    BY <2>1 DEF List!Return
  <2>3. data \in Events \union {Nil}
    BY <2>2, DataTyped
  <2>4. QED
    BY <2>1, <2>3, ReturnKeeps
<1>8. CASE PollEvent
  BY <1>1, <1>8 DEF PollEvent
<1>9. CASE PollSystemReturns
  BY <1>1, <1>9 DEF PollSystemReturns
<1>10. CASE UNCHANGED vars
  BY <1>1, <1>10 DEF vars
<1>11. QED
  BY <1>2, <1>3, <1>4, <1>5, <1>6, <1>7, <1>8, <1>9, <1>10 DEF Next

\* The order exists throughout.
LEMMA HookInvariant == Spec => []HookInv
BY HookInit, HookStep, PTL DEF Spec

\* The list of hooks is in order of priority and holds no hook twice, whatever the
\* hook functions add and remove.
THEOREM HooksInOrder == Spec => []Ordered
<1>1. HookInv => Ordered
  BY OrderedNow DEF HookInv
<1>2. QED
  BY <1>1, HookInvariant, PTL

\* RunHooks passes over no hook that stays in the list, for any number of hooks and
\* of runs inside each other.
THEOREM NobodyPassedOver == Spec => []StayersCalled
<1>1. HookInv => StayersCalled
  BY StayersNow DEF HookInv
<1>2. QED
  BY <1>1, HookInvariant, PTL

-----------------------------------------------------------------------------
(* The ring.                                                               *)

QueueTypes ==
  /\ put \in Counters /\ get \in Counters
  /\ slots \in [Queue!Slots -> Objects \union {Nil}]
  /\ object \in [Objects -> Events \union {NullEvent}]
  /\ current \in Objects \union {Nil}

\* The slot holds an object.
Occupied(g, n, s) == \E i \in 0 .. n - 1 : s = SlotAt(g, i)

\* RingExact, with the slots counted from g on.
Exact(g, n, sl, cur) ==
  /\ n <= QueueSize
  /\ \A s \in Queue!Slots : sl[s] # Nil <=> Occupied(g, n, s)
  /\ \A s, t \in Queue!Slots : sl[s] = sl[t] /\ sl[s] # Nil => s = t
  /\ cur # Nil => \A s \in Queue!Slots : sl[s] # cur

RingInv == QueueTypes /\ Exact(get, Count(get, put), slots, current)

\* A counter leads to a slot.
LEMMA SlotTyped ==
  ASSUME NEW g \in Counters, NEW i \in Int
  PROVE  SlotAt(g, i) \in Queue!Slots
<1>1. g + i \in Int /\ QueueSize \in Nat \ {0}
  BY CapacityIs DEF Counters
<1>2. (g + i) % QueueSize \in 0 .. QueueSize - 1
  BY <1>1, Division
<1>3. QED
  BY <1>2 DEF SlotAt, Queue!Slots

\* As many numbers in a row as there are slots lead to all of them.
LEMMA SlotsDistinct ==
  ASSUME NEW g \in Counters, NEW i \in 0 .. QueueSize - 1, NEW j \in 0 .. QueueSize - 1,
         SlotAt(g, i) = SlotAt(g, j)
  PROVE  i = j
<1>1. g \in Int /\ QueueSize \in Nat
  BY CapacityIs DEF Counters
<1>2. CASE i >= j
  <2>1. i \in Int /\ j \in Int /\ i - j \in 0 .. QueueSize - 1
    BY <1>1, <1>2
  <2>2. QED
    BY <1>1, <2>1, SlotsApart DEF SlotAt
<1>3. CASE j >= i
  <2>1. i \in Int /\ j \in Int /\ j - i \in 0 .. QueueSize - 1
    BY <1>1, <1>3
  <2>2. QED
    BY <1>1, <2>1, SlotsApart DEF SlotAt
<1>4. QED
  BY <1>1, <1>2, <1>3

\* The ring as the code computes it, for any counters.
RawRing(g, p) ==
  [i \in 1 .. Count(g, p) |-> ((g + (i - 1)) % Capacity) % QueueSize]

\* The reduction of the counters does not change the slots they lead to.
LEMMA RingIs ==
  ASSUME NEW g \in Counters, NEW p \in Counters
  PROVE  RawRing(g, p) = RingOf(g, p)
<1>1. ASSUME NEW i \in 1 .. Count(g, p)
      PROVE  ((g + (i - 1)) % Capacity) % QueueSize = SlotAt(g, i - 1)
  <2>1. PICK a \in Int : a = g + (i - 1)
    BY CapacityIs DEF Counters
  <2>2. QED
    BY <2>1, SlotOf DEF SlotAt
<1>2. QED
  BY <1>1 DEF RawRing, RingOf

\* The definitions of EventQueue in terms of the counters.
LEMMA QueueIs ==
  ASSUME QueueTypes
  PROVE  /\ Queue!InQueue = Count(get, put)
         /\ Queue!Ring = RingOf(get, put)
         /\ Queue!Slot(put) = SlotAt(get, Count(get, put))
         /\ Queue!Slot(get) = SlotAt(get, 0)
         /\ Queue!Empty <=> Count(get, put) = 0
         /\ Count(get, put) \in Counters
<1>1. get \in Counters /\ put \in Counters /\ get \in Int
  BY CapacityIs DEF QueueTypes, Counters
<1>2. Queue!InQueue = Count(get, put)
  BY DEF Queue!InQueue, Count, Capacity
<1>3. Queue!Ring = RawRing(get, put)
  BY <1>2 DEF Queue!Ring, Queue!Slot, Queue!Plus, RawRing, Capacity
<1>4. Queue!Ring = RingOf(get, put)
  BY <1>1, <1>3, RingIs
<1>5. Queue!Slot(put) = SlotAt(get, Count(get, put)) /\ Count(get, put) \in Counters
  BY <1>1, Distance DEF Queue!Slot
<1>6. Queue!Slot(get) = SlotAt(get, 0)
  <2>1. get + 0 = get
    BY <1>1
  <2>2. QED
    BY <2>1 DEF Queue!Slot, SlotAt
<1>7. Queue!Empty <=> Count(get, put) = 0
  BY <1>1, Distance DEF Queue!Empty
<1>8. QED
  BY <1>2, <1>4, <1>5, <1>6, <1>7

\* The invariant implies the property of the ring.
LEMMA RingExactNow == RingInv => RingExact
<1> SUFFICES ASSUME RingInv PROVE RingExact
  OBVIOUS
<1>1. /\ get \in Counters /\ Count(get, put) \in Counters
      /\ Queue!InQueue = Count(get, put) /\ Queue!Ring = RingOf(get, put)
  BY QueueIs DEF RingInv, QueueTypes
<1>2. PICK n \in Nat : n = Count(get, put)
  BY <1>1, CapacityIs DEF Counters
<1>3. Exact(get, n, slots, current)
  BY <1>2 DEF RingInv
<1>4. Queue!Ring = [i \in 1 .. n |-> SlotAt(get, i - 1)]
  BY <1>1, <1>2 DEF RingOf
<1>5. ASSUME NEW s PROVE s \in Queue!Range(Queue!Ring) <=> Occupied(get, n, s)
  <2>1. Queue!Range(Queue!Ring) = {SlotAt(get, i - 1) : i \in 1 .. n}
    BY <1>4 DEF Queue!Range
  <2>2. ASSUME NEW i \in 1 .. n, s = SlotAt(get, i - 1) PROVE Occupied(get, n, s)
    <3>1. i - 1 \in 0 .. n - 1
      BY <1>2
    <3>2. QED
      BY <2>2, <3>1 DEF Occupied
  <2>3. ASSUME NEW i \in 0 .. n - 1, s = SlotAt(get, i)
        PROVE  \E j \in 1 .. n : s = SlotAt(get, j - 1)
    <3>1. i + 1 \in 1 .. n /\ (i + 1) - 1 = i
      BY <1>2
    <3>2. QED
      BY <2>3, <3>1
  <2>4. QED
    BY <2>1, <2>2, <2>3 DEF Occupied
<1>6. \A s : Occupied(get, n, s) => s \in Queue!Slots
  <2>1. \A i \in 0 .. n - 1 : SlotAt(get, i) \in Queue!Slots
    BY <1>1, <1>2, SlotTyped
  <2>2. QED
    BY <2>1 DEF Occupied
<1>7. {s \in Queue!Slots : slots[s] # Nil} = Queue!Range(Queue!Ring)
  BY <1>3, <1>5, <1>6 DEF Exact
<1>8. current # Nil => current \notin Queue!Range(slots)
  BY <1>3 DEF Exact, Queue!Range, RingInv, QueueTypes
<1>9. QED
  BY <1>1, <1>2, <1>3, <1>7, <1>8 DEF Exact, RingExact, Queue!RingExact

\* While a slot is free there is an object that is not in use.
LEMMA ObjectLeft ==
  ASSUME RingInv, NEW s \in Queue!Slots, slots[s] = Nil
  PROVE  Queue!Unused # {}
<1>1. SUFFICES ASSUME Queue!Unused = {} PROVE FALSE
  OBVIOUS
<1>2. slots \in [Queue!Slots -> Objects \union {Nil}]
  BY DEF RingInv, QueueTypes
<1>3. PICK f : f = [t \in Queue!Slots |-> IF t = s THEN current ELSE slots[t]]
  OBVIOUS
<1>4. PICK T : T = {f[t] : t \in Queue!Slots}
  OBVIOUS
<1>5. Objects \subseteq T
  <2>1. ASSUME NEW o \in Objects PROVE \E t \in Queue!Slots : f[t] = o
    <3>1. o = current \/ \E t \in Queue!Slots : slots[t] = o
      BY <1>1, <1>2 DEF Queue!Unused, Queue!Range
    <3>2. CASE o = current
      BY <1>3, <3>2
    <3>3. ASSUME NEW t \in Queue!Slots, slots[t] = o PROVE f[t] = o
      BY <1>3, <3>3, SystemAssumption
    <3>4. QED
      BY <3>1, <3>2, <3>3
  <2>2. QED
    BY <1>4, <2>1
<1>6. f \in Surjection(Queue!Slots, T)
  BY <1>3, <1>4 DEF Surjection
<1>7. IsFiniteSet(Queue!Slots) /\ Cardinality(Queue!Slots) = QueueSize
  <2>1. QueueSize \in Nat \ {0}
    BY CapacityIs
  <2>2. /\ IsFiniteSet(0 .. QueueSize - 1)
        /\ Cardinality(0 .. QueueSize - 1) = IF 0 > QueueSize - 1 THEN 0 ELSE (QueueSize - 1) - 0 + 1
    BY <2>1, FS_Interval
  <2>3. QED
    BY <2>1, <2>2 DEF Queue!Slots
<1>8. IsFiniteSet(T) /\ Cardinality(T) <= QueueSize
  BY <1>6, <1>7, FS_Surjection
<1>9. IsFiniteSet(Objects) /\ Cardinality(Objects) <= Cardinality(T)
  BY <1>5, <1>8, FS_Subset
<1>10. Cardinality(Objects) > QueueSize
  BY <1>9, SystemAssumption
<1>11. Cardinality(Objects) \in Nat /\ Cardinality(T) \in Nat /\ QueueSize \in Nat
  BY <1>8, <1>9, FS_CardinalityType, CapacityIs
<1>12. QED
  BY <1>8, <1>9, <1>10, <1>11

-----------------------------------------------------------------------------
(* The operations of EventQueue, in terms of the ring and of EventFifo.    *)

\* The events in n slots from g on.
EventsFrom(g, n, sl, ob) == [i \in 1 .. n |-> ob[sl[SlotAt(g, i - 1)]]]

\* An event posted when a slot is free gets an object that nobody uses.
LEMMA AddEffect ==
  ASSUME RingInv, NEW event \in Events, Queue!Add(event), Queue!InQueue # QueueSize
  PROVE  \E o \in Objects, n \in 0 .. QueueSize - 1 :
           /\ n = Count(get, put) /\ Count(get', put') = n + 1
           /\ put' \in Counters /\ get' = get /\ current' = current
           /\ slots[SlotAt(get, n)] = Nil
           /\ current # o /\ \A s \in Queue!Slots : slots[s] # o
           /\ slots' = [slots EXCEPT ![SlotAt(get, n)] = o]
           /\ object' = [object EXCEPT ![o] = event]
<1>1. /\ QueueTypes /\ get \in Counters /\ put \in Counters /\ QueueSize \in Nat
      /\ Exact(get, Count(get, put), slots, current)
  BY CapacityIs DEF RingInv, QueueTypes
<1>2. /\ Queue!InQueue = Count(get, put) /\ Queue!Slot(put) = SlotAt(get, Count(get, put))
      /\ Count(get, put) \in Counters
  BY <1>1, QueueIs
<1>3. PICK n \in 0 .. QueueSize - 1 : n = Count(get, put)
  BY <1>1, <1>2, CapacityIs DEF Exact, Counters
<1>4. PICK s \in Queue!Slots : s = SlotAt(get, n)
  BY <1>1, <1>3, SlotTyped
<1>5. slots[s] = Nil
  <2>1. SUFFICES ASSUME Occupied(get, n, s) PROVE FALSE
    BY <1>1, <1>3, <1>4 DEF Exact
  <2>2. PICK i \in 0 .. n - 1 : SlotAt(get, i) = SlotAt(get, n)
    BY <1>4, <2>1 DEF Occupied
  <2>3. i \in 0 .. QueueSize - 1 /\ i # n
    BY <1>1, <2>2
  <2>4. QED
    BY <1>1, <2>2, <2>3, SlotsDistinct
<1>6. PICK o \in Queue!Unused : o = Queue!ObjectFor(s)
  BY <1>4, <1>5, ObjectLeft DEF Queue!ObjectFor
<1>7. o \in Objects /\ current # o /\ \A t \in Queue!Slots : slots[t] # o
  BY <1>1, <1>6 DEF Queue!Unused, Queue!Range, QueueTypes
<1>8. /\ slots' = [slots EXCEPT ![s] = o]
      /\ object' = [object EXCEPT ![o] = event]
      /\ put' = (put + 1) % Capacity /\ get' = get /\ current' = current
  BY <1>2, <1>3, <1>4, <1>6 DEF Queue!Add, Queue!Plus, Capacity
<1>9. put' \in Counters /\ Count(get', put') = n + 1
  <2>1. Count(get, put) < QueueSize
    BY <1>1, <1>3
  <2>2. (put + 1) % Capacity \in Counters /\ Count(get, (put + 1) % Capacity) = n + 1
    BY <1>1, <1>3, <2>1, PutOne
  <2>3. QED
    BY <1>8, <2>2
<1>10. QED
  BY <1>3, <1>4, <1>5, <1>7, <1>8, <1>9

\* One more slot is occupied.
LEMMA OneMore ==
  ASSUME NEW g \in Counters, NEW n \in 0 .. QueueSize - 1, NEW s
  PROVE  Occupied(g, n + 1, s) <=> Occupied(g, n, s) \/ s = SlotAt(g, n)
<1>1. n \in Nat /\ \A i : i \in 0 .. (n + 1) - 1 <=> i \in 0 .. n - 1 \/ i = n
  BY CapacityIs
<1>2. QED
  BY <1>1 DEF Occupied

\* An event is posted into a slot that is free, with an object that is.
LEMMA AddKeepsRing ==
  ASSUME RingInv, NEW event \in Events, Queue!Add(event)
  PROVE  RingInv'
<1>1. CASE Queue!InQueue = QueueSize
  <2>1. UNCHANGED queueVars
    BY <1>1 DEF Queue!Add, queueVars
  <2>2. QED
    BY <2>1 DEF queueVars, RingInv, QueueTypes, Exact
<1>2. CASE Queue!InQueue # QueueSize
  <2>1. PICK o \in Objects, n \in 0 .. QueueSize - 1 :
           /\ n = Count(get, put) /\ Count(get', put') = n + 1
           /\ put' \in Counters /\ get' = get /\ current' = current
           /\ slots[SlotAt(get, n)] = Nil
           /\ current # o /\ \A s \in Queue!Slots : slots[s] # o
           /\ slots' = [slots EXCEPT ![SlotAt(get, n)] = o]
           /\ object' = [object EXCEPT ![o] = event]
    BY <1>2, AddEffect
  <2>2. /\ get \in Counters /\ QueueSize \in Nat /\ n + 1 <= QueueSize
        /\ Exact(get, n, slots, current) /\ o # Nil
    BY <2>1, CapacityIs, SystemAssumption DEF RingInv, QueueTypes
  <2>3. QueueTypes'
    BY <2>1 DEF RingInv, QueueTypes
  <2>4. PICK p \in Queue!Slots : p = SlotAt(get, n)
    BY <2>1, <2>2, SlotTyped
  <2>5. /\ slots'[p] = o
        /\ \A s \in Queue!Slots : s # p => slots'[s] = slots[s]
    BY <2>1, <2>4 DEF RingInv, QueueTypes
  <2>6. ASSUME NEW s \in Queue!Slots PROVE slots'[s] # Nil <=> Occupied(get, n + 1, s)
    BY <2>2, <2>4, <2>5, OneMore DEF Exact
  <2>7. ASSUME NEW s \in Queue!Slots, NEW t \in Queue!Slots,
               slots'[s] = slots'[t], slots'[s] # Nil
        PROVE  s = t
    BY <2>1, <2>2, <2>5, <2>7 DEF Exact
  <2>8. current' # Nil => \A s \in Queue!Slots : slots'[s] # current'
    BY <2>1, <2>2, <2>5 DEF Exact
  <2>9. Exact(get', n + 1, slots', current')
    BY <2>1, <2>2, <2>6, <2>7, <2>8 DEF Exact
  <2>10. Exact(get, Count(get, put), slots, current)'
    BY <2>1, <2>9 DEF Exact
  <2>11. QED
    BY <2>3, <2>10 DEF RingInv
<1>3. QED
  BY <1>1, <1>2

\* An event that is updated stays in its slot.
LEMMA UpdateEffect ==
  ASSUME RingInv, NEW event \in Events, Queue!Matches(event) # {}, Queue!Update(event)
  PROVE  \E i \in Queue!Matches(event) :
           /\ \A j \in Queue!Matches(event) : i <= j
           /\ i \in 1 .. Count(get, put)
           /\ slots[SlotAt(get, i - 1)] \in Objects
           /\ object' = [object EXCEPT ![slots[SlotAt(get, i - 1)]] = event]
           /\ UNCHANGED <<slots, put, get, current>>
<1>1. /\ get \in Counters /\ Queue!Ring = RingOf(get, put)
      /\ Count(get, put) \in Counters /\ Count(get, put) \in Nat
  BY QueueIs, CapacityIs DEF RingInv, QueueTypes, Counters
<1>2. PICK M : M = Queue!Matches(event)
  OBVIOUS
<1>3. M \subseteq 1 .. Count(get, put) /\ M # {}
  BY <1>1, <1>2 DEF Queue!Matches, RingOf
<1>4. \E i \in M : \A j \in M : i <= j
  <2>1. M \subseteq Nat
    BY <1>1, <1>3
  <2>2. QED
    BY <1>3, <2>1, LeastNatural
<1>5. PICK i : i = CHOOSE k \in M : \A j \in M : k <= j
  OBVIOUS
<1>6. i \in M /\ \A j \in M : i <= j
  BY <1>4, <1>5
<1>7. i \in 1 .. Count(get, put) /\ Queue!Ring[i] = SlotAt(get, i - 1)
  BY <1>1, <1>3, <1>6 DEF RingOf
<1>8. /\ object' = [object EXCEPT ![slots[Queue!Ring[i]]] = event]
      /\ UNCHANGED <<slots, put, get, current>>
  BY <1>2, <1>5 DEF Queue!Update
<1>9. slots[SlotAt(get, i - 1)] \in Objects
  <2>1. i - 1 \in 0 .. Count(get, put) - 1 /\ i - 1 \in Int
    BY <1>1, <1>7
  <2>2. Occupied(get, Count(get, put), SlotAt(get, i - 1))
    BY <2>1 DEF Occupied
  <2>3. SlotAt(get, i - 1) \in Queue!Slots
    BY <1>1, <2>1, SlotTyped
  <2>4. QED
    BY <2>2, <2>3 DEF RingInv, Exact, QueueTypes
<1>10. QED
  BY <1>2, <1>6, <1>7, <1>8, <1>9

\* Slots and objects stay where they are.
LEMMA UpdateKeepsRing ==
  ASSUME RingInv, NEW event \in Events, Queue!Matches(event) # {}, Queue!Update(event)
  PROVE  RingInv'
<1>1. PICK o \in Objects : /\ object' = [object EXCEPT ![o] = event]
                           /\ UNCHANGED <<slots, put, get, current>>
  BY UpdateEffect
<1>2. QueueTypes'
  <2>1. QueueTypes /\ object \in [Objects -> Events \union {NullEvent}]
    BY DEF RingInv, QueueTypes
  <2>2. object' \in [Objects -> Events \union {NullEvent}]
    BY <1>1, <2>1
  <2>3. QED
    BY <1>1, <2>1, <2>2 DEF QueueTypes
<1>3. Exact(get, Count(get, put), slots, current)'
  BY <1>1 DEF RingInv, Exact
<1>4. QED
  BY <1>2, <1>3 DEF RingInv

\* What is polled leaves its slot and becomes the current event.
LEMMA TakeEffect ==
  ASSUME RingInv, Queue!Take
  PROVE  \E n \in 0 .. QueueSize - 1, p \in Queue!Slots :
           /\ Count(get, put) = n + 1 /\ Count(get', put') = n
           /\ get' \in Counters /\ put' = put
           /\ \A i \in Int : SlotAt(get', i) = SlotAt(get, i + 1)
           /\ p = SlotAt(get, 0) /\ slots[p] \in Objects
           /\ current' = slots[p]
           /\ slots' = [slots EXCEPT ![p] = Nil]
           /\ object' = IF current = Nil THEN object ELSE [object EXCEPT ![current] = NullEvent]
<1>1. /\ get \in Counters /\ put \in Counters /\ QueueSize \in Nat
      /\ Exact(get, Count(get, put), slots, current)
      /\ slots \in [Queue!Slots -> Objects \union {Nil}]
  BY CapacityIs DEF RingInv, QueueTypes
<1>2. /\ Queue!Slot(get) = SlotAt(get, 0) /\ Count(get, put) # 0
      /\ Count(get, put) \in Nat
  BY QueueIs, CapacityIs DEF RingInv, Queue!Take, Counters
<1>3. PICK n \in 0 .. QueueSize - 1 : Count(get, put) = n + 1
  <2>1. PICK c \in Nat : c = Count(get, put)
    BY <1>2
  <2>2. c # 0 /\ c <= QueueSize
    BY <1>1, <1>2, <2>1 DEF Exact
  <2>3. c - 1 \in 0 .. QueueSize - 1 /\ c = (c - 1) + 1
    BY <1>1, <2>2
  <2>4. QED
    BY <2>1, <2>3
<1>4. PICK p \in Queue!Slots : p = SlotAt(get, 0)
  BY <1>1, SlotTyped
<1>5. slots[p] \in Objects
  <2>1. Occupied(get, Count(get, put), p)
    <3>1. 0 \in 0 .. Count(get, put) - 1
      BY <1>1, <1>3
    <3>2. QED
      BY <1>4, <3>1 DEF Occupied
  <2>2. QED
    BY <1>1, <2>1 DEF Exact
<1>6. /\ current' = slots[p]
      /\ slots' = [slots EXCEPT ![p] = Nil]
      /\ object' = IF current = Nil THEN object ELSE [object EXCEPT ![current] = NullEvent]
      /\ get' = (get + 1) % Capacity /\ put' = put
  BY <1>2, <1>4 DEF Queue!Take, Queue!Plus, Capacity
<1>7. get # put
  BY <1>1, <1>2, Distance
<1>8. /\ get' \in Counters /\ Count(get', put') = Count(get, put) - 1
      /\ \A i \in Int : SlotAt(get', i) = SlotAt(get, i + 1)
  BY <1>1, <1>6, <1>7, GetOne
<1>9. Count(get', put') = n
  BY <1>3, <1>8, CapacityIs
<1>10. QED
  BY <1>3, <1>4, <1>5, <1>6, <1>8, <1>9

\* One slot less is occupied.
LEMMA OneLess ==
  ASSUME NEW g \in Counters, NEW h \in Counters, NEW n \in 0 .. QueueSize - 1,
         \A i \in Int : SlotAt(h, i) = SlotAt(g, i + 1), NEW s
  PROVE  Occupied(h, n, s) <=> Occupied(g, n + 1, s) /\ s # SlotAt(g, 0)
<1>1. n \in Nat /\ QueueSize \in Nat
  BY CapacityIs
<1>2. ASSUME NEW i \in 0 .. n - 1, s = SlotAt(h, i)
      PROVE  Occupied(g, n + 1, s) /\ s # SlotAt(g, 0)
  <2>1. i + 1 \in 0 .. (n + 1) - 1 /\ i + 1 \in 0 .. QueueSize - 1 /\ i + 1 # 0
        /\ 0 \in 0 .. QueueSize - 1 /\ i \in Int
    BY <1>1
  <2>2. s = SlotAt(g, i + 1)
    BY <1>2, <2>1
  <2>3. s # SlotAt(g, 0)
    BY <2>1, <2>2, SlotsDistinct
  <2>4. QED
    BY <2>1, <2>2, <2>3 DEF Occupied
<1>3. ASSUME NEW i \in 0 .. (n + 1) - 1, s = SlotAt(g, i), s # SlotAt(g, 0)
      PROVE  Occupied(h, n, s)
  <2>1. i - 1 \in 0 .. n - 1 /\ i - 1 \in Int /\ (i - 1) + 1 = i
    BY <1>1, <1>3
  <2>2. s = SlotAt(h, i - 1)
    BY <1>3, <2>1
  <2>3. QED
    BY <2>1, <2>2 DEF Occupied
<1>4. QED
  BY <1>2, <1>3 DEF Occupied

\* The object of CurrentEvent has left its slot.
LEMMA TakeKeepsRing ==
  ASSUME RingInv, Queue!Take
  PROVE  RingInv'
<1>1. PICK n \in 0 .. QueueSize - 1, p \in Queue!Slots :
           /\ Count(get, put) = n + 1 /\ Count(get', put') = n
           /\ get' \in Counters /\ put' = put
           /\ \A i \in Int : SlotAt(get', i) = SlotAt(get, i + 1)
           /\ p = SlotAt(get, 0) /\ slots[p] \in Objects
           /\ current' = slots[p]
           /\ slots' = [slots EXCEPT ![p] = Nil]
           /\ object' = IF current = Nil THEN object ELSE [object EXCEPT ![current] = NullEvent]
  BY TakeEffect
<1>2. /\ get \in Counters /\ QueueSize \in Nat /\ Exact(get, n + 1, slots, current)
      /\ slots \in [Queue!Slots -> Objects \union {Nil}] /\ current \in Objects \union {Nil}
      /\ object \in [Objects -> Events \union {NullEvent}] /\ put \in Counters
      /\ Nil \notin Objects
  BY <1>1, CapacityIs, SystemAssumption DEF RingInv, QueueTypes
<1>3. QueueTypes'
  <2>1. object' \in [Objects -> Events \union {NullEvent}]
    BY <1>1, <1>2
  <2>2. slots' \in [Queue!Slots -> Objects \union {Nil}]
    BY <1>1, <1>2
  <2>3. QED
    BY <1>1, <1>2, <2>1, <2>2 DEF QueueTypes
<1>4. /\ slots'[p] = Nil
      /\ \A s \in Queue!Slots : s # p => slots'[s] = slots[s]
  BY <1>1, <1>2
<1>5. ASSUME NEW s \in Queue!Slots PROVE slots'[s] # Nil <=> Occupied(get', n, s)
  <2>1. Occupied(get', n, s) <=> Occupied(get, n + 1, s) /\ s # p
    BY <1>1, <1>2, OneLess
  <2>2. QED
    BY <1>2, <1>4, <2>1 DEF Exact
<1>6. ASSUME NEW s \in Queue!Slots, NEW t \in Queue!Slots,
             slots'[s] = slots'[t], slots'[s] # Nil
      PROVE  s = t
  BY <1>2, <1>4, <1>6 DEF Exact
<1>7. ASSUME NEW s \in Queue!Slots PROVE slots'[s] # current'
  BY <1>1, <1>2, <1>4 DEF Exact
<1>8. n <= QueueSize
  BY <1>2
<1>9. Exact(get', n, slots', current')
  BY <1>5, <1>6, <1>7, <1>8 DEF Exact
<1>10. Exact(get, Count(get, put), slots, current)'
  BY <1>1, <1>9 DEF Exact
<1>11. QED
  BY <1>3, <1>10 DEF RingInv

\* NullEvent is in no slot.
LEMMA TakeNothingKeepsRing ==
  ASSUME RingInv, Queue!TakeNothing
  PROVE  RingInv'
<1>1. QueueTypes'
  <2>1. object \in [Objects -> Events \union {NullEvent}]
    BY DEF RingInv, QueueTypes
  <2>2. object' \in [Objects -> Events \union {NullEvent}]
    BY <2>1 DEF Queue!TakeNothing
  <2>3. QED
    BY <2>2 DEF Queue!TakeNothing, RingInv, QueueTypes
<1>2. Exact(get, Count(get, put), slots, current)'
  BY DEF Queue!TakeNothing, RingInv, Exact
<1>3. QED
  BY <1>1, <1>2 DEF RingInv

-----------------------------------------------------------------------------
(* The ring in the system.                                                 *)

\* The queue starts without events.
LEMMA RingInit == Init => RingInv
<1> SUFFICES ASSUME Init PROVE RingInv
  OBVIOUS
<1>1. /\ slots = [s \in Queue!Slots |-> Nil]
      /\ object = [o \in Objects |-> NullEvent]
      /\ put = 0 /\ get = 0 /\ current = Nil
  BY DEF Init, Queue!Init
<1>2. 0 \in Counters
  BY CapacityIs DEF Counters
<1>3. QueueTypes
  BY <1>1, <1>2 DEF QueueTypes
<1>4. Count(get, put) = 0
  BY <1>1, <1>2, Distance
<1>5. \A s : ~ Occupied(get, 0, s)
  BY DEF Occupied
<1>6. Exact(get, 0, slots, current)
  BY <1>1, <1>5, CapacityIs DEF Exact
<1>7. QED
  BY <1>3, <1>4, <1>6 DEF RingInv

\* Events of some kinds are posted with update, the others without.
LEMMA PostedSomehow ==
  ASSUME NEW event, Queue!PostEvent(event, event.key \in Updating)
  PROVE  \E update \in BOOLEAN : Queue!PostEvent(event, update)
<1>1. CASE event.key \in Updating
  <2>1. Queue!PostEvent(event, TRUE)
    BY <1>1 DEF Queue!PostEvent
  <2>2. QED
    BY <2>1
<1>2. CASE event.key \notin Updating
  <2>1. Queue!PostEvent(event, FALSE)
    BY <1>2 DEF Queue!PostEvent
  <2>2. QED
    BY <2>1
<1>3. QED
  BY <1>1, <1>2

\* What a step does to the ring: it posts an event, polls one or none, or leaves
\* the ring alone.
LEMMA StepOfQueue ==
  ASSUME HookInv, [Next]_vars
  PROVE  \/ \E event \in Events, update \in BOOLEAN : Queue!PostEvent(event, update)
         \/ Queue!Take
         \/ Queue!TakeNothing
         \/ UNCHANGED queueVars
<1>1. ASSUME NEW event \in Events, PostEvent(event, event.key \in Updating)
      PROVE  \E update \in BOOLEAN : Queue!PostEvent(event, update)
  BY <1>1, PostedSomehow DEF PostEvent
<1>2. ASSUME Hook
      PROVE  \/ \E event \in Events, update \in BOOLEAN : Queue!PostEvent(event, update)
             \/ UNCHANGED queueVars
  <2>1. PICK event : event = Head(runs).data
    OBVIOUS
  <2>2. event \in Events \union {Nil}
    <3>1. runs # <<>>
      BY <1>2 DEF Hook, Returns, List!Return
    <3>2. QED
      BY <2>1, <3>1, DataTyped
  <2>3. event = Nil => UNCHANGED queueVars
    BY <1>2, <2>1 DEF Hook
  <2>4. event # Nil => \E update \in BOOLEAN : Queue!PostEvent(event, update)
    BY <1>2, <2>1, PostedSomehow DEF Hook
  <2>5. QED
    BY <2>2, <2>3, <2>4
<1>3. ASSUME NEW event \in Events, EmitEvent(event) PROVE UNCHANGED queueVars
  BY <1>3 DEF EmitEvent
<1>4. ASSUME NEW h \in Hooks, AddHook(h) \/ RemoveHook(h) PROVE UNCHANGED queueVars
  BY <1>4 DEF AddHook, RemoveHook
<1>5. HookReturns => UNCHANGED queueVars
  BY DEF HookReturns
<1>6. PollEvent => Queue!Take \/ UNCHANGED queueVars
  BY DEF PollEvent
<1>7. PollSystemReturns => Queue!Take \/ Queue!TakeNothing
  BY DEF PollSystemReturns
<1>8. UNCHANGED vars => UNCHANGED queueVars
  BY DEF vars
<1>9. QED
  BY <1>1, <1>2, <1>3, <1>4, <1>5, <1>6, <1>7, <1>8 DEF Next

\* Every step of the system keeps the ring exact.
LEMMA RingStep == HookInv /\ RingInv /\ [Next]_vars => RingInv'
<1> SUFFICES ASSUME HookInv, RingInv, [Next]_vars PROVE RingInv'
  OBVIOUS
<1>1. ASSUME NEW event \in Events, NEW update \in BOOLEAN, Queue!PostEvent(event, update)
      PROVE  RingInv'
  BY <1>1, AddKeepsRing, UpdateKeepsRing DEF Queue!PostEvent
<1>2. CASE UNCHANGED queueVars
  BY <1>2 DEF queueVars, RingInv, QueueTypes, Exact
<1>3. QED
  BY <1>1, <1>2, TakeKeepsRing, TakeNothingKeepsRing, StepOfQueue

\* The ring is exact throughout.
LEMMA RingInvariant == Spec => []RingInv
BY RingInit, RingStep, HookInvariant, PTL DEF Spec

\* Exactly the slots between the counters hold an object, each its own, for any size of
\* the ring and of the counters, however often these wrap.
THEOREM SlotsExact == Spec => []RingExact
BY RingInvariant, RingExactNow, PTL

-----------------------------------------------------------------------------
(* The refinement of EventFifo.                                            *)

\* The queue as a sequence, in terms of the counters.
LEMMA QueuedIs ==
  ASSUME QueueTypes
  PROVE  Queue!Queued = EventsFrom(get, Count(get, put), slots, object)
<1>1. Queue!Ring = RingOf(get, put)
  BY QueueIs
<1>2. QED
  BY <1>1 DEF Queue!Queued, RingOf, EventsFrom

\* The same for the state after a step.
LEMMA QueuedIsNext ==
  ASSUME QueueTypes'
  PROVE  Queue!Queued' = EventsFrom(get', Count(get', put'), slots', object')
<1>1. RawRing(get', put') = RingOf(get', put')
  BY RingIs DEF QueueTypes
<1>2. Queue!Ring' = RawRing(get', put')
  BY DEF Queue!Ring, Queue!InQueue, Queue!Slot, Queue!Plus, RawRing, Count, Capacity
<1>3. QED
  BY <1>1, <1>2 DEF Queue!Queued, RingOf, EventsFrom

\* The slots of the ring, as those of its objects.
LEMMA SlotsOfRing ==
  ASSUME RingInv, NEW i \in 1 .. Count(get, put)
  PROVE  /\ i - 1 \in 0 .. QueueSize - 1
         /\ SlotAt(get, i - 1) \in Queue!Slots
         /\ slots[SlotAt(get, i - 1)] \in Objects
         /\ slots[SlotAt(get, i - 1)] # current
         /\ object[slots[SlotAt(get, i - 1)]] \in Events \union {NullEvent}
<1>1. /\ get \in Counters /\ put \in Counters /\ QueueSize \in Nat
      /\ Exact(get, Count(get, put), slots, current)
      /\ slots \in [Queue!Slots -> Objects \union {Nil}] /\ current \in Objects \union {Nil}
      /\ object \in [Objects -> Events \union {NullEvent}] /\ Nil \notin Objects
  BY CapacityIs, SystemAssumption DEF RingInv, QueueTypes
<1>2. PICK n \in Nat : n = Count(get, put)
  BY <1>1, Distance, CapacityIs DEF Counters
<1>3. i - 1 \in 0 .. n - 1 /\ i - 1 \in Int /\ n <= QueueSize
  BY <1>1, <1>2 DEF Exact
<1>4. i - 1 \in 0 .. QueueSize - 1
  BY <1>1, <1>2, <1>3
<1>5. SlotAt(get, i - 1) \in Queue!Slots
  BY <1>1, <1>3, SlotTyped
<1>6. Occupied(get, n, SlotAt(get, i - 1))
  BY <1>3 DEF Occupied
<1>7. slots[SlotAt(get, i - 1)] # Nil
  BY <1>1, <1>2, <1>5, <1>6 DEF Exact
<1>8. slots[SlotAt(get, i - 1)] \in Objects /\ slots[SlotAt(get, i - 1)] # current
  BY <1>1, <1>5, <1>7 DEF Exact
<1>9. QED
  BY <1>1, <1>4, <1>5, <1>8

\* The queue is a sequence as long as the distance of the counters.
LEMMA QueuedType ==
  ASSUME RingInv
  PROVE  /\ Queue!Queued \in Seq(Events \union {NullEvent})
         /\ Len(Queue!Queued) = Count(get, put)
         /\ Count(get, put) \in Nat
         /\ \A i \in 1 .. Count(get, put) :
              Queue!Queued[i] = object[slots[SlotAt(get, i - 1)]]
<1>1. PICK n \in Nat : n = Count(get, put)
  BY QueueIs, CapacityIs DEF RingInv, Counters
<1>2. PICK q : q = Queue!Queued
  OBVIOUS
<1>3. q = [i \in 1 .. n |-> object[slots[SlotAt(get, i - 1)]]]
  BY <1>1, <1>2, QueuedIs DEF RingInv, EventsFrom
<1>4. \A i \in 1 .. n : object[slots[SlotAt(get, i - 1)]] \in Events \union {NullEvent}
  BY <1>1, SlotsOfRing
<1>5. q \in Seq(Events \union {NullEvent}) /\ Len(q) = n
  BY <1>3, <1>4
<1>6. QED
  BY <1>1, <1>2, <1>3, <1>5

\* The same events are found in the ring and in the sequence.
LEMMA SameIs ==
  ASSUME RingInv, NEW event
  PROVE  Queue!Matches(event) = Fifo!Same(event)
<1>1. PICK n \in Nat : n = Count(get, put)
  BY QueuedType
<1>2. Queue!Ring = [i \in 1 .. n |-> SlotAt(get, i - 1)]
  BY <1>1, QueueIs DEF RingInv, RingOf
<1>3. PICK q : q = Queue!Queued
  OBVIOUS
<1>4. q = [i \in 1 .. n |-> object[slots[SlotAt(get, i - 1)]]]
  BY <1>1, <1>3, QueuedIs DEF RingInv, EventsFrom
<1>5. Queue!Matches(event) = {i \in 1 .. n : object[slots[SlotAt(get, i - 1)]].key = event.key}
  BY <1>2 DEF Queue!Matches
<1>6. Fifo!Same(event) = {i \in DOMAIN q : q[i].key = event.key}
  BY <1>3 DEF Fifo!Same
<1>7. QED
  BY <1>4, <1>5, <1>6

\* An event that is added comes last, unless the queue is full.
LEMMA AddIsAppend ==
  ASSUME RingInv, NEW event \in Events, Queue!Add(event)
  PROVE  /\ Queue!Queued' = IF Len(Queue!Queued) < QueueSize
                            THEN Append(Queue!Queued, event)
                            ELSE Queue!Queued
         /\ Queue!Current' = Queue!Current
<1>1. /\ Len(Queue!Queued) = Count(get, put) /\ Count(get, put) \in Nat
      /\ Queue!InQueue = Count(get, put) /\ Count(get, put) <= QueueSize /\ QueueSize \in Nat
  BY QueuedType, QueueIs, CapacityIs DEF RingInv, Exact
<1>2. QueueTypes /\ QueueTypes'
  BY AddKeepsRing DEF RingInv
<1>3. CASE Queue!InQueue = QueueSize
  <2>1. UNCHANGED queueVars
    BY <1>3 DEF Queue!Add, queueVars
  <2>2. Queue!Queued' = Queue!Queued
    BY <1>2, <2>1, QueuedIs, QueuedIsNext DEF queueVars
  <2>3. Queue!Current' = Queue!Current
    BY <2>1 DEF queueVars, Queue!Current
  <2>4. QED
    BY <1>1, <1>3, <2>2, <2>3
<1>4. CASE Queue!InQueue # QueueSize
  <2>1. PICK o \in Objects, n \in 0 .. QueueSize - 1 :
           /\ n = Count(get, put) /\ Count(get', put') = n + 1
           /\ put' \in Counters /\ get' = get /\ current' = current
           /\ slots[SlotAt(get, n)] = Nil
           /\ current # o /\ \A s \in Queue!Slots : slots[s] # o
           /\ slots' = [slots EXCEPT ![SlotAt(get, n)] = o]
           /\ object' = [object EXCEPT ![o] = event]
    BY <1>4, AddEffect
  <2>2. PICK p \in Queue!Slots : p = SlotAt(get, n)
    BY <1>1, <1>2, <2>1, SlotTyped DEF QueueTypes
  <2>3. /\ slots'[p] = o /\ \A s \in Queue!Slots : s # p => slots'[s] = slots[s]
        /\ object'[o] = event /\ \A x \in Objects : x # o => object'[x] = object[x]
    BY <1>2, <2>1, <2>2 DEF QueueTypes
  <2>4. PICK q : q = Queue!Queued
    OBVIOUS
  <2>5. PICK r : r = Queue!Queued'
    OBVIOUS
  <2>6. q \in Seq(Events \union {NullEvent}) /\ Len(q) = n
    BY <2>1, <2>4, QueuedType
  <2>7. q = [i \in 1 .. n |-> object[slots[SlotAt(get, i - 1)]]]
    BY <1>2, <2>1, <2>4, QueuedIs DEF EventsFrom
  <2>8. r = [i \in 1 .. n + 1 |-> object'[slots'[SlotAt(get, i - 1)]]]
    BY <1>2, <2>1, <2>5, QueuedIsNext DEF EventsFrom
  <2>9. ASSUME NEW i \in 1 .. n
        PROVE  object'[slots'[SlotAt(get, i - 1)]] = object[slots[SlotAt(get, i - 1)]]
    <3>1. /\ SlotAt(get, i - 1) \in Queue!Slots
          /\ slots[SlotAt(get, i - 1)] \in Objects
      BY <2>1, SlotsOfRing
    <3>2. SlotAt(get, i - 1) # p
      BY <2>1, <2>2, <3>1, SystemAssumption
    <3>3. QED
      BY <2>1, <2>3, <3>1, <3>2
  <2>10. object'[slots'[SlotAt(get, (n + 1) - 1)]] = event
    BY <2>1, <2>2, <2>3
  <2>11. r = Append(q, event)
    BY <2>1, <2>6, <2>7, <2>8, <2>9, <2>10
  <2>12. Queue!Current' = Queue!Current
    BY <1>2, <2>1, <2>3 DEF Queue!Current, QueueTypes
  <2>13. n < QueueSize
    BY <1>1
  <2>14. QED
    BY <2>4, <2>5, <2>6, <2>11, <2>12, <2>13
<1>5. QED
  BY <1>3, <1>4

\* An event that is updated keeps its place.
LEMMA UpdateIsReplace ==
  ASSUME RingInv, NEW event \in Events, Queue!Matches(event) # {}, Queue!Update(event)
  PROVE  /\ \E i \in Fifo!Same(event) :
              /\ \A j \in Fifo!Same(event) : i <= j
              /\ Queue!Queued' = [Queue!Queued EXCEPT ![i] = event]
         /\ Queue!Current' = Queue!Current
<1>1. PICK i \in Queue!Matches(event) :
           /\ \A j \in Queue!Matches(event) : i <= j
           /\ i \in 1 .. Count(get, put)
           /\ slots[SlotAt(get, i - 1)] \in Objects
           /\ object' = [object EXCEPT ![slots[SlotAt(get, i - 1)]] = event]
           /\ UNCHANGED <<slots, put, get, current>>
  BY UpdateEffect
<1>2. QueueTypes /\ QueueTypes' /\ Exact(get, Count(get, put), slots, current)
  BY UpdateKeepsRing DEF RingInv
<1>3. PICK n \in Nat : n = Count(get, put)
  BY QueuedType
<1>4. PICK q : q = Queue!Queued
  OBVIOUS
<1>5. PICK r : r = Queue!Queued'
  OBVIOUS
<1>6. PICK o \in Objects : o = slots[SlotAt(get, i - 1)]
  BY <1>1
<1>7. q = [j \in 1 .. n |-> object[slots[SlotAt(get, j - 1)]]]
  BY <1>2, <1>3, <1>4, QueuedIs DEF EventsFrom
<1>8. r = [j \in 1 .. n |-> object'[slots[SlotAt(get, j - 1)]]]
  BY <1>1, <1>2, <1>3, <1>5, QueuedIsNext DEF EventsFrom
<1>9. object'[o] = event /\ \A x \in Objects : x # o => object'[x] = object[x]
  BY <1>1, <1>2, <1>6 DEF QueueTypes
<1>10. ASSUME NEW j \in 1 .. n, j # i
       PROVE  object'[slots[SlotAt(get, j - 1)]] = object[slots[SlotAt(get, j - 1)]]
  <2>1. /\ j - 1 \in 0 .. QueueSize - 1 /\ i - 1 \in 0 .. QueueSize - 1
        /\ SlotAt(get, j - 1) \in Queue!Slots /\ SlotAt(get, i - 1) \in Queue!Slots
        /\ slots[SlotAt(get, j - 1)] \in Objects
    BY <1>1, <1>3, SlotsOfRing
  <2>2. SlotAt(get, j - 1) # SlotAt(get, i - 1)
    <3>1. get \in Counters
      BY <1>2 DEF QueueTypes
    <3>2. j - 1 # i - 1
      BY <1>1, <1>3, <1>10
    <3>3. QED
      BY <2>1, <3>1, <3>2, SlotsDistinct
  <2>3. slots[SlotAt(get, j - 1)] # o
    BY <1>2, <1>6, <2>1, <2>2, SystemAssumption DEF Exact
  <2>4. QED
    BY <1>9, <2>1, <2>3
<1>11. r = [q EXCEPT ![i] = event]
  <2>1. object'[slots[SlotAt(get, i - 1)]] = event
    BY <1>6, <1>9
  <2>2. QED
    BY <1>1, <1>3, <1>7, <1>8, <1>10, <2>1
<1>12. Queue!Current' = Queue!Current
  <2>1. current # o /\ current \in Objects \union {Nil}
    BY <1>1, <1>2, <1>6, SlotsOfRing DEF QueueTypes
  <2>2. QED
    BY <1>1, <1>9, <2>1 DEF Queue!Current
<1>13. Queue!Matches(event) = Fifo!Same(event)
  BY SameIs
<1>14. QED
  BY <1>1, <1>4, <1>5, <1>11, <1>12, <1>13

\* What is polled is the first of the sequence, and stays as it is when its object has
\* become that of CurrentEvent.
LEMMA TakeIsPoll ==
  ASSUME RingInv, Queue!Take
  PROVE  Fifo!Poll
<1>1. PICK n \in 0 .. QueueSize - 1, p \in Queue!Slots :
           /\ Count(get, put) = n + 1 /\ Count(get', put') = n
           /\ get' \in Counters /\ put' = put
           /\ \A i \in Int : SlotAt(get', i) = SlotAt(get, i + 1)
           /\ p = SlotAt(get, 0) /\ slots[p] \in Objects
           /\ current' = slots[p]
           /\ slots' = [slots EXCEPT ![p] = Nil]
           /\ object' = IF current = Nil THEN object ELSE [object EXCEPT ![current] = NullEvent]
  BY TakeEffect
<1>2. /\ QueueTypes /\ QueueTypes' /\ get \in Counters /\ QueueSize \in Nat /\ n \in Nat
      /\ slots \in [Queue!Slots -> Objects \union {Nil}]
      /\ object \in [Objects -> Events \union {NullEvent}]
      /\ Nil \notin Objects
  BY TakeKeepsRing, CapacityIs, SystemAssumption DEF RingInv, QueueTypes
<1>3. \A s \in Queue!Slots : s # p => slots'[s] = slots[s]
  BY <1>1, <1>2
<1>4. \A o \in Objects : o # current => object'[o] = object[o]
  BY <1>1, <1>2
<1>5. PICK q : q = Queue!Queued
  OBVIOUS
<1>6. PICK r : r = Queue!Queued'
  OBVIOUS
<1>7. q \in Seq(Events \union {NullEvent}) /\ Len(q) = n + 1
  BY <1>1, <1>5, QueuedType
<1>8. q = [i \in 1 .. n + 1 |-> object[slots[SlotAt(get, i - 1)]]]
  BY <1>1, <1>2, <1>5, QueuedIs DEF EventsFrom
<1>9. r = [i \in 1 .. n |-> object'[slots'[SlotAt(get', i - 1)]]]
  BY <1>1, <1>2, <1>6, QueuedIsNext DEF EventsFrom
<1>10. ASSUME NEW i \in 1 .. n
       PROVE  object'[slots'[SlotAt(get', i - 1)]] = object[slots[SlotAt(get, (i + 1) - 1)]]
  <2>1. /\ i + 1 \in 1 .. Count(get, put) /\ i - 1 \in Int /\ (i - 1) + 1 = (i + 1) - 1
        /\ (i + 1) - 1 # 0 /\ 0 \in 0 .. QueueSize - 1
    BY <1>1, <1>2
  <2>2. PICK s : s = SlotAt(get, (i + 1) - 1)
    OBVIOUS
  <2>3. /\ (i + 1) - 1 \in 0 .. QueueSize - 1 /\ s \in Queue!Slots
        /\ slots[s] \in Objects /\ slots[s] # current
    BY <2>1, <2>2, SlotsOfRing
  <2>4. s # p
    BY <1>1, <1>2, <2>1, <2>2, <2>3, SlotsDistinct
  <2>5. SlotAt(get', i - 1) = s
    BY <1>1, <2>1, <2>2
  <2>6. QED
    BY <1>3, <1>4, <2>2, <2>3, <2>4, <2>5
<1>11. q # <<>> /\ Head(q) = object[slots[SlotAt(get, 1 - 1)]]
  <2>1. 1 \in 1 .. n + 1
    BY <1>2
  <2>2. q[1] = object[slots[SlotAt(get, 1 - 1)]]
    BY <1>8, <2>1
  <2>3. q # <<>> /\ Head(q) = q[1]
    BY <1>2, <1>7
  <2>4. QED
    BY <2>2, <2>3
<1>12. r = Tail(q)
  <2>1. ASSUME NEW i \in 1 .. n PROVE r[i] = q[i + 1]
    <3>1. i + 1 \in 1 .. n + 1
      BY <1>2
    <3>2. q[i + 1] = object[slots[SlotAt(get, (i + 1) - 1)]]
      BY <1>8, <3>1
    <3>3. r[i] = object'[slots'[SlotAt(get', i - 1)]]
      BY <1>9
    <3>4. QED
      BY <1>10, <3>2, <3>3
  <2>2. r = [i \in 1 .. n |-> r[i]]
    BY <1>9
  <2>3. \A i \in 1 .. n : i + 1 \in 1 .. n + 1 /\ q[i + 1] \in Events \union {NullEvent}
    BY <1>2, <1>7
  <2>4. r \in Seq(Events \union {NullEvent}) /\ Len(r) = n
    BY <1>2, <2>1, <2>2, <2>3
  <2>5. /\ Tail(q) \in Seq(Events \union {NullEvent}) /\ Len(Tail(q)) = n
        /\ \A i \in 1 .. n : Tail(q)[i] = q[i + 1]
    BY <1>2, <1>7
  <2>6. QED
    BY <2>1, <2>4, <2>5
<1>13. Queue!Current' = Head(q)
  <2>1. 1 \in 1 .. Count(get, put) /\ 1 - 1 = 0
    BY <1>1, <1>2
  <2>2. slots[p] # current
    BY <1>1, <2>1, SlotsOfRing
  <2>3. Queue!Current' = object'[slots[p]]
    BY <1>1, <1>2 DEF Queue!Current
  <2>4. QED
    BY <1>1, <1>4, <1>11, <2>1, <2>2, <2>3
<1>14. QED
  BY <1>5, <1>6, <1>11, <1>12, <1>13 DEF Fifo!Poll

\* Without a step of the ring the sequence is as it was.
LEMMA QueuedKept ==
  ASSUME RingInv, RingInv', get' = get, put' = put, slots' = slots,
         \A s \in Queue!Slots : slots[s] # Nil => object'[slots[s]] = object[slots[s]]
  PROVE  Queue!Queued' = Queue!Queued
<1>1. QueueTypes /\ QueueTypes'
  BY DEF RingInv
<1>2. PICK n \in Nat : n = Count(get, put)
  BY QueuedType
<1>3. Queue!Queued = [i \in 1 .. n |-> object[slots[SlotAt(get, i - 1)]]]
  BY <1>1, <1>2, QueuedIs DEF EventsFrom
<1>4. Queue!Queued' = [i \in 1 .. n |-> object'[slots[SlotAt(get, i - 1)]]]
  BY <1>1, <1>2, QueuedIsNext DEF EventsFrom
<1>5. \A i \in 1 .. n : object'[slots[SlotAt(get, i - 1)]] = object[slots[SlotAt(get, i - 1)]]
  BY <1>2, SlotsOfRing, SystemAssumption
<1>6. QED
  BY <1>3, <1>4, <1>5

\* An empty ring is an empty sequence, and nothing becomes current.
LEMMA TakeNothingIsPollNothing ==
  ASSUME RingInv, Queue!TakeNothing
  PROVE  Fifo!PollNothing
<1>1. /\ current' = Nil /\ get' = get /\ put' = put /\ slots' = slots
      /\ object' = IF current = Nil THEN object ELSE [object EXCEPT ![current] = NullEvent]
      /\ Queue!Empty
  BY DEF Queue!TakeNothing
<1>2. Queue!Queued = <<>>
  <2>1. Count(get, put) = 0
    BY <1>1, QueueIs DEF RingInv
  <2>2. QED
    BY <2>1, QueuedType
<1>3. \A s \in Queue!Slots : slots[s] # Nil => object'[slots[s]] = object[slots[s]]
  BY <1>1 DEF RingInv, QueueTypes, Exact
<1>4. Queue!Queued' = Queue!Queued
  BY <1>1, <1>3, QueuedKept, TakeNothingKeepsRing
<1>5. Queue!Current' = NullEvent
  BY <1>1 DEF Queue!Current
<1>6. QED
  BY <1>2, <1>4, <1>5 DEF Fifo!PollNothing

\* Posting with update or without is that of EventFifo.
LEMMA PostIsPost ==
  ASSUME RingInv, NEW event \in Events, NEW update, Queue!PostEvent(event, update)
  PROVE  Fifo!Post(event, update)
<1>1. Queue!Matches(event) = Fifo!Same(event)
  BY SameIs
<1>2. CASE update /\ Queue!Matches(event) # {}
  <2>1. Queue!Update(event)
    BY <1>2 DEF Queue!PostEvent
  <2>2. /\ \E i \in Fifo!Same(event) :
              /\ \A j \in Fifo!Same(event) : i <= j
              /\ Queue!Queued' = [Queue!Queued EXCEPT ![i] = event]
        /\ Queue!Current' = Queue!Current
    BY <1>2, <2>1, UpdateIsReplace
  <2>3. QED
    BY <1>1, <1>2, <2>2 DEF Fifo!Post
<1>3. CASE ~ (update /\ Queue!Matches(event) # {})
  <2>1. Queue!Add(event)
    BY <1>3 DEF Queue!PostEvent
  <2>2. /\ Queue!Queued' = IF Len(Queue!Queued) < QueueSize
                           THEN Append(Queue!Queued, event)
                           ELSE Queue!Queued
        /\ Queue!Current' = Queue!Current
    BY <2>1, AddIsAppend
  <2>3. QED
    BY <1>1, <1>3, <2>2 DEF Fifo!Post
<1>4. QED
  BY <1>2, <1>3

\* The ring starts as an empty sequence and no event.
LEMMA FifoInit == Init => Fifo!Init
<1> SUFFICES ASSUME Init PROVE Fifo!Init
  OBVIOUS
<1>1. RingInv /\ put = 0 /\ get = 0 /\ current = Nil
  BY RingInit DEF Init, Queue!Init
<1>2. Queue!Empty
  BY <1>1 DEF Queue!Empty
<1>3. Queue!Queued = <<>>
  BY <1>1, <1>2, QueueIs, QueuedType DEF RingInv
<1>4. Queue!Current = NullEvent
  BY <1>1 DEF Queue!Current
<1>5. QED
  BY <1>3, <1>4 DEF Fifo!Init

\* Every step of the system is one of EventFifo, or changes nothing of it.
LEMMA FifoStep ==
  HookInv /\ RingInv /\ RingInv' /\ [Next]_vars => [Fifo!Next]_<<Queue!Queued, Queue!Current>>
<1> SUFFICES ASSUME HookInv, RingInv, RingInv', [Next]_vars
             PROVE  Fifo!Next \/ UNCHANGED <<Queue!Queued, Queue!Current>>
  OBVIOUS
<1>1. ASSUME NEW event \in Events, NEW update \in BOOLEAN, Queue!PostEvent(event, update)
      PROVE  Fifo!Next
  BY <1>1, PostIsPost DEF Fifo!Next
<1>2. Queue!Take => Fifo!Next
  BY TakeIsPoll DEF Fifo!Next
<1>3. Queue!TakeNothing => Fifo!Next
  BY TakeNothingIsPollNothing DEF Fifo!Next
<1>4. ASSUME UNCHANGED queueVars PROVE UNCHANGED <<Queue!Queued, Queue!Current>>
  <2>1. Queue!Queued' = Queue!Queued
    BY <1>4, QueuedKept DEF queueVars
  <2>2. Queue!Current' = Queue!Current
    BY <1>4 DEF queueVars, Queue!Current
  <2>3. QED
    BY <2>1, <2>2
<1>5. QED
  BY <1>1, <1>2, <1>3, <1>4, StepOfQueue

\* The ring of copies, with hook functions and PollSystem running inside of PollEvent,
\* is a first-in first-out queue of at most QUEUESIZE events (eventqueue.bmx:62 to 168).
THEOREM RingIsFifo == Spec => ImplementsFifo
<1>1. Spec => Fifo!Init
  BY FifoInit DEF Spec
<1>2. Spec => [][Fifo!Next]_<<Queue!Queued, Queue!Current>>
  BY HookInvariant, RingInvariant, FifoStep, PTL DEF Spec
<1>3. QED
  BY <1>1, <1>2 DEF ImplementsFifo, Fifo!Spec
=============================================================================
