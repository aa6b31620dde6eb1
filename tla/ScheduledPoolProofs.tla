------------------------ MODULE ScheduledPoolProofs -------------------------
(***************************************************************************)
(* Theorems about ScheduledPool: the list of tasks is in order, the        *)
(* scheduler never sleeps through a task, and a task never runs too soon.  *)
(***************************************************************************)
EXTENDS ScheduledPool, FiniteSetTheorems, SequenceTheorems, WellFoundedInduction, TLAPS

-----------------------------------------------------------------------------
(* insertTask as a function on sequences.                                  *)

Earlier(s, i, k) == s[i].executeAt <= s[k].executeAt
Sorted(s)        == \A i, k \in DOMAIN s : i < k => Earlier(s, i, k)

\* What a scheduled task consists of.
LEMMA TaskTypes == \A e \in TaskSet : e.executeAt \in Nat /\ e.task \in Tasks
BY DEF TaskSet

\* What a list of tasks consists of.
LEMMA ListTypes ==
  ASSUME NEW s \in Seq(TaskSet)
  PROVE  /\ Len(s) \in Nat
         /\ DOMAIN s = 1 .. Len(s)
         /\ s # <<>> <=> Len(s) # 0
         /\ \A i \in 1 .. Len(s) :
              s[i] \in TaskSet /\ s[i].executeAt \in Nat /\ s[i].task \in Tasks
<1>1. /\ Len(s) \in Nat
      /\ DOMAIN s = 1 .. Len(s)
      /\ s # <<>> <=> Len(s) # 0
      /\ \A i \in 1 .. Len(s) : s[i] \in TaskSet
  OBVIOUS
<1>2. QED
  BY <1>1, TaskTypes

\* A set of natural numbers has a least element; here for a bounded one.
LEMMA LeastElement ==
  ASSUME NEW n \in Nat, NEW K \in SUBSET (1 .. n), K # {}
  PROVE  \E k \in K : \A i \in K : k <= i
<1> DEFINE Up == 1 .. n
           T  == {1 .. k : k \in K}
<1>1. T \subseteq FiniteSubsetsOf(Up) /\ T # {}
  <2>1. ASSUME NEW k \in K PROVE 1 .. k \in FiniteSubsetsOf(Up)
    <3>1. k \in Int /\ 1 .. k \subseteq Up
      OBVIOUS
    <3>2. IsFiniteSet(1 .. k)
      BY <3>1, 1 \in Int, FS_Interval
    <3>3. QED
      BY <3>1, <3>2 DEF FiniteSubsetsOf
  <2>2. QED
    BY <2>1
<1>2. PICK X \in T : \A Y \in T : ~(<<Y, X>> \in StrictSubsetOrdering(Up))
  <2> HIDE DEF T, Up
  <2>1. QED
    BY <1>1, WFMin, FS_StrictSubsetOrderingWellFounded
<1>3. PICK k \in K : X = 1 .. k
  OBVIOUS
<1>4. ASSUME NEW i \in K, i < k PROVE FALSE
  <2>1. 1 .. i \in T /\ 1 .. i \subseteq Up /\ X \subseteq Up
    BY <1>3
  <2>2. 1 .. i \subseteq X /\ 1 .. i # X
    <3>1. k \in X /\ k \notin 1 .. i
      BY <1>3, <1>4
    <3>2. QED
      BY <3>1, <1>3, <1>4
  <2>3. QED
    BY <2>1, <2>2, <1>2 DEF StrictSubsetOrdering
<1>5. QED
  BY <1>4

\* insertTask's search ends: the place it finds exists.
LEMMA PlaceFound ==
  ASSUME NEW s \in Seq(TaskSet), s # <<>>, NEW new \in TaskSet
  PROVE  /\ Place(new, s) \in 1 .. Len(s)
         /\ Place(new, s) = Len(s) \/ s[Place(new, s) + 1].executeAt >= new.executeAt
         /\ \A i \in 1 .. Place(new, s) - 1 : s[i + 1].executeAt < new.executeAt
<1> DEFINE K == {k \in 1 .. Len(s) : k = Len(s) \/ s[k + 1].executeAt >= new.executeAt}
<1>1. Len(s) \in Nat /\ Len(s) >= 1 /\ DOMAIN s = 1 .. Len(s)
  OBVIOUS
<1>2. Len(s) \in K
  BY <1>1
<1>3. PICK k \in K : \A i \in K : k <= i
  <2> HIDE DEF K
  <2>1. K \subseteq 1 .. Len(s)
    BY DEF K
  <2>2. QED
    BY <1>1, <1>2, <2>1, LeastElement
<1>4. ASSUME NEW i \in 1 .. k - 1 PROVE s[i + 1].executeAt < new.executeAt
  <2>1. k \in 1 .. Len(s)
    OBVIOUS
  <2>2. i \in 1 .. Len(s) /\ i + 1 \in 1 .. Len(s) /\ i # Len(s) /\ ~(k <= i)
    <3> HIDE DEF K
    <3>1. \A n \in Nat : \A m \in 1 .. n : \A x \in 1 .. m - 1 :
            x \in 1 .. n /\ x + 1 \in 1 .. n /\ x # n /\ ~(m <= x)
      OBVIOUS
    <3>2. QED
      BY <3>1, <2>1, <1>1
  <2>3. i \notin K
    <3> HIDE DEF K
    <3>1. QED
      BY <2>2, <1>3
  <2>4. ~(s[i + 1].executeAt >= new.executeAt)
    BY <2>2, <2>3
  <2>5. s[i + 1].executeAt \in Nat /\ new.executeAt \in Nat
    BY <2>2, ListTypes, TaskTypes
  <2>6. QED
    BY <2>4, <2>5
<1>5. QED
  BY <1>1, <1>3, <1>4 DEF Place

\* Whether s with `new` put in behind its first k elements is r.
PutIn(new, s, k, r) ==
  /\ r \in Seq(TaskSet)
  /\ Len(r) = Len(s) + 1
  /\ \A i \in 1 .. Len(s) + 1 :
       r[i] = IF i <= k THEN s[i] ELSE IF i = k + 1 THEN new ELSE s[i - 1]

\* insertTask puts the new task in somewhere, and in front only if it is due
\* before the first one; it stays behind what is due before it.
LEMMA InsertedShape ==
  ASSUME NEW s \in Seq(TaskSet), NEW new \in TaskSet
  PROVE  \E k \in 0 .. Len(s) :
           /\ PutIn(new, s, k, Inserted(new, s))
           /\ k = 0 <=> HeadChanges(new, s)
           /\ \A i \in 2 .. k : s[i].executeAt < new.executeAt
           /\ k # 0 => s[1].executeAt <= new.executeAt
           /\ k # Len(s) => s[k + 1].executeAt >= new.executeAt
<1>1. Len(s) \in Nat /\ <<new>> \in Seq(TaskSet) /\ Len(<<new>>) = 1 /\ <<new>>[1] = new
  OBVIOUS
<1>2. CASE HeadChanges(new, s)
  <2>1. Inserted(new, s) = <<new>> \o s
    BY <1>2 DEF Inserted
  <2>2. PutIn(new, s, 0, Inserted(new, s))
    BY <2>1, <1>1, ConcatProperties DEF PutIn
  <2>3. Len(s) # 0 => s[1].executeAt >= new.executeAt
    <3>1. Len(s) # 0 => s[1].executeAt \in Nat /\ new.executeAt \in Nat /\ Head(s) = s[1]
      <4>1. Len(s) # 0 => s[1].executeAt \in Nat
        BY ListTypes
      <4>2. new.executeAt \in Nat
        BY TaskTypes
      <4>3. QED
        BY <4>1, <4>2
    <3>2. QED
      BY <3>1, <1>2 DEF HeadChanges
  <2>4. QED
    BY <2>2, <2>3, <1>2, <1>1
<1>3. CASE ~HeadChanges(new, s)
  <2> DEFINE k == Place(new, s)
             a == SubSeq(s, 1, k)
             b == SubSeq(s, k + 1, Len(s))
  <2>1. /\ k \in 1 .. Len(s)
        /\ k = Len(s) \/ s[k + 1].executeAt >= new.executeAt
        /\ \A i \in 1 .. k - 1 : s[i + 1].executeAt < new.executeAt
    BY <1>3, PlaceFound DEF HeadChanges
  <2>2. Inserted(new, s) = a \o <<new>> \o b
    BY <1>3 DEF Inserted
  <2> HIDE DEF k
  <2>3. /\ a \in Seq(TaskSet) /\ Len(a) = k
        /\ \A i \in 1 .. k : a[i] = s[i]
    BY <2>1, <1>1, ElementOfSeq, SubSeqProperties
  <2>4. /\ b \in Seq(TaskSet) /\ Len(b) = Len(s) - k
        /\ \A i \in 1 .. Len(s) - k : b[i] = s[k + i]
    <3>1. \A i \in k + 1 .. Len(s) : s[i] \in TaskSet
      BY <2>1, <1>1, ElementOfSeq
    <3>2. /\ SubSeq(s, k + 1, Len(s)) \in Seq(TaskSet)
          /\ Len(SubSeq(s, k + 1, Len(s))) = IF k + 1 <= Len(s) THEN Len(s) - (k + 1) + 1 ELSE 0
          /\ \A i \in 1 .. Len(s) - (k + 1) + 1 : SubSeq(s, k + 1, Len(s))[i] = s[(k + 1) + i - 1]
      BY <3>1, <2>1, <1>1, SubSeqProperties
    <3>3. QED
      BY <3>2, <2>1, <1>1
  <2> HIDE DEF a, b
  <2>5. /\ a \o <<new>> \in Seq(TaskSet) /\ Len(a \o <<new>>) = k + 1
        /\ \A i \in 1 .. k + 1 : (a \o <<new>>)[i] = IF i <= k THEN s[i] ELSE new
    BY <2>1, <2>3, <1>1, ConcatProperties
  <2>6. /\ Inserted(new, s) \in Seq(TaskSet) /\ Len(Inserted(new, s)) = (k + 1) + (Len(s) - k)
        /\ \A i \in 1 .. (k + 1) + (Len(s) - k) :
             Inserted(new, s)[i] = IF i <= k + 1 THEN (a \o <<new>>)[i] ELSE b[i - (k + 1)]
    <3> DEFINE c == a \o <<new>>
    <3> HIDE DEF c
    <3>1. c \in Seq(TaskSet) /\ Len(c) = k + 1 /\ Inserted(new, s) = c \o b
      BY <2>2, <2>5 DEF c
    <3>2. /\ c \o b \in Seq(TaskSet)
          /\ Len(c \o b) = Len(c) + Len(b)
          /\ \A i \in 1 .. Len(c) + Len(b) :
               (c \o b)[i] = IF i <= Len(c) THEN c[i] ELSE b[i - Len(c)]
      BY <3>1, <2>4, ConcatProperties
    <3>3. QED
      BY <3>1, <3>2, <2>4 DEF c
  <2>7. PutIn(new, s, k, Inserted(new, s))
    <3>1. ASSUME NEW i \in 1 .. Len(s) + 1
          PROVE  Inserted(new, s)[i] = IF i <= k THEN s[i] ELSE IF i = k + 1 THEN new ELSE s[i - 1]
      <4>1. CASE i <= k + 1
        BY <4>1, <2>1, <2>5, <2>6, <1>1
      <4>2. CASE i > k + 1
        <5>1. i - (k + 1) \in 1 .. Len(s) - k /\ k + (i - (k + 1)) = i - 1
          BY <4>2, <2>1, <1>1
        <5>2. Inserted(new, s)[i] = b[i - (k + 1)]
          BY <4>2, <2>1, <2>6, <1>1
        <5>3. b[i - (k + 1)] = s[i - 1]
          BY <5>1, <2>4
        <5>4. QED
          BY <5>2, <5>3, <4>2, <2>1
      <4>3. QED
        BY <4>1, <4>2, <2>1
    <3>2. QED
      BY <3>1, <2>1, <2>6, <1>1 DEF PutIn
  <2>8. \A i \in 2 .. k : s[i].executeAt < new.executeAt
    <3>1. ASSUME NEW i \in 2 .. k PROVE s[i].executeAt < new.executeAt
      <4>1. i - 1 \in 1 .. k - 1 /\ (i - 1) + 1 = i
        BY <2>1
      <4>2. QED
        BY <4>1, <2>1
    <3>2. QED
      BY <3>1
  <2>9. s[1].executeAt <= new.executeAt
    <3>1. s # <<>> /\ s[1].executeAt \in Nat /\ new.executeAt \in Nat /\ Head(s) = s[1]
      <4>1. s # <<>>
        BY <1>3 DEF HeadChanges
      <4>2. s[1].executeAt \in Nat
        BY <4>1, ListTypes
      <4>3. new.executeAt \in Nat
        BY TaskTypes
      <4>4. QED
        BY <4>1, <4>2, <4>3
    <3>2. QED
      BY <3>1, <1>3 DEF HeadChanges
  <2>10. QED
    BY <2>1, <2>7, <2>8, <2>9, <1>3
<1>4. QED
  BY <1>2, <1>3

\* Inserting into a list that is in order keeps it in order.
LEMMA InsertedSorted ==
  ASSUME NEW s \in Seq(TaskSet), NEW new \in TaskSet, Sorted(s)
  PROVE  Sorted(Inserted(new, s))
<1> DEFINE r == Inserted(new, s)
<1>1. PICK k \in 0 .. Len(s) :
           /\ PutIn(new, s, k, r)
           /\ k = 0 <=> HeadChanges(new, s)
           /\ \A i \in 2 .. k : s[i].executeAt < new.executeAt
           /\ k # 0 => s[1].executeAt <= new.executeAt
           /\ k # Len(s) => s[k + 1].executeAt >= new.executeAt
  BY InsertedShape
<1>2. Len(s) \in Nat /\ \A i \in 1 .. Len(s) : s[i].executeAt \in Nat
  BY ListTypes
<1>3. new.executeAt \in Nat
  BY TaskTypes
<1>4. \A i \in 1 .. Len(s) : i <= k => s[i].executeAt <= new.executeAt
  BY <1>1, <1>2, <1>3
<1>5. \A i \in 1 .. Len(s) : i > k => s[i].executeAt >= new.executeAt
  <2>1. ASSUME NEW i \in 1 .. Len(s), i > k PROVE s[i].executeAt >= new.executeAt
    <3>1. k + 1 \in 1 .. Len(s) /\ s[k + 1].executeAt >= new.executeAt
      BY <2>1, <1>1, <1>2
    <3>2. i = k + 1 \/ s[k + 1].executeAt <= s[i].executeAt
      BY <2>1, <3>1, <1>2 DEF Sorted, Earlier
    <3>3. QED
      BY <3>1, <3>2, <2>1, <1>2, <1>3
  <2>2. QED
    BY <2>1
<1> HIDE DEF r
<1>6. DOMAIN r = 1 .. Len(s) + 1
  BY <1>1 DEF PutIn
<1>7. ASSUME NEW i \in DOMAIN r, NEW j \in DOMAIN r, i < j
      PROVE  r[i].executeAt <= r[j].executeAt
  <2> USE <1>2
  <2>0. /\ r[i] = IF i <= k THEN s[i] ELSE IF i = k + 1 THEN new ELSE s[i - 1]
        /\ r[j] = IF j <= k THEN s[j] ELSE IF j = k + 1 THEN new ELSE s[j - 1]
    BY <1>1, <1>6 DEF PutIn
  <2>1. CASE j <= k
    BY <2>0, <2>1, <1>6, <1>7 DEF Sorted, Earlier
  <2>2. CASE j = k + 1
    BY <2>0, <2>2, <1>4, <1>6, <1>7
  <2>3. CASE j > k + 1
    <3>1. j - 1 \in 1 .. Len(s) /\ j - 1 > k /\ r[j] = s[j - 1]
      BY <2>0, <2>3, <1>6
    <3>2. CASE i <= k
      <4>1. i \in 1 .. Len(s) /\ i < j - 1 /\ r[i] = s[i]
        BY <3>1, <3>2, <2>0, <1>6
      <4>2. QED
        BY <4>1, <3>1 DEF Sorted, Earlier
    <3>3. CASE i = k + 1
      <4>1. r[i] = new
        BY <3>3, <2>0, <1>6
      <4>2. s[j - 1].executeAt >= new.executeAt
        BY <3>1, <1>5
      <4>3. QED
        BY <3>1, <4>1, <4>2, <1>3
    <3>4. CASE i > k + 1
      <4>1. i - 1 \in 1 .. Len(s) /\ i - 1 < j - 1 /\ r[i] = s[i - 1]
        BY <3>1, <3>4, <2>0, <1>6, <1>7
      <4>2. QED
        BY <4>1, <3>1 DEF Sorted, Earlier
    <3>5. QED
      BY <3>2, <3>3, <3>4, <1>6
  <2>4. QED
    BY <2>1, <2>2, <2>3, <1>6
<1>8. QED
  BY <1>7 DEF Sorted, Earlier, r
-----------------------------------------------------------------------------
(* The inductive invariant.                                                *)

\* The scheduler's time is not ahead of the clock, which stands within bounds.
InTime == now <= clock

\* A task is in one place only: once in the list, or in one call of schedule()
\* that has yet to put it there, and then it has not run.
TaskOnce ==
  /\ \A i, k \in DOMAIN tasks : tasks[i].task = tasks[k].task => i = k
  /\ \A c \in Callers : call[c] # NoTask =>
       /\ ran[call[c].task] = <<>>
       /\ \A i \in DOMAIN tasks : tasks[i].task # call[c].task
  /\ \A c, d \in Callers :
       call[c] # NoTask /\ call[d] # NoTask /\ call[c].task = call[d].task => c = d

\* A listed task is due late enough: it has run at most once in each tick before
\* it is due, and if it has run it is a recurring one whose period will be over.
LateEnough(e) ==
  /\ Len(ran[e.task]) <= e.executeAt
  /\ Len(ran[e.task]) # 0 =>
       /\ Period[e.task] # 0
       /\ e.executeAt >= ran[e.task][Len(ran[e.task])] + Period[e.task]

\* This holds of all listed tasks but the one that has just been handed to the
\* pool and is about to be taken out or put back.
DueLater ==
  \A i \in DOMAIN tasks : (spc = "requeue" /\ i = 1) \/ LateEnough(tasks[i])

\* That one has run just now, and at most once in each tick up to now.
JustRun ==
  spc = "requeue" =>
    /\ Len(ran[Head(tasks).task]) \in 1 .. now + 1
    /\ ran[Head(tasks).task][Len(ran[Head(tasks).task])] = now

\* The inductive invariant.
SchedInv == TypeOK /\ InTime /\ TaskOnce /\ DueLater /\ JustRun
-----------------------------------------------------------------------------
(* What the steps do to the list.                                          *)

\* No task is in the list twice.
OnceIn(s) == \A i, k \in DOMAIN s : s[i].task = s[k].task => i = k

\* Inserting a task that is not in the list keeps every task in it once, and
\* puts the new one in front exactly if it is due before the first.
LEMMA InsertedEffect ==
  ASSUME NEW s \in Seq(TaskSet), NEW new \in TaskSet
  PROVE  /\ Inserted(new, s) \in Seq(TaskSet)
         /\ Inserted(new, s) # <<>>
         /\ \A i \in DOMAIN Inserted(new, s) :
              Inserted(new, s)[i] = new \/ \E k \in DOMAIN s : Inserted(new, s)[i] = s[k]
         /\ HeadChanges(new, s) => Head(Inserted(new, s)) = new
         /\ ~HeadChanges(new, s) => s # <<>> /\ Head(Inserted(new, s)) = Head(s)
         /\ OnceIn(s) /\ (\A i \in DOMAIN s : s[i].task # new.task) =>
              OnceIn(Inserted(new, s))
<1> DEFINE r == Inserted(new, s)
<1>1. PICK k \in 0 .. Len(s) : PutIn(new, s, k, r) /\ (k = 0 <=> HeadChanges(new, s))
  BY InsertedShape
<1> HIDE DEF r
<1>2. /\ r \in Seq(TaskSet) /\ Len(r) = Len(s) + 1 /\ DOMAIN r = 1 .. Len(s) + 1
      /\ \A i \in 1 .. Len(s) + 1 :
           r[i] = IF i <= k THEN s[i] ELSE IF i = k + 1 THEN new ELSE s[i - 1]
      /\ Len(s) \in Nat /\ DOMAIN s = 1 .. Len(s)
  BY <1>1, ListTypes DEF PutIn
<1>3. r # <<>> /\ Head(r) = r[1]
  BY <1>2
<1>4. \A i \in DOMAIN r : r[i] = new \/ \E j \in DOMAIN s : r[i] = s[j]
  <2>1. ASSUME NEW i \in DOMAIN r, i # k + 1 PROVE \E j \in DOMAIN s : r[i] = s[j]
    <3>1. CASE i <= k
      BY <3>1, <2>1, <1>2
    <3>2. CASE i > k
      <4>1. i - 1 \in DOMAIN s /\ r[i] = s[i - 1]
        BY <3>2, <2>1, <1>2
      <4>2. QED
        BY <4>1
    <3>3. QED
      BY <3>1, <3>2, <1>2
  <2>2. QED
    BY <2>1, <1>2
<1>5. HeadChanges(new, s) => Head(r) = new
  BY <1>1, <1>2, <1>3
<1>6. ~HeadChanges(new, s) => s # <<>> /\ Head(r) = Head(s)
  <2>1. ~HeadChanges(new, s) => s # <<>>
    BY DEF HeadChanges
  <2>2. k # 0 => r[1] = s[1]
    BY <1>2
  <2>3. QED
    BY <2>1, <2>2, <1>1, <1>3
<1>7. ASSUME OnceIn(s), \A i \in DOMAIN s : s[i].task # new.task,
             NEW i \in DOMAIN r, NEW j \in DOMAIN r, r[i].task = r[j].task
      PROVE  i = j
  <2> DEFINE from(x) == IF x <= k THEN x ELSE x - 1
  <2>1. ASSUME NEW x \in DOMAIN r, x # k + 1
        PROVE  from(x) \in DOMAIN s /\ r[x] = s[from(x)]
    BY <2>1, <1>2
  <2>2. CASE i = k + 1 /\ j = k + 1
    BY <2>2
  <2>3. CASE i = k + 1 /\ j # k + 1
    BY <2>1, <2>3, <1>2, <1>7
  <2>4. CASE i # k + 1 /\ j = k + 1
    BY <2>1, <2>4, <1>2, <1>7
  <2>5. CASE i # k + 1 /\ j # k + 1
    <3>1. from(i) = from(j)
      <4> HIDE DEF from
      <4>1. QED
        BY <2>1, <2>5, <1>7 DEF OnceIn
    <3>2. QED
      BY <3>1, <2>5, <1>2
  <2>6. QED
    BY <2>2, <2>3, <2>4, <2>5
<1>8. QED
  BY <1>2, <1>3, <1>4, <1>5, <1>6, <1>7 DEF r, OnceIn

\* What taking the first task out leaves.
LEMMA TailEffect ==
  ASSUME NEW s \in Seq(TaskSet), s # <<>>
  PROVE  /\ Tail(s) \in Seq(TaskSet)
         /\ \A i \in DOMAIN Tail(s) : i + 1 \in DOMAIN s /\ i + 1 # 1 /\ Tail(s)[i] = s[i + 1]
         /\ Sorted(s) => Sorted(Tail(s))
         /\ OnceIn(s) => OnceIn(Tail(s))
         /\ OnceIn(s) => \A i \in DOMAIN Tail(s) : Tail(s)[i].task # Head(s).task
<1>1. /\ Tail(s) \in Seq(TaskSet) /\ Len(s) \in Nat /\ DOMAIN s = 1 .. Len(s)
      /\ Head(s) = s[1] /\ 1 \in DOMAIN s
      /\ \A i \in DOMAIN Tail(s) : i \in Nat /\ i >= 1 /\ i + 1 \in DOMAIN s /\ Tail(s)[i] = s[i + 1]
  OBVIOUS
<1>2. Sorted(s) => Sorted(Tail(s))
  <2>1. ASSUME Sorted(s), NEW i \in DOMAIN Tail(s), NEW k \in DOMAIN Tail(s), i < k
        PROVE  Tail(s)[i].executeAt <= Tail(s)[k].executeAt
    <3>1. i + 1 < k + 1
      BY <2>1, <1>1
    <3>2. QED
      BY <3>1, <2>1, <1>1 DEF Sorted, Earlier
  <2>2. QED
    BY <2>1 DEF Sorted, Earlier
<1>3. OnceIn(s) => OnceIn(Tail(s))
  <2>1. ASSUME OnceIn(s), NEW i \in DOMAIN Tail(s), NEW k \in DOMAIN Tail(s),
               Tail(s)[i].task = Tail(s)[k].task
        PROVE  i = k
    <3>1. i + 1 = k + 1
      BY <2>1, <1>1 DEF OnceIn
    <3>2. QED
      BY <3>1, <1>1
  <2>2. QED
    BY <2>1 DEF OnceIn
<1>4. OnceIn(s) => \A i \in DOMAIN Tail(s) : Tail(s)[i].task # Head(s).task
  <2>1. ASSUME OnceIn(s), NEW i \in DOMAIN Tail(s), Tail(s)[i].task = Head(s).task PROVE FALSE
    <3>1. i + 1 = 1
      BY <2>1, <1>1 DEF OnceIn
    <3>2. QED
      BY <3>1, <1>1
  <2>2. QED
    BY <2>1
<1>5. QED
  BY <1>1, <1>2, <1>3, <1>4
-----------------------------------------------------------------------------
(* The steps.                                                              *)

\* The pool's own variables keep their types when it is handed a new run.
LEMMA AcceptTypes ==
  ASSUME Pool!TypeOK, NEW r \in Runs, Pool!Accept(r)
  PROVE  Pool!TypeOK'
BY DEF Pool!TypeOK, Pool!Accept

\* They also do when the pool takes a step or is closed.
LEMMA PoolTypes ==
  ASSUME Pool!TypeOK, PoolStep \/ CloseJoins
  PROVE  Pool!TypeOK'
<1> USE DEF Pool!TypeOK
<1>1. CASE Pool!Start
  <2>1. Head(pending) \in Runs /\ Tail(pending) \in Seq(Runs)
    BY <1>1 DEF Pool!Start
  <2>2. QED
    BY <2>1, <1>1 DEF Pool!Start
<1>2. CASE Pool!Return
  BY <1>2 DEF Pool!Return
<1>3. ASSUME NEW r \in running, Pool!Finish(r) PROVE Pool!TypeOK'
  BY <1>3 DEF Pool!Finish
<1>4. CASE Pool!Close
  BY <1>4 DEF Pool!Close, Pool!Accepted, Pool!Pending
<1>5. QED
  BY <1>1, <1>2, <1>3, <1>4 DEF PoolStep, CloseJoins

\* At first the list is empty and nothing has run.
LEMMA SchedInit == Init => SchedInv
<1> SUFFICES ASSUME Init PROVE SchedInv
  OBVIOUS
<1>1. Pool!TypeOK
  BY DEF Init, Pool!Init, Pool!TypeOK
<1>2. TypeOK
  <2>1. tasks \in Seq(TaskSet) /\ ran \in [Tasks -> Seq(Nat)]
    BY DEF Init
  <2>2. spc \in SchedulerPC /\ spc \notin {"sleep", "reread", "requeue"}
    BY DEF Init, SchedulerPC
  <2>3. clock \in 0 .. MaxTime /\ isShutdown \in BOOLEAN
    <3>1. clock \in 0 .. MaxTime
      BY SchedulerAssumption DEF Init
    <3>2. QED
      BY <3>1 DEF Init
  <2>4. now \in Nat /\ until \in Nat /\ wakeFor \in Nat
    BY DEF Init
  <2>5. call \in [Callers -> TaskSet \cup {NoTask}]
    BY DEF Init
  <2>6. QED
    BY <2>1, <2>2, <2>3, <2>4, <2>5, <1>1 DEF TypeOK
<1>3. InTime /\ TaskOnce /\ DueLater /\ JustRun
  BY DEF Init, InTime, TaskOnce, DueLater, JustRun
<1>4. QED
  BY <1>2, <1>3 DEF SchedInv

\* A step that leaves the list, the calls and the runs alone keeps the invariant
\* if it keeps the types and the scheduler does not get to "requeue" by it.
LEMMA QuietStep ==
  ASSUME SchedInv, TypeOK', InTime', UNCHANGED <<tasks, call, ran>>,
         spc' = "requeue" => (spc = "requeue" /\ now' = now),
         spc = "requeue" => spc' = "requeue"
  PROVE  SchedInv'
BY DEF SchedInv, TaskOnce, DueLater, JustRun, LateEnough

\* schedule() works out when the task is due; nothing is in the list yet.
LEMMA ScheduleStep ==
  ASSUME SchedInv, NEW c \in Callers, NEW t \in Tasks, Schedule(c, t)
  PROVE  SchedInv'
<1> USE DEF SchedInv
<1>1. PICK delay \in Delays :
        /\ clock + delay <= MaxTime
        /\ call' = [call EXCEPT ![c] = [task |-> t, executeAt |-> clock + delay]]
  BY DEF Schedule
<1> DEFINE new == [task |-> t, executeAt |-> clock + delay]
<1>2. new \in TaskSet /\ new # NoTask /\ new.task = t
  BY SchedulerAssumption DEF TypeOK, TaskSet
<1> HIDE DEF new
<1>3. /\ UNCHANGED <<clock, isShutdown, tasks, spc, now, until, wakeFor, ran, pool>>
      /\ call[c] = NoTask /\ t \notin Listed /\ t \notin InCall /\ ran[t] = <<>>
  BY DEF Schedule, scheduler
<1>4. call' = [call EXCEPT ![c] = new]
  BY <1>1 DEF new
<1>5. /\ call' \in [Callers -> TaskSet \cup {NoTask}]
      /\ call'[c] = new
      /\ \A d \in Callers \ {c} : call'[d] = call[d]
  BY <1>2, <1>4 DEF TypeOK
<1>6. TypeOK'
  BY <1>3, <1>5 DEF TypeOK, Pool!TypeOK, pool
<1>7. TaskOnce'
  <2>1. \A i \in DOMAIN tasks : tasks[i].task # t
    BY <1>3 DEF Listed
  <2>2. \A d \in Callers : call[d] # NoTask => call[d].task # t
    BY <1>3 DEF InCall
  <2>3. QED
    BY <1>2, <1>3, <1>5, <2>1, <2>2 DEF TaskOnce
<1>8. InTime' /\ DueLater' /\ JustRun'
  BY <1>3 DEF InTime, DueLater, JustRun, LateEnough
<1>9. QED
  BY <1>6, <1>7, <1>8

\* schedule() puts the task in its place in the list, and it is there once.
LEMMA InsertStep ==
  ASSUME SchedInv, NEW c \in Callers, InsertTask(c)
  PROVE  SchedInv'
<1> USE DEF SchedInv
<1> DEFINE new == call[c]
<1>1. /\ new \in TaskSet /\ new # NoTask
      /\ tasks' = Inserted(new, tasks)
      /\ call' = [call EXCEPT ![c] = NoTask]
      /\ spc \notin Locked
      /\ spc' \in {spc, Signalled}
      /\ UNCHANGED <<clock, isShutdown, now, until, wakeFor, ran, pool>>
  BY DEF InsertTask, TypeOK
<1>2. tasks \in Seq(TaskSet) /\ OnceIn(tasks) /\ ran[new.task] = <<>>
      /\ \A i \in DOMAIN tasks : tasks[i].task # new.task
  BY <1>1 DEF TypeOK, TaskOnce, OnceIn
<1> HIDE DEF new
<1>3. /\ tasks' \in Seq(TaskSet) /\ tasks' # <<>> /\ OnceIn(tasks')
      /\ \A i \in DOMAIN tasks' : tasks'[i] = new \/ \E k \in DOMAIN tasks : tasks'[i] = tasks[k]
  BY <1>1, <1>2, InsertedEffect
<1>4. spc' \in SchedulerPC /\ spc' \notin Locked
  BY <1>1 DEF TypeOK, Signalled, SchedulerPC, Locked
<1>5. /\ call' \in [Callers -> TaskSet \cup {NoTask}]
      /\ call'[c] = NoTask
      /\ \A d \in Callers \ {c} : call'[d] = call[d]
  BY <1>1 DEF TypeOK
<1>6. TypeOK'
  BY <1>1, <1>3, <1>4, <1>5 DEF TypeOK, Pool!TypeOK, pool
<1>7. TaskOnce'
  <2>1. ASSUME NEW d \in Callers, call'[d] # NoTask
        PROVE  /\ d # c /\ call'[d] = call[d] /\ call[d].task # new.task
               /\ ran[call[d].task] = <<>>
               /\ \A i \in DOMAIN tasks : tasks[i].task # call[d].task
    BY <2>1, <1>1, <1>5 DEF TaskOnce, new
  <2>2. \A d \in Callers : call'[d] # NoTask =>
          ran'[call'[d].task] = <<>> /\ \A i \in DOMAIN tasks' : tasks'[i].task # call'[d].task
    BY <2>1, <1>1, <1>3
  <2>3. \A d, e \in Callers :
          call'[d] # NoTask /\ call'[e] # NoTask /\ call'[d].task = call'[e].task => d = e
    BY <2>1 DEF TaskOnce
  <2>4. QED
    BY <2>2, <2>3, <1>3 DEF TaskOnce, OnceIn
<1>8. LateEnough(new)
  <2>1. Len(ran[new.task]) = 0 /\ new.executeAt \in Nat
    BY <1>1, <1>2, TaskTypes
  <2>2. QED
    BY <2>1 DEF LateEnough
<1>9. DueLater' /\ JustRun'
  <2>1. spc # "requeue" /\ spc' # "requeue"
    BY <1>1, <1>4 DEF Locked
  <2>2. \A i \in DOMAIN tasks : LateEnough(tasks[i])
    BY <2>1 DEF DueLater
  <2>3. \A i \in DOMAIN tasks' : LateEnough(tasks'[i])
    BY <2>2, <1>3, <1>8
  <2>4. QED
    BY <2>1, <2>3, <1>1 DEF DueLater, JustRun, LateEnough
<1>10. QED
  BY <1>1, <1>6, <1>7, <1>9 DEF InTime
\* The steps of the scheduler thread that only read the list.
LEMMA ReadingStep ==
  ASSUME SchedInv, \/ CheckTasks \/ SleepUntilDue \/ TimeOut \/ SpuriousWakeup
                   \/ ReadClock \/ NothingDue
  PROVE  SchedInv'
<1> USE DEF SchedInv
<1>1. UNCHANGED <<tasks, call, ran>> /\ UNCHANGED <<clock, isShutdown, pool>>
  BY DEF CheckTasks, SleepUntilDue, TimeOut, SpuriousWakeup, ReadClock, NothingDue
<1>2. spc # "requeue" /\ spc' # "requeue"
  BY DEF CheckTasks, SleepUntilDue, TimeOut, SpuriousWakeup, ReadClock, NothingDue, Signalled
<1>3. clock \in Nat
  BY SchedulerAssumption DEF TypeOK
<1>4. now' \in Nat /\ now' <= clock
  BY <1>3 DEF CheckTasks, SleepUntilDue, TimeOut, SpuriousWakeup, ReadClock, NothingDue, TypeOK, InTime
<1>5. until' \in Nat /\ wakeFor' \in Nat
  <2>1. CASE SleepUntilDue
    <3>1. Head(tasks) \in TaskSet
      BY <2>1 DEF SleepUntilDue, TypeOK
    <3>2. Head(tasks).executeAt \in Nat
      BY <3>1, TaskTypes
    <3>3. QED
      BY <3>2, <2>1, <1>3 DEF SleepUntilDue, TypeOK, InTime
  <2>2. QED
    BY <2>1 DEF CheckTasks, TimeOut, SpuriousWakeup, ReadClock, NothingDue, TypeOK
<1>6. /\ spc' \in SchedulerPC
      /\ spc' \in {"sleep", "reread"} => tasks # <<>>
  BY DEF CheckTasks, SleepUntilDue, TimeOut, SpuriousWakeup, ReadClock, NothingDue, Signalled,
         SchedulerPC, Locked
<1>7. TypeOK'
  BY <1>1, <1>2, <1>4, <1>5, <1>6 DEF TypeOK, Pool!TypeOK, pool
<1>8. QED
  BY <1>1, <1>2, <1>4, <1>7, QuietStep DEF InTime

\* Handing the first task to the pool.
LEMMA DispatchStep ==
  ASSUME SchedInv, Dispatch
  PROVE  /\ SchedInv'
         /\ RunsSpaced => RunsSpaced'
<1> USE DEF SchedInv
<1> DEFINE t == Head(tasks).task
           n == Len(ran[t])
<1>1. /\ tasks # <<>> /\ Head(tasks) \in TaskSet /\ Head(tasks) = tasks[1] /\ 1 \in DOMAIN tasks
      /\ Head(tasks).executeAt <= now
      /\ spc = "due" /\ spc' = "requeue"
      /\ UNCHANGED <<clock, isShutdown, tasks, now, until, wakeFor, call>>
  BY DEF Dispatch, FirstIsDue, TypeOK
<1>2. /\ ran' = [ran EXCEPT ![t] = Append(ran[t], now)]
      /\ Pool!Accept(<<t, n + 1>>)
  BY DEF Dispatch
<1>3. /\ t \in Tasks /\ Head(tasks).executeAt \in Nat
      /\ clock \in Nat /\ clock <= MaxTime /\ MaxTime \in Nat /\ now \in Nat /\ now <= clock
  BY <1>1, TaskTypes, SchedulerAssumption DEF TypeOK, InTime
<1>4. ran[t] \in Seq(Nat) /\ n \in Nat
  BY <1>3 DEF TypeOK
<1>5. LateEnough(Head(tasks))
  BY <1>1 DEF DueLater
<1>6. /\ n <= now
      /\ n # 0 => Period[t] # 0 /\ now >= ran[t][n] + Period[t]
  <2>1. n # 0 => ran[t][n] \in Nat /\ Period[t] \in Nat
    BY <1>3, <1>4, SchedulerAssumption
  <2>2. QED
    BY <2>1, <1>1, <1>3, <1>4, <1>5 DEF LateEnough
<1> HIDE DEF t, n
<1>7. <<t, n + 1>> \in Runs
  BY <1>3, <1>4, <1>6 DEF Runs
<1>8. /\ ran' \in [Tasks -> Seq(Nat)]
      /\ Len(ran'[t]) = n + 1 /\ ran'[t][n + 1] = now
      /\ \A i \in 1 .. n : ran'[t][i] = ran[t][i]
      /\ \A u \in Tasks \ {t} : ran'[u] = ran[u]
  <2>1. ran'[t] = Append(ran[t], now) /\ \A u \in Tasks \ {t} : ran'[u] = ran[u]
    BY <1>2, <1>3 DEF TypeOK
  <2>2. Append(ran[t], now) \in Seq(Nat) /\ Len(Append(ran[t], now)) = n + 1
    BY <1>3, <1>4 DEF n
  <2>3. ran' \in [Tasks -> Seq(Nat)]
    BY <2>2, <1>2, <1>3 DEF TypeOK
  <2>4. Append(ran[t], now)[n + 1] = now
        /\ \A i \in 1 .. n : Append(ran[t], now)[i] = ran[t][i]
    BY <1>3, <1>4 DEF n
  <2>5. QED
    BY <2>1, <2>2, <2>3, <2>4
<1>9. TypeOK'
  <2>1. Pool!TypeOK'
    BY <1>2, <1>7, AcceptTypes DEF TypeOK
  <2>2. QED
    BY <2>1, <1>1, <1>8 DEF TypeOK, SchedulerPC, Locked
<1>10. TaskOnce'
  <2>1. ASSUME NEW c \in Callers, call[c] # NoTask
        PROVE  call[c].task \in Tasks \ {t} /\ ran[call[c].task] = <<>>
    <3>1. call[c] \in TaskSet /\ call[c].task # tasks[1].task
      BY <2>1, <1>1 DEF TypeOK, TaskOnce
    <3>2. QED
      BY <3>1, <2>1, <1>1, TaskTypes DEF TaskOnce, t
  <2>2. QED
    BY <2>1, <1>1, <1>8 DEF TaskOnce
<1>11. DueLater'
  <2>1. ASSUME NEW i \in DOMAIN tasks, i # 1 PROVE LateEnough(tasks[i])'
    <3>1. tasks[i].task \in Tasks \ {t}
      <4>1. tasks[i] \in TaskSet /\ tasks[i].task # tasks[1].task
        BY <2>1, <1>1 DEF TypeOK, TaskOnce
      <4>2. QED
        BY <4>1, <1>1, TaskTypes DEF t
    <3>2. LateEnough(tasks[i])
      BY <2>1, <1>1 DEF DueLater
    <3>3. QED
      BY <3>1, <3>2, <1>1, <1>8 DEF LateEnough
  <2>2. QED
    BY <2>1, <1>1 DEF DueLater
<1>12. JustRun'
  <2>1. Head(tasks').task = t /\ n + 1 \in 1 .. now' + 1
    BY <1>1, <1>3, <1>4, <1>6 DEF t
  <2>2. QED
    BY <2>1, <1>1, <1>8 DEF JustRun
<1>13. RunsSpaced => RunsSpaced'
  <2>1. ASSUME RunsSpaced, NEW u \in Tasks, NEW i \in 2 .. Len(ran'[u])
        PROVE  Period[u] # 0 /\ ran'[u][i] - ran'[u][i - 1] >= Period[u]
    <3>1. CASE u # t
      BY <3>1, <2>1, <1>8 DEF RunsSpaced
    <3>2. CASE u = t /\ i # n + 1
      <4>1. i \in 2 .. n /\ i \in 1 .. n /\ i - 1 \in 1 .. n
        BY <3>2, <2>1, <1>4, <1>8
      <4>2. Period[t] # 0 /\ ran[t][i] - ran[t][i - 1] >= Period[t]
        BY <4>1, <2>1, <1>3 DEF RunsSpaced, n
      <4>3. QED
        BY <4>1, <4>2, <3>2, <1>8
    <3>3. CASE u = t /\ i = n + 1
      <4>1. n # 0 /\ n \in 1 .. n /\ i - 1 = n
        BY <3>3, <2>1, <1>4, <1>8
      <4>2. ran[t][n] \in Nat /\ Period[t] \in Nat
        BY <4>1, <1>3, <1>4, SchedulerAssumption DEF n
      <4>3. ran'[t][i] = now /\ ran'[t][i - 1] = ran[t][n]
        BY <4>1, <3>3, <1>8
      <4>4. QED
        BY <4>1, <4>2, <4>3, <3>3, <1>3, <1>6
    <3>4. QED
      BY <3>1, <3>2, <3>3
  <2>2. QED
    BY <2>1, <1>1 DEF RunsSpaced
<1>14. QED
  BY <1>1, <1>9, <1>10, <1>11, <1>12, <1>13 DEF InTime
\* The task that has run goes back, due a period later, or out.
LEMMA RequeueStep ==
  ASSUME SchedInv, Requeue
  PROVE  /\ SchedInv'
         /\ Sorted(tasks) => Sorted(tasks')
<1> USE DEF SchedInv
<1> DEFINE head == Head(tasks)
           again == [head EXCEPT !.executeAt = now + Period[head.task]]
           rest == Tail(tasks)
<1>1. /\ spc = "requeue" /\ spc' = "due"
      /\ tasks' = IF Period[head.task] # 0 /\ ~isShutdown THEN Inserted(again, rest) ELSE rest
      /\ UNCHANGED <<clock, isShutdown, now, until, wakeFor, call, ran, pool>>
  BY DEF Requeue
<1>2. tasks \in Seq(TaskSet) /\ tasks # <<>> /\ head = tasks[1] /\ 1 \in DOMAIN tasks
      /\ head \in TaskSet /\ OnceIn(tasks) /\ now \in Nat
  BY <1>1 DEF TypeOK, TaskOnce, OnceIn
<1>3. head.task \in Tasks /\ Period[head.task] \in Nat
  BY <1>2, TaskTypes, SchedulerAssumption
<1>4. again \in TaskSet /\ again.task = head.task /\ again.executeAt = now + Period[head.task]
  BY <1>2, <1>3 DEF TaskSet
<1>5. /\ rest \in Seq(TaskSet)
      /\ \A i \in DOMAIN rest : i + 1 \in DOMAIN tasks /\ i + 1 # 1 /\ rest[i] = tasks[i + 1]
      /\ Sorted(tasks) => Sorted(rest)
      /\ OnceIn(rest)
      /\ \A i \in DOMAIN rest : rest[i].task # head.task
  BY <1>2, TailEffect
<1>6. /\ Len(ran[head.task]) \in 1 .. now + 1
      /\ ran[head.task][Len(ran[head.task])] = now
  BY <1>1 DEF JustRun
<1>7. \A i \in DOMAIN rest : LateEnough(rest[i])
  BY <1>5 DEF DueLater
<1>8. Period[head.task] # 0 => LateEnough(again)
  <2> HIDE DEF again, head
  <2>1. QED
    BY <1>2, <1>3, <1>4, <1>6 DEF LateEnough
<1> HIDE DEF again, rest, head
<1>9. /\ tasks' \in Seq(TaskSet)
      /\ OnceIn(tasks')
      /\ \A i \in DOMAIN tasks' : \/ Period[head.task] # 0 /\ tasks'[i] = again
                                  \/ \E k \in DOMAIN rest : tasks'[i] = rest[k]
      /\ Sorted(tasks) => Sorted(tasks')
  <2>1. CASE Period[head.task] # 0 /\ ~isShutdown
    <3>1. tasks' = Inserted(again, rest)
      BY <2>1, <1>1
    <3>2. Sorted(tasks) => Sorted(Inserted(again, rest))
      BY <1>4, <1>5, InsertedSorted
    <3>3. /\ Inserted(again, rest) \in Seq(TaskSet)
          /\ OnceIn(Inserted(again, rest))
          /\ \A i \in DOMAIN Inserted(again, rest) :
               Inserted(again, rest)[i] = again
                 \/ \E k \in DOMAIN rest : Inserted(again, rest)[i] = rest[k]
      BY <1>4, <1>5, InsertedEffect
    <3>4. QED
      BY <3>1, <3>2, <3>3, <2>1
  <2>2. CASE ~(Period[head.task] # 0 /\ ~isShutdown)
    BY <2>2, <1>1, <1>5
  <2>3. QED
    BY <2>1, <2>2
<1>10. TypeOK'
  BY <1>1, <1>9 DEF TypeOK, Pool!TypeOK, pool, SchedulerPC, Locked
<1>11. TaskOnce'
  <2>1. ASSUME NEW c \in Callers, call[c] # NoTask, NEW i \in DOMAIN tasks'
        PROVE  tasks'[i].task # call[c].task
    <3>1. \A k \in DOMAIN tasks : tasks[k].task # call[c].task
      BY <2>1 DEF TaskOnce
    <3>2. head.task # call[c].task /\ \A k \in DOMAIN rest : rest[k].task # call[c].task
      BY <3>1, <1>2, <1>5
    <3>3. QED
      BY <3>2, <1>4, <1>9
  <2>2. QED
    BY <2>1, <1>1, <1>9 DEF TaskOnce, OnceIn
<1>12. DueLater' /\ JustRun'
  <2>1. \A i \in DOMAIN tasks' : LateEnough(tasks'[i])
    BY <1>7, <1>8, <1>9
  <2>2. QED
    BY <2>1, <1>1 DEF DueLater, JustRun, LateEnough
<1>13. QED
  BY <1>1, <1>9, <1>10, <1>11, <1>12 DEF InTime

\* Every step keeps the invariant, the order of the list, and the distance of
\* the runs.
LEMMA SchedStep ==
  ASSUME SchedInv, [Next]_vars
  PROVE  /\ SchedInv'
         /\ TasksSorted => TasksSorted'
         /\ RunsSpaced => RunsSpaced'
<1> USE DEF SchedInv
<1>0. \A s : Sorted(s) <=> \A i, k \in DOMAIN s : i < k => s[i].executeAt <= s[k].executeAt
  BY DEF Sorted, Earlier
<1>1. ASSUME NEW c \in Callers, NEW t \in Tasks, Schedule(c, t)
      PROVE  SchedInv' /\ UNCHANGED <<tasks, ran>>
  BY <1>1, ScheduleStep DEF Schedule
<1>2. ASSUME NEW c \in Callers, InsertTask(c)
      PROVE  SchedInv' /\ ran' = ran /\ (TasksSorted => TasksSorted')
  <2>1. call[c] \in TaskSet /\ tasks \in Seq(TaskSet) /\ tasks' = Inserted(call[c], tasks)
    BY <1>2 DEF InsertTask, TypeOK
  <2>2. Sorted(tasks) => Sorted(tasks')
    BY <2>1, InsertedSorted
  <2>3. QED
    BY <2>2, <1>0, <1>2, InsertStep DEF InsertTask, TasksSorted
<1>3. ASSUME \/ CheckTasks \/ SleepUntilDue \/ TimeOut \/ SpuriousWakeup
             \/ ReadClock \/ NothingDue
      PROVE  SchedInv' /\ UNCHANGED <<tasks, ran>>
  BY <1>3, ReadingStep DEF CheckTasks, SleepUntilDue, TimeOut, SpuriousWakeup, ReadClock, NothingDue
<1>4. CASE Dispatch
  BY <1>4, DispatchStep DEF Dispatch, TasksSorted
<1>5. CASE Requeue
  <2>1. SchedInv' /\ (Sorted(tasks) => Sorted(tasks')) /\ ran' = ran
    BY <1>5, RequeueStep DEF Requeue
  <2>2. QED
    BY <2>1, <1>0 DEF TasksSorted, RunsSpaced
<1>6. CASE Tick
  <2>1. TypeOK' /\ InTime'
    BY <1>6, SchedulerAssumption DEF Tick, TypeOK, Pool!TypeOK, pool, scheduler, InTime
  <2>2. QED
    BY <2>1, <1>6, QuietStep DEF Tick, scheduler, TasksSorted, RunsSpaced
<1>7. CASE Shutdown
  <2>1. TypeOK' /\ InTime'
    BY <1>7 DEF Shutdown, TypeOK, Pool!TypeOK, pool, scheduler, InTime
  <2>2. QED
    BY <2>1, <1>7, QuietStep DEF Shutdown, scheduler, TasksSorted, RunsSpaced
<1>8. CASE PoolStep \/ CloseJoins
  <2>1. Pool!TypeOK' /\ UNCHANGED <<clock, isShutdown, tasks, scheduler, call, ran>>
    BY <1>8, PoolTypes DEF PoolStep, CloseJoins, TypeOK
  <2>2. TypeOK' /\ InTime'
    BY <2>1 DEF TypeOK, scheduler, InTime
  <2>3. QED
    BY <2>1, <2>2, QuietStep DEF scheduler, TasksSorted, RunsSpaced
<1>9. CASE UNCHANGED vars
  <2>1. TypeOK' /\ InTime'
    BY <1>9 DEF vars, TypeOK, Pool!TypeOK, pool, scheduler, InTime
  <2>2. QED
    BY <2>1, <1>9, QuietStep DEF vars, scheduler, TasksSorted, RunsSpaced
<1>10. QED
  BY <1>1, <1>2, <1>3, <1>4, <1>5, <1>6, <1>7, <1>8, <1>9
  DEF Next, SchedulerStep, Quiet, TasksSorted, RunsSpaced

-----------------------------------------------------------------------------
(* The theorems.                                                           *)

\* The scheduler's variables keep their types, and it never handles the first
\* task of an empty list.
THEOREM SchedulerTypes == SafeSpec => []TypeOK
<1>1. SchedInv /\ [Next]_vars => SchedInv'
  BY SchedStep
<1>2. SchedInv => TypeOK
  BY DEF SchedInv
<1>3. QED
  BY <1>1, <1>2, SchedInit, PTL DEF SafeSpec

\* The list is in the order of the due times in every reachable state, for any
\* tasks, delays and periods, so that its first task is the one to wait for.
THEOREM ListInOrder == SafeSpec => []TasksSorted
<1>1. Init => SchedInv /\ TasksSorted
  BY SchedInit DEF Init, TasksSorted
<1>2. SchedInv /\ TasksSorted /\ [Next]_vars => (SchedInv /\ TasksSorted)'
  BY SchedStep
<1>3. QED
  BY <1>1, <1>2, PTL DEF SafeSpec

\* No task runs too soon: a one-shot task runs once, and a recurring one leaves
\* its period between two runs, for any tasks, delays and periods.
THEOREM RunsApart == SafeSpec => []RunsSpaced
<1>1. Init => SchedInv /\ RunsSpaced
  BY SchedInit DEF Init, RunsSpaced
<1>2. SchedInv /\ RunsSpaced /\ [Next]_vars => (SchedInv /\ RunsSpaced)'
  BY SchedStep
<1>3. QED
  BY <1>1, <1>2, PTL DEF SafeSpec

\* The scheduler sleeps without a timeout, or with a timeout computed from the
\* first task, whatever is scheduled while it sleeps.
LEMMA SleepStep ==
  SchedInv /\ NeverOversleeps /\ [Next]_vars => NeverOversleeps'
<1> SUFFICES ASSUME SchedInv, NeverOversleeps, [Next]_vars PROVE NeverOversleeps'
  OBVIOUS
<1> USE DEF SchedInv, NeverOversleeps
<1>1. ASSUME NEW c \in Callers, InsertTask(c) PROVE NeverOversleeps'
  <2>1. call[c] \in TaskSet /\ tasks \in Seq(TaskSet) /\ tasks' = Inserted(call[c], tasks)
        /\ wakeFor' = wakeFor
    BY <1>1 DEF InsertTask, TypeOK
  <2>2. CASE HeadChanges(call[c], tasks)
    BY <2>2, <1>1 DEF InsertTask, Signalled
  <2>3. CASE ~HeadChanges(call[c], tasks)
    <3>1. tasks # <<>> /\ tasks' # <<>> /\ Head(tasks') = Head(tasks)
      BY <2>1, <2>3, InsertedEffect
    <3>2. spc' = spc
      BY <2>3, <1>1 DEF InsertTask
    <3>3. QED
      BY <3>1, <3>2, <2>1
  <2>4. QED
    BY <2>2, <2>3
<1>2. ASSUME NEW c \in Callers, NEW t \in Tasks, Schedule(c, t) PROVE NeverOversleeps'
  BY <1>2 DEF Schedule, scheduler
<1>3. CASE SchedulerStep
  BY <1>3 DEF SchedulerStep, CheckTasks, SleepUntilDue, TimeOut, ReadClock, Dispatch,
              Requeue, NothingDue, TypeOK
<1>4. CASE SpuriousWakeup \/ Tick \/ Shutdown \/ CloseJoins \/ PoolStep \/ UNCHANGED vars
  BY <1>4 DEF SpuriousWakeup, Signalled, Tick, Shutdown, CloseJoins, PoolStep, vars, scheduler
<1>5. QED
  BY <1>1, <1>2, <1>3, <1>4 DEF Next, Quiet

\* The scheduler never sleeps through a task, for any tasks and callers.
THEOREM WakesInTime == SafeSpec => []NeverOversleeps
<1>1. Init => SchedInv /\ NeverOversleeps
  BY SchedInit DEF Init, NeverOversleeps
<1>2. SchedInv /\ NeverOversleeps /\ [Next]_vars => (SchedInv /\ NeverOversleeps)'
  BY SchedStep, SleepStep
<1>3. QED
  BY <1>1, <1>2, PTL DEF SafeSpec
=============================================================================
