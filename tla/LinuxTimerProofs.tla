--------------------------- MODULE LinuxTimerProofs ----------------------------
(***************************************************************************)
(* Proofs about LinuxTimer, for any timers and jobs, any number of ticks   *)
(* and polls inside each other, and any size of the pipe.                  *)
(***************************************************************************)
EXTENDS LinuxTimer, FiniteSetTheorems, SequenceTheorems, TLAPS

\* The rows of polls are numbered from the outermost one, which is 0: so a poll that
\* begins or returns leaves the numbers of the others as they are.
Row(d) == polls[Len(polls) - d]
Rows == 0 .. Len(polls) - 1
\* An operation of the row is being run.
Busy(d) == d # Len(polls) - 1 \/ main # "ops"

\* The mutex is held over the write, by the poster of the last operation in the list.
Posting ==
  /\ \A t \in Posters : (pc[t] \in {"write", "writeLast"}) = (asyncMutex = t)
  /\ pipe = IF asyncMutex = None THEN Len(asyncOps) ELSE Len(asyncOps) - 1
  /\ asyncMutex # None => asyncOps # <<>> /\ asyncOps[Len(asyncOps)] = asyncMutex

\* A poll that is interrupted is at an operation, and one that runs operations is there.
AtOperation ==
  /\ main = "ops" => polls # <<>>
  /\ \A d \in Rows : Busy(d) => Row(d) # <<>>

\* Only what has been started has operations, or has ended.
Started ==
  /\ \A i \in DOMAIN asyncOps : pc[asyncOps[i]] # "none"
  /\ \A d \in Rows : \A i \in DOMAIN Row(d) : pc[Row(d)[i]] # "none"
  /\ \A t \in Timers : status[t] = 0 => pc[t] = "none" /\ puts[t] = 0
  /\ \A t \in Timers : status[t] # 0 => pc[t] # "none"
  /\ \A t \in handle : status[t] # 0
  /\ \A j \in ended : pc[j] # "none"

\* The operations in hand that have not been run, each named <<row, how many come
\* after it>>: a name that an operation keeps when those before it are dropped.
Left(d) == 0 .. Len(Row(d)) - (IF Busy(d) THEN 2 ELSE 1)
Unrun == {c \in Nat \X Nat : c[1] \in Rows /\ c[2] \in Left(c[1])}
Op(c) == Row(c[1])[Len(Row(c[1])) - c[2]]
Cells(t) == {c \in Unrun : Op(c) = t}

\* The operations of t in the list.
Queued(t) == {i \in DOMAIN asyncOps : asyncOps[i] = t}

\* What puts counts for timer t is run, in hand, in the list, or still to be posted:
\* the tick that its thread is about to post, and the post for the end of the thread.
Due(t) == IF pc[t] \in {"test", "delay", "write", "last"} THEN 1
          ELSE IF pc[t] = "post" THEN 2 ELSE 0
Account ==
  \A t \in Timers :
    /\ IsFiniteSet(Cells(t))
    /\ puts[t] = gets[t] + Cardinality(Queued(t)) + Cardinality(Cells(t)) + Due(t)

\* For a timer that is freed nothing is left, and nothing comes.
FreedDone == \A t \in freed : status[t] = 2 /\ pc[t] = "ended" /\ puts[t] = gets[t]

\* HeldWhileNeeded in terms of rows, and: a job whose operation is being run has ended.
Holding ==
  /\ \A t \in Timers : (t \in retained) = (status[t] # 0 /\ t \notin freed)
  /\ \A j \in Jobs : pc[j] # "none" /\ j \notin ended => j \in retained
  /\ \A j \in Jobs \intersect retained :
       j \notin ended \/ \E d \in Rows : Busy(d) /\ Row(d)[1] = j
  /\ \A d \in Rows : Busy(d) /\ Row(d)[1] \in Jobs => Row(d)[1] \in ended

Waited == \A t \in Timers : wticks[t] <= ticks[t]

Inv == /\ Types /\ Posting /\ AtOperation /\ Started
       /\ Account /\ FreedDone /\ Holding /\ Waited

-----------------------------------------------------------------------------
(* Sequences.                                                              *)

\* What is put before a sequence.
LEMMA Pushed ==
  ASSUME NEW S, NEW s \in S, NEW p \in Seq(S)
  PROVE  /\ <<s>> \o p \in Seq(S)
         /\ Len(<<s>> \o p) = Len(p) + 1
         /\ (<<s>> \o p)[1] = s
         /\ \A i \in 1 .. Len(p) : (<<s>> \o p)[i + 1] = p[i]
OBVIOUS

\* What is left without the first one.
LEMMA Popped ==
  ASSUME NEW S, NEW p \in Seq(S), p # <<>>
  PROVE  /\ Tail(p) \in Seq(S)
         /\ Len(Tail(p)) = Len(p) - 1
         /\ Len(p) > 0 /\ Head(p) \in S /\ Head(p) = p[1]
         /\ \A i \in 1 .. Len(p) - 1 : Tail(p)[i] = p[i + 1]
OBVIOUS

-----------------------------------------------------------------------------
(* The rows.                                                               *)

\* A poll begins with the operations s.
LEMMA RowsPushed ==
  ASSUME polls \in Seq(Seq(Posters)), NEW s \in Seq(Posters), polls' = <<s>> \o polls
  PROVE  /\ polls' \in Seq(Seq(Posters))
         /\ Len(polls') = Len(polls) + 1
         /\ Rows' = Rows \union {Len(polls)}
         /\ \A d \in Rows' : Row(d)' = IF d = Len(polls) THEN s ELSE Row(d)
<1>1. /\ polls' \in Seq(Seq(Posters)) /\ Len(polls') = Len(polls) + 1
      /\ polls'[1] = s
      /\ \A i \in 1 .. Len(polls) : polls'[i + 1] = polls[i]
  BY Pushed
<1>2. Len(polls) \in Nat
  BY LenProperties
<1>3. Rows' = Rows \union {Len(polls)}
  BY <1>1, <1>2 DEF Rows
<1>4. ASSUME NEW d \in Rows', d = Len(polls) PROVE Row(d)' = s
  BY <1>1, <1>2, <1>4 DEF Row
<1>5. ASSUME NEW d \in Rows PROVE Row(d)' = Row(d)
  <2>1. Len(polls) - d \in 1 .. Len(polls) /\ Len(polls') - d = (Len(polls) - d) + 1
    BY <1>1, <1>2 DEF Rows
  <2>2. QED
    BY <2>1, <1>1 DEF Row
<1>6. QED
  BY <1>1, <1>3, <1>4, <1>5, <1>2 DEF Rows

\* The innermost poll returns.
LEMMA RowsPopped ==
  ASSUME polls \in Seq(Seq(Posters)), polls # <<>>, polls' = Tail(polls)
  PROVE  /\ polls' \in Seq(Seq(Posters))
         /\ Len(polls') = Len(polls) - 1
         /\ Rows' = Rows \ {Len(polls) - 1}
         /\ \A d \in Rows' : Row(d)' = Row(d)
<1>1. /\ polls' \in Seq(Seq(Posters)) /\ Len(polls') = Len(polls) - 1
      /\ \A i \in 1 .. Len(polls) - 1 : polls'[i] = polls[i + 1]
  BY Popped
<1>2. Len(polls) \in Nat /\ Len(polls) > 0
  BY LenProperties, Popped
<1>3. Rows' = Rows \ {Len(polls) - 1}
  BY <1>1, <1>2 DEF Rows
<1>4. ASSUME NEW d \in Rows' PROVE Row(d)' = Row(d)
  <2>1. /\ Len(polls') - d \in 1 .. Len(polls) - 1
        /\ Len(polls) - d = (Len(polls') - d) + 1
    BY <1>1, <1>2 DEF Rows
  <2>2. QED
    BY <2>1, <1>1 DEF Row
<1>5. QED
  BY <1>1, <1>3, <1>4

\* The first operation of the innermost poll is done.
LEMMA RowsDropped ==
  ASSUME polls \in Seq(Seq(Posters)), polls # <<>>, InHand # <<>>, DropFirst
  PROVE  /\ polls' \in Seq(Seq(Posters))
         /\ Len(polls') = Len(polls)
         /\ Rows' = Rows
         /\ \A d \in Rows : Row(d)' = IF d = Len(polls) - 1 THEN Tail(InHand) ELSE Row(d)
<1>1. /\ Tail(polls) \in Seq(Seq(Posters)) /\ Len(Tail(polls)) = Len(polls) - 1
      /\ InHand \in Seq(Posters)
      /\ \A i \in 1 .. Len(polls) - 1 : Tail(polls)[i] = polls[i + 1]
  BY Popped DEF InHand
<1>2. Len(polls) \in Nat /\ Len(polls) > 0
  BY LenProperties, Popped
<1>3. Tail(InHand) \in Seq(Posters)
  BY <1>1, Popped
<1>4. /\ polls' \in Seq(Seq(Posters)) /\ Len(polls') = Len(polls)
      /\ polls'[1] = Tail(InHand)
      /\ \A i \in 1 .. Len(polls) - 1 : polls'[i + 1] = Tail(polls)[i]
  BY <1>1, <1>2, <1>3, Pushed DEF DropFirst
<1>5. ASSUME NEW d \in Rows, d = Len(polls) - 1 PROVE Row(d)' = Tail(InHand)
  BY <1>2, <1>4, <1>5 DEF Row
<1>6. ASSUME NEW d \in Rows \ {Len(polls) - 1} PROVE Row(d)' = Row(d)
  <2> DEFINE i == Len(polls) - d - 1
  <2>1. i \in 1 .. Len(polls) - 1 /\ Len(polls) - d = i + 1 /\ Len(polls') - d = i + 1
    BY <1>2, <1>4 DEF Rows
  <2>2. polls'[i + 1] = polls[i + 1]
    BY <2>1, <1>1, <1>4
  <2>3. QED
    BY <2>1, <2>2 DEF Row
<1>7. QED
  BY <1>4, <1>5, <1>6 DEF Rows

\* The operations in hand are the last row.
LEMMA LastRow ==
  ASSUME polls \in Seq(Seq(Posters)), polls # <<>>
  PROVE  /\ Len(polls) \in Nat /\ Len(polls) - 1 \in Rows
         /\ InHand = Row(Len(polls) - 1) /\ InHand \in Seq(Posters)
<1>1. Len(polls) \in Nat /\ Len(polls) > 0 /\ Head(polls) = polls[1] /\ Head(polls) \in Seq(Posters)
  BY LenProperties, Popped
<1>2. QED
  BY <1>1 DEF Rows, Row, InHand

-----------------------------------------------------------------------------
(* The operations in hand that have not been run.                          *)

\* Nothing changes for the operations that are left.
LEMMA SameCells ==
  ASSUME polls \in Seq(Seq(Posters)), Rows' = Rows,
         \A d \in Rows : Row(d)' = Row(d) /\ Busy(d)' = Busy(d)
  PROVE  \A t : Cells(t)' = Cells(t)
<1>1. \A d \in Rows : Left(d)' = Left(d)
  BY DEF Left
<1>2. Unrun' = Unrun
  BY <1>1 DEF Unrun
<1>3. \A c \in Unrun : Op(c)' = Op(c)
  BY DEF Unrun, Op
<1>4. QED
  BY <1>2, <1>3 DEF Cells

\* Running the first operation in hand takes it away, whether it is dropped at once or
\* goes on for a while.
LEMMA CellRun ==
  ASSUME polls \in Seq(Seq(Posters)), polls # <<>>, main = "ops", InHand # <<>>,
         \/ main' # "ops" /\ polls' = polls
         \/ main' = "ops" /\ DropFirst
  PROVE  \E f : f \in Cells(Head(InHand)) /\ \A t : Cells(t)' = Cells(t) \ {f}
<1>0. PICK top : top = Len(polls) - 1
  OBVIOUS
<1>. DEFINE f == <<top, Len(InHand) - 1>>
<1>1. /\ Len(polls) \in Nat /\ top \in Rows /\ top \in Nat
      /\ InHand = Row(top) /\ InHand \in Seq(Posters)
  BY <1>0, LastRow DEF Rows
<1>2. /\ Len(InHand) \in Nat /\ Len(InHand) > 0 /\ Head(InHand) = InHand[1]
      /\ Tail(InHand) \in Seq(Posters) /\ Len(Tail(InHand)) = Len(InHand) - 1
      /\ \A i \in 1 .. Len(InHand) - 1 : Tail(InHand)[i] = InHand[i + 1]
  BY <1>1, Popped, LenProperties
<1>3. /\ Rows' = Rows /\ Len(polls') = Len(polls)
      /\ \A d \in Rows \ {top} : Row(d)' = Row(d)
      /\ Row(top)' = IF main' = "ops" THEN Tail(InHand) ELSE InHand
  BY <1>0, <1>1, RowsDropped DEF Rows, Row
<1>4. \A d \in Rows \ {top} : Busy(d) /\ Busy(d)'
  BY <1>0, <1>3 DEF Busy
<1>5. ~Busy(top) /\ (Busy(top)' <=> main' # "ops")
  BY <1>0, <1>3 DEF Busy
<1>6. \A d \in Rows \ {top} : Left(d)' = Left(d)
  BY <1>3, <1>4 DEF Left
<1>7. Left(top) = 0 .. Len(InHand) - 1 /\ Left(top)' = 0 .. Len(InHand) - 2
  <2>1. Left(top) = 0 .. Len(InHand) - 1
    BY <1>1, <1>5 DEF Left
  <2>2. CASE main' = "ops"
    <3>1. Len(Row(top)') - 1 = Len(InHand) - 2
      BY <2>2, <1>2, <1>3
    <3>2. QED
      BY <3>1, <2>1, <2>2, <1>5 DEF Left
  <2>3. CASE main' # "ops"
    BY <2>1, <2>3, <1>3, <1>5 DEF Left
  <2>4. QED
    BY <2>2, <2>3
<1>8. f \in Unrun /\ Op(f) = Head(InHand)
  BY <1>1, <1>2, <1>7 DEF Unrun, Op
<1>9. Unrun' = Unrun \ {f}
  <2>1. ASSUME NEW c \in Nat \X Nat PROVE c \in Unrun' <=> c \in Unrun /\ c # f
    <3>1. CASE c[1] = top
      <4>1. c = f <=> c[2] = Len(InHand) - 1
        BY <3>1
      <4>2. QED
        BY <4>1, <3>1, <1>1, <1>2, <1>3, <1>7 DEF Unrun
    <3>2. CASE c[1] # top
      BY <3>2, <1>3, <1>6 DEF Unrun
    <3>3. QED
      BY <3>1, <3>2
  <2>2. QED
    BY <2>1 DEF Unrun
<1>10. ASSUME NEW c \in Unrun' PROVE Op(c)' = Op(c)
  <2>1. c[1] \in Rows /\ c[2] \in Nat /\ c[2] \in Left(c[1])'
    BY <1>3 DEF Unrun
  <2>2. CASE c[1] = top /\ main' = "ops"
    <3>1. Len(InHand) - 1 - c[2] \in 1 .. Len(InHand) - 1
      <4>1. c[2] \in 0 .. Len(InHand) - 2
        BY <2>1, <2>2, <1>7
      <4>2. QED
        BY <4>1, <1>2
    <3>2. /\ Op(c)' = Tail(InHand)[Len(InHand) - 1 - c[2]]
          /\ Op(c) = InHand[Len(InHand) - c[2]]
      BY <2>2, <1>1, <1>2, <1>3 DEF Op
    <3>3. (Len(InHand) - 1 - c[2]) + 1 = Len(InHand) - c[2]
      BY <2>1, <1>2
    <3>4. QED
      BY <3>1, <3>2, <3>3, <1>2
  <2>3. CASE ~(c[1] = top /\ main' = "ops")
    BY <2>1, <2>3, <1>1, <1>3 DEF Op
  <2>4. QED
    BY <2>2, <2>3
<1>11. ASSUME NEW t PROVE Cells(t)' = Cells(t) \ {f}
  BY <1>9, <1>10 DEF Cells
<1>12. QED
  BY <1>8, <1>11 DEF Cells

\* The operation that has been run leaves the row.
LEMMA CellsReturn ==
  ASSUME polls \in Seq(Seq(Posters)), polls # <<>>, main # "ops", InHand # <<>>,
         main' = "ops", DropFirst
  PROVE  \A t : Cells(t)' = Cells(t)
<1>0. PICK top : top = Len(polls) - 1
  OBVIOUS
<1>1. /\ Len(polls) \in Nat /\ top \in Rows
      /\ InHand = Row(top) /\ InHand \in Seq(Posters)
  BY <1>0, LastRow
<1>2. /\ Len(InHand) \in Nat /\ Len(InHand) > 0
      /\ Len(Tail(InHand)) = Len(InHand) - 1
      /\ \A i \in 1 .. Len(InHand) - 1 : Tail(InHand)[i] = InHand[i + 1]
  BY <1>1, Popped, LenProperties
<1>3. /\ Rows' = Rows /\ Len(polls') = Len(polls)
      /\ \A d \in Rows \ {top} : Row(d)' = Row(d)
      /\ Row(top)' = Tail(InHand)
  BY <1>0, <1>1, RowsDropped
<1>4. \A d \in Rows \ {top} : Busy(d) /\ Busy(d)'
  BY <1>0, <1>3 DEF Busy
<1>5. Busy(top) /\ ~Busy(top)'
  BY <1>0, <1>3 DEF Busy
<1>6. \A d \in Rows \ {top} : Left(d)' = Left(d)
  BY <1>3, <1>4 DEF Left
<1>7. Left(top) = 0 .. Len(InHand) - 2 /\ Left(top)' = Left(top)
  BY <1>1, <1>2, <1>3, <1>5 DEF Left
<1>8. Unrun' = Unrun
  BY <1>3, <1>6, <1>7 DEF Unrun
<1>9. ASSUME NEW c \in Unrun PROVE Op(c)' = Op(c)
  <2>1. c[1] \in Rows /\ c[2] \in Nat /\ c[2] \in Left(c[1])
    BY DEF Unrun
  <2>2. CASE c[1] = top
    <3>1. Len(InHand) - 1 - c[2] \in 1 .. Len(InHand) - 1
      <4>1. c[2] \in 0 .. Len(InHand) - 2
        BY <2>1, <2>2, <1>7
      <4>2. QED
        BY <4>1, <1>2
    <3>2. /\ Op(c)' = Tail(InHand)[Len(InHand) - 1 - c[2]]
          /\ Op(c) = InHand[Len(InHand) - c[2]]
      BY <2>2, <1>1, <1>2, <1>3 DEF Op
    <3>3. (Len(InHand) - 1 - c[2]) + 1 = Len(InHand) - c[2]
      BY <2>1, <1>2
    <3>4. QED
      BY <3>1, <3>2, <3>3, <1>2
  <2>3. CASE c[1] # top
    BY <2>1, <2>3, <1>3 DEF Op
  <2>4. QED
    BY <2>2, <2>3
<1>10. QED
  BY <1>8, <1>9 DEF Cells

\* A poll takes the whole list.
LEMMA CellsTaken ==
  ASSUME polls \in Seq(Seq(Posters)), asyncOps \in Seq(Posters), main # "ops",
         main' = "ops", polls' = <<asyncOps>> \o polls
  PROVE  \A t : /\ Cells(t)' = Cells(t) \union
                             {<<Len(polls), Len(asyncOps) - i>> : i \in Queued(t)}
               /\ \A c \in Cells(t) : c[1] # Len(polls)
<1>0. PICK top : top = Len(polls)
  OBVIOUS
<1>1. /\ Rows' = Rows \union {top} /\ Len(polls') = Len(polls) + 1
      /\ \A d \in Rows' : Row(d)' = IF d = top THEN asyncOps ELSE Row(d)
  BY <1>0, RowsPushed
<1>2. /\ top \in Nat /\ top \notin Rows /\ Len(asyncOps) \in Nat
      /\ DOMAIN asyncOps = 1 .. Len(asyncOps)
  BY <1>0, LenProperties DEF Rows
<1>3. \A d \in Rows : Busy(d) /\ Busy(d)' /\ Row(d)' = Row(d)
  BY <1>0, <1>1, <1>2 DEF Busy, Rows
<1>4. ~Busy(top)' /\ Row(top)' = asyncOps
  BY <1>0, <1>1, <1>2 DEF Busy
<1>5. \A d \in Rows : Left(d)' = Left(d)
  BY <1>3 DEF Left
<1>6. Left(top)' = 0 .. Len(asyncOps) - 1
  BY <1>4 DEF Left
<1>. DEFINE Place(i) == <<top, Len(asyncOps) - i>>
<1>7. ASSUME NEW t, NEW c \in Cells(t)' PROVE c \in Cells(t) \union {Place(i) : i \in Queued(t)}
  <2>1. /\ c \in Nat \X Nat /\ c[1] \in Rows \union {top}
        /\ c[2] \in Left(c[1])' /\ Op(c)' = t
    BY <1>1, <1>7 DEF Cells, Unrun
  <2>2. CASE c[1] = top
    <3>. DEFINE i == Len(asyncOps) - c[2]
    <3>1. c[2] \in 0 .. Len(asyncOps) - 1
      BY <2>1, <2>2, <1>6
    <3>2. i \in DOMAIN asyncOps /\ Len(asyncOps) - i = c[2]
      BY <3>1, <1>2
    <3>3. asyncOps[i] = t
      BY <2>1, <2>2, <1>4 DEF Op
    <3>4. c = Place(i)
      BY <2>1, <2>2, <3>2
    <3>5. QED
      BY <3>2, <3>3, <3>4 DEF Queued
  <2>3. CASE c[1] # top
    <3>1. c[1] \in Rows
      BY <2>1, <2>3
    <3>2. c \in Unrun
      BY <2>1, <3>1, <1>5 DEF Unrun
    <3>3. Op(c) = t
      BY <2>1, <3>1, <1>3 DEF Op
    <3>4. QED
      BY <3>2, <3>3 DEF Cells
  <2>4. QED
    BY <2>2, <2>3
<1>8. ASSUME NEW t, NEW c \in Cells(t) PROVE c \in Cells(t)' /\ c[1] # top
  <2>1. c \in Nat \X Nat /\ c[1] \in Rows /\ c[2] \in Left(c[1]) /\ Op(c) = t
    BY <1>8 DEF Cells, Unrun
  <2>2. c \in Unrun'
    BY <2>1, <1>1, <1>5 DEF Unrun
  <2>3. Op(c)' = t
    BY <2>1, <1>3 DEF Op
  <2>4. QED
    BY <2>1, <2>2, <2>3, <1>2 DEF Cells
<1>9. ASSUME NEW t, NEW i \in Queued(t), NEW c, c = Place(i) PROVE c \in Cells(t)'
  <2>1. /\ i \in 1 .. Len(asyncOps) /\ asyncOps[i] = t
        /\ Len(asyncOps) - i \in 0 .. Len(asyncOps) - 1
        /\ Len(asyncOps) - (Len(asyncOps) - i) = i
    BY <1>2, <1>9 DEF Queued
  <2>2. c \in Nat \X Nat /\ c[1] = top /\ c[2] = Len(asyncOps) - i
    BY <2>1, <1>2, <1>9
  <2>3. c \in Unrun'
    BY <2>1, <2>2, <1>1, <1>6 DEF Unrun
  <2>4. Op(c)' = asyncOps[Len(asyncOps) - c[2]]
    BY <2>2, <1>4 DEF Op
  <2>5. QED
    BY <2>1, <2>2, <2>3, <2>4 DEF Cells
<1>10. QED
  BY <1>0, <1>7, <1>8, <1>9

\* A poll that returns has nothing left.
LEMMA CellsPopped ==
  ASSUME polls \in Seq(Seq(Posters)), polls # <<>>, main = "ops", InHand = <<>>,
         main' # "ops", polls' = Tail(polls)
  PROVE  \A t : Cells(t)' = Cells(t)
<1>0. PICK top : top = Len(polls) - 1
  OBVIOUS
<1>1. /\ Rows' = Rows \ {top} /\ Len(polls') = Len(polls) - 1
      /\ \A d \in Rows' : Row(d)' = Row(d)
  BY <1>0, RowsPopped
<1>2. Row(top) = <<>> /\ Len(polls) \in Nat
  BY <1>0, LastRow
<1>3. \A d \in Rows' : d \in Rows /\ d # top /\ Busy(d) /\ Busy(d)'
  BY <1>0, <1>1 DEF Busy
<1>4. \A d \in Rows' : Left(d)' = Left(d)
  BY <1>1, <1>3 DEF Left
<1>5. Left(top) = {}
  BY <1>2 DEF Left
<1>6. Unrun' = Unrun
  BY <1>1, <1>4, <1>5 DEF Unrun
<1>7. \A c \in Unrun' : Op(c)' = Op(c)
  BY <1>1 DEF Unrun, Op
<1>8. QED
  BY <1>6, <1>7 DEF Cells

-----------------------------------------------------------------------------
(* The steps.                                                              *)

\* Those that leave the polls alone.
Calm == Program \/ TestOps \/ (\E t \in Posters : Thread(t)) \/ UNCHANGED timerVars

\* Every other step is one of the main thread in bbSystemFlushAsyncOps.
LEMMA Steps ==
  ASSUME [TimerNext]_timerVars
  PROVE  Calm \/ OpReturns \/ TakeOps \/ RunTimerOp \/ RunJobOp \/ PollReturns
BY DEF TimerNext, Flush, Calm

\* No poll begins or ends, and none gets on, in a calm step.
LEMMA CalmPolls ==
  ASSUME Types, Calm
  PROVE  /\ polls' = polls /\ (main' = "ops" <=> main = "ops")
         /\ gets' = gets /\ freed' = freed /\ ended' = ended /\ ticks' = ticks
         /\ Rows' = Rows /\ \A d \in Rows : Row(d)' = Row(d) /\ Busy(d)' = Busy(d)
<1>1. /\ polls' = polls /\ (main' = "ops" <=> main = "ops")
      /\ gets' = gets /\ freed' = freed /\ ended' = ended /\ ticks' = ticks
  <2>1. CASE Program
    BY <2>1 DEF Program, CreateTimer, Stop, Wait, StartAsyncOp, Poll, WaitEnds, Running,
      timer, async, wait
  <2>2. CASE TestOps
    BY <2>2 DEF TestOps, timer
  <2>3. CASE \E t \in Posters : Thread(t)
    BY <2>3 DEF Thread, TestStatus, DelayOver, AppendOp, WritePipe, timer
  <2>4. CASE UNCHANGED timerVars
    BY <2>4 DEF timerVars, timer
  <2>5. QED
    BY <2>1, <2>2, <2>3, <2>4 DEF Calm
<1>2. QED
  BY <1>1 DEF Rows, Row, Busy

\* The operation in hand is one of a timer or of a job.
LEMMA HeadInHand ==
  ASSUME Types, polls # <<>>, InHand # <<>>
  PROVE  /\ InHand \in Seq(Posters) /\ Len(InHand) > 0 /\ Head(InHand) = InHand[1]
         /\ Head(InHand) \in Posters
<1>1. InHand \in Seq(Posters)
  BY LastRow DEF Types
<1>2. QED
  BY <1>1, Popped

\* The innermost poll has an operation in hand when one returns.
LEMMA OpInHand ==
  ASSUME Types, AtOperation, polls # <<>>, main # "ops"
  PROVE  InHand # <<>>
<1>1. PICK top : top = Len(polls) - 1
  OBVIOUS
<1>2. top \in Rows /\ InHand = Row(top)
  BY <1>1, LastRow DEF Types
<1>3. QED
  BY <1>1, <1>2 DEF AtOperation, Busy

\* The variables keep their types.
LEMMA TypesKept ==
  ASSUME TimerAssumption, Types, AtOperation, [TimerNext]_timerVars
  PROVE  Types'
<1>. USE DEF Posters
<1>1. CASE Calm
  <2>1. CASE Program
    <3>1. ASSUME NEW t \in Timers, CreateTimer(t) PROVE Types'
      BY <3>1 DEF Types, CreateTimer, Goto, async, wait
    <3>2. ASSUME NEW t \in Timers, Stop(t) PROVE Types'
      BY <3>2 DEF Types, Stop, async, wait
    <3>3. ASSUME NEW t \in Timers, Wait(t) PROVE Types'
      BY <3>3 DEF Types, Wait, timer, async
    <3>4. ASSUME NEW j \in Jobs, StartAsyncOp(j) PROVE Types'
      BY <3>4 DEF Types, StartAsyncOp, Goto, timer, async, wait
    <3>5. CASE Poll \/ WaitEnds
      BY <3>5 DEF Types, Poll, WaitEnds, timer, async, wait
    <3>6. QED
      BY <2>1, <3>1, <3>2, <3>3, <3>4, <3>5 DEF Program
  <2>2. CASE TestOps
    BY <2>2 DEF Types, TestOps, timer, async, wait
  <2>3. ASSUME NEW t \in Posters, Thread(t) PROVE Types'
    <3>1. CASE AppendOp(t)
      <4>1. Append(asyncOps, t) \in Seq(Posters)
        BY DEF Types
      <4>2. QED
        BY <3>1, <4>1 DEF Types, AppendOp, Goto, timer, wait
    <3>2. CASE WritePipe(t)
      <4>1. pc' \in [Posters -> {"none", "test", "delay", "post", "write", "last",
                                 "writeLast", "ended"}]
        BY <3>2 DEF Types, WritePipe, Goto
      <4>2. pipe' \in 0 .. PipeSize
        BY <3>2, TimerAssumption DEF Types, WritePipe, TimerAssumption
      <4>3. /\ asyncMutex' = None /\ asyncOps' = asyncOps /\ polls' = polls
            /\ UNCHANGED <<timer, retained, main, wait, ended>>
        BY <3>2 DEF WritePipe
      <4>4. QED
        BY <4>1, <4>2, <4>3 DEF Types, timer, wait
    <3>3. CASE TestStatus(t)
      BY <3>3 DEF Types, TestStatus, Goto, timer, async, wait
    <3>4. CASE t \in Timers /\ DelayOver(t)
      BY <3>4 DEF Types, DelayOver, Goto, async, wait
    <3>5. QED
      BY <2>3, <3>1, <3>2, <3>3, <3>4 DEF Thread
  <2>4. CASE UNCHANGED timerVars
    BY <2>4 DEF Types, timerVars, timer, async, wait
  <2>5. QED
    BY <1>1, <2>1, <2>2, <2>3, <2>4 DEF Calm
<1>2. CASE OpReturns
  <2>1. polls' \in Seq(Seq(Posters))
    BY <1>2, OpInHand, RowsDropped DEF OpReturns, Types
  <2>2. QED
    BY <1>2, <2>1 DEF Types, OpReturns, timer, async, wait
<1>3. CASE TakeOps
  <2>1. polls' \in Seq(Seq(Posters))
    BY <1>3, RowsPushed DEF TakeOps, Types
  <2>2. <<>> \in Seq(Posters)
    OBVIOUS
  <2>3. QED
    BY <1>3, <2>1, <2>2 DEF Types, TakeOps, timer, wait, TimerAssumption
<1>4. CASE RunTimerOp
  <2>1. polls' \in Seq(Seq(Posters))
    BY <1>4, RowsDropped DEF RunTimerOp, SyncOp, Types, AtOperation
  <2>2. PICK t \in Timers : t = Head(InHand)
    BY <1>4 DEF RunTimerOp
  <2>3. SyncOp(t)
    BY <1>4, <2>2 DEF RunTimerOp
  <2>4. freed' \subseteq Timers /\ retained' \subseteq Posters
    BY <2>3 DEF Types, SyncOp
  <2>5. gets' \in [Timers -> Nat] /\ ticks' \in [Timers -> Nat]
    <3>1. gets' = [gets EXCEPT ![t] = @ + 1]
      BY <2>3 DEF SyncOp
    <3>2. ticks' = [ticks EXCEPT ![t] = @ + 1] \/ ticks' = ticks
      BY <2>3 DEF SyncOp
    <3>3. gets \in [Timers -> Nat] /\ ticks \in [Timers -> Nat]
      BY DEF Types
    <3>4. gets' \in [Timers -> Nat]
      BY <3>1, <3>3
    <3>5. ticks' \in [Timers -> Nat]
      BY <3>2, <3>3
    <3>6. QED
      BY <3>4, <3>5
  <2>6. main' \in {"program", "ops"}
    BY <1>4, <2>3 DEF SyncOp, RunTimerOp
  <2>7. QED
    BY <1>4, <2>1, <2>4, <2>5, <2>6 DEF Types, RunTimerOp, async, wait
<1>5. CASE RunJobOp
  BY <1>5 DEF Types, RunJobOp, timer, async, wait
<1>6. CASE PollReturns
  <2>1. polls' \in Seq(Seq(Posters))
    BY <1>6, RowsPopped DEF PollReturns, Types, AtOperation
  <2>2. QED
    BY <1>6, <2>1 DEF Types, PollReturns, timer, async, wait
<1>7. QED
  BY <1>1, <1>2, <1>3, <1>4, <1>5, <1>6, Steps

\* The operation of a timer is dropped at once or, if the timer fires, goes on.
LEMMA TimerOpRun ==
  ASSUME Types, RunTimerOp
  PROVE  \E t \in Timers :
           /\ main = "ops" /\ InHand # <<>> /\ t = Head(InHand)
           /\ gets' = [gets EXCEPT ![t] = @ + 1]
           /\ \/ /\ status[t] = 2 /\ puts[t] = gets[t] + 1
                 /\ freed' = freed \union {t} /\ retained' = retained \ {t}
              \/ freed' = freed /\ retained' = retained
           /\ \/ main' = "program" /\ polls' = polls /\ ticks' = [ticks EXCEPT ![t] = @ + 1]
              \/ main' = "ops" /\ DropFirst /\ ticks' = ticks
           /\ status' = status /\ puts' = puts /\ pc' = pc /\ ended' = ended
           /\ asyncOps' = asyncOps /\ pipe' = pipe /\ asyncMutex' = asyncMutex
           /\ wticks' = wticks
<1>1. PICK t \in Timers : t = Head(InHand)
  BY DEF RunTimerOp
<1>2. SyncOp(t)
  BY <1>1 DEF RunTimerOp
<1>3. /\ \/ /\ status[t] = 2 /\ puts[t] = gets[t] + 1
            /\ freed' = freed \union {t} /\ retained' = retained \ {t}
         \/ freed' = freed /\ retained' = retained
      /\ gets' = [gets EXCEPT ![t] = @ + 1]
  BY <1>2 DEF SyncOp
<1>4. \/ main' = "program" /\ polls' = polls /\ ticks' = [ticks EXCEPT ![t] = @ + 1]
      \/ main' = "ops" /\ DropFirst /\ ticks' = ticks
  BY <1>2 DEF SyncOp, RunTimerOp
<1>5. QED
  BY <1>1, <1>3, <1>4 DEF RunTimerOp, async, wait

-----------------------------------------------------------------------------
(* The parts of the invariant.                                             *)

\* The pipe and the list are changed under the mutex, by who has it.
LEMMA PostingKept ==
  ASSUME TimerAssumption, Types, Posting, Started, [TimerNext]_timerVars
  PROVE  Posting'
<1>. USE DEF Posters
<1>1. CASE UNCHANGED <<pc, async>>
  BY <1>1 DEF Posting, async
<1>2. ASSUME NEW t \in Posters, NEW l,
             pc' = [pc EXCEPT ![t] = l], async' = async,
             pc[t] \notin {"write", "writeLast"}, l \notin {"write", "writeLast"}
      PROVE  Posting'
  <2>1. \A u \in Posters : pc'[u] = IF u = t THEN l ELSE pc[u]
    BY <1>2 DEF Types
  <2>2. QED
    BY <1>2, <2>1 DEF Posting, async
<1>3. ASSUME NEW t \in Posters, AppendOp(t) PROVE Posting'
  <2>. DEFINE l == IF pc[t] = "post" /\ t \in Timers THEN "write" ELSE "writeLast"
  <2>1. \A u \in Posters : pc'[u] = IF u = t THEN l ELSE pc[u]
    BY <1>3 DEF Types, AppendOp, Goto
  <2>2. /\ asyncMutex = None /\ asyncMutex' = t /\ t # None /\ pipe' = pipe
        /\ asyncOps' = Append(asyncOps, t)
    BY <1>3, TimerAssumption DEF AppendOp, TimerAssumption
  <2>3. /\ Len(asyncOps') = Len(asyncOps) + 1 /\ asyncOps'[Len(asyncOps')] = t
        /\ asyncOps' # <<>> /\ Len(asyncOps) \in Nat
    <3>1. asyncOps \in Seq(Posters)
      BY DEF Types
    <3>2. QED
      BY <2>2, <3>1
  <2>4. \A u \in Posters : (pc'[u] \in {"write", "writeLast"}) = (asyncMutex' = u)
    BY <2>1, <2>2, TimerAssumption DEF Posting, TimerAssumption
  <2>5. pipe' = Len(asyncOps') - 1
    BY <2>2, <2>3 DEF Posting
  <2>6. QED
    BY <2>2, <2>3, <2>4, <2>5 DEF Posting
<1>4. ASSUME NEW t \in Posters, WritePipe(t) PROVE Posting'
  <2>. DEFINE l == IF pc[t] = "write" THEN "test" ELSE "ended"
  <2>1. \A u \in Posters : pc'[u] = IF u = t THEN l ELSE pc[u]
    BY <1>4 DEF Types, WritePipe, Goto
  <2>2. /\ asyncMutex = t /\ t # None /\ asyncMutex' = None
        /\ pipe' = pipe + 1 /\ asyncOps' = asyncOps
    BY <1>4, TimerAssumption DEF WritePipe, Posting, TimerAssumption
  <2>3. \A u \in Posters : (pc'[u] \in {"write", "writeLast"}) = (asyncMutex' = u)
    BY <2>1, <2>2, TimerAssumption DEF Posting, TimerAssumption
  <2>4. pipe' = Len(asyncOps')
    BY <2>2, LenProperties DEF Posting, Types
  <2>5. QED
    BY <2>2, <2>3, <2>4 DEF Posting
<1>5. CASE TakeOps
  <2>1. Len(asyncOps') = 0 /\ pipe' = 0 /\ asyncMutex = None /\ asyncMutex' = None /\ pc' = pc
    BY <1>5 DEF TakeOps
  <2>2. QED
    BY <2>1 DEF Posting
<1>6. CASE Calm
  <2>1. CASE Program
    <3>1. ASSUME NEW t \in Timers, CreateTimer(t) PROVE Posting'
      <4>1. pc[t] = "none" /\ pc' = [pc EXCEPT ![t] = "test"] /\ async' = async
        BY <3>1 DEF CreateTimer, Goto, Started
      <4>2. QED
        BY <4>1, <1>2
    <3>2. ASSUME NEW j \in Jobs, StartAsyncOp(j) PROVE Posting'
      <4>1. PICK l \in {"post"} : pc[j] = "none" /\ pc' = [pc EXCEPT ![j] = l] /\ async' = async
        BY <3>2 DEF StartAsyncOp, Goto
      <4>2. QED
        BY <4>1, <1>2
    <3>3. QED
      BY <2>1, <3>1, <3>2, <1>1 DEF Program, Stop, Wait, Poll, WaitEnds
  <2>2. ASSUME NEW t \in Posters, Thread(t) PROVE Posting'
    <3>1. CASE TestStatus(t)
      <4>1. PICK l \in {"delay", "last"} : pc' = [pc EXCEPT ![t] = l]
        BY <3>1 DEF TestStatus, Goto
      <4>2. pc[t] = "test" /\ async' = async
        BY <3>1 DEF TestStatus
      <4>3. QED
        BY <4>1, <4>2, <1>2
    <3>2. CASE DelayOver(t)
      <4>1. PICK l \in {"post"} : pc[t] = "delay" /\ pc' = [pc EXCEPT ![t] = l] /\ async' = async
        BY <3>2 DEF DelayOver, Goto
      <4>2. QED
        BY <4>1, <1>2
    <3>3. QED
      BY <2>2, <3>1, <3>2, <1>3, <1>4 DEF Thread
  <2>3. QED
    BY <1>6, <1>1, <2>1, <2>2 DEF Calm, TestOps, timerVars
<1>7. CASE RunTimerOp
  BY <1>7, <1>1 DEF RunTimerOp
<1>8. QED
  BY <1>1, <1>5, <1>6, <1>7, Steps DEF OpReturns, RunJobOp, PollReturns

\* A poll begins to run operations with a row for them, and is interrupted at one.
LEMMA AtOperationKept ==
  ASSUME Types, AtOperation, [TimerNext]_timerVars
  PROVE  AtOperation'
<1>1. CASE Calm
  BY <1>1, CalmPolls DEF AtOperation
<1>2. CASE TakeOps
  <2>1. PICK top : top = Len(polls)
    OBVIOUS
  <2>2. /\ Rows' = Rows \union {top} /\ Len(polls') = Len(polls) + 1 /\ polls' # <<>>
        /\ \A d \in Rows' : Row(d)' = IF d = top THEN asyncOps ELSE Row(d)
    <3>1. /\ polls \in Seq(Seq(Posters)) /\ asyncOps \in Seq(Posters)
          /\ polls' = <<asyncOps>> \o polls
      BY <1>2 DEF TakeOps, Types
    <3>2. polls' # <<>>
      BY <3>1
    <3>3. QED
      BY <2>1, <3>1, <3>2, RowsPushed
  <2>3. main = "lock" /\ main' = "ops" /\ Len(polls) \in Nat
    BY <1>2, LenProperties DEF TakeOps, Types
  <2>4. \A d \in Rows' : Busy(d)' => d \in Rows /\ d # top /\ Busy(d)
    BY <2>1, <2>2, <2>3 DEF Busy, Rows
  <2>5. QED
    BY <2>2, <2>4 DEF AtOperation
<1>3. CASE RunTimerOp
  <2>1. PICK t \in Timers :
          /\ main = "ops" /\ InHand # <<>>
          /\ \/ main' = "program" /\ polls' = polls
             \/ main' = "ops" /\ DropFirst
    BY <1>3, TimerOpRun
  <2>2. CASE main' = "program" /\ polls' = polls
    <3>1. PICK top : top = Len(polls) - 1
      OBVIOUS
    <3>2. InHand = Row(top)
      BY <2>1, <3>1, LastRow DEF Types, AtOperation
    <3>3. QED
      BY <2>1, <2>2, <3>1, <3>2 DEF AtOperation, Rows, Row, Busy
  <2>3. CASE main' = "ops" /\ DropFirst
    <3>1. /\ Rows' = Rows /\ Len(polls') = Len(polls)
          /\ \A d \in Rows : Row(d)' = IF d = Len(polls) - 1 THEN Tail(InHand) ELSE Row(d)
          /\ polls # <<>> /\ polls' \in Seq(Seq(Posters))
      BY <2>1, <2>3, RowsDropped DEF Types, AtOperation
    <3>2. polls' # <<>>
      BY <3>1 DEF Types
    <3>3. QED
      BY <2>1, <2>3, <3>1, <3>2 DEF AtOperation, Busy
  <2>4. QED
    BY <2>1, <2>2, <2>3
<1>4. CASE RunJobOp
  <2>1. PICK top : top = Len(polls) - 1
    OBVIOUS
  <2>2. InHand = Row(top) /\ InHand # <<>>
    BY <1>4, <2>1, LastRow DEF Types, AtOperation, RunJobOp
  <2>3. QED
    BY <1>4, <2>1, <2>2 DEF AtOperation, RunJobOp, Rows, Row, Busy
<1>5. CASE OpReturns
  <2>1. main # "ops" /\ main' = "ops" /\ polls # <<>> /\ InHand # <<>> /\ DropFirst
    BY <1>5, OpInHand DEF OpReturns
  <2>2. /\ Rows' = Rows /\ Len(polls') = Len(polls) /\ polls' \in Seq(Seq(Posters))
        /\ \A d \in Rows : Row(d)' = IF d = Len(polls) - 1 THEN Tail(InHand) ELSE Row(d)
    BY <2>1, RowsDropped DEF Types
  <2>3. polls' # <<>>
    BY <2>1, <2>2 DEF Types
  <2>4. QED
    BY <2>1, <2>2, <2>3 DEF AtOperation, Busy
<1>6. CASE PollReturns
  <2>1. PICK top : top = Len(polls) - 1
    OBVIOUS
  <2>2. /\ Rows' = Rows \ {top} /\ \A d \in Rows' : Row(d)' = Row(d)
        /\ main' = "program"
    BY <1>6, <2>1, RowsPopped DEF PollReturns, Types, AtOperation
  <2>3. \A d \in Rows' : Busy(d)
    BY <2>1, <2>2 DEF Busy
  <2>4. QED
    BY <2>2, <2>3 DEF AtOperation
<1>7. QED
  BY <1>1, <1>2, <1>3, <1>4, <1>5, <1>6, Steps

\* A thread that has been started does not become one that has not.
LEMMA StartedStays ==
  ASSUME Types, [TimerNext]_timerVars
  PROVE  \A t \in Posters : pc[t] # "none" => pc'[t] # "none"
<1>. USE DEF Posters
<1>1. CASE UNCHANGED pc
  BY <1>1
<1>2. ASSUME NEW t \in Posters, NEW l, pc' = [pc EXCEPT ![t] = l], l # "none"
      PROVE  \A u \in Posters : pc[u] # "none" => pc'[u] # "none"
  BY <1>2 DEF Types
<1>3. CASE Program
  <2>1. ASSUME NEW t \in Timers, CreateTimer(t)
        PROVE  \A u \in Posters : pc[u] # "none" => pc'[u] # "none"
    BY <2>1, <1>2 DEF CreateTimer, Goto
  <2>2. ASSUME NEW j \in Jobs, StartAsyncOp(j)
        PROVE  \A u \in Posters : pc[u] # "none" => pc'[u] # "none"
    <3>1. PICK l \in {"post"} : pc' = [pc EXCEPT ![j] = l]
      BY <2>2 DEF StartAsyncOp, Goto
    <3>2. QED
      BY <3>1, <1>2
  <2>3. QED
    BY <1>3, <1>1, <2>1, <2>2 DEF Program, Stop, Wait, Poll, WaitEnds
<1>4. ASSUME NEW t \in Posters, Thread(t)
      PROVE  \A u \in Posters : pc[u] # "none" => pc'[u] # "none"
  <2>1. PICK l \in {"delay", "last", "post", "write", "writeLast", "test", "ended"} :
          pc' = [pc EXCEPT ![t] = l]
    BY <1>4 DEF Thread, TestStatus, DelayOver, AppendOp, WritePipe, Goto
  <2>2. QED
    BY <2>1, <1>2
<1>5. CASE Calm
  BY <1>5, <1>1, <1>3, <1>4 DEF Calm, TestOps, timerVars
<1>6. QED
  BY <1>1, <1>5, Steps DEF OpReturns, TakeOps, RunTimerOp, RunJobOp, PollReturns

\* What happens to the rows: one is added that holds the list, the last one is shortened
\* by its first operation, or goes.
LEMMA RowsChange ==
  ASSUME Types, AtOperation, [TimerNext]_timerVars
  PROVE  \/ Rows' = Rows /\ \A d \in Rows : Row(d)' = Row(d)
         \/ /\ Rows' = Rows \union {Len(polls)}
            /\ \A d \in Rows' : Row(d)' = IF d = Len(polls) THEN asyncOps ELSE Row(d)
         \/ /\ Rows' = Rows /\ polls # <<>> /\ InHand # <<>>
            /\ \A d \in Rows : Row(d)' = IF d = Len(polls) - 1 THEN Tail(InHand) ELSE Row(d)
         \/ /\ Rows' = Rows \ {Len(polls) - 1}
            /\ \A d \in Rows' : Row(d)' = Row(d)
<1>1. CASE polls' = polls
  BY <1>1 DEF Rows, Row
<1>2. CASE polls # <<>> /\ InHand # <<>> /\ DropFirst
  BY <1>2, RowsDropped DEF Types
<1>3. CASE TakeOps
  BY <1>3, RowsPushed DEF TakeOps, Types
<1>4. CASE PollReturns
  BY <1>4, RowsPopped DEF PollReturns, Types, AtOperation
<1>5. CASE OpReturns
  BY <1>5, <1>2, OpInHand DEF OpReturns
<1>6. CASE RunTimerOp
  BY <1>6, <1>1, <1>2, TimerOpRun DEF AtOperation
<1>7. QED
  BY <1>1, <1>3, <1>4, <1>5, <1>6, CalmPolls, Steps DEF RunJobOp

\* So no operation appears in a row that was not in a row or in the list.
LEMMA RowOps ==
  ASSUME Types, AtOperation, [TimerNext]_timerVars, NEW d \in Rows', NEW i \in DOMAIN Row(d)'
  PROVE  /\ Row(d)'[i] \in Posters
         /\ \/ \E k \in DOMAIN asyncOps : asyncOps[k] = Row(d)'[i]
            \/ \E e \in Rows : \E k \in DOMAIN Row(e) : Row(e)[k] = Row(d)'[i]
<1>1. /\ \A k \in DOMAIN asyncOps : asyncOps[k] \in Posters
      /\ \A e \in Rows : Row(e) \in Seq(Posters)
  <2>1. asyncOps \in Seq(Posters) /\ polls \in Seq(Seq(Posters))
    BY DEF Types
  <2>2. ASSUME NEW e \in Rows PROVE Row(e) \in Seq(Posters)
    <3>1. Len(polls) - e \in 1 .. Len(polls)
      BY <2>1, LenProperties DEF Rows
    <3>2. QED
      BY <2>1, <3>1 DEF Row
  <2>3. QED
    BY <2>1, <2>2
<1>2. \A e \in Rows : \A k \in DOMAIN Row(e) : Row(e)[k] \in Posters
  BY <1>1
<1>3. CASE d \in Rows /\ Row(d)' = Row(d)
  BY <1>2, <1>3
<1>4. CASE Row(d)' = asyncOps
  BY <1>1, <1>4
<1>5. CASE polls # <<>> /\ InHand # <<>> /\ Row(d)' = Tail(InHand) /\ d = Len(polls) - 1
  <2>1. InHand = Row(d) /\ d \in Rows /\ InHand \in Seq(Posters)
    BY <1>5, LastRow DEF Types
  <2>2. i \in 1 .. Len(InHand) - 1 /\ Tail(InHand)[i] = InHand[i + 1]
    BY <1>5, <2>1, Popped, LenProperties
  <2>3. i + 1 \in DOMAIN InHand
    BY <2>1, <2>2, LenProperties
  <2>4. QED
    BY <1>2, <1>5, <2>1, <2>2, <2>3
<1>6. QED
  BY <1>3, <1>4, <1>5, RowsChange

\* Operations come from threads, and move from the list into a row.
LEMMA StartedKept ==
  ASSUME TimerAssumption, Types, AtOperation, Started, [TimerNext]_timerVars
  PROVE  Started'
<1>. USE DEF Posters
<1>1. \A t \in Posters : pc[t] # "none" => pc'[t] # "none"
  BY StartedStays
<1>2. \A i \in DOMAIN asyncOps' : pc'[asyncOps'[i]] # "none"
  <2>1. CASE asyncOps' = asyncOps \/ asyncOps' = <<>>
    BY <2>1, <1>1 DEF Started, Types
  <2>2. ASSUME NEW t \in Posters, AppendOp(t)
        PROVE  \A i \in DOMAIN asyncOps' : pc'[asyncOps'[i]] # "none"
    <3>1. asyncOps \in Seq(Posters) /\ asyncOps' = Append(asyncOps, t)
      BY <2>2 DEF AppendOp, Types
    <3>2. /\ DOMAIN asyncOps' = 1 .. Len(asyncOps) + 1 /\ Len(asyncOps) \in Nat
          /\ DOMAIN asyncOps = 1 .. Len(asyncOps)
          /\ \A i \in 1 .. Len(asyncOps) : asyncOps'[i] = asyncOps[i]
          /\ asyncOps'[Len(asyncOps) + 1] = t
      BY <3>1
    <3>3. pc[t] # "none"
      BY <2>2 DEF AppendOp
    <3>4. \A i \in DOMAIN asyncOps : asyncOps[i] \in Posters
      BY <3>1
    <3>5. QED
      BY <1>1, <3>2, <3>3, <3>4 DEF Started
  <2>3. CASE \E t \in Posters : Thread(t)
    BY <2>1, <2>2, <2>3 DEF Thread, TestStatus, DelayOver, WritePipe, async
  <2>4. CASE Calm
    BY <2>1, <2>3, <2>4 DEF Calm, Program, CreateTimer, Stop, Wait, StartAsyncOp, Poll,
      WaitEnds, TestOps, timerVars, async
  <2>5. QED
    BY <2>1, <2>4, Steps DEF OpReturns, TakeOps, RunTimerOp, RunJobOp, PollReturns, async

<1>3. ASSUME NEW d \in Rows', NEW i \in DOMAIN Row(d)' PROVE pc'[Row(d)'[i]] # "none"
  BY <1>1, RowOps DEF Started
<1>4. /\ \A t \in Timers : status'[t] = 0 => pc'[t] = "none" /\ puts'[t] = 0
      /\ \A t \in Timers : status'[t] # 0 => pc'[t] # "none"
      /\ \A t \in handle' : status'[t] # 0
  <2>. DEFINE Good == /\ \A t \in Timers : status'[t] = 0 => pc'[t] = "none" /\ puts'[t] = 0
                      /\ \A t \in Timers : status'[t] # 0 => pc'[t] # "none"
                      /\ \A t \in handle' : status'[t] # 0
  <2>1. CASE UNCHANGED <<status, puts, handle, pc>>
    BY <2>1 DEF Started
  <2>2. ASSUME NEW t \in Posters, NEW l, pc' = [pc EXCEPT ![t] = l], l # "none",
               t \in Jobs \/ pc[t] # "none",
               status' = status, handle' = handle,
               puts' = puts \/ (t \in Timers /\ puts' = [puts EXCEPT ![t] = @ + 1])
        PROVE  Good
    <3>1. /\ \A u \in Timers \ {t} : pc'[u] = pc[u] /\ puts'[u] = puts[u]
          /\ t \in Timers => pc'[t] # "none" /\ status[t] # 0
          /\ status' = status /\ handle' = handle
      BY <2>2, TimerAssumption DEF Started, Types, TimerAssumption
    <3>2. QED
      BY <3>1 DEF Started
  <2>3. ASSUME NEW t \in Timers, CreateTimer(t) PROVE Good
    <3>1. \A u \in Timers : /\ pc'[u] = IF u = t THEN "test" ELSE pc[u]
                            /\ status'[u] = IF u = t THEN 1 ELSE status[u]
                            /\ puts'[u] = IF u = t THEN 1 ELSE puts[u]
      BY <2>3 DEF Types, CreateTimer, Goto
    <3>2. handle' = handle \union {t} /\ handle \subseteq Timers
      BY <2>3 DEF CreateTimer, Types
    <3>3. QED
      BY <3>1, <3>2 DEF Started
  <2>4. ASSUME NEW t \in Timers, Stop(t) PROVE Good
    <3>1. /\ \A u \in Timers : status'[u] = IF u = t THEN 2 ELSE status[u]
          /\ pc' = pc /\ puts' = puts /\ handle' = handle \ {t} /\ status[t] # 0
          /\ handle \subseteq Timers
      BY <2>4 DEF Types, Stop, Started
    <3>2. QED
      BY <3>1 DEF Started
  <2>5. ASSUME NEW j \in Jobs, StartAsyncOp(j) PROVE Good
    <3>1. PICK l : l # "none" /\ pc' = [pc EXCEPT ![j] = l]
      BY <2>5 DEF StartAsyncOp, Goto
    <3>2. status' = status /\ handle' = handle /\ puts' = puts
      BY <2>5 DEF StartAsyncOp, timer
    <3>3. QED
      BY <3>1, <3>2, <2>2
  <2>6. ASSUME NEW t \in Posters, Thread(t) PROVE Good
    <3>1. PICK l : l # "none" /\ pc' = [pc EXCEPT ![t] = l]
      BY <2>6 DEF Thread, TestStatus, DelayOver, AppendOp, WritePipe, Goto
    <3>2. pc[t] # "none"
      BY <2>6 DEF Thread, TestStatus, DelayOver, AppendOp, WritePipe
    <3>3. /\ status' = status /\ handle' = handle
          /\ puts' = puts \/ (t \in Timers /\ puts' = [puts EXCEPT ![t] = @ + 1])
      BY <2>6 DEF Thread, TestStatus, DelayOver, AppendOp, WritePipe, timer
    <3>4. QED
      BY <3>1, <3>2, <3>3, <2>2
  <2>7. CASE Calm
    BY <2>7, <2>1, <2>3, <2>4, <2>5, <2>6 DEF Calm, Program, Wait, Poll, WaitEnds, TestOps,
      timerVars, timer
  <2>8. QED
    BY <2>1, <2>7, Steps DEF OpReturns, TakeOps, RunTimerOp, RunJobOp, PollReturns, timer
<1>5. \A j \in ended' : pc'[j] # "none"
  <2>1. CASE RunJobOp
    <3>1. PICK top : top = Len(polls) - 1
      OBVIOUS
    <3>2. /\ InHand # <<>> /\ polls # <<>> /\ ended' = ended \union {Head(InHand)}
      BY <2>1 DEF RunJobOp, AtOperation
    <3>3. top \in Rows /\ InHand = Row(top) /\ Head(InHand) = Row(top)[1] /\ 1 \in DOMAIN Row(top)
      BY <3>1, <3>2, LastRow, HeadInHand DEF Types
    <3>4. Head(InHand) \in Posters /\ pc[Head(InHand)] # "none"
      BY <3>2, <3>3, HeadInHand DEF Started
    <3>5. QED
      BY <1>1, <3>2, <3>4 DEF Started, Types
  <2>2. CASE ended' = ended
    BY <2>2, <1>1 DEF Started, Types
  <2>3. QED
    BY <2>1, <2>2, CalmPolls, Steps DEF OpReturns, TakeOps, RunTimerOp, PollReturns
<1>6. QED
  BY <1>2, <1>3, <1>4, <1>5 DEF Started

\* The operations of a timer in the list are finitely many.
LEMMA QueuedFinite ==
  ASSUME Types, NEW t
  PROVE  IsFiniteSet(Queued(t)) /\ Cardinality(Queued(t)) \in Nat
<1>1. asyncOps \in Seq(Posters)
  BY DEF Types
<1>2. IsFiniteSet(1 .. Len(asyncOps))
  BY <1>1, FS_Interval, LenProperties
<1>3. Queued(t) \subseteq 1 .. Len(asyncOps)
  BY <1>1, LenProperties DEF Queued
<1>4. QED
  BY <1>2, <1>3, FS_Subset, FS_CardinalityType

\* Appending an operation adds it to those of its timer.
LEMMA QueuedAppend ==
  ASSUME Types, NEW u \in Posters, asyncOps' = Append(asyncOps, u), NEW t
  PROVE  Cardinality(Queued(t))' = Cardinality(Queued(t)) + (IF t = u THEN 1 ELSE 0)
<1>1. asyncOps \in Seq(Posters)
  BY DEF Types
<1>2. /\ DOMAIN asyncOps' = 1 .. Len(asyncOps) + 1 /\ Len(asyncOps) \in Nat
      /\ DOMAIN asyncOps = 1 .. Len(asyncOps)
      /\ \A i \in 1 .. Len(asyncOps) : asyncOps'[i] = asyncOps[i]
      /\ asyncOps'[Len(asyncOps) + 1] = u
  BY <1>1
<1>3. PICK n : n = Len(asyncOps) + 1
  OBVIOUS
<1>4. n \notin Queued(t) /\ IsFiniteSet(Queued(t)) /\ Cardinality(Queued(t)) \in Nat
  <2>1. n \notin Queued(t)
    BY <1>2, <1>3 DEF Queued
  <2>2. QED
    BY <2>1, QueuedFinite
<1>5. CASE t = u
  <2>1. Queued(t)' = Queued(t) \union {n}
    BY <1>2, <1>3, <1>5 DEF Queued
  <2>2. QED
    BY <2>1, <1>4, <1>5, FS_AddElement
<1>6. CASE t # u
  <2>1. Queued(t)' = Queued(t)
    BY <1>2, <1>3, <1>6 DEF Queued
  <2>2. QED
    BY <2>1, <1>4, <1>6
<1>7. QED
  BY <1>5, <1>6

\* What a poll takes from the list of the operations of a timer, it has in hand.
LEMMA CellsCount ==
  ASSUME Types, main # "ops", main' = "ops", polls' = <<asyncOps>> \o polls,
         NEW t, IsFiniteSet(Cells(t))
  PROVE  /\ IsFiniteSet(Cells(t)')
         /\ Cardinality(Cells(t)') = Cardinality(Cells(t)) + Cardinality(Queued(t))
<1>. DEFINE Place(i) == <<Len(polls), Len(asyncOps) - i>>
            New == {Place(i) : i \in Queued(t)}
<1>1. asyncOps \in Seq(Posters) /\ polls \in Seq(Seq(Posters))
  BY DEF Types
<1>2. Cells(t)' = Cells(t) \union New /\ \A c \in Cells(t) : c[1] # Len(polls)
  BY <1>1, CellsTaken
<1>3. Cells(t) \intersect New = {}
  BY <1>2
<1>4. IsFiniteSet(Queued(t)) /\ Cardinality(Queued(t)) \in Nat
  BY QueuedFinite
<1>5. /\ IsFiniteSet(New) /\ Cardinality(New) = Cardinality(Queued(t))
  <2>. DEFINE g == [i \in Queued(t) |-> Place(i)]
  <2>1. \A i \in Queued(t) : i \in Nat
    BY <1>1, LenProperties DEF Queued
  <2>2. \A i, k \in Queued(t) : Place(i) = Place(k) => i = k
    <3>1. ASSUME NEW i \in Queued(t), NEW k \in Queued(t), Place(i) = Place(k) PROVE i = k
      <4>1. Len(asyncOps) - i = Len(asyncOps) - k
        BY <3>1
      <4>2. QED
        BY <4>1, <2>1, <1>1, LenProperties
    <3>2. QED
      BY <3>1
  <2>3. g \in Bijection(Queued(t), New)
    BY <2>2 DEF Bijection, Injection, Surjection, IsInjective
  <2>4. ExistsBijection(Queued(t), New)
    BY <2>3 DEF ExistsBijection
  <2>5. QED
    BY <2>4, <1>4, FS_Bijection
<1>6. QED
  <2>1. Cardinality(Cells(t) \intersect New) = 0
    BY <1>3, FS_EmptySet
  <2>2. /\ IsFiniteSet(Cells(t) \union New)
        /\ Cardinality(Cells(t) \union New)
             = Cardinality(Cells(t)) + Cardinality(New) - Cardinality(Cells(t) \intersect New)
    BY <1>5, FS_Union
  <2>3. Cardinality(Cells(t)) \in Nat
    BY FS_CardinalityType
  <2>4. QED
    BY <1>2, <1>4, <1>5, <2>1, <2>2, <2>3

\* The account of each timer stays balanced.
LEMMA AccountKept ==
  ASSUME TimerAssumption, Types, AtOperation, Started, Account, [TimerNext]_timerVars
  PROVE  Account'
<1>. USE DEF Posters
<1>1. SUFFICES ASSUME NEW t \in Timers
      PROVE  /\ IsFiniteSet(Cells(t)')
             /\ puts'[t] = gets'[t] + Cardinality(Queued(t)') + Cardinality(Cells(t)') + Due(t)'
  BY DEF Account
<1>. DEFINE Q == Cardinality(Queued(t))
            C == Cardinality(Cells(t))
<1>2. /\ Q \in Nat /\ C \in Nat /\ IsFiniteSet(Cells(t)) /\ Due(t) \in Nat
      /\ puts[t] \in Nat /\ gets[t] \in Nat
      /\ puts[t] = gets[t] + Q + C + Due(t)
  <2>1. Q \in Nat
    BY QueuedFinite
  <2>2. IsFiniteSet(Cells(t)) /\ puts[t] = gets[t] + Q + C + Due(t)
    BY DEF Account
  <2>3. C \in Nat
    BY <2>2, FS_CardinalityType
  <2>4. puts[t] \in Nat /\ gets[t] \in Nat /\ Due(t) \in Nat
    BY DEF Types, Due
  <2>5. QED
    BY <2>1, <2>2, <2>3, <2>4
<1>3. CASE Calm
  <2>1. Cells(t)' = Cells(t) /\ gets'[t] = gets[t]
    BY <1>3, CalmPolls, SameCells DEF Types
  <2>2. SUFFICES puts'[t] = gets[t] + Cardinality(Queued(t)') + C + Due(t)'
    BY <2>1, <1>2
  <2>3. ASSUME asyncOps' = asyncOps, Due(t)' \in Nat, puts'[t] \in Nat,
               puts'[t] + Due(t) = puts[t] + Due(t)'
        PROVE  puts'[t] = gets[t] + Cardinality(Queued(t)') + C + Due(t)'
    <3>1. Queued(t)' = Queued(t)
      BY <2>3 DEF Queued
    <3>2. QED
      BY <2>3, <3>1, <1>2
  <2>4. CASE asyncOps' = asyncOps /\ puts'[t] = puts[t] /\ pc'[t] = pc[t]
    <3>1. Due(t)' = Due(t)
      BY <2>4 DEF Due
    <3>2. QED
      BY <2>3, <2>4, <3>1, <1>2
  <2>5. CASE Program
    <3>1. ASSUME NEW u \in Timers, CreateTimer(u)
          PROVE  puts'[t] = gets[t] + Cardinality(Queued(t)') + C + Due(t)'
      <4>1. asyncOps' = asyncOps /\ status[u] = 0
        BY <3>1 DEF CreateTimer, async
      <4>2. CASE t = u
        <5>1. pc[t] = "none" /\ puts[t] = 0 /\ pc'[t] = "test" /\ puts'[t] = 1
          BY <3>1, <4>1, <4>2 DEF CreateTimer, Goto, Started, Types
        <5>2. Due(t) = 0 /\ Due(t)' = 1
          BY <5>1 DEF Due
        <5>3. QED
          BY <4>1, <5>1, <5>2, <2>3
      <4>3. CASE t # u
        <5>1. pc'[t] = pc[t] /\ puts'[t] = puts[t]
          BY <3>1, <4>3 DEF CreateTimer, Goto, Types
        <5>2. QED
          BY <4>1, <5>1, <2>4
      <4>4. QED
        BY <4>2, <4>3
    <3>2. ASSUME NEW j \in Jobs, StartAsyncOp(j)
          PROVE  puts'[t] = gets[t] + Cardinality(Queued(t)') + C + Due(t)'
      <4>1. asyncOps' = asyncOps /\ puts'[t] = puts[t]
        BY <3>2 DEF StartAsyncOp, async, timer
      <4>2. pc'[t] = pc[t]
        BY <3>2, TimerAssumption DEF StartAsyncOp, Goto, Types, TimerAssumption
      <4>3. QED
        BY <4>1, <4>2, <2>4
    <3>3. QED
      BY <2>5, <3>1, <3>2, <2>4 DEF Program, Stop, Wait, Poll, WaitEnds, timer, async
  <2>6. ASSUME NEW u \in Posters, Thread(u)
        PROVE  puts'[t] = gets[t] + Cardinality(Queued(t)') + C + Due(t)'
    <3>1. CASE TestStatus(u)
      <4>1. asyncOps' = asyncOps /\ puts'[t] = puts[t]
        BY <3>1 DEF TestStatus, async, timer
      <4>2. t = u => pc[t] = "test" /\ pc'[t] \in {"delay", "last"}
        BY <3>1 DEF TestStatus, Goto, Types
      <4>3. t # u => pc'[t] = pc[t]
        BY <3>1 DEF TestStatus, Goto, Types
      <4>4. Due(t)' = Due(t)
        BY <4>2, <4>3 DEF Due
      <4>5. QED
        BY <4>1, <4>4, <2>3, <1>2
    <3>2. CASE u \in Timers /\ DelayOver(u)
      <4>1. asyncOps' = asyncOps
        BY <3>2 DEF DelayOver, async
      <4>2. CASE t = u
        <5>1. pc[t] = "delay" /\ pc'[t] = "post" /\ puts'[t] = puts[t] + 1
          BY <3>2, <4>2 DEF DelayOver, Goto, Types
        <5>2. Due(t) = 1 /\ Due(t)' = 2
          BY <5>1 DEF Due
        <5>3. QED
          BY <4>1, <5>1, <5>2, <2>3, <1>2
      <4>3. CASE t # u
        <5>1. pc'[t] = pc[t] /\ puts'[t] = puts[t]
          BY <3>2, <4>3 DEF DelayOver, Goto, Types
        <5>2. QED
          BY <4>1, <5>1, <2>4
      <4>4. QED
        BY <4>2, <4>3
    <3>3. CASE AppendOp(u)
      <4>1. Cardinality(Queued(t)') = Q + (IF t = u THEN 1 ELSE 0) /\ puts'[t] = puts[t]
        BY <3>3, QueuedAppend DEF AppendOp, timer
      <4>2. CASE t = u
        <5>1. \/ pc[t] = "post" /\ pc'[t] = "write"
              \/ pc[t] = "last" /\ pc'[t] = "writeLast"
          BY <3>3, <4>2 DEF AppendOp, Goto, Types
        <5>2. Due(t) = Due(t)' + 1 /\ Due(t)' \in Nat
          BY <5>1 DEF Due
        <5>3. QED
          BY <4>1, <4>2, <5>2, <1>2
      <4>3. CASE t # u
        <5>1. pc'[t] = pc[t]
          BY <3>3, <4>3 DEF AppendOp, Goto, Types
        <5>2. Due(t)' = Due(t)
          BY <5>1 DEF Due
        <5>3. QED
          BY <4>1, <4>3, <5>2, <1>2
      <4>4. QED
        BY <4>2, <4>3
    <3>4. CASE WritePipe(u)
      <4>1. asyncOps' = asyncOps /\ puts'[t] = puts[t]
        BY <3>4 DEF WritePipe, timer
      <4>2. t = u => \/ pc[t] = "write" /\ pc'[t] = "test"
                     \/ pc[t] = "writeLast" /\ pc'[t] = "ended"
        BY <3>4 DEF WritePipe, Goto, Types
      <4>3. t # u => pc'[t] = pc[t]
        BY <3>4 DEF WritePipe, Goto, Types
      <4>4. Due(t)' = Due(t)
        BY <4>2, <4>3 DEF Due
      <4>5. QED
        BY <4>1, <4>4, <2>3, <1>2
    <3>5. QED
      BY <2>6, <3>1, <3>2, <3>3, <3>4 DEF Thread
  <2>7. QED
    BY <1>3, <2>4, <2>5, <2>6 DEF Calm, TestOps, timerVars, timer, async
<1>4. CASE TakeOps
  <2>1. /\ main # "ops" /\ main' = "ops" /\ polls' = <<asyncOps>> \o polls /\ asyncOps' = <<>>
        /\ puts' = puts /\ gets' = gets /\ pc' = pc
    BY <1>4 DEF TakeOps, timer
  <2>2. IsFiniteSet(Cells(t)') /\ Cardinality(Cells(t)') = C + Q
    BY <2>1, <1>2, CellsCount
  <2>3. Queued(t)' = {}
    BY <2>1 DEF Queued
  <2>4. Cardinality(Queued(t)') = 0
    BY <2>3, FS_EmptySet
  <2>5. Due(t)' = Due(t)
    BY <2>1 DEF Due
  <2>6. QED
    BY <2>1, <2>2, <2>4, <2>5, <1>2
<1>5. CASE RunTimerOp
  <2>1. PICK u \in Timers :
          /\ main = "ops" /\ InHand # <<>> /\ u = Head(InHand)
          /\ gets' = [gets EXCEPT ![u] = @ + 1]
          /\ \/ main' = "program" /\ polls' = polls
             \/ main' = "ops" /\ DropFirst
          /\ puts' = puts /\ pc' = pc /\ asyncOps' = asyncOps
    BY <1>5, TimerOpRun
  <2>2. PICK f : f \in Cells(u) /\ Cells(t)' = Cells(t) \ {f}
    BY <2>1, CellRun DEF Types, AtOperation
  <2>3. IsFiniteSet(Cells(t)') /\ Cardinality(Cells(t)') = C - (IF f \in Cells(t) THEN 1 ELSE 0)
    BY <2>2, <1>2, FS_RemoveElement
  <2>4. f \in Cells(t) <=> t = u
    BY <2>2 DEF Cells
  <2>5. gets'[t] = gets[t] + (IF t = u THEN 1 ELSE 0)
    BY <2>1 DEF Types
  <2>6. Queued(t)' = Queued(t) /\ Due(t)' = Due(t)
    BY <2>1 DEF Queued, Due
  <2>7. QED
    BY <2>1, <2>3, <2>4, <2>5, <2>6, <1>2
<1>6. ASSUME puts' = puts, gets' = gets, pc' = pc, asyncOps' = asyncOps, Cells(t)' = Cells(t)
      PROVE  /\ IsFiniteSet(Cells(t)')
             /\ puts'[t] = gets'[t] + Cardinality(Queued(t)') + Cardinality(Cells(t)') + Due(t)'
  BY <1>2, <1>6 DEF Queued, Due
<1>7. CASE RunJobOp
  <2>1. PICK f : f \in Cells(Head(InHand)) /\ Cells(t)' = Cells(t) \ {f}
    BY <1>7, CellRun DEF RunJobOp, Types, AtOperation
  <2>2. f \notin Cells(t)
    BY <1>7, <2>1, TimerAssumption DEF RunJobOp, Cells, TimerAssumption
  <2>3. QED
    BY <1>7, <1>6, <2>1, <2>2 DEF RunJobOp, timer, async
<1>8. CASE OpReturns
  <2>1. Cells(t)' = Cells(t)
    BY <1>8, OpInHand, CellsReturn DEF OpReturns, Types
  <2>2. QED
    BY <1>8, <1>6, <2>1 DEF OpReturns, timer, async
<1>9. CASE PollReturns
  <2>1. Cells(t)' = Cells(t)
    BY <1>9, CellsPopped DEF PollReturns, Types, AtOperation
  <2>2. QED
    BY <1>9, <1>6, <2>1 DEF PollReturns, timer, async
<1>10. QED
  BY <1>3, <1>4, <1>5, <1>7, <1>8, <1>9, Steps

\* Of a timer that is freed no operation is left.
LEMMA Spent ==
  ASSUME Types, Account, FreedDone, NEW t \in freed
  PROVE  Queued(t) = {} /\ Cells(t) = {}
<1>1. t \in Timers
  BY DEF Types
<1>2. /\ IsFiniteSet(Queued(t)) /\ Cardinality(Queued(t)) \in Nat
      /\ IsFiniteSet(Cells(t)) /\ Cardinality(Cells(t)) \in Nat
  BY <1>1, QueuedFinite, FS_CardinalityType DEF Account
<1>3. puts[t] \in Nat /\ gets[t] \in Nat /\ puts[t] = gets[t] /\ Due(t) \in Nat
  BY <1>1 DEF Types, FreedDone, Due
<1>4. puts[t] = gets[t] + Cardinality(Queued(t)) + Cardinality(Cells(t)) + Due(t)
  BY <1>1 DEF Account
<1>5. Cardinality(Queued(t)) = 0 /\ Cardinality(Cells(t)) = 0
  <2>1. \A g, q, c, d \in Nat : g = g + q + c + d => q = 0 /\ c = 0
    OBVIOUS
  <2>2. QED
    BY <2>1, <1>2, <1>3, <1>4
<1>6. QED
  BY <1>2, <1>5, FS_EmptySet

\* A timer that its last operation frees has a thread that has ended: the operation is
\* the only one that is left, and none is due.
LEMMA LastOfAll ==
  ASSUME TimerAssumption, Types, Posting, Started, Account,
         NEW t \in Timers, NEW f \in Cells(t), puts[t] = gets[t] + 1
  PROVE  pc[t] = "ended"
<1>1. /\ IsFiniteSet(Queued(t)) /\ Cardinality(Queued(t)) \in Nat
      /\ IsFiniteSet(Cells(t)) /\ Cardinality(Cells(t)) \in Nat
  BY QueuedFinite, FS_CardinalityType DEF Account
<1>2. Cardinality(Cells(t)) # 0
  BY <1>1, FS_EmptySet
<1>3. puts[t] \in Nat /\ gets[t] \in Nat /\ Due(t) \in Nat
  BY DEF Types, Due
<1>4. puts[t] = gets[t] + Cardinality(Queued(t)) + Cardinality(Cells(t)) + Due(t)
  BY DEF Account
<1>5. Cardinality(Queued(t)) = 0 /\ Due(t) = 0
  BY <1>1, <1>2, <1>3, <1>4
<1>6. Queued(t) = {}
  BY <1>1, <1>5, FS_EmptySet
<1>7. pc[t] # "writeLast"
  <2>1. SUFFICES ASSUME pc[t] = "writeLast" PROVE FALSE
    OBVIOUS
  <2>2. /\ asyncMutex = t /\ asyncMutex # None /\ asyncOps # <<>>
        /\ asyncOps[Len(asyncOps)] = t
    BY <2>1, TimerAssumption DEF Posting, Posters, TimerAssumption
  <2>3. Len(asyncOps) \in DOMAIN asyncOps
    BY <2>2 DEF Types
  <2>4. Len(asyncOps) \in Queued(t)
    BY <2>2, <2>3 DEF Queued
  <2>5. QED
    BY <2>4, <1>6
<1>8. pc[t] # "none"
  <2>1. SUFFICES status[t] # 0
    BY DEF Started
  <2>2. QED
    BY <1>3 DEF Started
<1>9. pc[t] \in {"none", "test", "delay", "post", "write", "last", "writeLast", "ended"}
  BY DEF Types, Posters
<1>10. QED
  BY <1>5, <1>7, <1>8, <1>9 DEF Due

\* What is freed stays as it was when it was freed.
LEMMA FreedDoneKept ==
  ASSUME TimerAssumption, Types, Posting, AtOperation, Started, Account, FreedDone, [TimerNext]_timerVars
  PROVE  FreedDone'
<1>. USE DEF Posters
<1>1. SUFFICES ASSUME NEW t \in freed'
      PROVE  status'[t] = 2 /\ pc'[t] = "ended" /\ puts'[t] = gets'[t]
  BY DEF FreedDone
<1>2. t \in freed => status[t] = 2 /\ pc[t] = "ended" /\ puts[t] = gets[t] /\ t \in Timers
  BY DEF FreedDone, Types
<1>3. CASE UNCHANGED <<status, pc, puts, gets, freed>>
  BY <1>2, <1>3
<1>4. CASE Program
  <2>1. ASSUME NEW u \in Timers, CreateTimer(u)
        PROVE  status'[t] = 2 /\ pc'[t] = "ended" /\ puts'[t] = gets'[t]
    <3>1. t \in freed /\ t # u /\ gets' = gets
      BY <2>1, <1>1, <1>2 DEF CreateTimer
    <3>2. status'[t] = status[t] /\ pc'[t] = pc[t] /\ puts'[t] = puts[t]
      BY <2>1, <3>1, <1>2 DEF CreateTimer, Goto, Types
    <3>3. QED
      BY <3>1, <3>2, <1>2
  <2>2. ASSUME NEW u \in Timers, Stop(u)
        PROVE  status'[t] = 2 /\ pc'[t] = "ended" /\ puts'[t] = gets'[t]
    <3>1. status'[t] = 2
      BY <2>2, <1>1, <1>2 DEF Stop, Types
    <3>2. QED
      BY <2>2, <3>1, <1>1, <1>2 DEF Stop
  <2>3. ASSUME NEW j \in Jobs, StartAsyncOp(j)
        PROVE  status'[t] = 2 /\ pc'[t] = "ended" /\ puts'[t] = gets'[t]
    <3>1. t \in freed /\ t # j
      BY <2>3, <1>1, <1>2, TimerAssumption DEF StartAsyncOp, timer, TimerAssumption
    <3>2. pc'[t] = pc[t]
      BY <2>3, <3>1, <1>2 DEF StartAsyncOp, Goto, Types
    <3>3. QED
      BY <2>3, <3>1, <3>2, <1>2 DEF StartAsyncOp, timer
  <2>4. QED
    BY <1>4, <2>1, <2>2, <2>3, <1>3 DEF Program, Wait, Poll, WaitEnds, timer
<1>5. ASSUME NEW u \in Posters, Thread(u)
      PROVE  status'[t] = 2 /\ pc'[t] = "ended" /\ puts'[t] = gets'[t]
  <2>1. t \in freed /\ status' = status /\ gets' = gets
    BY <1>1, <1>5 DEF Thread, TestStatus, DelayOver, AppendOp, WritePipe, timer
  <2>2. pc[u] # "ended"
    BY <1>5 DEF Thread, TestStatus, DelayOver, AppendOp, WritePipe
  <2>3. t # u
    BY <2>1, <2>2, <1>2
  <2>4. PICK l : pc' = [pc EXCEPT ![u] = l]
    BY <1>5 DEF Thread, TestStatus, DelayOver, AppendOp, WritePipe, Goto
  <2>5. pc'[t] = pc[t]
    BY <2>1, <2>3, <2>4, <1>2 DEF Types
  <2>6. puts' = puts \/ puts' = [puts EXCEPT ![u] = @ + 1]
    BY <1>5 DEF Thread, TestStatus, DelayOver, AppendOp, WritePipe, timer
  <2>7. puts'[t] = puts[t]
    BY <2>1, <2>3, <2>6, <1>2 DEF Types
  <2>8. QED
    BY <2>1, <2>5, <2>7, <1>2
<1>6. CASE RunTimerOp
  <2>1. PICK u \in Timers :
          /\ main = "ops" /\ InHand # <<>> /\ u = Head(InHand)
          /\ gets' = [gets EXCEPT ![u] = @ + 1]
          /\ \/ /\ status[u] = 2 /\ puts[u] = gets[u] + 1
                /\ freed' = freed \union {u} /\ retained' = retained \ {u}
             \/ freed' = freed /\ retained' = retained
          /\ \/ main' = "program" /\ polls' = polls
             \/ main' = "ops" /\ DropFirst
          /\ status' = status /\ puts' = puts /\ pc' = pc
    BY <1>6, TimerOpRun
  <2>2. PICK f : f \in Cells(u)
    BY <2>1, CellRun DEF Types, AtOperation
  <2>3. u \notin freed
    BY <2>2, Spent
  <2>4. CASE t \in freed
    <3>1. gets'[t] = gets[t]
      BY <2>1, <2>3, <2>4, <1>2 DEF Types
    <3>2. QED
      BY <2>1, <2>4, <3>1, <1>2
  <2>5. CASE t \notin freed
    <3>1. t = u /\ status[t] = 2 /\ puts[t] = gets[t] + 1
      BY <2>1, <2>5, <1>1
    <3>2. pc[t] = "ended"
      BY <2>2, <3>1, LastOfAll
    <3>3. gets'[t] = gets[t] + 1
      BY <2>1, <3>1 DEF Types
    <3>4. QED
      BY <2>1, <3>1, <3>2, <3>3
  <2>6. QED
    BY <2>4, <2>5
<1>7. CASE Calm
  BY <1>7, <1>3, <1>4, <1>5 DEF Calm, TestOps, timerVars, timer
<1>8. QED
  BY <1>3, <1>6, <1>7, Steps DEF OpReturns, TakeOps, RunJobOp, PollReturns, timer

\* Wait does not count ticks that have not been.
LEMMA WaitedKept ==
  ASSUME Types, Waited, [TimerNext]_timerVars
  PROVE  Waited'
<1>1. CASE UNCHANGED <<ticks, wticks>>
  BY <1>1 DEF Waited
<1>2. CASE WaitEnds
  <2>1. /\ waiting \in Timers /\ ticks' = ticks
        /\ wticks' = [wticks EXCEPT ![waiting] = ticks[waiting]]
        /\ wticks \in [Timers -> Nat] /\ ticks \in [Timers -> Nat]
    BY <1>2 DEF WaitEnds, Types, timer
  <2>2. QED
    BY <2>1 DEF Waited
<1>3. CASE RunTimerOp
  <2>1. PICK t \in Timers : /\ ticks' = [ticks EXCEPT ![t] = @ + 1] \/ ticks' = ticks
                            /\ wticks' = wticks
    BY <1>3, TimerOpRun
  <2>2. wticks \in [Timers -> Nat] /\ ticks \in [Timers -> Nat]
    BY DEF Types
  <2>3. \A u \in Timers : ticks'[u] >= ticks[u]
    BY <2>1, <2>2
  <2>4. \A u \in Timers : ticks'[u] \in Nat
    BY <2>1, <2>2
  <2>5. QED
    BY <2>1, <2>2, <2>3, <2>4 DEF Waited
<1>4. CASE Calm
  BY <1>4, <1>1, <1>2 DEF Calm, Program, CreateTimer, Stop, Wait, StartAsyncOp, Poll, TestOps,
    Thread, TestStatus, DelayOver, AppendOp, WritePipe, timerVars, timer, wait
<1>5. QED
  BY <1>1, <1>3, <1>4, Steps DEF OpReturns, TakeOps, RunJobOp, PollReturns, timer, wait

\* Timers and jobs are held on to while they are needed.
LEMMA HoldingKept ==
  ASSUME TimerAssumption, Types, AtOperation, Started, FreedDone, Holding, [TimerNext]_timerVars
  PROVE  Holding'
<1>. USE DEF Posters
<1>. DEFINE At(j) == \E d \in Rows : Busy(d) /\ Row(d)[1] = j
            Heads == \A d \in Rows : Busy(d) /\ Row(d)[1] \in Jobs => Row(d)[1] \in ended
<1>1. /\ \A t \in Timers : (t \in retained) = (status[t] # 0 /\ t \notin freed)
      /\ \A j \in Jobs : pc[j] # "none" /\ j \notin ended => j \in retained
      /\ \A j \in Jobs \intersect retained : j \notin ended \/ At(j)
      /\ Heads
  BY DEF Holding
<1>2. CASE Calm
  <2>1. /\ freed' = freed /\ ended' = ended /\ Rows' = Rows
        /\ \A d \in Rows : Row(d)' = Row(d) /\ Busy(d)' = Busy(d)
    BY <1>2, CalmPolls
  <2>2. Heads' /\ \A j : At(j)' <=> At(j)
    BY <2>1, <1>1
  <2>3. ASSUME \A t \in Timers : (t \in retained') = (status'[t] # 0 /\ t \notin freed),
               \A j \in Jobs : pc'[j] # "none" /\ j \notin ended => j \in retained',
               \A j \in Jobs \intersect retained' : j \in retained \/ j \notin ended
        PROVE  Holding'
    <3>1. \A j \in Jobs \intersect retained' : j \notin ended' \/ At(j)'
      BY <2>1, <2>2, <2>3, <1>1
    <3>2. QED
      BY <2>1, <2>2, <2>3, <3>1 DEF Holding
  <2>4. CASE UNCHANGED <<retained, status, pc>>
    BY <2>4, <2>3, <1>1
  <2>5. ASSUME NEW t \in Timers, CreateTimer(t) PROVE Holding'
    <3>1. /\ \A u \in Timers : status'[u] = IF u = t THEN 1 ELSE status[u]
          /\ \A j \in Jobs : pc'[j] = pc[j] /\ j # t
          /\ retained' = retained \union {t}
      BY <2>5, TimerAssumption DEF CreateTimer, Goto, Types, TimerAssumption
    <3>2. t \notin freed
      BY <2>5 DEF CreateTimer, FreedDone
    <3>3. QED
      BY <3>1, <3>2, <2>3, <1>1
  <2>6. ASSUME NEW t \in Timers, Stop(t) PROVE Holding'
    <3>1. /\ \A u \in Timers : status'[u] = IF u = t THEN 2 ELSE status[u]
          /\ pc' = pc /\ retained' = retained /\ status[t] # 0
      BY <2>6 DEF Stop, Started, Types
    <3>2. QED
      BY <3>1, <2>3, <1>1
  <2>7. ASSUME NEW j \in Jobs, StartAsyncOp(j) PROVE Holding'
    <3>1. /\ retained' = retained \union {j} /\ status' = status /\ pc[j] = "none"
          /\ \A k \in Jobs : k # j => pc'[k] = pc[k]
      BY <2>7 DEF StartAsyncOp, Goto, timer, Types
    <3>2. j \notin Timers /\ j \notin ended
      BY <3>1, TimerAssumption DEF Started, TimerAssumption
    <3>3. QED
      BY <3>1, <3>2, <2>3, <1>1
  <2>8. ASSUME NEW u \in Posters, Thread(u) PROVE Holding'
    <3>1. retained' = retained /\ status' = status /\ pc[u] # "none"
      BY <2>8 DEF Thread, TestStatus, DelayOver, AppendOp, WritePipe, timer
    <3>2. PICK l : pc' = [pc EXCEPT ![u] = l]
      BY <2>8 DEF Thread, TestStatus, DelayOver, AppendOp, WritePipe, Goto
    <3>3. \A j \in Jobs : pc'[j] # "none" => pc[j] # "none"
      BY <3>1, <3>2 DEF Types
    <3>4. QED
      BY <3>1, <3>3, <2>3, <1>1
  <2>9. QED
    BY <1>2, <2>4, <2>5, <2>6, <2>7, <2>8 DEF Calm, Program, Wait, Poll, WaitEnds, TestOps,
      timerVars, timer
<1>3. CASE TakeOps
  <2>1. /\ retained' = retained /\ status' = status /\ pc' = pc /\ freed' = freed
        /\ ended' = ended
    BY <1>3 DEF TakeOps, timer
  <2>2. /\ Rows' = Rows \union {Len(polls)} /\ Len(polls) \notin Rows
        /\ \A d \in Rows' : Row(d)' = IF d = Len(polls) THEN asyncOps ELSE Row(d)
        /\ Len(polls') = Len(polls) + 1 /\ Len(polls) \in Nat
    <3>1. polls \in Seq(Seq(Posters)) /\ Len(polls) \in Nat
      BY LenProperties DEF Types
    <3>2. Len(polls) \notin Rows
      BY <3>1 DEF Rows
    <3>3. QED
      BY <1>3, <3>1, <3>2, RowsPushed DEF TakeOps, Types
  <2>3. main # "ops" /\ main' = "ops"
    BY <1>3 DEF TakeOps
  <2>4. \A d \in Rows' : Busy(d)' => d \in Rows /\ Busy(d) /\ Row(d)' = Row(d)
    BY <2>2, <2>3 DEF Busy
  <2>5. \A d \in Rows : Busy(d)' /\ d \in Rows' /\ Row(d)' = Row(d)
    BY <2>2, <2>3 DEF Busy, Rows
  <2>6. Heads'
    BY <2>1, <2>4, <1>1
  <2>7. \A j : At(j) => At(j)'
    BY <2>5
  <2>8. QED
    BY <2>1, <2>6, <2>7, <1>1 DEF Holding
<1>4. CASE RunTimerOp
  <2>1. PICK t \in Timers :
          /\ main = "ops" /\ InHand # <<>> /\ t = Head(InHand)
          /\ \/ freed' = freed \union {t} /\ retained' = retained \ {t}
             \/ freed' = freed /\ retained' = retained
          /\ \/ main' = "program" /\ polls' = polls
             \/ main' = "ops" /\ DropFirst
          /\ status' = status /\ pc' = pc /\ ended' = ended
    BY <1>4, TimerOpRun
  <2>2. PICK top : top = Len(polls) - 1
    OBVIOUS
  <2>3. /\ polls # <<>> /\ InHand = Row(top) /\ Row(top)[1] = t /\ top \in Rows
        /\ Rows \subseteq Nat /\ t \notin Jobs
    BY <2>1, <2>2, LastRow, HeadInHand, TimerAssumption DEF Types, AtOperation, Rows, TimerAssumption
  <2>4. Rows' = Rows /\ \A d \in Rows \ {top} : Row(d)' = Row(d) /\ Busy(d) /\ Busy(d)'
    <3>1. Rows' = Rows /\ Len(polls') = Len(polls) /\ \A d \in Rows \ {top} : Row(d)' = Row(d)
      BY <2>1, <2>2, <2>3, RowsDropped DEF Types, Rows, Row
    <3>2. QED
      BY <3>1, <2>2 DEF Busy
  <2>5. ~Busy(top) /\ (Busy(top)' => Row(top)' = Row(top))
    <3>1. CASE main' = "program" /\ polls' = polls
      BY <3>1, <2>1, <2>2 DEF Busy, Row
    <3>2. CASE main' = "ops" /\ DropFirst
      <4>1. Len(polls') = Len(polls)
        BY <3>2, <2>1, <2>3, RowsDropped DEF Types
      <4>2. QED
        BY <3>2, <4>1, <2>1, <2>2 DEF Busy
    <3>3. QED
      BY <2>1, <3>1, <3>2
  <2>6. Heads'
    BY <2>1, <2>3, <2>4, <2>5, <1>1
  <2>7. \A j : At(j) => At(j)'
    BY <2>4, <2>5
  <2>8. \A u \in Timers : (u \in retained') = (status'[u] # 0 /\ u \notin freed')
    BY <2>1, <1>1
  <2>9. \A j \in Jobs : j \in retained' <=> j \in retained
    BY <2>1, <2>3
  <2>10. QED
    BY <2>1, <2>6, <2>7, <2>8, <2>9, <1>1 DEF Holding
<1>5. CASE RunJobOp
  <2>1. PICK top : top = Len(polls) - 1
    OBVIOUS
  <2>2. PICK h : h = Head(InHand)
    OBVIOUS
  <2>3. /\ main = "ops" /\ main' = "program" /\ h \in Jobs /\ ended' = ended \union {h}
        /\ polls' = polls /\ retained' = retained /\ status' = status /\ pc' = pc
        /\ freed' = freed
    BY <1>5, <2>2 DEF RunJobOp, timer
  <2>4. Row(top)[1] = h /\ top \in Rows
    BY <1>5, <2>1, <2>2, LastRow, HeadInHand DEF Types, AtOperation, RunJobOp
  <2>5. Rows' = Rows /\ \A d \in Rows : Row(d)' = Row(d) /\ Busy(d)' /\ (Busy(d) <=> d # top)
    BY <2>1, <2>3 DEF Rows, Row, Busy
  <2>6. Heads'
    BY <2>3, <2>4, <2>5, <1>1
  <2>7. \A j : At(j) \/ j = h => At(j)'
    BY <2>4, <2>5
  <2>8. QED
    BY <2>3, <2>6, <2>7, <1>1 DEF Holding
<1>6. CASE OpReturns
  <2>1. PICK top : top = Len(polls) - 1
    OBVIOUS
  <2>2. PICK h : h = Head(InHand)
    OBVIOUS
  <2>3. /\ main # "ops" /\ main' = "ops" /\ polls # <<>> /\ InHand # <<>> /\ DropFirst
        /\ retained' = IF h \in Jobs THEN retained \ {h} ELSE retained
        /\ status' = status /\ pc' = pc /\ freed' = freed /\ ended' = ended
    BY <1>6, <2>2, OpInHand DEF OpReturns, timer
  <2>4. Row(top)[1] = h /\ top \in Rows /\ Busy(top)
    BY <2>1, <2>2, <2>3, LastRow, HeadInHand DEF Types, Busy
  <2>5. /\ Rows' = Rows /\ Len(polls') = Len(polls)
        /\ \A d \in Rows : Row(d)' = IF d = Len(polls) - 1 THEN Tail(InHand) ELSE Row(d)
    BY <2>3, RowsDropped DEF Types
  <2>6. \A d \in Rows : (Busy(d)' <=> d # top) /\ (d # top => Row(d)' = Row(d) /\ Busy(d))
    BY <2>1, <2>3, <2>5 DEF Busy
  <2>7. Heads'
    BY <2>3, <2>5, <2>6, <1>1
  <2>8. \A j : At(j) /\ j # h => At(j)'
    BY <2>4, <2>5, <2>6
  <2>9. h \in Jobs => h \in ended
    BY <2>4, <1>1
  <2>10. \A t \in Timers : (t \in retained') = (status'[t] # 0 /\ t \notin freed')
    BY <2>3, <1>1, TimerAssumption DEF TimerAssumption
  <2>11. QED
    BY <2>3, <2>7, <2>8, <2>9, <2>10, <1>1 DEF Holding
<1>7. CASE PollReturns
  <2>1. PICK top : top = Len(polls) - 1
    OBVIOUS
  <2>2. /\ main = "ops" /\ main' = "program" /\ retained' = retained /\ status' = status
        /\ pc' = pc /\ freed' = freed /\ ended' = ended
    BY <1>7 DEF PollReturns, timer
  <2>3. Rows' = Rows \ {top} /\ \A d \in Rows' : Row(d)' = Row(d)
    BY <1>7, <2>1, RowsPopped DEF PollReturns, Types, AtOperation
  <2>4. /\ \A d \in Rows' : Busy(d) /\ Busy(d)'
        /\ ~Busy(top)
    BY <2>1, <2>2, <2>3 DEF Busy
  <2>5. Heads'
    BY <2>2, <2>3, <2>4, <1>1
  <2>6. \A j : At(j) => At(j)'
    BY <2>3, <2>4
  <2>7. QED
    BY <2>2, <2>5, <2>6, <1>1 DEF Holding
<1>8. QED
  BY <1>2, <1>3, <1>4, <1>5, <1>6, <1>7, Steps

-----------------------------------------------------------------------------
(* The invariant, and what follows from it.                                *)

\* It holds at the start: nothing is started, in the list or in hand.
LEMMA InvInit ==
  ASSUME TimerAssumption, TimerInit
  PROVE  Inv
<1>1. Types
  BY TimerAssumption DEF Types, TimerInit, Posters, TimerAssumption
<1>2. Rows = {} /\ DOMAIN asyncOps = {} /\ Len(asyncOps) = 0
  BY DEF TimerInit, Rows
<1>3. Posting
  BY <1>2, TimerAssumption DEF Posting, TimerInit, TimerAssumption
<1>4. AtOperation /\ Started
  BY <1>2, <1>1 DEF AtOperation, Started, TimerInit, Types, Posters
<1>5. Account
  <2>1. SUFFICES ASSUME NEW t \in Timers
        PROVE  /\ IsFiniteSet(Cells(t))
               /\ puts[t] = gets[t] + Cardinality(Queued(t)) + Cardinality(Cells(t)) + Due(t)
    BY DEF Account
  <2>2. Cells(t) = {} /\ Queued(t) = {}
    BY <1>2 DEF Cells, Unrun, Queued
  <2>3. IsFiniteSet(Cells(t)) /\ Cardinality(Cells(t)) = 0 /\ Cardinality(Queued(t)) = 0
    BY <2>2, FS_EmptySet
  <2>4. Due(t) = 0 /\ puts[t] = 0 /\ gets[t] = 0
    BY DEF Due, TimerInit, Posters
  <2>5. QED
    BY <2>3, <2>4
<1>6. FreedDone /\ Holding /\ Waited
  BY <1>2 DEF FreedDone, Holding, Waited, TimerInit, Posters
<1>7. QED
  BY <1>1, <1>3, <1>4, <1>5, <1>6 DEF Inv

\* Every step keeps it.
LEMMA InvNext ==
  ASSUME TimerAssumption, Inv, [TimerNext]_timerVars
  PROVE  Inv'
BY TypesKept, PostingKept, AtOperationKept, StartedKept, AccountKept, FreedDoneKept,
   HoldingKept, WaitedKept DEF Inv

\* It holds throughout.
THEOREM Invariant == TimerSafeSpec => []Inv
<1>1. TimerInit => Inv
  BY InvInit, TimerAssumption
<1>2. Inv /\ [TimerNext]_timerVars => Inv'
  BY InvNext, TimerAssumption
<1>3. QED
  BY <1>1, <1>2, PTL DEF TimerSafeSpec

\* A poll and its row: what is left of it to be run.
LEMMA ToRunRow ==
  ASSUME Inv, NEW i \in DOMAIN polls
  PROVE  \E d \in Rows :
           /\ i = Len(polls) - d /\ polls[i] = Row(d) /\ Row(d) \in Seq(Posters)
           /\ Busy(d) => Row(d) # <<>> /\ ToRun(i) = Tail(Row(d))
           /\ ~Busy(d) => ToRun(i) = Row(d)
<1>1. polls \in Seq(Seq(Posters)) /\ Len(polls) \in Nat /\ i \in 1 .. Len(polls)
  BY LenProperties DEF Inv, Types
<1>2. PICK d : d = Len(polls) - i
  OBVIOUS
<1>3. d \in Rows /\ i = Len(polls) - d /\ polls[i] \in Seq(Posters)
  BY <1>1, <1>2 DEF Rows
<1>4. polls[i] = Row(d)
  BY <1>3 DEF Row
<1>5. Busy(d) <=> ~(i = 1 /\ main = "ops")
  BY <1>1, <1>2 DEF Busy
<1>6. Busy(d) => Row(d) # <<>>
  BY <1>3 DEF Inv, AtOperation
<1>7. QED
  BY <1>3, <1>4, <1>5, <1>6 DEF ToRun

\* An operation in hand is one of the cells.
LEMMA InHandsCells ==
  ASSUME Inv, NEW t \in InHands
  PROVE  Cells(t) # {}
<1>1. PICK i \in DOMAIN polls : \E k \in DOMAIN ToRun(i) : ToRun(i)[k] = t
  BY DEF InHands, Range
<1>2. PICK k \in DOMAIN ToRun(i) : ToRun(i)[k] = t
  BY <1>1
<1>3. PICK d \in Rows :
        /\ Row(d) \in Seq(Posters)
        /\ Busy(d) => Row(d) # <<>> /\ ToRun(i) = Tail(Row(d))
        /\ ~Busy(d) => ToRun(i) = Row(d)
  BY ToRunRow
<1>4. d \in Nat /\ Len(Row(d)) \in Nat
  BY <1>3, LenProperties DEF Inv, Types, Rows
<1>5. \E e \in Left(d) : e \in Nat /\ Row(d)[Len(Row(d)) - e] = t
  <2>1. CASE Busy(d)
    <3>1. k \in 1 .. Len(Row(d)) - 1 /\ Row(d)[k + 1] = t
      BY <2>1, <1>2, <1>3, Popped, LenProperties
    <3>2. PICK e : e = Len(Row(d)) - (k + 1)
      OBVIOUS
    <3>3. e \in Nat /\ e \in 0 .. Len(Row(d)) - 2 /\ Len(Row(d)) - e = k + 1
      BY <3>1, <3>2, <1>4
    <3>4. QED
      BY <2>1, <3>1, <3>3 DEF Left
  <2>2. CASE ~Busy(d)
    <3>1. k \in 1 .. Len(Row(d)) /\ Row(d)[k] = t
      BY <2>2, <1>2, <1>3, LenProperties
    <3>2. PICK e : e = Len(Row(d)) - k
      OBVIOUS
    <3>3. e \in Nat /\ e \in 0 .. Len(Row(d)) - 1 /\ Len(Row(d)) - e = k
      BY <3>1, <3>2, <1>4
    <3>4. QED
      BY <2>2, <3>1, <3>3 DEF Left
  <2>3. QED
    BY <2>1, <2>2
<1>6. PICK e \in Left(d) : e \in Nat /\ Row(d)[Len(Row(d)) - e] = t
  BY <1>5
<1>7. <<d, e>> \in Cells(t)
  BY <1>4, <1>6 DEF Cells, Unrun, Op
<1>8. QED
  BY <1>7

\* The types, and: no operation is run more often than it is posted, no tick is waited
\* for twice, and a poll that is interrupted is at an operation.
THEOREM TypesCorrect == TimerSafeSpec => []TimerTypeOK
<1>1. Inv => TimerTypeOK
  <2>1. SUFFICES ASSUME Inv PROVE TimerTypeOK
    OBVIOUS
  <2>2. ASSUME NEW t \in Timers PROVE gets[t] <= puts[t]
    <3>1. /\ Cardinality(Queued(t)) \in Nat /\ Cardinality(Cells(t)) \in Nat
          /\ puts[t] = gets[t] + Cardinality(Queued(t)) + Cardinality(Cells(t)) + Due(t)
      BY <2>1, QueuedFinite, FS_CardinalityType DEF Inv, Account
    <3>2. puts[t] \in Nat /\ gets[t] \in Nat /\ Due(t) \in Nat
      BY <2>1 DEF Inv, Types, Due
    <3>3. QED
      BY <3>1, <3>2
  <2>3. ASSUME NEW i \in DOMAIN polls, ToRun(i) # polls[i] PROVE polls[i] # <<>>
    BY <2>1, <2>3, ToRunRow
  <2>4. QED
    BY <2>1, <2>2, <2>3 DEF TimerTypeOK, Inv, Waited
<1>2. QED
  BY <1>1, Invariant, PTL

\* A byte in the pipe for every operation in the list, whenever the mutex is free: for a
\* pipe of any size and any number of posters.
THEOREM PipeCounts == TimerSafeSpec => []PipeMatches
<1>1. Inv => PipeMatches
  BY DEF Inv, Posting, PipeMatches
<1>2. QED
  BY <1>1, Invariant, PTL

\* A timer is freed after the last use, however the polls that run its operations are
\* inside of each other.
THEOREM FreedAfterUse == TimerSafeSpec => []FreedLast
<1>1. Inv => FreedLast
  <2>1. SUFFICES ASSUME Inv, NEW t \in freed
        PROVE  pc[t] = "ended" /\ t \notin Range(asyncOps) /\ t \notin InHands
    BY DEF FreedLast
  <2>2. Queued(t) = {} /\ Cells(t) = {}
    BY <2>1, Spent DEF Inv
  <2>3. t \notin Range(asyncOps)
    BY <2>2 DEF Queued, Range
  <2>4. QED
    BY <2>1, <2>2, <2>3, InHandsCells DEF Inv, FreedDone
<1>2. QED
  BY <1>1, Invariant, PTL

\* The runtime holds on to timers and to the objects of operations while they are needed,
\* and no longer.
THEOREM HeldThroughout == TimerSafeSpec => []HeldWhileNeeded
<1>1. Inv => HeldWhileNeeded
  <2>1. SUFFICES ASSUME Inv PROVE HeldWhileNeeded
    OBVIOUS
  <2>2. ASSUME NEW d \in Rows, Busy(d) PROVE Row(d)[1] \in BeingRun
    <3>1. PICK i : i = Len(polls) - d
      OBVIOUS
    <3>2. i \in DOMAIN polls /\ d = Len(polls) - i
      BY <2>1, <3>1, LenProperties DEF Inv, Types, Rows
    <3>3. /\ polls[i] = Row(d) /\ Row(d) \in Seq(Posters) /\ Row(d) # <<>>
          /\ ToRun(i) = Tail(Row(d))
      <4>1. PICK e \in Rows :
              /\ i = Len(polls) - e /\ polls[i] = Row(e) /\ Row(e) \in Seq(Posters)
              /\ Busy(e) => Row(e) # <<>> /\ ToRun(i) = Tail(Row(e))
        BY <2>1, <3>2, ToRunRow
      <4>2. e = d
        BY <2>1, <3>1, <4>1, LenProperties DEF Inv, Types, Rows
      <4>3. QED
        BY <4>1, <4>2, <2>2
    <3>4. Head(polls[i]) = Row(d)[1] /\ Len(Tail(Row(d))) = Len(Row(d)) - 1 /\ Len(Row(d)) \in Nat
      BY <3>3, Popped, LenProperties
    <3>5. ToRun(i) # polls[i]
      <4>1. \A n \in Nat : n - 1 # n
        OBVIOUS
      <4>2. Len(Tail(Row(d))) # Len(Row(d))
        BY <3>4, <4>1
      <4>3. Tail(Row(d)) # Row(d)
        BY <4>2, Zenon
      <4>4. QED
        BY <3>3, <4>3
    <3>6. QED
      BY <3>2, <3>4, <3>5 DEF BeingRun
  <2>3. QED
    BY <2>1, <2>2 DEF Inv, Holding, HeldWhileNeeded
<1>2. QED
  BY <1>1, Invariant, PTL
=============================================================================
