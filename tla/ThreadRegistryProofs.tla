------------------------- MODULE ThreadRegistryProofs --------------------------
(***************************************************************************)
(* Proofs about ThreadRegistry, for any threads.  The first part is about  *)
(* what links lead to when one of them is changed; the second shows that a *)
(* thread that is alone at the lists finds them as its step needs them and *)
(* leaves them so.                                                         *)
(***************************************************************************)
EXTENDS ThreadRegistry, TLAPS

\* Until _bbNeedsLock is set nobody has the lock, and the threads that have been created are
\* those that a bbThreadCreate has in hand, each the first one of its caller.
UntilFlag ==
  ~needsLock =>
    /\ lock = NoThread
    /\ \A t \in Created : pc[t] # "none" => \E c \in Blocks : t = making[c]
    /\ \A c \in Blocks : first[c] = making[c]

\* Where links count: the two variables, and the blocks that are in one of the lists.
Kept == Left \ freed
Enlisted == Listed \union {Main}
Live == Heads \union Enlisted \union Kept

Alone == \A t, u \in AtLists : t = u

Lists ==
  /\ Leads(succ, "threads") = Enlisted
  /\ Leads(succ, "deadThreads") = Kept
  /\ twice = {}

\* No block is in two places.
OnePlace == \A c, d \in Live : succ[c] = succ[d] /\ succ[c] # NoThread => c = d

Frees == freed \subseteq detached \intersect Left

\* What a thread at the lists knows of them, stage by stage.
Knows(t) ==
  /\ pc[t] \in {"flush", "dead", "drop"} => p[t] \in {"deadThreads"} \union Kept
  /\ pc[t] \in {"dead", "drop"} => succ[p[t]] = cur[t]
  /\ pc[t] = "drop" => cur[t] \in detached /\ got[t] = succ[cur[t]]
  /\ pc[t] = "link" => succ[t] = succ["threads"]
  /\ pc[t] \in {"walk", "unlink", "cut"} => p[t] \in ({"threads"} \union Enlisted) \ {t}
  /\ pc[t] = "walk" => t \in Leads(succ, p[t])
  /\ pc[t] \in {"unlink", "cut"} => succ[p[t]] = t
  /\ pc[t] = "cut" => got[t] = succ[t]
  /\ pc[t] = "chain" => got[t] = succ["deadThreads"]
  /\ pc[t] = "head" => succ[t] = succ["deadThreads"]

Tidy == Alone /\ Lists /\ OnePlace /\ Frees /\ \A t \in AtLists : Knows(t)


IInv == TypeOK /\ UntilFlag /\ OnlyFirstsUnlocked /\ (~overlapped => Tidy)

USE RegistryAssumption

-----------------------------------------------------------------------------
(* What links lead to.                                                     *)

Links == [Cells -> Blocks \union {NoThread}]

LEMMA CellsAre ==
  /\ Threads \subseteq Blocks /\ Blocks \subseteq Cells /\ Heads \subseteq Cells
  /\ "threads" \in Heads /\ "deadThreads" \in Heads /\ "threads" # "deadThreads"
  /\ Main \in Blocks /\ Created \subseteq Threads
  /\ NoThread \notin Blocks /\ NoThread \notin Threads
BY DEF Threads, Blocks, Heads, Cells

\* The link of l leads into what l leads to, and so do the links of all that is there.
LEMMA LeadsOn ==
  ASSUME NEW f \in Links, NEW l \in Cells
  PROVE  Into(f, l, Leads(f, l)) /\ Closed(f, Leads(f, l)) /\ Leads(f, l) \subseteq Blocks
<1>1. ASSUME NEW c \in Cells, c = l \/ c \in Leads(f, l), f[c] # NoThread PROVE f[c] \in Leads(f, l)
  <2>1. f[c] \in Blocks
    BY <1>1 DEF Links
  <2>2. ASSUME NEW S \in SUBSET Blocks, Into(f, l, S), Closed(f, S) PROVE f[c] \in S
    <3>1. c = l \/ c \in S
      BY <1>1, <2>2 DEF Leads
    <3>2. QED
      BY <1>1, <2>1, <2>2, <3>1 DEF Into, Closed
  <2>3. QED
    BY <2>1, <2>2 DEF Leads
<1>2. Leads(f, l) \subseteq Blocks
  BY DEF Leads
<1>3. \A c \in Leads(f, l) : c \in Cells
  BY <1>2, CellsAre
<1>4. QED
  BY <1>1, <1>2, <1>3 DEF Into, Closed

\* Links elsewhere do not matter.
LEMMA LeadsSame ==
  ASSUME NEW f \in Links, NEW g \in Links, NEW l \in Cells,
         g[l] = f[l], \A c \in Leads(f, l) : g[c] = f[c]
  PROVE  Leads(g, l) = Leads(f, l)
<1>1. PICK R \in SUBSET Blocks : R = Leads(f, l)
  BY LeadsOn
<1>2. Into(f, l, R) /\ Closed(f, R)
  BY <1>1, LeadsOn
<1>3. Into(g, l, R) /\ Closed(g, R)
  BY <1>1, <1>2 DEF Into, Closed
<1>4. Leads(g, l) \subseteq R
  BY <1>3 DEF Leads
<1>5. ASSUME NEW b \in R, NEW S \in SUBSET Blocks, Into(g, l, S), Closed(g, S) PROVE b \in S
  <2>1. PICK T \in SUBSET Blocks : T = S \intersect R
    OBVIOUS
  <2>2. Into(f, l, T)
    BY <1>2, <1>5, <2>1 DEF Into
  <2>3. Closed(f, T)
    BY <1>1, <1>2, <1>5, <2>1 DEF Into, Closed
  <2>4. b \in T
    BY <1>1, <1>5, <2>2, <2>3 DEF Leads
  <2>5. QED
    BY <2>1, <2>4
<1>6. R \subseteq Leads(g, l)
  BY <1>5 DEF Leads
<1>7. QED
  BY <1>1, <1>4, <1>6

\* A block whose link is the same as a variable's becomes the first one (addThread).
LEMMA LeadsPush ==
  ASSUME NEW f \in Links, NEW h \in Heads, NEW t \in Blocks, f[t] = f[h]
  PROVE  Leads([f EXCEPT ![h] = t], h) = Leads(f, h) \union {t}
<1>1. PICK g : g = [f EXCEPT ![h] = t]
  OBVIOUS
<1>2. h \in Cells /\ t \in Cells /\ h \notin Blocks
  BY CellsAre
<1>3. g[h] = t /\ \A c \in Blocks : g[c] = f[c]
  BY <1>1, <1>2, CellsAre DEF Links
<1>4. ASSUME NEW b \in Leads(g, h), b # t, NEW S \in SUBSET Blocks, Into(f, h, S), Closed(f, S)
      PROVE  b \in S
  <2>1. PICK T \in SUBSET Blocks : T = S \union {t}
    OBVIOUS
  <2>2. Into(g, h, T)
    BY <1>3, <2>1 DEF Into
  <2>3. Closed(g, T)
    BY <1>3, <1>4, <2>1 DEF Into, Closed
  <2>4. b \in T
    BY <1>4, <2>2, <2>3 DEF Leads
  <2>5. QED
    BY <1>4, <2>1, <2>4
<1>5. Leads(g, h) \subseteq Leads(f, h) \union {t}
  BY <1>4 DEF Leads
<1>6. ASSUME NEW b \in Leads(f, h) \union {t}, NEW S \in SUBSET Blocks, Into(g, h, S), Closed(g, S)
      PROVE  b \in S
  <2>1. t \in S
    BY <1>3, <1>6, CellsAre DEF Into
  <2>2. Into(f, h, S)
    <3>1. g[t] \in S \union {NoThread}
      BY <1>6, <2>1 DEF Into, Closed
    <3>2. g[t] = f[h]
      BY <1>3
    <3>3. QED
      BY <3>1, <3>2 DEF Into
  <2>3. Closed(f, S)
    BY <1>3, <1>6 DEF Into, Closed
  <2>4. QED
    BY <1>6, <2>1, <2>2, <2>3 DEF Leads
<1>7. Leads(f, h) \union {t} \subseteq Leads(g, h)
  BY <1>6 DEF Leads
<1>8. QED
  BY <1>1, <1>5, <1>7

\* A block is taken out of the list that c leads to it in (*p=t->succ).
LEMMA LeadsCut ==
  ASSUME NEW f \in Links, NEW h \in Heads, NEW c \in Cells, c = h \/ c \in Leads(f, h),
         NEW b \in Blocks, f[c] = b, c # b,
         \A d \in Leads(f, h) \union {h} : f[d] = b => d = c
  PROVE  Leads([f EXCEPT ![c] = f[b]], h) = Leads(f, h) \ {b}
<1>1. PICK g : g = [f EXCEPT ![c] = f[b]]
  OBVIOUS
<1>2. h \in Cells /\ b \in Cells /\ h \notin Blocks
  BY CellsAre
<1>3. g[c] = f[b] /\ \A d \in Cells : d # c => g[d] = f[d]
  BY <1>1, <1>2 DEF Links
<1>4. PICK L \in SUBSET Blocks : L = Leads(f, h)
  BY <1>2, LeadsOn
<1>5. Into(f, h, L) /\ Closed(f, L)
  BY <1>2, <1>4, LeadsOn
<1>6. b \in L
  BY <1>2, <1>4, <1>5 DEF Into, Closed
<1>7. f[b] \in (L \ {b}) \union {NoThread}
  BY <1>4, <1>5, <1>6 DEF Into, Closed
<1>8. PICK R \in SUBSET Blocks : R = L \ {b}
  OBVIOUS
<1>9. Into(g, h, R)
  BY <1>2, <1>3, <1>4, <1>5, <1>7, <1>8 DEF Into
<1>10. Closed(g, R)
  <2>1. ASSUME NEW d \in R PROVE g[d] \in R \union {NoThread}
    <3>1. d \in Cells
      BY CellsAre
    <3>2. CASE d = c
      BY <1>3, <1>7, <1>8, <3>2
    <3>3. CASE d # c
      BY <1>3, <1>4, <1>5, <1>8, <3>1, <3>3 DEF Into, Closed
    <3>4. QED
      BY <3>2, <3>3
  <2>2. QED
    BY <2>1 DEF Into, Closed
<1>11. Leads(g, h) \subseteq R
  BY <1>9, <1>10 DEF Leads
<1>12. ASSUME NEW x \in R, NEW S \in SUBSET Blocks, Into(g, h, S), Closed(g, S) PROVE x \in S
  <2>1. \A d \in S : d \in Cells
    BY CellsAre
  <2>2. CASE c = h \/ c \in S
    <3>1. PICK T \in SUBSET Blocks : T = S \union {b}
      OBVIOUS
    <3>2. Into(f, h, T)
      BY <1>2, <1>3, <1>12, <3>1 DEF Into
    <3>3. f[b] \in S \union {NoThread}
      BY <1>3, <1>12, <2>2 DEF Into, Closed
    <3>4. Closed(f, T)
      BY <1>3, <1>12, <2>1, <3>1, <3>3 DEF Into, Closed
    <3>5. x \in T
      BY <1>4, <1>8, <1>12, <3>2, <3>4 DEF Leads
    <3>6. QED
      BY <1>8, <1>12, <3>1, <3>5
  <2>3. CASE c # h /\ c \notin S
    <3>1. Into(f, h, S)
      BY <1>2, <1>3, <1>12, <2>3 DEF Into
    <3>2. Closed(f, S)
      BY <1>3, <1>12, <2>1, <2>3 DEF Into, Closed
    <3>3. QED
      BY <1>4, <1>8, <1>12, <3>1, <3>2 DEF Leads
  <2>4. QED
    BY <2>2, <2>3
<1>13. R \subseteq Leads(g, h)
  BY <1>12 DEF Leads
<1>14. QED
  BY <1>1, <1>4, <1>8, <1>11, <1>13

\* What is ahead of a walk is ahead of its next stop, or is that.
LEMMA LeadsAhead ==
  ASSUME NEW f \in Links, NEW c \in Cells, NEW t \in Leads(f, c)
  PROVE  /\ f[c] # NoThread
         /\ f[c] = t \/ t \in Leads(f, f[c])
<1>1. f[c] # NoThread
  <2>1. SUFFICES ASSUME f[c] = NoThread PROVE FALSE
    OBVIOUS
  <2>2. Into(f, c, {}) /\ Closed(f, {})
    BY <2>1 DEF Into, Closed
  <2>3. QED
    BY <2>2 DEF Leads
<1>2. PICK b \in Blocks : b = f[c]
  BY <1>1 DEF Links
<1>3. ASSUME b # t, NEW S \in SUBSET Blocks, Into(f, b, S), Closed(f, S) PROVE t \in S
  <2>1. PICK T \in SUBSET Blocks : T = S \union {b}
    OBVIOUS
  <2>2. Into(f, c, T)
    BY <1>2, <2>1 DEF Into
  <2>3. Closed(f, T)
    BY <1>3, <2>1 DEF Into, Closed
  <2>4. t \in T
    BY <2>2, <2>3 DEF Leads
  <2>5. QED
    BY <1>3, <2>1, <2>4
<1>4. t \in Blocks
  BY DEF Leads
<1>5. QED
  BY <1>1, <1>2, <1>3, <1>4 DEF Leads

\* A block that a variable leads to is not only its own successor.
LEMMA LeadsNoLoop ==
  ASSUME NEW f \in Links, NEW h \in Heads, NEW b \in Leads(f, h), f[b] = b
  PROVE  \E d \in Leads(f, h) \union {h} : d # b /\ f[d] = b
<1>1. SUFFICES ASSUME \A d \in Leads(f, h) \union {h} : f[d] = b => d = b PROVE FALSE
  OBVIOUS
<1>2. h \in Cells /\ h \notin Blocks
  BY CellsAre
<1>3. PICK R \in SUBSET Blocks : R = Leads(f, h) \ {b}
  BY <1>2, LeadsOn
<1>4. b \in Blocks
  BY DEF Leads
<1>5. Into(f, h, R) /\ Closed(f, R)
  BY <1>1, <1>2, <1>3, <1>4, LeadsOn DEF Into, Closed
<1>6. QED
  BY <1>3, <1>5 DEF Leads

-----------------------------------------------------------------------------
(* The flag and the lock.                                                  *)

LEMMA InitInv == Init => IInv
<1> SUFFICES ASSUME Init PROVE IInv
  OBVIOUS
<1>1. TypeOK
  BY CellsAre DEF Init, TypeOK, Cells
<1>2. UntilFlag /\ OnlyFirstsUnlocked
  BY CellsAre DEF Init, UntilFlag, OnlyFirstsUnlocked, AtLists, Adding, Removing
<1>3. AtLists = {} /\ Listed = {} /\ Left = {}
  BY DEF Init, AtLists, Adding, Removing, Listed, Left
<1>4. PICK f \in Links : f = succ
  BY <1>1 DEF TypeOK, Links
<1>5. f["threads"] = Main /\ \A c \in Cells : c # "threads" => f[c] = NoThread
  BY <1>4, CellsAre DEF Init
<1>6. "threads" \notin Blocks /\ Main \in Blocks /\ Main \in Cells /\ "deadThreads" \in Cells
  BY CellsAre
<1>7. Leads(f, "threads") = {Main}
  <2>1. Into(f, "threads", {Main}) /\ Closed(f, {Main})
    BY <1>5, <1>6 DEF Into, Closed
  <2>2. Leads(f, "threads") \subseteq {Main}
    BY <1>6, <2>1 DEF Leads
  <2>3. Into(f, "threads", Leads(f, "threads"))
    BY CellsAre, LeadsOn
  <2>4. Main \in Leads(f, "threads")
    BY <1>5, <1>6, <2>3 DEF Into
  <2>5. QED
    BY <2>2, <2>4
<1>8. Leads(f, "deadThreads") = {}
  <2>1. Into(f, "deadThreads", {}) /\ Closed(f, {})
    BY <1>5, <1>6, CellsAre DEF Into, Closed
  <2>2. QED
    BY <2>1 DEF Leads
<1>9. Lists
  BY <1>3, <1>4, <1>7, <1>8 DEF Init, Lists, Enlisted, Kept
<1>10. OnePlace
  BY <1>3, <1>4, <1>5, <1>6, CellsAre DEF OnePlace, Live, Heads, Enlisted, Kept
<1>11. Tidy
  BY <1>3, <1>9, <1>10 DEF Init, Tidy, Alone, Frees
<1>12. QED
  BY <1>1, <1>2, <1>11 DEF IInv

\* Steps that leave the flag, the lock and the creation of threads alone.
LEMMA LockKept ==
  ASSUME IInv, UNCHANGED <<needsLock, lock, making, first>>, AtLists' \subseteq AtLists,
         \A t \in Created : pc'[t] # "none" => pc[t] # "none"
  PROVE  UntilFlag' /\ OnlyFirstsUnlocked'
BY DEF IInv, UntilFlag, OnlyFirstsUnlocked, Locked

\* A step of a thread that is alone at the lists.
LEMMA AtWork ==
  ASSUME IInv, ~overlapped, NEW t \in AtLists
  PROVE  /\ TypeOK /\ Lists /\ OnePlace /\ Frees /\ Knows(t)
         /\ AtLists = {t} /\ succ \in Links
         /\ t \in Threads /\ t \in Blocks /\ t \in Cells
         /\ t \notin Left /\ t \notin freed
         /\ Enlisted \intersect Kept = {} /\ Enlisted \intersect freed = {} /\ Kept \intersect freed = {}
         /\ Enlisted \subseteq Blocks /\ Kept \subseteq Blocks
<1>1. TypeOK /\ Tidy
  BY DEF IInv
<1>2. t \in Threads /\ t \in Blocks /\ t \in Cells
  BY CellsAre DEF AtLists
<1>3. AtLists = {t}
  BY <1>1 DEF Tidy, Alone
<1>4. t \notin Left
  BY DEF AtLists, Left, Adding, Removing
<1>5. Listed \intersect Left = {} /\ Main \notin Left
  BY DEF Listed, Left
<1>6. QED
  BY <1>1, <1>2, <1>3, <1>4, <1>5, CellsAre
     DEF Tidy, TypeOK, Links, Frees, Enlisted, Kept, Listed, Left

\* What a list leads to, link by link.
LEMMA ListsOn ==
  ASSUME TypeOK, Lists
  PROVE  /\ \A c \in {"threads"} \union Enlisted : succ[c] \in Enlisted \union {NoThread}
         /\ \A c \in {"deadThreads"} \union Kept : succ[c] \in Kept \union {NoThread}
<1>1. succ \in Links /\ "threads" \in Cells /\ "deadThreads" \in Cells
  BY CellsAre DEF TypeOK, Links
<1>2. QED
  BY <1>1, LeadsOn DEF Lists, Into, Closed

\* Where a thread is decides what it is in.
LEMMA Stages ==
  ASSUME TypeOK, NEW t \in Threads, NEW l, Goto(t, l)
  PROVE  /\ Listed' = IF l \in {"addUnlock", "running", "walk", "unlink", "cut"}
                      THEN Listed \union {t} ELSE Listed \ {t}
         /\ Left' = IF l \in {"removeUnlock", "ended"} THEN Left \union {t} ELSE Left \ {t}
         /\ AtLists' = IF l \in Adding \union Removing THEN AtLists \union {t} ELSE AtLists \ {t}
         /\ pc'[t] = l
BY DEF TypeOK, Goto, Listed, Left, AtLists

\* From one stage of an operation on the lists to the next, or out of it.
LEMMA StaysIn ==
  ASSUME TypeOK, NEW t \in Threads, AtLists = {t}, NEW l \in Adding \union Removing, Goto(t, l),
         pc[t] \in {"walk", "unlink", "cut"} <=> l \in {"walk", "unlink", "cut"}
  PROVE  Listed' = Listed /\ Left' = Left /\ AtLists' = {t} /\ pc'[t] = l
<1>1. t \in Listed <=> l \in {"walk", "unlink", "cut"}
  <2>1. pc[t] \in Adding \union Removing
    BY DEF AtLists
  <2>2. QED
    BY <2>1 DEF Listed, Adding, Removing
<1>2. t \notin Left
  BY DEF AtLists, Left, Adding, Removing
<1>3. l \notin {"addUnlock", "running", "removeUnlock", "ended"}
  BY DEF Adding, Removing
<1>4. QED
  BY <1>1, <1>2, <1>3, Stages

-----------------------------------------------------------------------------
(* addThread. *)

\* t=*p in flushDeadThreads.
LEMMA FlushTidy ==
  ASSUME IInv, ~overlapped, NEW t \in Threads, Flush(t)
  PROVE  Tidy'
<1>1. t \in AtLists /\ pc[t] = "flush"
  BY DEF Flush, AtLists, Adding
<1>2. /\ TypeOK /\ Lists /\ OnePlace /\ Frees /\ Knows(t) /\ AtLists = {t} /\ t \notin freed
      /\ Kept \intersect freed = {} /\ t \notin Left
  BY <1>1, AtWork
<1>3. p[t] \in {"deadThreads"} \union Kept /\ p[t] \notin freed
  BY <1>1, <1>2, CellsAre DEF Knows, TypeOK
<1>4. PICK b : cur' = [cur EXCEPT ![t] = b] /\ b = succ[p[t]] /\ Goto(t, IF b = NoThread THEN "push" ELSE "dead")
  BY <1>3 DEF Flush, Link
<1>5. UNCHANGED <<memory, got>> /\ p' = [p EXCEPT ![t] = IF b = NoThread THEN NoThread ELSE @]
  BY <1>3, <1>4 DEF Flush, Link, TypeOK
<1>6. Listed' = Listed /\ Left' = Left /\ AtLists' = {t}
  <2>1. PICK l \in {"push", "dead"} : Goto(t, l)
    BY <1>4
  <2>2. QED
    BY <1>1, <1>2, <2>1, StaysIn DEF Adding
<1>7. Lists' /\ OnePlace' /\ Frees'
  BY <1>2, <1>5, <1>6 DEF memory, Lists, OnePlace, Live, Frees, Enlisted, Kept
<1>8. Knows(t)'
  BY <1>2, <1>3, <1>4, <1>5, <1>6 DEF memory, Knows, Kept, Enlisted, TypeOK, Goto
<1>9. QED
  BY <1>6, <1>7, <1>8 DEF Tidy, Alone

\* Testing detached in flushDeadThreads.
LEMMA DeadTidy ==
  ASSUME IInv, ~overlapped, NEW t \in Threads, Dead(t)
  PROVE  Tidy'
<1>1. t \in AtLists /\ pc[t] = "dead"
  BY DEF Dead, AtLists, Adding
<1>2. /\ TypeOK /\ Lists /\ OnePlace /\ Frees /\ Knows(t) /\ AtLists = {t} /\ t \notin freed
      /\ Kept \intersect freed = {} /\ t \notin Left
  BY <1>1, AtWork
<1>3. cur[t] \in Kept /\ cur[t] \notin freed
  <2>1. cur[t] = succ[p[t]] /\ cur[t] # NoThread /\ p[t] \in {"deadThreads"} \union Kept
    BY <1>1, <1>2 DEF Knows, TypeOK
  <2>2. QED
    BY <1>2, <2>1, ListsOn
<1>4. PICK l \in {"drop", "flush"} :
         /\ Goto(t, l)
         /\ l = "drop" =>
              cur[t] \in detached /\ got' = [got EXCEPT ![t] = succ[cur[t]]] /\ UNCHANGED <<p, cur>>
         /\ l = "flush" => p' = [p EXCEPT ![t] = cur[t]]
  BY <1>3 DEF Dead, Link, Marked
<1>5. UNCHANGED memory
  BY DEF Dead
<1>6. Listed' = Listed /\ Left' = Left /\ AtLists' = {t} /\ pc'[t] = l
  BY <1>1, <1>2, <1>4, StaysIn DEF Adding
<1>7. Lists' /\ OnePlace' /\ Frees'
  BY <1>2, <1>5, <1>6 DEF memory, Lists, OnePlace, Live, Frees, Enlisted, Kept
<1>8. Knows(t)'
  BY <1>1, <1>2, <1>3, <1>4, <1>5, <1>6 DEF memory, Knows, Kept, Enlisted, TypeOK
<1>9. QED
  BY <1>6, <1>7, <1>8 DEF Tidy, Alone

\* *p=t->succ and GC_FREE in flushDeadThreads.
LEMMA DropTidy ==
  ASSUME IInv, ~overlapped, NEW t \in Threads, Drop(t)
  PROVE  Tidy'
<1>1. t \in AtLists /\ pc[t] = "drop"
  BY DEF Drop, AtLists, Adding
<1>2. /\ TypeOK /\ Lists /\ OnePlace /\ Frees /\ Knows(t) /\ AtLists = {t} /\ t \notin freed
      /\ Kept \intersect freed = {} /\ Enlisted \intersect Kept = {} /\ t \notin Left
      /\ succ \in Links /\ Kept \subseteq Blocks /\ Enlisted \subseteq Blocks
  BY <1>1, AtWork
<1>3. PICK c, b : c = p[t] /\ b = cur[t]
  OBVIOUS
<1>4. /\ c \in {"deadThreads"} \union Kept /\ c \in Cells
      /\ b \in Kept /\ b \in Blocks /\ b \in detached /\ b \notin freed
      /\ succ[c] = b /\ got[t] = succ[b]
  <2>1. b # NoThread
    BY <1>1, <1>2, <1>3 DEF TypeOK
  <2>2. QED
    BY <1>1, <1>2, <1>3, <2>1, ListsOn, CellsAre DEF Knows
<1>5. \A d \in Kept \union {"deadThreads"} : succ[d] = b => d = c
  BY <1>2, <1>4, CellsAre DEF OnePlace, Live
<1>6. c # b
  <2>1. SUFFICES ASSUME c = b PROVE FALSE
    OBVIOUS
  <2>2. b \in Leads(succ, "deadThreads")
    BY <1>2, <1>4 DEF Lists
  <2>3. PICK d \in Leads(succ, "deadThreads") \union {"deadThreads"} : d # b /\ succ[d] = b
    BY <1>2, <1>4, <2>1, <2>2, LeadsNoLoop, CellsAre
  <2>4. QED
    BY <1>2, <1>5, <2>1, <2>3 DEF Lists
<1>7. /\ succ' = [succ EXCEPT ![c] = succ[b]] /\ freed' = freed \union {b} /\ twice' = twice
      /\ detached' = detached /\ Goto(t, "flush") /\ p' = p
  BY <1>3, <1>4 DEF Drop, Free
<1>8. Listed' = Listed /\ Left' = Left /\ AtLists' = {t} /\ pc'[t] = "flush"
  BY <1>1, <1>2, <1>7, StaysIn DEF Adding
<1>9. Enlisted' = Enlisted /\ Kept' = Kept \ {b}
  BY <1>7, <1>8 DEF Enlisted, Kept
<1>10. succ' \in Links
  BY <1>2, <1>4, <1>7, CellsAre DEF Links
<1>11. Leads(succ', "deadThreads") = Kept \ {b}
  <2>1. Leads(succ, "deadThreads") = Kept
    BY <1>2 DEF Lists
  <2>2. /\ c = "deadThreads" \/ c \in Leads(succ, "deadThreads")
        /\ \A d \in Leads(succ, "deadThreads") \union {"deadThreads"} : succ[d] = b => d = c
    BY <1>4, <1>5, <2>1
  <2>3. Leads([succ EXCEPT ![c] = succ[b]], "deadThreads") = Leads(succ, "deadThreads") \ {b}
    BY <1>2, <1>4, <1>6, <2>2, LeadsCut, CellsAre
  <2>4. QED
    BY <1>7, <2>1, <2>3
<1>12. Leads(succ', "threads") = Enlisted
  <2>1. "threads" \in Cells /\ "threads" # c /\ c \notin Enlisted /\ Enlisted \subseteq Cells
    BY <1>2, <1>4, CellsAre
  <2>2. succ'["threads"] = succ["threads"] /\ \A d \in Leads(succ, "threads") : succ'[d] = succ[d]
    BY <1>2, <1>7, <2>1 DEF Lists, Links
  <2>3. QED
    BY <1>2, <1>10, <2>1, <2>2, LeadsSame DEF Lists
<1>13. Lists'
  BY <1>2, <1>7, <1>9, <1>11, <1>12 DEF Lists
<1>14. OnePlace'
  <2>1. succ' = [d \in Cells |-> IF d = c THEN succ[b] ELSE succ[d]]
    BY <1>2, <1>7 DEF Links
  <2>2. Live' = Live \ {b} /\ Live \subseteq Cells /\ c \in Live /\ b \in Live
    BY <1>2, <1>4, <1>9, CellsAre DEF Live
  <2>3. QED
    BY <1>2, <1>6, <2>1, <2>2 DEF OnePlace
<1>15. Frees'
  BY <1>2, <1>4, <1>7, <1>8 DEF Frees, Kept
<1>16. Knows(t)'
  BY <1>3, <1>4, <1>6, <1>7, <1>8, <1>9 DEF Knows
<1>17. QED
  BY <1>8, <1>13, <1>14, <1>15, <1>16 DEF Tidy, Alone

\* t->succ=threads
LEMMA PushTidy ==
  ASSUME IInv, ~overlapped, NEW t \in Threads, Push(t)
  PROVE  Tidy'
<1>1. t \in AtLists /\ pc[t] = "push"
  BY DEF Push, AtLists, Adding
<1>2. /\ TypeOK /\ Lists /\ OnePlace /\ Frees /\ AtLists = {t} /\ t \notin Left /\ t \in Cells
      /\ succ \in Links /\ Kept \subseteq Blocks /\ Enlisted \subseteq Blocks
  BY <1>1, AtWork
<1>3. t \notin Live
  BY <1>1, <1>2, CellsAre DEF Live, Enlisted, Kept, Listed, Heads
<1>4. succ' = [succ EXCEPT ![t] = succ["threads"]] /\ UNCHANGED <<detached, freed, twice>> /\ Goto(t, "link")
  BY DEF Push
<1>5. Listed' = Listed /\ Left' = Left /\ AtLists' = {t} /\ pc'[t] = "link"
  BY <1>1, <1>2, <1>4, StaysIn DEF Adding
<1>6. Enlisted' = Enlisted /\ Kept' = Kept /\ Live' = Live
  BY <1>4, <1>5 DEF Enlisted, Kept, Live
<1>7. succ' \in Links /\ succ'[t] = succ["threads"] /\ \A d \in Live : succ'[d] = succ[d]
  <2>1. Live \subseteq Cells
    BY <1>2, CellsAre DEF Live
  <2>2. QED
    BY <1>2, <1>3, <1>4, <2>1, CellsAre DEF Links
<1>8. Lists'
  <2>1. \A h \in Heads : h \in Live /\ h \in Cells /\ Leads(succ, h) \subseteq Live
    BY <1>2, CellsAre DEF Live, Lists, Heads
  <2>2. \A h \in Heads : Leads(succ', h) = Leads(succ, h)
    BY <1>2, <1>7, <2>1, LeadsSame
  <2>3. QED
    BY <1>2, <1>4, <1>6, <2>2, CellsAre DEF Lists
<1>9. OnePlace' /\ Frees'
  BY <1>2, <1>4, <1>5, <1>6, <1>7 DEF OnePlace, Frees
<1>10. Knows(t)'
  BY <1>3, <1>5, <1>7, CellsAre DEF Knows, Live
<1>11. QED
  BY <1>5, <1>8, <1>9, <1>10 DEF Tidy, Alone

\* threads=t
LEMMA EnlistTidy ==
  ASSUME IInv, ~overlapped, NEW t \in Threads, Enlist(t)
  PROVE  Tidy'
<1>1. t \in AtLists /\ pc[t] = "link"
  BY DEF Enlist, AtLists, Adding
<1>2. /\ TypeOK /\ Lists /\ OnePlace /\ Frees /\ Knows(t) /\ AtLists = {t} /\ t \notin Left
      /\ succ \in Links /\ Kept \subseteq Blocks /\ Enlisted \subseteq Blocks /\ t \in Blocks /\ t \in Cells
  BY <1>1, AtWork
<1>3. t \notin Live /\ "threads" \notin Enlisted /\ "threads" \notin Kept
  BY <1>1, <1>2, CellsAre DEF Live, Enlisted, Kept, Listed, Heads
<1>4. succ' = [succ EXCEPT !["threads"] = t] /\ UNCHANGED <<detached, freed, twice>> /\ Goto(t, "addUnlock")
  BY DEF Enlist
<1>5. PICK l : l = "addUnlock"
  OBVIOUS
<1>6. Listed' = Listed \union {t} /\ Left' = Left /\ AtLists' = {} /\ pc'[t] = l
  BY <1>2, <1>4, <1>5, Stages DEF Adding, Removing
<1>7. Enlisted' = Enlisted \union {t} /\ Kept' = Kept
  BY <1>4, <1>6 DEF Enlisted, Kept
<1>8. succ[t] = succ["threads"]
  BY <1>1, <1>2 DEF Knows
<1>9. succ' \in Links /\ succ'["threads"] = t /\ \A d \in Cells : d # "threads" => succ'[d] = succ[d]
  BY <1>2, <1>4, CellsAre DEF Links
<1>10. Leads(succ', "threads") = Enlisted \union {t}
  BY <1>2, <1>4, <1>8, LeadsPush, CellsAre DEF Lists
<1>11. Leads(succ', "deadThreads") = Kept
  <2>1. \A d \in Leads(succ, "deadThreads") \union {"deadThreads"} : succ'[d] = succ[d]
    BY <1>2, <1>3, <1>9, CellsAre DEF Lists
  <2>2. QED
    BY <1>2, <1>9, <2>1, LeadsSame, CellsAre DEF Lists
<1>12. Lists'
  BY <1>2, <1>4, <1>7, <1>10, <1>11 DEF Lists
<1>13. OnePlace'
  <2>1. Live' = Live \union {t} /\ Live \subseteq Cells
    BY <1>2, <1>7, CellsAre DEF Live
  <2>2. \A d \in Live : d # "threads" => succ[d] # t
    BY <1>2, <1>3, ListsOn, CellsAre DEF Live, Heads
  <2>3. "threads" \in Live /\ "threads" # t
    BY <1>3, CellsAre DEF Live
  <2>4. \A d \in Live : d # "threads" => succ'[d] = succ[d] /\ succ'[d] # t
    BY <1>9, <2>1, <2>2
  <2>5. \A c, d \in Live : succ'[c] = succ'[d] /\ succ'[c] # NoThread => c = d
    BY <1>2, <1>9, <2>4 DEF OnePlace
  <2>6. \A c \in Live : c # "threads" /\ succ[c] # NoThread => succ[c] # succ["threads"]
    BY <1>2, <2>3 DEF OnePlace
  <2>7. succ'[t] = succ["threads"] /\ succ["threads"] # t
    BY <1>2, <1>3, <1>8, <1>9, <2>3, ListsOn, CellsAre DEF Live, Heads
  <2>8. \A c \in Live : succ'[c] = succ'[t] /\ succ'[c] # NoThread => c = t
    BY <1>9, <2>4, <2>6, <2>7
  <2>9. QED
    BY <2>1, <2>5, <2>8 DEF OnePlace
<1>14. Frees'
  BY <1>2, <1>4, <1>6 DEF Frees
<1>15. QED
  BY <1>6, <1>12, <1>13, <1>14 DEF Tidy, Alone

-----------------------------------------------------------------------------
(* removeThread. *)

\* t=*p in removeThread.
LEMMA WalkTidy ==
  ASSUME IInv, ~overlapped, NEW t \in Threads, Walk(t)
  PROVE  Tidy'
<1>1. t \in AtLists /\ pc[t] = "walk"
  BY DEF Walk, AtLists, Removing
<1>2. /\ TypeOK /\ Lists /\ OnePlace /\ Frees /\ Knows(t) /\ AtLists = {t} /\ succ \in Links
      /\ Enlisted \intersect freed = {} /\ t \notin Left /\ freed \subseteq Blocks
      /\ Enlisted \subseteq Blocks
  BY <1>1, AtWork DEF TypeOK
<1>3. PICK c : c = p[t]
  OBVIOUS
<1>4. /\ c \in ({"threads"} \union Enlisted) \ {t} /\ c \in Cells /\ c \notin freed
      /\ t \in Leads(succ, c)
  BY <1>1, <1>2, <1>3, CellsAre DEF Knows
<1>5. PICK b : b = succ[c]
  OBVIOUS
<1>6. b \in Enlisted /\ b # NoThread /\ (b = t \/ t \in Leads(succ, b))
  BY <1>2, <1>4, <1>5, ListsOn, LeadsAhead
<1>7. p' = [p EXCEPT ![t] = IF b = t THEN @ ELSE b] /\ UNCHANGED memory
  BY <1>3, <1>4, <1>5 DEF Walk, Link
<1>8. PICK l \in {"unlink", "walk"} : Goto(t, l) /\ (l = "unlink" <=> b = t)
  BY <1>3, <1>4, <1>5, <1>6 DEF Walk, Link
<1>9. Listed' = Listed /\ Left' = Left /\ AtLists' = {t} /\ pc'[t] = l
  BY <1>1, <1>2, <1>8, StaysIn DEF Removing
<1>10. Lists' /\ OnePlace' /\ Frees'
  BY <1>2, <1>7, <1>9 DEF memory, Lists, OnePlace, Live, Frees, Enlisted, Kept
<1>11. p'[t] = IF b = t THEN c ELSE b
  BY <1>2, <1>3, <1>7 DEF TypeOK
<1>12. Knows(t)'
  <2>1. Enlisted' = Enlisted /\ succ' = succ
    BY <1>7, <1>9 DEF memory, Enlisted
  <2>2. CASE b = t
    BY <1>4, <1>5, <1>8, <1>9, <1>11, <2>1, <2>2 DEF Knows
  <2>3. CASE b # t
    BY <1>6, <1>8, <1>9, <1>11, <2>1, <2>3 DEF Knows
  <2>4. QED
    BY <2>2, <2>3
<1>13. QED
  BY <1>9, <1>10, <1>12 DEF Tidy, Alone

\* Reading t->succ for *p=t->succ.
LEMMA UnlinkTidy ==
  ASSUME IInv, ~overlapped, NEW t \in Threads, Unlink(t)
  PROVE  Tidy'
<1>1. t \in AtLists /\ pc[t] = "unlink"
  BY DEF Unlink, AtLists, Removing
<1>2. /\ TypeOK /\ Lists /\ OnePlace /\ Frees /\ Knows(t) /\ AtLists = {t} /\ t \notin freed
  BY <1>1, AtWork
<1>3. got' = [got EXCEPT ![t] = succ[t]] /\ UNCHANGED <<memory, p>> /\ Goto(t, "cut")
  BY <1>2 DEF Unlink, Link
<1>4. Listed' = Listed /\ Left' = Left /\ AtLists' = {t} /\ pc'[t] = "cut"
  BY <1>1, <1>2, <1>3, StaysIn DEF Removing
<1>5. Lists' /\ OnePlace' /\ Frees'
  BY <1>2, <1>3, <1>4 DEF memory, Lists, OnePlace, Live, Frees, Enlisted, Kept
<1>6. Knows(t)'
  BY <1>1, <1>2, <1>3, <1>4 DEF memory, Knows, Enlisted, TypeOK
<1>7. QED
  BY <1>4, <1>5, <1>6 DEF Tidy, Alone

\* Writing it.
LEMMA CutTidy ==
  ASSUME IInv, ~overlapped, NEW t \in Threads, Cut(t)
  PROVE  Tidy'
<1>1. t \in AtLists /\ pc[t] = "cut"
  BY DEF Cut, AtLists, Removing
<1>2. /\ TypeOK /\ Lists /\ OnePlace /\ Frees /\ Knows(t) /\ AtLists = {t} /\ t \notin Left
      /\ Enlisted \intersect Kept = {} /\ t \in Blocks /\ t \in Threads /\ t # Main
      /\ succ \in Links /\ Kept \subseteq Blocks /\ Enlisted \subseteq Blocks
  BY <1>1, AtWork
<1>3. PICK c : c = p[t]
  OBVIOUS
<1>4. /\ c \in {"threads"} \union Enlisted /\ c \in Cells /\ c # t
      /\ t \in Enlisted /\ succ[c] = t /\ got[t] = succ[t]
  BY <1>1, <1>2, <1>3, CellsAre DEF Knows, Enlisted, Listed
<1>5. \A d \in Enlisted \union {"threads"} : succ[d] = t => d = c
  BY <1>2, <1>4, CellsAre DEF OnePlace, Live
<1>6. succ' = [succ EXCEPT ![c] = succ[t]] /\ UNCHANGED <<detached, freed, twice>> /\ Goto(t, "test")
  BY <1>3, <1>4 DEF Cut
<1>7. PICK l : l = "test"
  OBVIOUS
<1>8. Listed' = Listed \ {t} /\ Left' = Left /\ AtLists' = {t} /\ pc'[t] = l
  BY <1>2, <1>6, <1>7, Stages DEF Removing
<1>9. Enlisted' = Enlisted \ {t} /\ Kept' = Kept
  BY <1>2, <1>6, <1>8 DEF Enlisted, Kept
<1>10. succ' \in Links
  BY <1>2, <1>4, <1>6, CellsAre DEF Links
<1>11. Leads(succ', "threads") = Enlisted \ {t}
  <2>1. Leads(succ, "threads") = Enlisted
    BY <1>2 DEF Lists
  <2>2. /\ c = "threads" \/ c \in Leads(succ, "threads")
        /\ \A d \in Leads(succ, "threads") \union {"threads"} : succ[d] = t => d = c
    BY <1>4, <1>5, <2>1
  <2>3. Leads([succ EXCEPT ![c] = succ[t]], "threads") = Leads(succ, "threads") \ {t}
    BY <1>2, <1>4, <2>2, LeadsCut, CellsAre
  <2>4. QED
    BY <1>6, <2>1, <2>3
<1>12. Leads(succ', "deadThreads") = Kept
  <2>1. "deadThreads" \in Cells /\ "deadThreads" # c /\ c \notin Kept /\ Kept \subseteq Cells
    BY <1>2, <1>4, CellsAre
  <2>2. /\ succ'["deadThreads"] = succ["deadThreads"]
        /\ \A d \in Leads(succ, "deadThreads") : succ'[d] = succ[d]
    BY <1>2, <1>6, <2>1 DEF Lists, Links
  <2>3. QED
    BY <1>2, <1>10, <2>1, <2>2, LeadsSame DEF Lists
<1>13. Lists'
  BY <1>2, <1>6, <1>9, <1>11, <1>12 DEF Lists
<1>14. OnePlace'
  <2>1. succ' = [d \in Cells |-> IF d = c THEN succ[t] ELSE succ[d]]
    BY <1>2, <1>6 DEF Links
  <2>2. Live' = Live \ {t} /\ Live \subseteq Cells /\ c \in Live /\ t \in Live
    BY <1>2, <1>4, <1>9, CellsAre DEF Live
  <2>3. QED
    BY <1>2, <1>4, <2>1, <2>2 DEF OnePlace
<1>15. Frees'
  BY <1>2, <1>6, <1>8 DEF Frees
<1>16. Knows(t)'
  BY <1>7, <1>8 DEF Knows
<1>17. QED
  BY <1>8, <1>13, <1>14, <1>15, <1>16 DEF Tidy, Alone

\* Testing detached in removeThread, and GC_FREE.
LEMMA TestTidy ==
  ASSUME IInv, ~overlapped, NEW t \in Threads, Test(t)
  PROVE  Tidy'
<1>1. t \in AtLists /\ pc[t] = "test"
  BY DEF Test, AtLists, Removing
<1>2. /\ TypeOK /\ Lists /\ OnePlace /\ Frees /\ AtLists = {t} /\ t \notin freed /\ t \notin Left
  BY <1>1, AtWork
<1>3. t \notin Listed
  BY <1>1 DEF Listed
<1>4. PICK l \in {"removeUnlock", "bury"} :
         /\ Goto(t, l)
         /\ l = "removeUnlock" => freed' = freed \union {t} /\ t \in detached
         /\ l = "bury" => freed' = freed
         /\ twice' = twice /\ UNCHANGED <<succ, detached>>
  BY <1>2 DEF Test, Free, Marked
<1>5. CASE l = "removeUnlock"
  <2>1. Listed' = Listed /\ Left' = Left \union {t} /\ AtLists' = {}
    BY <1>2, <1>3, <1>4, <1>5, Stages DEF Adding, Removing
  <2>2. Enlisted' = Enlisted /\ Kept' = Kept
    BY <1>2, <1>4, <1>5, <2>1 DEF Enlisted, Kept
  <2>3. QED
    BY <1>2, <1>4, <1>5, <2>1, <2>2 DEF Tidy, Alone, Lists, OnePlace, Live, Frees
<1>6. CASE l = "bury"
  <2>1. Listed' = Listed /\ Left' = Left /\ AtLists' = {t} /\ pc'[t] = l
    BY <1>1, <1>2, <1>4, <1>6, StaysIn DEF Removing
  <2>2. Enlisted' = Enlisted /\ Kept' = Kept
    BY <1>4, <1>6, <2>1 DEF Enlisted, Kept
  <2>3. Knows(t)'
    BY <1>6, <2>1 DEF Knows
  <2>4. QED
    BY <1>2, <1>4, <1>6, <2>1, <2>2, <2>3 DEF Tidy, Alone, Lists, OnePlace, Live, Frees
<1>7. QED
  BY <1>4, <1>5, <1>6

\* Reading deadThreads for t->succ=deadThreads.
LEMMA BuryTidy ==
  ASSUME IInv, ~overlapped, NEW t \in Threads, Bury(t)
  PROVE  Tidy'
<1>1. t \in AtLists /\ pc[t] = "bury"
  BY DEF Bury, AtLists, Removing
<1>2. TypeOK /\ Lists /\ OnePlace /\ Frees /\ AtLists = {t}
  BY <1>1, AtWork
<1>3. got' = [got EXCEPT ![t] = succ["deadThreads"]] /\ UNCHANGED memory /\ Goto(t, "chain")
  BY DEF Bury
<1>4. Listed' = Listed /\ Left' = Left /\ AtLists' = {t} /\ pc'[t] = "chain"
  BY <1>1, <1>2, <1>3, StaysIn DEF Removing
<1>5. Lists' /\ OnePlace' /\ Frees'
  BY <1>2, <1>3, <1>4 DEF memory, Lists, OnePlace, Live, Frees, Enlisted, Kept
<1>6. Knows(t)'
  BY <1>2, <1>3, <1>4 DEF memory, Knows, TypeOK
<1>7. QED
  BY <1>4, <1>5, <1>6 DEF Tidy, Alone

\* Writing it.
LEMMA ChainTidy ==
  ASSUME IInv, ~overlapped, NEW t \in Threads, Chain(t)
  PROVE  Tidy'
<1>1. t \in AtLists /\ pc[t] = "chain"
  BY DEF Chain, AtLists, Removing
<1>2. /\ TypeOK /\ Lists /\ OnePlace /\ Frees /\ Knows(t) /\ AtLists = {t} /\ t \notin Left /\ t \in Cells
      /\ succ \in Links /\ Kept \subseteq Blocks /\ Enlisted \subseteq Blocks
  BY <1>1, AtWork
<1>3. t \notin Live
  BY <1>1, <1>2, CellsAre DEF Live, Enlisted, Kept, Listed, Heads
<1>4. /\ succ' = [succ EXCEPT ![t] = succ["deadThreads"]] /\ UNCHANGED <<detached, freed, twice>>
      /\ Goto(t, "head")
  BY <1>1, <1>2 DEF Chain, Knows
<1>5. Listed' = Listed /\ Left' = Left /\ AtLists' = {t} /\ pc'[t] = "head"
  BY <1>1, <1>2, <1>4, StaysIn DEF Removing
<1>6. Enlisted' = Enlisted /\ Kept' = Kept /\ Live' = Live
  BY <1>4, <1>5 DEF Enlisted, Kept, Live
<1>7. succ' \in Links /\ succ'[t] = succ["deadThreads"] /\ \A d \in Live : succ'[d] = succ[d]
  <2>1. Live \subseteq Cells
    BY <1>2, CellsAre DEF Live
  <2>2. QED
    BY <1>2, <1>3, <1>4, <2>1, CellsAre DEF Links
<1>8. Lists'
  <2>1. \A h \in Heads : h \in Live /\ h \in Cells /\ Leads(succ, h) \subseteq Live
    BY <1>2, CellsAre DEF Live, Lists, Heads
  <2>2. \A h \in Heads : Leads(succ', h) = Leads(succ, h)
    BY <1>2, <1>7, <2>1, LeadsSame
  <2>3. QED
    BY <1>2, <1>4, <1>6, <2>2, CellsAre DEF Lists
<1>9. OnePlace' /\ Frees'
  BY <1>2, <1>4, <1>5, <1>6, <1>7 DEF OnePlace, Frees
<1>10. Knows(t)'
  BY <1>3, <1>5, <1>7, CellsAre DEF Knows, Live
<1>11. QED
  BY <1>5, <1>8, <1>9, <1>10 DEF Tidy, Alone

\* deadThreads=t
LEMMA HeadTidy ==
  ASSUME IInv, ~overlapped, NEW t \in Threads, Head(t)
  PROVE  Tidy'
<1>1. t \in AtLists /\ pc[t] = "head"
  BY DEF Head, AtLists, Removing
<1>2. /\ TypeOK /\ Lists /\ OnePlace /\ Frees /\ Knows(t) /\ AtLists = {t} /\ t \notin Left /\ t \notin freed
      /\ succ \in Links /\ Kept \subseteq Blocks /\ Enlisted \subseteq Blocks /\ t \in Blocks /\ t \in Cells
  BY <1>1, AtWork
<1>3. t \notin Live /\ "deadThreads" \notin Enlisted /\ "deadThreads" \notin Kept /\ t \notin Listed
  BY <1>1, <1>2, CellsAre DEF Live, Enlisted, Kept, Listed, Heads
<1>4. /\ succ' = [succ EXCEPT !["deadThreads"] = t] /\ UNCHANGED <<detached, freed, twice>>
      /\ Goto(t, "removeUnlock")
  BY DEF Head
<1>5. PICK l : l = "removeUnlock"
  OBVIOUS
<1>6. Listed' = Listed /\ Left' = Left \union {t} /\ AtLists' = {} /\ pc'[t] = l
  BY <1>2, <1>3, <1>4, <1>5, Stages DEF Adding, Removing
<1>7. Enlisted' = Enlisted /\ Kept' = Kept \union {t}
  BY <1>2, <1>4, <1>6 DEF Enlisted, Kept
<1>8. succ[t] = succ["deadThreads"]
  BY <1>1, <1>2 DEF Knows
<1>9. succ' \in Links /\ succ'["deadThreads"] = t /\ \A d \in Cells : d # "deadThreads" => succ'[d] = succ[d]
  BY <1>2, <1>4, CellsAre DEF Links
<1>10. Leads(succ', "deadThreads") = Kept \union {t}
  BY <1>2, <1>4, <1>8, LeadsPush, CellsAre DEF Lists
<1>11. Leads(succ', "threads") = Enlisted
  <2>1. \A d \in Leads(succ, "threads") \union {"threads"} : succ'[d] = succ[d]
    BY <1>2, <1>3, <1>9, CellsAre DEF Lists
  <2>2. QED
    BY <1>2, <1>9, <2>1, LeadsSame, CellsAre DEF Lists
<1>12. Lists'
  BY <1>2, <1>4, <1>7, <1>10, <1>11 DEF Lists
<1>13. OnePlace'
  <2>1. Live' = Live \union {t} /\ Live \subseteq Cells
    BY <1>2, <1>7, CellsAre DEF Live
  <2>2. \A d \in Live : d # "deadThreads" => succ[d] # t
    BY <1>2, <1>3, ListsOn, CellsAre DEF Live, Heads
  <2>3. "deadThreads" \in Live /\ "deadThreads" # t
    BY <1>3, CellsAre DEF Live
  <2>4. \A d \in Live : d # "deadThreads" => succ'[d] = succ[d] /\ succ'[d] # t
    BY <1>9, <2>1, <2>2
  <2>5. \A c, d \in Live : succ'[c] = succ'[d] /\ succ'[c] # NoThread => c = d
    BY <1>2, <1>9, <2>4 DEF OnePlace
  <2>6. \A c \in Live : c # "deadThreads" /\ succ[c] # NoThread => succ[c] # succ["deadThreads"]
    BY <1>2, <2>3 DEF OnePlace
  <2>7. succ'[t] = succ["deadThreads"] /\ succ["deadThreads"] # t
    BY <1>2, <1>3, <1>8, <1>9, <2>3, ListsOn, CellsAre DEF Live, Heads
  <2>8. \A c \in Live : succ'[c] = succ'[t] /\ succ'[c] # NoThread => c = t
    BY <1>9, <2>4, <2>6, <2>7
  <2>9. QED
    BY <2>1, <2>5, <2>8 DEF OnePlace
<1>14. Frees'
  BY <1>2, <1>4, <1>6 DEF Frees
<1>15. QED
  BY <1>6, <1>12, <1>13, <1>14 DEF Tidy, Alone

-----------------------------------------------------------------------------
(* The steps that are not at the lists.                                    *)

\* They leave the lists and who is there alone.
LEMMA TidyKept ==
  ASSUME TypeOK, Tidy, UNCHANGED <<succ, freed, twice>>, detached \subseteq detached',
         Listed' = Listed, Left' = Left, AtLists' = AtLists,
         \A t \in AtLists : p'[t] = p[t] /\ cur'[t] = cur[t] /\ got'[t] = got[t] /\ pc'[t] = pc[t]
  PROVE  Tidy'
<1>1. Lists' /\ OnePlace' /\ Frees' /\ Alone'
  BY DEF Tidy, Alone, Lists, OnePlace, Live, Frees, Enlisted, Kept
<1>2. Kept' = Kept /\ Enlisted' = Enlisted
  BY DEF Enlisted, Kept
<1>3. ASSUME NEW t \in AtLists PROVE Knows(t)'
  <2>1. Knows(t)
    BY DEF Tidy
  <2>2. QED
    BY <1>2, <2>1 DEF Knows
<1>4. QED
  BY <1>1, <1>3 DEF Tidy

\* A thread that does not come near the lists.
LEMMA StaysOut ==
  ASSUME TypeOK, NEW t \in Threads \ AtLists, NEW l, l \notin Adding \union Removing, Goto(t, l),
         t \in Listed <=> l \in {"addUnlock", "running", "walk", "unlink", "cut"},
         t \in Left <=> l \in {"removeUnlock", "ended"}
  PROVE  Listed' = Listed /\ Left' = Left /\ AtLists' = AtLists /\ \A u \in AtLists : pc'[u] = pc[u]
<1>1. Listed' = Listed /\ Left' = Left /\ AtLists' = AtLists
  BY Stages
<1>2. \A u \in AtLists : pc'[u] = pc[u]
  BY DEF Goto, TypeOK, AtLists
<1>3. QED
  BY <1>1, <1>2

\* A thread that enters without meeting another.
LEMMA EnterTidy ==
  ASSUME IInv, NEW t \in Threads, Begin(t) \/ End(t), ~overlapped'
  PROVE  Tidy'
<1>1. /\ ~overlapped /\ AtLists = {} /\ UNCHANGED <<memory, cur, got>>
  BY DEF Begin, End, Enter
<1>2. /\ TypeOK /\ Lists /\ OnePlace /\ Frees
      /\ Enlisted \subseteq Blocks
  BY <1>1, CellsAre DEF IInv, Tidy, Enlisted, Listed
<1>3. PICK l \in {"flush", "walk"} :
         /\ Goto(t, l)
         /\ l = "flush" => pc[t] = "start" /\ p'[t] = "deadThreads"
         /\ l = "walk" => pc[t] = "running" /\ p'[t] = "threads"
  BY <1>2, CellsAre DEF Begin, End, Enter, TypeOK
<1>4. Listed' = Listed /\ Left' = Left /\ AtLists' = {t} /\ pc'[t] = l
  <2>1. l \in Adding \union Removing /\ l \notin {"removeUnlock", "ended"} /\ t \notin Left
    BY <1>3 DEF Adding, Removing, Left
  <2>2. t \in Listed <=> l = "walk"
    BY <1>3 DEF Listed
  <2>3. QED
    BY <1>1, <1>2, <1>3, <2>1, <2>2, Stages
<1>5. Lists' /\ OnePlace' /\ Frees'
  BY <1>1, <1>2, <1>4 DEF memory, Lists, OnePlace, Live, Frees, Enlisted, Kept
<1>6. Knows(t)'
  <2>1. Kept' = Kept /\ Enlisted' = Enlisted /\ succ' = succ
    BY <1>1, <1>4 DEF memory, Enlisted, Kept
  <2>2. t \notin Heads
    BY CellsAre
  <2>3. l = "walk" => t \in Leads(succ, "threads")
    BY <1>2, <1>3 DEF Lists, Enlisted, Listed
  <2>4. QED
    BY <1>3, <1>4, <2>1, <2>2, <2>3, CellsAre DEF Knows
<1>7. QED
  BY <1>4, <1>5, <1>6 DEF Tidy, Alone

\* bbThreadCreate, up to the new thread.
LEMMA CreateKeeps ==
  ASSUME IInv, NEW c \in Blocks, NEW t \in Threads, Create(c, t)
  PROVE  UntilFlag' /\ OnlyFirstsUnlocked' /\ (~overlapped' => Tidy')
<1>1. TypeOK /\ UntilFlag /\ OnlyFirstsUnlocked
  BY DEF IInv
<1>2. /\ t \in Created /\ pc[t] = "none" /\ Goto(t, "start") /\ making[c] = NoThread
      /\ making'[c] = t /\ \A d \in Blocks : d # c => making'[d] = making[d]
      /\ first'[c] = (IF first[c] = NoThread THEN t ELSE first[c])
      /\ \A d \in Blocks : d # c => first'[d] = first[d]
      /\ UNCHANGED <<needsLock, lock, memory, locals, overlapped>>
  BY <1>1 DEF Create, TypeOK
<1>3. PICK l : l = "start"
  OBVIOUS
<1>4. Listed' = Listed /\ Left' = Left /\ AtLists' = AtLists /\ \A u \in AtLists : pc'[u] = pc[u]
  <2>1. t \notin Listed /\ t \notin Left /\ t \notin AtLists
    BY <1>2 DEF Listed, Left, AtLists, Adding, Removing
  <2>2. QED
    BY <1>1, <1>2, <1>3, <2>1, StaysOut DEF Adding, Removing
<1>5. UntilFlag'
  <2>1. SUFFICES ASSUME ~needsLock'
                 PROVE  /\ lock' = NoThread
                        /\ \A u \in Created : pc'[u] # "none" => \E d \in Blocks : u = making'[d]
                        /\ \A d \in Blocks : first'[d] = making'[d]
    BY DEF UntilFlag
  <2>2. ~needsLock /\ lock' = NoThread
    BY <1>1, <1>2, <2>1 DEF UntilFlag
  <2>3. ASSUME NEW u \in Created, pc'[u] # "none" PROVE \E d \in Blocks : u = making'[d]
    <3>1. CASE u = t
      BY <1>2, <3>1
    <3>2. CASE u # t
      <4>1. pc[u] # "none"
        BY <1>1, <1>2, <2>3, <3>2, CellsAre DEF Goto, TypeOK
      <4>2. PICK d \in Blocks : u = making[d]
        BY <1>1, <2>2, <4>1 DEF UntilFlag
      <4>3. QED
        BY <1>2, <4>2, CellsAre
    <3>3. QED
      BY <3>1, <3>2
  <2>4. \A d \in Blocks : first'[d] = making'[d]
    BY <1>1, <1>2, <2>2 DEF UntilFlag
  <2>5. QED
    BY <2>2, <2>3, <2>4
<1>6. OnlyFirstsUnlocked'
  <2>1. ASSUME NEW u \in AtLists, NEW d \in Blocks, u = first[d] PROVE u = first'[d]
    BY <1>2, <2>1, CellsAre DEF AtLists
  <2>2. QED
    BY <1>1, <1>2, <1>4, <2>1 DEF OnlyFirstsUnlocked, Locked
<1>7. ~overlapped' => Tidy'
  BY <1>1, <1>2, <1>4, TidyKept DEF memory, locals, IInv
<1>8. QED
  BY <1>5, <1>6, <1>7

\* bbThreadCreate, from there on.
LEMMA CreateReturnsKeeps ==
  ASSUME IInv, NEW c \in Blocks, CreateReturns(c)
  PROVE  UntilFlag' /\ OnlyFirstsUnlocked' /\ (~overlapped' => Tidy')
<1>1. UNCHANGED <<lock, memory, pc, locals, history>> /\ needsLock' = TRUE
  BY DEF CreateReturns
<1>2. Listed' = Listed /\ Left' = Left /\ AtLists' = AtLists
  BY <1>1 DEF Listed, Left, AtLists
<1>3. UntilFlag' /\ OnlyFirstsUnlocked'
  BY <1>1, <1>2 DEF IInv, UntilFlag, OnlyFirstsUnlocked, Locked, history
<1>4. QED
  BY <1>1, <1>2, <1>3, TidyKept DEF IInv, memory, locals, history

\* bbThreadRegister.
LEMMA RegisterKeeps ==
  ASSUME IInv, NEW t \in Threads, Register(t)
  PROVE  UntilFlag' /\ OnlyFirstsUnlocked' /\ (~overlapped' => Tidy')
<1>1. /\ t \in Foreign /\ pc[t] = "none" /\ Goto(t, "start")
      /\ UNCHANGED <<needsLock, lock, memory, locals, making, history>>
  BY DEF Register
<1>2. TypeOK
  BY DEF IInv
<1>3. PICK l : l = "start"
  OBVIOUS
<1>4. Listed' = Listed /\ Left' = Left /\ AtLists' = AtLists /\ \A u \in AtLists : pc'[u] = pc[u]
  <2>1. t \notin Listed /\ t \notin Left /\ t \notin AtLists
    BY <1>1 DEF Listed, Left, AtLists, Adding, Removing
  <2>2. QED
    BY <1>1, <1>2, <1>3, <2>1, StaysOut DEF Adding, Removing
<1>5. \A u \in Created : pc'[u] # "none" => pc[u] # "none"
  BY <1>1, <1>2, CellsAre DEF Goto, TypeOK
<1>6. UntilFlag' /\ OnlyFirstsUnlocked'
  BY <1>1, <1>4, <1>5, LockKept DEF history
<1>7. QED
  BY <1>1, <1>2, <1>4, <1>6, TidyKept DEF IInv, memory, locals, history

\* BB_LOCK.
LEMMA EnterKeeps ==
  ASSUME IInv, NEW t \in Threads, Begin(t) \/ End(t)
  PROVE  UntilFlag' /\ OnlyFirstsUnlocked' /\ (~overlapped' => Tidy')
<1>1. TypeOK /\ UntilFlag /\ OnlyFirstsUnlocked
  BY DEF IInv
<1>2. PICK l \in {"flush", "walk"} : Goto(t, l) /\ pc[t] \in {"start", "running"}
  BY DEF Begin, End, Enter
<1>3. /\ IF needsLock THEN lock = NoThread /\ lock' = t ELSE lock' = lock
      /\ UNCHANGED <<needsLock, making, first>>
  BY DEF Begin, End, Enter
<1>4. AtLists' = AtLists \union {t}
  BY <1>1, <1>2, Stages DEF Adding, Removing
<1>5. UntilFlag'
  BY <1>1, <1>2, <1>3 DEF UntilFlag, Goto, TypeOK
<1>6. OnlyFirstsUnlocked'
  <2>1. ASSUME NEW u \in AtLists PROVE lock' = u \/ u \in Foreign \/ \E c \in Blocks : u = first'[c]
    <3>1. lock = u => lock' = u
      BY <1>3, CellsAre, <2>1 DEF AtLists
    <3>2. QED
      BY <1>1, <1>3, <3>1 DEF OnlyFirstsUnlocked, Locked
  <2>2. lock' = t \/ t \in Foreign \/ \E c \in Blocks : t = first'[c]
    <3>1. CASE needsLock
      BY <1>3, <3>1
    <3>2. CASE ~needsLock /\ t \in Created
      <4>1. PICK c \in Blocks : t = making[c]
        BY <1>1, <1>2, <3>2 DEF UntilFlag
      <4>2. QED
        BY <1>1, <1>3, <3>2, <4>1 DEF UntilFlag
    <3>3. QED
      BY <3>1, <3>2 DEF Threads
  <2>3. QED
    BY <1>4, <2>1, <2>2 DEF OnlyFirstsUnlocked, Locked
<1>7. QED
  BY <1>5, <1>6, EnterTidy

\* BB_UNLOCK.
LEMMA LeaveKeeps ==
  ASSUME IInv, NEW t \in Threads, Leaves(t)
  PROVE  UntilFlag' /\ OnlyFirstsUnlocked' /\ (~overlapped' => Tidy')
<1>1. TypeOK /\ UntilFlag /\ OnlyFirstsUnlocked
  BY DEF IInv
<1>2. PICK l \in {"running", "ended"} :
         Goto(t, l) /\ pc[t] = IF l = "running" THEN "addUnlock" ELSE "removeUnlock"
  BY DEF Leaves, Leave
<1>3. /\ lock' = IF needsLock /\ lock = t THEN NoThread ELSE lock
      /\ UNCHANGED <<needsLock, memory, locals, making, history>>
  BY DEF Leaves, Leave
<1>4. Listed' = Listed /\ Left' = Left /\ AtLists' = AtLists /\ \A u \in AtLists : pc'[u] = pc[u]
  <2>1. t \in Listed <=> l = "running"
    BY <1>2 DEF Listed
  <2>2. t \in Left <=> l = "ended"
    BY <1>2 DEF Left
  <2>3. t \notin AtLists /\ l \notin Adding \union Removing
    BY <1>2 DEF AtLists, Adding, Removing
  <2>4. QED
    BY <1>1, <1>2, <2>1, <2>2, <2>3, StaysOut
<1>5. UntilFlag'
  BY <1>1, <1>2, <1>3 DEF UntilFlag, Goto, TypeOK, history
<1>6. OnlyFirstsUnlocked'
  <2>1. t \notin AtLists
    BY <1>2 DEF AtLists, Adding, Removing
  <2>2. QED
    BY <1>1, <1>3, <1>4, <2>1 DEF OnlyFirstsUnlocked, Locked, history
<1>7. QED
  BY <1>1, <1>3, <1>4, <1>5, <1>6, TidyKept DEF IInv, memory, locals, history

\* bbThreadWait and bbThreadDetach.
LEMMA ClosesKeeps ==
  ASSUME IInv, NEW t \in Threads, Marks(t) \/ Closes(t)
  PROVE  UntilFlag' /\ OnlyFirstsUnlocked' /\ (~overlapped' => Tidy')
<1>1. /\ UNCHANGED <<needsLock, lock, succ, freed, twice, pc, locals, making, history>>
      /\ detached \subseteq detached'
  BY DEF Marks, Mark, Closes, UseHandle, Joined, memory
<1>2. Listed' = Listed /\ Left' = Left /\ AtLists' = AtLists
  BY <1>1 DEF Listed, Left, AtLists
<1>3. UntilFlag' /\ OnlyFirstsUnlocked'
  BY <1>1, <1>2, LockKept DEF history
<1>4. QED
  BY <1>1, <1>2, <1>3, TidyKept DEF IInv, locals, history

\* The steps at the lists.
LEMMA ListsKeep ==
  ASSUME IInv, NEW t \in Threads, Adds(t) \/ Removes(t)
  PROVE  UntilFlag' /\ OnlyFirstsUnlocked' /\ (~overlapped' => Tidy')
<1>1. UNCHANGED <<needsLock, lock, making, first, overlapped>>
  BY DEF Adds, Flush, Dead, Drop, Push, Enlist,
         Removes, Walk, Unlink, Cut, Test, Bury, Chain, Head, history
<1>2. \E l \in Inside : Goto(t, l) /\ t \in AtLists
  BY DEF Adds, Flush, Dead, Drop, Push, Enlist, Inside, AtLists, Adding, Removing,
         Removes, Walk, Unlink, Cut, Test, Bury, Chain, Head
<1>3. AtLists' \subseteq AtLists /\ \A u \in Created : pc'[u] # "none" => pc[u] # "none"
  BY <1>2 DEF Goto, AtLists, IInv, TypeOK, Adding, Removing
<1>4. ~overlapped => Tidy'
  BY FlushTidy, DeadTidy, DropTidy, PushTidy, EnlistTidy, WalkTidy, UnlinkTidy, CutTidy,
     TestTidy, BuryTidy, ChainTidy, HeadTidy DEF Adds, Removes
<1>5. QED
  BY <1>1, <1>3, <1>4, LockKept

-----------------------------------------------------------------------------
(* The theorems.                                                           *)

\* Every step keeps the state well-typed.
LEMMA TypeKept ==
  ASSUME IInv, Next
  PROVE  TypeOK'
<1>1. TypeOK /\ UntilFlag
  BY DEF IInv
<1>2. ASSUME NEW c \in Blocks, NEW t \in Threads, Create(c, t) PROVE TypeOK'
  BY <1>1, <1>2, CellsAre DEF Create, TypeOK, Goto, Inside, Adding, Removing, memory, locals
<1>3. ASSUME NEW c \in Blocks, CreateReturns(c) PROVE TypeOK'
  BY <1>1, <1>3 DEF CreateReturns, TypeOK, memory, locals, history
<1>4. ASSUME NEW t \in Threads, Register(t) PROVE TypeOK'
  BY <1>1, <1>4 DEF Register, TypeOK, Goto, Inside, Adding, Removing, memory, locals, history
<1>5. ASSUME NEW t \in Threads, Begin(t) \/ End(t) PROVE TypeOK'
  <2>1. ASSUME NEW from \in {"start", "running"}, NEW l \in {"flush", "walk"}, NEW h \in Heads, Enter(t, from, l, h)
        PROVE  TypeOK'
    <3>1. h \in Cells /\ h # NoThread
      BY CellsAre
    <3>2. /\ pc' = [pc EXCEPT ![t] = l] /\ p' = [p EXCEPT ![t] = h] /\ lock' \in {lock, t}
          /\ UNCHANGED <<needsLock, memory, cur, got, making, close, first>> /\ overlapped' \in BOOLEAN
      BY <1>1, <2>1 DEF Enter, Goto, TypeOK
    <3>3. cur[t] = NoThread
      BY <1>1, <2>1 DEF Enter, TypeOK
    <3>4. QED
      BY <1>1, <3>1, <3>2, <3>3 DEF TypeOK, Inside, Adding, Removing, memory
  <2>2. QED
    BY <1>5, <2>1, CellsAre DEF Begin, End
<1>6. ASSUME NEW t \in Threads, Leaves(t) PROVE TypeOK'
  BY <1>1, <1>6, CellsAre
     DEF Leaves, Leave, UntilFlag, TypeOK, Goto, Inside, Adding, Removing, memory, locals, history
<1>7. ASSUME NEW t \in Threads, Marks(t) \/ Closes(t) PROVE TypeOK'
  BY <1>1, <1>7 DEF Marks, Mark, Closes, UseHandle, Joined, TypeOK, memory, locals, history
<1>8. ASSUME NEW c \in Cells \union {NoThread}, c # NoThread PROVE Link(c) \subseteq Blocks \union {NoThread}
  BY <1>1, <1>8 DEF Link, TypeOK
<1>9. ASSUME NEW t \in Threads, Adds(t) PROVE TypeOK'
  <2>1. ASSUME Flush(t) PROVE TypeOK'
    BY <1>1, <1>8, <2>1, CellsAre DEF Flush, TypeOK, Goto, Inside, Adding, Removing, memory, history
  <2>2. ASSUME Dead(t) PROVE TypeOK'
    <3>1. cur[t] \in Blocks /\ cur[t] \in Cells /\ cur[t] # NoThread /\ Link(cur[t]) \subseteq Blocks \union {NoThread}
      BY <1>1, <1>8, <2>2, CellsAre DEF Dead, TypeOK
    <3>2. PICK l \in {"drop", "flush"} :
             /\ Goto(t, l)
             /\ l = "drop" => got' \in [Threads -> Blocks \union {NoThread}] /\ UNCHANGED <<p, cur>>
             /\ l = "flush" => /\ p' = [p EXCEPT ![t] = cur[t]] /\ cur' = [cur EXCEPT ![t] = NoThread]
                               /\ UNCHANGED got
      <4>1. ASSUME NEW b \in Link(cur[t]), got' = [got EXCEPT ![t] = b]
            PROVE  got' \in [Threads -> Blocks \union {NoThread}]
        BY <1>1, <3>1, <4>1 DEF TypeOK
      <4>2. QED
        BY <2>2, <4>1 DEF Dead
    <3>3. UNCHANGED <<needsLock, lock, memory, making, close, history>> /\ pc[t] = "dead"
      BY <2>2 DEF Dead
    <3>4. CASE l = "drop"
      BY <1>1, <3>2, <3>3, <3>4 DEF TypeOK, Goto, Inside, Adding, Removing, memory, history
    <3>5. CASE l = "flush"
      BY <1>1, <3>1, <3>2, <3>3, <3>5 DEF TypeOK, Goto, Inside, Adding, Removing, memory, history
    <3>6. QED
      BY <3>2, <3>4, <3>5
  <2>3. ASSUME Drop(t) PROVE TypeOK'
    BY <1>1, <2>3, CellsAre DEF Drop, Free, TypeOK, Goto, Inside, Adding, Removing, history
  <2>4. ASSUME Push(t) PROVE TypeOK'
    BY <1>1, <2>4, CellsAre DEF Push, TypeOK, Goto, Inside, Adding, Removing, locals, history
  <2>5. ASSUME Enlist(t) PROVE TypeOK'
    BY <1>1, <2>5, CellsAre DEF Enlist, TypeOK, Goto, Inside, Adding, Removing, locals, history
  <2>6. QED
    BY <1>9, <2>1, <2>2, <2>3, <2>4, <2>5 DEF Adds
<1>10. ASSUME NEW t \in Threads, Removes(t) PROVE TypeOK'
  <2>1. ASSUME Walk(t) PROVE TypeOK'
    <3>1. Link(p[t]) \subseteq Blocks \union {NoThread} /\ p[t] \in Cells
      BY <1>1, <1>8, <2>1 DEF Walk, TypeOK
    <3>2. PICK b \in Blocks \union {NoThread} :
             /\ p' = [p EXCEPT ![t] = IF b = t THEN @ ELSE b]
             /\ Goto(t, CASE b = NoThread -> "removeUnlock" [] b = t -> "unlink" [] OTHER -> "walk")
      BY <2>1, <3>1 DEF Walk
    <3>3. UNCHANGED <<needsLock, lock, memory, cur, got, making, close, history>> /\ pc[t] = "walk"
      BY <2>1 DEF Walk
    <3>4. CASE b = NoThread
      <4>1. Goto(t, "removeUnlock") /\ p' = [p EXCEPT ![t] = NoThread]
        BY <3>2, <3>4, CellsAre
      <4>2. QED
        BY <1>1, <3>3, <4>1 DEF TypeOK, Goto, Inside, Adding, Removing, memory, history
    <3>5. CASE b = t
      <4>1. Goto(t, "unlink") /\ p' = [p EXCEPT ![t] = @]
        BY <3>2, <3>5, CellsAre
      <4>2. QED
        BY <1>1, <3>1, <3>3, <4>1 DEF TypeOK, Goto, Inside, Adding, Removing, memory, history
    <3>6. CASE b # NoThread /\ b # t
      <4>1. Goto(t, "walk") /\ p' = [p EXCEPT ![t] = b] /\ b \in Cells
        BY <3>2, <3>6, CellsAre
      <4>2. QED
        BY <1>1, <3>3, <3>6, <4>1 DEF TypeOK, Goto, Inside, Adding, Removing, memory, history
    <3>7. QED
      BY <3>4, <3>5, <3>6
  <2>2. ASSUME Unlink(t) PROVE TypeOK'
    BY <1>1, <1>8, <2>2, CellsAre DEF Unlink, TypeOK, Goto, Inside, Adding, Removing, memory, history
  <2>3. ASSUME Cut(t) PROVE TypeOK'
    BY <1>1, <2>3, CellsAre DEF Cut, TypeOK, Goto, Inside, Adding, Removing, history
  <2>4. ASSUME Test(t) PROVE TypeOK'
    <3>1. PICK l \in {"removeUnlock", "bury"} : Goto(t, l)
      BY <2>4 DEF Test
    <3>2. freed' \subseteq Blocks /\ twice' \subseteq freed'
      BY <1>1, <2>4, CellsAre DEF Test, Free, TypeOK
    <3>3. UNCHANGED <<needsLock, lock, succ, detached, locals, making, close, history>> /\ pc[t] = "test"
      BY <2>4 DEF Test
    <3>4. QED
      BY <1>1, <3>1, <3>2, <3>3 DEF TypeOK, Goto, Inside, Adding, Removing, locals, history
  <2>5. ASSUME Bury(t) PROVE TypeOK'
    BY <1>1, <2>5, CellsAre DEF Bury, TypeOK, Goto, Inside, Adding, Removing, memory, history
  <2>6. ASSUME Chain(t) PROVE TypeOK'
    BY <1>1, <2>6, CellsAre DEF Chain, TypeOK, Goto, Inside, Adding, Removing, history
  <2>7. ASSUME Head(t) PROVE TypeOK'
    BY <1>1, <2>7, CellsAre DEF Head, TypeOK, Goto, Inside, Adding, Removing, locals, history
  <2>8. QED
    BY <1>10, <2>1, <2>2, <2>3, <2>4, <2>5, <2>6, <2>7 DEF Removes
<1>11. QED
  BY <1>2, <1>3, <1>4, <1>5, <1>6, <1>7, <1>9, <1>10 DEF Next, Goes

LEMMA NextKeeps ==
  ASSUME IInv, [Next]_vars
  PROVE  IInv'
<1>1. CASE UNCHANGED vars
  <2>1. UNCHANGED <<needsLock, lock, succ, detached, freed, twice, pc, p, cur, got, making, close, first, overlapped>>
    BY <1>1 DEF vars, memory, locals, history
  <2>2. TypeOK' /\ UntilFlag' /\ Listed' = Listed /\ Left' = Left /\ AtLists' = AtLists
    BY <2>1 DEF IInv, TypeOK, UntilFlag, Listed, Left, AtLists
  <2>3. OnlyFirstsUnlocked'
    BY <2>1, <2>2 DEF IInv, OnlyFirstsUnlocked, Locked
  <2>4. ~overlapped' => Tidy'
    BY <2>1, <2>2, TidyKept DEF IInv
  <2>5. QED
    BY <2>2, <2>3, <2>4 DEF IInv
<1>2. CASE Next
  <2>1. TypeOK'
    BY <1>2, TypeKept
  <2>2. UntilFlag' /\ OnlyFirstsUnlocked' /\ (~overlapped' => Tidy')
    <3>1. ASSUME NEW c \in Blocks, CreateReturns(c) \/ \E t \in Threads : Create(c, t)
          PROVE  UntilFlag' /\ OnlyFirstsUnlocked' /\ (~overlapped' => Tidy')
      BY <3>1, CreateReturnsKeeps, CreateKeeps
    <3>2. ASSUME NEW t \in Threads, Register(t) \/ End(t) \/ Goes(t) \/ Marks(t) \/ Closes(t)
          PROVE  UntilFlag' /\ OnlyFirstsUnlocked' /\ (~overlapped' => Tidy')
      BY <3>2, RegisterKeeps, EnterKeeps, ListsKeep, LeaveKeeps, ClosesKeeps DEF Goes
    <3>3. QED
      BY <1>2, <3>1, <3>2 DEF Next
  <2>3. QED
    BY <2>1, <2>2 DEF IInv
<1>3. QED
  BY <1>1, <1>2

LEMMA Invariance == Spec => []IInv
<1>1. Spec => Init /\ [][Next]_vars
  BY DEF Spec, SafeSpec
<1>2. QED
  BY InitInv, NextKeeps, <1>1, PTL

(***************************************************************************)
(* The type invariant: the locals of the two walks are set exactly between *)
(* the stages that use them, and a thread that has the lock is inside      *)
(* addThread or removeThread.                                              *)
(***************************************************************************)
THEOREM TypeCorrect == Spec => []TypeOK
<1>1. IInv => TypeOK
  BY DEF IInv
<1>2. QED
  BY Invariance, <1>1, PTL

(***************************************************************************)
(* Of the threads that are created, only the first one of each caller of   *)
(* bbThreadCreate can be at the lists without the lock, however many       *)
(* threads call it at once and however much of their own the new threads   *)
(* have done by the time that the flag is set.                             *)
(***************************************************************************)
THEOREM FirstsUnlocked == Spec => []OnlyFirstsUnlocked
<1>1. IInv => OnlyFirstsUnlocked
  BY DEF IInv
<1>2. QED
  BY Invariance, <1>1, PTL

(***************************************************************************)
(* As long as no two threads have been at the lists at once, the links of  *)
(* `threads` and deadThreads lead to the blocks that should be in the two  *)
(* lists and no others, at every step of addThread and removeThread, and   *)
(* no block is freed twice.                                                *)
(***************************************************************************)
THEOREM ExactLists == Spec => []ListsExact
<1>1. IInv => ListsExact
  BY DEF IInv, ListsExact, Tidy, Lists, Enlisted, Kept
<1>2. QED
  BY Invariance, <1>1, PTL

(***************************************************************************)
(* As long as no two threads have been at the lists at once, a block that  *)
(* is freed is that of a thread that has left the list and has been        *)
(* detached or waited for, and no walk along a list is at such a block:    *)
(* what flushDeadThreads and removeThread read is never freed memory.      *)
(***************************************************************************)
THEOREM LateFrees == Spec => []FreedLate
<1>1. ASSUME IInv, ~overlapped, NEW t \in AtLists PROVE p[t] \notin freed /\ cur[t] \notin freed
  <2>1. TypeOK /\ Knows(t) /\ Lists /\ OnePlace /\ freed \subseteq Blocks /\ t \in Threads
        /\ Kept \intersect freed = {} /\ Enlisted \intersect freed = {}
    BY <1>1, AtWork DEF TypeOK
  <2>2. p[t] \notin freed
    BY <2>1, CellsAre DEF Knows, TypeOK
  <2>3. cur[t] \notin freed
    BY <2>1, ListsOn, CellsAre DEF Knows, TypeOK
  <2>4. QED
    BY <2>2, <2>3
<1>2. IInv => FreedLate
  BY <1>1 DEF IInv, Tidy, Frees, FreedLate
<1>3. QED
  BY Invariance, <1>2, PTL
=============================================================================
