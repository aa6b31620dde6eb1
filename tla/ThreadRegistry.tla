---------------------------- MODULE ThreadRegistry ----------------------------
(***************************************************************************)
(* The runtime's list of threads (blitz.mod/blitz_thread.c, POSIX part):   *)
(* a new thread enters itself into `threads`, and when it ends it takes    *)
(* itself out and either frees its block, if it has been marked as         *)
(* detached, or leaves it in `deadThreads` for the next thread that starts *)
(* after somebody has marked it.  A block is named after its thread.       *)
(*                                                                         *)
(* The lists are changed between BB_LOCK and BB_UNLOCK, which do nothing   *)
(* until _bbNeedsLock is set, and that happens when bbThreadCreate has     *)
(* created a thread and is about to return.  Every access to a link is a   *)
(* step of its own, so that threads that are at the lists without the lock *)
(* interfere as the code lets them.                                        *)
(***************************************************************************)
EXTENDS Naturals, FiniteSets

CONSTANTS
  Created,     \* the threads that the program creates
  Foreign,     \* threads of a library that register themselves
  Main,        \* the main thread
  NoThread     \* and the null pointer

Threads == Created \union Foreign
Blocks == Threads \union {Main}
\* Where a link may be: the variables threads and deadThreads, or a block's field succ.
Heads == {"threads", "deadThreads"}
Cells == Heads \union Blocks

ASSUME RegistryAssumption ==
  /\ Created \intersect Foreign = {}
  /\ Main \notin Threads
  /\ NoThread \notin Cells
  /\ Heads \intersect Blocks = {}

VARIABLES
  needsLock,   \* _bbNeedsLock
  lock,        \* the owner of _bbLock
  succ,        \* the links
  detached,    \* the blocks whose field detached is set
  freed,       \* the blocks that have been freed
  pc,          \* where each thread is in threadProc
  p,           \* the thread's pointer p in flushDeadThreads and removeThread
  cur,         \* and its t in flushDeadThreads
  got,         \* a link that it has read and is about to write elsewhere
  making,      \* the thread that a bbThreadCreate, by its caller, has in hand
  close,       \* bbThreadWait or bbThreadDetach for a block, see below
  first,       \* history: the first thread that a caller has created
  twice,       \* history: the blocks that have been freed again
  overlapped   \* history: two threads have been at the lists at once

memory == <<succ, detached, freed, twice>>
locals == <<p, cur, got>>
history == <<first, overlapped>>
vars == <<needsLock, lock, memory, pc, locals, making, close, history>>

Adding == {"flush", "dead", "drop", "push", "link"}
Removing == {"walk", "unlink", "cut", "test", "bury", "chain", "head"}
Inside == Adding \union Removing \union {"addUnlock", "removeUnlock"}
Locked(t) == lock = t
AtLists == {t \in Threads : pc[t] \in Adding \union Removing}

Goto(t, l) == pc' = [pc EXCEPT ![t] = l]
Free(b) ==
  /\ freed' = freed \union {b}
  /\ twice' = IF b \in freed THEN twice \union {b} ELSE twice

\* What reading a link, and a field detached, gives: of a block that has been freed, anything.
Link(c) == IF c \in freed THEN Blocks \union {NoThread} ELSE {succ[c]}
Marked(b) == IF b \in freed THEN BOOLEAN ELSE {b \in detached}

Init ==
  /\ needsLock = FALSE
  /\ lock = NoThread
  /\ succ = [c \in Cells |-> IF c = "threads" THEN Main ELSE NoThread]
  /\ detached = {}
  /\ freed = {}
  /\ pc = [t \in Threads |-> "none"]
  /\ p = [t \in Threads |-> NoThread]
  /\ cur = [t \in Threads |-> NoThread]
  /\ got = [t \in Threads |-> NoThread]
  /\ making = [c \in Blocks |-> NoThread]
  /\ close = [t \in Threads |-> "open"]
  /\ first = [c \in Blocks |-> NoThread]
  /\ twice = {}
  /\ overlapped = FALSE

-----------------------------------------------------------------------------
(* bbThreadCreate, by the main thread or any other that runs. *)

Create(c, t) ==
  /\ c = Main \/ (c \in Threads /\ pc[c] = "running")
  /\ making[c] = NoThread
  /\ t \in Created
  /\ pc[t] = "none"
  /\ making' = [making EXCEPT ![c] = t]
  /\ first' = [first EXCEPT ![c] = IF @ = NoThread THEN t ELSE @]
  /\ Goto(t, "start")
  /\ UNCHANGED <<needsLock, lock, memory, locals, close, overlapped>>

\* Slip: the flag is not set.
CreateReturns_unset(c) ==
  /\ making[c] # NoThread
  /\ making' = [making EXCEPT ![c] = NoThread]
  /\ UNCHANGED <<needsLock, lock, memory, pc, locals, close, history>>

CreateReturns(c) ==
  /\ making[c] # NoThread
  /\ needsLock' = TRUE
  /\ making' = [making EXCEPT ![c] = NoThread]
  /\ UNCHANGED <<lock, memory, pc, locals, close, history>>

\* bbThreadRegister, by the thread itself.
Register(t) ==
  /\ t \in Foreign
  /\ pc[t] = "none"
  /\ Goto(t, "start")
  /\ UNCHANGED <<needsLock, lock, memory, locals, making, close, history>>

-----------------------------------------------------------------------------
(* BB_LOCK and BB_UNLOCK.  The flag is only ever set, so testing it and    *)
(* taking the lock is one step.                                            *)

Enter(t, from, to, list) ==
  /\ pc[t] = from
  /\ IF needsLock
     THEN lock = NoThread /\ lock' = t
     ELSE lock' = lock
  /\ overlapped' = (overlapped \/ AtLists # {})
  /\ p' = [p EXCEPT ![t] = list]
  /\ Goto(t, to)
  /\ UNCHANGED <<needsLock, memory, cur, got, making, close, first>>

\* Slip: a way out without BB_UNLOCK.
Leave_locked(t, from, to) ==
  /\ pc[t] = from
  /\ Goto(t, to)
  /\ UNCHANGED <<needsLock, lock, memory, locals, making, close, history>>

\* An unlock by a thread that does not own the recursive mutex has no effect.
Leave(t, from, to) ==
  /\ pc[t] = from
  /\ lock' = IF needsLock /\ lock = t THEN NoThread ELSE lock
  /\ Goto(t, to)
  /\ UNCHANGED <<needsLock, memory, locals, making, close, history>>

-----------------------------------------------------------------------------
(* addThread. *)

\* t=*p
Flush(t) ==
  /\ pc[t] = "flush"
  /\ \E b \in Link(p[t]) :
       /\ cur' = [cur EXCEPT ![t] = b]
       /\ p' = [p EXCEPT ![t] = IF b = NoThread THEN NoThread ELSE @]
       /\ Goto(t, IF b = NoThread THEN "push" ELSE "dead")
  /\ UNCHANGED <<needsLock, lock, memory, got, making, close, history>>

\* Slip: dead threads are freed whether or not they are detached.
Dead_all(t) ==
  /\ pc[t] = "dead"
  /\ \E b \in Link(cur[t]) : got' = [got EXCEPT ![t] = b]
  /\ Goto(t, "drop")
  /\ UNCHANGED <<needsLock, lock, memory, p, cur, making, close, history>>

\* A mark stays, so testing it and reading the link of a marked block is one step.
Dead(t) ==
  /\ pc[t] = "dead"
  /\ \/ /\ TRUE \in Marked(cur[t])
        /\ \E b \in Link(cur[t]) : got' = [got EXCEPT ![t] = b]
        /\ Goto(t, "drop")
        /\ UNCHANGED <<p, cur>>
     \/ /\ FALSE \in Marked(cur[t])
        /\ p' = [p EXCEPT ![t] = cur[t]]
        /\ cur' = [cur EXCEPT ![t] = NoThread]
        /\ Goto(t, "flush")
        /\ UNCHANGED got
  /\ UNCHANGED <<needsLock, lock, memory, making, close, history>>

Drop(t) ==
  /\ pc[t] = "drop"
  /\ succ' = [succ EXCEPT ![p[t]] = got[t]]
  /\ Free(cur[t])
  /\ cur' = [cur EXCEPT ![t] = NoThread]
  /\ got' = [got EXCEPT ![t] = NoThread]
  /\ Goto(t, "flush")
  /\ UNCHANGED <<needsLock, lock, detached, p, making, close, history>>

Push(t) ==
  /\ pc[t] = "push"
  /\ succ' = [succ EXCEPT ![t] = succ["threads"]]
  /\ Goto(t, "link")
  /\ UNCHANGED <<needsLock, lock, detached, freed, twice, locals, making, close, history>>

Enlist(t) ==
  /\ pc[t] = "link"
  /\ succ' = [succ EXCEPT !["threads"] = t]
  /\ Goto(t, "addUnlock")
  /\ UNCHANGED <<needsLock, lock, detached, freed, twice, locals, making, close, history>>

-----------------------------------------------------------------------------
(* removeThread. *)

\* t=*p; a thread that is not in the list leaves it at that.
Walk(t) ==
  /\ pc[t] = "walk"
  /\ \E b \in Link(p[t]) :
       /\ p' = [p EXCEPT ![t] = IF b = t THEN @ ELSE b]
       /\ Goto(t, CASE b = NoThread -> "removeUnlock"
                    [] b = t -> "unlink"
                    [] OTHER -> "walk")
  /\ UNCHANGED <<needsLock, lock, memory, cur, got, making, close, history>>

\* *p=t->succ
Unlink(t) ==
  /\ pc[t] = "unlink"
  /\ \E b \in Link(t) : got' = [got EXCEPT ![t] = b]
  /\ Goto(t, "cut")
  /\ UNCHANGED <<needsLock, lock, memory, p, cur, making, close, history>>

\* Slip: a thread stays in the list.
Cut_forgotten(t) ==
  /\ pc[t] = "cut"
  /\ Goto(t, "test")
  /\ UNCHANGED <<needsLock, lock, memory, locals, making, close, history>>

Cut(t) ==
  /\ pc[t] = "cut"
  /\ succ' = [succ EXCEPT ![p[t]] = got[t]]
  /\ p' = [p EXCEPT ![t] = NoThread]
  /\ got' = [got EXCEPT ![t] = NoThread]
  /\ Goto(t, "test")
  /\ UNCHANGED <<needsLock, lock, detached, freed, twice, cur, making, close, history>>

Test(t) ==
  /\ pc[t] = "test"
  /\ \/ TRUE \in Marked(t) /\ Free(t) /\ Goto(t, "removeUnlock")
     \/ FALSE \in Marked(t) /\ Goto(t, "bury") /\ UNCHANGED <<freed, twice>>
  /\ UNCHANGED <<needsLock, lock, succ, detached, locals, making, close, history>>

\* t->succ=deadThreads
Bury(t) ==
  /\ pc[t] = "bury"
  /\ got' = [got EXCEPT ![t] = succ["deadThreads"]]
  /\ Goto(t, "chain")
  /\ UNCHANGED <<needsLock, lock, memory, p, cur, making, close, history>>

Chain(t) ==
  /\ pc[t] = "chain"
  /\ succ' = [succ EXCEPT ![t] = got[t]]
  /\ got' = [got EXCEPT ![t] = NoThread]
  /\ Goto(t, "head")
  /\ UNCHANGED <<needsLock, lock, detached, freed, twice, p, cur, making, close, history>>

Head(t) ==
  /\ pc[t] = "head"
  /\ succ' = [succ EXCEPT !["deadThreads"] = t]
  /\ Goto(t, "removeUnlock")
  /\ UNCHANGED <<needsLock, lock, detached, freed, twice, locals, making, close, history>>

-----------------------------------------------------------------------------
(* TThread.Wait and TThread.Detach, one call for each TThread: afterwards  *)
(* its _handle is 0.                                                       *)

\* The handle exists once bbThreadCreate has returned it.
Mark(t, how) ==
  /\ t \in Created
  /\ pc[t] # "none"
  /\ \A c \in Blocks : making[c] # t
  /\ close[t] = "open"
  /\ close' = [close EXCEPT ![t] = how]
  /\ detached' = detached \union {t}
  /\ UNCHANGED <<needsLock, lock, succ, freed, twice, pc, locals, making, history>>

\* Reads thread->handle, for pthread_join or pthread_detach; in a block that has been
\* freed it is any thread's or nobody's.
UseHandle(t) ==
  /\ close[t] \in {"wait", "detach"}
  /\ \E then \in IF t \in freed THEN {"join", "closed"}
                 ELSE {IF close[t] = "wait" THEN "join" ELSE "closed"} :
       close' = [close EXCEPT ![t] = then]
  /\ UNCHANGED <<needsLock, lock, memory, pc, locals, making, history>>

Joined(t) ==
  /\ close[t] = "join"
  /\ pc[t] = "ended"
  /\ close' = [close EXCEPT ![t] = "closed"]
  /\ UNCHANGED <<needsLock, lock, memory, pc, locals, making, history>>

-----------------------------------------------------------------------------
Begin(t) == Enter(t, "start", "flush", "deadThreads")
\* The thread's own function, which runs in between, has returned.
End(t) == making[t] = NoThread /\ Enter(t, "running", "walk", "threads")
Leaves(t) == Leave(t, "addUnlock", "running") \/ Leave(t, "removeUnlock", "ended")
Adds(t) == Flush(t) \/ Dead(t) \/ Drop(t) \/ Push(t) \/ Enlist(t)
Removes(t) ==
  Walk(t) \/ Unlink(t) \/ Cut(t) \/ Test(t) \/ Bury(t) \/ Chain(t) \/ Head(t)
Goes(t) == Begin(t) \/ Adds(t) \/ Removes(t) \/ Leaves(t)
Closes(t) == UseHandle(t) \/ Joined(t)
Marks(t) == \E how \in {"wait", "detach"} : Mark(t, how)

Next ==
  \/ \E c \in Blocks : CreateReturns(c) \/ \E t \in Threads : Create(c, t)
  \/ \E t \in Threads : Register(t) \/ End(t) \/ Goes(t) \/ Marks(t) \/ Closes(t)

\* Threads are created, and their functions end, as the program likes; a thread
\* inside the runtime goes on.
Fairness ==
  /\ \A c \in Blocks : WF_vars(CreateReturns(c))
  /\ \A t \in Threads : WF_vars(Goes(t)) /\ WF_vars(Closes(t))

SafeSpec == Init /\ [][Next]_vars
Spec == SafeSpec /\ Fairness

-----------------------------------------------------------------------------
TypeOK ==
  /\ needsLock \in BOOLEAN
  /\ lock \in Threads \union {NoThread}
  /\ succ \in [Cells -> Blocks \union {NoThread}]
  /\ detached \subseteq Created
  /\ freed \subseteq Blocks /\ twice \subseteq freed
  /\ pc \in [Threads -> Inside \union {"none", "start", "running", "ended"}]
  /\ p \in [Threads -> Cells \union {NoThread}]
  /\ cur \in [Threads -> Blocks \union {NoThread}]
  /\ got \in [Threads -> Blocks \union {NoThread}]
  /\ making \in [Blocks -> Created \union {NoThread}]
  /\ close \in [Threads -> {"open", "wait", "detach", "join", "closed"}]
  /\ first \in [Blocks -> Created \union {NoThread}]
  /\ overlapped \in BOOLEAN
  /\ \A t \in Threads :
       /\ lock = t => pc[t] \in Inside
       /\ pc[t] \in {"flush", "dead", "drop", "walk", "unlink", "cut"} <=> p[t] # NoThread
       /\ pc[t] \in {"dead", "drop"} <=> cur[t] # NoThread

\* The blocks that the links f lead to from l: those that are in every set in which l's
\* link is, and the link of every member.
Into(f, c, S) == f[c] \in S \union {NoThread}
Closed(f, S) == \A c \in S : Into(f, c, S)
Leads(f, l) == {b \in Blocks : \A S \in SUBSET Blocks : Into(f, l, S) /\ Closed(f, S) => b \in S}

\* The stages of a thread between the two list operations, and after them.
Listed == {t \in Threads : pc[t] \in {"addUnlock", "running", "walk", "unlink", "cut"}}
Left == {t \in Threads : pc[t] \in {"removeUnlock", "ended"}}

(***************************************************************************)
(* The lock covers the lists, but for the start (BB_LOCK, blitz_thread.h): *)
(* of the threads that the program creates only the first one of each      *)
(* caller can be at them without it, as a caller sets the flag before its  *)
(* bbThreadCreate returns; those that register themselves can be, until a  *)
(* thread is created.                                                      *)
(***************************************************************************)
OnlyFirstsUnlocked ==
  \A t \in AtLists : Locked(t) \/ t \in Foreign \/ \E c \in Blocks : t = first[c]

(***************************************************************************)
(* Unless two threads have been at the lists at once, `threads` leads to   *)
(* exactly the threads that are registered and the main thread, and        *)
(* deadThreads to those that have left and have not been freed; no block   *)
(* is freed twice (addThread, removeThread).                               *)
(***************************************************************************)
ListsExact ==
  ~overlapped =>
    /\ Leads(succ, "threads") = Listed \union {Main}
    /\ Leads(succ, "deadThreads") = Left \ freed
    /\ twice = {}

(***************************************************************************)
(* Unless two threads have been at the lists at once, no block is freed    *)
(* before its thread has taken itself out of the list and somebody waits   *)
(* for it or has detached it, and nobody who walks along a list is at a    *)
(* block that has been freed (flushDeadThreads, removeThread).             *)
(***************************************************************************)
FreedLate ==
  ~overlapped =>
    /\ freed \subseteq detached \intersect Left
    /\ \A t \in AtLists : p[t] \notin freed /\ cur[t] \notin freed

(***************************************************************************)
(* A thread that has been created gets to its function unless two threads  *)
(* are at the lists at once: nobody keeps the lock, although BB_UNLOCK     *)
(* tests the flag again and may find it set when BB_LOCK did not, and no   *)
(* walk along a list goes on for ever.                                     *)
(***************************************************************************)
GetsToRun == \A t \in Created : pc[t] = "start" ~> pc[t] = "running" \/ overlapped

(***************************************************************************)
(* DetachThread (threads.bmx) does not affect the target thread: its block *)
(* is not freed while its function runs.                                   *)
(***************************************************************************)
RunningKeepsBlock == \A t \in Created : pc[t] = "running" => t \notin freed
=============================================================================
