---------------------------- MODULE SchedulerProofs ----------------------------
(***************************************************************************)
(* Proofs about Scheduler, for any operations, sockets and threads.        *)
(***************************************************************************)
EXTENDS Scheduler, SequenceTheorems, FiniteSetTheorems, TLAPS

-----------------------------------------------------------------------------
(* The inductive invariant.                                                *)

Items  == Ops \cup Descriptors \cup {Task}
Places == {"idle", "start", "lock", "wait", "woken", "task", "cleanup", "handler",
           "finish", "stop", "returned"}

TypeOK ==
  /\ queue \in Seq(Items)
  /\ stopped \in BOOLEAN /\ hasTask \in BOOLEAN /\ interrupted \in BOOLEAN
  /\ signalled \in BOOLEAN /\ wakeup \in BOOLEAN
  /\ pc \in [Threads -> Places]
  /\ \A r \in Runners : pc[r] # "idle"
  /\ \A t \in Others : pc[t] \in {"idle", "stop"}
  /\ item \in [Runners -> Ops \cup Descriptors \cup {NoOp}]
  /\ blocks \subseteq Runners
  /\ private \in [Runners -> Seq(Ops \cup Descriptors)]
  /\ posting \in [Threads -> Ops \cup {NoOp}]
  /\ owes \subseteq Threads
  /\ armed \in [Descriptors -> Ops \cup {NoOp}]
  /\ edge \subseteq Descriptors /\ IsFiniteSet(edge)

(* The task is in one place: set, and in the queue or with one runner.     *)
(* Behind it in the queue, and when it runs in all of the queue, there are *)
(* operations only: a descriptor is queued by the task that comes after it.*)
OnePoller == \A r, o \in Polling : r = o
Fits(q, polling) ==
  /\ polling # {} => hasTask /\ \A i \in 1 .. Len(q) : q[i] \in Ops
  /\ \A i \in 1 .. Len(q) : q[i] = Task =>
       hasTask /\ \A j \in i + 1 .. Len(q) : q[j] \in Ops
TaskQueued == Fits(queue, Polling)

(* Only what the task returned brings descriptors from a private queue.    *)
Kept ==
  \A r \in Runners : pc[r] # "cleanup" =>
    \A i \in 1 .. Len(private[r]) : private[r][i] \in Ops

(* An interrupted task has an event that ends its epoll_wait.              *)
Interrupts == \A r \in blocks : pc[r] = "task" /\ (interrupted => wakeup)

(* A thread that finds the event unsignalled has nothing to do.            *)
Signalled == queue # <<>> \/ stopped => signalled

(* Only a handler leaves a runner with an operation to queue.              *)
Posting == \A r \in Runners : posting[r] # NoOp => pc[r] = "handler"

(* While the task is blocked, something is queued and nothing interrupts   *)
(* it, a runner comes to the queue or a waiter is about to be signalled.   *)
OnTheWay == {"start", "lock", "woken", "cleanup", "stop", "finish"}
Coming   == {r \in Runners : pc[r] \in OnTheWay}
PollerCovered ==
  ~stopped /\ queue # <<>> /\ (\E r \in Runners : pc[r] = "task" /\ Blocked(r)) =>
    Coming # {} \/ (owes # {} /\ \E r \in Runners : pc[r] = "wait")

IInv == /\ TypeOK /\ OnePoller /\ TaskQueued /\ Kept /\ Posting
        /\ Interrupts /\ Signalled /\ PollerCovered /\ NoLostWakeup
-----------------------------------------------------------------------------
(* Queues.                                                                 *)

(* The first in the queue, and the rest.                                   *)
LEMMA Pop ==
  ASSUME NEW S, NEW q \in Seq(S), q # <<>>
  PROVE  /\ Len(q) \in Nat /\ Len(q) >= 1 /\ Head(q) = q[1] /\ q[1] \in S
         /\ Tail(q) \in Seq(S) /\ Len(Tail(q)) = Len(q) - 1
         /\ \A i \in 1 .. Len(q) - 1 : Tail(q)[i] = q[i + 1]
         /\ Tail(q) # <<>> <=> Len(q) > 1
<1>1. Len(q) \in Nat /\ Len(q) >= 1
  BY EmptySeq
<1>2. /\ Tail(q) \in Seq(S) /\ Len(Tail(q)) = Len(q) - 1
      /\ \A i \in 1 .. Len(Tail(q)) : Tail(q)[i] = q[i + 1]
  BY HeadTailProperties
<1>3. Tail(q) # <<>> <=> Len(q) > 1
  <2> DEFINE t == Tail(q)
  <2>1. t \in Seq(S) /\ Len(t) = Len(q) - 1
    BY <1>2
  <2> HIDE DEF t
  <2>2. t # <<>> <=> Len(t) # 0
    BY <2>1, EmptySeq
  <2>3. t # <<>> <=> Len(q) > 1
    BY <1>1, <2>1, <2>2
  <2> QED  BY <2>3 DEF t
<1>4. 1 \in 1 .. Len(q)
  BY <1>1
<1>5. q[1] \in S
  BY <1>4, ElementOfSeq
<1>6. Head(q) = q[1]
  OBVIOUS
<1> QED  BY <1>1, <1>2, <1>3, <1>5, <1>6

(* A queue that fits still does with operations behind it.                 *)
LEMMA FitsAppend ==
  ASSUME NEW q \in Seq(Items), NEW s \in Seq(Items), NEW polling, Fits(q, polling),
         \A i \in 1 .. Len(s) : s[i] \in Ops
  PROVE  q \o s \in Seq(Items) /\ Fits(q \o s, polling)
<1>1. /\ q \o s \in Seq(Items) /\ Len(q \o s) = Len(q) + Len(s)
      /\ \A i \in 1 .. Len(q) + Len(s) :
           (q \o s)[i] = IF i <= Len(q) THEN q[i] ELSE s[i - Len(q)]
  BY ConcatProperties
<1>2. Len(q) \in Nat /\ Len(s) \in Nat
  BY LenProperties
<1>3. ASSUME NEW i \in 1 .. Len(q) + Len(s), i > Len(q)
      PROVE  (q \o s)[i] \in Ops
  <2>1. i - Len(q) \in 1 .. Len(s) /\ ~(i <= Len(q))
    BY <1>2, <1>3
  <2> QED  BY <1>1, <2>1
<1>4. \A i \in 1 .. Len(q) : i \in 1 .. Len(q) + Len(s) /\ (q \o s)[i] = q[i]
  BY <1>1, <1>2
<1>5. polling # {} => hasTask /\ \A i \in 1 .. Len(q \o s) : (q \o s)[i] \in Ops
  BY <1>1, <1>2, <1>3, <1>4 DEF Fits
<1>6. ASSUME NEW i \in 1 .. Len(q \o s), (q \o s)[i] = Task
      PROVE  hasTask /\ \A j \in i + 1 .. Len(q \o s) : (q \o s)[j] \in Ops
  <2>1. i \in 1 .. Len(q) /\ q[i] = Task
    BY <1>1, <1>2, <1>3, <1>4, <1>6, SchedulerAssumption
  <2>2. hasTask /\ \A j \in i + 1 .. Len(q) : q[j] \in Ops
    BY <2>1 DEF Fits
  <2>3. \A j \in i + 1 .. Len(q \o s) : j \in i + 1 .. Len(q) \/ j > Len(q)
    BY <1>1, <1>2
  <2>4. \A j \in i + 1 .. Len(q) : j \in 1 .. Len(q)
    BY <1>2, <2>1
  <2>5. \A j \in i + 1 .. Len(q \o s) : j \in 1 .. Len(q) + Len(s)
    BY <1>1, <1>2
  <2> QED  BY <1>3, <1>4, <2>2, <2>3, <2>4, <2>5
<1> QED  BY <1>1, <1>5, <1>6 DEF Fits

(* Nor does what it leaves behind when its first is taken stop to fit.     *)
LEMMA FitsTail ==
  ASSUME NEW q \in Seq(Items), NEW polling, Fits(q, polling), q # <<>>
  PROVE  /\ Fits(Tail(q), polling)
         /\ Head(q) = Task => polling = {} /\ hasTask /\ \A i \in 1 .. Len(Tail(q)) : Tail(q)[i] \in Ops
<1>1. /\ Len(q) \in Nat /\ Len(q) >= 1 /\ Head(q) = q[1]
      /\ Len(Tail(q)) = Len(q) - 1
      /\ \A i \in 1 .. Len(q) - 1 : Tail(q)[i] = q[i + 1]
  BY Pop
<1>2. \A i \in 1 .. Len(q) - 1 : i + 1 \in 1 .. Len(q)
  BY <1>1
<1>3. polling # {} => \A i \in 1 .. Len(Tail(q)) : Tail(q)[i] \in Ops
  BY <1>1, <1>2 DEF Fits
<1>4. ASSUME NEW i \in 1 .. Len(Tail(q)), Tail(q)[i] = Task
      PROVE  hasTask /\ \A j \in i + 1 .. Len(Tail(q)) : Tail(q)[j] \in Ops
  <2>1. i + 1 \in 1 .. Len(q) /\ q[i + 1] = Task
    BY <1>1, <1>4
  <2>2. hasTask /\ \A j \in i + 1 + 1 .. Len(q) : q[j] \in Ops
    BY <2>1 DEF Fits
  <2>3. \A j \in i + 1 .. Len(Tail(q)) : /\ j \in 1 .. Len(q) - 1
                                         /\ j + 1 \in i + 1 + 1 .. Len(q)
    BY <1>1
  <2> QED  BY <1>1, <2>2, <2>3
<1>5. ASSUME Head(q) = Task
      PROVE  polling = {} /\ hasTask /\ \A i \in 1 .. Len(Tail(q)) : Tail(q)[i] \in Ops
  <2>1. 1 \in 1 .. Len(q) /\ q[1] = Task
    BY <1>1, <1>5
  <2>2. hasTask /\ \A j \in 2 .. Len(q) : q[j] \in Ops
    BY <2>1 DEF Fits
  <2>3. polling = {}
    BY <2>1, SchedulerAssumption DEF Fits
  <2>4. \A i \in 1 .. Len(Tail(q)) : i \in 1 .. Len(q) - 1 /\ i + 1 \in 2 .. Len(q)
    BY <1>1
  <2> QED  BY <1>1, <2>2, <2>3, <2>4
<1> QED  BY <1>3, <1>4, <1>5 DEF Fits

(* With no descriptor and no task in it, a queue fits with anything that   *)
(* is not the task, and the task, behind it.                               *)
TaskLast(q) == \A i \in 1 .. Len(q) : q[i] = Task => i = Len(q)
LEMMA TaskBehind ==
  ASSUME NEW q \in Seq(Items), NEW s \in Seq(Ops \cup Descriptors),
         \A i \in 1 .. Len(q) : q[i] # Task
  PROVE  q \o s \o <<Task>> \in Seq(Items) /\ TaskLast(q \o s \o <<Task>>)
<1> DEFINE p == q \o s
           a == p \o <<Task>>
<1>1. s \in Seq(Items) /\ <<Task>> \in Seq(Items) /\ Len(<<Task>>) = 1
  BY SeqMonotonic DEF Items
<1>2. /\ p \in Seq(Items) /\ Len(p) = Len(q) + Len(s)
      /\ \A i \in 1 .. Len(q) + Len(s) :
           p[i] = IF i <= Len(q) THEN q[i] ELSE s[i - Len(q)]
  BY <1>1, ConcatProperties
<1>3. Len(q) \in Nat /\ Len(s) \in Nat /\ Len(p) \in Nat
  BY <1>2, LenProperties
<1>4. \A i \in 1 .. Len(p) : p[i] # Task
  <2> TAKE i \in 1 .. Len(p)
  <2>1. CASE i <= Len(q)
    BY <1>2, <1>3, <2>1
  <2>2. CASE i > Len(q)
    <3>1. i - Len(q) \in 1 .. Len(s) /\ ~(i <= Len(q)) /\ i \in 1 .. Len(q) + Len(s)
      BY <1>2, <1>3, <2>2
    <3>2. s[i - Len(q)] \in Ops \cup Descriptors
      BY <3>1, ElementOfSeq
    <3> QED  BY <1>2, <3>1, <3>2, SchedulerAssumption
  <2>3. i <= Len(q) \/ i > Len(q)
    BY <1>2, <1>3
  <2> QED  BY <2>1, <2>2, <2>3
<1> HIDE DEF p
<1>5. /\ a \in Seq(Items) /\ Len(a) = Len(p) + 1
      /\ \A i \in 1 .. Len(p) + 1 :
           a[i] = IF i <= Len(p) THEN p[i] ELSE <<Task>>[i - Len(p)]
  BY <1>1, <1>2, ConcatProperties
<1> HIDE DEF a
<1>6. \A i \in 1 .. Len(a) : a[i] = Task => i = Len(a)
  BY <1>3, <1>4, <1>5
<1> QED  BY <1>5, <1>6 DEF a, p, TaskLast

(* And it may be there while nobody runs the task.                         *)
LEMMA FitsTask ==
  ASSUME NEW q \in Seq(Items), TaskLast(q), hasTask
  PROVE  Fits(q, {})
<1>1. Len(q) \in Nat
  BY LenProperties
<1>2. \A i \in 1 .. Len(q) : i = Len(q) => \A j \in i + 1 .. Len(q) : FALSE
  BY <1>1
<1> QED  BY <1>2 DEF Fits, TaskLast

(* The orders in which the descriptors with an event can be returned.      *)
LEMMA Returned ==
  ASSUME IsFiniteSet(edge), NEW ops \in SetToSeqs(edge)
  PROVE  ops \in Seq(edge)
<1>1. Cardinality(edge) \in Nat
  BY FS_CardinalityType
<1>2. ops \in [1 .. Cardinality(edge) -> edge]
  BY DEF SetToSeqs
<1> QED  BY <1>1, <1>2
-----------------------------------------------------------------------------
(* Waking a thread.                                                        *)

(* Either a waiter is to be signalled, or the task is interrupted.         *)
Wakes(t, ti) ==
  /\ signalled' = TRUE
  /\ interrupted' \in BOOLEAN /\ wakeup' \in BOOLEAN
  /\ \/ /\ Waiters \ {t} # {} /\ owes' = owes \cup {t}
        /\ interrupted' = ti /\ wakeup' = wakeup
     \/ /\ Waiters \ {t} = {} /\ owes' = owes
        /\ interrupted' <=> (ti \/ hasTask')
        /\ wakeup' <=> (wakeup \/ (~ti /\ hasTask'))
LEMMA WakeOneCases ==
  ASSUME NEW t, NEW ti \in BOOLEAN, hasTask' \in BOOLEAN, wakeup \in BOOLEAN,
         WakeOne(t, ti)
  PROVE  Wakes(t, ti)
<1>1. CASE Waiters \ {t} # {}
  BY <1>1 DEF WakeOne, Wakes
<1>2. CASE Waiters \ {t} = {}
  <2>1. /\ interrupted' = (ti \/ hasTask') /\ wakeup' = (wakeup \/ (~ti /\ hasTask'))
        /\ owes' = owes /\ signalled' = TRUE
    BY <1>2 DEF WakeOne
  <2>2. interrupted' \in BOOLEAN /\ wakeup' \in BOOLEAN
    BY <2>1, Zenon
  <2>3. interrupted' <=> (ti \/ hasTask')
    BY <2>1, Zenon
  <2>4. wakeup' <=> (wakeup \/ (~ti /\ hasTask'))
    BY <2>1, Zenon
  <2> QED  BY <1>2, <2>1, <2>2, <2>3, <2>4 DEF Wakes
<1> QED  BY <1>1, <1>2

(* A thread goes from one place to another.                                *)
LEMMA GoEffect ==
  ASSUME TypeOK, NEW t \in Threads, NEW to \in Places, Go(t, to),
         t \in Runners => to # "idle", t \in Others => to \in {"idle", "stop"}
  PROVE  /\ pc' \in [Threads -> Places]
         /\ \A r \in Runners : pc'[r] # "idle"
         /\ \A u \in Others : pc'[u] \in {"idle", "stop"}
         /\ pc'[t] = to /\ \A u \in Threads : u # t => pc'[u] = pc[u]
BY DEF TypeOK, Go, Threads

(* The four ways a turn can go.                                            *)
TurnReturns(r, q, ti) ==
  /\ stopped /\ Go(r, "returned")
  /\ queue' = q /\ interrupted' = ti
  /\ UNCHANGED <<signalled, wakeup, item, blocks, owes>>
TurnWaits(r, q, ti) ==
  /\ ~stopped /\ Go(r, "wait")
  /\ q = <<>> /\ queue' = q /\ interrupted' = ti /\ signalled' = FALSE
  /\ UNCHANGED <<wakeup, item, blocks, owes>>
TurnTakesTask(r, q) ==
  /\ ~stopped /\ Go(r, "task")
  /\ q # <<>> /\ Head(q) = Task /\ queue' = Tail(q)
  /\ \/ /\ Len(q) > 1
        /\ interrupted' = TRUE /\ signalled' = TRUE /\ blocks' = blocks
        /\ owes' = IF Waiters \ {r} # {} THEN owes \cup {r} ELSE owes
     \/ /\ ~(Len(q) > 1)
        /\ ~interrupted' /\ interrupted' \in BOOLEAN /\ signalled' \in BOOLEAN
        /\ blocks' = blocks \cup {r} /\ owes' = owes
  /\ UNCHANGED <<wakeup, item>>
TurnHandles(r, q, ti) ==
  /\ ~stopped /\ Go(r, "handler")
  /\ q # <<>> /\ Head(q) # Task /\ queue' = Tail(q)
  /\ item' = [item EXCEPT ![r] = Head(q)]
  /\ \/ Len(q) > 1 /\ WakeOne(r, ti)
     \/ ~(Len(q) > 1) /\ interrupted' = ti /\ UNCHANGED <<signalled, owes, wakeup>>
  /\ UNCHANGED blocks
LEMMA TurnCases ==
  ASSUME TypeOK, NEW r, NEW q, NEW ti, Turn(r, q, ti)
  PROVE  /\ UNCHANGED <<stopped, hasTask>>
         /\ \/ TurnReturns(r, q, ti) \/ TurnWaits(r, q, ti)
            \/ TurnTakesTask(r, q) \/ TurnHandles(r, q, ti)
<1>1. UNCHANGED <<stopped, hasTask>>
  BY DEF Turn
<1>2. CASE /\ stopped
           /\ Go(r, "returned") /\ queue' = q /\ interrupted' = ti
           /\ UNCHANGED <<signalled, wakeup, item, blocks, owes>>
  BY <1>1, <1>2 DEF TurnReturns
<1>3. CASE /\ ~stopped /\ q = <<>>
           /\ Go(r, "wait") /\ queue' = q /\ interrupted' = ti /\ signalled' = FALSE
           /\ UNCHANGED <<wakeup, item, blocks, owes>>
  BY <1>1, <1>3 DEF TurnWaits
<1>4. CASE /\ ~stopped /\ q # <<>> /\ Head(q) = Task
           /\ LET more == Len(q) > 1
              IN  /\ interrupted' = more
                  /\ signalled' = (signalled \/ more)
                  /\ owes' = IF more /\ Waiters \ {r} # {} THEN owes \cup {r} ELSE owes
                  /\ blocks' = IF more THEN blocks ELSE blocks \cup {r}
           /\ Go(r, "task") /\ queue' = Tail(q)
           /\ UNCHANGED <<wakeup, item>>
  <2>1. CASE Len(q) > 1
    <3>1. interrupted' = TRUE /\ signalled' = TRUE
      BY <1>4, <2>1, Zenon
    <3> QED  BY <1>1, <1>4, <2>1, <3>1 DEF TurnTakesTask
  <2>2. CASE ~(Len(q) > 1)
    <3>1. ~interrupted'
      BY <1>4, <2>2, Zenon
    <3>2. interrupted' \in BOOLEAN
      <4>1. interrupted' = (Len(q) > 1)
        BY <1>4
      <4>2. (Len(q) > 1) \in BOOLEAN
        BY SMT
      <4> QED  BY <4>1, <4>2
    <3>3. signalled' \in BOOLEAN
      BY <1>4, Zenon
    <3> QED  BY <1>1, <1>4, <2>2, <3>1, <3>2, <3>3 DEF TurnTakesTask
  <2> QED  BY <2>1, <2>2
<1>5. CASE /\ ~stopped /\ q # <<>> /\ Head(q) # Task
           /\ Go(r, "handler") /\ queue' = Tail(q)
           /\ item' = [item EXCEPT ![r] = Head(q)]
           /\ IF Len(q) > 1 THEN WakeOne(r, ti)
              ELSE interrupted' = ti /\ UNCHANGED <<signalled, owes, wakeup>>
           /\ UNCHANGED blocks
  BY <1>1, <1>5 DEF TurnHandles
<1> QED  BY <1>1, <1>2, <1>3, <1>4, <1>5, Zenon DEF Turn

(* It takes only the runner itself elsewhere.                              *)
LEMMA TurnElsewhere ==
  ASSUME TypeOK, NEW r \in Runners, NEW q, NEW ti, Turn(r, q, ti)
  PROVE  \A o \in Runners : o # r => pc'[o] = pc[o]
<1>1. PICK to : Go(r, to)
  <2>1. CASE TurnReturns(r, q, ti)
    BY <2>1 DEF TurnReturns
  <2>2. CASE TurnWaits(r, q, ti)
    BY <2>2 DEF TurnWaits
  <2>3. CASE TurnTakesTask(r, q)
    BY <2>3 DEF TurnTakesTask
  <2>4. CASE TurnHandles(r, q, ti)
    BY <2>4 DEF TurnHandles
  <2> QED  BY <2>1, <2>2, <2>3, <2>4, TurnCases
<1> QED  BY <1>1 DEF Go, TypeOK, Threads

(* A turn's types.                                                         *)
LEMMA TurnType ==
  ASSUME TypeOK, NEW r \in Runners, NEW q \in Seq(Items), NEW ti \in BOOLEAN,
         Turn(r, q, ti), private' \in [Runners -> Seq(Ops \cup Descriptors)],
         UNCHANGED <<posting, armed, edge>>
  PROVE  TypeOK'
<1>1. r \in Threads /\ r \notin Others
  BY SchedulerAssumption DEF Threads
<1>2. stopped' \in BOOLEAN /\ hasTask' \in BOOLEAN
  BY TurnCases DEF TypeOK
<1>3. CASE TurnReturns(r, q, ti)
  <2>1. Go(r, "returned")
    BY <1>3 DEF TurnReturns
  <2>2. /\ pc' \in [Threads -> Places] /\ \A o \in Runners : pc'[o] # "idle"
        /\ \A u \in Others : pc'[u] \in {"idle", "stop"}
    BY <1>1, <2>1, GoEffect DEF Places
  <2> QED  BY <1>2, <1>3, <2>2 DEF TurnReturns, TypeOK
<1>4. CASE TurnWaits(r, q, ti)
  <2>1. Go(r, "wait")
    BY <1>4 DEF TurnWaits
  <2>2. /\ pc' \in [Threads -> Places] /\ \A o \in Runners : pc'[o] # "idle"
        /\ \A u \in Others : pc'[u] \in {"idle", "stop"}
    BY <1>1, <2>1, GoEffect DEF Places
  <2> QED  BY <1>2, <1>4, <2>2 DEF TurnWaits, TypeOK
<1>5. CASE TurnTakesTask(r, q)
  <2>1. Go(r, "task") /\ q # <<>> /\ queue' = Tail(q) /\ UNCHANGED <<wakeup, item>>
    BY <1>5 DEF TurnTakesTask
  <2>2. /\ pc' \in [Threads -> Places] /\ \A o \in Runners : pc'[o] # "idle"
        /\ \A u \in Others : pc'[u] \in {"idle", "stop"}
    BY <1>1, <2>1, GoEffect DEF Places
  <2>3. queue' \in Seq(Items)
    BY <2>1, Pop
  <2>4. /\ interrupted' \in BOOLEAN /\ signalled' \in BOOLEAN
        /\ blocks' \subseteq Runners /\ owes' \subseteq Threads
    BY <1>1, <1>5 DEF TurnTakesTask, TypeOK
  <2> QED  BY <1>2, <2>1, <2>2, <2>3, <2>4 DEF TypeOK
<1>6. CASE TurnHandles(r, q, ti)
  <2>1. /\ Go(r, "handler") /\ q # <<>> /\ queue' = Tail(q) /\ UNCHANGED blocks
        /\ Head(q) # Task /\ item' = [item EXCEPT ![r] = Head(q)]
    BY <1>6 DEF TurnHandles
  <2>2. /\ pc' \in [Threads -> Places] /\ \A o \in Runners : pc'[o] # "idle"
        /\ \A u \in Others : pc'[u] \in {"idle", "stop"}
    BY <1>1, <2>1, GoEffect DEF Places
  <2>3. queue' \in Seq(Items) /\ Head(q) \in Items
    BY <2>1, Pop
  <2>4. item' \in [Runners -> Ops \cup Descriptors \cup {NoOp}]
    BY <2>1, <2>3 DEF Items, TypeOK
  <2>5. /\ interrupted' \in BOOLEAN /\ signalled' \in BOOLEAN /\ wakeup' \in BOOLEAN
        /\ owes' \subseteq Threads
    <3>1. CASE Len(q) > 1 /\ WakeOne(r, ti)
      <4>1. wakeup \in BOOLEAN /\ owes \subseteq Threads
        BY DEF TypeOK
      <4>2. Wakes(r, ti)
        BY <1>2, <3>1, <4>1, WakeOneCases, Zenon
      <4> QED  BY <1>1, <4>1, <4>2 DEF Wakes
    <3>2. CASE interrupted' = ti /\ UNCHANGED <<signalled, owes, wakeup>>
      BY <3>2 DEF TypeOK
    <3> QED  BY <1>6, <3>1, <3>2 DEF TurnHandles
  <2> QED  BY <1>2, <2>1, <2>2, <2>3, <2>4, <2>5 DEF TypeOK
<1> QED  BY <1>3, <1>4, <1>5, <1>6, TurnCases

(* A turn that takes the task leaves operations only behind it.            *)
LEMMA TurnQueue ==
  ASSUME TypeOK, OnePoller, NEW r \in Runners, NEW q \in Seq(Items), NEW ti,
         Turn(r, q, ti), Fits(q, Polling \ {r})
  PROVE  OnePoller' /\ TaskQueued' /\ pc'[r] # "cleanup"
<1>1. r \in Threads
  BY DEF Threads
<1>2. hasTask' = hasTask
  BY TurnCases
<1>3. \A o \in Runners : o # r => pc'[o] = pc[o]
  BY TurnElsewhere
<1>4. CASE TurnTakesTask(r, q)
  <2>1. q # <<>> /\ Head(q) = Task /\ queue' = Tail(q) /\ pc'[r] = "task"
    BY <1>1, <1>4 DEF TurnTakesTask, Go, TypeOK
  <2>2. Polling \ {r} = {} /\ hasTask /\ \A i \in 1 .. Len(Tail(q)) : Tail(q)[i] \in Ops
    BY <2>1, FitsTail
  <2>3. Polling' = {r}
    BY <1>3, <2>1, <2>2 DEF Polling
  <2>4. Fits(Tail(q), {r})'
    BY <1>2, <2>1, <2>2, SchedulerAssumption DEF Fits
  <2> QED  BY <2>1, <2>3, <2>4 DEF OnePoller, TaskQueued, Fits
<1>5. CASE TurnReturns(r, q, ti) \/ TurnWaits(r, q, ti) \/ TurnHandles(r, q, ti)
  <2>1. pc'[r] \in {"returned", "wait", "handler"}
    BY <1>1, <1>5 DEF TurnReturns, TurnWaits, TurnHandles, Go, TypeOK
  <2>2. Polling' = Polling \ {r}
    BY <1>3, <2>1 DEF Polling
  <2>3. queue' = q \/ (q # <<>> /\ queue' = Tail(q))
    BY <1>5 DEF TurnReturns, TurnWaits, TurnHandles
  <2>4. Fits(queue', Polling \ {r})
    BY <2>3, FitsTail
  <2> QED  BY <1>2, <2>1, <2>2, <2>4 DEF OnePoller, TaskQueued, Fits
<1> QED  BY <1>4, <1>5, TurnCases

(* A turn either leaves the queue empty, or signals, interrupts or goes on.*)
LEMMA TurnWakes ==
  ASSUME IInv, NEW r \in Runners, pc[r] \in {"lock", "woken", "cleanup"},
         NEW q \in Seq(Items), NEW ti \in BOOLEAN, Turn(r, q, ti),
         Fits(q, Polling \ {r}), ti = interrupted \/ pc[r] = "cleanup",
         UNCHANGED edge
  PROVE  Interrupts' /\ Signalled' /\ PollerCovered' /\ NoLostWakeup'
<1>0. /\ TypeOK /\ OnePoller /\ Interrupts /\ Signalled /\ r \in Threads
      /\ r \notin blocks
  BY DEF IInv, Threads, Interrupts
<1>1. /\ UNCHANGED <<stopped, hasTask>>
      /\ \A o \in Runners : o # r => pc'[o] = pc[o]
  BY <1>0, TurnCases, TurnElsewhere
<1>2. \A o \in blocks : ti => wakeup
  <2> SUFFICES ASSUME NEW o \in blocks, ti
               PROVE  wakeup
    OBVIOUS
  <2>1. o \in Runners /\ pc[o] = "task" /\ o # r
    BY <1>0 DEF Interrupts, TypeOK
  <2>2. pc[r] # "cleanup"
    BY <1>0, <2>1 DEF OnePoller, Polling
  <2> QED  BY <1>0, <2>2 DEF Interrupts
<1>3. CASE TurnReturns(r, q, ti)
  <2>1. /\ stopped' /\ interrupted' = ti /\ UNCHANGED <<signalled, wakeup, blocks>>
    BY <1>1, <1>3 DEF TurnReturns
  <2>2. Interrupts'
    BY <1>0, <1>1, <1>2, <2>1 DEF Interrupts, TypeOK
  <2>3. Signalled'
    BY <1>0, <1>1, <2>1 DEF Signalled
  <2> QED  BY <2>1, <2>2, <2>3 DEF PollerCovered, NoLostWakeup
<1>4. CASE TurnWaits(r, q, ti)
  <2>1. /\ ~stopped' /\ queue' = <<>> /\ interrupted' = ti
        /\ UNCHANGED <<wakeup, blocks>>
    BY <1>1, <1>4 DEF TurnWaits
  <2>2. Interrupts'
    BY <1>0, <1>1, <1>2, <2>1 DEF Interrupts, TypeOK
  <2> QED  BY <2>1, <2>2 DEF Signalled, PollerCovered, NoLostWakeup
<1>5. CASE TurnTakesTask(r, q)
  <2>1. /\ ~stopped' /\ q # <<>> /\ Head(q) = Task /\ queue' = Tail(q)
        /\ pc'[r] = "task" /\ wakeup' = wakeup
    BY <1>0, <1>1, <1>5 DEF TurnTakesTask, Go, TypeOK
  <2>2. Polling \ {r} = {} /\ blocks = {}
    <3>1. Polling \ {r} = {}
      BY <2>1, FitsTail
    <3>2. \A o \in blocks : o \in Polling \ {r}
      BY <1>0 DEF Interrupts, Polling, TypeOK
    <3> QED  BY <3>1, <3>2
  <2>3. queue' # <<>> <=> Len(q) > 1
    BY <2>1, Pop
  <2>4. CASE /\ Len(q) > 1
             /\ interrupted' = TRUE /\ signalled' = TRUE /\ blocks' = blocks
    <3>1. r \in Runners /\ pc'[r] = "task" /\ r \notin blocks'
      BY <2>1, <2>2, <2>4
    <3>2. Interrupts' /\ Signalled'
      BY <2>2, <2>4 DEF Interrupts, Signalled
    <3>3. \A o \in Runners : pc'[o] = "task" => o = r
      BY <1>1, <2>2 DEF Polling
    <3>4. PollerCovered'
      BY <3>1, <3>3 DEF PollerCovered, Blocked
    <3>5. NoLostWakeup'
      BY <3>1 DEF NoLostWakeup, Blocked
    <3> QED  BY <3>2, <3>4, <3>5
  <2>5. CASE ~(Len(q) > 1) /\ ~interrupted' /\ blocks' = blocks \cup {r}
    <3>1. queue' = <<>> /\ Interrupts' /\ Signalled'
      BY <2>1, <2>2, <2>3, <2>5 DEF Interrupts, Signalled
    <3> QED  BY <3>1 DEF PollerCovered, NoLostWakeup
  <2> QED  BY <1>5, <2>4, <2>5 DEF TurnTakesTask
<1>6. CASE TurnHandles(r, q, ti)
  <2>1. /\ ~stopped' /\ q # <<>> /\ Head(q) # Task /\ queue' = Tail(q)
        /\ pc'[r] = "handler" /\ blocks' = blocks
    BY <1>0, <1>1, <1>6 DEF TurnHandles, Go, TypeOK
  <2>2. queue' # <<>> <=> Len(q) > 1
    BY <2>1, Pop
  <2>3. CASE ~(Len(q) > 1) /\ interrupted' = ti /\ UNCHANGED <<signalled, owes, wakeup>>
    <3>1. queue' = <<>>
      BY <2>2, <2>3
    <3>2. Interrupts'
      BY <1>0, <1>1, <1>2, <2>1, <2>3 DEF Interrupts, TypeOK
    <3> QED  BY <2>1, <3>1, <3>2 DEF Signalled, PollerCovered, NoLostWakeup
  <2>4. CASE Len(q) > 1 /\ WakeOne(r, ti)
    <3>1. hasTask' \in BOOLEAN /\ wakeup \in BOOLEAN
      BY <1>0, <1>1 DEF TypeOK
    <3>2. Signalled'
      <4>1. Wakes(r, ti)
        BY <2>4, <3>1, WakeOneCases, Zenon
      <4> QED  BY <4>1 DEF Wakes, Signalled
    <3>3. CASE /\ Waiters \ {r} # {} /\ owes' = owes \cup {r}
               /\ interrupted' = ti /\ wakeup' = wakeup
      <4>1. Interrupts'
        BY <1>0, <1>1, <1>2, <2>1, <3>3 DEF Interrupts, TypeOK
      <4>2. NoLostWakeup'
        BY <3>3 DEF NoLostWakeup
      <4>3. PollerCovered'
        <5>1. PICK w \in Runners : w # r /\ pc'[w] \in {"wait", "woken"}
          BY <1>1, <3>3 DEF Waiters
        <5>2. pc'[w] = "woken" => w \in Coming'
          BY <5>1 DEF Coming, OnTheWay
        <5> QED  BY <3>3, <5>1, <5>2 DEF PollerCovered
      <4> QED  BY <3>2, <4>1, <4>2, <4>3
    <3>4. CASE /\ Waiters \ {r} = {} /\ owes' = owes
               /\ interrupted' <=> (ti \/ hasTask')
               /\ wakeup' <=> (wakeup \/ (~ti /\ hasTask'))
      <4>1. \A o \in blocks : hasTask
        BY <1>0 DEF IInv, TaskQueued, Fits, Polling, Interrupts, TypeOK
      <4>2. \A o \in blocks : wakeup'
        BY <1>1, <1>2, <3>4, <4>1
      <4>3. Interrupts'
        BY <1>0, <1>1, <2>1, <4>2 DEF Interrupts, TypeOK
      <4>4. \A o \in Runners : ~Blocked(o)'
        <5> TAKE o \in Runners
        <5>1. pc'[o] # "wait"
          BY <1>1, <2>1, <3>4 DEF Waiters
        <5>2. o \in blocks' => wakeup'
          BY <2>1, <4>2
        <5> QED  BY <5>1, <5>2 DEF Blocked
      <4> QED  BY <3>2, <4>3, <4>4 DEF PollerCovered, NoLostWakeup
    <3>5. Wakes(r, ti)
      BY <2>4, <3>1, WakeOneCases, Zenon
    <3> QED  BY <3>3, <3>4, <3>5 DEF Wakes
  <2> QED  BY <1>6, <2>3, <2>4 DEF TurnHandles
<1> QED  BY <1>0, <1>3, <1>4, <1>5, <1>6, TurnCases
-----------------------------------------------------------------------------
(* The steps that take something from the queue.                           *)

(* What a runner has kept to itself is gone once it has taken a turn.      *)
LEMMA KeptAfterTurn ==
  ASSUME TypeOK, Kept, NEW r \in Runners, pc'[r] # "cleanup",
         \A o \in Runners : o # r => pc'[o] = pc[o],
         \/ private' = [private EXCEPT ![r] = <<>>]
         \/ private' = private /\ pc[r] # "cleanup"
  PROVE  Kept'
<1> SUFFICES ASSUME NEW o \in Runners, pc'[o] # "cleanup",
                    NEW i \in 1 .. Len(private'[o])
             PROVE  private'[o][i] \in Ops
  BY DEF Kept
<1>1. CASE private' = [private EXCEPT ![r] = <<>>]
  <2>1. o # r
    <3>1. o = r => private'[o] = <<>>
      BY <1>1 DEF TypeOK
    <3>2. Len(<<>>) = 0
      OBVIOUS
    <3> QED  BY <3>1, <3>2
  <2>2. pc[o] # "cleanup" /\ private'[o] = private[o]
    BY <1>1, <2>1 DEF TypeOK
  <2> QED  BY <2>2 DEF Kept
<1>2. CASE private' = private /\ pc[r] # "cleanup"
  <2>1. pc[o] # "cleanup"
    BY <1>2
  <2> QED  BY <1>2, <2>1 DEF Kept
<1> QED  BY <1>1, <1>2

(* A turn leaves the runner that took it with nothing to queue.            *)
LEMMA PostingAfterTurn ==
  ASSUME Posting, NEW r \in Runners, Free(r), UNCHANGED posting,
         \A o \in Runners : o # r => pc'[o] = pc[o]
  PROVE  Posting'
BY DEF Posting, Free

(* Behind the queue goes what the handler kept private.                    *)
LEMMA LockStep ==
  ASSUME IInv, NEW r \in Runners, Lock(r)
  PROVE  IInv'
<1> DEFINE q == queue \o private[r]
<1>0. TypeOK /\ OnePoller /\ TaskQueued /\ Kept /\ Posting
  BY DEF IInv
<1>1. /\ Free(r) /\ pc[r] = "lock" /\ Turn(r, q, interrupted)
      /\ private' = [private EXCEPT ![r] = <<>>]
      /\ UNCHANGED <<posting, armed, edge>>
  BY DEF Lock, At, reactor
<1>2. /\ private[r] \in Seq(Ops \cup Descriptors) /\ queue \in Seq(Items)
      /\ interrupted \in BOOLEAN
  BY <1>0 DEF TypeOK
<1>3. private[r] \in Seq(Items)
  BY <1>2, SeqMonotonic DEF Items
<1>4. \A i \in 1 .. Len(private[r]) : private[r][i] \in Ops
  BY <1>0, <1>1 DEF Kept
<1>5. Polling \ {r} = Polling
  BY <1>1 DEF Polling
<1>6. q \in Seq(Items) /\ Fits(q, Polling \ {r})
  BY <1>0, <1>2, <1>3, <1>4, <1>5, FitsAppend DEF TaskQueued
<1> HIDE DEF q
<1>7. private' \in [Runners -> Seq(Ops \cup Descriptors)]
  <2>1. <<>> \in Seq(Ops \cup Descriptors)
    OBVIOUS
  <2> QED  BY <1>0, <1>1, <2>1 DEF TypeOK
<1>8. TypeOK'
  BY <1>0, <1>1, <1>2, <1>6, <1>7, TurnType, Zenon
<1>9. OnePoller' /\ TaskQueued' /\ pc'[r] # "cleanup"
  BY <1>0, <1>1, <1>6, TurnQueue
<1>10. \A o \in Runners : o # r => pc'[o] = pc[o]
  BY <1>0, <1>1, TurnElsewhere
<1>11. Interrupts' /\ Signalled' /\ PollerCovered' /\ NoLostWakeup'
  <2>1. interrupted = interrupted \/ pc[r] = "cleanup"
    OBVIOUS
  <2>2. pc[r] \in {"lock", "woken", "cleanup"}
    BY <1>1
  <2>3. UNCHANGED edge
    BY <1>1
  <2>4. Turn(r, q, interrupted)
    BY <1>1
  <2> QED  BY <1>2, <1>6, <2>1, <2>2, <2>3, <2>4, TurnWakes, Zenon
<1>12. Kept' /\ Posting'
  BY <1>0, <1>1, <1>9, <1>10, KeptAfterTurn, PostingAfterTurn
<1> QED  BY <1>8, <1>9, <1>11, <1>12 DEF IInv

(* A runner that is not signalled has nothing to do.                       *)
LEMMA WakeStep ==
  ASSUME IInv, NEW r \in Runners, Wake(r)
  PROVE  IInv'
<1>0. TypeOK /\ OnePoller /\ TaskQueued /\ Kept /\ Posting /\ Interrupts /\ Signalled
  BY DEF IInv
<1>1. /\ Free(r) /\ pc[r] = "woken" /\ r \in Threads
      /\ UNCHANGED <<private, posting, armed, edge>>
  BY DEF Wake, At, reactor, Threads
<1>2. /\ private \in [Runners -> Seq(Ops \cup Descriptors)] /\ queue \in Seq(Items)
      /\ interrupted \in BOOLEAN
  BY <1>0 DEF TypeOK
<1>3. Polling \ {r} = Polling
  BY <1>1 DEF Polling
<1>4. CASE signalled
  <2>1. Turn(r, queue, interrupted)
    BY <1>4 DEF Wake
  <2>2. Fits(queue, Polling \ {r})
    BY <1>0, <1>3 DEF TaskQueued
  <2>3. private' \in [Runners -> Seq(Ops \cup Descriptors)]
    BY <1>1, <1>2
  <2>4. TypeOK'
    BY <1>0, <1>1, <1>2, <2>1, <2>3, TurnType, Zenon
  <2>5. OnePoller' /\ TaskQueued' /\ pc'[r] # "cleanup"
    BY <1>0, <1>2, <2>1, <2>2, TurnQueue
  <2>6. \A o \in Runners : o # r => pc'[o] = pc[o]
    BY <1>0, <2>1, TurnElsewhere
  <2>7. Interrupts' /\ Signalled' /\ PollerCovered' /\ NoLostWakeup'
    <3>1. interrupted = interrupted \/ pc[r] = "cleanup"
      OBVIOUS
    <3>2. pc[r] \in {"lock", "woken", "cleanup"}
      BY <1>1
    <3>3. UNCHANGED edge
      BY <1>1
    <3> QED  BY <1>2, <2>1, <2>2, <3>1, <3>2, <3>3, TurnWakes, Zenon
  <2>8. Kept' /\ Posting'
    BY <1>0, <1>1, <2>5, <2>6, KeptAfterTurn, PostingAfterTurn
  <2> QED  BY <2>4, <2>5, <2>7, <2>8 DEF IInv
<1>5. CASE ~signalled
  <2>1. Go(r, "wait") /\ UNCHANGED <<shared, item, blocks, owes>>
    BY <1>5 DEF Wake
  <2>2. queue = <<>> /\ ~stopped
    BY <1>0, <1>5 DEF Signalled
  <2>3. /\ pc' \in [Threads -> Places] /\ \A o \in Runners : pc'[o] # "idle"
        /\ \A u \in Others : pc'[u] \in {"idle", "stop"}
        /\ pc'[r] = "wait" /\ \A u \in Threads : u # r => pc'[u] = pc[u]
    <3>1. r \notin Others /\ "wait" \in Places /\ "wait" # "idle"
      BY SchedulerAssumption DEF Places
    <3> QED  BY <1>0, <1>1, <2>1, <3>1, GoEffect
  <2>4. TypeOK'
    BY <1>0, <1>1, <2>1, <2>3 DEF TypeOK, shared
  <2>5. \A o \in Runners : o # r => pc'[o] = pc[o]
    BY <2>3 DEF Threads
  <2>6. Polling' = Polling
    BY <1>1, <2>3, <2>5 DEF Polling
  <2>7. OnePoller' /\ TaskQueued'
    BY <1>0, <2>1, <2>6 DEF OnePoller, TaskQueued, Fits, shared
  <2>8. Interrupts'
    BY <1>0, <1>1, <2>1, <2>5 DEF Interrupts, shared, TypeOK
  <2>9. Kept' /\ Posting'
    BY <1>0, <1>1, <2>3, <2>5, KeptAfterTurn, PostingAfterTurn
  <2>10. Signalled' /\ PollerCovered' /\ NoLostWakeup'
    BY <2>1, <2>2 DEF Signalled, PollerCovered, NoLostWakeup, shared
  <2> QED  BY <2>4, <2>7, <2>8, <2>9, <2>10 DEF IInv
<1> QED  BY <1>4, <1>5

(* The runner that ran the task queues the descriptors it returned, and    *)
(* the task behind them.                                                   *)
LEMMA CleanupStep ==
  ASSUME IInv, NEW r \in Runners, Cleanup(r)
  PROVE  IInv'
<1> DEFINE q == queue \o private[r] \o <<Task>>
<1>0. TypeOK /\ OnePoller /\ TaskQueued /\ Kept /\ Posting
  BY DEF IInv
<1>1. /\ Free(r) /\ pc[r] = "cleanup" /\ Turn(r, q, TRUE)
      /\ private' = [private EXCEPT ![r] = <<>>]
      /\ UNCHANGED <<posting, armed, edge>>
  BY DEF Cleanup, At, reactor
<1>2. private[r] \in Seq(Ops \cup Descriptors) /\ queue \in Seq(Items)
  BY <1>0 DEF TypeOK
<1>3. r \in Polling /\ Polling \ {r} = {}
  BY <1>0, <1>1 DEF Polling, OnePoller
<1>4. hasTask /\ \A i \in 1 .. Len(queue) : queue[i] # Task
  BY <1>0, <1>3, SchedulerAssumption DEF TaskQueued, Fits
<1>5. q \in Seq(Items) /\ TaskLast(q)
  BY <1>2, <1>4, TaskBehind
<1> HIDE DEF q
<1>6. Fits(q, Polling \ {r})
  BY <1>3, <1>4, <1>5, FitsTask
<1>7. private' \in [Runners -> Seq(Ops \cup Descriptors)]
  <2>1. <<>> \in Seq(Ops \cup Descriptors)
    OBVIOUS
  <2> QED  BY <1>0, <1>1, <2>1 DEF TypeOK
<1>8. TypeOK'
  BY <1>0, <1>1, <1>5, <1>7, TurnType, Zenon
<1>9. OnePoller' /\ TaskQueued' /\ pc'[r] # "cleanup"
  BY <1>0, <1>1, <1>5, <1>6, TurnQueue
<1>10. \A o \in Runners : o # r => pc'[o] = pc[o]
  BY <1>0, <1>1, TurnElsewhere
<1>11. Interrupts' /\ Signalled' /\ PollerCovered' /\ NoLostWakeup'
  <2>1. TRUE \in BOOLEAN /\ (TRUE = interrupted \/ pc[r] = "cleanup")
    BY <1>1
  <2>2. pc[r] \in {"lock", "woken", "cleanup"}
    BY <1>1
  <2>3. UNCHANGED edge
    BY <1>1
  <2>4. Turn(r, q, TRUE)
    BY <1>1
  <2> QED  BY <1>5, <1>6, <2>1, <2>2, <2>3, <2>4, TurnWakes, Zenon
<1>12. Kept' /\ Posting'
  BY <1>0, <1>1, <1>9, <1>10, KeptAfterTurn, PostingAfterTurn
<1> QED  BY <1>8, <1>9, <1>11, <1>12 DEF IInv
-----------------------------------------------------------------------------
(* The steps that signal, interrupt and stop.                              *)

(* The task that returns is on its way to the queue.                       *)
LEMMA PollStep ==
  ASSUME IInv, NEW r \in Runners, Poll(r)
  PROVE  IInv'
<1>0. TypeOK /\ OnePoller /\ TaskQueued /\ Kept /\ Posting /\ Interrupts /\ Signalled
  BY DEF IInv
<1>1. /\ Free(r) /\ pc[r] = "task" /\ r \in Threads /\ Go(r, "cleanup")
      /\ edge' = {} /\ wakeup' = FALSE /\ blocks' = blocks \ {r}
      /\ UNCHANGED <<queue, stopped, hasTask, interrupted, signalled, item, posting,
                     owes, armed>>
  BY DEF Poll, At, Threads
<1>2. PICK ops \in SetToSeqs(edge) : private' = [private EXCEPT ![r] = ops]
  BY DEF Poll
<1>3. ops \in Seq(Ops \cup Descriptors)
  <2>1. ops \in Seq(edge) /\ edge \subseteq Ops \cup Descriptors
    BY <1>0, <1>2, Returned DEF TypeOK
  <2> QED  BY <2>1, SeqMonotonic
<1>4. /\ pc' \in [Threads -> Places] /\ \A o \in Runners : pc'[o] # "idle"
      /\ \A u \in Others : pc'[u] \in {"idle", "stop"}
      /\ pc'[r] = "cleanup" /\ \A u \in Threads : u # r => pc'[u] = pc[u]
  <2>1. r \notin Others /\ "cleanup" \in Places /\ "cleanup" # "idle"
    BY SchedulerAssumption DEF Places
  <2> QED  BY <1>0, <1>1, <2>1, GoEffect
<1>5. TypeOK'
  <2>1. IsFiniteSet({})
    BY FS_EmptySet
  <2> QED  BY <1>0, <1>1, <1>2, <1>3, <1>4, <2>1 DEF TypeOK
<1>6. \A o \in Runners : o # r => pc'[o] = pc[o]
  BY <1>4 DEF Threads
<1>7. Polling' = Polling
  BY <1>1, <1>4, <1>6 DEF Polling
<1>8. OnePoller' /\ TaskQueued'
  BY <1>0, <1>1, <1>7 DEF OnePoller, TaskQueued, Fits
<1>9. Kept'
  BY <1>0, <1>2, <1>4, <1>6 DEF Kept, TypeOK
<1>10. Posting'
  BY <1>0, <1>1, <1>6, PostingAfterTurn
<1>11. Interrupts'
  <2>1. \A o \in blocks : o \in Polling
    BY <1>0 DEF Interrupts, Polling, TypeOK
  <2>2. r \in Polling
    BY <1>1 DEF Polling
  <2>3. blocks' = {}
    BY <1>0, <1>1, <2>1, <2>2 DEF OnePoller
  <2> QED  BY <2>3 DEF Interrupts
<1>12. Signalled'
  BY <1>0, <1>1 DEF Signalled
<1>13. PollerCovered' /\ NoLostWakeup'
  BY <1>4 DEF PollerCovered, NoLostWakeup, Coming, OnTheWay
<1> QED  BY <1>5, <1>8, <1>9, <1>10, <1>11, <1>12, <1>13 DEF IInv

(* A stopped context has every waiter woken and the task interrupted.      *)
LEMMA StopStep ==
  ASSUME IInv, NEW t \in Threads, Stop(t)
  PROVE  IInv'
<1>0. TypeOK /\ OnePoller /\ TaskQueued /\ Kept /\ Posting /\ Interrupts
  BY DEF IInv
<1>1. /\ Free(t) /\ pc[t] = "stop" /\ stopped' = TRUE /\ signalled' = TRUE
      /\ UNCHANGED <<queue, hasTask, item, blocks, private, posting, owes, armed, edge>>
  BY DEF Stop, At, mine, reactor
<1>2. pc' = [u \in Threads |-> IF u = t THEN IF t \in Runners THEN "lock" ELSE "idle"
                               ELSE IF pc[u] = "wait" THEN "woken" ELSE pc[u]]
  BY DEF Stop
<1>3. /\ interrupted' \in BOOLEAN /\ wakeup' \in BOOLEAN
  <2>1. interrupted' = (interrupted \/ hasTask)
    BY DEF Stop
  <2>2. wakeup' = (wakeup \/ (~interrupted /\ hasTask))
    BY DEF Stop
  <2>3. interrupted' \in BOOLEAN
    BY <2>1, Zenon
  <2>4. wakeup' \in BOOLEAN
    BY <2>2, Zenon
  <2> QED  BY <2>3, <2>4
<1>4. /\ pc' \in [Threads -> Places] /\ \A o \in Runners : pc'[o] # "idle"
      /\ \A u \in Others : pc'[u] \in {"idle", "stop"}
  BY <1>0, <1>2, SchedulerAssumption DEF TypeOK, Places, Threads
<1>5. TypeOK'
  BY <1>0, <1>1, <1>3, <1>4 DEF TypeOK
<1>6. \A o \in Runners : \/ pc'[o] = pc[o]
                         \/ pc[o] \in {"stop", "wait"} /\ pc'[o] \in {"lock", "woken"}
  BY <1>1, <1>2 DEF Threads
<1>7. Polling' = Polling
  BY <1>6 DEF Polling
<1>8. OnePoller' /\ TaskQueued'
  BY <1>0, <1>1, <1>7 DEF OnePoller, TaskQueued, Fits
<1>9. Kept' /\ Posting'
  BY <1>0, <1>1, <1>6 DEF Kept, Posting
<1>10. Interrupts'
  <2>1. \A o \in blocks : pc'[o] = "task"
    BY <1>0, <1>6 DEF Interrupts, TypeOK
  <2>2. \A o \in blocks : interrupted => wakeup
    BY <1>0 DEF Interrupts
  <2>3. \A o \in blocks : interrupted' => wakeup'
    BY <2>2, Zenon DEF Stop
  <2> QED  BY <1>1, <2>1, <2>3 DEF Interrupts
<1>11. Signalled' /\ PollerCovered' /\ NoLostWakeup'
  BY <1>1 DEF Signalled, PollerCovered, NoLostWakeup
<1> QED  BY <1>5, <1>8, <1>9, <1>10, <1>11 DEF IInv

(* A signal that wakes nobody found no waiter to wake.                     *)
LEMMA SignalStep ==
  ASSUME IInv, NEW t \in Threads, Signal(t)
  PROVE  IInv'
<1>0. /\ TypeOK /\ OnePoller /\ TaskQueued /\ Kept /\ Posting /\ Interrupts /\ Signalled
      /\ PollerCovered
  BY DEF IInv
<1>1. /\ owes' = owes \ {t}
      /\ UNCHANGED <<queue, stopped, hasTask, interrupted, signalled, wakeup, item,
                     blocks, private, posting, armed, edge>>
  BY DEF Signal, shared, mine, reactor
<1>2. CASE \E r \in Runners : pc[r] = "wait" /\ Go(r, "woken")
  <2>1. PICK r \in Runners : pc[r] = "wait" /\ Go(r, "woken")
    BY <1>2
  <2>2. r \in Threads /\ r \notin Others /\ "woken" \in Places
    BY SchedulerAssumption DEF Threads, Places
  <2>3. /\ pc' \in [Threads -> Places] /\ \A o \in Runners : pc'[o] # "idle"
        /\ \A u \in Others : pc'[u] \in {"idle", "stop"}
        /\ pc'[r] = "woken" /\ \A u \in Threads : u # r => pc'[u] = pc[u]
    BY <1>0, <2>1, <2>2, GoEffect
  <2>4. \A o \in Runners : o # r => pc'[o] = pc[o]
    BY <2>3 DEF Threads
  <2>5. TypeOK'
    BY <1>0, <1>1, <2>3 DEF TypeOK
  <2>6. Polling' = Polling
    BY <2>1, <2>3, <2>4 DEF Polling
  <2>7. OnePoller' /\ TaskQueued'
    BY <1>0, <1>1, <2>6 DEF OnePoller, TaskQueued, Fits
  <2>8. Kept' /\ Posting'
    BY <1>0, <1>1, <2>1, <2>3, <2>4 DEF Kept, Posting
  <2>9. Interrupts'
    BY <1>0, <1>1, <2>1, <2>4 DEF Interrupts, TypeOK
  <2>10. Signalled'
    BY <1>0, <1>1 DEF Signalled
  <2>11. PollerCovered' /\ NoLostWakeup'
    BY <2>3 DEF PollerCovered, NoLostWakeup, Coming, OnTheWay
  <2> QED  BY <2>5, <2>7, <2>8, <2>9, <2>10, <2>11 DEF IInv
<1>3. CASE (\A r \in Runners : pc[r] # "wait") /\ pc' = pc
  <2>1. TypeOK'
    BY <1>0, <1>1, <1>3 DEF TypeOK
  <2>2. Polling' = Polling /\ Coming' = Coming
    BY <1>3 DEF Polling, Coming
  <2>3. OnePoller' /\ TaskQueued'
    BY <1>0, <1>1, <2>2 DEF OnePoller, TaskQueued, Fits
  <2>4. Kept' /\ Posting' /\ Interrupts' /\ Signalled'
    BY <1>0, <1>1, <1>3 DEF Kept, Posting, Interrupts, Signalled
  <2>5. \A o \in Runners : Blocked(o)' => pc[o] = "task" /\ Blocked(o)
    BY <1>1, <1>3 DEF Blocked
  <2>6. ~stopped /\ queue # <<>> /\ (\E o \in Runners : Blocked(o)') => Coming # {}
    BY <1>0, <1>3, <2>5 DEF PollerCovered
  <2>7. PollerCovered'
    BY <1>1, <2>2, <2>6 DEF PollerCovered
  <2>8. NoLostWakeup'
    BY <1>1, <1>3, <2>6 DEF NoLostWakeup, Coming, OnTheWay
  <2> QED  BY <2>1, <2>3, <2>4, <2>7, <2>8 DEF IInv
<1> QED  BY <1>2, <1>3 DEF Signal
-----------------------------------------------------------------------------
(* The steps that put something in the queue.                              *)

(* A thread that wakes another leaves nobody blocked and unattended.       *)
LEMMA WakeOneCovers ==
  ASSUME IInv, NEW t \in Threads, t \in Runners => pc[t] \notin {"wait", "woken"},
         WakeOne(t, interrupted), hasTask' \in BOOLEAN, hasTask => hasTask',
         UNCHANGED <<stopped, pc, blocks, edge>>
  PROVE  /\ signalled' \in BOOLEAN /\ interrupted' \in BOOLEAN /\ wakeup' \in BOOLEAN
         /\ owes' \subseteq Threads
         /\ Interrupts' /\ Signalled' /\ PollerCovered' /\ NoLostWakeup'
<1>0. TypeOK /\ TaskQueued /\ Interrupts
  BY DEF IInv
<1>1. interrupted \in BOOLEAN /\ wakeup \in BOOLEAN /\ owes \subseteq Threads
  BY <1>0 DEF TypeOK
<1>2. Wakes(t, interrupted)
  BY <1>1, WakeOneCases, Zenon
<1>3. /\ signalled' = TRUE /\ interrupted' \in BOOLEAN /\ wakeup' \in BOOLEAN
      /\ owes' \subseteq Threads
  BY <1>1, <1>2 DEF Wakes
<1>4. Signalled'
  BY <1>3 DEF Signalled
<1>5. CASE /\ Waiters \ {t} # {} /\ owes' = owes \cup {t}
           /\ interrupted' = interrupted /\ wakeup' = wakeup
  <2>1. Interrupts'
    BY <1>0, <1>5 DEF Interrupts
  <2>2. PICK w \in Runners : pc'[w] \in {"wait", "woken"}
    BY <1>5 DEF Waiters
  <2>3. pc'[w] = "woken" => w \in Coming'
    BY <2>2 DEF Coming, OnTheWay
  <2>4. PollerCovered' /\ NoLostWakeup'
    BY <1>5, <2>2, <2>3 DEF PollerCovered, NoLostWakeup
  <2> QED  BY <1>3, <1>4, <2>1, <2>4
<1>6. CASE /\ Waiters \ {t} = {}
           /\ interrupted' <=> (interrupted \/ hasTask')
           /\ wakeup' <=> (wakeup \/ (~interrupted /\ hasTask'))
  <2>1. \A o \in blocks : hasTask
    BY <1>0 DEF TaskQueued, Fits, Polling, Interrupts, TypeOK
  <2>2. \A o \in blocks : wakeup'
    BY <1>0, <1>6, <2>1 DEF Interrupts
  <2>3. Interrupts'
    BY <1>0, <2>2 DEF Interrupts
  <2>4. \A o \in Runners : ~Blocked(o)'
    <3> TAKE o \in Runners
    <3>1. pc'[o] # "wait"
      BY <1>6 DEF Waiters
    <3>2. o \in blocks' => wakeup'
      BY <2>2
    <3> QED  BY <3>1, <3>2 DEF Blocked
  <2> QED  BY <1>3, <1>4, <2>3, <2>4 DEF PollerCovered, NoLostWakeup
<1> QED  BY <1>2, <1>5, <1>6 DEF Wakes

(* The first socket's task finds none in the queue.                        *)
LEMMA InitTaskStep ==
  ASSUME IInv, NEW t \in Others, InitTask(t)
  PROVE  IInv'
<1> DEFINE q == queue \o <<>> \o <<Task>>
<1>0. TypeOK /\ OnePoller /\ TaskQueued /\ Kept /\ Posting
  BY DEF IInv
<1>1. /\ ~hasTask /\ hasTask' = TRUE /\ WakeOne(t, interrupted)
      /\ queue' = Append(queue, Task)
      /\ UNCHANGED <<stopped, pc, item, blocks, private, posting, armed, edge>>
  BY DEF InitTask, mine, reactor
<1>2. queue \in Seq(Items) /\ Task \in Items
  BY <1>0 DEF TypeOK, Items
<1>3. queue' = q
  <2>1. queue \o <<>> = queue
    BY <1>2, ConcatEmptySeq
  <2>2. Append(queue, Task) = queue \o <<Task>>
    BY <1>2, AppendIsConcat
  <2> QED  BY <1>1, <2>1, <2>2
<1>4. Polling = {} /\ \A i \in 1 .. Len(queue) : queue[i] # Task
  BY <1>0, <1>1 DEF TaskQueued, Fits
<1>5. q \in Seq(Items) /\ TaskLast(q)
  <2>1. <<>> \in Seq(Ops \cup Descriptors)
    OBVIOUS
  <2> QED  BY <1>2, <1>4, <2>1, TaskBehind
<1> HIDE DEF q
<1>6. /\ signalled' \in BOOLEAN /\ interrupted' \in BOOLEAN /\ wakeup' \in BOOLEAN
      /\ owes' \subseteq Threads
      /\ Interrupts' /\ Signalled' /\ PollerCovered' /\ NoLostWakeup'
  <2>1. t \in Threads /\ t \notin Runners
    BY SchedulerAssumption DEF Threads
  <2>2. hasTask' \in BOOLEAN /\ (hasTask => hasTask')
    BY <1>1
  <2>3. UNCHANGED <<stopped, pc, blocks, edge>>
    BY <1>1
  <2> QED  BY <1>1, <2>1, <2>2, <2>3, WakeOneCovers
<1>7. TypeOK'
  BY <1>0, <1>1, <1>3, <1>5, <1>6 DEF TypeOK
<1>8. Polling' = {}
  BY <1>1, <1>4 DEF Polling
<1>9. TaskQueued'
  <2>1. Len(q) \in Nat
    BY <1>5, LenProperties
  <2>2. \A i \in 1 .. Len(q) : i = Len(q) => \A j \in i + 1 .. Len(q) : FALSE
    BY <2>1
  <2>3. \A i \in 1 .. Len(q) : q[i] = Task => \A j \in i + 1 .. Len(q) : FALSE
    BY <1>5, <2>2 DEF TaskLast
  <2> QED  BY <1>1, <1>3, <1>8, <2>3 DEF TaskQueued, Fits
<1>10. OnePoller' /\ Kept' /\ Posting'
  BY <1>0, <1>1, <1>8 DEF OnePoller, Kept, Posting
<1> QED  BY <1>6, <1>7, <1>9, <1>10 DEF IInv

(* An operation goes behind the queue.                                     *)
LEMMA PostStep ==
  ASSUME IInv, NEW t \in Threads, Post(t)
  PROVE  IInv'
<1>0. TypeOK /\ OnePoller /\ TaskQueued /\ Kept /\ Posting
  BY DEF IInv
<1>1. /\ posting[t] # NoOp /\ hasTask' = hasTask /\ WakeOne(t, interrupted)
      /\ queue' = Append(queue, posting[t])
      /\ posting' = [posting EXCEPT ![t] = NoOp]
      /\ UNCHANGED <<stopped, pc, item, blocks, private, armed, edge>>
  BY DEF Post, reactor
<1>2. posting[t] \in Ops /\ posting[t] \in Items /\ queue \in Seq(Items)
  BY <1>0, <1>1 DEF TypeOK, Items
<1>3. queue' \in Seq(Items) /\ Fits(queue', Polling)
  <2>1. queue' = queue \o <<posting[t]>>
    BY <1>1, <1>2, AppendIsConcat
  <2>2. <<posting[t]>> \in Seq(Items) /\ Len(<<posting[t]>>) = 1
    BY <1>2
  <2>3. \A i \in 1 .. Len(<<posting[t]>>) : <<posting[t]>>[i] \in Ops
    BY <1>2, <2>2
  <2>4. Fits(queue, Polling)
    BY <1>0 DEF TaskQueued
  <2> QED  BY <1>2, <2>1, <2>2, <2>3, <2>4, FitsAppend
<1>4. /\ signalled' \in BOOLEAN /\ interrupted' \in BOOLEAN /\ wakeup' \in BOOLEAN
      /\ owes' \subseteq Threads
      /\ Interrupts' /\ Signalled' /\ PollerCovered' /\ NoLostWakeup'
  <2>1. t \in Runners => pc[t] \notin {"wait", "woken"}
    BY <1>0, <1>1 DEF Posting
  <2>2. hasTask' \in BOOLEAN /\ (hasTask => hasTask')
    BY <1>0, <1>1 DEF TypeOK
  <2>3. UNCHANGED <<stopped, pc, blocks, edge>>
    BY <1>1
  <2> QED  BY <1>1, <2>1, <2>2, <2>3, WakeOneCovers
<1>5. TypeOK'
  BY <1>0, <1>1, <1>3, <1>4 DEF TypeOK
<1>6. Polling' = Polling
  BY <1>1 DEF Polling
<1>7. TaskQueued'
  BY <1>1, <1>3, <1>6 DEF TaskQueued, Fits
<1>8. OnePoller' /\ Kept' /\ Posting'
  BY <1>0, <1>1, <1>6 DEF OnePoller, Kept, Posting, TypeOK
<1> QED  BY <1>4, <1>5, <1>7, <1>8 DEF IInv
-----------------------------------------------------------------------------
(* The steps that leave the queue, its event and the task alone.           *)

(* Nobody begins to wait or to poll, and those on their way to the queue   *)
(* stay so.                                                                *)
KeepsWay(r) ==
  /\ pc'[r] \in {"task", "cleanup"} \/ pc[r] \in {"task", "cleanup"} => pc'[r] = pc[r]
  /\ pc[r] \in OnTheWay => pc'[r] \in OnTheWay
  /\ pc'[r] = "wait" => pc[r] = "wait"
  /\ pc[r] = "wait" => pc'[r] \in {"wait", "woken"}
LEMMA Aside ==
  ASSUME IInv, TypeOK', Kept', Posting',
         UNCHANGED <<queue, stopped, hasTask, interrupted, signalled, wakeup, blocks>>,
         owes \subseteq owes', edge \subseteq edge',
         \A r \in Runners : KeepsWay(r)
  PROVE  IInv'
<1>0. /\ OnePoller /\ TaskQueued /\ Interrupts /\ Signalled
      /\ PollerCovered /\ NoLostWakeup
  BY DEF IInv
<1>1. Polling' = Polling
  BY DEF Polling, KeepsWay
<1>2. OnePoller' /\ TaskQueued' /\ Signalled'
  BY <1>0, <1>1 DEF OnePoller, TaskQueued, Fits, Signalled
<1>3. Interrupts'
  BY <1>0 DEF Interrupts, KeepsWay, IInv, TypeOK
<1>4. \A r \in Runners : Blocked(r)' => Blocked(r) /\ pc'[r] = pc[r]
  BY DEF Blocked, KeepsWay
<1>5. \A r \in Coming : r \in Coming'
  BY DEF Coming, KeepsWay
<1>6. PollerCovered'
  <2> SUFFICES ASSUME ~stopped, queue # <<>>, NEW r \in Runners, pc'[r] = "task",
                      Blocked(r)'
               PROVE  Coming' # {} \/ (owes' # {} /\ \E o \in Runners : pc'[o] = "wait")
    BY DEF PollerCovered
  <2>1. Coming # {} \/ (owes # {} /\ \E o \in Runners : pc[o] = "wait")
    BY <1>0, <1>4 DEF PollerCovered
  <2>2. CASE Coming # {}
    BY <1>5, <2>2
  <2>3. CASE owes # {} /\ \E o \in Runners : pc[o] = "wait"
    <3>1. PICK o \in Runners : pc[o] = "wait"
      BY <2>3
    <3>2. pc'[o] = "woken" => o \in Coming'
      BY DEF Coming, OnTheWay
    <3> QED  BY <2>3, <3>1, <3>2 DEF KeepsWay
  <2> QED  BY <2>1, <2>2, <2>3
<1>7. NoLostWakeup'
  <2> SUFFICES ASSUME ~stopped, queue # <<>>, NEW r \in Runners, Blocked(r)'
               PROVE  owes' # {} \/ \E o \in Runners : \/ pc'[o] \in OnTheWay
                                                       \/ pc'[o] = "task" /\ ~Blocked(o)'
    BY DEF NoLostWakeup, OnTheWay
  <2>1. owes # {} \/ \E o \in Runners : \/ pc[o] \in OnTheWay
                                        \/ pc[o] = "task" /\ ~Blocked(o)
    BY <1>0, <1>4 DEF NoLostWakeup, OnTheWay
  <2>2. CASE owes # {}
    BY <2>2
  <2>3. CASE \E o \in Runners : pc[o] \in OnTheWay
    BY <2>3 DEF KeepsWay
  <2>4. CASE \E o \in Runners : pc[o] = "task" /\ ~Blocked(o)
    <3>1. PICK o \in Runners : pc[o] = "task" /\ ~Blocked(o)
      BY <2>4
    <3>2. pc'[o] = "task" /\ ~Blocked(o)'
      BY <1>4, <3>1 DEF KeepsWay
    <3> QED  BY <3>2
  <2> QED  BY <2>1, <2>2, <2>3, <2>4
<1> QED  BY <1>2, <1>3, <1>6, <1>7 DEF IInv

(* A thread goes on, with whatever it has of its own.                      *)
LEMMA GoesOn ==
  ASSUME IInv, NEW t \in Threads, t \in Runners => posting[t] = NoOp,
         NEW to \in Places, Go(t, to),
         t \in Others => to \in {"idle", "stop"},
         t \in Runners =>
           \/ pc[t] \in {"start", "finish"} /\ to \in {"stop", "lock"}
           \/ pc[t] = "handler" /\ to = "finish"
           \/ pc[t] = "wait" /\ to = "woken",
         item' \in [Runners -> Ops \cup Descriptors \cup {NoOp}],
         UNCHANGED <<shared, blocks, private, posting, owes, armed, edge>>
  PROVE  IInv'
<1>0. TypeOK /\ Kept /\ Posting
  BY DEF IInv
<1>1. /\ pc' \in [Threads -> Places] /\ \A o \in Runners : pc'[o] # "idle"
      /\ \A u \in Others : pc'[u] \in {"idle", "stop"}
      /\ pc'[t] = to /\ \A u \in Threads : u # t => pc'[u] = pc[u]
  <2>1. t \in Runners => to # "idle"
    OBVIOUS
  <2> QED  BY <1>0, <2>1, GoEffect
<1>2. TypeOK'
  BY <1>0, <1>1 DEF TypeOK, shared
<1>3. \A o \in Runners : o \in Threads
  BY DEF Threads
<1>4. \A o \in Runners : KeepsWay(o)
  BY <1>1, <1>3 DEF KeepsWay, OnTheWay
<1>5. Kept' /\ Posting'
  BY <1>0, <1>1, <1>3 DEF Kept, Posting
<1> QED  BY <1>2, <1>4, <1>5, Aside DEF shared

(* The threads that stay where they are.                                   *)
LEMMA StaysPut ==
  ASSUME IInv, TypeOK', Kept', Posting', owes' = owes, edge \subseteq edge',
         UNCHANGED <<shared, pc, blocks>>
  PROVE  IInv'
<1>1. \A r \in Runners : KeepsWay(r)
  BY DEF KeepsWay
<1> QED  BY <1>1, Aside DEF shared

LEMMA RunStep ==
  ASSUME IInv, NEW r \in Runners, Run(r)
  PROVE  IInv'
<1>1. PICK to \in {"stop", "lock"} : Go(r, to)
  BY DEF Run
<1>2. /\ r \in Threads /\ posting[r] = NoOp /\ pc[r] = "start" /\ to \in Places
      /\ UNCHANGED <<shared, item, blocks, private, posting, owes, armed, edge>>
  BY DEF Run, At, Free, Threads, Places, mine, reactor
<1>3. item' \in [Runners -> Ops \cup Descriptors \cup {NoOp}]
  BY <1>2 DEF IInv, TypeOK
<1> QED  BY <1>1, <1>2, <1>3, SchedulerAssumption, GoesOn

LEMMA SpuriousStep ==
  ASSUME IInv, NEW r \in Runners, Spurious(r)
  PROVE  IInv'
<1>1. /\ r \in Threads /\ pc[r] = "wait" /\ Go(r, "woken") /\ "woken" \in Places
      /\ UNCHANGED <<shared, item, blocks, private, posting, owes, armed, edge>>
  BY DEF Spurious, Threads, Places, mine, reactor
<1>2. posting[r] = NoOp
  BY <1>1 DEF IInv, Posting
<1>3. item' \in [Runners -> Ops \cup Descriptors \cup {NoOp}]
  BY <1>1 DEF IInv, TypeOK
<1> QED  BY <1>1, <1>2, <1>3, SchedulerAssumption, GoesOn

LEMMA HandlerReturnsStep ==
  ASSUME IInv, NEW r \in Runners, HandlerReturns(r)
  PROVE  IInv'
<1>1. /\ r \in Threads /\ posting[r] = NoOp /\ pc[r] = "handler" /\ Go(r, "finish")
      /\ "finish" \in Places /\ item' = [item EXCEPT ![r] = NoOp]
      /\ UNCHANGED <<shared, blocks, private, posting, owes, armed, edge>>
  BY DEF HandlerReturns, At, Free, Threads, Places, reactor
<1>2. item' \in [Runners -> Ops \cup Descriptors \cup {NoOp}]
  BY <1>1 DEF IInv, TypeOK
<1> QED  BY <1>1, <1>2, SchedulerAssumption, GoesOn

LEMMA FinishStep ==
  ASSUME IInv, NEW r \in Runners, Finish(r)
  PROVE  IInv'
<1>1. PICK to \in {"stop", "lock"} : Go(r, to)
  BY DEF Finish
<1>2. /\ r \in Threads /\ posting[r] = NoOp /\ pc[r] = "finish" /\ to \in Places
      /\ UNCHANGED <<shared, item, blocks, private, posting, owes, armed, edge>>
  BY DEF Finish, At, Free, Threads, Places, reactor
<1>3. item' \in [Runners -> Ops \cup Descriptors \cup {NoOp}]
  BY <1>2 DEF IInv, TypeOK
<1> QED  BY <1>1, <1>2, <1>3, SchedulerAssumption, GoesOn

LEMMA DescriptorStep ==
  ASSUME IInv, NEW r \in Runners, Descriptor(r)
  PROVE  IInv'
<1>0. TypeOK /\ Kept /\ Posting
  BY DEF IInv
<1>1. /\ r \in Threads /\ posting[r] = NoOp /\ pc[r] = "handler"
      /\ UNCHANGED <<shared, blocks, private, posting, owes, edge>>
  BY DEF Descriptor, At, Free, Threads
<1>2. CASE /\ item' = [item EXCEPT ![r] = armed[item[r]]]
           /\ armed' = [armed EXCEPT ![item[r]] = NoOp] /\ pc' = pc
  <2>1. item[r] \in Descriptors
    BY DEF Descriptor
  <2>2. TypeOK'
    BY <1>0, <1>1, <1>2, <2>1 DEF TypeOK, shared
  <2>3. Kept' /\ Posting'
    BY <1>0, <1>1, <1>2 DEF Kept, Posting
  <2> QED  BY <1>1, <1>2, <2>2, <2>3, StaysPut
<1>3. CASE /\ item' = [item EXCEPT ![r] = NoOp] /\ Go(r, "finish") /\ armed' = armed
  <2>1. item' \in [Runners -> Ops \cup Descriptors \cup {NoOp}] /\ "finish" \in Places
    BY <1>0, <1>3 DEF TypeOK, Places
  <2> QED  BY <1>1, <1>3, <2>1, SchedulerAssumption, GoesOn
<1> QED  BY <1>2, <1>3 DEF Descriptor

LEMMA ReleaseGuardStep ==
  ASSUME IInv, NEW t \in Others, ReleaseGuard(t)
  PROVE  IInv'
<1>1. PICK to \in {"stop", "idle"} : Go(t, to)
  BY DEF ReleaseGuard
<1>2. /\ t \in Threads /\ t \notin Runners /\ to \in Places
      /\ UNCHANGED <<shared, item, blocks, private, posting, owes, armed, edge>>
  BY SchedulerAssumption DEF ReleaseGuard, Threads, Places, mine, reactor
<1>3. item' \in [Runners -> Ops \cup Descriptors \cup {NoOp}]
  BY <1>2 DEF IInv, TypeOK
<1> QED  BY <1>1, <1>2, <1>3, GoesOn

LEMMA AskStep ==
  ASSUME IInv, NEW t \in Others, Ask(t)
  PROVE  IInv'
<1>1. /\ t \in Threads /\ t \notin Runners /\ "stop" \in Places /\ Go(t, "stop")
      /\ UNCHANGED <<shared, item, blocks, private, posting, owes, armed, edge>>
  BY SchedulerAssumption DEF Ask, Threads, Places, mine, reactor
<1>2. item' \in [Runners -> Ops \cup Descriptors \cup {NoOp}]
  BY <1>1 DEF IInv, TypeOK
<1> QED  BY <1>1, <1>2, GoesOn

LEMMA EventStep ==
  ASSUME IInv, NEW d \in Descriptors, Event(d)
  PROVE  IInv'
<1>0. TypeOK /\ Kept /\ Posting
  BY DEF IInv
<1>1. /\ edge' = edge \cup {d}
      /\ UNCHANGED <<shared, pc, item, blocks, private, posting, owes, armed>>
  BY DEF Event, mine
<1>2. IsFiniteSet(edge')
  BY <1>0, <1>1, FS_AddElement DEF TypeOK
<1>3. TypeOK'
  BY <1>0, <1>1, <1>2 DEF TypeOK, shared
<1>4. Kept' /\ Posting'
  BY <1>0, <1>1 DEF Kept, Posting
<1> QED  BY <1>1, <1>3, <1>4, StaysPut

LEMMA StartArmedStep ==
  ASSUME IInv, NEW t \in Threads, NEW h \in Ops, NEW d \in Descriptors,
         StartArmed(t, h, d)
  PROVE  IInv'
<1>0. TypeOK /\ Kept /\ Posting
  BY DEF IInv
<1>1. /\ armed' = [armed EXCEPT ![d] = h]
      /\ UNCHANGED <<shared, pc, item, blocks, private, posting, owes, edge>>
  BY DEF StartArmed, mine
<1>2. TypeOK'
  BY <1>0, <1>1 DEF TypeOK, shared
<1>3. Kept' /\ Posting'
  BY <1>0, <1>1 DEF Kept, Posting
<1> QED  BY <1>1, <1>2, <1>3, StaysPut

LEMMA StartDoneStep ==
  ASSUME IInv, NEW t \in Threads, NEW h \in Ops, NEW d \in Descriptors,
         StartDone(t, h, d)
  PROVE  IInv'
<1>0. TypeOK /\ Kept /\ Posting
  BY DEF IInv
<1>1. /\ posting' = [posting EXCEPT ![t] = h] /\ pc[t] \in {"idle", "handler"}
      /\ UNCHANGED <<shared, pc, item, blocks, private, owes, armed, edge>>
  BY DEF StartDone, MayStart
<1>2. TypeOK'
  BY <1>0, <1>1 DEF TypeOK, shared
<1>3. Kept' /\ Posting'
  BY <1>0, <1>1 DEF Kept, Posting, TypeOK
<1> QED  BY <1>1, <1>2, <1>3, StaysPut

LEMMA StartContinuationStep ==
  ASSUME IInv, NEW r \in Runners, NEW h \in Ops, NEW d \in Descriptors,
         StartContinuation(r, h, d)
  PROVE  IInv'
<1>0. TypeOK /\ Kept /\ Posting
  BY DEF IInv
<1>1. /\ private' = [private EXCEPT ![r] = Append(private[r], h)]
      /\ pc[r] \in {"idle", "handler"}
      /\ UNCHANGED <<shared, pc, item, blocks, posting, owes, armed, edge>>
  BY DEF StartContinuation, MayStart
<1>2. private[r] \in Seq(Ops \cup Descriptors)
  BY <1>0 DEF TypeOK
<1>3. /\ Append(private[r], h) \in Seq(Ops \cup Descriptors)
      /\ \A i \in 1 .. Len(Append(private[r], h)) :
           \/ i \in 1 .. Len(private[r]) /\ Append(private[r], h)[i] = private[r][i]
           \/ Append(private[r], h)[i] = h
  BY <1>2, AppendProperties
<1>4. TypeOK'
  BY <1>0, <1>1, <1>3 DEF TypeOK, shared
<1>5. Kept'
  <2> SUFFICES ASSUME NEW o \in Runners, pc[o] # "cleanup",
                      NEW i \in 1 .. Len(private'[o])
               PROVE  private'[o][i] \in Ops
    BY <1>1 DEF Kept
  <2>1. CASE o = r
    <3>1. private'[o] = Append(private[r], h)
      BY <1>0, <1>1, <2>1 DEF TypeOK
    <3>2. \A j \in 1 .. Len(private[r]) : private[r][j] \in Ops
      BY <1>0, <2>1 DEF Kept
    <3> QED  BY <1>3, <3>1, <3>2
  <2>2. CASE o # r
    <3>1. private'[o] = private[o]
      BY <1>0, <1>1, <2>2 DEF TypeOK
    <3> QED  BY <1>0, <3>1 DEF Kept
  <2> QED  BY <2>1, <2>2
<1>6. Posting'
  BY <1>0, <1>1 DEF Posting
<1> QED  BY <1>1, <1>4, <1>5, <1>6, StaysPut
-----------------------------------------------------------------------------
(* The theorems.                                                           *)

LEMMA InitInvariant ==
  ASSUME Init
  PROVE  IInv
<1>1. \A t \in Threads : pc[t] = IF t \in Runners THEN "start" ELSE "idle"
  BY DEF Init
<1>2. \A r \in Runners : r \in Threads /\ pc[r] = "start"
  BY <1>1 DEF Threads
<1>3. TypeOK
  <2>1. <<>> \in Seq(Items) /\ <<>> \in Seq(Ops \cup Descriptors) /\ IsFiniteSet({})
    BY FS_EmptySet
  <2>2. pc \in [Threads -> Places] /\ \A t \in Others : pc[t] \in {"idle", "stop"}
    BY SchedulerAssumption DEF Init, Places, Threads
  <2> QED  BY <1>2, <2>1, <2>2 DEF Init, TypeOK
<1>4. Polling = {}
  BY <1>2 DEF Polling
<1>5. OnePoller /\ TaskQueued
  <2>1. Len(<<>>) = 0
    OBVIOUS
  <2> QED  BY <1>4, <2>1 DEF Init, OnePoller, TaskQueued, Fits
<1>6. Kept
  <2>1. \A r \in Runners : private[r] = <<>>
    BY DEF Init
  <2> QED  BY <2>1 DEF Kept
<1>7. Posting /\ Interrupts /\ Signalled /\ PollerCovered /\ NoLostWakeup
  BY <1>2 DEF Init, Posting, Interrupts, Signalled, PollerCovered, NoLostWakeup
<1> QED  BY <1>3, <1>5, <1>6, <1>7 DEF IInv

LEMMA StutterInvariant ==
  ASSUME IInv, UNCHANGED vars
  PROVE  IInv'
<1>1. TypeOK'
  BY DEF IInv, TypeOK, vars
<1>2. Kept' /\ Posting'
  BY DEF IInv, Kept, Posting, vars
<1> QED  BY <1>1, <1>2, StaysPut DEF vars, shared

LEMMA NextInvariant ==
  ASSUME IInv, Next
  PROVE  IInv'
<1>1. \A t \in Threads : Pending(t) => IInv'
  BY SignalStep, PostStep, StopStep DEF Pending
<1>2. ASSUME NEW r \in Runners, Step(r) \/ Spurious(r)
      PROVE  IInv'
  <2>1. r \in Threads
    BY DEF Threads
  <2> QED  BY <1>1, <1>2, <2>1, RunStep, LockStep, WakeStep, PollStep, CleanupStep,
              DescriptorStep, HandlerReturnsStep, FinishStep, SpuriousStep DEF Step
<1>3. ASSUME NEW t \in Others, Other(t)
      PROVE  IInv'
  <2>1. t \in Threads
    BY DEF Threads
  <2> QED  BY <1>1, <1>3, <2>1, InitTaskStep, ReleaseGuardStep, AskStep DEF Other
<1>4. ASSUME NEW t \in Threads, Start(t)
      PROVE  IInv'
  BY <1>4, StartArmedStep, StartDoneStep, StartContinuationStep DEF Start
<1> QED  BY <1>2, <1>3, <1>4, EventStep DEF Next

(* Whatever the threads of a context do, in any number: the task is in one *)
(* place with operations behind it, an interrupted task has the event that *)
(* ends epoll_wait, and a thread that is not signalled has nothing to do.  *)
THEOREM Inductive == Spec => []IInv
<1>1. Init => IInv
  BY InitInvariant
<1>2. IInv /\ [Next]_vars => IInv'
  BY NextInvariant, StutterInvariant
<1> QED  BY <1>1, <1>2, PTL DEF Spec

(* The queues hold operations, descriptors and the task, and what a thread *)
(* holds is one of them.                                                   *)
THEOREM TypeCorrect == Spec => []TypeOK
<1>1. IInv => TypeOK
  BY DEF IInv
<1> QED  BY <1>1, Inductive, PTL

(* When the reactor runs, the descriptors it returned before have left the *)
(* queues: epoll_reactor::run may link each of them into a new one.        *)
THEOREM DescriptorsAreDequeued == Spec => []DescriptorsDequeued
<1>1. ASSUME IInv
      PROVE  DescriptorsDequeued
  <2> SUFFICES ASSUME NEW r \in Polling, NEW d \in Descriptors
               PROVE  /\ ~Contains(queue, d)
                      /\ \A o \in Runners \ {r} : ~Contains(private[o], d)
    BY DEF DescriptorsDequeued
  <2>1. d \notin Ops
    BY SchedulerAssumption
  <2>2. ~Contains(queue, d)
    BY <1>1, <2>1 DEF IInv, TaskQueued, Fits, Contains
  <2>3. ASSUME NEW o \in Runners \ {r}
        PROVE  ~Contains(private[o], d)
    <3>1. pc[o] # "cleanup"
      BY <1>1 DEF IInv, OnePoller, Polling
    <3> QED  BY <1>1, <2>1, <3>1 DEF IInv, Kept, Contains
  <2> QED  BY <2>2, <2>3
<1> QED  BY <1>1, Inductive, PTL

(* However many threads run the context, none is left waiting, or blocked  *)
(* in epoll_wait, with something queued and nobody on the way to it.       *)
THEOREM NoWakeupIsLost == Spec => []NoLostWakeup
<1>1. IInv => NoLostWakeup
  BY DEF IInv
<1> QED  BY <1>1, Inductive, PTL
-----------------------------------------------------------------------------
(* Where an operation is.                                                  *)

(* No operation is twice in a queue, or in two of the places where one can *)
(* be, or anywhere once it is done.                                        *)
Distinct(s) == \A i, j \in 1 .. Len(s) : s[i] = s[j] /\ s[i] \in Ops => i = j
OncePlaced(h) ==
  /\ Contains(queue, h) =>
       /\ \A r \in Runners : ~Contains(private[r], h) /\ item[r] # h
       /\ \A d \in Descriptors : armed[d] # h
       /\ \A t \in Threads : posting[t] # h
  /\ \A r \in Runners : Contains(private[r], h) =>
       /\ \A o \in Runners : item[o] # h /\ (o # r => ~Contains(private[o], h))
       /\ \A d \in Descriptors : armed[d] # h
       /\ \A t \in Threads : posting[t] # h
  /\ \A d \in Descriptors : armed[d] = h =>
       /\ \A e \in Descriptors : armed[e] = h => e = d
       /\ \A t \in Threads : posting[t] # h
       /\ \A r \in Runners : item[r] # h
  /\ \A t \in Threads : posting[t] = h =>
       /\ \A u \in Threads : posting[u] = h => u = t
       /\ \A r \in Runners : item[r] # h
  /\ \A r, o \in Runners : item[r] = h /\ item[o] = h => r = o
Nowhere(h) ==
  /\ ~Contains(queue, h)
  /\ \A r \in Runners : ~Contains(private[r], h) /\ item[r] # h
  /\ \A d \in Descriptors : armed[d] # h
  /\ \A t \in Threads : posting[t] # h
Once ==
  /\ Distinct(queue) /\ \A r \in Runners : Distinct(private[r])
  /\ \A h \in Ops : OncePlaced(h)
  /\ \A h \in done : Nowhere(h)

(* What a thread has of its own it has while a handler runs, or until it   *)
(* has queued it.                                                          *)
Own ==
  /\ outstanding \in Int /\ guard \in BOOLEAN /\ done \subseteq Ops
  /\ privateWork \in [Runners -> Nat]
  /\ \A r \in Runners :
       /\ item[r] # NoOp <=> pc[r] = "handler"
       /\ item[r] \in Descriptors => private[r] = <<>> /\ privateWork[r] = 0
       /\ private[r] # <<>> => pc[r] \in {"handler", "finish", "stop", "lock", "cleanup"}
       /\ privateWork[r] # 0 => pc[r] \in {"handler", "finish"}

Finite ==
  IsFiniteSet(PrivateWork) /\ IsFiniteSet(Queued) /\ IsFiniteSet(Executing)

WInv == IInv /\ Once /\ Own /\ Finite /\ WorkCounted
-----------------------------------------------------------------------------
(* What is in a queue.                                                     *)

LEMMA ContainsConcat ==
  ASSUME NEW S, NEW s \in Seq(S), NEW t \in Seq(S), NEW h
  PROVE  Contains(s \o t, h) <=> Contains(s, h) \/ Contains(t, h)
<1>1. /\ Len(s \o t) = Len(s) + Len(t)
      /\ \A i \in 1 .. Len(s) + Len(t) :
           (s \o t)[i] = IF i <= Len(s) THEN s[i] ELSE t[i - Len(s)]
  BY ConcatProperties
<1>2. Len(s) \in Nat /\ Len(t) \in Nat
  BY LenProperties
<1>3. ASSUME NEW i \in 1 .. Len(s \o t), (s \o t)[i] = h
      PROVE  Contains(s, h) \/ Contains(t, h)
  <2>1. i <= Len(s) => i \in 1 .. Len(s)
    BY <1>1, <1>2
  <2>2. ~(i <= Len(s)) => i - Len(s) \in 1 .. Len(t)
    BY <1>1, <1>2
  <2> QED  BY <1>1, <1>3, <2>1, <2>2 DEF Contains
<1>4. ASSUME NEW i \in 1 .. Len(s), s[i] = h
      PROVE  Contains(s \o t, h)
  <2>1. i \in 1 .. Len(s) + Len(t) /\ i <= Len(s)
    BY <1>2
  <2> QED  BY <1>1, <1>4, <2>1 DEF Contains
<1>5. ASSUME NEW i \in 1 .. Len(t), t[i] = h
      PROVE  Contains(s \o t, h)
  <2>1. PICK k \in 1 .. Len(s) + Len(t) : ~(k <= Len(s)) /\ k - Len(s) = i
    <3>1. /\ i + Len(s) \in 1 .. Len(s) + Len(t) /\ ~(i + Len(s) <= Len(s))
          /\ i + Len(s) - Len(s) = i
      BY <1>2
    <3> QED  BY <3>1
  <2> QED  BY <1>1, <1>5, <2>1 DEF Contains
<1> QED  BY <1>3, <1>4, <1>5 DEF Contains

LEMMA ContainsTail ==
  ASSUME NEW S, NEW q \in Seq(S), q # <<>>, NEW h
  PROVE  Contains(q, h) <=> Head(q) = h \/ Contains(Tail(q), h)
<1>1. /\ Len(q) \in Nat /\ Len(q) >= 1 /\ Head(q) = q[1]
      /\ Len(Tail(q)) = Len(q) - 1
      /\ \A i \in 1 .. Len(q) - 1 : Tail(q)[i] = q[i + 1]
  BY Pop
<1>2. ASSUME NEW i \in 1 .. Len(q), q[i] = h, i # 1
      PROVE  Contains(Tail(q), h)
  <2>1. PICK k \in 1 .. Len(q) - 1 : k + 1 = i
    <3>1. i - 1 \in 1 .. Len(q) - 1 /\ i - 1 + 1 = i
      BY <1>1, <1>2
    <3> QED  BY <3>1
  <2> QED  BY <1>1, <1>2, <2>1 DEF Contains
<1>3. ASSUME NEW i \in 1 .. Len(Tail(q)), Tail(q)[i] = h
      PROVE  Contains(q, h)
  <2>1. i \in 1 .. Len(q) - 1 /\ i + 1 \in 1 .. Len(q)
    BY <1>1
  <2> QED  BY <1>1, <1>3, <2>1 DEF Contains
<1>4. 1 \in 1 .. Len(q)
  BY <1>1
<1> QED  BY <1>1, <1>2, <1>3, <1>4 DEF Contains

LEMMA ContainsShort ==
  /\ \A h : ~Contains(<<>>, h)
  /\ \A e, h : Contains(<<e>>, h) <=> e = h
<1>1. Len(<<>>) = 0 /\ \A e : Len(<<e>>) = 1 /\ <<e>>[1] = e
  OBVIOUS
<1> QED  BY <1>1 DEF Contains

(* Of queues that have nothing in common the one behind the other repeats  *)
(* nothing.                                                                *)
LEMMA DistinctConcat ==
  ASSUME NEW S, NEW s \in Seq(S), NEW t \in Seq(S), Distinct(s), Distinct(t),
         \A h \in Ops : ~(Contains(s, h) /\ Contains(t, h))
  PROVE  Distinct(s \o t)
<1>1. /\ Len(s \o t) = Len(s) + Len(t)
      /\ \A i \in 1 .. Len(s) + Len(t) :
           (s \o t)[i] = IF i <= Len(s) THEN s[i] ELSE t[i - Len(s)]
  BY ConcatProperties
<1>2. Len(s) \in Nat /\ Len(t) \in Nat
  BY LenProperties
<1>3. ASSUME NEW i \in 1 .. Len(s \o t)
      PROVE  \/ i \in 1 .. Len(s) /\ (s \o t)[i] = s[i]
             \/ ~(i <= Len(s)) /\ i - Len(s) \in 1 .. Len(t) /\ (s \o t)[i] = t[i - Len(s)]
  BY <1>1, <1>2
<1> SUFFICES ASSUME NEW i \in 1 .. Len(s \o t), NEW j \in 1 .. Len(s \o t),
                    (s \o t)[i] = (s \o t)[j], (s \o t)[i] \in Ops
             PROVE  i = j
  BY DEF Distinct
<1>4. CASE i \in 1 .. Len(s) /\ (s \o t)[i] = s[i]
  <2>1. CASE j \in 1 .. Len(s) /\ (s \o t)[j] = s[j]
    BY <1>4, <2>1 DEF Distinct
  <2>2. CASE j - Len(s) \in 1 .. Len(t) /\ (s \o t)[j] = t[j - Len(s)]
    BY <1>4, <2>2 DEF Contains
  <2> QED  BY <1>3, <2>1, <2>2
<1>5. CASE ~(i <= Len(s)) /\ i - Len(s) \in 1 .. Len(t) /\ (s \o t)[i] = t[i - Len(s)]
  <2>1. CASE j \in 1 .. Len(s) /\ (s \o t)[j] = s[j]
    BY <1>5, <2>1 DEF Contains
  <2>2. CASE j - Len(s) \in 1 .. Len(t) /\ (s \o t)[j] = t[j - Len(s)]
    <3>1. i - Len(s) = j - Len(s)
      BY <1>5, <2>2 DEF Distinct
    <3> QED  BY <1>1, <1>2, <3>1
  <2> QED  BY <1>3, <2>1, <2>2
<1> QED  BY <1>3, <1>4, <1>5

LEMMA DistinctTail ==
  ASSUME NEW S, NEW q \in Seq(S), q # <<>>, Distinct(q)
  PROVE  /\ Distinct(Tail(q))
         /\ Head(q) \in Ops => ~Contains(Tail(q), Head(q))
<1>1. /\ Len(q) \in Nat /\ Len(q) >= 1 /\ Head(q) = q[1]
      /\ Len(Tail(q)) = Len(q) - 1
      /\ \A i \in 1 .. Len(q) - 1 : Tail(q)[i] = q[i + 1]
  BY Pop
<1>2. \A i \in 1 .. Len(Tail(q)) : /\ i + 1 \in 1 .. Len(q) /\ i + 1 # 1 /\ i \in Int
                                   /\ Tail(q)[i] = q[i + 1]
  BY <1>1
<1>3. Distinct(Tail(q))
  <2> SUFFICES ASSUME NEW i \in 1 .. Len(Tail(q)), NEW j \in 1 .. Len(Tail(q)),
                      Tail(q)[i] = Tail(q)[j], Tail(q)[i] \in Ops
               PROVE  i = j
    BY DEF Distinct
  <2>1. i + 1 = j + 1
    BY <1>2 DEF Distinct
  <2> QED  BY <1>2, <2>1
<1>4. Head(q) \in Ops => ~Contains(Tail(q), Head(q))
  <2>1. 1 \in 1 .. Len(q)
    BY <1>1
  <2> QED  BY <1>1, <1>2, <2>1 DEF Distinct, Contains
<1> QED  BY <1>3, <1>4

LEMMA DistinctShort ==
  Distinct(<<>>) /\ \A e : Distinct(<<e>>)
<1>1. Len(<<>>) = 0 /\ \A e : Len(<<e>>) = 1
  OBVIOUS
<1> QED  BY <1>1 DEF Distinct
-----------------------------------------------------------------------------
(* The count of work.                                                      *)

(* The work that threads have yet to add, unit by unit.                    *)
LEMMA PrivateUnits ==
  ASSUME NEW p
  PROVE  p \in PrivateWork <=>
           \E r \in Runners : \E i \in 1 .. privateWork[r] : p = <<r, i>>
BY DEF PrivateWork

LEMMA OneUnitMore ==
  ASSUME privateWork \in [Runners -> Nat], NEW r \in Runners, IsFiniteSet(PrivateWork),
         privateWork' = [privateWork EXCEPT ![r] = privateWork[r] + 1]
  PROVE  /\ IsFiniteSet(PrivateWork')
         /\ Cardinality(PrivateWork') = Cardinality(PrivateWork) + 1
<1> DEFINE new == <<r, privateWork[r] + 1>>
<1>1. privateWork[r] \in Nat
  OBVIOUS
<1>2. new \notin PrivateWork
  <2>1. privateWork[r] + 1 \notin 1 .. privateWork[r]
    BY <1>1
  <2> QED  BY <2>1, PrivateUnits
<1>3. PrivateWork' = PrivateWork \cup {new}
  <2>1. \A i : i \in 1 .. privateWork[r] + 1
                 <=> i \in 1 .. privateWork[r] \/ i = privateWork[r] + 1
    BY <1>1
  <2>2. \A o \in Runners : privateWork'[o] =
          IF o = r THEN privateWork[r] + 1 ELSE privateWork[o]
    OBVIOUS
  <2>3. ASSUME NEW p
        PROVE  p \in PrivateWork' <=>
                 \E o \in Runners : \E i \in 1 .. privateWork'[o] : p = <<o, i>>
    BY DEF PrivateWork
  <2>4. ASSUME NEW p \in PrivateWork'
        PROVE  p \in PrivateWork \cup {new}
    <3>1. PICK o \in Runners, i \in Nat : i \in 1 .. privateWork'[o] /\ p = <<o, i>>
      BY <2>3
    <3>2. CASE o = r
      BY <2>1, <2>2, <3>1, <3>2, PrivateUnits
    <3>3. CASE o # r
      BY <2>2, <3>1, <3>3, PrivateUnits
    <3> QED  BY <3>2, <3>3
  <2>5. ASSUME NEW p \in PrivateWork
        PROVE  p \in PrivateWork'
    <3>1. PICK o \in Runners, i \in Nat : i \in 1 .. privateWork[o] /\ p = <<o, i>>
      BY PrivateUnits
    <3>2. i \in 1 .. privateWork'[o]
      BY <1>1, <2>1, <2>2, <3>1
    <3> QED  BY <2>3, <3>1, <3>2
  <2>6. new \in PrivateWork'
    <3>1. privateWork[r] + 1 \in 1 .. privateWork'[r]
      BY <2>1, <2>2
    <3> QED  BY <2>3, <3>1
  <2> QED  BY <2>4, <2>5, <2>6
<1> HIDE DEF new
<1>4. IsFiniteSet(PrivateWork \cup {new})
      /\ Cardinality(PrivateWork \cup {new}) = Cardinality(PrivateWork) + 1
  BY <1>2, FS_AddElement
<1> QED  BY <1>3, <1>4

LEMMA UnitsAdded ==
  ASSUME privateWork \in [Runners -> Nat], NEW r \in Runners, IsFiniteSet(PrivateWork),
         privateWork' = [privateWork EXCEPT ![r] = 0]
  PROVE  /\ IsFiniteSet(PrivateWork')
         /\ Cardinality(PrivateWork') = Cardinality(PrivateWork) - privateWork[r]
<1> DEFINE mine_ == {r} \X (1 .. privateWork[r])
<1>1. privateWork[r] \in Nat
  OBVIOUS
<1>2. IsFiniteSet(mine_) /\ Cardinality(mine_) = privateWork[r]
  <2>1. IsFiniteSet(1 .. privateWork[r]) /\ Cardinality(1 .. privateWork[r]) = privateWork[r]
    <3>1. 1 \in Int /\ privateWork[r] \in Int
      BY <1>1
    <3>2. IsFiniteSet(1 .. privateWork[r])
          /\ Cardinality(1 .. privateWork[r])
               = IF 1 > privateWork[r] THEN 0 ELSE privateWork[r] - 1 + 1
      BY <3>1, FS_Interval
    <3> QED  BY <1>1, <3>2
  <2>2. IsFiniteSet({r}) /\ Cardinality({r}) = 1
    BY FS_Singleton
  <2>3. IsFiniteSet(mine_) /\ Cardinality(mine_) = 1 * privateWork[r]
    <3> DEFINE A == {r}
               B == 1 .. privateWork[r]
    <3>1. IsFiniteSet(A) /\ IsFiniteSet(B) /\ Cardinality(A) = 1
          /\ Cardinality(B) = privateWork[r]
      BY <2>1, <2>2
    <3> HIDE DEF A, B
    <3>2. IsFiniteSet(A \X B) /\ Cardinality(A \X B) = Cardinality(A) * Cardinality(B)
      BY <3>1, FS_Product
    <3>3. IsFiniteSet(A \X B) /\ Cardinality(A \X B) = 1 * privateWork[r]
      BY <3>1, <3>2
    <3> QED  BY <3>3 DEF A, B
  <2> QED  BY <1>1, <2>3
<1>3. mine_ \subseteq PrivateWork
  BY PrivateUnits
<1>4. PrivateWork' = PrivateWork \ mine_
  <2>1. 1 .. 0 = {}
    OBVIOUS
  <2>2. \A o \in Runners : privateWork'[o] = IF o = r THEN 0 ELSE privateWork[o]
    OBVIOUS
  <2>3. ASSUME NEW p
        PROVE  p \in PrivateWork' <=>
                 \E o \in Runners : \E i \in 1 .. privateWork'[o] : p = <<o, i>>
    BY DEF PrivateWork
  <2>4. ASSUME NEW p \in PrivateWork'
        PROVE  p \in PrivateWork \ mine_
    <3>1. PICK o \in Runners, i \in Nat : i \in 1 .. privateWork'[o] /\ p = <<o, i>>
      BY <2>3
    <3>2. o # r /\ privateWork'[o] = privateWork[o]
      BY <2>1, <2>2, <3>1
    <3> QED  BY <3>1, <3>2, PrivateUnits
  <2>5. ASSUME NEW p \in PrivateWork \ mine_
        PROVE  p \in PrivateWork'
    <3>1. PICK o \in Runners, i \in Nat : i \in 1 .. privateWork[o] /\ p = <<o, i>>
      BY PrivateUnits
    <3>2. o # r
      BY <3>1
    <3>3. i \in 1 .. privateWork'[o]
      BY <2>2, <3>1, <3>2
    <3> QED  BY <2>3, <3>1, <3>3
  <2> QED  BY <2>4, <2>5
<1> HIDE DEF mine_
<1>5. PrivateWork \cap mine_ = mine_
  BY <1>3
<1>6. IsFiniteSet(PrivateWork \ mine_)
      /\ Cardinality(PrivateWork \ mine_) = Cardinality(PrivateWork) - Cardinality(mine_)
  BY <1>5, FS_Difference
<1> QED  BY <1>2, <1>4, <1>6

(* A turn takes what it executes out of the places where it was.           *)
LEMMA OnceTaken ==
  ASSUME TypeOK, Once, done \subseteq Ops, NEW r \in Runners, NEW q, NEW e,
         \A h \in Ops : Contains(q, h) <=> Contains(queue, h) \/ Contains(private[r], h),
         \A h \in Ops : Contains(queue', h) => Contains(q, h),
         Distinct(queue'), private' = [private EXCEPT ![r] = <<>>],
         item' = [item EXCEPT ![r] = e],
         e \in Ops => Contains(q, e) /\ ~Contains(queue', e),
         UNCHANGED <<armed, posting, done>>
  PROVE  Once'
<1>1. /\ private'[r] = <<>> /\ item'[r] = e
      /\ \A o \in Runners : o # r => private'[o] = private[o] /\ item'[o] = item[o]
  BY DEF TypeOK
<1>2. \A h : ~Contains(private'[r], h)
  BY <1>1, ContainsShort
<1>3. \A o \in Runners : Distinct(private'[o])
  BY <1>1, DistinctShort DEF Once
<1>4. ASSUME NEW h \in Ops
      PROVE  OncePlaced(h)'
  <2>1. OncePlaced(h)
    BY DEF Once
  <2>2. Contains(queue', h) => Contains(queue, h) \/ Contains(private[r], h)
    OBVIOUS
  <2>3. e = h => /\ Contains(queue, h) \/ Contains(private[r], h)
                 /\ ~Contains(queue', h)
    OBVIOUS
  <2> QED  BY <1>1, <1>2, <2>1, <2>2, <2>3 DEF OncePlaced
<1>5. ASSUME NEW h \in done
      PROVE  Nowhere(h)'
  <2>1. Nowhere(h) /\ h \in Ops
    BY DEF Once
  <2>2. Contains(queue', h) => Contains(queue, h) \/ Contains(private[r], h)
    BY <2>1
  <2>3. e = h => Contains(queue, h) \/ Contains(private[r], h)
    BY <2>1
  <2> QED  BY <1>1, <1>2, <2>1, <2>2, <2>3 DEF Nowhere
<1> QED  BY <1>3, <1>4, <1>5 DEF Once

LEMMA WorkTurn ==
  ASSUME WInv, NEW r \in Runners, pc[r] \in {"lock", "woken", "cleanup"},
         NEW q \in Seq(Items), NEW ti, Turn(r, q, ti), Distinct(q),
         \A h \in Ops : Contains(q, h) <=> Contains(queue, h) \/ Contains(private[r], h),
         private' = [private EXCEPT ![r] = <<>>],
         UNCHANGED <<outstanding, privateWork, posting, armed, guard, done>>
  PROVE  Once' /\ Own' /\ Finite' /\ WorkCounted'
<1>0. /\ TypeOK /\ Once /\ Own /\ Finite /\ WorkCounted /\ done \subseteq Ops
      /\ r \in Threads
  BY DEF WInv, IInv, Own, Threads
<1>1. /\ item[r] = NoOp /\ privateWork[r] = 0 /\ NoOp \notin Ops \cup Descriptors
      /\ Task \notin Ops
  BY <1>0, SchedulerAssumption DEF Own
<1>2. \A o \in Runners : o # r => pc'[o] = pc[o]
  BY <1>0, TurnElsewhere
<1>3. /\ private'[r] = <<>>
      /\ \A o \in Runners : o # r => private'[o] = private[o]
  BY <1>0 DEF TypeOK
<1>4. \A h : ~Contains(private'[r], h)
  BY <1>3, ContainsShort
<1>5. PrivateWork' = PrivateWork
  BY DEF PrivateWork
<1>6. ASSUME NEW h \in Ops
      PROVE  /\ h \in Queued <=> \/ Contains(q, h)
                                 \/ \E d \in Descriptors : armed[d] = h
                                 \/ \E t \in Threads : posting[t] = h
                                 \/ \E o \in Runners \ {r} : Contains(private[o], h)
             /\ h \in Queued' <=> \/ Contains(queue', h)
                                  \/ \E d \in Descriptors : armed[d] = h
                                  \/ \E t \in Threads : posting[t] = h
                                  \/ \E o \in Runners \ {r} : Contains(private[o], h)
  BY <1>3, <1>4 DEF Queued
<1>7. CASE /\ item' = item /\ pc'[r] \in {"returned", "wait", "task"}
           /\ Distinct(queue')
           /\ \A h \in Ops : Contains(queue', h) <=> Contains(q, h)
  <2>1. Queued' = Queued
    BY <1>6, <1>7 DEF Queued
  <2>2. Executing' = Executing
    BY <1>0, <1>2, <1>7 DEF Executing
  <2>3. Once'
    <3>1. item' = [item EXCEPT ![r] = NoOp]
      BY <1>0, <1>1, <1>7 DEF TypeOK
    <3> QED  BY <1>0, <1>1, <1>7, <3>1, OnceTaken
  <2>4. Own'
    BY <1>0, <1>1, <1>2, <1>3, <1>7 DEF Own
  <2> QED  BY <1>0, <1>5, <2>1, <2>2, <2>3, <2>4 DEF Finite, WorkCounted
<1>8. CASE TurnHandles(r, q, ti)
  <2>1. /\ q # <<>> /\ Head(q) # Task /\ queue' = Tail(q) /\ Go(r, "handler")
        /\ item' = [item EXCEPT ![r] = Head(q)]
    BY <1>8 DEF TurnHandles
  <2>2. Head(q) \in Items
    BY <2>1, Pop
  <2>3. /\ Distinct(queue')
        /\ Head(q) \in Ops => ~Contains(queue', Head(q))
        /\ \A h : Contains(q, h) <=> Head(q) = h \/ Contains(queue', h)
    BY <2>1, DistinctTail, ContainsTail
  <2>4. Once'
    BY <1>0, <2>1, <2>3, OnceTaken
  <2>5. /\ item'[r] = Head(q) /\ pc'[r] = "handler"
        /\ \A o \in Runners : o # r => item'[o] = item[o]
    BY <1>0, <2>1 DEF TypeOK, Go
  <2>6. Head(q) # NoOp /\ Head(q) \in Ops \cup Descriptors
    BY <2>1, <2>2, SchedulerAssumption DEF Items
  <2>7. Own'
    BY <1>0, <1>1, <1>2, <1>3, <2>5, <2>6 DEF Own
  <2>8. CASE Head(q) \in Ops
    <3> DEFINE h == Head(q)
    <3>1. h \in Queued
      BY <1>6, <2>3, <2>8
    <3>2. h \notin Queued'
      <4>1. OncePlaced(h) /\ (Contains(queue, h) \/ Contains(private[r], h))
        BY <1>0, <2>3, <2>8 DEF Once
      <4> QED  BY <1>6, <2>3, <2>8, <4>1 DEF OncePlaced
    <3>3. Queued' = Queued \ {h}
      BY <1>6, <2>3, <2>8, <3>2 DEF Queued
    <3>4. r \notin Executing /\ Executing' = Executing \cup {r}
      BY <1>0, <1>1, <1>2, <2>5, <2>8 DEF Executing
    <3> HIDE DEF h
    <3>5. /\ IsFiniteSet(Queued \ {h})
          /\ Cardinality(Queued \ {h}) = Cardinality(Queued) - 1
      BY <1>0, <3>1, FS_RemoveElement DEF Finite
    <3>6. /\ IsFiniteSet(Executing \cup {r})
          /\ Cardinality(Executing \cup {r}) = Cardinality(Executing) + 1
      BY <1>0, <3>4, FS_AddElement DEF Finite
    <3>7. Finite'
      BY <1>0, <1>5, <3>3, <3>4, <3>5, <3>6 DEF Finite
    <3>8. WorkCounted'
      <4>1. Cardinality(Queued) \in Nat /\ Cardinality(Executing) \in Nat
            /\ Cardinality(PrivateWork) \in Nat
        BY <1>0, FS_CardinalityType DEF Finite
      <4> QED  BY <1>0, <1>5, <3>3, <3>4, <3>5, <3>6, <4>1 DEF WorkCounted, Own
    <3> QED  BY <2>4, <2>7, <3>7, <3>8
  <2>9. CASE Head(q) \in Descriptors
    <3>1. Head(q) \notin Ops
      BY <2>9, SchedulerAssumption
    <3>2. Queued' = Queued
      BY <1>6, <2>3, <3>1 DEF Queued
    <3>3. Executing' = Executing
      BY <1>0, <1>1, <1>2, <2>5, <3>1 DEF Executing
    <3> QED  BY <1>0, <1>5, <2>4, <2>7, <3>2, <3>3 DEF Finite, WorkCounted
  <2> QED  BY <2>6, <2>8, <2>9
<1>9. CASE TurnReturns(r, q, ti) \/ TurnWaits(r, q, ti)
  <2>1. queue' = q /\ item' = item /\ (Go(r, "returned") \/ Go(r, "wait"))
    BY <1>9 DEF TurnReturns, TurnWaits
  <2>2. pc'[r] \in {"returned", "wait", "task"}
    BY <1>0, <2>1 DEF Go, TypeOK
  <2> QED  BY <1>7, <2>1, <2>2
<1>10. CASE TurnTakesTask(r, q)
  <2>1. q # <<>> /\ Head(q) = Task /\ queue' = Tail(q) /\ item' = item /\ Go(r, "task")
    BY <1>10 DEF TurnTakesTask
  <2>2. pc'[r] \in {"returned", "wait", "task"}
    BY <1>0, <2>1 DEF Go, TypeOK
  <2>3. Distinct(queue') /\ \A h : Contains(q, h) <=> Head(q) = h \/ Contains(queue', h)
    BY <2>1, DistinctTail, ContainsTail
  <2> QED  BY <1>1, <1>7, <2>1, <2>2, <2>3
<1> QED  BY <1>0, <1>8, <1>9, <1>10, TurnCases

(* What a thread kept private joins the queue, and the task behind it.     *)
LEMMA KeptJoins ==
  ASSUME TypeOK, Once, NEW r \in Runners
  PROVE  /\ queue \o private[r] \in Seq(Items)
         /\ Distinct(queue \o private[r])
         /\ \A h : Contains(queue \o private[r], h)
                     <=> Contains(queue, h) \/ Contains(private[r], h)
<1>1. queue \in Seq(Items) /\ private[r] \in Seq(Items)
  <2>1. private[r] \in Seq(Ops \cup Descriptors) /\ queue \in Seq(Items)
    BY DEF TypeOK
  <2> QED  BY <2>1, SeqMonotonic DEF Items
<1>2. Distinct(queue) /\ Distinct(private[r])
  BY DEF Once
<1>3. \A h \in Ops : ~(Contains(queue, h) /\ Contains(private[r], h))
  BY DEF Once, OncePlaced
<1> QED  BY <1>1, <1>2, <1>3, ConcatProperties, ContainsConcat, DistinctConcat

LEMMA TaskJoins ==
  ASSUME TypeOK, Once, NEW r \in Runners
  PROVE  /\ queue \o private[r] \o <<Task>> \in Seq(Items)
         /\ Distinct(queue \o private[r] \o <<Task>>)
         /\ \A h \in Ops : Contains(queue \o private[r] \o <<Task>>, h)
                             <=> Contains(queue, h) \/ Contains(private[r], h)
<1> DEFINE p == queue \o private[r]
           last == <<Task>>
<1>1. /\ p \in Seq(Items) /\ Distinct(p) /\ Task \notin Ops
      /\ \A h : Contains(p, h) <=> Contains(queue, h) \/ Contains(private[r], h)
  BY KeptJoins, SchedulerAssumption
<1>2. /\ last \in Seq(Items) /\ Distinct(last)
      /\ \A h : Contains(last, h) <=> h = Task
  BY DistinctShort, ContainsShort DEF Items
<1> HIDE DEF p, last
<1>3. p \o last \in Seq(Items)
  BY <1>1, <1>2, ConcatProperties
<1>4. \A h : Contains(p \o last, h) <=> Contains(p, h) \/ h = Task
  BY <1>1, <1>2, ContainsConcat
<1>5. Distinct(p \o last)
  BY <1>1, <1>2, DistinctConcat
<1>6. \A h \in Ops : Contains(p \o last, h) <=> Contains(queue, h) \/ Contains(private[r], h)
  BY <1>1, <1>4
<1> QED  BY <1>3, <1>5, <1>6 DEF p, last

LEMMA WorkLock ==
  ASSUME WInv, NEW r \in Runners, Lock(r)
  PROVE  Once' /\ Own' /\ Finite' /\ WorkCounted'
<1> DEFINE q == queue \o private[r]
<1>1. /\ q \in Seq(Items) /\ Distinct(q)
      /\ \A h \in Ops : Contains(q, h) <=> Contains(queue, h) \/ Contains(private[r], h)
  BY KeptJoins DEF WInv, IInv
<1>2. /\ pc[r] = "lock" /\ Turn(r, q, interrupted)
      /\ private' = [private EXCEPT ![r] = <<>>]
      /\ UNCHANGED <<outstanding, privateWork, posting, armed, guard, done>>
  BY DEF Lock, At, reactor
<1> HIDE DEF q
<1> QED  BY <1>1, <1>2, WorkTurn

LEMMA WorkCleanup ==
  ASSUME WInv, NEW r \in Runners, Cleanup(r)
  PROVE  Once' /\ Own' /\ Finite' /\ WorkCounted'
<1> DEFINE q == queue \o private[r] \o <<Task>>
<1>1. /\ q \in Seq(Items) /\ Distinct(q)
      /\ \A h \in Ops : Contains(q, h) <=> Contains(queue, h) \/ Contains(private[r], h)
  BY TaskJoins DEF WInv, IInv
<1>2. /\ pc[r] = "cleanup" /\ Turn(r, q, TRUE)
      /\ private' = [private EXCEPT ![r] = <<>>]
      /\ UNCHANGED <<outstanding, privateWork, posting, armed, guard, done>>
  BY DEF Cleanup, At, reactor
<1> HIDE DEF q
<1> QED  BY <1>1, <1>2, WorkTurn

(* The steps in which nothing is started, taken or done.                   *)
LEMMA WorkAside ==
  ASSUME WInv,
         UNCHANGED <<queue, private, privateWork, item, armed, posting, outstanding,
                     guard, done>>,
         \A r \in Runners :
           \/ pc'[r] = pc[r]
           \/ /\ pc[r] \notin {"handler", "finish"} /\ pc'[r] \notin {"handler", "finish"}
              /\ private[r] # <<>> => pc'[r] = "lock"
  PROVE  Once' /\ Own' /\ Finite' /\ WorkCounted'
<1>0. Once /\ Own /\ Finite /\ WorkCounted
  BY DEF WInv
<1>1. PrivateWork' = PrivateWork /\ Queued' = Queued
  BY DEF PrivateWork, Queued
<1>2. Executing' = Executing
  BY DEF Executing
<1>3. Once'
  BY <1>0 DEF Once, OncePlaced, Nowhere
<1>4. Own'
  BY <1>0 DEF Own
<1> QED  BY <1>0, <1>1, <1>2, <1>3, <1>4 DEF Finite, WorkCounted

LEMMA WorkWake ==
  ASSUME WInv, NEW r \in Runners, Wake(r)
  PROVE  Once' /\ Own' /\ Finite' /\ WorkCounted'
<1>0. TypeOK /\ Once /\ Own
  BY DEF WInv, IInv
<1>1. /\ pc[r] = "woken"
      /\ UNCHANGED <<outstanding, private, privateWork, posting, armed, guard, done>>
  BY DEF Wake, At, reactor
<1>2. private[r] = <<>>
  BY <1>0, <1>1 DEF Own
<1>3. CASE signalled
  <2>1. Turn(r, queue, interrupted) /\ queue \in Seq(Items)
    BY <1>0, <1>3 DEF Wake, TypeOK
  <2>2. private' = [private EXCEPT ![r] = <<>>]
    BY <1>0, <1>1, <1>2 DEF TypeOK
  <2>3. Distinct(queue)
    BY <1>0 DEF Once
  <2>4. \A h \in Ops : Contains(queue, h) <=> Contains(queue, h) \/ Contains(private[r], h)
    BY <1>2, ContainsShort
  <2> QED  BY <1>1, <2>1, <2>2, <2>3, <2>4, WorkTurn
<1>4. CASE ~signalled
  <2>1. Go(r, "wait") /\ UNCHANGED <<queue, item>>
    BY <1>4 DEF Wake, shared
  <2>2. \A o \in Runners : pc'[o] = IF o = r THEN "wait" ELSE pc[o]
    BY <1>0, <2>1 DEF Go, TypeOK, Threads
  <2> QED  BY <1>1, <1>2, <2>1, <2>2, WorkAside
<1> QED  BY <1>3, <1>4

LEMMA WorkPlain ==
  ASSUME WInv
  PROVE  /\ \A r \in Runners : Run(r) \/ Spurious(r) =>
              Once' /\ Own' /\ Finite' /\ WorkCounted'
         /\ \A t \in Threads : Stop(t) \/ Signal(t) =>
              Once' /\ Own' /\ Finite' /\ WorkCounted'
         /\ \A t \in Others : Ask(t) => Once' /\ Own' /\ Finite' /\ WorkCounted'
         /\ \A d \in Descriptors : Event(d) =>
              Once' /\ Own' /\ Finite' /\ WorkCounted'
<1>0. TypeOK /\ Own
  BY DEF WInv, IInv
<1>1. ASSUME NEW r \in Runners, Run(r)
      PROVE  Once' /\ Own' /\ Finite' /\ WorkCounted'
  <2>1. /\ pc[r] = "start"
        /\ UNCHANGED <<queue, private, privateWork, item, armed, posting, outstanding,
                       guard, done>>
    BY <1>1 DEF Run, At, shared, mine, reactor
  <2>2. \A o \in Runners : IF o = r THEN pc'[o] \in {"stop", "lock"} ELSE pc'[o] = pc[o]
    BY <1>0, <1>1 DEF Run, Go, TypeOK, Threads
  <2>3. private[r] = <<>>
    BY <1>0, <2>1 DEF Own
  <2> QED  BY <2>1, <2>2, <2>3, WorkAside
<1>2. ASSUME NEW r \in Runners, Spurious(r)
      PROVE  Once' /\ Own' /\ Finite' /\ WorkCounted'
  <2>1. /\ pc[r] = "wait"
        /\ UNCHANGED <<queue, private, privateWork, item, armed, posting, outstanding,
                       guard, done>>
    BY <1>2 DEF Spurious, shared, mine, reactor
  <2>2. \A o \in Runners : IF o = r THEN pc'[o] = "woken" ELSE pc'[o] = pc[o]
    BY <1>0, <1>2 DEF Spurious, Go, TypeOK, Threads
  <2>3. private[r] = <<>>
    BY <1>0, <2>1 DEF Own
  <2> QED  BY <2>1, <2>2, <2>3, WorkAside
<1>3. ASSUME NEW t \in Threads, Stop(t)
      PROVE  Once' /\ Own' /\ Finite' /\ WorkCounted'
  <2>1. UNCHANGED <<queue, private, privateWork, item, armed, posting, outstanding,
                    guard, done>>
    BY <1>3 DEF Stop, mine, reactor
  <2>2. \A o \in Runners :
          \/ pc'[o] = pc[o]
          \/ pc[o] = "stop" /\ pc'[o] = "lock"
          \/ pc[o] = "wait" /\ pc'[o] = "woken"
    BY <1>3 DEF Stop, At, Threads
  <2>3. \A o \in Runners : pc[o] = "wait" => private[o] = <<>>
    BY <1>0 DEF Own
  <2> QED  BY <2>1, <2>2, <2>3, WorkAside
<1>4. ASSUME NEW t \in Threads, Signal(t)
      PROVE  Once' /\ Own' /\ Finite' /\ WorkCounted'
  <2>1. UNCHANGED <<queue, private, privateWork, item, armed, posting, outstanding,
                    guard, done>>
    BY <1>4 DEF Signal, shared, mine, reactor
  <2>2. \A o \in Runners : pc'[o] = pc[o] \/ (pc[o] = "wait" /\ pc'[o] = "woken")
    BY <1>0, <1>4 DEF Signal, Go, TypeOK, Threads
  <2>3. \A o \in Runners : pc[o] = "wait" => private[o] = <<>>
    BY <1>0 DEF Own
  <2> QED  BY <2>1, <2>2, <2>3, WorkAside
<1>5. ASSUME NEW t \in Others, Ask(t)
      PROVE  Once' /\ Own' /\ Finite' /\ WorkCounted'
  <2>1. UNCHANGED <<queue, private, privateWork, item, armed, posting, outstanding,
                    guard, done>>
    BY <1>5 DEF Ask, shared, mine, reactor
  <2>2. \A o \in Runners : pc'[o] = pc[o]
    BY <1>0, <1>5, SchedulerAssumption DEF Ask, Go, TypeOK, Threads
  <2> QED  BY <2>1, <2>2, WorkAside
<1>6. ASSUME NEW d \in Descriptors, Event(d)
      PROVE  Once' /\ Own' /\ Finite' /\ WorkCounted'
  <2>1. UNCHANGED <<queue, private, privateWork, item, armed, posting, outstanding,
                    guard, done, pc>>
    BY <1>6 DEF Event, shared, mine
  <2> QED  BY <2>1, WorkAside
<1> QED  BY <1>1, <1>2, <1>3, <1>4, <1>5, <1>6

(* What the task returns are descriptors.                                  *)
LEMMA WorkPoll ==
  ASSUME WInv, NEW r \in Runners, Poll(r)
  PROVE  Once' /\ Own' /\ Finite' /\ WorkCounted' /\ Queued' = Queued
<1>0. TypeOK /\ Once /\ Own /\ Finite /\ WorkCounted /\ done \subseteq Ops
  BY DEF WInv, IInv, Own
<1>1. /\ pc[r] = "task"
      /\ UNCHANGED <<queue, item, armed, posting, privateWork, outstanding, guard, done>>
  BY DEF Poll, At
<1>2. \A o \in Runners : IF o = r THEN pc'[o] = "cleanup" ELSE pc'[o] = pc[o]
  BY <1>0 DEF Poll, Go, TypeOK, Threads
<1>3. PICK ops \in SetToSeqs(edge) : private' = [private EXCEPT ![r] = ops]
  BY DEF Poll
<1>4. ops \in Seq(Descriptors) /\ \A i \in 1 .. Len(ops) : ops[i] \notin Ops
  <2>1. ops \in Seq(edge) /\ edge \subseteq Descriptors
    BY <1>0, <1>3, Returned DEF TypeOK
  <2>2. ops \in Seq(Descriptors)
    BY <2>1, SeqMonotonic
  <2>3. \A i \in 1 .. Len(ops) : ops[i] \in Descriptors
    BY <2>2, ElementOfSeq
  <2> QED  BY <2>2, <2>3, SchedulerAssumption
<1>5. /\ private[r] = <<>> /\ private'[r] = ops
      /\ \A o \in Runners : o # r => private'[o] = private[o]
  BY <1>0, <1>1, <1>3 DEF Own, TypeOK
<1>6. \A h \in Ops : \A o \in Runners : Contains(private'[o], h) <=> Contains(private[o], h)
  <2>1. \A h \in Ops : ~Contains(ops, h) /\ ~Contains(<<>>, h)
    BY <1>4, ContainsShort DEF Contains
  <2> QED  BY <1>5, <2>1
<1>7. Once'
  <2>1. \A o \in Runners : Distinct(private'[o])
    BY <1>0, <1>4, <1>5 DEF Once, Distinct
  <2>2. \A h \in Ops : OncePlaced(h)'
    BY <1>0, <1>1, <1>6 DEF Once, OncePlaced
  <2>3. \A h \in done : Nowhere(h)'
    BY <1>0, <1>1, <1>6 DEF Once, Nowhere
  <2> QED  BY <1>0, <1>1, <2>1, <2>2, <2>3 DEF Once
<1>8. Own'
  <2>1. item[r] = NoOp /\ NoOp \notin Descriptors
    BY <1>0, <1>1, SchedulerAssumption DEF Own
  <2> QED  BY <1>0, <1>1, <1>2, <1>5, <2>1 DEF Own
<1>9. PrivateWork' = PrivateWork
  BY <1>1 DEF PrivateWork
<1>10. Queued' = Queued
  BY <1>1, <1>6 DEF Queued
<1>11. Executing' = Executing
  BY <1>1, <1>2 DEF Executing
<1> QED  BY <1>0, <1>1, <1>7, <1>8, <1>9, <1>10, <1>11 DEF Finite, WorkCounted

(* The task is no work.                                                    *)
LEMMA WorkInitTask ==
  ASSUME WInv, NEW t \in Others, InitTask(t)
  PROVE  Once' /\ Own' /\ Finite' /\ WorkCounted' /\ Queued' = Queued
<1> DEFINE last == <<Task>>
<1>0. TypeOK /\ Once /\ Own /\ Finite /\ WorkCounted /\ done \subseteq Ops /\ Task \notin Ops
  BY SchedulerAssumption DEF WInv, IInv, Own
<1>1. UNCHANGED <<pc, item, armed, posting, private, privateWork, outstanding, guard, done>>
  BY DEF InitTask, mine, reactor
<1>2. queue' = queue \o last /\ queue \in Seq(Items)
  <2>1. queue \in Seq(Items) /\ Task \in Items /\ queue' = Append(queue, Task)
    BY <1>0 DEF TypeOK, Items, InitTask
  <2> QED  BY <2>1, AppendIsConcat
<1>3. /\ last \in Seq(Items) /\ Distinct(last)
      /\ \A h : Contains(last, h) <=> h = Task
  BY DistinctShort, ContainsShort DEF Items
<1> HIDE DEF last
<1>4. \A h \in Ops : Contains(queue', h) <=> Contains(queue, h)
  BY <1>0, <1>2, <1>3, ContainsConcat
<1>5. Once'
  <2>1. Distinct(queue')
    BY <1>0, <1>2, <1>3, DistinctConcat DEF Once
  <2>2. \A h \in Ops : OncePlaced(h)'
    BY <1>0, <1>1, <1>4 DEF Once, OncePlaced
  <2>3. \A h \in done : Nowhere(h)'
    BY <1>0, <1>1, <1>4 DEF Once, Nowhere
  <2> QED  BY <1>0, <1>1, <2>1, <2>2, <2>3 DEF Once
<1>6. Own'
  BY <1>0, <1>1 DEF Own
<1>7. PrivateWork' = PrivateWork /\ Executing' = Executing
  BY <1>1 DEF PrivateWork, Executing
<1>8. Queued' = Queued
  BY <1>1, <1>4 DEF Queued
<1> QED  BY <1>0, <1>1, <1>5, <1>6, <1>7, <1>8 DEF Finite, WorkCounted

(* An operation that was counted before is queued.                         *)
LEMMA WorkPost ==
  ASSUME WInv, NEW t \in Threads, Post(t)
  PROVE  Once' /\ Own' /\ Finite' /\ WorkCounted' /\ Queued' = Queued
<1> DEFINE h == posting[t]
           last == <<h>>
<1>0. TypeOK /\ Once /\ Own /\ Finite /\ WorkCounted /\ done \subseteq Ops
  BY DEF WInv, IInv, Own
<1>1. UNCHANGED <<pc, item, armed, private, privateWork, outstanding, guard, done>>
  BY DEF Post, reactor
<1>2. h \in Ops /\ posting' = [posting EXCEPT ![t] = NoOp] /\ queue' = Append(queue, h)
  BY <1>0 DEF Post, TypeOK
<1>3. /\ posting'[t] = NoOp /\ NoOp \notin Ops
      /\ \A u \in Threads : u # t => posting'[u] = posting[u]
  BY <1>0, <1>2, SchedulerAssumption DEF TypeOK
<1>4. queue' = queue \o last /\ queue \in Seq(Items) /\ last \in Seq(Items)
  <2>1. queue \in Seq(Items) /\ h \in Items
    BY <1>0, <1>2 DEF TypeOK, Items
  <2> QED  BY <1>2, <2>1, AppendIsConcat
<1>5. Distinct(last) /\ \A g : Contains(last, g) <=> g = h
  BY DistinctShort, ContainsShort
<1> HIDE DEF last
<1>6. \A g : Contains(queue', g) <=> Contains(queue, g) \/ g = h
  BY <1>4, <1>5, ContainsConcat
<1>7. OncePlaced(h) /\ h \notin done
  BY <1>0, <1>2 DEF Once, Nowhere
<1>8. Once'
  <2>1. Distinct(queue')
    BY <1>0, <1>4, <1>5, <1>7, DistinctConcat DEF Once, OncePlaced
  <2>2. ASSUME NEW g \in Ops
        PROVE  OncePlaced(g)'
    <3>1. OncePlaced(g)
      BY <1>0 DEF Once
    <3>2. CASE g = h
      <4> HIDE DEF h
      <4>1. ~Contains(queue, h) /\ posting[t] = h
        BY <1>7 DEF OncePlaced, h
      <4> QED  BY <1>1, <1>3, <1>7, <3>2, <4>1 DEF OncePlaced
    <3>3. CASE g # h
      <4>1. Contains(queue', g) <=> Contains(queue, g)
        BY <1>6, <3>3
      <4>2. \A u \in Threads : posting'[u] = g <=> posting[u] = g
        BY <1>3, <3>3
      <4> QED  BY <1>1, <3>1, <4>1, <4>2 DEF OncePlaced
    <3> QED  BY <3>2, <3>3
  <2>3. \A g \in done : Nowhere(g)'
    BY <1>0, <1>1, <1>3, <1>6, <1>7 DEF Once, Nowhere
  <2> QED  BY <1>0, <1>1, <2>1, <2>2, <2>3 DEF Once
<1>9. Own'
  BY <1>0, <1>1 DEF Own
<1>10. PrivateWork' = PrivateWork /\ Executing' = Executing
  BY <1>1 DEF PrivateWork, Executing
<1>11. Queued' = Queued
  BY <1>1, <1>2, <1>3, <1>6 DEF Queued
<1> QED  BY <1>0, <1>1, <1>8, <1>9, <1>10, <1>11 DEF Finite, WorkCounted

(* The operation at a descriptor is executed, or there is none and one     *)
(* more unit of work makes up for it.                                      *)
LEMMA WorkDescriptor ==
  ASSUME WInv, NEW r \in Runners, Descriptor(r)
  PROVE  Once' /\ Own' /\ Finite' /\ WorkCounted'
<1> DEFINE d == item[r]
           h == armed[d]
<1>0. TypeOK /\ Once /\ Own /\ Finite /\ WorkCounted /\ done \subseteq Ops
  BY DEF WInv, IInv, Own
<1>1. /\ pc[r] = "handler" /\ d \in Descriptors /\ d \notin Ops
      /\ UNCHANGED <<queue, private, posting, outstanding, guard, done>>
  BY SchedulerAssumption DEF Descriptor, At, shared
<1>2. private[r] = <<>> /\ privateWork[r] = 0 /\ r \notin Executing
  BY <1>0, <1>1 DEF Own, Executing
<1>3. /\ Cardinality(Queued) \in Nat /\ Cardinality(Executing) \in Nat
      /\ Cardinality(PrivateWork) \in Nat /\ outstanding \in Int
  BY <1>0, FS_CardinalityType DEF Finite, Own
<1>4. /\ IsFiniteSet(Executing \cup {r})
      /\ Cardinality(Executing \cup {r}) = Cardinality(Executing) + 1
  BY <1>0, <1>2, FS_AddElement DEF Finite
<1>5. CASE /\ h # NoOp /\ item' = [item EXCEPT ![r] = h]
           /\ armed' = [armed EXCEPT ![d] = NoOp] /\ UNCHANGED <<privateWork, pc>>
  <2>1. h \in Ops /\ h # NoOp
    BY <1>0, <1>1, <1>5 DEF TypeOK
  <2>2. /\ item'[r] = h /\ \A o \in Runners : o # r => item'[o] = item[o]
        /\ armed'[d] = NoOp /\ \A e \in Descriptors : e # d => armed'[e] = armed[e]
    BY <1>0, <1>1, <1>5 DEF TypeOK
  <2>3. OncePlaced(h) /\ h \notin done
    BY <1>0, <1>1, <2>1 DEF Once, Nowhere
  <2>4. NoOp \notin Ops
    BY SchedulerAssumption
  <2>5. Once'
    <3>1. ASSUME NEW g \in Ops
          PROVE  OncePlaced(g)'
      <4>1. OncePlaced(g)
        BY <1>0 DEF Once
      <4>2. CASE g = h
        <5>1. /\ ~Contains(queue', g) /\ \A o \in Runners : ~Contains(private'[o], g)
              /\ \A u \in Threads : posting'[u] # g
              /\ \A e \in Descriptors : armed'[e] # g
              /\ \A o \in Runners : item'[o] = g => o = r
          BY <1>1, <2>1, <2>2, <2>3, <4>2 DEF OncePlaced
        <5> QED  BY <5>1 DEF OncePlaced
      <4>3. CASE g # h
        <5>1. /\ \A o \in Runners : item'[o] = g <=> item[o] = g
              /\ \A e \in Descriptors : armed'[e] = g <=> armed[e] = g
          BY <1>1, <2>2, <2>4, <4>3
        <5> QED  BY <1>1, <4>1, <5>1 DEF OncePlaced
      <4> QED  BY <4>2, <4>3
    <3>2. \A g \in done : Nowhere(g)'
      BY <1>0, <1>1, <2>2, <2>3, <2>4 DEF Once, Nowhere
    <3> QED  BY <1>0, <1>1, <3>1, <3>2 DEF Once
  <2>6. Own'
    <3>1. h \notin Descriptors
      BY <2>1, SchedulerAssumption
    <3> QED  BY <1>0, <1>1, <1>5, <2>1, <2>2, <3>1 DEF Own
  <2>7. PrivateWork' = PrivateWork
    BY <1>5 DEF PrivateWork
  <2>8. h \in Queued /\ Queued' = Queued \ {h}
    <3>1. h \in Queued
      BY <1>1, <2>1 DEF Queued
    <3>2. h \notin Queued'
      BY <1>1, <2>1, <2>2, <2>3 DEF Queued, OncePlaced
    <3>3. \A e \in Descriptors : \A g \in Ops : g # h => (armed'[e] = g <=> armed[e] = g)
      BY <1>1, <2>2, <2>4
    <3> QED  BY <1>1, <3>1, <3>2, <3>3 DEF Queued
  <2>9. Executing' = Executing \cup {r}
    BY <1>5, <2>1, <2>2 DEF Executing
  <2> HIDE DEF h
  <2>10. /\ IsFiniteSet(Queued \ {h})
         /\ Cardinality(Queued \ {h}) = Cardinality(Queued) - 1
    BY <1>0, <2>8, FS_RemoveElement DEF Finite
  <2>11. Finite'
    BY <1>0, <1>4, <2>7, <2>8, <2>9, <2>10 DEF Finite
  <2>12. WorkCounted'
    BY <1>0, <1>1, <1>3, <1>4, <2>7, <2>8, <2>9, <2>10 DEF WorkCounted, Own
  <2> QED  BY <2>5, <2>6, <2>11, <2>12
<1>6. CASE /\ item' = [item EXCEPT ![r] = NoOp] /\ armed' = armed /\ Go(r, "finish")
           /\ privateWork' = [privateWork EXCEPT ![r] = privateWork[r] + 1]
  <2>1. /\ item'[r] = NoOp /\ \A o \in Runners : o # r => item'[o] = item[o]
    BY <1>0, <1>6 DEF TypeOK
  <2>2. \A o \in Runners : IF o = r THEN pc'[o] = "finish" ELSE pc'[o] = pc[o]
    BY <1>0, <1>6 DEF Go, TypeOK, Threads
  <2>3. NoOp \notin Ops \cup Descriptors
    BY SchedulerAssumption
  <2>4. Once'
    <3>1. \A g \in Ops : \A o \in Runners : item'[o] = g <=> item[o] = g
      BY <1>1, <2>1, <2>3
    <3>2. \A g \in Ops : OncePlaced(g)'
      BY <1>0, <1>1, <1>6, <3>1 DEF Once, OncePlaced
    <3>3. \A g \in done : Nowhere(g)'
      BY <1>0, <1>1, <1>6, <3>1 DEF Once, Nowhere
    <3> QED  BY <1>0, <1>1, <3>2, <3>3 DEF Once
  <2>5. Own'
    <3>1. /\ privateWork' \in [Runners -> Nat]
          /\ \A o \in Runners : o # r => privateWork'[o] = privateWork[o]
      BY <1>0, <1>6 DEF Own
    <3> QED  BY <1>0, <1>1, <1>2, <2>1, <2>2, <2>3, <3>1 DEF Own
  <2>6. /\ IsFiniteSet(PrivateWork')
        /\ Cardinality(PrivateWork') = Cardinality(PrivateWork) + 1
    BY <1>0, <1>6, OneUnitMore DEF Own, Finite
  <2>7. Queued' = Queued
    BY <1>1, <1>6 DEF Queued
  <2>8. Executing' = Executing \cup {r}
    BY <2>1, <2>2 DEF Executing
  <2>9. Finite'
    BY <1>0, <1>4, <2>6, <2>7, <2>8 DEF Finite
  <2>10. WorkCounted'
    BY <1>0, <1>1, <1>3, <1>4, <2>6, <2>7, <2>8 DEF WorkCounted, Own
  <2> QED  BY <2>4, <2>5, <2>9, <2>10
<1> QED  BY <1>5, <1>6 DEF Descriptor

(* What was executed is still counted until the thread has counted it down.*)
LEMMA WorkHandlerReturns ==
  ASSUME WInv, NEW r \in Runners, HandlerReturns(r)
  PROVE  Once' /\ Own' /\ Finite' /\ WorkCounted'
<1>0. TypeOK /\ Once /\ Own /\ Finite /\ WorkCounted /\ done \subseteq Ops
  BY DEF WInv, IInv, Own
<1>1. PICK h \in Ops : item[r] = h
  BY DEF HandlerReturns
<1>2. /\ pc[r] = "handler" /\ done' = done \cup {h}
      /\ UNCHANGED <<queue, private, privateWork, posting, armed, outstanding, guard>>
  BY <1>1 DEF HandlerReturns, At, shared, reactor
<1>3. /\ item'[r] = NoOp /\ \A o \in Runners : o # r => item'[o] = item[o]
  BY <1>0 DEF HandlerReturns, TypeOK
<1>4. \A o \in Runners : IF o = r THEN pc'[o] = "finish" ELSE pc'[o] = pc[o]
  BY <1>0 DEF HandlerReturns, Go, TypeOK, Threads
<1>5. NoOp \notin Ops \cup Descriptors
  BY SchedulerAssumption
<1>6. Once'
  <2>1. \A g \in Ops : \A o \in Runners : item'[o] = g => item[o] = g
    BY <1>2, <1>3, <1>5
  <2>2. \A g \in Ops : OncePlaced(g)'
    BY <1>0, <1>2, <2>1 DEF Once, OncePlaced
  <2>3. \A g \in done : Nowhere(g)'
    BY <1>0, <1>2, <2>1 DEF Once, Nowhere
  <2>4. Nowhere(h)'
    <3>1. OncePlaced(h)
      BY <1>0 DEF Once
    <3>2. \A o \in Runners : item'[o] # h
      BY <1>1, <1>3, <1>5, <3>1 DEF OncePlaced
    <3> QED  BY <1>1, <1>2, <3>1, <3>2 DEF OncePlaced, Nowhere
  <2> QED  BY <1>0, <1>2, <2>2, <2>3, <2>4 DEF Once
<1>7. Own'
  BY <1>0, <1>2, <1>3, <1>4, <1>5 DEF Own
<1>8. PrivateWork' = PrivateWork /\ Queued' = Queued
  BY <1>2 DEF PrivateWork, Queued
<1>9. Executing' = Executing
  BY <1>1, <1>3, <1>4 DEF Executing
<1> QED  BY <1>0, <1>2, <1>6, <1>7, <1>8, <1>9 DEF Finite, WorkCounted

(* The thread adds what it has kept and counts down what it has done.      *)
LEMMA WorkFinish ==
  ASSUME WInv, NEW r \in Runners, Finish(r)
  PROVE  Once' /\ Own' /\ Finite' /\ WorkCounted'
<1>0. TypeOK /\ Once /\ Own /\ Finite /\ WorkCounted /\ done \subseteq Ops
  BY DEF WInv, IInv, Own
<1>1. /\ pc[r] = "finish" /\ outstanding' = outstanding + privateWork[r] - 1
      /\ privateWork' = [privateWork EXCEPT ![r] = 0]
      /\ UNCHANGED <<queue, item, private, posting, armed, guard, done>>
  BY DEF Finish, At, shared, reactor
<1>2. \A o \in Runners : IF o = r THEN pc'[o] \in {"stop", "lock"} ELSE pc'[o] = pc[o]
  BY <1>0 DEF Finish, Go, TypeOK, Threads
<1>3. /\ privateWork[r] \in Nat /\ outstanding \in Int /\ item[r] = NoOp
      /\ privateWork' \in [Runners -> Nat] /\ privateWork'[r] = 0
      /\ \A o \in Runners : o # r => privateWork'[o] = privateWork[o]
  BY <1>0, <1>1 DEF Own
<1>4. Once'
  BY <1>0, <1>1 DEF Once, OncePlaced, Nowhere
<1>5. Own'
  BY <1>0, <1>1, <1>2, <1>3 DEF Own
<1>6. /\ IsFiniteSet(PrivateWork')
      /\ Cardinality(PrivateWork') = Cardinality(PrivateWork) - privateWork[r]
  BY <1>0, <1>1, UnitsAdded DEF Own, Finite
<1>7. Queued' = Queued
  BY <1>1 DEF Queued
<1>8. r \in Executing /\ Executing' = Executing \ {r}
  <2>1. item[r] \notin Ops
    BY <1>3, SchedulerAssumption
  <2> QED  BY <1>1, <1>2, <2>1 DEF Executing
<1>9. /\ IsFiniteSet(Executing \ {r})
      /\ Cardinality(Executing \ {r}) = Cardinality(Executing) - 1
  BY <1>0, <1>8, FS_RemoveElement DEF Finite
<1>10. Finite'
  BY <1>0, <1>6, <1>7, <1>8, <1>9 DEF Finite
<1>11. WorkCounted'
  <2>1. /\ Cardinality(Queued) \in Nat /\ Cardinality(Executing) \in Nat
        /\ Cardinality(PrivateWork) \in Nat
    BY <1>0, FS_CardinalityType DEF Finite
  <2> QED  BY <1>0, <1>1, <1>3, <1>6, <1>7, <1>8, <1>9, <2>1 DEF WorkCounted
<1> QED  BY <1>4, <1>5, <1>10, <1>11

(* An operation that was nowhere is somewhere.                             *)
LEMMA OneOpMore ==
  ASSUME Own, Finite, NEW h \in Ops, h \notin Queued, Queued' = Queued \cup {h}
  PROVE  /\ IsFiniteSet(Queued') /\ Cardinality(Queued') = Cardinality(Queued) + 1
         /\ Cardinality(Queued) \in Nat /\ Cardinality(Executing) \in Nat
         /\ Cardinality(PrivateWork) \in Nat /\ outstanding \in Int
BY FS_AddElement, FS_CardinalityType DEF Finite, Own

LEMMA UnusedIsNowhere ==
  ASSUME TypeOK, NEW h \in Unused
  PROVE  h \in Ops /\ h \notin done /\ Nowhere(h) /\ h \notin Queued
<1>1. \A r \in Runners : r \in Threads
  BY DEF Threads
<1> QED  BY <1>1 DEF Unused, Holds, Nowhere, Queued

LEMMA WorkStartArmed ==
  ASSUME WInv, NEW t \in Threads, NEW h \in Ops, NEW d \in Descriptors,
         StartArmed(t, h, d)
  PROVE  Once' /\ Own' /\ Finite' /\ WorkCounted' /\ Queued' = Queued \cup {h}
<1>0. TypeOK /\ Once /\ Own /\ Finite /\ WorkCounted /\ done \subseteq Ops
  BY DEF WInv, IInv, Own
<1>1. /\ h \in Unused /\ armed[d] = NoOp /\ outstanding' = outstanding + 1
      /\ UNCHANGED <<queue, pc, item, private, privateWork, posting, guard, done>>
  BY DEF StartArmed, shared, mine
<1>2. /\ armed'[d] = h /\ \A e \in Descriptors : e # d => armed'[e] = armed[e]
  BY <1>0 DEF StartArmed, TypeOK
<1>3. h \notin done /\ Nowhere(h) /\ h \notin Queued
  BY <1>0, <1>1, UnusedIsNowhere
<1>4. \A g \in Ops : g # h => \A e \in Descriptors : armed'[e] = g <=> armed[e] = g
  BY <1>1, <1>2, SchedulerAssumption
<1>5. Once'
  <2>1. ASSUME NEW g \in Ops
        PROVE  OncePlaced(g)'
    <3>1. CASE g = h
      BY <1>1, <1>2, <1>3, <3>1 DEF OncePlaced, Nowhere
    <3>2. CASE g # h
      BY <1>0, <1>1, <1>4, <3>2 DEF Once, OncePlaced
    <3> QED  BY <3>1, <3>2
  <2>2. \A g \in done : Nowhere(g)'
    BY <1>0, <1>1, <1>3, <1>4 DEF Once, Nowhere
  <2> QED  BY <1>0, <1>1, <2>1, <2>2 DEF Once
<1>6. Own'
  BY <1>0, <1>1 DEF Own
<1>7. PrivateWork' = PrivateWork /\ Executing' = Executing
  BY <1>1 DEF PrivateWork, Executing
<1>8. Queued' = Queued \cup {h}
  <2>1. h \in Queued'
    BY <1>2 DEF Queued
  <2>2. \A g \in Ops : g # h => (g \in Queued' <=> g \in Queued)
    BY <1>1, <1>4 DEF Queued
  <2> QED  BY <2>1, <2>2 DEF Queued
<1>9. /\ IsFiniteSet(Queued') /\ Cardinality(Queued') = Cardinality(Queued) + 1
      /\ Cardinality(Queued) \in Nat /\ Cardinality(Executing) \in Nat
      /\ Cardinality(PrivateWork) \in Nat /\ outstanding \in Int
  BY <1>0, <1>3, <1>8, OneOpMore
<1>10. Finite'
  BY <1>0, <1>7, <1>9 DEF Finite
<1>11. WorkCounted'
  BY <1>0, <1>1, <1>7, <1>9 DEF WorkCounted
<1> QED  BY <1>5, <1>6, <1>8, <1>10, <1>11

LEMMA WorkStartDone ==
  ASSUME WInv, NEW t \in Threads, NEW h \in Ops, NEW d \in Descriptors,
         StartDone(t, h, d)
  PROVE  Once' /\ Own' /\ Finite' /\ WorkCounted' /\ Queued' = Queued \cup {h}
<1>0. TypeOK /\ Once /\ Own /\ Finite /\ WorkCounted /\ done \subseteq Ops
  BY DEF WInv, IInv, Own
<1>1. /\ h \in Unused /\ posting[t] = NoOp /\ outstanding' = outstanding + 1
      /\ UNCHANGED <<queue, pc, item, private, privateWork, armed, guard, done>>
  BY DEF StartDone, MayStart, Free, shared
<1>2. /\ posting'[t] = h /\ \A u \in Threads : u # t => posting'[u] = posting[u]
  BY <1>0 DEF StartDone, TypeOK
<1>3. h \notin done /\ Nowhere(h) /\ h \notin Queued
  BY <1>0, <1>1, UnusedIsNowhere
<1>4. \A g \in Ops : g # h => \A u \in Threads : posting'[u] = g <=> posting[u] = g
  BY <1>1, <1>2, SchedulerAssumption
<1>5. Once'
  <2>1. ASSUME NEW g \in Ops
        PROVE  OncePlaced(g)'
    <3>1. CASE g = h
      BY <1>1, <1>2, <1>3, <3>1 DEF OncePlaced, Nowhere
    <3>2. CASE g # h
      BY <1>0, <1>1, <1>4, <3>2 DEF Once, OncePlaced
    <3> QED  BY <3>1, <3>2
  <2>2. \A g \in done : Nowhere(g)'
    BY <1>0, <1>1, <1>3, <1>4 DEF Once, Nowhere
  <2> QED  BY <1>0, <1>1, <2>1, <2>2 DEF Once
<1>6. Own'
  BY <1>0, <1>1 DEF Own
<1>7. PrivateWork' = PrivateWork /\ Executing' = Executing
  BY <1>1 DEF PrivateWork, Executing
<1>8. Queued' = Queued \cup {h}
  <2>1. h \in Queued'
    BY <1>2 DEF Queued
  <2>2. \A g \in Ops : g # h => (g \in Queued' <=> g \in Queued)
    BY <1>1, <1>4 DEF Queued
  <2> QED  BY <2>1, <2>2 DEF Queued
<1>9. /\ IsFiniteSet(Queued') /\ Cardinality(Queued') = Cardinality(Queued) + 1
      /\ Cardinality(Queued) \in Nat /\ Cardinality(Executing) \in Nat
      /\ Cardinality(PrivateWork) \in Nat /\ outstanding \in Int
  BY <1>0, <1>3, <1>8, OneOpMore
<1>10. Finite'
  BY <1>0, <1>7, <1>9 DEF Finite
<1>11. WorkCounted'
  BY <1>0, <1>1, <1>7, <1>9 DEF WorkCounted
<1> QED  BY <1>5, <1>6, <1>8, <1>10, <1>11

LEMMA WorkStartContinuation ==
  ASSUME WInv, NEW r \in Runners, NEW h \in Ops, NEW d \in Descriptors,
         StartContinuation(r, h, d)
  PROVE  Once' /\ Own' /\ Finite' /\ WorkCounted' /\ Queued' = Queued \cup {h}
<1> DEFINE last == <<h>>
<1>0. TypeOK /\ Once /\ Own /\ Finite /\ WorkCounted /\ done \subseteq Ops
  BY DEF WInv, IInv, Own
<1>1. /\ h \in Unused /\ pc[r] = "handler" /\ item[r] \in Ops
      /\ privateWork' = [privateWork EXCEPT ![r] = privateWork[r] + 1]
      /\ UNCHANGED <<queue, pc, item, posting, armed, outstanding, guard, done>>
  BY <1>0 DEF StartContinuation, MayStart, shared, TypeOK
<1>2. h \notin done /\ Nowhere(h) /\ h \notin Queued
  BY <1>0, <1>1, UnusedIsNowhere
<1>3. /\ private'[r] = private[r] \o last
      /\ private[r] \in Seq(Ops \cup Descriptors) /\ last \in Seq(Ops \cup Descriptors)
      /\ \A o \in Runners : o # r => private'[o] = private[o]
  <2>1. /\ private'[r] = Append(private[r], h)
        /\ \A o \in Runners : o # r => private'[o] = private[o]
    BY <1>0 DEF StartContinuation, TypeOK
  <2>2. private[r] \in Seq(Ops \cup Descriptors)
    BY <1>0 DEF TypeOK
  <2>3. Append(private[r], h) = private[r] \o last
    BY <2>2, AppendIsConcat
  <2> QED  BY <2>1, <2>2, <2>3
<1>4. Distinct(last) /\ \A g : Contains(last, g) <=> g = h
  BY DistinctShort, ContainsShort
<1> HIDE DEF last
<1>5. \A g : Contains(private'[r], g) <=> Contains(private[r], g) \/ g = h
  BY <1>3, <1>4, ContainsConcat
<1>6. Once'
  <2>1. Distinct(private'[r])
    <3>1. Distinct(private[r]) /\ ~Contains(private[r], h)
      BY <1>0, <1>2 DEF Once, Nowhere
    <3> QED  BY <1>3, <1>4, <3>1, DistinctConcat
  <2>2. \A o \in Runners : Distinct(private'[o])
    BY <1>0, <1>3, <2>1 DEF Once
  <2>3. ASSUME NEW g \in Ops
        PROVE  OncePlaced(g)'
    <3>1. CASE g = h
      <4>1. \A o \in Runners : Contains(private'[o], h) => o = r
        BY <1>2, <1>3 DEF Nowhere
      <4> QED  BY <1>1, <1>2, <3>1, <4>1 DEF OncePlaced, Nowhere
    <3>2. CASE g # h
      <4>1. \A o \in Runners : Contains(private'[o], g) <=> Contains(private[o], g)
        BY <1>3, <1>5, <3>2
      <4> QED  BY <1>0, <1>1, <3>2, <4>1 DEF Once, OncePlaced
    <3> QED  BY <3>1, <3>2
  <2>4. \A g \in done : Nowhere(g)'
    <3>1. \A g \in done : \A o \in Runners : ~Contains(private'[o], g)
      BY <1>0, <1>2, <1>3, <1>5 DEF Once, Nowhere
    <3> QED  BY <1>0, <1>1, <3>1 DEF Once, Nowhere
  <2> QED  BY <1>0, <1>1, <2>2, <2>3, <2>4 DEF Once
<1>7. Own'
  <2>1. /\ privateWork' \in [Runners -> Nat]
        /\ \A o \in Runners : o # r => privateWork'[o] = privateWork[o]
    BY <1>0, <1>1 DEF Own
  <2>2. item[r] \notin Descriptors
    BY <1>1, SchedulerAssumption
  <2> QED  BY <1>0, <1>1, <1>3, <2>1, <2>2 DEF Own
<1>8. Executing' = Executing
  BY <1>1 DEF Executing
<1>9. /\ IsFiniteSet(PrivateWork')
      /\ Cardinality(PrivateWork') = Cardinality(PrivateWork) + 1
  BY <1>0, <1>1, OneUnitMore DEF Own, Finite
<1>10. Queued' = Queued \cup {h}
  <2>1. h \in Queued'
    BY <1>5 DEF Queued
  <2>2. ASSUME NEW g \in Ops, g # h
        PROVE  g \in Queued' <=> g \in Queued
    <3>1. \A o \in Runners : Contains(private'[o], g) <=> Contains(private[o], g)
      BY <1>3, <1>5, <2>2
    <3> QED  BY <1>1, <3>1 DEF Queued
  <2> QED  BY <2>1, <2>2 DEF Queued
<1>11. /\ IsFiniteSet(Queued') /\ Cardinality(Queued') = Cardinality(Queued) + 1
       /\ Cardinality(Queued) \in Nat /\ Cardinality(Executing) \in Nat
       /\ Cardinality(PrivateWork) \in Nat /\ outstanding \in Int
  BY <1>0, <1>2, <1>10, OneOpMore
<1>12. Finite'
  BY <1>0, <1>8, <1>9, <1>11 DEF Finite
<1>13. WorkCounted'
  BY <1>0, <1>1, <1>8, <1>9, <1>11 DEF WorkCounted
<1> QED  BY <1>6, <1>7, <1>10, <1>12, <1>13

LEMMA WorkReleaseGuard ==
  ASSUME WInv, NEW t \in Others, ReleaseGuard(t)
  PROVE  Once' /\ Own' /\ Finite' /\ WorkCounted'
<1>0. TypeOK /\ Once /\ Own /\ Finite /\ WorkCounted
  BY DEF WInv, IInv
<1>1. /\ guard /\ guard' = FALSE /\ outstanding' = outstanding - 1
      /\ UNCHANGED <<queue, item, private, privateWork, posting, armed, done>>
  BY DEF ReleaseGuard, shared, mine, reactor
<1>2. \A o \in Runners : pc'[o] = pc[o]
  BY <1>0, SchedulerAssumption DEF ReleaseGuard, Go, TypeOK, Threads
<1>3. Once'
  BY <1>0, <1>1 DEF Once, OncePlaced, Nowhere
<1>4. Own'
  <2>1. guard' \in BOOLEAN
    <3>1. guard' = FALSE
      BY DEF ReleaseGuard
    <3> QED  BY <3>1
  <2>2. outstanding \in Int
    BY <1>0 DEF Own
  <2>3. outstanding' = outstanding - 1
    BY DEF ReleaseGuard
  <2>4. outstanding' \in Int
    BY <2>2, <2>3
  <2> QED  BY <1>0, <1>1, <1>2, <2>1, <2>4 DEF Own
<1>5. PrivateWork' = PrivateWork /\ Queued' = Queued /\ Executing' = Executing
  BY <1>1, <1>2 DEF PrivateWork, Queued, Executing
<1>6. Finite'
  BY <1>0, <1>5 DEF Finite
<1>7. WorkCounted'
  <2>1. /\ Cardinality(Queued) \in Nat /\ Cardinality(Executing) \in Nat
        /\ Cardinality(PrivateWork) \in Nat /\ outstanding \in Int
    BY <1>0, FS_CardinalityType DEF Finite, Own
  <2> QED  BY <1>0, <1>1, <1>5, <2>1 DEF WorkCounted
<1> QED  BY <1>3, <1>4, <1>6, <1>7

LEMMA WorkInit ==
  ASSUME Init
  PROVE  WInv
<1>0. IInv
  BY InitInvariant
<1>1. /\ queue = <<>> /\ done = {} /\ outstanding = 1 /\ guard = TRUE
      /\ \A r \in Runners : private[r] = <<>> /\ item[r] = NoOp /\ pc[r] = "start"
      /\ \A d \in Descriptors : armed[d] = NoOp
      /\ \A t \in Threads : posting[t] = NoOp
      /\ privateWork = [r \in Runners |-> 0]
  BY DEF Init, Threads
<1>2. /\ NoOp \notin Ops \cup Descriptors /\ \A h : ~Contains(<<>>, h)
      /\ Distinct(<<>>)
  BY SchedulerAssumption, ContainsShort, DistinctShort
<1>3. Once
  BY <1>1, <1>2 DEF Once, OncePlaced
<1>4. Own
  BY <1>1, <1>2 DEF Own
<1>5. Queued = {} /\ Executing = {} /\ PrivateWork = {}
  <2>1. Queued = {} /\ Executing = {}
    BY <1>1, <1>2 DEF Queued, Executing
  <2>2. 1 .. 0 = {} /\ \A r \in Runners : privateWork[r] = 0
    BY <1>1
  <2>3. PrivateWork = {}
    BY <2>2 DEF PrivateWork
  <2> QED  BY <2>1, <2>3
<1>6. Finite /\ WorkCounted
  BY <1>1, <1>5, FS_EmptySet DEF Finite, WorkCounted
<1> QED  BY <1>0, <1>3, <1>4, <1>6 DEF WInv

LEMMA WorkNext ==
  ASSUME WInv, [Next]_vars
  PROVE  WInv'
<1> DEFINE Good == Once' /\ Own' /\ Finite' /\ WorkCounted'
<1>0. IInv'
  BY NextInvariant, StutterInvariant DEF WInv
<1>1. ASSUME NEW t \in Threads, Pending(t)
      PROVE  Good
  BY <1>1, WorkPlain, WorkPost DEF Pending
<1>2. ASSUME NEW r \in Runners, Step(r) \/ Spurious(r)
      PROVE  Good
  <2>1. r \in Threads
    BY DEF Threads
  <2> HIDE DEF Good
  <2>2. CASE Pending(r)
    BY <1>1, <2>1, <2>2
  <2>3. CASE Run(r) \/ Spurious(r)
    BY <2>3, WorkPlain DEF Good
  <2>4. CASE Lock(r)
    BY <2>4, WorkLock DEF Good
  <2>5. CASE Wake(r)
    BY <2>5, WorkWake DEF Good
  <2>6. CASE Poll(r)
    BY <2>6, WorkPoll DEF Good
  <2>7. CASE Cleanup(r)
    BY <2>7, WorkCleanup DEF Good
  <2>8. CASE Descriptor(r)
    BY <2>8, WorkDescriptor DEF Good
  <2>9. CASE HandlerReturns(r)
    BY <2>9, WorkHandlerReturns DEF Good
  <2>10. CASE Finish(r)
    BY <2>10, WorkFinish DEF Good
  <2> QED  BY <1>2, <2>2, <2>3, <2>4, <2>5, <2>6, <2>7, <2>8, <2>9, <2>10 DEF Step
<1>3. ASSUME NEW t \in Others, Other(t)
      PROVE  Good
  <2>1. t \in Threads
    BY DEF Threads
  <2> QED  BY <1>1, <1>3, <2>1, WorkInitTask, WorkReleaseGuard, WorkPlain DEF Other
<1>4. ASSUME NEW t \in Threads, Start(t)
      PROVE  Good
  BY <1>4, WorkStartArmed, WorkStartDone, WorkStartContinuation DEF Start
<1>5. ASSUME UNCHANGED vars
      PROVE  Good
  BY <1>5, WorkAside DEF vars
<1>6. Good
  BY <1>1, <1>2, <1>3, <1>4, <1>5, WorkPlain DEF Next
<1> QED  BY <1>0, <1>6 DEF WInv

(* The count is exact with any number of threads, wherever an operation    *)
(* is: queued, waiting at a socket, kept private or about to be queued.    *)
THEOREM WorkIsCounted == Spec => []WorkCounted
<1>1. Init => WInv
  BY WorkInit
<1>2. WInv /\ [Next]_vars => WInv'
  BY WorkNext
<1>3. WInv => WorkCounted
  BY DEF WInv
<1> QED  BY <1>1, <1>2, <1>3, PTL DEF Spec
-----------------------------------------------------------------------------
(* When the count of work is zero, nothing is left.                        *)

(* A thread counts for itself each operation it keeps private, and nothing *)
(* more but the unit that makes up for a descriptor with nothing to do.    *)
MadeUp(r) == pc[r] = "finish" /\ privateWork[r] = 1 /\ private[r] = <<>>
Funded ==
  \A r \in Runners :
    /\ pc[r] = "handler" => privateWork[r] = Len(private[r])
    /\ pc[r] = "finish" => privateWork[r] = Len(private[r]) \/ MadeUp(r)

RInv == WInv /\ Funded

NothingLeft ==
  outstanding = 0 => ~guard /\ Queued = {} /\ \A r \in Runners : item[r] \notin Ops

(* The units a thread counts, but for those made up, are the operations it *)
(* keeps: with those made up there are as many as there are operations     *)
(* queued and threads executing only when there are none of either.        *)
LEMMA CountIsExact == RInv => NothingLeft
<1> SUFFICES ASSUME RInv, outstanding = 0
             PROVE  ~guard /\ Queued = {} /\ \A r \in Runners : item[r] \notin Ops
  BY DEF NothingLeft
<1> DEFINE C   == {r \in Runners : MadeUp(r)}
           one == {1}
           PWC == C \X one
           PWR == PrivateWork \ PWC
<1>0. /\ TypeOK /\ Kept /\ Once /\ Own /\ Finite /\ WorkCounted /\ Funded
      /\ privateWork \in [Runners -> Nat]
  BY DEF RInv, WInv, IInv, Own
<1>1. C \in SUBSET Executing
  BY DEF MadeUp, Executing
<1>2. /\ IsFiniteSet(C) /\ Cardinality(C) <= Cardinality(Executing)
      /\ Cardinality(Executing) = Cardinality(C) => Executing = C
  BY <1>0, <1>1, FS_Subset DEF Finite
<1>3. IsFiniteSet(PWC) /\ Cardinality(PWC) = Cardinality(C)
  <2>1. IsFiniteSet(one) /\ Cardinality(one) = 1
    BY FS_Singleton
  <2> HIDE DEF C, one
  <2>2. IsFiniteSet(PWC) /\ Cardinality(PWC) = Cardinality(C) * Cardinality(one)
    BY <1>2, <2>1, FS_Product
  <2>3. Cardinality(C) \in Nat
    BY <1>2, FS_CardinalityType
  <2> QED  BY <2>1, <2>2, <2>3
<1>4. PWC \subseteq PrivateWork
  <2>1. ASSUME NEW r \in C
        PROVE  <<r, 1>> \in PrivateWork
    <3>1. r \in Runners /\ 1 \in 1 .. privateWork[r]
      BY DEF MadeUp
    <3> QED  BY <3>1, PrivateUnits
  <2> QED  BY <2>1
<1>5. IsFiniteSet(PWR) /\ Cardinality(PWR) = Cardinality(PrivateWork) - Cardinality(PWC)
  <2> HIDE DEF PWC
  <2>1. PrivateWork \cap PWC = PWC
    BY <1>4
  <2>2. IsFiniteSet(PrivateWork)
    BY <1>0 DEF Finite
  <2>3. /\ IsFiniteSet(PrivateWork \ PWC)
        /\ Cardinality(PrivateWork \ PWC)
             = Cardinality(PrivateWork) - Cardinality(PrivateWork \cap PWC)
    BY <1>3, <2>2, FS_Difference
  <2> QED  BY <2>1, <2>3
<1>6. ASSUME NEW p \in PWR
      PROVE  \E r \in Runners : \E i \in 1 .. Len(private[r]) :
               /\ p = <<r, i>> /\ r \in Executing /\ r \notin C
               /\ private[r][i] \in Ops
  <2>1. PICK r \in Runners, i \in Nat : i \in 1 .. privateWork[r] /\ p = <<r, i>>
    BY PrivateUnits
  <2>2. privateWork[r] \in Nat /\ privateWork[r] # 0
    BY <1>0, <2>1
  <2>3. pc[r] \in {"handler", "finish"} /\ item[r] \notin Descriptors
    BY <1>0, <2>2 DEF Own
  <2>4. r \notin C
    <3>1. SUFFICES ASSUME r \in C PROVE FALSE
      OBVIOUS
    <3>2. i = 1
      BY <2>1, <3>1 DEF MadeUp
    <3> QED  BY <2>1, <3>1, <3>2
  <2>5. r \in Executing
    <3>1. item[r] \in Ops \cup Descriptors \cup {NoOp}
      BY <1>0 DEF TypeOK
    <3> QED  BY <1>0, <2>3, <3>1 DEF Own, Executing
  <2>6. privateWork[r] = Len(private[r])
    BY <1>0, <2>3, <2>4 DEF Funded
  <2>7. i \in 1 .. Len(private[r])
    BY <2>1, <2>6
  <2>8. private[r][i] \in Ops
    BY <1>0, <2>3, <2>7 DEF Kept
  <2> QED  BY <2>1, <2>4, <2>5, <2>7, <2>8
<1>7. Cardinality(PWR) <= Cardinality(Queued)
  <2> DEFINE F == [p \in PWR |-> private[p[1]][p[2]]]
  <2>1. ASSUME NEW p \in PWR
        PROVE  \E r \in Runners : \E i \in 1 .. Len(private[r]) :
                 p = <<r, i>> /\ F[p] = private[r][i] /\ private[r][i] \in Ops
    <3>1. PICK r \in Runners, i \in Nat :
            /\ i \in 1 .. Len(private[r])
            /\ p = <<r, i>> /\ private[r][i] \in Ops
      BY <1>6
    <3>2. F[p] = private[r][i]
      BY <3>1
    <3> QED  BY <3>1, <3>2
  <2>2. F \in [PWR -> Queued]
    <3>1. ASSUME NEW p \in PWR
          PROVE  F[p] \in Queued
      <4>1. PICK r \in Runners, i \in Nat :
              /\ i \in 1 .. Len(private[r])
              /\ F[p] = private[r][i] /\ private[r][i] \in Ops
        BY <2>1
      <4>2. Contains(private[r], F[p])
        BY <4>1 DEF Contains
      <4> QED  BY <4>1, <4>2 DEF Queued
    <3> QED  BY <3>1
  <2> HIDE DEF PWR
  <2>3. ASSUME NEW p \in PWR, NEW s \in PWR, F[p] = F[s]
        PROVE  p = s
    <3> HIDE DEF F
    <3>1. PICK r \in Runners, i \in Nat :
            /\ i \in 1 .. Len(private[r])
            /\ p = <<r, i>> /\ F[p] = private[r][i] /\ private[r][i] \in Ops
      BY <2>1
    <3>2. PICK o \in Runners, j \in Nat :
            /\ j \in 1 .. Len(private[o])
            /\ s = <<o, j>> /\ F[s] = private[o][j] /\ private[o][j] \in Ops
      BY <2>1
    <3>3. Contains(private[r], F[p]) /\ Contains(private[o], F[p]) /\ F[p] \in Ops
      BY <2>3, <3>1, <3>2 DEF Contains
    <3>4. r = o
      BY <1>0, <3>3 DEF Once, OncePlaced
    <3>5. i = j
      BY <1>0, <2>3, <3>1, <3>2, <3>4 DEF Once, Distinct
    <3> QED  BY <3>1, <3>2, <3>4, <3>5
  <2> HIDE DEF F
  <2>4. F \in Injection(PWR, Queued)
    BY <2>2, <2>3 DEF Injection, IsInjective
  <2>5. IsFiniteSet(Queued)
    BY <1>0 DEF Finite
  <2> QED  BY <2>4, <2>5, FS_Injection
<1> HIDE DEF PWC
<1>8. /\ Cardinality(Queued) \in Nat /\ Cardinality(Executing) \in Nat
      /\ Cardinality(C) \in Nat /\ Cardinality(PWR) \in Nat
      /\ Cardinality(PrivateWork) \in Nat
  BY <1>0, <1>2, <1>5, FS_CardinalityType DEF Finite
<1>9. ~guard /\ Cardinality(Executing) = Cardinality(C)
      /\ Cardinality(PWR) = Cardinality(Queued)
  <2> HIDE DEF PWR, C
  <2>1. Cardinality(PrivateWork)
          = Cardinality(Queued) + Cardinality(Executing) + IF guard THEN 1 ELSE 0
    BY <1>0, <1>8 DEF WorkCounted
  <2>2. CASE guard
    <3>1. Cardinality(PrivateWork) = Cardinality(Queued) + Cardinality(Executing) + 1
      BY <2>1, <2>2
    <3> QED  BY <1>2, <1>3, <1>5, <1>7, <1>8, <3>1
  <2>3. CASE ~guard
    <3>1. Cardinality(PrivateWork) = Cardinality(Queued) + Cardinality(Executing)
      BY <1>8, <2>1, <2>3
    <3>2. Cardinality(PWR) = Cardinality(PrivateWork) - Cardinality(C)
      BY <1>3, <1>5
    <3> QED  BY <1>2, <1>7, <1>8, <2>3, <3>1, <3>2
  <2> QED  BY <2>2, <2>3
<1>10. Executing = C
  BY <1>2, <1>9
<1>11. PWR = {}
  BY <1>6, <1>10
<1>12. Queued = {}
  <2>1. Cardinality(Queued) = 0
    BY <1>9, <1>11, FS_EmptySet
  <2> QED  BY <1>0, <2>1, FS_EmptySet DEF Finite
<1>13. ASSUME NEW r \in Runners
       PROVE  item[r] \notin Ops
  <2>1. SUFFICES ASSUME item[r] \in Ops PROVE FALSE
    OBVIOUS
  <2>2. pc[r] = "finish"
    BY <1>10, <2>1 DEF Executing, MadeUp
  <2>3. item[r] = NoOp
    BY <1>0, <2>2 DEF Own
  <2> QED  BY <2>1, <2>3, SchedulerAssumption
<1> QED  BY <1>9, <1>12, <1>13

(* It stays so where no thread gets to a handler or is behind one.         *)
LEMMA FundedElsewhere ==
  ASSUME Funded,
         \A r \in Runners :
           \/ pc'[r] \notin {"handler", "finish"}
           \/ pc'[r] = pc[r] /\ private'[r] = private[r] /\ privateWork'[r] = privateWork[r]
           \/ privateWork'[r] = Len(private'[r])
           \/ MadeUp(r)'
  PROVE  Funded'
BY DEF Funded, MadeUp

LEMMA FundedTurn ==
  ASSUME WInv, Funded, NEW r \in Runners, pc[r] \in {"lock", "woken", "cleanup"},
         NEW q, NEW ti, Turn(r, q, ti), privateWork' = privateWork,
         private' = [private EXCEPT ![r] = <<>>]
  PROVE  Funded'
<1>1. TypeOK /\ privateWork[r] = 0
  BY DEF WInv, IInv, Own
<1>2. \A o \in Runners : o # r => pc'[o] = pc[o] /\ private'[o] = private[o]
  BY <1>1, TurnElsewhere DEF TypeOK
<1>3. private'[r] = <<>> /\ Len(<<>>) = 0
  BY <1>1 DEF TypeOK
<1> QED  BY <1>1, <1>2, <1>3, FundedElsewhere

LEMMA FundedStep ==
  ASSUME WInv, Funded, NEW r \in Runners, Step(r)
  PROVE  Funded'
<1>0. TypeOK /\ Own /\ r \in Threads
  BY DEF WInv, IInv, Threads
<1>1. CASE Pending(r)
  <2>1. private' = private /\ privateWork' = privateWork
    BY <1>1 DEF Pending, Signal, Post, Stop, mine
  <2>2. \A o \in Runners : pc'[o] = pc[o] \/ pc'[o] \notin {"handler", "finish"}
    BY <1>0, <1>1 DEF Pending, Signal, Post, Stop, Go, TypeOK, Threads
  <2> QED  BY <2>1, <2>2, FundedElsewhere
<1>2. CASE Run(r)
  <2>1. private' = private /\ privateWork' = privateWork
    BY <1>2 DEF Run, mine
  <2>2. \A o \in Runners : pc'[o] = pc[o] \/ pc'[o] \notin {"handler", "finish"}
    BY <1>0, <1>2 DEF Run, Go, TypeOK, Threads
  <2> QED  BY <2>1, <2>2, FundedElsewhere
<1>3. CASE Lock(r)
  BY <1>3, FundedTurn DEF Lock, At
<1>4. CASE Wake(r)
  <2>1. /\ pc[r] = "woken" /\ private' = private /\ privateWork' = privateWork
    BY <1>4 DEF Wake, At
  <2>2. private' = [private EXCEPT ![r] = <<>>]
    BY <1>0, <2>1 DEF Own, TypeOK
  <2>3. CASE signalled
    BY <1>4, <2>1, <2>2, <2>3, FundedTurn DEF Wake
  <2>4. CASE ~signalled
    <3>1. \A o \in Runners : pc'[o] = pc[o] \/ pc'[o] \notin {"handler", "finish"}
      BY <1>0, <1>4, <2>4 DEF Wake, Go, TypeOK, Threads
    <3> QED  BY <2>1, <3>1, FundedElsewhere
  <2> QED  BY <2>3, <2>4
<1>5. CASE Poll(r)
  <2>1. \A o \in Runners : IF o = r THEN pc'[o] = "cleanup" ELSE pc'[o] = pc[o]
    BY <1>0, <1>5 DEF Poll, Go, TypeOK, Threads
  <2>2. /\ privateWork' = privateWork
        /\ \A o \in Runners : o # r => private'[o] = private[o]
    BY <1>0, <1>5 DEF Poll, TypeOK
  <2> QED  BY <2>1, <2>2, FundedElsewhere
<1>6. CASE Cleanup(r)
  BY <1>6, FundedTurn DEF Cleanup, At
<1>7. CASE Descriptor(r)
  <2>1. private' = private /\ private[r] = <<>> /\ privateWork[r] = 0
    BY <1>0, <1>7 DEF Descriptor, At, Own
  <2>2. CASE UNCHANGED <<privateWork, pc>>
    BY <2>1, <2>2, FundedElsewhere
  <2>3. CASE Go(r, "finish") /\ privateWork' = [privateWork EXCEPT ![r] = privateWork[r] + 1]
    <3>1. \A o \in Runners : IF o = r THEN pc'[o] = "finish" ELSE pc'[o] = pc[o]
      BY <1>0, <2>3 DEF Go, TypeOK, Threads
    <3>2. /\ privateWork'[r] = 1
          /\ \A o \in Runners : o # r => privateWork'[o] = privateWork[o]
      BY <1>0, <2>1, <2>3 DEF Own
    <3> QED  BY <2>1, <3>1, <3>2, FundedElsewhere DEF MadeUp
  <2> QED  BY <1>7, <2>2, <2>3 DEF Descriptor
<1>8. CASE HandlerReturns(r)
  <2>1. pc[r] = "handler" /\ private' = private /\ privateWork' = privateWork
    BY <1>8 DEF HandlerReturns, At
  <2>2. \A o \in Runners : IF o = r THEN pc'[o] = "finish" ELSE pc'[o] = pc[o]
    BY <1>0, <1>8 DEF HandlerReturns, Go, TypeOK, Threads
  <2>3. privateWork[r] = Len(private[r])
    BY <2>1 DEF Funded
  <2> QED  BY <2>1, <2>2, <2>3, FundedElsewhere
<1>9. CASE Finish(r)
  <2>1. \A o \in Runners : IF o = r THEN pc'[o] \in {"stop", "lock"} ELSE pc'[o] = pc[o]
    BY <1>0, <1>9 DEF Finish, Go, TypeOK, Threads
  <2>2. /\ private' = private
        /\ \A o \in Runners : o # r => privateWork'[o] = privateWork[o]
    BY <1>0, <1>9 DEF Finish, Own
  <2> QED  BY <2>1, <2>2, FundedElsewhere
<1> QED  BY <1>1, <1>2, <1>3, <1>4, <1>5, <1>6, <1>7, <1>8, <1>9 DEF Step

LEMMA FundedNext ==
  ASSUME WInv, Funded, [Next]_vars
  PROVE  Funded'
<1>0. TypeOK /\ Own
  BY DEF WInv, IInv
<1>1. CASE \E r \in Runners : Step(r)
  BY <1>1, FundedStep
<1>2. CASE \E r \in Runners : Spurious(r)
  <2>1. private' = private /\ privateWork' = privateWork
    BY <1>2 DEF Spurious, mine
  <2>2. \A o \in Runners : pc'[o] = pc[o] \/ pc'[o] \notin {"handler", "finish"}
    BY <1>0, <1>2 DEF Spurious, Go, TypeOK, Threads
  <2> QED  BY <2>1, <2>2, FundedElsewhere
<1>3. CASE \E t \in Others : Other(t)
  <2>1. private' = private /\ privateWork' = privateWork
    BY <1>3 DEF Other, Pending, Signal, Post, Stop, InitTask, ReleaseGuard, Ask, mine
  <2>2. \A o \in Runners : pc'[o] = pc[o] \/ pc'[o] \notin {"handler", "finish"}
    BY <1>0, <1>3, SchedulerAssumption
    DEF Other, Pending, Signal, Post, Stop, InitTask, ReleaseGuard, Ask, Go, TypeOK, Threads
  <2> QED  BY <2>1, <2>2, FundedElsewhere
<1>4. ASSUME NEW t \in Threads, NEW h \in Ops, NEW d \in Descriptors,
             StartArmed(t, h, d) \/ StartDone(t, h, d)
      PROVE  Funded'
  BY <1>4, FundedElsewhere DEF StartArmed, StartDone, mine
<1>5. ASSUME NEW r \in Runners, NEW h \in Ops, NEW d \in Descriptors,
             StartContinuation(r, h, d)
      PROVE  Funded'
  <2>1. /\ pc' = pc /\ pc[r] = "handler"
        /\ \A o \in Runners : o # r =>
             private'[o] = private[o] /\ privateWork'[o] = privateWork[o]
    BY <1>0, <1>5 DEF StartContinuation, MayStart, TypeOK, Own
  <2>2. /\ private'[r] = Append(private[r], h) /\ private[r] \in Seq(Ops \cup Descriptors)
        /\ privateWork'[r] = privateWork[r] + 1
    BY <1>0, <1>5 DEF StartContinuation, TypeOK, Own
  <2>3. Len(private'[r]) = Len(private[r]) + 1
    BY <2>2, AppendProperties
  <2>4. privateWork[r] = Len(private[r])
    BY <2>1 DEF Funded
  <2> QED  BY <2>1, <2>2, <2>3, <2>4, FundedElsewhere
<1>6. CASE \E t \in Threads : Start(t)
  BY <1>4, <1>5, <1>6 DEF Start
<1>7. CASE \E d \in Descriptors : Event(d)
  BY <1>7, FundedElsewhere DEF Event, mine
<1>8. CASE UNCHANGED vars
  BY <1>8, FundedElsewhere DEF vars, mine
<1> QED  BY <1>1, <1>2, <1>3, <1>6, <1>7, <1>8 DEF Next

LEMMA RInvariant == Spec => []RInv
<1>1. Init => RInv
  <2> SUFFICES ASSUME Init
               PROVE  RInv
    OBVIOUS
  <2>1. \A r \in Runners : pc[r] = "start"
    BY DEF Init, Threads
  <2> QED  BY <2>1, WorkInit DEF RInv, Funded
<1>2. RInv /\ [Next]_vars => RInv'
  BY WorkNext, FundedNext DEF RInv
<1> QED  BY <1>1, <1>2, PTL DEF Spec

(* The count of work does not come to zero while the guard is there, an    *)
(* operation is under way or a handler runs: no run() ends for want of     *)
(* work that is there.                                                     *)
THEOREM NoWorkIsLeft == Spec => []NothingLeft
BY RInvariant, CountIsExact, PTL
-----------------------------------------------------------------------------
(* The steps as IoContext's.                                               *)

StatusOf(h) == IF h \in done THEN "done"
               ELSE IF \E r \in Runners : item[r] = h THEN "running"
               ELSE IF h \in Queued THEN "pending" ELSE "new"
LEMMA StatusIs == Status = [h \in Ops |-> StatusOf(h)]
BY DEF Status, StatusOf

LEMMA QueuedKept ==
  ASSUME UNCHANGED <<queue, armed, posting, private>>
  PROVE  Queued' = Queued
BY DEF Queued

LEMMA StatusKept ==
  ASSUME UNCHANGED <<done, item>>, Queued' = Queued
  PROVE  Status' = Status /\ Executes' = Executes
BY DEF Status, Executes

LEMMA PhaseKept ==
  ASSUME stopped' = stopped, \A t \in Threads : pc'[t] = "stop" <=> pc[t] = "stop"
  PROVE  Phase' = Phase
BY DEF Phase

(* No runner gets to a handler or leaves one, none returns.                *)
LEMMA RunnersStay ==
  ASSUME \A r \in Runners : \/ pc'[r] = pc[r]
                            \/ {pc[r], pc'[r]} \cap {"handler", "returned"} = {}
  PROVE  Engaged' = Engaged /\ Ended' = Ended
BY DEF Engaged, Ended

(* A step that IoContext does not see.                                     *)
LEMMA Unseen ==
  ASSUME UNCHANGED <<done, item, guard, asked>>, Queued' = Queued, Phase' = Phase,
         \A r \in Runners : \/ pc'[r] = pc[r]
                            \/ {pc[r], pc'[r]} \cap {"handler", "returned"} = {}
  PROVE  UNCHANGED Context!vars
BY StatusKept, RunnersStay DEF Context!vars

(* An operation that was nowhere is under way.                             *)
LEMMA Submits ==
  ASSUME TypeOK, NEW h \in Unused, Queued' = Queued \cup {h},
         UNCHANGED <<done, item, guard, asked, stopped, pc>>
  PROVE  Context!Submit(h)
<1>1. h \in Ops /\ h \notin done /\ Nowhere(h) /\ h \notin Queued
  BY UnusedIsNowhere
<1>2. \A r \in Runners : item[r] # h
  BY <1>1 DEF Nowhere
<1>3. Status[h] = "new"
  BY <1>1, <1>2 DEF Status
<1>4. Status' = [Status EXCEPT ![h] = "pending"]
  <2>1. StatusOf(h)' = "pending"
    BY <1>1, <1>2 DEF StatusOf
  <2>2. \A g \in Ops : g # h => StatusOf(g)' = StatusOf(g)
    BY DEF StatusOf
  <2>3. Status' = [g \in Ops |-> StatusOf(g)']
    BY DEF Status, StatusOf
  <2> HIDE DEF StatusOf
  <2> QED  BY <1>1, <2>1, <2>2, <2>3, StatusIs
<1>5. Engaged' = Engaged /\ Executes' = Executes /\ Phase' = Phase /\ Ended' = Ended
  BY DEF Engaged, Executes, Phase, Ended
<1> QED  BY <1>3, <1>4, <1>5 DEF Context!Submit

(* A runner begins the handler of an operation that was under way.         *)
LEMMA Begins ==
  ASSUME TypeOK, NEW r \in Runners, NEW h \in Queued,
         h \notin done, \A o \in Runners : item[o] # h, item[r] \notin Ops,
         item' = [item EXCEPT ![r] = h], done' = done,
         \A g \in Ops : g # h => (g \in Queued' <=> g \in Queued),
         pc[r] # "returned", pc'[r] = "handler", pc[r] = "handler" \/ ~stopped,
         \A o \in Runners : o # r => pc'[o] = pc[o],
         UNCHANGED <<guard, asked>>, Phase' = Phase
  PROVE  Context!Begin(r, h)
<1>1. h \in Ops
  BY DEF Queued
<1>2. item'[r] = h /\ \A o \in Runners : o # r => item'[o] = item[o]
  BY DEF TypeOK
<1>3. Status[h] = "pending"
  BY <1>1 DEF Status
<1>4. Status' = [Status EXCEPT ![h] = "running"]
  <2>1. StatusOf(h)' = "running"
    BY <1>2 DEF StatusOf
  <2>2. \A g \in Ops : g # h => StatusOf(g)' = StatusOf(g)
    <3>1. \A g \in Ops : g # h => \A o \in Runners : item'[o] = g <=> item[o] = g
      BY <1>2
    <3> QED  BY <3>1 DEF StatusOf
  <2>3. Status' = [g \in Ops |-> StatusOf(g)']
    BY DEF Status, StatusOf
  <2> HIDE DEF StatusOf
  <2> QED  BY <1>1, <2>1, <2>2, <2>3, StatusIs
<1>5. Executes[r] = NoOp /\ Executes' = [Executes EXCEPT ![r] = h]
  BY <1>1, <1>2 DEF Executes
<1>6. r \notin Ended /\ Engaged' = Engaged \cup {r} /\ Ended' = Ended
  BY DEF Ended, Engaged
<1>7. r \in Engaged \/ Phase # "stopped"
  BY DEF Engaged, Phase
<1> QED  BY <1>3, <1>4, <1>5, <1>6, <1>7 DEF Context!Begin

LEMMA TurnImplements ==
  ASSUME WInv, NEW r \in Runners, pc[r] \in {"lock", "woken", "cleanup"},
         NEW q \in Seq(Items), NEW ti, Turn(r, q, ti), Distinct(q),
         \A h \in Ops : Contains(q, h) <=> Contains(queue, h) \/ Contains(private[r], h),
         private' = [private EXCEPT ![r] = <<>>],
         UNCHANGED <<posting, armed, guard, done, asked>>
  PROVE  [Context!Next]_(Context!vars)
<1>0. TypeOK /\ Once /\ Own /\ r \in Threads
  BY DEF WInv, IInv, Threads
<1>1. item[r] = NoOp /\ NoOp \notin Ops \cup Descriptors
  BY <1>0, SchedulerAssumption DEF Own
<1>2. \A o \in Runners : o # r => pc'[o] = pc[o]
  BY <1>0, TurnElsewhere
<1>3. /\ private'[r] = <<>>
      /\ \A o \in Runners : o # r => private'[o] = private[o]
  BY <1>0 DEF TypeOK
<1>4. \A h : ~Contains(private'[r], h)
  BY <1>3, ContainsShort
<1>5. ASSUME NEW h \in Ops, Contains(q, h) => Contains(queue', h),
             Contains(queue', h) => Contains(q, h)
      PROVE  h \in Queued' <=> h \in Queued
  BY <1>3, <1>4, <1>5 DEF Queued
<1>6. stopped' = stopped
  BY <1>0, TurnCases
<1>7. ASSUME pc'[r] # "stop"
      PROVE  Phase' = Phase
  <2>1. ASSUME NEW t \in Threads
        PROVE  pc'[t] = "stop" <=> pc[t] = "stop"
    <3>1. CASE t = r
      BY <1>7, <3>1
    <3>2. CASE t # r
      <4>1. PICK to : Go(r, to)
        BY <1>0, TurnCases DEF TurnReturns, TurnWaits, TurnTakesTask, TurnHandles
      <4> QED  BY <1>0, <3>2, <4>1 DEF Go, TypeOK
    <3> QED  BY <3>1, <3>2
  <2> QED  BY <1>6, <2>1, PhaseKept
<1>8. CASE TurnReturns(r, q, ti)
  <2>1. stopped /\ queue' = q /\ item' = item /\ pc'[r] = "returned"
    BY <1>0, <1>8 DEF TurnReturns, Go, TypeOK
  <2>2. Queued' = Queued
    BY <1>5, <2>1 DEF Queued
  <2>3. Status' = Status /\ Executes' = Executes
    BY <2>1, <2>2, StatusKept
  <2>4. Phase' = Phase /\ Phase = "stopped"
    BY <1>7, <2>1 DEF Phase
  <2>5. /\ r \notin Engaged /\ r \notin Ended
        /\ Engaged' = Engaged /\ Ended' = Ended \cup {r}
    BY <1>2, <2>1 DEF Engaged, Ended
  <2> QED  BY <2>3, <2>4, <2>5 DEF Context!Next, Context!Return
<1>9. CASE TurnWaits(r, q, ti)
  <2>1. queue' = q /\ item' = item /\ pc'[r] = "wait"
    BY <1>0, <1>9 DEF TurnWaits, Go, TypeOK
  <2>2. Queued' = Queued
    BY <1>5, <2>1 DEF Queued
  <2> QED  BY <1>2, <1>7, <2>1, <2>2, Unseen
<1>10. CASE TurnTakesTask(r, q)
  <2>1. /\ q # <<>> /\ Head(q) = Task /\ Task \notin Ops /\ queue' = Tail(q)
        /\ item' = item /\ pc'[r] = "task"
    BY <1>0, <1>10, SchedulerAssumption DEF TurnTakesTask, Go, TypeOK
  <2>2. \A h : Contains(q, h) <=> Head(q) = h \/ Contains(queue', h)
    BY <2>1, ContainsTail
  <2>3. Queued' = Queued
    BY <1>5, <2>1, <2>2 DEF Queued
  <2> QED  BY <1>2, <1>7, <2>1, <2>3, Unseen
<1>11. CASE TurnHandles(r, q, ti)
  <2> DEFINE h == Head(q)
  <2>1. /\ ~stopped /\ q # <<>> /\ h # Task /\ queue' = Tail(q)
        /\ item' = [item EXCEPT ![r] = h] /\ pc'[r] = "handler"
    BY <1>0, <1>11 DEF TurnHandles, Go, TypeOK
  <2>2. \A g : Contains(q, g) <=> h = g \/ Contains(queue', g)
    BY <2>1, ContainsTail
  <2>3. h \in Ops \cup Descriptors
    BY <2>1, Pop DEF Items
  <2>4. Phase' = Phase
    BY <1>7, <2>1
  <2>5. CASE h \in Ops
    <3>1. OncePlaced(h) /\ (Contains(queue, h) \/ Contains(private[r], h))
      BY <1>0, <2>2, <2>5 DEF Once
    <3>2. h \in Queued /\ (\A o \in Runners : item[o] # h)
      BY <2>5, <3>1 DEF Queued, OncePlaced
    <3>3. h \notin done
      BY <1>0, <3>1 DEF Once, Nowhere
    <3>4. \A g \in Ops : g # h => (g \in Queued' <=> g \in Queued)
      BY <1>5, <2>2
    <3> HIDE DEF h
    <3>5. Context!Begin(r, h)
      BY <1>0, <1>1, <1>2, <2>1, <2>4, <3>2, <3>3, <3>4, Begins
    <3> QED  BY <2>5, <3>5 DEF Context!Next
  <2>6. CASE h \in Descriptors
    <3>1. h \notin Ops
      BY <2>6, SchedulerAssumption
    <3>2. Queued' = Queued
      BY <1>5, <2>2, <3>1 DEF Queued
    <3>3. /\ \A g \in Ops : \A o \in Runners : item'[o] = g <=> item[o] = g
          /\ \A o \in Runners : o # r => item'[o] = item[o]
          /\ item'[r] = h
      BY <1>0, <1>1, <2>1, <3>1 DEF TypeOK
    <3>4. Status' = Status
      BY <3>2, <3>3 DEF Status
    <3>5. Executes' = Executes
      BY <1>1, <3>1, <3>3 DEF Executes
    <3>6. Phase # "stopped"
      BY <2>1 DEF Phase
    <3>7. r \notin Engaged /\ r \notin Ended /\ Engaged' = Engaged \cup {r} /\ Ended' = Ended
      BY <1>2, <2>1 DEF Engaged, Ended
    <3> QED  BY <2>4, <3>4, <3>5, <3>6, <3>7 DEF Context!Next, Context!Engage
  <2> QED  BY <2>3, <2>5, <2>6
<1> QED  BY <1>0, <1>8, <1>9, <1>10, <1>11, TurnCases

(* The steps that hold the mutex before or after a handler or the task.    *)
LEMMA LoopImplements ==
  ASSUME WInv, NEW r \in Runners, Lock(r) \/ Wake(r) \/ Cleanup(r)
  PROVE  [Context!Next]_(Context!vars)
<1>0. TypeOK /\ Once /\ Own
  BY DEF WInv, IInv
<1>1. CASE Lock(r)
  <2> DEFINE q == queue \o private[r]
  <2>1. /\ q \in Seq(Items) /\ Distinct(q)
        /\ \A h \in Ops : Contains(q, h) <=> Contains(queue, h) \/ Contains(private[r], h)
    BY <1>0, KeptJoins
  <2>2. /\ pc[r] = "lock" /\ Turn(r, q, interrupted)
        /\ private' = [private EXCEPT ![r] = <<>>]
        /\ UNCHANGED <<posting, armed, guard, done, asked>>
    BY <1>1 DEF Lock, At, reactor
  <2> HIDE DEF q
  <2> QED  BY <2>1, <2>2, TurnImplements
<1>2. CASE Cleanup(r)
  <2> DEFINE q == queue \o private[r] \o <<Task>>
  <2>1. /\ q \in Seq(Items) /\ Distinct(q)
        /\ \A h \in Ops : Contains(q, h) <=> Contains(queue, h) \/ Contains(private[r], h)
    BY <1>0, TaskJoins
  <2>2. /\ pc[r] = "cleanup" /\ Turn(r, q, TRUE)
        /\ private' = [private EXCEPT ![r] = <<>>]
        /\ UNCHANGED <<posting, armed, guard, done, asked>>
    BY <1>2 DEF Cleanup, At, reactor
  <2> HIDE DEF q
  <2> QED  BY <2>1, <2>2, TurnImplements
<1>3. CASE Wake(r)
  <2>1. /\ pc[r] = "woken"
        /\ UNCHANGED <<private, posting, armed, guard, done, asked>>
    BY <1>3 DEF Wake, At, reactor
  <2>2. private[r] = <<>>
    BY <1>0, <2>1 DEF Own
  <2>3. CASE signalled
    <3>1. Turn(r, queue, interrupted) /\ queue \in Seq(Items)
      BY <1>0, <1>3, <2>3 DEF Wake, TypeOK
    <3>2. private' = [private EXCEPT ![r] = <<>>]
      BY <1>0, <2>1, <2>2 DEF TypeOK
    <3>3. Distinct(queue)
      BY <1>0 DEF Once
    <3>4. \A h \in Ops : Contains(queue, h) <=> Contains(queue, h) \/ Contains(private[r], h)
      BY <2>2, ContainsShort
    <3> QED  BY <2>1, <3>1, <3>2, <3>3, <3>4, TurnImplements
  <2>4. CASE ~signalled
    <3>1. Go(r, "wait") /\ UNCHANGED <<queue, item, stopped>>
      BY <1>3, <2>4 DEF Wake, shared
    <3>2. \A t \in Threads : pc'[t] = IF t = r THEN "wait" ELSE pc[t]
      BY <1>0, <3>1 DEF Go, TypeOK
    <3>3. Phase' = Phase
      BY <2>1, <3>1, <3>2, PhaseKept
    <3>4. Queued' = Queued
      BY <2>1, <3>1, QueuedKept
    <3> QED  BY <2>1, <3>1, <3>2, <3>3, <3>4, Unseen DEF Threads
  <2> QED  BY <2>3, <2>4
<1> QED  BY <1>1, <1>2, <1>3

(* Wake-ups, the reactor's turn, what is queued and what arrives.          *)
LEMMA AsideUnseen ==
  ASSUME WInv
  PROVE  /\ \A r \in Runners : Spurious(r) \/ Poll(r) => UNCHANGED Context!vars
         /\ \A t \in Threads : Signal(t) \/ Post(t) => UNCHANGED Context!vars
         /\ \A t \in Others : InitTask(t) => UNCHANGED Context!vars
         /\ \A d \in Descriptors : Event(d) => UNCHANGED Context!vars
<1>0. TypeOK
  BY DEF WInv, IInv
<1>1. ASSUME NEW r \in Runners, Spurious(r)
      PROVE  UNCHANGED Context!vars
  <2>1. UNCHANGED <<done, item, guard, asked, stopped, queue, armed, posting, private>>
    BY <1>1 DEF Spurious, shared, mine, reactor
  <2>2. pc[r] = "wait" /\ \A t \in Threads : pc'[t] = IF t = r THEN "woken" ELSE pc[t]
    BY <1>0, <1>1 DEF Spurious, Go, TypeOK
  <2>3. Queued' = Queued
    BY <2>1, QueuedKept
  <2>4. Phase' = Phase
    BY <2>1, <2>2, PhaseKept
  <2> QED  BY <2>1, <2>2, <2>3, <2>4, Unseen DEF Threads
<1>2. ASSUME NEW r \in Runners, Poll(r)
      PROVE  UNCHANGED Context!vars
  <2>1. UNCHANGED <<done, item, guard, asked, stopped>>
    BY <1>2 DEF Poll
  <2>2. pc[r] = "task" /\ \A t \in Threads : pc'[t] = IF t = r THEN "cleanup" ELSE pc[t]
    BY <1>0, <1>2 DEF Poll, At, Go, TypeOK
  <2>3. Queued' = Queued
    BY <1>2, WorkPoll
  <2>4. Phase' = Phase
    BY <2>1, <2>2, PhaseKept
  <2> QED  BY <2>1, <2>2, <2>3, <2>4, Unseen DEF Threads
<1>3. ASSUME NEW t \in Threads, Signal(t)
      PROVE  UNCHANGED Context!vars
  <2>1. UNCHANGED <<done, item, guard, asked, stopped, queue, armed, posting, private>>
    BY <1>3 DEF Signal, shared, mine, reactor
  <2>2. \A u \in Threads : pc'[u] = pc[u] \/ (pc[u] = "wait" /\ pc'[u] = "woken")
    BY <1>0, <1>3 DEF Signal, Go, TypeOK, Threads
  <2>3. Queued' = Queued
    BY <2>1, QueuedKept
  <2>4. Phase' = Phase
    BY <2>1, <2>2, PhaseKept
  <2> QED  BY <2>1, <2>2, <2>3, <2>4, Unseen DEF Threads
<1>4. ASSUME NEW t \in Threads, Post(t)
      PROVE  UNCHANGED Context!vars
  <2>1. UNCHANGED <<done, item, guard, asked, stopped, pc>>
    BY <1>4 DEF Post
  <2>2. Queued' = Queued
    BY <1>4, WorkPost
  <2>3. Phase' = Phase
    BY <2>1, PhaseKept
  <2> QED  BY <2>1, <2>2, <2>3, Unseen
<1>5. ASSUME NEW t \in Others, InitTask(t)
      PROVE  UNCHANGED Context!vars
  <2>1. UNCHANGED <<done, item, guard, asked, stopped, pc>>
    BY <1>5 DEF InitTask, mine
  <2>2. Queued' = Queued
    BY <1>5, WorkInitTask
  <2>3. Phase' = Phase
    BY <2>1, PhaseKept
  <2> QED  BY <2>1, <2>2, <2>3, Unseen
<1>6. ASSUME NEW d \in Descriptors, Event(d)
      PROVE  UNCHANGED Context!vars
  <2>1. UNCHANGED <<done, item, guard, asked, stopped, pc, queue, armed, posting, private>>
    BY <1>6 DEF Event, shared, mine
  <2>2. Queued' = Queued
    BY <2>1, QueuedKept
  <2>3. Phase' = Phase
    BY <2>1, PhaseKept
  <2> QED  BY <2>1, <2>2, <2>3, Unseen
<1> QED  BY <1>1, <1>2, <1>3, <1>4, <1>5, <1>6

(* A descriptor's operation begins here, or there was nothing to do.       *)
LEMMA DescriptorImplements ==
  ASSUME WInv, NEW r \in Runners, Descriptor(r)
  PROVE  Context!Next
<1> DEFINE d == item[r]
           h == armed[d]
<1>0. TypeOK /\ Once /\ Own /\ r \in Threads
  BY DEF WInv, IInv, Threads
<1>1. /\ pc[r] = "handler" /\ d \in Descriptors /\ d \notin Ops /\ d # NoOp
      /\ NoOp \notin Ops
      /\ UNCHANGED <<queue, private, posting, guard, done, asked, stopped>>
  BY SchedulerAssumption DEF Descriptor, At, shared
<1>2. CASE /\ h # NoOp /\ item' = [item EXCEPT ![r] = h]
           /\ armed' = [armed EXCEPT ![d] = NoOp] /\ pc' = pc
  <2>1. h \in Ops
    BY <1>0, <1>1, <1>2 DEF TypeOK
  <2>2. OncePlaced(h) /\ h \notin done
    BY <1>0, <1>1, <2>1 DEF Once, Nowhere
  <2>3. h \in Queued /\ \A o \in Runners : item[o] # h
    BY <1>1, <2>1, <2>2 DEF Queued, OncePlaced
  <2>4. \A g \in Ops : g # h => (g \in Queued' <=> g \in Queued)
    <3>1. /\ armed'[d] = NoOp
          /\ \A e \in Descriptors : e # d => armed'[e] = armed[e]
      BY <1>0, <1>1, <1>2 DEF TypeOK
    <3>2. \A g \in Ops : g # h => \A e \in Descriptors : armed'[e] = g <=> armed[e] = g
      BY <1>1, <3>1
    <3> QED  BY <1>1, <3>2 DEF Queued
  <2>5. Phase' = Phase
    BY <1>1, <1>2, PhaseKept
  <2> HIDE DEF h
  <2>6. Context!Begin(r, h)
    BY <1>0, <1>1, <1>2, <2>2, <2>3, <2>4, <2>5, Begins
  <2> QED  BY <2>1, <2>6 DEF Context!Next
<1>3. CASE item' = [item EXCEPT ![r] = NoOp] /\ armed' = armed /\ Go(r, "finish")
  <2>1. \A t \in Threads : pc'[t] = IF t = r THEN "finish" ELSE pc[t]
    BY <1>0, <1>3 DEF Go, TypeOK
  <2>2. item'[r] = NoOp /\ \A o \in Runners : o # r => item'[o] = item[o]
    BY <1>0, <1>3 DEF TypeOK
  <2>3. Phase' = Phase
    BY <1>1, <2>1, PhaseKept
  <2>4. Queued' = Queued
    BY <1>1, <1>3, QueuedKept
  <2>5. Status' = Status
    <3>1. \A g \in Ops : \A o \in Runners : item'[o] = g <=> item[o] = g
      BY <1>1, <2>2
    <3> QED  BY <1>1, <2>4, <3>1 DEF Status
  <2>6. Executes' = Executes /\ Executes[r] = NoOp
    BY <1>1, <2>2 DEF Executes
  <2>7. \A o \in Runners : pc'[o] = IF o = r THEN "finish" ELSE pc[o]
    BY <2>1 DEF Threads
  <2>8. r \in Engaged /\ Engaged' = Engaged \ {r} /\ Ended' = Ended
    BY <1>1, <2>7 DEF Engaged, Ended
  <2> QED  BY <1>1, <2>3, <2>5, <2>6, <2>8 DEF Context!Next, Context!Disengage
<1> QED  BY <1>2, <1>3 DEF Descriptor

LEMMA HandlerReturnsImplements ==
  ASSUME WInv, NEW r \in Runners, HandlerReturns(r)
  PROVE  Context!End(r)
<1>0. TypeOK /\ Once /\ Own /\ NoOp \notin Ops
  BY SchedulerAssumption DEF WInv, IInv
<1>1. PICK h \in Ops : item[r] = h
  BY DEF HandlerReturns
<1>2. /\ pc[r] = "handler" /\ done' = done \cup {h}
      /\ UNCHANGED <<queue, private, posting, armed, guard, asked, stopped>>
  BY <1>1 DEF HandlerReturns, At, shared, reactor
<1>3. /\ item'[r] = NoOp /\ \A o \in Runners : o # r => item'[o] = item[o]
  BY <1>0 DEF HandlerReturns, TypeOK
<1>4. \A t \in Threads : pc'[t] = IF t = r THEN "finish" ELSE pc[t]
  BY <1>0 DEF HandlerReturns, Go, TypeOK
<1>5. Queued' = Queued
  BY <1>2, QueuedKept
<1>6. Phase' = Phase
  BY <1>2, <1>4, PhaseKept DEF Threads
<1>7. Executes[r] = h /\ h # NoOp /\ Executes' = [Executes EXCEPT ![r] = NoOp]
  BY <1>0, <1>1, <1>3 DEF Executes
<1>8. Status' = [Status EXCEPT ![h] = "done"]
  <2>1. StatusOf(h)' = "done"
    BY <1>2 DEF StatusOf
  <2>2. \A g \in Ops : g # h => StatusOf(g)' = StatusOf(g)
    <3>1. \A g \in Ops : g # h => \A o \in Runners : item'[o] = g <=> item[o] = g
      BY <1>0, <1>1, <1>3
    <3> QED  BY <1>2, <1>5, <3>1 DEF StatusOf
  <2>3. Status' = [g \in Ops |-> StatusOf(g)']
    BY DEF Status, StatusOf
  <2> HIDE DEF StatusOf
  <2> QED  BY <2>1, <2>2, <2>3, StatusIs
<1>9. Engaged' = Engaged \ {r} /\ Ended' = Ended
  <2>1. \A o \in Runners : pc'[o] = IF o = r THEN "finish" ELSE pc[o]
    BY <1>4 DEF Threads
  <2> QED  BY <1>2, <2>1 DEF Engaged, Ended
<1> QED  BY <1>2, <1>6, <1>7, <1>8, <1>9 DEF Context!End

(* A start hands an operation over.                                        *)
LEMMA StartImplements ==
  ASSUME WInv, NEW t \in Threads, Start(t)
  PROVE  Context!Next
<1>0. TypeOK
  BY DEF WInv, IInv
<1>1. PICK h \in Ops, d \in Descriptors :
        \/ StartArmed(t, h, d) \/ StartDone(t, h, d)
        \/ t \in Runners /\ StartContinuation(t, h, d)
  BY DEF Start
<1>2. h \in Unused /\ UNCHANGED <<done, item, guard, asked, stopped, pc>>
  BY <1>1 DEF StartArmed, StartDone, StartContinuation, shared, mine
<1>3. Queued' = Queued \cup {h}
  BY <1>1, WorkStartArmed, WorkStartDone, WorkStartContinuation
<1>4. Context!Submit(h)
  BY <1>0, <1>2, <1>3, Submits
<1> QED  BY <1>4 DEF Context!Next

(* With no work left IoContext has nothing pending or running.             *)
LEMMA LeftIsQuiet ==
  ASSUME NothingLeft, outstanding = 0
  PROVE  Context!Quiet
<1>1. ~guard /\ \A h \in Ops : h \notin Queued /\ \A r \in Runners : item[r] # h
  BY DEF NothingLeft
<1>2. \A h \in Ops : Status[h] \in {"done", "new"}
  BY <1>1 DEF Status
<1> QED  BY <1>1, <1>2 DEF Context!Quiet

(* A thread sets out to stop the context, or goes on.                      *)
LEMMA SetsOut ==
  ASSUME TypeOK, NEW t \in Threads, NEW to, Go(t, to), stopped' = stopped, pc[t] # "stop"
  PROVE  /\ to # "stop" => Phase' = Phase
         /\ to = "stop" => Phase' = IF Phase = "running" THEN "ending" ELSE Phase
<1>1. \A u \in Threads : pc'[u] = IF u = t THEN to ELSE pc[u]
  BY DEF Go, TypeOK
<1>2. CASE to # "stop"
  BY <1>1, <1>2, PhaseKept
<1>3. CASE to = "stop"
  <2>1. \E u \in Threads : pc'[u] = "stop"
    BY <1>1, <1>3
  <2>2. CASE stopped
    BY <1>3, <2>2 DEF Phase
  <2>3. CASE ~stopped
    BY <1>3, <2>1, <2>3 DEF Phase
  <2> QED  BY <2>2, <2>3
<1> QED  BY <1>2, <1>3

LEMMA RunImplements ==
  ASSUME WInv, NothingLeft, NEW r \in Runners, Run(r)
  PROVE  [Context!Next]_(Context!vars)
<1>0. TypeOK /\ r \in Threads
  BY DEF WInv, IInv, Threads
<1>1. /\ pc[r] = "start"
      /\ UNCHANGED <<done, item, guard, asked, stopped, queue, armed, posting, private>>
  BY DEF Run, At, shared, mine, reactor
<1>2. /\ Queued' = Queued /\ Status' = Status /\ Executes' = Executes
  BY <1>1, QueuedKept, StatusKept
<1>3. CASE outstanding = 0
  <2>1. Go(r, "stop")
    BY <1>3 DEF Run
  <2>2. \A o \in Runners : pc'[o] = IF o = r THEN "stop" ELSE pc[o]
    BY <1>0, <2>1 DEF Go, TypeOK, Threads
  <2>3. Engaged' = Engaged /\ Ended' = Ended
    BY <1>1, <2>2, RunnersStay
  <2>4. Phase' = IF Phase = "running" THEN "ending" ELSE Phase
    BY <1>0, <1>1, <2>1, SetsOut
  <2>5. Context!Quiet
    BY <1>3, LeftIsQuiet
  <2> QED  BY <1>1, <1>2, <2>3, <2>4, <2>5 DEF Context!Next, Context!OutOfWork, Context!vars
<1>4. CASE outstanding # 0
  <2>1. Go(r, "lock")
    BY <1>4 DEF Run
  <2>2. \A o \in Runners : pc'[o] = IF o = r THEN "lock" ELSE pc[o]
    BY <1>0, <2>1 DEF Go, TypeOK, Threads
  <2>3. Phase' = Phase
    BY <1>0, <1>1, <2>1, SetsOut
  <2> QED  BY <1>1, <1>2, <2>2, <2>3, Unseen
<1> QED  BY <1>3, <1>4

LEMMA FinishImplements ==
  ASSUME WInv, NothingLeft', NEW r \in Runners, Finish(r)
  PROVE  [Context!Next]_(Context!vars)
<1>0. TypeOK /\ r \in Threads
  BY DEF WInv, IInv, Threads
<1>1. /\ pc[r] = "finish"
      /\ UNCHANGED <<done, item, guard, asked, stopped, queue, armed, posting, private>>
  BY DEF Finish, At, shared, reactor
<1>2. /\ Queued' = Queued /\ Status' = Status /\ Executes' = Executes
  BY <1>1, QueuedKept, StatusKept
<1>3. CASE privateWork[r] = 0 /\ outstanding' = 0
  <2>1. Go(r, "stop")
    BY <1>3 DEF Finish
  <2>2. \A o \in Runners : pc'[o] = IF o = r THEN "stop" ELSE pc[o]
    BY <1>0, <2>1 DEF Go, TypeOK, Threads
  <2>3. Engaged' = Engaged /\ Ended' = Ended
    BY <1>1, <2>2, RunnersStay
  <2>4. Phase' = IF Phase = "running" THEN "ending" ELSE Phase
    BY <1>0, <1>1, <2>1, SetsOut
  <2>5. Context!Quiet
    <3>1. ~guard /\ \A h \in Ops : h \notin Queued /\ \A o \in Runners : item[o] # h
      BY <1>1, <1>2, <1>3 DEF NothingLeft
    <3>2. \A h \in Ops : Status[h] \in {"done", "new"}
      BY <3>1 DEF Status
    <3> QED  BY <3>1, <3>2 DEF Context!Quiet
  <2> QED  BY <1>1, <1>2, <2>3, <2>4, <2>5 DEF Context!Next, Context!OutOfWork, Context!vars
<1>4. CASE ~(privateWork[r] = 0 /\ outstanding' = 0)
  <2>1. Go(r, "lock")
    BY <1>4 DEF Finish
  <2>2. \A o \in Runners : pc'[o] = IF o = r THEN "lock" ELSE pc[o]
    BY <1>0, <2>1 DEF Go, TypeOK, Threads
  <2>3. Phase' = Phase
    BY <1>0, <1>1, <2>1, SetsOut
  <2> QED  BY <1>1, <1>2, <2>2, <2>3, Unseen
<1> QED  BY <1>3, <1>4

LEMMA ReleaseGuardImplements ==
  ASSUME WInv, NothingLeft', NEW t \in Others, ReleaseGuard(t)
  PROVE  Context!ReleaseGuard
<1>0. TypeOK /\ t \in Threads
  BY DEF WInv, IInv, Threads
<1>1. /\ pc[t] = "idle" /\ guard /\ guard' = FALSE
      /\ UNCHANGED <<done, item, asked, stopped, queue, armed, posting, private>>
  BY DEF ReleaseGuard, At, shared, mine, reactor
<1>2. /\ Queued' = Queued /\ Status' = Status /\ Executes' = Executes
  BY <1>1, QueuedKept, StatusKept
<1>3. Engaged' = Engaged /\ Ended' = Ended
  <2>1. \A o \in Runners : pc'[o] = pc[o]
    BY <1>0, SchedulerAssumption DEF ReleaseGuard, Go, TypeOK, Threads
  <2> QED  BY <2>1, RunnersStay
<1>4. CASE outstanding' = 0
  <2>1. Phase' = IF Phase = "running" THEN "ending" ELSE Phase
    BY <1>0, <1>1, <1>4, SetsOut DEF ReleaseGuard
  <2>2. (Context!Quiet)'
    <3>1. ~guard' /\ \A h \in Ops : h \notin Queued' /\ \A o \in Runners : item'[o] # h
      BY <1>4 DEF NothingLeft
    <3>2. \A h \in Ops : Status'[h] \in {"done", "new"}
      BY <3>1 DEF Status
    <3> QED  BY <3>1, <3>2 DEF Context!Quiet
  <2> QED  BY <1>1, <1>2, <1>3, <2>1, <2>2 DEF Context!ReleaseGuard
<1>5. CASE outstanding' # 0
  <2>1. Phase' = Phase
    BY <1>0, <1>1, <1>5, SetsOut DEF ReleaseGuard
  <2> QED  BY <1>1, <1>2, <1>3, <2>1 DEF Context!ReleaseGuard
<1> QED  BY <1>4, <1>5

LEMMA AskImplements ==
  ASSUME WInv, NEW t \in Others, Ask(t)
  PROVE  Context!Ask
<1>0. TypeOK /\ t \in Threads
  BY DEF WInv, IInv, Threads
<1>1. /\ pc[t] = "idle" /\ asked' = TRUE /\ Go(t, "stop")
      /\ UNCHANGED <<done, item, guard, stopped, queue, armed, posting, private>>
  BY DEF Ask, At, shared, mine, reactor
<1>2. /\ Queued' = Queued /\ Status' = Status /\ Executes' = Executes
  BY <1>1, QueuedKept, StatusKept
<1>3. Engaged' = Engaged /\ Ended' = Ended
  <2>1. \A o \in Runners : pc'[o] = pc[o]
    BY <1>0, SchedulerAssumption DEF Ask, Go, TypeOK, Threads
  <2> QED  BY <2>1, RunnersStay
<1>4. Phase' = IF Phase = "running" THEN "ending" ELSE Phase
  BY <1>0, <1>1, SetsOut
<1> QED  BY <1>1, <1>2, <1>3, <1>4 DEF Context!Ask

(* Who gets to stop() first stops the context, the others change nothing.  *)
LEMMA StopImplements ==
  ASSUME WInv, NEW t \in Threads, Stop(t)
  PROVE  [Context!Next]_(Context!vars)
<1>1. /\ pc[t] = "stop" /\ stopped' = TRUE
      /\ UNCHANGED <<done, item, guard, asked, queue, armed, posting, private>>
  BY DEF Stop, At, mine, reactor
<1>2. \A o \in Runners : \/ pc'[o] = pc[o]
                         \/ {pc[o], pc'[o]} \cap {"handler", "returned"} = {}
  BY <1>1 DEF Stop, Threads
<1>3. Queued' = Queued
  BY <1>1, QueuedKept
<1>4. Phase' = "stopped"
  BY <1>1 DEF Phase
<1>5. CASE stopped
  <2>1. Phase' = Phase
    BY <1>4, <1>5 DEF Phase
  <2> QED  BY <1>1, <1>2, <1>3, <2>1, Unseen
<1>6. CASE ~stopped
  <2>1. Phase = "ending"
    BY <1>1, <1>6 DEF Phase
  <2>2. /\ Status' = Status /\ Executes' = Executes
        /\ Engaged' = Engaged /\ Ended' = Ended
    BY <1>1, <1>2, <1>3, StatusKept, RunnersStay
  <2> QED  BY <1>1, <1>4, <2>1, <2>2 DEF Context!Next, Context!Stop
<1> QED  BY <1>5, <1>6

LEMMA NextImplements ==
  ASSUME RInv, NothingLeft, NothingLeft', [Next]_vars
  PROVE  [Context!Next]_(Context!vars)
<1>0. WInv
  BY DEF RInv
<1>1. ASSUME NEW t \in Threads, Pending(t)
      PROVE  [Context!Next]_(Context!vars)
  BY <1>0, <1>1, AsideUnseen, StopImplements DEF Pending
<1>2. ASSUME NEW r \in Runners, Step(r)
      PROVE  [Context!Next]_(Context!vars)
  <2>1. r \in Threads
    BY DEF Threads
  <2>2. CASE Pending(r)
    BY <1>1, <2>1, <2>2
  <2>3. CASE Run(r)
    BY <1>0, <2>3, RunImplements
  <2>4. CASE Lock(r) \/ Wake(r) \/ Cleanup(r)
    BY <1>0, <2>4, LoopImplements
  <2>5. CASE Poll(r)
    BY <1>0, <2>5, AsideUnseen
  <2>6. CASE Descriptor(r)
    BY <1>0, <2>6, DescriptorImplements
  <2>7. CASE HandlerReturns(r)
    BY <1>0, <2>7, HandlerReturnsImplements DEF Context!Next
  <2>8. CASE Finish(r)
    BY <1>0, <2>8, FinishImplements
  <2> QED  BY <1>2, <2>2, <2>3, <2>4, <2>5, <2>6, <2>7, <2>8 DEF Step
<1>3. ASSUME NEW r \in Runners, Spurious(r)
      PROVE  [Context!Next]_(Context!vars)
  BY <1>0, <1>3, AsideUnseen
<1>4. ASSUME NEW t \in Others, Other(t)
      PROVE  [Context!Next]_(Context!vars)
  <2>1. t \in Threads
    BY DEF Threads
  <2>2. CASE Pending(t)
    BY <1>1, <2>1, <2>2
  <2>3. CASE InitTask(t)
    BY <1>0, <2>3, AsideUnseen
  <2>4. CASE ReleaseGuard(t)
    BY <1>0, <2>4, ReleaseGuardImplements DEF Context!Next
  <2>5. CASE Ask(t)
    BY <1>0, <2>5, AskImplements DEF Context!Next
  <2> QED  BY <1>4, <2>2, <2>3, <2>4, <2>5 DEF Other
<1>5. ASSUME NEW t \in Threads, Start(t)
      PROVE  [Context!Next]_(Context!vars)
  BY <1>0, <1>5, StartImplements
<1>6. ASSUME NEW d \in Descriptors, Event(d)
      PROVE  [Context!Next]_(Context!vars)
  BY <1>0, <1>6, AsideUnseen
<1>7. CASE UNCHANGED vars
  <2>1. UNCHANGED <<done, item, guard, asked, stopped, pc, queue, armed, posting, private>>
    BY <1>7 DEF vars
  <2>2. Queued' = Queued
    BY <2>1, QueuedKept
  <2>3. Phase' = Phase
    BY <2>1, PhaseKept
  <2> QED  BY <2>1, <2>2, <2>3, Unseen
<1> HIDE DEF NothingLeft
<1> QED  BY <1>2, <1>3, <1>4, <1>5, <1>6, <1>7 DEF Next

(* The scheduler keeps IoContext's promise with any number of threads,     *)
(* operations and sockets: a handler runs at most once, the context stops  *)
(* when told to or when no work is left, run() returns only then.          *)
THEOREM Refinement == Spec => Implements
<1>1. Init => Context!Init
  <2> SUFFICES ASSUME Init
               PROVE  Context!Init
    OBVIOUS
  <2>1. /\ done = {} /\ queue = <<>> /\ stopped = FALSE /\ guard = TRUE /\ asked = FALSE
        /\ \A r \in Runners : private[r] = <<>> /\ item[r] = NoOp /\ pc[r] = "start"
        /\ \A t \in Threads : pc[t] \in {"start", "idle"} /\ posting[t] = NoOp
        /\ \A d \in Descriptors : armed[d] = NoOp
    BY DEF Init, Threads
  <2>2. NoOp \notin Ops /\ \A h : ~Contains(<<>>, h)
    BY SchedulerAssumption, ContainsShort
  <2>3. Queued = {}
    BY <2>1, <2>2 DEF Queued
  <2>4. Status = [h \in Ops |-> "new"]
    BY <2>1, <2>2, <2>3 DEF Status
  <2>5. Executes = [r \in Runners |-> NoOp]
    BY <2>1, <2>2 DEF Executes
  <2>6. Engaged = {} /\ Ended = {} /\ Phase = "running"
    BY <2>1 DEF Engaged, Ended, Phase
  <2> QED  BY <2>1, <2>4, <2>5, <2>6 DEF Context!Init
<1>2. RInv /\ NothingLeft /\ NothingLeft' /\ [Next]_vars => [Context!Next]_(Context!vars)
  BY NextImplements
<1> QED  BY <1>1, <1>2, RInvariant, NoWorkIsLeft, PTL DEF Spec, Implements, Context!Spec
=============================================================================
