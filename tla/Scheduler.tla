------------------------------- MODULE Scheduler -------------------------------
(***************************************************************************)
(* asio's scheduler as an io_context of the pool uses it                   *)
(* (include/camille/utils/asio/detail/impl/scheduler.ipp, posix_event.hpp  *)
(* and the epoll reactor that is the scheduler's task): the queue of       *)
(* operations with the task in it, the threads that run it, the condition  *)
(* variable they wait on, the interrupter that ends epoll_wait, and the    *)
(* count of outstanding work.                                              *)
(*                                                                         *)
(* What is done under mutex_ is one step.  Signalling the condition        *)
(* variable, which comes after the unlock, is another, as are work counts, *)
(* handlers and epoll_wait.                                                *)
(***************************************************************************)
EXTENDS Integers, Sequences, FiniteSets, SequencesExt

CONSTANTS
  Ops,          (* Asynchronous operations, each started at most once.     *)
  Descriptors,  (* Sockets; a descriptor_state is itself queued.           *)
  Runners,      (* The threads that call run().                            *)
  Others,       (* Other threads, that start operations and stop.          *)
  Task,         (* task_operation_                                         *)
  NoOp          (* No operation.                                           *)

ASSUME SchedulerAssumption ==
  /\ Task \notin Ops \cup Descriptors /\ NoOp \notin Ops \cup Descriptors
  /\ Ops \cap Descriptors = {}
  /\ Runners \cap Others = {}

VARIABLES
  queue,        (* op_queue_                                               *)
  outstanding,  (* outstanding_work_                                       *)
  stopped,      (* stopped_                                                *)
  hasTask,      (* whether task_ is set                                    *)
  interrupted,  (* task_interrupted_                                       *)
  signalled,    (* the lowest bit of the event's state_                    *)
  pc,           (* where each thread is                                    *)
  item,         (* what a runner took from the queue                       *)
  blocks,       (* the runners that let epoll_wait block                   *)
  private,      (* private_op_queue                                        *)
  privateWork,  (* private_outstanding_work                                *)
  posting,      (* the counted operation a thread is about to queue        *)
  owes,         (* the threads that unlocked and are about to signal       *)
  armed,        (* the operation that waits at each descriptor             *)
  data,         (* the descriptors with something for it                   *)
  edge,         (* the descriptors epoll_wait has an event for             *)
  wakeup,       (* whether epoll_wait has one for the interrupter          *)
  guard,        (* whether the work guard is there                         *)
  asked,        (* history: stop() was called from outside                 *)
  done          (* history: the operations whose handler has returned      *)

vars == <<queue, outstanding, stopped, hasTask, interrupted, signalled, pc, item,
          blocks, private, privateWork, posting, owes, armed, data, edge, wakeup,
          guard, asked, done>>
shared  == <<queue, stopped, hasTask, interrupted, signalled, wakeup>>
reactor == <<armed, data, edge>>
mine    == <<item, blocks, private, privateWork, posting>>

Threads == Runners \cup Others
Free(t) == posting[t] = NoOp /\ t \notin owes
At(t, where) == Free(t) /\ pc[t] = where
Waiters == {r \in Runners : pc[r] \in {"wait", "woken"}}
Go(t, where) == pc' = [pc EXCEPT ![t] = where]
Holds(t, h) == \/ posting[t] = h
               \/ t \in Runners /\ (item[t] = h \/ Contains(private[t], h))
Unused == {h \in Ops : /\ h \notin done /\ ~Contains(queue, h)
                       /\ \A d \in Descriptors : armed[d] # h
                       /\ \A t \in Threads : ~Holds(t, h)}

Init ==
  /\ queue = <<>> /\ outstanding = 1 /\ stopped = FALSE
  /\ hasTask = FALSE /\ interrupted = TRUE /\ signalled = FALSE
  /\ pc = [t \in Threads |-> IF t \in Runners THEN "start" ELSE "idle"]
  /\ item = [r \in Runners |-> NoOp] /\ blocks = {}
  /\ private = [r \in Runners |-> <<>>] /\ privateWork = [r \in Runners |-> 0]
  /\ posting = [t \in Threads |-> NoOp] /\ owes = {}
  /\ armed = [d \in Descriptors |-> NoOp] /\ data = {} /\ edge = {}
  /\ wakeup = FALSE /\ guard = TRUE /\ asked = FALSE /\ done = {}
-----------------------------------------------------------------------------
(* Waking a thread, within a critical section of thread t.                 *)

MutWakeOne(t, ti) ==      \* the task is not interrupted
  /\ signalled' = TRUE
  /\ owes' = IF Waiters \ {t} # {} THEN owes \cup {t} ELSE owes
  /\ UNCHANGED wakeup
  /\ interrupted' = ti
(* wake_one_thread_and_unlock with task_interrupted_ = ti: a waiter is     *)
(* signalled after the unlock, or else the task is interrupted.            *)
WakeOne(t, ti) ==
  /\ signalled' = TRUE
  /\ IF Waiters \ {t} # {}
       THEN /\ owes' = owes \cup {t}
            /\ interrupted' = ti
            /\ wakeup' = wakeup
       ELSE /\ owes' = owes
            /\ interrupted' = (ti \/ hasTask')
            /\ wakeup' = (wakeup \/ (~ti /\ hasTask'))

(* pthread_cond_signal.                                                    *)
Signal(t) ==
  /\ t \in owes
  /\ owes' = owes \ {t}
  /\ \/ \E r \in Runners : pc[r] = "wait" /\ Go(r, "woken")
     \/ (\A r \in Runners : pc[r] # "wait") /\ pc' = pc
  /\ UNCHANGED <<shared, outstanding, mine, reactor, guard, asked, done>>

(* pthread_cond_wait may return for no reason.                             *)
Spurious(r) ==
  /\ pc[r] = "wait" /\ Go(r, "woken")
  /\ UNCHANGED <<shared, outstanding, mine, owes, reactor, guard, asked, done>>
-----------------------------------------------------------------------------
(* A turn of do_run_one's loop by runner r, that holds the mutex with      *)
(* op_queue_ = q and task_interrupted_ = ti.                               *)
Turn(r, q, ti) ==
  /\ UNCHANGED <<stopped, hasTask>>
  /\ \/ /\ stopped
        /\ Go(r, "returned") /\ queue' = q /\ interrupted' = ti
        /\ UNCHANGED <<signalled, wakeup, item, blocks, owes>>
     \/ /\ ~stopped /\ q = <<>>
        /\ Go(r, "wait") /\ queue' = q /\ interrupted' = ti /\ signalled' = FALSE
        /\ UNCHANGED <<wakeup, item, blocks, owes>>
     \/ /\ ~stopped /\ q # <<>> /\ Head(q) = Task
        /\ LET more == Len(q) > 1
           IN  /\ interrupted' = more
               /\ signalled' = (signalled \/ more)
               /\ owes' = IF more /\ Waiters \ {r} # {} THEN owes \cup {r} ELSE owes
               /\ blocks' = IF more THEN blocks ELSE blocks \cup {r}
        /\ Go(r, "task") /\ queue' = Tail(q)
        /\ UNCHANGED <<wakeup, item>>
     \/ /\ ~stopped /\ q # <<>> /\ Head(q) # Task
        /\ Go(r, "handler") /\ queue' = Tail(q)
        /\ item' = [item EXCEPT ![r] = Head(q)]
        /\ IF Len(q) > 1 THEN WakeOne(r, ti)
           ELSE interrupted' = ti /\ UNCHANGED <<signalled, owes, wakeup>>
        /\ UNCHANGED blocks
-----------------------------------------------------------------------------
(* The threads that run the context.                                       *)

(* run() returns at once when there is no work.                            *)
Run(r) ==
  /\ At(r, "start")
  /\ Go(r, IF outstanding = 0 THEN "stop" ELSE "lock")
  /\ UNCHANGED <<shared, outstanding, mine, owes, reactor, guard, asked, done>>

(* The mutex after a handler: work_cleanup queues what the handler kept    *)
(* private, and the loop goes on.                                          *)
Lock(r) ==
  /\ At(r, "lock")
  /\ Turn(r, queue \o private[r], interrupted)
  /\ private' = [private EXCEPT ![r] = <<>>]
  /\ UNCHANGED <<outstanding, privateWork, posting, reactor, guard, asked, done>>

(* The mutex after pthread_cond_wait, that waits on unless signalled.      *)
Wake(r) ==
  /\ At(r, "woken")
  /\ IF signalled THEN Turn(r, queue, interrupted)
     ELSE Go(r, "wait") /\ UNCHANGED <<shared, item, blocks, owes>>
  /\ UNCHANGED <<outstanding, private, privateWork, posting, reactor, guard, asked, done>>

MutPoll(r) ==             \* an interrupt hides the other events
  /\ At(r, "task")
  /\ r \in blocks => edge # {} \/ wakeup
  /\ \E ops \in SetToSeqs(IF wakeup THEN {} ELSE edge) :
       private' = [private EXCEPT ![r] = ops]
  /\ edge' = {} /\ wakeup' = FALSE
  /\ blocks' = blocks \ {r}
  /\ Go(r, "cleanup")
  /\ UNCHANGED <<queue, stopped, hasTask, interrupted, signalled, outstanding, item,
                 privateWork, posting, owes, armed, data, guard, asked, done>>
(* epoll_reactor::run: every descriptor with an event goes to the private  *)
(* queue, in any order.                                                    *)
Poll(r) ==
  /\ At(r, "task")
  /\ r \in blocks => edge # {} \/ wakeup
  /\ \E ops \in SetToSeqs(edge) : private' = [private EXCEPT ![r] = ops]
  /\ edge' = {} /\ wakeup' = FALSE
  /\ blocks' = blocks \ {r}
  /\ Go(r, "cleanup")
  /\ UNCHANGED <<queue, stopped, hasTask, interrupted, signalled, outstanding, item,
                 privateWork, posting, owes, armed, data, guard, asked, done>>

MutCleanup(r) ==          \* the task goes first
  /\ At(r, "cleanup")
  /\ Turn(r, queue \o <<Task>> \o private[r], TRUE)
  /\ private' = [private EXCEPT ![r] = <<>>]
  /\ UNCHANGED <<outstanding, privateWork, posting, reactor, guard, asked, done>>
(* task_cleanup: what the task returned is queued, and the task behind it. *)
Cleanup(r) ==
  /\ At(r, "cleanup")
  /\ Turn(r, queue \o private[r] \o <<Task>>, TRUE)
  /\ private' = [private EXCEPT ![r] = <<>>]
  /\ UNCHANGED <<outstanding, privateWork, posting, reactor, guard, asked, done>>

(* descriptor_state::do_complete: the operation that can now be performed  *)
(* has its handler executed here; if there is none, the work that will be  *)
(* counted down was never counted.                                         *)
Descriptor(r) ==
  /\ At(r, "handler") /\ item[r] \in Descriptors
  /\ LET d == item[r]
     IN  IF armed[d] # NoOp /\ d \in data
           THEN /\ item' = [item EXCEPT ![r] = armed[d]]
                /\ armed' = [armed EXCEPT ![d] = NoOp]
                /\ data' = data \ {d}
                /\ UNCHANGED <<privateWork, pc>>
           ELSE /\ item' = [item EXCEPT ![r] = NoOp]
                /\ privateWork' = [privateWork EXCEPT ![r] = @ + 1]
                /\ Go(r, "finish")
                /\ UNCHANGED <<armed, data>>
  /\ UNCHANGED <<shared, outstanding, blocks, private, posting, owes, edge, guard,
                 asked, done>>

HandlerReturns(r) ==
  /\ At(r, "handler") /\ item[r] \in Ops
  /\ done' = done \cup {item[r]}
  /\ item' = [item EXCEPT ![r] = NoOp]
  /\ Go(r, "finish")
  /\ UNCHANGED <<shared, outstanding, blocks, private, privateWork, posting, owes,
                 reactor, guard, asked>>

MutFinish(r) ==           \* counts down what was done, whatever it started
  /\ At(r, "finish")
  /\ outstanding' = outstanding - 1
  /\ privateWork' = [privateWork EXCEPT ![r] = 0]
  /\ Go(r, IF outstanding' = 0 THEN "stop" ELSE "lock")
  /\ UNCHANGED <<shared, item, blocks, private, posting, owes, reactor, guard, asked,
                 done>>
(* work_cleanup's count: up for what the handler started, less the one for *)
(* what was done.  Only a count that went down to zero stops the context.  *)
Finish(r) ==
  /\ At(r, "finish")
  /\ outstanding' = outstanding + privateWork[r] - 1
  /\ privateWork' = [privateWork EXCEPT ![r] = 0]
  /\ Go(r, IF privateWork[r] = 0 /\ outstanding' = 0 THEN "stop" ELSE "lock")
  /\ UNCHANGED <<shared, item, blocks, private, posting, owes, reactor, guard, asked,
                 done>>

MutStop(t) ==             \* wakes the waiters and not the task
  /\ At(t, "stop")
  /\ stopped' = TRUE /\ signalled' = TRUE
  /\ pc' = [u \in Threads |-> IF u = t THEN IF t \in Runners THEN "lock" ELSE "idle"
                              ELSE IF pc[u] = "wait" THEN "woken" ELSE pc[u]]
  /\ UNCHANGED <<queue, hasTask, interrupted, wakeup, outstanding, mine, owes,
                 reactor, guard, asked, done>>
(* stop: under the mutex every waiter is woken, and the task interrupted.  *)
Stop(t) ==
  /\ At(t, "stop")
  /\ stopped' = TRUE /\ signalled' = TRUE
  /\ pc' = [u \in Threads |-> IF u = t THEN IF t \in Runners THEN "lock" ELSE "idle"
                              ELSE IF pc[u] = "wait" THEN "woken" ELSE pc[u]]
  /\ interrupted' = (interrupted \/ hasTask)
  /\ wakeup' = (wakeup \/ (~interrupted /\ hasTask))
  /\ UNCHANGED <<queue, hasTask, outstanding, mine, owes, reactor, guard, asked, done>>
-----------------------------------------------------------------------------
(* Starting operations, in a handler or in another thread.                 *)

(* The first socket of the context brings the reactor with it.             *)
InitTask(t) ==
  /\ At(t, "idle") /\ ~hasTask
  /\ hasTask' = TRUE
  /\ queue' = Append(queue, Task)
  /\ WakeOne(t, interrupted)
  /\ UNCHANGED <<stopped, outstanding, pc, mine, reactor, guard, asked, done>>

MayStart(t) ==
  /\ Free(t) /\ hasTask
  /\ pc[t] = "idle" \/ (pc[t] = "handler" /\ item[t] \in Ops)

(* start_op with nothing to be had yet: the operation waits and is work.   *)
StartArmed(t, h, d) ==
  /\ MayStart(t) /\ h \in Unused /\ armed[d] = NoOp /\ d \notin data
  /\ armed' = [armed EXCEPT ![d] = h]
  /\ outstanding' = outstanding + 1
  /\ UNCHANGED <<shared, pc, mine, owes, data, edge, guard, asked, done>>

(* start_op that is performed at once: its completion goes to the queue,   *)
(* counted before the mutex is taken...                                    *)
StartDone(t, h, d) ==
  /\ MayStart(t) /\ h \in Unused /\ armed[d] = NoOp /\ d \in data
  /\ data' = data \ {d}
  /\ outstanding' = outstanding + 1
  /\ posting' = [posting EXCEPT ![t] = h]
  /\ UNCHANGED <<shared, pc, item, blocks, private, privateWork, owes, armed, edge,
                 guard, asked, done>>

Post(t) ==
  /\ posting[t] # NoOp /\ t \notin owes
  /\ queue' = Append(queue, posting[t])
  /\ posting' = [posting EXCEPT ![t] = NoOp]
  /\ hasTask' = hasTask
  /\ WakeOne(t, interrupted)
  /\ UNCHANGED <<stopped, outstanding, pc, item, blocks, private, privateWork,
                 reactor, guard, asked, done>>

(* ... or, as a continuation of the handler that runs, stays with the      *)
(* thread until the handler is done.                                       *)
StartContinuation(r, h, d) ==
  /\ MayStart(r) /\ h \in Unused /\ armed[d] = NoOp /\ d \in data
  /\ data' = data \ {d}
  /\ private' = [private EXCEPT ![r] = Append(@, h)]
  /\ privateWork' = [privateWork EXCEPT ![r] = @ + 1]
  /\ UNCHANGED <<shared, outstanding, pc, item, blocks, posting, owes, armed, edge,
                 guard, asked, done>>

(* ContextPool::Stop: the work guard goes, and stop() is called.           *)
ReleaseGuard(t) ==
  /\ At(t, "idle") /\ guard
  /\ guard' = FALSE
  /\ outstanding' = outstanding - 1
  /\ Go(t, IF outstanding' = 0 THEN "stop" ELSE "idle")
  /\ UNCHANGED <<shared, mine, owes, reactor, asked, done>>

Ask(t) ==
  /\ At(t, "idle")
  /\ asked' = TRUE
  /\ Go(t, "stop")
  /\ UNCHANGED <<shared, outstanding, mine, owes, reactor, guard, done>>

(* The kernel: something for the socket's operation, or an event only.     *)
Event(d) ==
  /\ edge' = edge \cup {d}
  /\ data' \in {data, data \cup {d}}
  /\ UNCHANGED <<shared, outstanding, pc, mine, owes, armed, guard, asked, done>>

Start(t) == \E h \in Ops, d \in Descriptors :
              \/ StartArmed(t, h, d) \/ StartDone(t, h, d)
              \/ t \in Runners /\ StartContinuation(t, h, d)
Pending(t) == Signal(t) \/ Post(t) \/ Stop(t)
Step(r)    == \/ Pending(r) \/ Run(r) \/ Lock(r) \/ Wake(r) \/ Poll(r) \/ Cleanup(r)
              \/ Descriptor(r) \/ HandlerReturns(r) \/ Finish(r)
Other(t)   == Pending(t) \/ InitTask(t) \/ ReleaseGuard(t) \/ Ask(t)

Next ==
  \/ \E r \in Runners : Step(r) \/ Spurious(r)
  \/ \E t \in Others : Other(t)
  \/ \E t \in Threads : Start(t)
  \/ \E d \in Descriptors : Event(d)

(* Threads run and get the mutex, and handlers return.  What others do of  *)
(* their own accord, and what the kernel has to report, need not come.     *)
Spec ==
  /\ Init /\ [][Next]_vars
  /\ \A r \in Runners : WF_vars(Step(r))
  /\ \A t \in Others : WF_vars(Pending(t))
-----------------------------------------------------------------------------
(* Properties.                                                             *)

Polling == {r \in Runners : pc[r] \in {"task", "cleanup"}}
(* When the reactor runs, every descriptor it returned before has left the *)
(* queue (what the comment in epoll_reactor::run relies on): none is ever  *)
(* linked into two queues.                                                 *)
DescriptorsDequeued ==
  \A r \in Polling, d \in Descriptors :
    /\ ~Contains(queue, d)
    /\ \A o \in Runners \ {r} : ~Contains(private[o], d)

(* The count of work is that of the guard, the operations under way and    *)
(* the handlers being executed, whatever threads have yet to add to it.    *)
Queued == {h \in Ops : \/ Contains(queue, h) \/ \E d \in Descriptors : armed[d] = h
                       \/ \E t \in Threads : posting[t] = h
                       \/ \E r \in Runners : Contains(private[r], h)}
Executing == {r \in Runners : pc[r] = "finish" \/ item[r] \in Ops}
PrivateWork == UNION {{r} \X (1 .. privateWork[r]) : r \in Runners}
WorkCounted ==
  outstanding + Cardinality(PrivateWork)
    = Cardinality(Queued) + Cardinality(Executing) + IF guard THEN 1 ELSE 0

(* No wakeup is lost: as long as the queue holds anything, and a thread is *)
(* waiting or blocked in epoll_wait, a thread is on its way to the queue.  *)
Blocked(r) == pc[r] = "wait" \/ (pc[r] = "task" /\ r \in blocks /\ edge = {} /\ ~wakeup)
NoLostWakeup ==
  ~stopped /\ queue # <<>> /\ (\E r \in Runners : Blocked(r)) =>
    \/ owes # {}
    \/ \E r \in Runners : \/ pc[r] \in {"start", "lock", "woken", "cleanup", "stop", "finish"}
                          \/ pc[r] = "task" /\ ~Blocked(r)

(* An operation that can be performed is completed: its handler is executed*)
(* unless the context stops first.                                         *)
Performed ==
  \A d \in Descriptors, h \in Ops :
    armed[d] = h /\ d \in data ~> h \in done \/ stopped

(* Once stopped, every run() returns.                                      *)
RunReturns == stopped ~> \A r \in Runners : pc[r] = "returned"

(* The scheduler keeps the promises of IoContext.                          *)
Status   == [h \in Ops |-> IF h \in done THEN "done"
                           ELSE IF \E r \in Runners : item[r] = h THEN "running"
                           ELSE IF h \in Queued THEN "pending" ELSE "new"]
Engaged  == {r \in Runners : pc[r] = "handler"}
Executes == [r \in Runners |-> IF item[r] \in Ops THEN item[r] ELSE NoOp]
Phase    == IF stopped THEN "stopped"
            ELSE IF \E t \in Threads : pc[t] = "stop" THEN "ending" ELSE "running"
Ended    == {r \in Runners : pc[r] = "returned"}
Context == INSTANCE IoContext WITH
  status <- Status, engaged <- Engaged, executes <- Executes, phase <- Phase,
  returned <- Ended
Implements == Context!Spec
=============================================================================
