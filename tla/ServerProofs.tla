----------------------------- MODULE ServerProofs -----------------------------
(***************************************************************************)
(* Proofs about Server, for every set of clients, every pool size that may *)
(* be asked for, any number of descriptors and any calls of the owner.     *)
(***************************************************************************)
EXTENDS Server, TLAPS

-----------------------------------------------------------------------------
(* The inductive invariant.                                                *)

(* Which server and which pool each place of the owner's thread goes with. *)
Phases ==
  /\ server = "none" => size = 0 /\ main = "ready" /\ ~running
  /\ main \in {"run", "spawn", "callback", "wait"} => server = "alive"
  /\ main \in {"stop", "close", "destroy", "join", "gone"} => server = "dead"
  /\ server = "alive" \/ main \in {"stop", "close", "destroy", "join"} => size > 0
  /\ main \in {"spawn", "stop"} => step < size
  /\ main \in {"spawn", "callback", "wait"} => running
  /\ acceptor # "none" => size > 0
  /\ acceptor = "destroyed" => server = "dead"
  /\ main \in {"destroy", "join"} => acceptor # "open"

(* Until is_running_ is set no context has a thread, and while the threads *)
(* are created each context before step has one and the others have none.  *)
Spawned ==
  /\ ~running =>
       \A c \in Contexts : threads[c] = 0 /\ worker[c] = "absent"
  /\ main = "spawn" =>
       \A c \in Contexts : c >= step => threads[c] = 0 /\ worker[c] = "absent"

(* Unless a thread could not be created, no thread is left when Run has    *)
(* returned, nor while the destructor works.                               *)
Settled ==
  main \notin {"spawn", "callback", "wait"} /\ "thread" \notin threw =>
    \A c \in Contexts : Exited(c)

IInv ==
  /\ TypeOK /\ Phases /\ Spawned /\ Settled
  /\ OneThreadPerContext /\ AcceptLoop /\ UndefinedOnly
-----------------------------------------------------------------------------
(* The steps, as cases.                                                    *)

(* Next, with the threads' actions spread out.                             *)
LEMMA NextCases ==
  ASSUME Next
  PROVE  \/ SetPoolSize \/ SetDebug \/ Construct \/ BindFails \/ RunAgain \/ Destroy
         \/ CompareExchange \/ Spawn \/ ThreadFails \/ Callback
         \/ Stop \/ CloseAcceptor \/ DestroyAcceptor \/ Join
         \/ (\E k \in Conns : Connect(k)) \/ (\E k \in Conns : Leave(k))
         \/ Reactor \/ AcceptHandler \/ IsOpen \/ Rearm
         \/ (\E c \in Contexts : Serve(c)) \/ (\E c \in Contexts : EndSession(c))
         \/ (\E c \in Contexts : Exit(c))
BY DEF Next, Owner, MainStep, Clients, Worker, Loop, Serve, EndSession, Exit, Ready

(* The rotation stays within the pool.                                     *)
LEMMA ModType ==
  ASSUME NEW m \in Nat, NEW n \in Nat, n > 0
  PROVE  m % n \in 0 .. n - 1
OBVIOUS

(* A finished or waiting accept leaves the operation's parts well-typed,   *)
(* and there is an operation.                                              *)
LEMMA AttemptType ==
  ASSUME TypeOK, Attempt
  PROVE  /\ accept' \in {"waiting", "done"}
         /\ result' \in Conns \cup {Error}
         /\ conn' \in [Conns -> {"away", "backlog", "accepted", "open", "served", "ended"}]
BY DEF TypeOK, Attempt, Backlog
-----------------------------------------------------------------------------
(* Types.                                                                  *)

(* No step leaves the types.                                               *)
LEMMA TypeStep ==
  ASSUME IInv, Next
  PROVE  TypeOK'
<1> USE DEF Idle, Contexts, owner, pool, accepts, clients
<1>0. TypeOK /\ Phases
  BY DEF IInv
<1>1. CASE SetPoolSize
  BY <1>0, <1>1 DEF TypeOK, SetPoolSize
<1>2. CASE SetDebug
  <2>1. debug' \in BOOLEAN /\ state' \in BOOLEAN
    BY <1>0, <1>2, Zenon DEF TypeOK, SetDebug
  <2>2. process' \in {"up", "terminated", "undefined"}
    BY <1>0, <1>2 DEF TypeOK, SetDebug
  <2> QED  BY <1>0, <1>2, <2>1, <2>2 DEF TypeOK, SetDebug
<1>3. CASE Construct
  BY <1>0, <1>3, ModType, ServerAssumption DEF TypeOK, Phases, Construct
<1>4. CASE BindFails
  BY <1>0, <1>4 DEF TypeOK, BindFails
<1>5. CASE RunAgain
  BY <1>0, <1>5 DEF TypeOK, RunAgain
<1>6. CASE Destroy
  <2>1. guards' \in BOOLEAN
    BY <1>6, Zenon DEF Destroy
  <2>2. step' \in 0 .. size'
    BY <1>0, <1>6 DEF TypeOK, Destroy
  <2>3. main' \in {"gone", "stop"} /\ server' = "dead"
    BY <1>6 DEF Destroy
  <2> QED  BY <1>0, <1>6, <2>1, <2>2, <2>3 DEF TypeOK, Destroy
<1>7. CASE CompareExchange
  <2>1. running' \in BOOLEAN
    BY <1>7, Zenon DEF CompareExchange
  <2>2. step' \in 0 .. size'
    BY <1>0, <1>7 DEF TypeOK, CompareExchange
  <2>3. main' \in {"ready", "spawn"} /\ threw' \subseteq {"bind", "running", "thread"}
    BY <1>0, <1>7 DEF TypeOK, CompareExchange
  <2> QED  BY <1>0, <1>7, <2>1, <2>2, <2>3 DEF TypeOK, CompareExchange
<1>8. CASE Spawn
  BY <1>0, <1>8, SMTT(30) DEF TypeOK, Phases, Spawn
<1>9. CASE ThreadFails
  BY <1>0, <1>9 DEF TypeOK, ThreadFails
<1>10. CASE Callback
  BY <1>0, <1>10 DEF TypeOK, Callback
<1>11. CASE Stop
  BY <1>0, <1>11 DEF TypeOK, Phases, Stop
<1>12. CASE CloseAcceptor
  BY <1>0, <1>12 DEF TypeOK, CloseAcceptor
<1>13. CASE DestroyAcceptor
  BY <1>0, <1>13 DEF TypeOK, DestroyAcceptor
<1>14. CASE Join
  BY <1>0, <1>14 DEF TypeOK, Join, Holding
<1>15. CASE \E k \in Conns : Connect(k)
  BY <1>0, <1>15 DEF TypeOK, Connect
<1>16. CASE \E k \in Conns : Leave(k)
  BY <1>0, <1>16 DEF TypeOK, Leave
<1>17. CASE Reactor
  BY <1>0, <1>17, AttemptType DEF TypeOK, Reactor
<1>18. CASE AcceptHandler
  BY <1>0, <1>18 DEF TypeOK, AcceptHandler, Ready
<1>19. CASE IsOpen
  BY <1>0, <1>19, SMTT(30) DEF TypeOK, IsOpen, Checking
<1>20. CASE Rearm
  BY <1>0, <1>20, AttemptType, ModType, SMTT(30) DEF TypeOK, Rearm, StartAccept
<1>21. CASE \E c \in Contexts : Serve(c)
  <2>0. PICK c \in Contexts : Serve(c)
    BY <1>21
  <2>1. conn' \in [Conns -> {"away", "backlog", "accepted", "open", "served", "ended"}]
    BY <1>0, <2>0 DEF TypeOK, Serve, Sessions
  <2>2. process' \in {"up", "terminated", "undefined"}
    BY <1>0, <2>0 DEF TypeOK, Serve
  <2>3. UNCHANGED <<owner, pool, next, stopped, worker, accepts, clients, main, step>>
    BY <2>0 DEF Serve
  <2> QED  BY <1>0, <2>1, <2>2, <2>3 DEF TypeOK
<1>22. CASE \E c \in Contexts : EndSession(c)
  BY <1>0, <1>22 DEF TypeOK, EndSession, Sessions
<1>23. CASE \E c \in Contexts : Exit(c)
  BY <1>0, <1>23 DEF TypeOK, Exit
<1> QED
  BY <1>1, <1>2, <1>3, <1>4, <1>5, <1>6, <1>7, <1>8, <1>9, <1>10, <1>11, <1>12,
     <1>13, <1>14, <1>15, <1>16, <1>17, <1>18, <1>19, <1>20, <1>21, <1>22, <1>23,
     NextCases
-----------------------------------------------------------------------------
(* The owner's thread goes with its server and its pool.                   *)
LEMMA PhasesStep ==
  ASSUME IInv, Next
  PROVE  Phases'
<1> USE DEF TypeOK, Phases,
           Idle, Contexts, owner, pool, accepts, clients
<1>0. TypeOK /\ Phases
  BY DEF IInv
<1>1. CASE UNCHANGED <<server, size, main, running, acceptor, step>>
  BY <1>0, <1>1
<1>2. CASE Construct
  <2>1. size' > 0
    BY <1>0, <1>2, ServerAssumption DEF Construct
  <2> QED  BY <1>0, <1>2, <2>1 DEF Construct
<1>3. CASE RunAgain
  BY <1>0, <1>3 DEF RunAgain
<1>4. CASE Destroy
  BY <1>0, <1>4 DEF Destroy
<1>5. CASE CompareExchange
  BY <1>0, <1>5 DEF CompareExchange
<1>6. CASE Spawn
  BY <1>0, <1>6 DEF Spawn
<1>7. CASE ThreadFails
  BY <1>0, <1>7 DEF ThreadFails
<1>8. CASE Callback
  BY <1>0, <1>8 DEF Callback
<1>9. CASE Stop
  BY <1>0, <1>9 DEF Stop
<1>10. CASE CloseAcceptor
  BY <1>0, <1>10 DEF CloseAcceptor
<1>11. CASE DestroyAcceptor
  BY <1>0, <1>11 DEF DestroyAcceptor
<1>12. CASE Join
  BY <1>0, <1>12 DEF Join
<1> QED
  BY <1>0, <1>1, <1>2, <1>3, <1>4, <1>5, <1>6, <1>7, <1>8, <1>9, <1>10, <1>11,
     <1>12, NextCases
     DEF SetPoolSize, SetDebug, BindFails, Connect, Leave, Reactor,
       AcceptHandler, IsOpen, Rearm, Serve, EndSession, Exit, Ready, Attempt,
       Checking, StartAccept
-----------------------------------------------------------------------------
(* Threads are created once, in order.                                     *)
LEMMA SpawnedStep ==
  ASSUME IInv, Next
  PROVE  Spawned'
<1> USE DEF TypeOK, Phases, Spawned,
           Idle, Contexts, owner, pool, accepts, clients
<1>0. TypeOK /\ Phases /\ Spawned
  BY DEF IInv
<1>1. CASE UNCHANGED <<size, running, threads, worker, main, step>>
  BY <1>0, <1>1
<1>2. CASE Construct
  BY <1>0, <1>2 DEF Construct
<1>3. CASE RunAgain
  BY <1>0, <1>3 DEF RunAgain
<1>4. CASE Destroy
  BY <1>0, <1>4 DEF Destroy
<1>5. CASE CompareExchange
  BY <1>0, <1>5 DEF CompareExchange
<1>6. CASE Spawn
  BY <1>0, <1>6 DEF Spawn
<1>7. CASE ThreadFails
  BY <1>0, <1>7 DEF ThreadFails
<1>8. CASE Callback
  BY <1>0, <1>8 DEF Callback
<1>9. CASE Stop
  BY <1>0, <1>9 DEF Stop
<1>10. CASE CloseAcceptor
  BY <1>0, <1>10 DEF CloseAcceptor
<1>11. CASE DestroyAcceptor
  BY <1>0, <1>11 DEF DestroyAcceptor
<1>12. CASE Join
  BY <1>0, <1>12 DEF Join
<1>13. CASE AcceptHandler
  BY <1>0, <1>13 DEF AcceptHandler, Ready
<1>14. CASE IsOpen
  BY <1>0, <1>14 DEF IsOpen, Checking
<1>15. CASE Rearm
  BY <1>0, <1>15 DEF Rearm, StartAccept, Attempt
<1>16. CASE \E c \in Contexts : Exit(c)
  BY <1>0, <1>16 DEF Exit
<1> QED
  BY <1>0, <1>1, <1>2, <1>3, <1>4, <1>5, <1>6, <1>7, <1>8, <1>9, <1>10, <1>11,
     <1>12, <1>13, <1>14, <1>15, <1>16, NextCases
     DEF SetPoolSize, SetDebug, BindFails, Connect, Leave, Reactor, Serve,
       EndSession, Ready, Attempt
-----------------------------------------------------------------------------
(* No context gets a second thread: only Spawn creates one, and step has   *)
(* none yet.                                                               *)
LEMMA OneThreadStep ==
  ASSUME IInv, Next
  PROVE  OneThreadPerContext'
<1> USE DEF TypeOK, Phases, Spawned, OneThreadPerContext,
           Idle, Contexts, owner, pool, accepts, clients
<1>0. TypeOK /\ Phases /\ Spawned /\ OneThreadPerContext
  BY DEF IInv
<1>1. CASE UNCHANGED <<size, threads>>
  BY <1>0, <1>1
<1>2. CASE Construct
  BY <1>0, <1>2 DEF Construct
<1>3. CASE Spawn
  BY <1>0, <1>3 DEF Spawn
<1> QED
  BY <1>0, <1>1, <1>2, <1>3, NextCases
     DEF SetPoolSize, SetDebug, BindFails, RunAgain, Destroy, CompareExchange,
       ThreadFails, Callback, Stop, CloseAcceptor, DestroyAcceptor, Join,
       Connect, Leave, Reactor, AcceptHandler, IsOpen, Rearm, Serve,
       EndSession, Exit, Ready, Attempt, Checking, StartAccept
-----------------------------------------------------------------------------
(* Run and the destructor have joined the threads there were.              *)
LEMMA SettledStep ==
  ASSUME IInv, Next
  PROVE  Settled'
<1> USE DEF TypeOK, Phases, Spawned, Settled,
           Idle, Contexts, Exited, owner, pool, accepts, clients
<1>0. TypeOK /\ Phases /\ Spawned /\ Settled
  BY DEF IInv
<1>1. CASE UNCHANGED <<size, main, threw, worker>>
  BY <1>0, <1>1
<1>2. CASE Construct
  BY <1>0, <1>2 DEF Construct
<1>3. CASE BindFails
  BY <1>0, <1>3 DEF BindFails
<1>4. CASE RunAgain
  BY <1>0, <1>4 DEF RunAgain
<1>5. CASE Destroy
  BY <1>0, <1>5 DEF Destroy
<1>6. CASE CompareExchange
  BY <1>0, <1>6 DEF CompareExchange
<1>7. CASE Spawn
  BY <1>0, <1>7 DEF Spawn
<1>8. CASE ThreadFails
  BY <1>0, <1>8 DEF ThreadFails
<1>9. CASE Callback
  BY <1>0, <1>9 DEF Callback
<1>10. CASE Stop
  BY <1>0, <1>10 DEF Stop
<1>11. CASE CloseAcceptor
  BY <1>0, <1>11 DEF CloseAcceptor
<1>12. CASE DestroyAcceptor
  BY <1>0, <1>12 DEF DestroyAcceptor
<1>13. CASE Join
  BY <1>0, <1>13 DEF Join
<1>14. CASE AcceptHandler
  BY <1>0, <1>14 DEF AcceptHandler, Ready
<1>15. CASE IsOpen
  BY <1>0, <1>15 DEF IsOpen, Checking
<1>16. CASE Rearm
  BY <1>0, <1>16 DEF Rearm, StartAccept,
       Attempt
<1>17. CASE \E c \in Contexts : Exit(c)
  BY <1>0, <1>17 DEF Exit
<1> QED
  BY <1>0, <1>1, <1>2, <1>3, <1>4, <1>5, <1>6, <1>7, <1>8, <1>9, <1>10, <1>11,
     <1>12, <1>13, <1>14, <1>15, <1>16, <1>17, NextCases
     DEF SetPoolSize, SetDebug, Connect, Leave, Reactor, Serve, EndSession,
       Ready, Attempt
-----------------------------------------------------------------------------
(* An accept's handler starts the next accept while the acceptor is open.  *)
LEMMA LoopStep ==
  ASSUME IInv, Next
  PROVE  AcceptLoop'
<1> USE DEF TypeOK, Phases, Spawned, AcceptLoop,
           Idle, Contexts, owner, pool, accepts, clients
<1>0. TypeOK /\ Phases /\ Spawned /\ AcceptLoop
  BY DEF IInv
<1>1. CASE UNCHANGED <<size, acceptor, process, accept, worker>>
  BY <1>0, <1>1
<1>2. CASE SetDebug
  BY <1>0, <1>2 DEF SetDebug
<1>3. CASE Construct
  <2>1. accept' = "waiting" /\ 0 \in 0 .. size' - 1
    BY <1>0, <1>3, ServerAssumption DEF Construct
  <2>2. worker'[0] = "absent"
    BY <1>3, <2>1 DEF Construct
  <2> QED  BY <2>1, <2>2
<1>4. CASE Spawn
  BY <1>0, <1>4 DEF Spawn
<1>5. CASE CloseAcceptor
  BY <1>0, <1>5 DEF CloseAcceptor
<1>6. CASE DestroyAcceptor
  BY <1>0, <1>6 DEF DestroyAcceptor
<1>7. CASE Join
  <2>1. CASE main = "wait"
    BY <1>0, <1>7, <2>1 DEF Join
  <2>2. CASE main = "join"
    <3>1. acceptor' # "open"
      BY <1>0, <1>7, <2>2 DEF Join
    <3> QED  BY <3>1
  <2> QED  BY <1>7, <2>1, <2>2 DEF Join
<1>8. CASE Reactor
  BY <1>0, <1>8 DEF Reactor, Ready,
       Attempt
<1>9. CASE AcceptHandler
  BY <1>0, <1>9 DEF AcceptHandler, Ready
<1>10. CASE IsOpen
  BY <1>0, <1>10 DEF IsOpen, Checking
<1>11. CASE Rearm
  BY <1>0, <1>11 DEF Rearm, StartAccept,
       Attempt
<1>12. CASE \E c \in Contexts : Serve(c)
  BY <1>0, <1>12 DEF Serve, Ready
<1>13. CASE \E c \in Contexts : Exit(c)
  BY <1>0, <1>13 DEF Exit
<1> QED
  BY <1>0, <1>1, <1>2, <1>3, <1>4, <1>5, <1>6, <1>7, <1>8, <1>9, <1>10, <1>11,
     <1>12, <1>13, NextCases
     DEF SetPoolSize, BindFails, RunAgain, Destroy, CompareExchange,
       ThreadFails, Callback, Stop, Connect, Leave, EndSession, Ready
-----------------------------------------------------------------------------
(* A worker meets the destroyed acceptor only after a failed Run.          *)
LEMMA UndefinedStep ==
  ASSUME IInv, Next
  PROVE  UndefinedOnly'
<1> USE DEF TypeOK, Phases, Settled, UndefinedOnly,
           Idle, Contexts, Exited, owner, pool, accepts, clients
<1>0. TypeOK /\ Phases /\ Settled /\ UndefinedOnly
  BY DEF IInv
<1>1. CASE UNCHANGED <<process, server, threw>>
  BY <1>0, <1>1
<1>2. CASE SetDebug
  BY <1>0, <1>2 DEF SetDebug
<1>3. CASE Construct
  BY <1>0, <1>3 DEF Construct
<1>4. CASE BindFails
  BY <1>0, <1>4 DEF BindFails
<1>5. CASE Destroy
  BY <1>0, <1>5 DEF Destroy
<1>6. CASE CompareExchange
  BY <1>0, <1>6 DEF CompareExchange
<1>7. CASE ThreadFails
  BY <1>0, <1>7 DEF ThreadFails
<1>8. CASE IsOpen
  BY <1>0, <1>8 DEF IsOpen, Checking
<1>9. CASE Rearm
  BY <1>0, <1>9 DEF Rearm,
       StartAccept, Attempt
<1>10. CASE \E c \in Contexts : Serve(c)
  BY <1>0, <1>10 DEF Serve, Ready
<1> QED
  BY <1>0, <1>1, <1>2, <1>3, <1>4, <1>5, <1>6, <1>7, <1>8, <1>9, <1>10,
       NextCases
     DEF SetPoolSize, RunAgain, Spawn, Callback, Stop, CloseAcceptor,
       DestroyAcceptor, Join, Connect, Leave, Reactor, AcceptHandler,
       EndSession, Exit, Ready, Attempt
-----------------------------------------------------------------------------
(* The invariant.                                                          *)

(* It holds of a Camille object that has just been made.                   *)
LEMMA InitInvariant == Init => IInv
<1> SUFFICES ASSUME Init PROVE IInv
  OBVIOUS
<1>1. Contexts = {}
  BY DEF Init, Contexts
<1>2. threads \in [Contexts -> Nat]
  BY <1>1 DEF Init
<1>3. worker \in [Contexts -> {"absent", "idle", "check", "rearm", "exited"}]
  BY <1>1 DEF Init
<1>4. debug \in BOOLEAN /\ state \in BOOLEAN /\ running \in BOOLEAN /\ guards \in BOOLEAN
  BY Zenon DEF Init
<1>5. poolSize \in PoolSizes /\ size = 0 /\ step = 0
  BY DEF Init
<1>6. TypeOK
  BY <1>1, <1>2, <1>3, <1>4, <1>5 DEF Init, TypeOK
<1>7. Phases /\ AcceptLoop /\ UndefinedOnly
  BY DEF Init, Phases, AcceptLoop, UndefinedOnly
<1>8. Spawned /\ Settled /\ OneThreadPerContext
  BY <1>1 DEF Spawned, Settled, OneThreadPerContext
<1> QED  BY <1>6, <1>7, <1>8 DEF IInv

(* It says nothing of what is not a variable of the module.                *)
LEMMA StutterInvariant ==
  ASSUME IInv, UNCHANGED vars
  PROVE  IInv'
BY DEF IInv, TypeOK, Phases, Spawned, Settled, OneThreadPerContext, AcceptLoop,
       UndefinedOnly, Contexts, Exited, vars, owner, pool, accepts, clients

(* It is inductive: it holds throughout, for every pool and any clients.   *)
THEOREM Inductive == Spec => []IInv
<1>1. IInv /\ [Next]_vars => IInv'
  BY StutterInvariant, TypeStep, PhasesStep, SpawnedStep, OneThreadStep,
     SettledStep, LoopStep, UndefinedStep DEF IInv
<1> QED  BY InitInvariant, <1>1, PTL DEF Spec

(* The members of the three classes, and what the threads are at, keep     *)
(* their types; the rotation and the owner's loop stay within the pool.    *)
THEOREM TypeCorrect == Spec => []TypeOK
<1>1. IInv => TypeOK
  BY DEF IInv
<1> QED  BY Inductive, <1>1, PTL

(* No context of a pool of any size is ever run by two threads, however    *)
(* often Run is called and whatever it fails with.                         *)
THEOREM ContextsHaveOneThread == Spec => []OneThreadPerContext
<1>1. IInv => OneThreadPerContext
  BY DEF IInv
<1> QED  BY Inductive, <1>1, PTL

(* The accept loop lives as long as the acceptor is open, whatever the     *)
(* accepts' outcome and however many descriptors there are.                *)
THEOREM AcceptLoopLives == Spec => []AcceptLoop
<1>1. IInv => AcceptLoop
  BY DEF IInv
<1> QED  BY Inductive, <1>1, PTL

(* Two ways alone lead to undefined behaviour: SetDebug before Run, and    *)
(* the destructor after a Run that could not create a thread.              *)
THEOREM UndefinedOnlyTwoWays == Spec => []UndefinedOnly
<1>1. IInv => UndefinedOnly
  BY DEF IInv
<1> QED  BY Inductive, <1>1, PTL

(* Outside Run, and unless a thread could not be created, no thread runs a *)
(* context: the acceptor is destroyed beside no worker.                    *)
THEOREM NoThreadLeft == Spec => []Settled
<1>1. IInv => Settled
  BY DEF IInv
<1> QED  BY Inductive, <1>1, PTL
=============================================================================
