-------------------------------- MODULE Server --------------------------------
(***************************************************************************)
(* The application object, the server and its pool of contexts             *)
(* (include/camille/client.h, server.h, pool.h): what the owner of a       *)
(* Camille object may call, the threads that Run starts, one per           *)
(* io_context, the accept loop in the first of them and the destructors.   *)
(*                                                                         *)
(* A connection's session is here only accepted, served and ended (module  *)
(* Session has the inside); it runs in the thread of the context that the  *)
(* rotation gave its socket.                                               *)
(***************************************************************************)
EXTENDS Naturals, FiniteSets

CONSTANTS
  Conns,       (* The connections that clients may make.                   *)
  Error,       (* An accept's result that is no connection.                *)
  PoolSizes,   (* What SetPoolSize, or the hardware, may ask for.          *)
  MaxFds       (* How many connections the process has descriptors for.    *)

ASSUME ServerAssumption ==
  /\ Error \notin Conns
  /\ PoolSizes \subseteq Nat
  /\ MaxFds \in Nat \ {0}

VARIABLES
  debug,      (* Camille's debug_                                          *)
  poolSize,   (* Camille's pool_size_                                      *)
  server,     (* whether server_ is none, alive or dead                    *)
  state,      (* the server's state_                                       *)
  size,       (* the number of contexts in the pool                        *)
  running,    (* is_running_                                               *)
  next,       (* next_io_context_, modulo size                             *)
  guards,     (* whether work_guards_ are there                            *)
  stopped,    (* the contexts that stop() was called on                    *)
  threads,    (* how many of threads_ run each context                     *)
  worker,     (* what the thread of each context does                      *)
  acceptor,   (* acceptor_: none, open, closed, destroyed                  *)
  accept,     (* its accept operation: none, waiting, done                 *)
  socket,     (* the context of that operation's new_socket                *)
  result,     (* what a done operation will tell its handler               *)
  conn,       (* the connections, from away to ended                       *)
  place,      (* the context of each connection's socket                   *)
  gone,       (* the connections whose client has closed its end           *)
  main,       (* where the owner's thread is                               *)
  step,       (* the context that its loop over the contexts has reached   *)
  threw,      (* history: the exceptions Run left with                     *)
  process     (* up, terminated (an exception nobody catches), undefined   *)

owner    == <<debug, poolSize, server, state, threw>>
pool     == <<size, running, guards, threads>>
accepts  == <<acceptor, accept, socket, result>>
clients  == <<place, gone>>
vars == <<owner, pool, next, stopped, worker, accepts, conn, clients, main, step,
          process>>

Contexts == 0 .. size - 1
Backlog  == {k \in Conns : conn[k] = "backlog"}
Holding  == {k \in Conns : conn[k] \in {"accepted", "open", "served"}}
Sessions == {k \in Conns : conn[k] \in {"open", "served"}}

Init ==
  /\ debug = FALSE /\ poolSize \in PoolSizes
  /\ server = "none" /\ state = FALSE
  /\ size = 0 /\ running = FALSE /\ next = 0
  /\ guards = FALSE /\ stopped = {} /\ threads = <<>> /\ worker = <<>>
  /\ acceptor = "none" /\ accept = "none" /\ socket = 0 /\ result = Error
  /\ conn = [k \in Conns |-> "away"] /\ place = [k \in Conns |-> 0] /\ gone = {}
  /\ main = "ready" /\ step = 0 /\ threw = {} /\ process = "up"
-----------------------------------------------------------------------------
(* The accept operation.                                                   *)

(* non_blocking_accept: takes a connection out of the backlog, or has to   *)
(* wait for one; the kernel wants a descriptor for it first.               *)
Attempt ==
  \/ /\ Cardinality(Holding) >= MaxFds
     /\ accept' = "done" /\ result' = Error /\ conn' = conn
  \/ /\ Cardinality(Holding) < MaxFds /\ Backlog = {}
     /\ accept' = "waiting" /\ UNCHANGED <<result, conn>>
  \/ /\ Cardinality(Holding) < MaxFds
     /\ accept' = "done"
     /\ \E k \in Backlog : result' = k /\ conn' = [conn EXCEPT ![k] = "accepted"]

MutStartAccept(n) ==      \* the index is not reduced
  /\ socket' = next
  /\ next' = next + 1
  /\ Attempt
(* StartAccept on the open acceptor: the next context for the new socket,  *)
(* and an operation that is tried at once and else waits for the reactor.  *)
StartAccept(n) ==
  /\ socket' = next
  /\ next' = (next + 1) % n
  /\ Attempt
-----------------------------------------------------------------------------
(* The owner of the Camille object.                                        *)

Idle == main = "ready" /\ process = "up"

SetPoolSize ==
  /\ server # "dead" /\ process = "up"
  /\ poolSize' \in PoolSizes
  /\ UNCHANGED <<debug, server, state, threw, pool, next, stopped, worker,
                 accepts, conn, clients, main, step, process>>

(* Also from another thread, while Run does not return.  Without a server  *)
(* it writes through a null pointer.                                       *)
SetDebug ==
  /\ main \in {"ready", "callback", "wait"} /\ process = "up"
  /\ debug' \in BOOLEAN
  /\ IF server = "none" THEN process' = "undefined" /\ state' = state
                        ELSE process' = process /\ state' = debug'
  /\ UNCHANGED <<poolSize, server, threw, pool, next, stopped, worker,
                 accepts, conn, clients, main, step>>

MutConstruct ==           \* the contexts get no work guards
  /\ Idle /\ server = "none"
  /\ server' = "alive" /\ state' = FALSE
  /\ size' = IF poolSize = 0 THEN 1 ELSE poolSize
  /\ guards' = FALSE /\ running' = FALSE /\ stopped' = {}
  /\ threads' = [c \in 0 .. size' - 1 |-> 0]
  /\ worker' = [c \in 0 .. size' - 1 |-> "absent"]
  /\ acceptor' = "open" /\ accept' = "waiting"
  /\ socket' = 1 % size' /\ next' = 2 % size'
  /\ main' = "run"
  /\ UNCHANGED <<debug, poolSize, threw, result, conn, clients, step, process>>
(* Run without a server: the pool's constructor, the acceptor on the first *)
(* context of the rotation, and StartAccept, whose new_socket is on the    *)
(* next one; nobody can have connected yet.                                *)
Construct ==
  /\ Idle /\ server = "none"
  /\ server' = "alive" /\ state' = FALSE
  /\ size' = IF poolSize = 0 THEN 1 ELSE poolSize
  /\ guards' = TRUE /\ running' = FALSE /\ stopped' = {}
  /\ threads' = [c \in 0 .. size' - 1 |-> 0]
  /\ worker' = [c \in 0 .. size' - 1 |-> "absent"]
  /\ acceptor' = "open" /\ accept' = "waiting"
  /\ socket' = 1 % size' /\ next' = 2 % size'
  /\ main' = "run"
  /\ UNCHANGED <<debug, poolSize, threw, result, conn, clients, step, process>>

(* The address is no address, or is in use: what was built is destroyed.   *)
BindFails ==
  /\ Idle /\ server = "none"
  /\ threw' = threw \cup {"bind"}
  /\ UNCHANGED <<debug, poolSize, server, state, pool, next, stopped, worker,
                 accepts, conn, clients, main, step, process>>

(* Run with the server that an earlier Run has left.                       *)
RunAgain ==
  /\ Idle /\ server = "alive"
  /\ main' = "run"
  /\ UNCHANGED <<owner, pool, next, stopped, worker, accepts, conn, clients,
                 step, process>>

MutCompareExchange ==     \* a plain store
  /\ main = "run" /\ process = "up"
  /\ running' = TRUE
  /\ main' = "spawn" /\ step' = 0
  /\ UNCHANGED <<owner, size, guards, threads, next, stopped, worker, accepts,
                 conn, clients, process>>
(* ContextPool::Run: is_running_ goes from false to true once and for all. *)
CompareExchange ==
  /\ main = "run" /\ process = "up"
  /\ IF running THEN main' = "ready" /\ threw' = threw \cup {"running"}
                ELSE main' = "spawn" /\ threw' = threw
  /\ running' = TRUE /\ step' = 0
  /\ UNCHANGED <<debug, poolSize, server, state, size, guards, threads,
                 next, stopped, worker, accepts, conn, clients, process>>

(* The thread of the next context starts to run it; after the last one the *)
(* callback is called.                                                     *)
Spawn ==
  /\ main = "spawn" /\ process = "up"
  /\ threads' = [threads EXCEPT ![step] = @ + 1]
  /\ worker' = [worker EXCEPT ![step] = "idle"]
  /\ step' = step + 1
  /\ main' = IF step' = size THEN "callback" ELSE "spawn"
  /\ UNCHANGED <<owner, size, running, guards, next, stopped, accepts, conn,
                 clients, process>>

(* A thread that the system does not give: Run leaves with the exception.  *)
ThreadFails ==
  /\ main = "spawn" /\ process = "up"
  /\ threw' = threw \cup {"thread"}
  /\ main' = "ready"
  /\ UNCHANGED <<debug, poolSize, server, state, pool, next, stopped,
                 worker, accepts, conn, clients, step, process>>

(* The callback, which logs where the server listens.                      *)
Callback ==
  /\ main = "callback" /\ process = "up"
  /\ main' = "wait"
  /\ UNCHANGED <<owner, pool, next, stopped, worker, accepts, conn, clients, step,
                 process>>

Exited(c) == worker[c] \in {"absent", "exited"}

-----------------------------------------------------------------------------
(* The destructors of the Camille object: ~Server, then its members in     *)
(* reverse order, acceptor_ and the pool's threads_, whose jthreads join.  *)

Destroy ==
  /\ Idle /\ server # "dead"
  /\ server' = "dead"
  /\ main' = IF server = "none" THEN "gone" ELSE "stop"
  /\ guards' = FALSE
  /\ step' = 0
  /\ UNCHANGED <<debug, poolSize, state, threw, size, running, threads,
                 next, stopped, worker, accepts, conn, clients, process>>

MutStop ==                \* only the work guards go
  /\ main = "stop" /\ process = "up"
  /\ main' = "close"
  /\ UNCHANGED <<owner, pool, next, stopped, worker, accepts, conn, clients, step,
                 process>>
Stop ==
  /\ main = "stop" /\ process = "up"
  /\ stopped' = stopped \cup {step}
  /\ step' = step + 1
  /\ main' = IF step' = size THEN "close" ELSE "stop"
  /\ UNCHANGED <<owner, pool, next, worker, accepts, conn, clients, process>>

(* The operation that waits gets operation_aborted for a result.           *)
CloseAcceptor ==
  /\ main = "close" /\ process = "up"
  /\ acceptor' = "closed"
  /\ IF accept = "waiting" THEN accept' = "done" /\ result' = Error
                           ELSE UNCHANGED <<accept, result>>
  /\ main' = "destroy"
  /\ UNCHANGED <<owner, pool, next, stopped, worker, socket, conn, clients, step,
                 process>>

DestroyAcceptor ==
  /\ main = "destroy" /\ process = "up"
  /\ acceptor' = "destroyed"
  /\ main' = "join"
  /\ UNCHANGED <<owner, pool, next, stopped, worker, accept, socket, result, conn,
                 clients, step, process>>

MutJoin ==                \* Wait does not join
  /\ main \in {"wait", "join"} /\ process = "up"
  /\ main = "wait" \/ \A c \in Contexts : Exited(c)
  /\ main' = IF main = "wait" THEN "ready" ELSE "gone"
  /\ UNCHANGED <<owner, pool, next, stopped, worker, accepts, conn, clients, step,
                 process>>
(* Wait, or the destructor of threads_, has joined every thread.  Run then *)
(* returns; in the destructor the contexts follow, and with them their     *)
(* queues and the sockets that the handlers own.                           *)
Join ==
  /\ main \in {"wait", "join"} /\ process = "up"
  /\ \A c \in Contexts : Exited(c)
  /\ IF main = "wait" THEN main' = "ready" /\ UNCHANGED <<accept, conn>>
     ELSE /\ main' = "gone"
          /\ accept' = "none"
          /\ conn' = [k \in Conns |-> IF k \in Holding THEN "ended" ELSE conn[k]]
  /\ UNCHANGED <<owner, pool, next, stopped, worker, acceptor, socket, result,
                 clients, step, process>>
-----------------------------------------------------------------------------
(* The clients.                                                            *)

Connect(k) ==
  /\ conn[k] = "away" /\ acceptor = "open" /\ process = "up"
  /\ conn' = [conn EXCEPT ![k] = "backlog"]
  /\ UNCHANGED <<owner, pool, next, stopped, worker, accepts, clients, main, step,
                 process>>

Leave(k) ==
  /\ conn[k] \notin {"away", "ended"} /\ k \notin gone
  /\ gone' = gone \cup {k}
  /\ UNCHANGED <<owner, pool, next, stopped, worker, accepts, conn, place, main,
                 step, process>>
-----------------------------------------------------------------------------
(* The thread of context c.                                                *)

Ready(c) == process = "up" /\ c \in Contexts /\ worker[c] = "idle" /\ c \notin stopped

(* The reactor, which the first context's thread runs, has the acceptor    *)
(* readable.                                                               *)
Reactor ==
  /\ Ready(0) /\ accept = "waiting" /\ Backlog # {}
  /\ Attempt
  /\ UNCHANGED <<owner, pool, next, stopped, worker, acceptor, socket, clients,
                 main, step, process>>

(* The accept handler, up to acceptor_.is_open(): a new session starts.    *)
AcceptHandler ==
  /\ Ready(0) /\ accept = "done"
  /\ accept' = "none"
  /\ worker' = [worker EXCEPT ![0] = "check"]
  /\ IF result = Error THEN UNCHANGED <<conn, place>>
     ELSE /\ conn' = [conn EXCEPT ![result] = "open"]
          /\ place' = [place EXCEPT ![result] = socket]
  /\ result' = Error
  /\ UNCHANGED <<owner, pool, next, stopped, acceptor, socket, gone, main, step,
                 process>>

Checking == process = "up" /\ 0 \in Contexts /\ worker[0] = "check"

MutIsOpen ==              \* leaves the loop when all descriptors are in use
  /\ Checking
  /\ worker' = [worker EXCEPT ![0] =
       IF acceptor = "open" /\ Cardinality(Holding) < MaxFds THEN "rearm" ELSE "idle"]
  /\ UNCHANGED <<owner, pool, next, stopped, accepts, conn, clients, main, step,
                 process>>
(* A closed acceptor ends the loop; a destroyed one is not one to ask.     *)
IsOpen ==
  /\ Checking
  /\ IF acceptor = "destroyed" THEN process' = "undefined" /\ worker' = worker
     ELSE /\ worker' = [worker EXCEPT ![0] = IF acceptor = "open" THEN "rearm" ELSE "idle"]
          /\ process' = process
  /\ UNCHANGED <<owner, pool, next, stopped, accepts, conn, clients, main, step>>

(* StartAccept out of the handler; ~Server may have closed the acceptor    *)
(* since, for an error to be posted, or destroyed it.                      *)
Rearm ==
  /\ process = "up" /\ 0 \in Contexts /\ worker[0] = "rearm"
  /\ worker' = [worker EXCEPT ![0] = "idle"]
  /\ \/ acceptor = "open" /\ StartAccept(size) /\ process' = process
     \/ /\ acceptor = "closed"
        /\ socket' = next /\ next' = (next + 1) % size
        /\ accept' = "done" /\ result' = Error
        /\ UNCHANGED <<conn, process>>
     \/ /\ acceptor = "destroyed"
        /\ process' = "undefined"
        /\ UNCHANGED <<socket, next, accept, result, conn>>
  /\ UNCHANGED <<owner, pool, stopped, acceptor, clients, main, step>>

(* A session's first request is handled; what the parser throws terminates *)
(* the process.                                                            *)
Serve(c) ==
  /\ Ready(c)
  /\ \E k \in Sessions \ gone :
       /\ place[k] = c /\ conn[k] = "open"
       /\ \/ conn' = [conn EXCEPT ![k] = "served"] /\ process' = process
          \/ conn' = conn /\ process' = "terminated"
  /\ UNCHANGED <<owner, pool, next, stopped, worker, accepts, clients, main, step>>

EndSession(c) ==
  /\ Ready(c)
  /\ \E k \in Sessions \cap gone :
       /\ place[k] = c
       /\ conn' = [conn EXCEPT ![k] = "ended"]
  /\ UNCHANGED <<owner, pool, next, stopped, worker, accepts, clients, main, step,
                 process>>

(* run() returns on a stopped context, and on one without work.            *)
HasWork(c) ==
  \/ guards
  \/ \E k \in Sessions : place[k] = c
  \/ c = 0 /\ accept # "none"
Exit(c) ==
  /\ process = "up" /\ c \in Contexts /\ worker[c] = "idle"
  /\ c \in stopped \/ ~HasWork(c)
  /\ worker' = [worker EXCEPT ![c] = "exited"]
  /\ UNCHANGED <<owner, pool, next, stopped, accepts, conn, clients, main, step,
                 process>>

MaxSize == IF \E n \in PoolSizes : n > 1 THEN CHOOSE n \in PoolSizes :
                                            \A m \in PoolSizes : m <= n ELSE 1
Threads == 0 .. MaxSize - 1

MainStep == \/ CompareExchange \/ Spawn \/ ThreadFails \/ Callback
            \/ Stop \/ CloseAcceptor \/ DestroyAcceptor \/ Join
Owner    == SetPoolSize \/ SetDebug \/ Construct \/ BindFails \/ RunAgain \/ Destroy
Clients  == \E k \in Conns : Connect(k) \/ Leave(k)
Loop     == Reactor \/ AcceptHandler \/ IsOpen \/ Rearm
Worker(c) == (c = 0 /\ Loop) \/ Serve(c) \/ EndSession(c) \/ Exit(c)

Next == Owner \/ MainStep \/ Clients \/ \E c \in Threads : Worker(c)

(* Threads run and the reactor reports what is ready; a handler is not     *)
(* passed over for ever by the others of its context, not even by an       *)
(* accept loop that spins: their queue is FIFO, with the reactor in it.  A *)
(* client that stays sends a request.  Nobody has to call anything,        *)
(* connect or leave.                                                       *)
Spec ==
  /\ Init /\ [][Next]_vars
  /\ WF_vars(MainStep) /\ WF_vars(Loop)
  /\ SF_vars(Serve(0)) /\ SF_vars(EndSession(0))
  /\ \A c \in Threads : WF_vars(Serve(c)) /\ WF_vars(EndSession(c)) /\ WF_vars(Exit(c))
-----------------------------------------------------------------------------
(* Properties.                                                             *)

TypeOK ==
  /\ debug \in BOOLEAN /\ state \in BOOLEAN /\ running \in BOOLEAN
  /\ guards \in BOOLEAN
  /\ poolSize \in PoolSizes /\ size \in Nat
  /\ server \in {"none", "alive", "dead"}
  /\ size > 0 => next \in Contexts /\ socket \in Contexts
  /\ stopped \subseteq Contexts
  /\ threads \in [Contexts -> Nat]
  /\ worker \in [Contexts -> {"absent", "idle", "check", "rearm", "exited"}]
  /\ acceptor \in {"none", "open", "closed", "destroyed"}
  /\ accept \in {"none", "waiting", "done"}
  /\ result \in Conns \cup {Error}
  /\ conn \in [Conns -> {"away", "backlog", "accepted", "open", "served", "ended"}]
  /\ place \in [Conns -> Nat] /\ gone \subseteq Conns
  /\ main \in {"ready", "run", "spawn", "callback", "wait", "stop", "close",
               "destroy", "join", "gone"}
  /\ step \in 0 .. size
  /\ threw \subseteq {"bind", "running", "thread"}
  /\ process \in {"up", "terminated", "undefined"}

(* No context is ever run by two threads, however often Run is called:     *)
(* sessions share no lock and no strand, and rely on it.                   *)
OneThreadPerContext == \A c \in Contexts : threads[c] <= 1

(* While the acceptor is open its loop is alive, after an accept that fails *)
(* as after one that succeeds: there is one operation, or the handler that *)
(* will start the next one, and never both.                                *)
AcceptLoop ==
  acceptor = "open" /\ process = "up" =>
    (accept = "none") = (worker[0] \in {"check", "rearm"})

(* The behaviour is undefined only if SetDebug was called before there was *)
(* a server, or if the object is destroyed after a Run that a thread       *)
(* failed: the worker it leaves meets the acceptor's destructor.           *)
UndefinedOnly ==
  process = "undefined" => server = "none" \/ (server = "dead" /\ "thread" \in threw)

(* A client in the backlog is accepted, through any number of accepts that *)
(* fail for want of a descriptor, once descriptors remain to be had.       *)
Serves == main = "wait" /\ process = "up"
Accepted ==
  \A k \in Conns :
    <>[](Cardinality(Holding) < MaxFds) =>
      (Serves /\ conn[k] = "backlog" ~> conn[k] # "backlog" \/ process # "up")

(* A connection accepted by a server whose Run is waiting is served, or    *)
(* ended after its client.                                                 *)
Served ==
  \A k \in Conns :
    Serves /\ conn[k] = "open" ~> conn[k] \in {"served", "ended"} \/ process # "up"

(* The destructor ends, whatever the sessions and the accept loop are at.  *)
DestroyEnds == main = "stop" ~> main = "gone" \/ process # "up"
=============================================================================
