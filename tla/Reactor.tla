-------------------------------- MODULE Reactor --------------------------------
(***************************************************************************)
(* asio's epoll reactor for one descriptor                                 *)
(* (include/camille/utils/asio/detail/impl/epoll_reactor.ipp and the       *)
(* operations that it performs, reactive_socket_recv_op.hpp and            *)
(* reactive_socket_send_op.hpp): operations that are tried when they       *)
(* start, wait in the descriptor_state when they would block, and are      *)
(* tried again for an edge-triggered event.  The socket is that of a       *)
(* session, which reads and writes in turn and closes it after an error;   *)
(* the next connection gets the descriptor_state of the one before, which  *)
(* may still be queued with the events of that one.                        *)
(*                                                                         *)
(* That the descriptor_state is in no queue when the reactor polls is what *)
(* module Scheduler shows (DescriptorsDequeued).                           *)
(***************************************************************************)
EXTENDS Naturals, FiniteSets

CONSTANTS
  MaxConns,     (* Bound: the connections, one after another.              *)
  MaxReceived,  (* What the socket's receive buffer holds.                 *)
  MaxRoom,      (* What its send buffer holds.                             *)
  MaxWrite,     (* The most that the session writes at a time.             *)
  ReadSizes     (* How much it offers to read into.                        *)

ASSUME ReactorAssumption ==
  /\ {MaxConns, MaxReceived, MaxRoom, MaxWrite} \subseteq Nat \ {0}
  /\ ReadSizes \subseteq Nat \ {0} /\ ReadSizes # {}

VARIABLES
  conns,       (* how many connections there were                          *)
  received,    (* the bytes in the receive buffer                          *)
  peer,        (* the peer's end: open, closed (FIN), reset (RST)          *)
  room,        (* the bytes that the send buffer has room for              *)
  noSpace,     (* whether a send found too little room                     *)
  registered,  (* registered_events_, EPOLLERR and EPOLLHUP apart          *)
  listed,      (* whether epoll has an edge to report                      *)
  speculative, (* try_speculative_                                         *)
  waiting,     (* the operation that waits in op_queue_, if any            *)
  enqueued,    (* whether the descriptor_state is in the scheduler's queue *)
  events,      (* the events it was queued with                            *)
  session,     (* what the session does next: read, write, close, closed;  *)
               (* or what it waits for: reading, writing                   *)
  size,        (* what its read offers                                     *)
  left         (* what it has left to write                                *)

vars == <<conns, received, peer, room, noSpace, registered, listed, speculative,
          waiting, enqueued, events, session, size, left>>
queued == <<enqueued, events>>

Least(m, n) == IF m < n THEN m ELSE n
Open        == session # "closed"
Readable    == received > 0 \/ peer # "open"
Writable    == room > 0 \/ peer = "reset"

(* What epoll_wait reports of the socket.                                  *)
Ready ==
  {e \in {"in", "out", "error"} :
     \/ e = "in" /\ Readable
     \/ e = "out" /\ Writable /\ "out" \in registered
     \/ e = "error" /\ peer = "reset"}

Init ==
  /\ conns = 0 /\ received = 0 /\ peer = "open" /\ room = MaxRoom /\ noSpace = FALSE
  /\ registered = {} /\ listed = FALSE
  /\ speculative = [op \in {"read", "write"} |-> FALSE]
  /\ waiting = "none" /\ enqueued = FALSE /\ events = {}
  /\ session = "closed" /\ left = 0 /\ size \in ReadSizes
-----------------------------------------------------------------------------
(* The kernel and the peer.                                                *)

Arrive ==
  /\ Open /\ peer = "open" /\ received < MaxReceived
  /\ received' = received + 1
  /\ listed' = TRUE
  /\ UNCHANGED <<conns, peer, room, noSpace, registered, speculative, waiting, queued,
                 session, size, left>>

PeerReads ==
  /\ Open /\ peer # "reset" /\ room < MaxRoom
  /\ room' = room + 1
  /\ noSpace' = FALSE
  /\ listed' = (listed \/ (noSpace /\ "out" \in registered))
  /\ UNCHANGED <<conns, received, peer, registered, speculative, waiting, queued,
                 session, size, left>>

PeerCloses ==
  /\ Open /\ peer = "open"
  /\ peer' = "closed"
  /\ listed' = TRUE
  /\ UNCHANGED <<conns, received, room, noSpace, registered, speculative, waiting,
                 queued, session, size, left>>

PeerResets ==
  /\ Open /\ peer # "reset"
  /\ peer' = "reset" /\ received' = 0
  /\ listed' = TRUE
  /\ UNCHANGED <<conns, room, noSpace, registered, speculative, waiting, queued,
                 session, size, left>>
-----------------------------------------------------------------------------
(* Performing an operation.                                                *)

ReadDone  == Readable
WriteDone == Writable

(* recv on a readable socket, and what the session does about it: it reads *)
(* on for the rest of a head (which here is a write of nothing), writes, or*)
(* closes after eof or an error, the outcomes that exhaust the socket.     *)
Recv(tried) ==
  /\ received' = received - Least(size, received)
  /\ session' = IF received = 0 THEN "close" ELSE "write"
  /\ left' \in IF received = 0 THEN {0} ELSE 0 .. MaxWrite
  /\ size' \in ReadSizes
  /\ speculative' = [tried EXCEPT !["read"] = received > 0]
  /\ UNCHANGED <<room, noSpace>>

MutSend(tried) ==         \* an error is taken for a write of nothing
  /\ room' = room - Least(left, room)
  /\ noSpace' = (left > room)
  /\ left' = IF peer = "reset" THEN left ELSE left - Least(left, room)
  /\ session' = IF left' = 0 THEN "read" ELSE "write"
  /\ speculative' = [tried EXCEPT !["write"] = left <= room]
  /\ UNCHANGED <<received, size>>
(* send on a writable socket: as much as there is room for, which exhausts *)
(* the socket if it is not all, or an error.                               *)
Send(tried) ==
  /\ IF peer = "reset"
       THEN session' = "close" /\ UNCHANGED <<room, noSpace, left>>
       ELSE /\ room' = room - Least(left, room)
            /\ noSpace' = (left > room)
            /\ left' = left - Least(left, room)
            /\ session' = IF left' = 0 THEN "read" ELSE "write"
  /\ speculative' = [tried EXCEPT !["write"] = peer # "reset" /\ left <= room]
  /\ UNCHANGED <<received, size>>
-----------------------------------------------------------------------------
(* The reactor and the session.                                            *)

(* register_descriptor for an accepted socket, that may have received      *)
(* something already: the first read has yet to start.                     *)
Register ==
  /\ session = "closed" /\ conns < MaxConns
  /\ conns' = conns + 1
  /\ received' \in 0 .. MaxReceived /\ peer' = "open" /\ room' = MaxRoom
  /\ noSpace' = FALSE
  /\ registered' = {"in"}
  /\ listed' = (received' > 0)
  /\ speculative' = [op \in {"read", "write"} |-> TRUE]
  /\ session' = "read"
  /\ UNCHANGED <<waiting, queued, size, left>>

(* start_op of a read: tried, unless the socket is known to be exhausted,  *)
(* and else left to wait.                                                  *)
StartRead ==
  /\ session = "read"
  /\ IF speculative["read"] /\ ReadDone
       THEN Recv(speculative) /\ waiting' = waiting
       ELSE /\ waiting' = "read" /\ session' = "reading"
            /\ UNCHANGED <<received, room, noSpace, speculative, size, left>>
  /\ UNCHANGED <<conns, peer, registered, listed, queued>>

(* start_op of a write.  The first one that waits has EPOLLOUT registered, *)
(* at which epoll looks at the socket anew, unless epoll_ctl fails: then   *)
(* the session is told.  A write of nothing is no operation.               *)
StartWrite ==
  /\ session = "write"
  /\ \/ /\ left = 0
        /\ session' = "read"
        /\ UNCHANGED <<received, room, noSpace, registered, listed, speculative,
                       waiting, size, left>>
     \/ /\ left > 0 /\ speculative["write"] /\ WriteDone
        /\ Send(speculative)
        /\ UNCHANGED <<registered, listed, waiting>>
     \/ /\ left > 0 /\ ~(speculative["write"] /\ WriteDone)
        /\ waiting' = "write" /\ session' = "writing"
        /\ noSpace' = (noSpace \/ speculative["write"])
        /\ registered' = {"in", "out"}
        /\ listed' = (listed \/ ("out" \notin registered /\ (Readable \/ Writable)))
        /\ UNCHANGED <<received, room, speculative, size, left>>
     \/ /\ left > 0 /\ ~(speculative["write"] /\ WriteDone) /\ "out" \notin registered
        /\ session' = "close"
        /\ noSpace' = (noSpace \/ speculative["write"])
        /\ UNCHANGED <<received, room, registered, listed, speculative, waiting, size,
                       left>>
  /\ UNCHANGED <<conns, peer, queued>>

(* epoll_wait returns the descriptor, with the events that are ready then, *)
(* and the edge is spent.                                                  *)
Poll ==
  /\ Open /\ listed /\ ~enqueued
  /\ listed' = FALSE
  /\ enqueued' = (Ready # {})
  /\ events' = Ready
  /\ UNCHANGED <<conns, received, peer, room, noSpace, registered, speculative, waiting,
                 session, size, left>>

Reads(es)  == es \cap {"in", "error"} # {}
Writes(es) == es \cap {"out", "error"} # {}

MutPerformed ==           \* an event on which nothing waits leaves no trace
  \/ waiting = "read" /\ Reads(events) /\ ReadDone /\ Recv(speculative) /\ waiting' = "none"
  \/ waiting = "write" /\ Writes(events) /\ WriteDone /\ Send(speculative) /\ waiting' = "none"
  \/ /\ ~(waiting = "read" /\ Reads(events) /\ ReadDone)
     /\ ~(waiting = "write" /\ Writes(events) /\ WriteDone)
     /\ UNCHANGED <<received, room, noSpace, speculative, session, size, left, waiting>>
(* What the events are about may be tried at once again, and an operation  *)
(* that waits for them is performed, unless it turns out to block after    *)
(* all: the events may be those of the connection before.                  *)
Performed ==
  LET tried == [op \in {"read", "write"} |->
                  speculative[op] \/ IF op = "read" THEN Reads(events) ELSE Writes(events)]
  IN  \/ waiting = "read" /\ Reads(events) /\ ReadDone /\ Recv(tried) /\ waiting' = "none"
      \/ waiting = "write" /\ Writes(events) /\ WriteDone /\ Send(tried) /\ waiting' = "none"
      \/ /\ ~(waiting = "read" /\ Reads(events) /\ ReadDone)
         /\ ~(waiting = "write" /\ Writes(events) /\ WriteDone)
         /\ speculative' = tried
         /\ noSpace' = (noSpace \/ (waiting = "write" /\ Writes(events)))
         /\ UNCHANGED <<received, room, session, size, left, waiting>>

(* perform_io, when the scheduler gets to the descriptor_state.            *)
PerformIo ==
  /\ enqueued
  /\ Performed
  /\ enqueued' = FALSE /\ events' = {}
  /\ UNCHANGED <<conns, peer, registered, listed>>

(* The session's socket is closed and deregistered, and its                *)
(* descriptor_state is free for the next, queued or not.                   *)
Close ==
  /\ session = "close"
  /\ session' = "closed"
  /\ registered' = {} /\ listed' = FALSE
  /\ received' = 0 /\ peer' = "open" /\ room' = MaxRoom /\ noSpace' = FALSE
  /\ left' = 0
  /\ UNCHANGED <<conns, speculative, waiting, queued, size>>

Kernel  == Arrive \/ PeerReads \/ PeerCloses \/ PeerResets
Session == StartRead \/ StartWrite \/ Close
Next    == Kernel \/ Session \/ Register \/ Poll \/ PerformIo

(* The context's thread polls, performs and runs the session's handlers;   *)
(* the peer need not do anything.                                          *)
Spec == Init /\ [][Next]_vars /\ WF_vars(Session) /\ WF_vars(Poll) /\ WF_vars(PerformIo)
-----------------------------------------------------------------------------
(* Properties.                                                             *)

(* An operation that waits and could be performed has its event still to   *)
(* come, from epoll or from the scheduler's queue: whatever the order of   *)
(* arrivals, partial reads, polls and starts, no edge is spent on nothing. *)
NoMissedEvent ==
  /\ session = "reading" /\ ReadDone => listed \/ (enqueued /\ Reads(events))
  /\ session = "writing" /\ WriteDone => listed \/ (enqueued /\ Writes(events))

(* A connection that is reset is closed, whatever the session is doing.    *)
ResetNoticed == Open /\ peer = "reset" ~> ~Open
=============================================================================
