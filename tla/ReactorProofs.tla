----------------------------- MODULE ReactorProofs -----------------------------
(***************************************************************************)
(* Proofs about Reactor, for any number of connections, any sizes of the   *)
(* socket's buffers and any sizes of reads and writes.                     *)
(***************************************************************************)
EXTENDS Reactor, TLAPS

-----------------------------------------------------------------------------
(* The inductive invariant.                                                *)

Kinds    == {"read", "write"}
EpollSet == SUBSET {"in", "out", "error"}

TypeOK ==
  /\ conns \in 0 .. MaxConns
  /\ received \in 0 .. MaxReceived /\ room \in 0 .. MaxRoom
  /\ peer \in {"open", "closed", "reset"}
  /\ noSpace \in BOOLEAN /\ listed \in BOOLEAN /\ enqueued \in BOOLEAN
  /\ registered \in SUBSET {"in", "out"}
  /\ speculative \in [Kinds -> BOOLEAN]
  /\ waiting \in {"none", "read", "write"}
  /\ events \in EpollSet
  /\ session \in {"read", "write", "close", "closed", "reading", "writing"}
  /\ size \in ReadSizes /\ left \in 0 .. MaxWrite

(* An event for a write is on its way: epoll has it, or the           *)
(* descriptor_state is queued with it.                                     *)
WriteComes == listed \/ (enqueued /\ Writes(events))

(* The operation that waits is the session's.                              *)
Waits ==
  /\ waiting = "read" <=> session = "reading"
  /\ waiting = "write" <=> session = "writing"

Live == session \notin {"close", "closed"}

(* A read that exhausts the socket is its last: it brought eof or an error.*)
ReadTried == Live => speculative["read"]

(* A write that may not be tried at once has exhausted the socket.  When   *)
(* there is room again epoll has an event, if it was told to care; as long *)
(* as there is none the socket knows that a send wanted it.                *)
WriteTried ==
  Live /\ ~speculative["write"] =>
    IF Writable THEN "out" \in registered => WriteComes ELSE noSpace

(* The same of a write that waits, for which epoll was told to care.       *)
WriteWaits ==
  session = "writing" => /\ "out" \in registered
                         /\ ~Writable => noSpace

IInv == TypeOK /\ Waits /\ ReadTried /\ WriteTried /\ WriteWaits /\ NoMissedEvent
-----------------------------------------------------------------------------
(* The operations that are performed.                                      *)

(* recv on a readable socket: after an outcome that exhausts the socket    *)
(* the session reads no more.                                              *)
LEMMA RecvEffect ==
  ASSUME TypeOK, NEW tried \in [Kinds -> BOOLEAN], Recv(tried)
  PROVE  /\ received' \in 0 .. MaxReceived /\ left' \in 0 .. MaxWrite
         /\ size' \in ReadSizes /\ room' = room /\ noSpace' = noSpace
         /\ speculative' \in [Kinds -> BOOLEAN]
         /\ session' \in {"close", "write"}
         /\ session' = "write" => speculative'["read"]
         /\ speculative'["write"] = tried["write"]
<1> USE DEF Kinds
<1>1. received' \in 0 .. MaxReceived /\ left' \in 0 .. MaxWrite /\ size' \in ReadSizes
  BY ReactorAssumption DEF TypeOK, Recv, Least
<1>2. speculative' \in [Kinds -> BOOLEAN] /\ speculative'["write"] = tried["write"]
  BY DEF Recv
<1>3. received > 0 => speculative'["read"]
  BY DEF Recv
<1> QED  BY <1>1, <1>2, <1>3 DEF TypeOK, Recv

(* send on a writable socket: unless it fails, it may be tried again or    *)
(* there is no room left and the socket knows that a send wanted it.       *)
LEMMA SendEffect ==
  ASSUME TypeOK, NEW tried \in [Kinds -> BOOLEAN], Send(tried)
  PROVE  /\ room' \in 0 .. MaxRoom /\ left' \in 0 .. MaxWrite
         /\ size' = size /\ received' = received /\ noSpace' \in BOOLEAN
         /\ speculative' \in [Kinds -> BOOLEAN]
         /\ session' \in {"close", "read", "write"}
         /\ session' # "close" => peer # "reset"
         /\ session' # "close" /\ ~speculative'["write"] => room' = 0 /\ noSpace'
         /\ speculative'["read"] = tried["read"]
<1> USE DEF Kinds
<1>1. room' \in 0 .. MaxRoom /\ left' \in 0 .. MaxWrite
  BY ReactorAssumption DEF TypeOK, Send, Least
<1>2. speculative' \in [Kinds -> BOOLEAN] /\ speculative'["read"] = tried["read"]
  BY DEF Send
<1>3. noSpace' \in BOOLEAN
  <2>1. CASE peer = "reset"
    BY <2>1, Zenon DEF TypeOK, Send
  <2>2. CASE peer # "reset"
    <3>1. noSpace' = (left > room)
      BY <2>2, Zenon DEF Send
    <3> QED  BY <3>1
  <2> QED  BY <2>1, <2>2
<1>4. CASE peer = "reset"
  BY <1>1, <1>2, <1>3, <1>4 DEF TypeOK, Send
<1>5. CASE peer # "reset"
  <2>1. speculative'["write"] <=> left <= room
    BY <1>5 DEF Send
  <2>2. noSpace' = (left > room)
    BY <1>5, Zenon DEF Send
  <2>3. left > room => room' = 0
    BY <1>5 DEF TypeOK, Send, Least
  <2>4. left > room => noSpace'
    BY <2>2, Zenon
  <2>5. ~speculative'["write"] => left > room
    BY <2>1 DEF TypeOK
  <2>6. /\ session' \in {"close", "read", "write"}
        /\ size' = size /\ received' = received
    BY <1>5 DEF Send
  <2> QED  BY <1>1, <1>2, <1>3, <1>5, <2>3, <2>4, <2>5, <2>6, Zenon
<1> QED  BY <1>4, <1>5

(* perform_io: which operations may be tried at once after the events.     *)
Tried == [op \in Kinds |->
            speculative[op] \/ IF op = "read" THEN Reads(events) ELSE Writes(events)]

LEMMA TriedType ==
  ASSUME TypeOK
  PROVE  /\ Tried \in [Kinds -> BOOLEAN]
         /\ Tried["read"] <=> speculative["read"] \/ Reads(events)
         /\ Tried["write"] <=> speculative["write"] \/ Writes(events)
<1>1. Reads(events) \in BOOLEAN /\ Writes(events) \in BOOLEAN
  BY DEF Reads, Writes
<1> QED  BY <1>1 DEF TypeOK, Tried, Kinds

(* perform_io's three outcomes.                                            *)
LEMMA PerformedCases ==
  ASSUME Performed
  PROVE  \/ waiting = "read" /\ Reads(events) /\ Readable /\ Recv(Tried) /\ waiting' = "none"
         \/ waiting = "write" /\ Writes(events) /\ Writable /\ Send(Tried) /\ waiting' = "none"
         \/ /\ ~(waiting = "read" /\ Reads(events) /\ Readable)
            /\ ~(waiting = "write" /\ Writes(events) /\ Writable)
            /\ speculative' = Tried
            /\ noSpace' = (noSpace \/ (waiting = "write" /\ Writes(events)))
            /\ UNCHANGED <<received, room, session, size, left, waiting>>
BY DEF Performed, Tried, Kinds, ReadDone, WriteDone
-----------------------------------------------------------------------------
(* No step leaves the types and the buffers' sizes.                        *)
LEMMA TypeStep ==
  ASSUME IInv, Next
  PROVE  TypeOK'
<1>0. TypeOK
  BY DEF IInv
<1>1. CASE Arrive
  BY <1>0, <1>1, ReactorAssumption DEF TypeOK, Arrive, queued
<1>2. CASE PeerReads
  <2>1. noSpace' \in BOOLEAN /\ listed' \in BOOLEAN
    BY <1>0, <1>2, Zenon DEF TypeOK, PeerReads
  <2>2. room' \in 0 .. MaxRoom
    BY <1>0, <1>2, ReactorAssumption DEF TypeOK, PeerReads
  <2> QED  BY <1>0, <1>2, <2>1, <2>2 DEF TypeOK, PeerReads, queued
<1>3. CASE PeerCloses
  BY <1>0, <1>3, ReactorAssumption DEF TypeOK, PeerCloses, queued
<1>4. CASE PeerResets
  BY <1>0, <1>4, ReactorAssumption DEF TypeOK, PeerResets, queued
<1>5. CASE Register
  <2>1. speculative' \in [Kinds -> BOOLEAN]
    BY <1>5 DEF Register, Kinds
  <2>2. noSpace' \in BOOLEAN
    BY <1>5, Zenon DEF Register
  <2>3. listed' = (received' > 0)
    BY <1>5, Zenon DEF Register
  <2>4. listed' \in BOOLEAN
    BY <2>3
  <2>5. conns' \in 0 .. MaxConns /\ received' \in 0 .. MaxReceived /\ room' \in 0 .. MaxRoom
    BY <1>0, <1>5, ReactorAssumption DEF TypeOK, Register
  <2> QED  BY <1>0, <1>5, <2>1, <2>2, <2>4, <2>5 DEF TypeOK, Register, queued
<1>6. CASE StartRead
  <2>1. CASE Recv(speculative) /\ waiting' = waiting
    BY <1>0, <1>6, <2>1, RecvEffect DEF TypeOK, StartRead, queued
  <2>2. CASE waiting' = "read" /\ session' = "reading"
             /\ UNCHANGED <<received, room, noSpace, speculative, size, left>>
    BY <1>0, <1>6, <2>2 DEF TypeOK, StartRead, queued
  <2> QED  BY <1>6, <2>1, <2>2 DEF StartRead
<1>7. CASE StartWrite
  <2>1. CASE /\ session' = "read"
             /\ UNCHANGED <<received, room, noSpace, registered, listed, speculative,
                            waiting, size, left>>
    BY <1>0, <1>7, <2>1 DEF TypeOK, StartWrite, queued
  <2>2. CASE Send(speculative) /\ UNCHANGED <<registered, listed, waiting>>
    BY <1>0, <1>7, <2>2, SendEffect DEF TypeOK, StartWrite, queued
  <2>3. CASE left > 0 /\ ~(speculative["write"] /\ WriteDone)
    <3>1. noSpace' \in BOOLEAN /\ listed' \in BOOLEAN
      BY <1>0, <1>7, <2>3, Zenon DEF TypeOK, StartWrite
    <3> QED  BY <1>0, <1>7, <2>3, <3>1 DEF TypeOK, StartWrite, queued
  <2> QED  BY <1>0, <1>7, <2>1, <2>2, <2>3 DEF TypeOK, StartWrite
<1>8. CASE Poll
  BY <1>0, <1>8 DEF TypeOK, EpollSet, Poll, Ready
<1>9. CASE PerformIo
  <2>1. conns' = conns /\ peer' = peer /\ registered' = registered /\ listed' = listed
        /\ enqueued' = FALSE /\ events' = {} /\ Performed
    BY <1>9, Zenon DEF PerformIo
  <2>2. enqueued' \in BOOLEAN
    BY <2>1
  <2>3. CASE Recv(Tried) /\ waiting' = "none"
    BY <1>0, <2>1, <2>2, <2>3, RecvEffect, TriedType DEF TypeOK, EpollSet
  <2>4. CASE Send(Tried) /\ waiting' = "none"
    BY <1>0, <2>1, <2>2, <2>4, SendEffect, TriedType DEF TypeOK, EpollSet
  <2>5. CASE /\ speculative' = Tried
             /\ noSpace' = (noSpace \/ (waiting = "write" /\ Writes(events)))
             /\ UNCHANGED <<received, room, session, size, left, waiting>>
    <3>1. noSpace' \in BOOLEAN
      BY <1>0, <2>5, Zenon DEF TypeOK
    <3> QED  BY <1>0, <2>1, <2>2, <2>5, <3>1, TriedType DEF TypeOK, EpollSet
  <2> QED  BY <2>1, <2>3, <2>4, <2>5, PerformedCases
<1>10. CASE Close
  <2>1. noSpace' \in BOOLEAN /\ listed' \in BOOLEAN
    BY <1>10, Zenon DEF Close
  <2> QED  BY <1>0, <1>10, <2>1, ReactorAssumption DEF TypeOK, Close, queued
<1> QED  BY <1>1, <1>2, <1>3, <1>4, <1>5, <1>6, <1>7, <1>8, <1>9, <1>10
     DEF Next, Kernel, Session
-----------------------------------------------------------------------------
(* The operation that waits stays the session's.                           *)
LEMMA WaitsStep ==
  ASSUME IInv, Next
  PROVE  Waits'
<1>0. TypeOK /\ Waits
  BY DEF IInv
<1>1. CASE Arrive
  BY <1>0, <1>1 DEF Waits, Arrive, Open
<1>2. CASE PeerReads
  BY <1>0, <1>2 DEF Waits, PeerReads, Open
<1>3. CASE PeerCloses
  BY <1>0, <1>3 DEF Waits, PeerCloses, Open
<1>4. CASE PeerResets
  BY <1>0, <1>4 DEF Waits, PeerResets, Open
<1>5. CASE Register
  BY <1>0, <1>5 DEF Waits, Register
<1>6. CASE StartRead
  BY <1>0, <1>6 DEF Waits, StartRead, Recv
<1>7. CASE StartWrite
  BY <1>0, <1>7 DEF Waits, StartWrite, Send
<1>8. CASE Poll
  BY <1>0, <1>8 DEF Waits, Poll, Open, Ready
<1>9. CASE PerformIo
  BY <1>0, <1>9 DEF Waits, PerformIo, Performed, Recv, Send
<1>10. CASE Close
  BY <1>0, <1>10 DEF Waits, Close
<1> QED  BY <1>1, <1>2, <1>3, <1>4, <1>5, <1>6, <1>7, <1>8, <1>9, <1>10
     DEF Next, Kernel, Session
-----------------------------------------------------------------------------
(* A read that exhausts the socket stays the last.                         *)
LEMMA ReadTriedStep ==
  ASSUME IInv, Next
  PROVE  ReadTried'
<1>0. TypeOK /\ Waits /\ ReadTried
  BY DEF IInv
<1>1. CASE Arrive
  BY <1>0, <1>1 DEF ReadTried, Live, Arrive
<1>2. CASE PeerReads
  BY <1>0, <1>2 DEF ReadTried, Live, PeerReads
<1>3. CASE PeerCloses
  BY <1>0, <1>3 DEF ReadTried, Live, PeerCloses
<1>4. CASE PeerResets
  BY <1>0, <1>4 DEF ReadTried, Live, PeerResets
<1>5. CASE Register
  BY <1>0, <1>5 DEF ReadTried, Register
<1>6. CASE StartRead
  BY <1>0, <1>6, RecvEffect DEF TypeOK, ReadTried, Live, StartRead
<1>7. CASE StartWrite
  BY <1>0, <1>7, SendEffect DEF TypeOK, ReadTried, Live, StartWrite
<1>8. CASE Poll
  BY <1>0, <1>8 DEF ReadTried, Live, Poll
<1>9. CASE PerformIo
  <2>1. Performed
    BY <1>9, Zenon DEF PerformIo
  <2>2. CASE waiting = "read" /\ Recv(Tried)
    BY <1>0, <2>2, RecvEffect, TriedType DEF ReadTried, Live
  <2>3. CASE waiting = "write" /\ Send(Tried)
    BY <1>0, <2>3, SendEffect, TriedType DEF Waits, ReadTried, Live
  <2>4. CASE speculative' = Tried /\ session' = session
    BY <1>0, <2>4, TriedType DEF ReadTried, Live
  <2> QED  BY <2>1, <2>2, <2>3, <2>4, PerformedCases
<1>10. CASE Close
  BY <1>0, <1>10 DEF ReadTried, Live, Close
<1> QED  BY <1>1, <1>2, <1>3, <1>4, <1>5, <1>6, <1>7, <1>8, <1>9, <1>10
     DEF Next, Kernel, Session
-----------------------------------------------------------------------------
(* A write that may not be tried at once has an event to come, or will     *)
(* have one when there is room.                                            *)
LEMMA WriteTriedStep ==
  ASSUME IInv, Next
  PROVE  WriteTried'
<1> USE DEF WriteTried, Live, WriteComes, Readable, Writable, queued
<1>0. TypeOK /\ Waits /\ ReadTried /\ WriteTried /\ WriteWaits /\ NoMissedEvent
  BY DEF IInv
<1>1. CASE Arrive
  BY <1>0, <1>1 DEF Arrive, Open
<1>2. CASE PeerReads
  BY <1>0, <1>2 DEF TypeOK, PeerReads, Open
<1>3. CASE PeerCloses
  BY <1>0, <1>3 DEF PeerCloses, Open
<1>4. CASE PeerResets
  BY <1>0, <1>4 DEF PeerResets, Open
<1>5. CASE Register
  BY <1>0, <1>5 DEF Register
<1>6. CASE StartRead
  <2>1. CASE Recv(speculative)
    BY <1>0, <1>6, <2>1, RecvEffect DEF TypeOK, StartRead
  <2>2. CASE session' = "reading" /\ UNCHANGED <<room, noSpace, speculative>>
    BY <1>0, <1>6, <2>2 DEF StartRead
  <2> QED  BY <1>6, <2>1, <2>2 DEF StartRead
<1>7. CASE StartWrite
  <2>1. CASE UNCHANGED <<registered, listed, room, noSpace, speculative>>
    BY <1>0, <1>7, <2>1 DEF StartWrite
  <2>2. CASE Send(speculative) /\ UNCHANGED <<registered, listed, waiting>>
    BY <1>0, <1>7, <2>2, SendEffect DEF TypeOK, StartWrite
  <2>3. CASE session' = "writing"
    <3>1. /\ noSpace' = (noSpace \/ speculative["write"])
          /\ listed' = (listed \/ ("out" \notin registered /\ (Readable \/ Writable)))
          /\ UNCHANGED <<room, peer, speculative, enqueued, events>>
      BY <1>0, <1>7, <2>3 DEF StartWrite, Send
    <3>2. Live
      BY <1>7 DEF StartWrite
    <3>3. Writable /\ ~speculative["write"] => WriteComes'
      BY <1>0, <3>1, <3>2
    <3>4. ~Writable /\ ~speculative["write"] => noSpace'
      BY <1>0, <3>1, <3>2
    <3> QED  BY <3>1, <3>3, <3>4
  <2>4. CASE session' = "close"
    BY <2>4
  <2> QED  BY <1>7, <2>1, <2>2, <2>3, <2>4 DEF StartWrite
<1>8. CASE Poll
  BY <1>0, <1>8 DEF Reads, Writes, TypeOK, Poll, Open, Ready
<1>9. CASE PerformIo
  <2>1. Performed /\ UNCHANGED <<peer, registered, listed>>
    BY <1>9, Zenon DEF PerformIo
  <2>2. CASE waiting = "read" /\ Recv(Tried)
    BY <1>0, <2>1, <2>2, RecvEffect, TriedType DEF Waits, TypeOK
  <2>3. CASE waiting = "write" /\ Send(Tried)
    BY <1>0, <2>1, <2>3, SendEffect, TriedType DEF TypeOK
  <2>4. CASE /\ speculative' = Tried
             /\ noSpace' = (noSpace \/ (waiting = "write" /\ Writes(events)))
             /\ UNCHANGED <<room, session>>
    BY <1>0, <2>1, <2>4, TriedType
  <2> QED  BY <2>1, <2>2, <2>3, <2>4, PerformedCases
<1>10. CASE Close
  BY <1>0, <1>10 DEF Close
<1> QED  BY <1>1, <1>2, <1>3, <1>4, <1>5, <1>6, <1>7, <1>8, <1>9, <1>10
     DEF Next, Kernel, Session
-----------------------------------------------------------------------------
(* A write that waits has had EPOLLOUT registered, and wanted the room.    *)
LEMMA WriteWaitsStep ==
  ASSUME IInv, Next
  PROVE  WriteWaits'
<1> USE DEF TypeOK, Waits, WriteTried, WriteWaits, Live, Writable, queued
<1>0. TypeOK /\ Waits /\ WriteTried /\ WriteWaits
  BY DEF IInv
<1>1. CASE Arrive
  BY <1>0, <1>1 DEF Arrive, Open
<1>2. CASE PeerReads
  BY <1>0, <1>2 DEF PeerReads, Open
<1>3. CASE PeerCloses
  BY <1>0, <1>3 DEF PeerCloses, Open
<1>4. CASE PeerResets
  BY <1>0, <1>4 DEF PeerResets, Open
<1>5. CASE Register
  BY <1>0, <1>5 DEF Register
<1>6. CASE StartRead
  BY <1>0, <1>6 DEF StartRead, ReadDone, Recv
<1>7. CASE StartWrite
  BY <1>0, <1>7 DEF StartWrite, WriteDone, Send
<1>8. CASE Poll
  BY <1>0, <1>8 DEF Poll, Open, Ready
<1>9. CASE PerformIo
  BY <1>0, <1>9 DEF PerformIo, Performed, ReadDone, WriteDone, Recv, Send
<1>10. CASE Close
  BY <1>0, <1>10 DEF Close
<1> QED  BY <1>1, <1>2, <1>3, <1>4, <1>5, <1>6, <1>7, <1>8, <1>9, <1>10
     DEF Next, Kernel, Session
-----------------------------------------------------------------------------
(* No step spends the event of an operation that waits and could go on.    *)
LEMMA NoMissedStep ==
  ASSUME IInv, Next
  PROVE  NoMissedEvent'
<1> USE DEF TypeOK, Waits, ReadTried, WriteTried, WriteWaits, NoMissedEvent,
       Live, WriteComes, queued, Readable, Writable, Reads, Writes, ReadDone,
       WriteDone
<1>0. TypeOK /\ Waits /\ ReadTried /\ WriteTried /\ WriteWaits /\ NoMissedEvent
  BY DEF IInv
<1>1. CASE Arrive
  BY <1>0, <1>1 DEF Arrive, Open
<1>2. CASE PeerReads
  BY <1>0, <1>2 DEF PeerReads, Open
<1>3. CASE PeerCloses
  BY <1>0, <1>3 DEF PeerCloses, Open
<1>4. CASE PeerResets
  BY <1>0, <1>4 DEF PeerResets, Open
<1>5. CASE Register
  BY <1>0, <1>5 DEF Register
<1>6. CASE StartRead
  BY <1>0, <1>6 DEF StartRead, ReadDone, Recv
<1>7. CASE StartWrite
  BY <1>0, <1>7 DEF StartWrite, WriteDone, Send
<1>8. CASE Poll
  BY <1>0, <1>8 DEF Poll, Open, Ready
<1>9. CASE PerformIo
  BY <1>0, <1>9 DEF PerformIo, Performed, ReadDone, WriteDone, Recv, Send
<1>10. CASE Close
  BY <1>0, <1>10 DEF Close
<1> QED  BY <1>1, <1>2, <1>3, <1>4, <1>5, <1>6, <1>7, <1>8, <1>9, <1>10
     DEF Next, Kernel, Session
-----------------------------------------------------------------------------
(* The invariant.                                                          *)

(* No socket is there to begin with.                                       *)
LEMMA InitInvariant == Init => IInv
<1> SUFFICES ASSUME Init PROVE IInv
  OBVIOUS
<1>1. noSpace \in BOOLEAN /\ listed \in BOOLEAN /\ enqueued \in BOOLEAN
  BY Zenon DEF Init
<1>2. speculative \in [Kinds -> BOOLEAN]
  BY DEF Init, Kinds
<1>3. TypeOK
  BY <1>1, <1>2, ReactorAssumption DEF Init, TypeOK, EpollSet
<1> QED
  BY <1>3 DEF Init, IInv, Waits, ReadTried, WriteTried, WriteWaits, NoMissedEvent, Live

(* It depends on the variables alone.                                      *)
LEMMA StutterInvariant ==
  ASSUME IInv, UNCHANGED vars
  PROVE  IInv'
BY DEF IInv, TypeOK, Waits, ReadTried, WriteTried, WriteWaits, NoMissedEvent, Live,
       WriteComes, Readable, Writable, ReadDone, WriteDone, vars

(* It is inductive, for every size of the buffers, reads and writes.       *)
THEOREM Inductive == Spec => []IInv
<1>1. IInv /\ [Next]_vars => IInv'
  BY StutterInvariant, TypeStep, WaitsStep, ReadTriedStep, WriteTriedStep,
     WriteWaitsStep, NoMissedStep DEF IInv
<1> QED  BY InitInvariant, <1>1, PTL DEF Spec

(* The fields of the descriptor_state and what the kernel holds keep their *)
(* types, and the buffers their bounds.                                    *)
THEOREM TypeCorrect == Spec => []TypeOK
<1>1. IInv => TypeOK
  BY DEF IInv
<1> QED  BY Inductive, <1>1, PTL

(* epoll's edges suffice: whenever the operation that waits could be       *)
(* performed, its event is in epoll or in the scheduler's queue.           *)
THEOREM NoEventIsMissed == Spec => []NoMissedEvent
<1>1. IInv => NoMissedEvent
  BY DEF IInv
<1> QED  BY Inductive, <1>1, PTL

(* try_speculative_ is never cleared for a write that nothing will set it  *)
(* for again: epoll has an event, or the socket will raise one.            *)
THEOREM ClearedWritesCome == Spec => []WriteTried
<1>1. IInv => WriteTried
  BY DEF IInv
<1> QED  BY Inductive, <1>1, PTL
=============================================================================
