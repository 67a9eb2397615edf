----------------------------- MODULE SessionProofs -----------------------------
(***************************************************************************)
(* Proofs about Session, for every set of streams that a client may want   *)
(* to send, every kind of head and every cut of the stream into segments.  *)
(***************************************************************************)
EXTENDS Session, SequenceTheorems, WellFoundedInduction, TLAPS

-----------------------------------------------------------------------------
(* The inductive invariant.                                                *)

(* A write alone has sent some of the buffer.                              *)
WritesOnly == op # "write" => written = 0

(* How much of the stream each part of the connection holds: what was      *)
(* handled, is in the buffer and in the socket comes first, what is still  *)
(* to be sent last, and between them is what a reset has lost.             *)
Held   == Len(log) + Len(buffer) - written
Amount ==
  /\ Held + Len(net) + Len(toSend) <= Len(stream)
  /\ client # "reset" => Held + Len(net) + Len(toSend) = Len(stream)

(* Each part holds its own stretch of the stream.                          *)
LogInOrder    == \A i \in 1 .. Len(log) : log[i].unit = stream[i]
BufferInOrder == \A i \in written + 1 .. Len(buffer) :
                   buffer[i] = stream[Len(log) - written + i]
NetInOrder    == \A i \in 1 .. Len(net) : net[i] = stream[Held + i]
UnsentInOrder == \A i \in 1 .. Len(toSend) :
                   toSend[i] = stream[Len(stream) - Len(toSend) + i]

InOrder == LogInOrder /\ BufferInOrder /\ NetInOrder /\ UnsentInOrder

IInv == TypeOK /\ WritesOnly /\ Amount /\ InOrder
-----------------------------------------------------------------------------
(* Operators.                                                              *)

(* What is behind the first n elements.                                    *)
LEMMA DropProperties ==
  ASSUME NEW S, NEW s \in Seq(S), NEW n \in 0 .. Len(s)
  PROVE  /\ Drop(s, n) \in Seq(S)
         /\ Len(Drop(s, n)) = Len(s) - n
         /\ \A i \in 1 .. Len(s) - n : Drop(s, n)[i] = s[n + i]
<1>1. Len(s) \in Nat /\ \A i \in n + 1 .. Len(s) : s[i] \in S
  BY LenProperties, ElementOfSeq
<1> QED  BY <1>1, SubSeqProperties DEF Drop

(* The first n elements.                                                   *)
LEMMA TakeProperties ==
  ASSUME NEW S, NEW s \in Seq(S), NEW n \in 0 .. Len(s)
  PROVE  /\ SubSeq(s, 1, n) \in Seq(S)
         /\ Len(SubSeq(s, 1, n)) = n
         /\ \A i \in 1 .. n : SubSeq(s, 1, n)[i] = s[i]
<1>1. Len(s) \in Nat /\ \A i \in 1 .. n : s[i] \in S
  BY LenProperties, ElementOfSeq
<1> QED  BY <1>1, SubSeqProperties

(* A stretch from the middle.                                              *)
LEMMA StretchProperties ==
  ASSUME NEW S, NEW s \in Seq(S), NEW m \in 0 .. Len(s), NEW n \in 0 .. Len(s) - m
  PROVE  /\ SubSeq(s, m + 1, m + n) \in Seq(S)
         /\ Len(SubSeq(s, m + 1, m + n)) = n
         /\ \A i \in 1 .. n : SubSeq(s, m + 1, m + n)[i] = s[m + i]
<1>1. Len(s) \in Nat /\ \A i \in m + 1 .. m + n : s[i] \in S
  BY LenProperties, ElementOfSeq
<1> QED  BY <1>1, SubSeqProperties

(* The log of a piece.                                                     *)
Fates == {"parsed", "echoed"}
LEMMA FateProperties ==
  ASSUME NEW s \in Seq(Units), NEW fate \in Fates
  PROVE  /\ Fate(s, fate) \in Seq([unit : Units, fate : Fates])
         /\ Len(Fate(s, fate)) = Len(s)
         /\ \A i \in 1 .. Len(s) : Fate(s, fate)[i] = [unit |-> s[i], fate |-> fate]
<1>1. Len(s) \in Nat /\ \A i \in 1 .. Len(s) : s[i] \in Units
  BY LenProperties, ElementOfSeq
<1>2. Fate(s, fate) \in [1 .. Len(s) -> [unit : Units, fate : Fates]]
  BY <1>1 DEF Fate
<1> QED  BY <1>1, <1>2, LenProperties DEF Fate

(* The least-number principle, for a set.                                  *)
LEMMA Least ==
  ASSUME NEW N, N \subseteq Nat, N # {}
  PROVE  \E n \in N : \A m \in N : n <= m
<1>1. PICK R : /\ IsWellFoundedOn(R, Nat)
               /\ \A m, n \in Nat : m < n => <<m, n>> \in R
  <2>1. \A m, n \in Nat : m < n => <<m, n>> \in OpToRel(<, Nat)
    BY DEF OpToRel
  <2> QED  BY <2>1, NatLessThanWellFounded
<1>2. IsWellFoundedOn(R, Nat)
  BY <1>1
<1>3. PICK n \in N : \A m \in N : <<m, n>> \notin R
  BY <1>2, WFMin
<1>4. \A m \in N : ~(m < n)
  BY <1>1, <1>3, Zenon
<1>5. \A m \in N : n <= m
  BY <1>4
<1> QED  BY <1>5

(* async_read_until stops at the first end of a head.                      *)
LEMMA FirstEndProperties ==
  ASSUME NEW s \in Seq(Units), HasEnd(s)
  PROVE  /\ FirstEnd(s) \in 1 .. Len(s)
         /\ IsEnd(s[FirstEnd(s)])
         /\ \A j \in 1 .. FirstEnd(s) - 1 : ~IsEnd(s[j])
<1> DEFINE Ends == {i \in 1 .. Len(s) : IsEnd(s[i])}
           First(i) == IsEnd(s[i]) /\ \A j \in 1 .. i - 1 : ~IsEnd(s[j])
<1>1. Ends # {} /\ Ends \subseteq Nat
  BY LenProperties DEF HasEnd
<1>2. PICK i \in Ends : \A j \in Ends : i <= j
  BY <1>1, Least
<1>3. i \in 1 .. Len(s) /\ First(i)
  BY <1>2, LenProperties
<1> QED  BY <1>3 DEF FirstEnd
-----------------------------------------------------------------------------
(* RequestHandler::Parse has an outcome for every piece.                   *)
LEMMA OutcomeType ==
  ASSUME NEW piece \in Seq(Units)
  PROVE  Outcome(piece) \in Outcomes
<1>1. CASE IsHead(piece)
  <2>1. Len(piece) = 2 /\ piece[1].part = "start"
    BY <1>1, Zenon DEF IsHead
  <2>2. 1 \in 1 .. Len(piece)
    BY <2>1
  <2>3. piece[1] \in Units
    BY <2>2, ElementOfSeq
  <2>4. piece[1] \in Heads
    BY <2>1, <2>3 DEF Units, Body
  <2> QED  BY <1>1, <2>4, SessionAssumption DEF Outcome, Heads
<1>2. CASE ~IsHead(piece)
  BY <1>2 DEF Outcome, Outcomes
<1> QED  BY <1>1, <1>2
-----------------------------------------------------------------------------
(* What the steps do to lengths and elements.                              *)

(* The parts of the connection are sequences with lengths.                 *)
LEMMA Lengths ==
  ASSUME TypeOK
  PROVE  /\ stream \in Seq(Units) /\ toSend \in Seq(Units)
         /\ net \in Seq(Units) /\ buffer \in Seq(Units)
         /\ Len(stream) \in Nat /\ Len(toSend) \in Nat /\ Len(net) \in Nat
         /\ Len(buffer) \in Nat /\ Len(log) \in Nat
BY SessionAssumption, LenProperties DEF TypeOK

(* Send moves one unit from toSend to the end of net.                      *)
LEMMA SendEffect ==
  ASSUME TypeOK, Send
  PROVE  /\ net' \in Seq(Units) /\ toSend' \in Seq(Units)
         /\ Len(net') = Len(net) + 1 /\ Len(toSend') + 1 = Len(toSend)
         /\ \A i \in 1 .. Len(net) : net'[i] = net[i]
         /\ net'[Len(net) + 1] = toSend[1]
         /\ \A i \in 1 .. Len(toSend') : toSend'[i] = toSend[i + 1]
<1>1. toSend # <<>> /\ net' = Append(net, Head(toSend)) /\ toSend' = Tail(toSend)
  BY DEF Send
<1> QED  BY <1>1, Lengths, HeadTailProperties, AppendProperties, LenProperties

(* A read moves some units from the front of net to the end of the buffer. *)
LEMMA ReceiveEffect ==
  ASSUME TypeOK, NEW n \in 1 .. Len(net),
         buffer' = buffer \o SubSeq(net, 1, n), net' = Drop(net, n)
  PROVE  /\ buffer' \in Seq(Units) /\ net' \in Seq(Units)
         /\ Len(buffer') = Len(buffer) + n /\ Len(net') = Len(net) - n
         /\ \A i \in 1 .. Len(buffer) : buffer'[i] = buffer[i]
         /\ \A i \in 1 .. n : buffer'[Len(buffer) + i] = net[i]
         /\ \A i \in 1 .. Len(net) - n : net'[i] = net[n + i]
<1>1. n \in 0 .. Len(net)
  BY Lengths
<1>2. /\ SubSeq(net, 1, n) \in Seq(Units) /\ Len(SubSeq(net, 1, n)) = n
      /\ \A i \in 1 .. n : SubSeq(net, 1, n)[i] = net[i]
  BY <1>1, Lengths, TakeProperties
<1>3. /\ net' \in Seq(Units) /\ Len(net') = Len(net) - n
      /\ \A i \in 1 .. Len(net) - n : net'[i] = net[n + i]
  BY <1>1, Lengths, DropProperties
<1>4. /\ buffer' \in Seq(Units) /\ Len(buffer') = Len(buffer) + n
      /\ \A i \in 1 .. Len(buffer) : buffer'[i] = buffer[i]
      /\ \A i \in 1 .. n : buffer'[Len(buffer) + i] = SubSeq(net, 1, n)[i]
  BY <1>1, <1>2, Lengths, ConcatProperties
<1> QED  BY <1>2, <1>3, <1>4

(* The log grows by the fates of some units.                               *)
LEMMA LogEffect ==
  ASSUME TypeOK, NEW units \in Seq(Units), NEW fate \in Fates,
         log' = log \o Fate(units, fate)
  PROVE  /\ log' \in Seq([unit : Units, fate : Fates])
         /\ Len(units) \in Nat /\ Len(log') = Len(log) + Len(units)
         /\ \A i \in 1 .. Len(log) : log'[i] = log[i]
         /\ \A i \in 1 .. Len(units) :
              /\ log'[Len(log) + i].unit = units[i]
              /\ log'[Len(log) + i].fate = fate
<1>1. log \in Seq([unit : Units, fate : Fates])
  BY DEF TypeOK, Fates
<1>2. /\ Fate(units, fate) \in Seq([unit : Units, fate : Fates])
      /\ Len(Fate(units, fate)) = Len(units)
      /\ \A i \in 1 .. Len(units) :
           Fate(units, fate)[i] = [unit |-> units[i], fate |-> fate]
  BY FateProperties
<1>3. Len(log) \in Nat /\ Len(units) \in Nat
  BY <1>1, LenProperties
<1>4. /\ log' \in Seq([unit : Units, fate : Fates])
      /\ Len(log') = Len(log) + Len(Fate(units, fate))
      /\ \A i \in 1 .. Len(log) + Len(Fate(units, fate)) :
           log'[i] = IF i <= Len(log) THEN log[i] ELSE Fate(units, fate)[i - Len(log)]
  BY <1>1, <1>2, ConcatProperties
<1>5. \A i \in 1 .. Len(units) :
        log'[Len(log) + i] = [unit |-> units[i], fate |-> fate]
  BY <1>2, <1>3, <1>4
<1>6. \A i \in 1 .. Len(units) : /\ log'[Len(log) + i].unit = units[i]
                                  /\ log'[Len(log) + i].fate = fate
  <2> TAKE i \in 1 .. Len(units)
  <2>1. log'[Len(log) + i] = [unit |-> units[i], fate |-> fate]
    BY <1>5
  <2> QED  BY <2>1
<1> QED  BY <1>2, <1>3, <1>4, <1>6

(* The piece that ReadHandler parses, and what it leaves.                  *)
LEMMA PieceProperties ==
  ASSUME TypeOK, HasEnd(buffer)
  PROVE  LET bytes == FirstEnd(buffer)
             piece == SubSeq(buffer, 1, bytes)
         IN  /\ bytes \in 1 .. Len(buffer)
             /\ piece \in Seq(Units) /\ Len(piece) = bytes
             /\ \A i \in 1 .. bytes : piece[i] = buffer[i]
             /\ Drop(buffer, bytes) \in Seq(Units)
             /\ Len(Drop(buffer, bytes)) = Len(buffer) - bytes
             /\ \A i \in 1 .. Len(buffer) - bytes :
                  Drop(buffer, bytes)[i] = buffer[bytes + i]
<1>1. FirstEnd(buffer) \in 1 .. Len(buffer)
  BY Lengths, FirstEndProperties
<1> DEFINE bytes == FirstEnd(buffer)
<1> HIDE DEF bytes
<1>2. bytes \in 1 .. Len(buffer) /\ Len(buffer) \in Nat
  BY <1>1, Lengths DEF bytes
<1>3. bytes \in 0 .. Len(buffer) /\ buffer \in Seq(Units)
  BY <1>2, Lengths
<1>4. /\ SubSeq(buffer, 1, bytes) \in Seq(Units)
      /\ Len(SubSeq(buffer, 1, bytes)) = bytes
      /\ \A i \in 1 .. bytes : SubSeq(buffer, 1, bytes)[i] = buffer[i]
  BY <1>3, TakeProperties
<1>5. /\ Drop(buffer, bytes) \in Seq(Units)
      /\ Len(Drop(buffer, bytes)) = Len(buffer) - bytes
      /\ \A i \in 1 .. Len(buffer) - bytes : Drop(buffer, bytes)[i] = buffer[bytes + i]
  BY <1>3, DropProperties
<1> QED  BY <1>2, <1>4, <1>5 DEF bytes

(* WriteHandler finds nothing left in the buffer: its own consume, of what *)
(* the read announced, comes after async_write's of what it wrote.         *)
LEMMA WrittenAll ==
  ASSUME TypeOK, WriteHandler
  PROVE  buffer' = <<>>
<1> DEFINE left == Drop(buffer, written)
<1>1. written = Len(buffer) /\ buffer' = Drop(left, AtMost(toConsume, Len(left)))
  BY DEF WriteHandler
<1>2. left = <<>>
  BY <1>1, Lengths, SubSeqEmpty DEF Drop
<1>3. AtMost(toConsume, Len(left)) = 0
  BY <1>2, EmptySeq DEF AtMost, TypeOK
<1> QED  BY <1>1, <1>2, <1>3, SubSeqEmpty, EmptySeq DEF Drop
-----------------------------------------------------------------------------
(* The invariant's steps.                                                  *)

(* No step leaves the types.                                               *)
LEMMA TypeStep ==
  ASSUME IInv, Next
  PROVE  TypeOK'
<1>0. TypeOK
  BY DEF IInv
<1>1. CASE Send
  BY <1>0, <1>1, SendEffect DEF TypeOK, Send, sessionVars
<1>2. CASE Close
  BY <1>0, <1>2 DEF TypeOK, Close, sessionVars
<1>9. CASE Reset
  BY <1>0, <1>9, EmptySeq DEF TypeOK, Reset, sessionVars
<1>3. CASE Receive
  <2>1. PICK n \in 1 .. Len(net) :
          buffer' = buffer \o SubSeq(net, 1, n) /\ net' = Drop(net, n)
    BY <1>3 DEF Receive
  <2>2. buffer' \in Seq(Units) /\ net' \in Seq(Units) /\ Len(buffer') = Len(buffer) + n
    BY <1>0, <2>1, ReceiveEffect
  <2>3. written \in 0 .. Len(buffer')
    BY <1>0, <2>1, <2>2, Lengths DEF TypeOK
  <2> QED  BY <1>0, <1>3, <2>2, <2>3 DEF TypeOK, Receive
<1>4. CASE ReadHandler
  <2> DEFINE bytes == FirstEnd(buffer)
             piece == SubSeq(buffer, 1, bytes)
  <2>1. /\ HasEnd(buffer) /\ log' = log \o Fate(piece, "parsed")
        /\ answers' = Append(answers, Outcome(piece))
        /\ op' = "write" /\ written' = 0 /\ toConsume' = bytes
        /\ buffer' = Drop(buffer, bytes)
    BY <1>4 DEF ReadHandler, DoWrite
  <2>2. /\ bytes \in 1 .. Len(buffer) /\ piece \in Seq(Units)
        /\ buffer' \in Seq(Units)
    BY <1>0, <2>1, PieceProperties
  <2>3. written' \in 0 .. Len(buffer') /\ toConsume' \in Nat
    BY <2>1, <2>2, LenProperties
  <2>4. log' \in Seq([unit : Units, fate : {"parsed", "echoed"}])
    BY <1>0, <2>1, <2>2, LogEffect DEF Fates
  <2>5. answers' \in Seq(Outcomes)
    <3>1. Outcome(piece) \in Outcomes
      BY <2>2, OutcomeType
    <3> QED  BY <1>0, <2>1, <3>1, AppendProperties DEF TypeOK
  <2> QED
    BY <1>0, <1>4, <2>1, <2>2, <2>3, <2>4, <2>5 DEF TypeOK, ReadHandler
<1>5. CASE ReadHandlerTerminates \/ ReadError
  BY <1>0, <1>5 DEF TypeOK, ReadHandlerTerminates, ReadError
<1>6. CASE WriteSome
  <2>1. PICK n \in 1 .. Len(buffer) - written :
          /\ log' = log \o Fate(SubSeq(buffer, written + 1, written + n), "echoed")
          /\ written' = written + n
    BY <1>6 DEF WriteSome
  <2>2. SubSeq(buffer, written + 1, written + n) \in Seq(Units)
    <3>1. buffer \in Seq(Units) /\ Len(buffer) \in Nat /\ written \in 0 .. Len(buffer)
      BY <1>0, Lengths DEF TypeOK
    <3>2. n \in 0 .. Len(buffer) - written
      BY <3>1
    <3> QED  BY <3>1, <3>2, StretchProperties
  <2>3. log' \in Seq([unit : Units, fate : {"parsed", "echoed"}])
    BY <1>0, <2>1, <2>2, LogEffect DEF Fates
  <2>4. written' \in 0 .. Len(buffer)
    BY <1>0, <2>1, Lengths DEF TypeOK
  <2> QED  BY <1>0, <1>6, <2>3, <2>4 DEF TypeOK, WriteSome
<1>7. CASE WriteHandler
  <2>1. buffer' \in Seq(Units) /\ Len(buffer') = 0
    BY <1>0, <1>7, WrittenAll, EmptySeq
  <2> QED  BY <1>0, <1>7, <2>1 DEF TypeOK, WriteHandler
<1>8. CASE WriteError
  <2>1. buffer' = Drop(buffer, written)
    BY <1>8 DEF WriteError
  <2>2. buffer' \in Seq(Units) /\ Len(buffer') \in Nat
    BY <1>0, <2>1, Lengths, DropProperties, LenProperties DEF TypeOK
  <2> QED  BY <1>0, <1>8, <2>2 DEF TypeOK, WriteError
<1> QED
  BY <1>1, <1>2, <1>3, <1>4, <1>5, <1>6, <1>7, <1>8, <1>9
  DEF Next, Client, Server
(* A write alone moves written.                                            *)
LEMMA WritesOnlyStep ==
  ASSUME IInv, Next
  PROVE  WritesOnly'
BY DEF IInv, WritesOnly, Next, Client, Server, Running, Send, Close, Reset, Receive,
       ReadHandler, DoWrite, ReadHandlerTerminates, ReadError, WriteSome,
       WriteHandler, WriteError, sessionVars

(* A new unit in the socket is the first that was unsent.                  *)
LEMMA SendStep ==
  ASSUME IInv, Send
  PROVE  Amount' /\ InOrder'
<1>0. /\ Len(stream) \in Nat /\ Len(toSend) \in Nat /\ Len(net) \in Nat
      /\ Len(buffer) \in Nat /\ Len(log) \in Nat
  BY Lengths DEF IInv
<1>1. /\ client = "open" /\ client' = client
      /\ UNCHANGED <<stream, buffer, written, log>>
  BY DEF Send, sessionVars
<1>2. TypeOK /\ Amount /\ InOrder
  BY DEF IInv
<1>3. /\ Len(net') = Len(net) + 1 /\ Len(toSend') + 1 = Len(toSend)
      /\ \A i \in 1 .. Len(net) : net'[i] = net[i]
      /\ net'[Len(net) + 1] = toSend[1]
      /\ \A i \in 1 .. Len(toSend') : toSend'[i] = toSend[i + 1]
  BY <1>2, SendEffect
<1>10. Len(net') = Len(net) + 1 /\ Len(toSend') = Len(toSend) - 1
  <2>1. toSend' \in Seq(Units)
    BY <1>2, SendEffect
  <2>2. Len(toSend') \in Nat
    BY <2>1, LenProperties
  <2> QED  BY <1>0, <1>3, <2>2
<1>4. written \in Nat /\ written <= Len(buffer)
  BY <1>2, Lengths DEF TypeOK
<1>5. Held' = Held /\ Held \in Nat
  BY <1>1, <1>2, <1>4, Lengths DEF Held
<1>6. Amount'
  <2>1. Held + Len(net) + Len(toSend) = Len(stream)
    BY <1>1, <1>2 DEF Amount
  <2>2. Held' + Len(net') + Len(toSend') = Len(stream')
    BY <1>0, <1>1, <1>5, <1>10, <2>1
  <2> QED  BY <1>0, <1>1, <2>2 DEF Amount
<1>7. LogInOrder' /\ BufferInOrder'
  BY <1>1, <1>2 DEF InOrder, LogInOrder, BufferInOrder
<1>8. NetInOrder'
  <2>1. Held + Len(net) + Len(toSend) = Len(stream)
    BY <1>1, <1>2 DEF Amount
  <2>2. Len(toSend) >= 1 /\ toSend[1] = stream[Len(stream) - Len(toSend) + 1]
    BY <1>2, <1>3, Lengths DEF InOrder, UnsentInOrder
  <2>3. toSend[1] = stream[Held + Len(net) + 1]
    <3>1. Len(stream) - Len(toSend) + 1 = Held + Len(net) + 1
      BY <2>1, <1>5, Lengths
    <3> QED  BY <2>2, <3>1
  <2> SUFFICES ASSUME NEW i \in 1 .. Len(net')
               PROVE  net'[i] = stream[Held + i]
    BY <1>1, <1>5 DEF NetInOrder
  <2>4. CASE i \in 1 .. Len(net)
    BY <1>2, <1>3, <2>4 DEF InOrder, NetInOrder
  <2>5. CASE i = Len(net) + 1
    BY <1>0, <1>3, <1>5, <2>3, <2>5
  <2> QED  BY <1>0, <1>3, <2>4, <2>5
<1>9. UnsentInOrder'
  <2> SUFFICES ASSUME NEW i \in 1 .. Len(toSend')
               PROVE  toSend'[i] = stream[Len(stream) - Len(toSend') + i]
    BY <1>1 DEF UnsentInOrder
  <2>1. i + 1 \in 1 .. Len(toSend) /\ toSend'[i] = toSend[i + 1]
    BY <1>0, <1>3
  <2>2. toSend[i + 1] = stream[Len(stream) - Len(toSend) + (i + 1)]
    BY <1>2, <2>1 DEF InOrder, UnsentInOrder
  <2>3. Len(stream) - Len(toSend) + (i + 1) = Len(stream) - Len(toSend') + i
    BY <1>0, <1>10
  <2> QED  BY <2>1, <2>2, <2>3
<1> QED  BY <1>6, <1>7, <1>8, <1>9 DEF InOrder

(* A reset empties the socket.                                             *)
LEMMA ResetStep ==
  ASSUME IInv, Reset
  PROVE  Amount' /\ InOrder'
<1>1. /\ client' = "reset" /\ net' = <<>>
      /\ UNCHANGED <<stream, toSend, buffer, written, log>>
  BY DEF Reset, sessionVars
<1>2. TypeOK /\ Amount /\ InOrder
  BY DEF IInv
<1>3. Len(net') = 0
  BY <1>1, EmptySeq
<1>4. Held' = Held /\ Held \in Int
  BY <1>1, <1>2, Lengths DEF Held, TypeOK
<1> QED
  BY <1>1, <1>2, <1>3, <1>4, Lengths
  DEF Amount, InOrder, LogInOrder, BufferInOrder, NetInOrder, UnsentInOrder

(* A read takes the units at the front of the socket in order.             *)
LEMMA ReceiveStep ==
  ASSUME IInv, Receive
  PROVE  Amount' /\ InOrder'
<1>0. /\ Len(stream) \in Nat /\ Len(toSend) \in Nat /\ Len(net) \in Nat
      /\ Len(buffer) \in Nat /\ Len(log) \in Nat
  BY Lengths DEF IInv
<1>1. PICK n \in 1 .. Len(net) :
        buffer' = buffer \o SubSeq(net, 1, n) /\ net' = Drop(net, n)
  BY DEF Receive
<1>2. UNCHANGED <<stream, toSend, client, written, log>>
  BY DEF Receive
<1>3. TypeOK /\ Amount /\ InOrder
  BY DEF IInv
<1>4. /\ Len(buffer') = Len(buffer) + n /\ Len(net') = Len(net) - n
      /\ \A i \in 1 .. Len(buffer) : buffer'[i] = buffer[i]
      /\ \A i \in 1 .. n : buffer'[Len(buffer) + i] = net[i]
      /\ \A i \in 1 .. Len(net) - n : net'[i] = net[n + i]
  BY <1>1, <1>3, ReceiveEffect
<1>5. written \in Nat /\ written <= Len(buffer) /\ n \in Nat
  BY <1>3, Lengths DEF TypeOK
<1>6. Held' = Held + n /\ Held \in Nat
  BY <1>2, <1>3, <1>4, <1>5, Lengths DEF Held
<1>7. Amount'
  <2>1. Held' + Len(net') + Len(toSend') = Held + Len(net) + Len(toSend)
    BY <1>0, <1>2, <1>4, <1>5, <1>6
  <2> QED  BY <1>2, <1>3, <2>1 DEF Amount
<1>8. LogInOrder' /\ UnsentInOrder'
  BY <1>2, <1>3 DEF InOrder, LogInOrder, UnsentInOrder
<1>9. BufferInOrder'
  <2> SUFFICES ASSUME NEW i \in written + 1 .. Len(buffer')
               PROVE  buffer'[i] = stream[Len(log) - written + i]
    BY <1>2 DEF BufferInOrder
  <2>1. CASE i <= Len(buffer)
    BY <1>3, <1>4, <1>5, <2>1, Lengths DEF InOrder, BufferInOrder
  <2>2. CASE i > Len(buffer)
    <3> DEFINE j == i - Len(buffer)
    <3>1. j \in 1 .. n /\ j \in 1 .. Len(net) /\ i = Len(buffer) + j
      BY <1>4, <1>5, <2>2, Lengths
    <3>2. buffer'[i] = net[j]
      BY <1>4, <3>1
    <3>3. net[j] = stream[Held + j]
      BY <1>3, <3>1 DEF InOrder, NetInOrder
    <3>4. Held + j = Len(log) - written + i
      BY <1>3, <1>5, <3>1, Lengths DEF Held
    <3> QED  BY <3>2, <3>3, <3>4
  <2> QED  BY <2>1, <2>2, <1>5, Lengths
<1>10. NetInOrder'
  <2> SUFFICES ASSUME NEW i \in 1 .. Len(net')
               PROVE  net'[i] = stream[Held + n + i]
    BY <1>2, <1>6 DEF NetInOrder
  <2>1. n + i \in 1 .. Len(net) /\ net'[i] = net[n + i]
    BY <1>4, <1>5, Lengths
  <2>2. net[n + i] = stream[Held + (n + i)]
    BY <1>3, <2>1 DEF InOrder, NetInOrder
  <2>3. Held + (n + i) = Held + n + i
    BY <1>5, <1>6
  <2> QED  BY <2>1, <2>2, <2>3
<1> QED  BY <1>7, <1>8, <1>9, <1>10 DEF InOrder

(* The piece parsed is what comes next in the stream, and what it leaves in*)
(* the buffer follows it there.                                            *)
LEMMA ReadHandlerStep ==
  ASSUME IInv, ReadHandler
  PROVE  Amount' /\ InOrder'
<1>0. /\ Len(stream) \in Nat /\ Len(toSend) \in Nat /\ Len(net) \in Nat
      /\ Len(buffer) \in Nat /\ Len(log) \in Nat
  BY Lengths DEF IInv
<1>1. TypeOK /\ Amount /\ InOrder
  BY DEF IInv
<1>2. UNCHANGED <<stream, toSend, client, net>> /\ written = 0 /\ written' = 0
  BY DEF ReadHandler, DoWrite, IInv, WritesOnly, Running
<1>3. PICK bytes \in 1 .. Len(buffer) :
        /\ Len(log') = Len(log) + bytes /\ Len(buffer') = Len(buffer) - bytes
        /\ \A i \in 1 .. Len(log) : log'[i] = log[i]
        /\ \A i \in 1 .. bytes : log'[Len(log) + i].unit = buffer[i]
        /\ \A i \in 1 .. Len(buffer) - bytes : buffer'[i] = buffer[bytes + i]
  <2> DEFINE b     == FirstEnd(buffer)
             piece == SubSeq(buffer, 1, b)
  <2>1. /\ HasEnd(buffer) /\ log' = log \o Fate(piece, "parsed")
        /\ buffer' = Drop(buffer, b)
    BY DEF ReadHandler, DoWrite
  <2>2. /\ b \in 1 .. Len(buffer) /\ piece \in Seq(Units) /\ Len(piece) = b
        /\ \A i \in 1 .. b : piece[i] = buffer[i]
        /\ Len(buffer') = Len(buffer) - b
        /\ \A i \in 1 .. Len(buffer) - b : buffer'[i] = buffer[b + i]
    BY <1>1, <2>1, PieceProperties
  <2>3. /\ Len(log') = Len(log) + Len(piece)
        /\ \A i \in 1 .. Len(log) : log'[i] = log[i]
        /\ \A i \in 1 .. Len(piece) :
             log'[Len(log) + i].unit = piece[i]
    BY <1>1, <2>1, <2>2, LogEffect DEF Fates
  <2>4. \A i \in 1 .. b : log'[Len(log) + i].unit = buffer[i]
    BY <2>2, <2>3
  <2> HIDE DEF b
  <2> QED  BY <2>2, <2>3, <2>4
<1>4. Held' = Held /\ Held = Len(log) + Len(buffer)
  BY <1>0, <1>2, <1>3 DEF Held
<1>5. Amount' /\ UnsentInOrder'
  BY <1>1, <1>2, <1>4 DEF Amount, InOrder, UnsentInOrder
<1>6. NetInOrder'
  BY <1>1, <1>2, <1>4 DEF InOrder, NetInOrder
<1>7. LogInOrder'
  <2> SUFFICES ASSUME NEW i \in 1 .. Len(log')
               PROVE  log'[i].unit = stream[i]
    BY <1>2 DEF LogInOrder
  <2>1. CASE i \in 1 .. Len(log)
    BY <1>1, <1>3, <2>1 DEF InOrder, LogInOrder
  <2>2. CASE i > Len(log)
    <3>1. i - Len(log) \in 1 .. bytes /\ i = Len(log) + (i - Len(log))
      BY <1>0, <1>3, <2>2
    <3>2. log'[i].unit = buffer[i - Len(log)]
      BY <1>3, <3>1
    <3>3. i - Len(log) \in written + 1 .. Len(buffer)
      BY <1>0, <1>2, <3>1
    <3>4. buffer[i - Len(log)] = stream[Len(log) - written + (i - Len(log))]
      BY <1>1, <3>3 DEF InOrder, BufferInOrder
    <3>5. Len(log) - written + (i - Len(log)) = i
      BY <1>0, <1>2
    <3> QED  BY <3>2, <3>4, <3>5
  <2> QED  BY <1>0, <1>3, <2>1, <2>2
<1>8. BufferInOrder'
  <2> SUFFICES ASSUME NEW i \in 1 .. Len(buffer')
               PROVE  buffer'[i] = stream[Len(log') + i]
    BY <1>0, <1>2, <1>3 DEF BufferInOrder
  <2>1. buffer'[i] = buffer[bytes + i] /\ bytes + i \in written + 1 .. Len(buffer)
    BY <1>0, <1>2, <1>3
  <2>2. buffer[bytes + i] = stream[Len(log) - written + (bytes + i)]
    BY <1>1, <2>1 DEF InOrder, BufferInOrder
  <2>3. Len(log) - written + (bytes + i) = Len(log') + i
    BY <1>0, <1>2, <1>3
  <2> QED  BY <2>1, <2>2, <2>3
<1> QED  BY <1>5, <1>6, <1>7, <1>8 DEF InOrder

(* What is written is what comes next in the stream.                       *)
LEMMA WriteSomeStep ==
  ASSUME IInv, WriteSome
  PROVE  Amount' /\ InOrder'
<1>0. /\ Len(stream) \in Nat /\ Len(toSend) \in Nat /\ Len(net) \in Nat
      /\ Len(buffer) \in Nat /\ Len(log) \in Nat
  BY Lengths DEF IInv
<1>1. TypeOK /\ Amount /\ InOrder
  BY DEF IInv
<1>2. UNCHANGED <<stream, toSend, client, net, buffer>>
  BY DEF WriteSome
<1>3. written \in Nat /\ written <= Len(buffer)
  BY <1>0, <1>1 DEF TypeOK
<1>4. PICK n \in 1 .. Len(buffer) - written :
        /\ written' = written + n /\ Len(log') = Len(log) + n
        /\ \A i \in 1 .. Len(log) : log'[i] = log[i]
        /\ \A i \in 1 .. n : log'[Len(log) + i].unit = buffer[written + i]
  <2>1. PICK n \in 1 .. Len(buffer) - written :
          /\ log' = log \o Fate(SubSeq(buffer, written + 1, written + n), "echoed")
          /\ written' = written + n
    BY DEF WriteSome
  <2> DEFINE units == SubSeq(buffer, written + 1, written + n)
  <2>2. n \in 0 .. Len(buffer) - written /\ written \in 0 .. Len(buffer)
    BY <1>0, <1>3
  <2>3. /\ units \in Seq(Units) /\ Len(units) = n
        /\ \A i \in 1 .. n : units[i] = buffer[written + i]
    BY <1>1, <2>2, Lengths, StretchProperties
  <2>4. /\ Len(log') = Len(log) + Len(units)
        /\ \A i \in 1 .. Len(log) : log'[i] = log[i]
        /\ \A i \in 1 .. Len(units) :
             log'[Len(log) + i].unit = units[i]
    BY <1>1, <2>1, <2>3, LogEffect DEF Fates
  <2>5. \A i \in 1 .. n : log'[Len(log) + i].unit = buffer[written + i]
    BY <2>3, <2>4
  <2> QED  BY <2>1, <2>3, <2>4, <2>5
<1>5. Held' = Held
  BY <1>0, <1>2, <1>3, <1>4 DEF Held
<1>6. Amount' /\ UnsentInOrder'
  BY <1>1, <1>2, <1>5 DEF Amount, InOrder, UnsentInOrder
<1>7. NetInOrder'
  BY <1>1, <1>2, <1>5 DEF InOrder, NetInOrder
<1>8. LogInOrder'
  <2> SUFFICES ASSUME NEW i \in 1 .. Len(log')
               PROVE  log'[i].unit = stream[i]
    BY <1>2 DEF LogInOrder
  <2>1. CASE i \in 1 .. Len(log)
    BY <1>1, <1>4, <2>1 DEF InOrder, LogInOrder
  <2>2. CASE i > Len(log)
    <3> DEFINE j == i - Len(log)
    <3>1. j \in 1 .. n /\ i = Len(log) + j
      BY <1>0, <1>4, <2>2
    <3>2. log'[i].unit = buffer[written + j]
      BY <1>4, <3>1
    <3>3. written + j \in written + 1 .. Len(buffer)
      <4>1. j \in Nat /\ 1 <= j /\ j <= n /\ n <= Len(buffer) - written
        BY <1>0, <1>3, <3>1
      <4> HIDE DEF j
      <4> QED  BY <1>0, <1>3, <4>1
    <3>4. buffer[written + j] = stream[Len(log) - written + (written + j)]
      BY <1>1, <3>3 DEF InOrder, BufferInOrder
    <3>5. Len(log) - written + (written + j) = i
      BY <1>0, <1>3, <3>1
    <3> QED  BY <3>2, <3>4, <3>5
  <2> QED  BY <1>0, <1>4, <2>1, <2>2
<1>9. BufferInOrder'
  <2> SUFFICES ASSUME NEW i \in written' + 1 .. Len(buffer)
               PROVE  buffer[i] = stream[Len(log') - written' + i]
    BY <1>2 DEF BufferInOrder
  <2>1. i \in written + 1 .. Len(buffer)
    BY <1>0, <1>3, <1>4
  <2>2. Len(log') - written' + i = Len(log) - written + i
    BY <1>0, <1>3, <1>4
  <2> QED  BY <1>1, <2>1, <2>2 DEF InOrder, BufferInOrder
<1> QED  BY <1>6, <1>7, <1>8, <1>9 DEF InOrder

(* The end of a write, whole or cut short, drops what was written.         *)
LEMMA WriteEndsStep ==
  ASSUME IInv, WriteHandler \/ WriteError
  PROVE  Amount' /\ InOrder'
<1>0. /\ Len(stream) \in Nat /\ Len(toSend) \in Nat /\ Len(net) \in Nat
      /\ Len(buffer) \in Nat /\ Len(log) \in Nat
  BY Lengths DEF IInv
<1>1. TypeOK /\ Amount /\ InOrder
  BY DEF IInv
<1>2. UNCHANGED <<stream, toSend, client, net, log>> /\ written' = 0
  BY DEF WriteHandler, WriteError
<1>3. written \in Nat /\ written <= Len(buffer)
  BY <1>0, <1>1 DEF TypeOK
<1>4. /\ Len(buffer') = Len(buffer) - written
      /\ \A i \in 1 .. Len(buffer') : buffer'[i] = buffer[written + i]
  <2>1. CASE WriteHandler
    BY <1>0, <1>1, <1>3, <2>1, WrittenAll, EmptySeq DEF WriteHandler
  <2>2. CASE WriteError
    BY <1>1, <2>2, Lengths, DropProperties DEF WriteError, TypeOK
  <2> QED  BY <2>1, <2>2
<1>5. Held' = Held
  BY <1>0, <1>2, <1>3, <1>4 DEF Held
<1>6. Amount' /\ LogInOrder' /\ UnsentInOrder'
  BY <1>1, <1>2, <1>5 DEF Amount, InOrder, LogInOrder, UnsentInOrder
<1>7. NetInOrder'
  BY <1>1, <1>2, <1>5 DEF InOrder, NetInOrder
<1>8. BufferInOrder'
  <2> SUFFICES ASSUME NEW i \in 1 .. Len(buffer')
               PROVE  buffer'[i] = stream[Len(log) + i]
    BY <1>0, <1>2, <1>3, <1>4 DEF BufferInOrder
  <2>1. buffer'[i] = buffer[written + i] /\ written + i \in written + 1 .. Len(buffer)
    BY <1>0, <1>3, <1>4
  <2>2. buffer[written + i] = stream[Len(log) - written + (written + i)]
    BY <1>1, <2>1 DEF InOrder, BufferInOrder
  <2>3. Len(log) - written + (written + i) = Len(log) + i
    BY <1>0, <1>3
  <2> QED  BY <2>1, <2>2, <2>3
<1> QED  BY <1>6, <1>7, <1>8 DEF InOrder

(* The other steps move none of the bytes.                                 *)
LEMMA QuietStep ==
  ASSUME IInv, UNCHANGED <<stream, toSend, net, buffer, written, log>>,
         client' # "reset" => client # "reset"
  PROVE  Amount' /\ InOrder'
BY DEF IInv, Amount, Held, InOrder, LogInOrder, BufferInOrder, NetInOrder, UnsentInOrder

(* Every step keeps the invariant.                                         *)
LEMMA IInvStep ==
  ASSUME IInv, Next
  PROVE  IInv'
<1>1. TypeOK' /\ WritesOnly'
  BY TypeStep, WritesOnlyStep
<1>2. Amount' /\ InOrder'
  <2>1. CASE Close
    BY <2>1, QuietStep DEF Close, sessionVars
  <2>2. CASE ReadHandlerTerminates
    BY <2>2, QuietStep DEF ReadHandlerTerminates
  <2>3. CASE ReadError
    BY <2>3, QuietStep DEF ReadError
  <2> QED
    BY <2>1, <2>2, <2>3, SendStep, ResetStep, ReceiveStep, ReadHandlerStep,
       WriteSomeStep, WriteEndsStep DEF Next, Client, Server
<1> QED  BY <1>1, <1>2 DEF IInv

(* A session starts with an empty buffer, and with all still to be sent.   *)
LEMMA InitInvariant == Init => IInv
<1> SUFFICES ASSUME Init
             PROVE  IInv
  OBVIOUS
<1>1. stream \in Seq(Units) /\ Len(stream) \in Nat
  BY SessionAssumption, LenProperties DEF Init
<1>2. /\ <<>> \in Seq(Units) /\ <<>> \in Seq([unit : Units, fate : {"parsed", "echoed"}])
      /\ <<>> \in Seq(Outcomes) /\ Len(<<>>) = 0
  BY EmptySeq
<1>3. TypeOK /\ WritesOnly
  BY <1>1, <1>2 DEF Init, TypeOK, WritesOnly
<1>4. Amount /\ InOrder
  BY <1>1, <1>2 DEF Init, Amount, Held, InOrder, LogInOrder, BufferInOrder,
                    NetInOrder, UnsentInOrder
<1> QED  BY <1>3, <1>4 DEF IInv

(* A step that changes nothing keeps the invariant.                        *)
LEMMA StutterInvariant ==
  ASSUME IInv, UNCHANGED vars
  PROVE  IInv'
BY DEF IInv, vars, TypeOK, WritesOnly, Amount, Held, InOrder, LogInOrder,
       BufferInOrder, NetInOrder, UnsentInOrder
-----------------------------------------------------------------------------
(* The bytes of the connection, put together again.                        *)

(* A beginning of a sequence and the stretch that follows it are together  *)
(* a beginning of it.                                                      *)
Begins(a, s) == Len(a) <= Len(s) /\ \A i \in 1 .. Len(a) : a[i] = s[i]
LEMMA Follows ==
  ASSUME NEW S, NEW a \in Seq(S), NEW b \in Seq(S), NEW s \in Seq(S),
         Begins(a, s), Len(a) + Len(b) <= Len(s),
         \A i \in 1 .. Len(b) : b[i] = s[Len(a) + i]
  PROVE  /\ a \o b \in Seq(S)
         /\ Len(a \o b) = Len(a) + Len(b)
         /\ Begins(a \o b, s)
<1>0. Len(a) \in Nat /\ Len(b) \in Nat /\ Len(s) \in Nat
  BY LenProperties
<1>1. /\ a \o b \in Seq(S) /\ Len(a \o b) = Len(a) + Len(b)
      /\ \A i \in 1 .. Len(a) + Len(b) :
           (a \o b)[i] = IF i <= Len(a) THEN a[i] ELSE b[i - Len(a)]
  BY ConcatProperties
<1>2. ASSUME NEW i \in 1 .. Len(a) + Len(b), i > Len(a)
      PROVE  b[i - Len(a)] = s[i]
  <2>1. i - Len(a) \in 1 .. Len(b) /\ Len(a) + (i - Len(a)) = i
    BY <1>0, <1>2
  <2> QED  BY <2>1
<1>3. \A i \in 1 .. Len(a) + Len(b) : (a \o b)[i] = s[i]
  BY <1>0, <1>1, <1>2 DEF Begins
<1> QED  BY <1>1, <1>3 DEF Begins

(* With nothing lost, the parts are the stream.                            *)
LEMMA Together ==
  ASSUME IInv
  PROVE  Conservation
<1> SUFFICES ASSUME client # "reset"
             PROVE  [i \in 1 .. Len(log) |-> log[i].unit] \o Drop(buffer, written)
                      \o net \o toSend = stream
  BY DEF Conservation
<1> DEFINE done == [i \in 1 .. Len(log) |-> log[i].unit]
           rest == Drop(buffer, written)
<1>0. /\ stream \in Seq(Units) /\ toSend \in Seq(Units) /\ net \in Seq(Units)
      /\ Len(stream) \in Nat /\ Len(toSend) \in Nat /\ Len(net) \in Nat
      /\ Len(buffer) \in Nat /\ Len(log) \in Nat
  BY Lengths DEF IInv
<1>1. TypeOK /\ Amount /\ InOrder
  BY DEF IInv
<1>2. /\ done \in Seq(Units) /\ Len(done) = Len(log)
      /\ \A i \in 1 .. Len(log) : done[i] = stream[i]
  <2>1. \A i \in 1 .. Len(log) : log[i] \in [unit : Units, fate : {"parsed", "echoed"}]
    BY <1>1, ElementOfSeq DEF TypeOK
  <2>2. done \in [1 .. Len(log) -> Units]
    BY <2>1
  <2>3. done \in Seq(Units) /\ Len(done) = Len(log)
    BY <1>0, <2>2, LenProperties
  <2> QED  BY <1>1, <2>3 DEF InOrder, LogInOrder
<1>3. /\ rest \in Seq(Units) /\ Len(rest) = Len(buffer) - written
      /\ \A i \in 1 .. Len(rest) : rest[i] = stream[Len(log) + i]
  <2>1. written \in 0 .. Len(buffer) /\ buffer \in Seq(Units)
    BY <1>1, Lengths DEF TypeOK
  <2>2. /\ rest \in Seq(Units) /\ Len(rest) = Len(buffer) - written
        /\ \A i \in 1 .. Len(buffer) - written : rest[i] = buffer[written + i]
    BY <2>1, DropProperties
  <2>3. ASSUME NEW i \in 1 .. Len(buffer) - written
        PROVE  buffer[written + i] = stream[Len(log) + i]
    <3>1. written + i \in written + 1 .. Len(buffer)
      BY <1>0, <2>1
    <3>2. buffer[written + i] = stream[Len(log) - written + (written + i)]
      BY <1>1, <3>1 DEF InOrder, BufferInOrder
    <3>3. Len(log) - written + (written + i) = Len(log) + i
      BY <1>0, <2>1
    <3> QED  BY <3>2, <3>3
  <2> QED  BY <2>2, <2>3
<1> HIDE DEF done, rest
<1>4. Held = Len(done) + Len(rest)
  BY <1>0, <1>1, <1>2, <1>3 DEF Held, TypeOK
<1>5. Len(stream) = Len(done) + Len(rest) + Len(net) + Len(toSend)
  BY <1>1, <1>4 DEF Amount
<1>6. \A i \in 1 .. Len(net) : net[i] = stream[Len(done) + Len(rest) + i]
  BY <1>1, <1>4 DEF InOrder, NetInOrder
<1>7. \A i \in 1 .. Len(toSend) :
        toSend[i] = stream[Len(done) + Len(rest) + Len(net) + i]
  <2>1. Len(done) + Len(rest) + Len(net) = Len(stream) - Len(toSend)
    BY <1>0, <1>2, <1>3, <1>5, LenProperties
  <2> QED  BY <1>1, <2>1 DEF InOrder, UnsentInOrder
<1>8. Begins(done, stream)
  BY <1>0, <1>2, <1>3, <1>5, LenProperties DEF Begins
<1>9. /\ done \o rest \in Seq(Units) /\ Len(done \o rest) = Len(done) + Len(rest)
      /\ Begins(done \o rest, stream)
  <2>1. Len(done) + Len(rest) <= Len(stream)
    BY <1>0, <1>2, <1>3, <1>5, LenProperties
  <2>2. \A i \in 1 .. Len(rest) : rest[i] = stream[Len(done) + i]
    BY <1>2, <1>3
  <2> QED  BY <1>0, <1>2, <1>3, <1>8, <2>1, <2>2, Follows
<1>10. /\ done \o rest \o net \in Seq(Units)
       /\ Len(done \o rest \o net) = Len(done) + Len(rest) + Len(net)
       /\ Begins(done \o rest \o net, stream)
  <2> DEFINE before == done \o rest
  <2>1. /\ before \in Seq(Units) /\ Begins(before, stream)
        /\ Len(before) = Len(done) + Len(rest) /\ Len(before) \in Nat
    BY <1>9, LenProperties
  <2> HIDE DEF before
  <2>2. Len(before) + Len(net) <= Len(stream)
    BY <1>0, <1>5, <2>1
  <2>3. \A i \in 1 .. Len(net) : net[i] = stream[Len(before) + i]
    BY <1>6, <2>1
  <2>4. /\ before \o net \in Seq(Units) /\ Len(before \o net) = Len(before) + Len(net)
        /\ Begins(before \o net, stream)
    BY <1>0, <2>1, <2>2, <2>3, Follows
  <2> QED  BY <2>1, <2>4 DEF before
<1>11. /\ done \o rest \o net \o toSend \in Seq(Units)
       /\ Len(done \o rest \o net \o toSend) = Len(stream)
       /\ Begins(done \o rest \o net \o toSend, stream)
  <2> DEFINE before == done \o rest \o net
  <2>1. /\ before \in Seq(Units) /\ Begins(before, stream)
        /\ Len(before) = Len(done) + Len(rest) + Len(net) /\ Len(before) \in Nat
    BY <1>10, LenProperties
  <2> HIDE DEF before
  <2>2. Len(before) + Len(toSend) = Len(stream)
    BY <1>5, <2>1
  <2>3. \A i \in 1 .. Len(toSend) : toSend[i] = stream[Len(before) + i]
    BY <1>7, <2>1
  <2>5. Len(before) + Len(toSend) <= Len(stream)
    BY <1>0, <2>2
  <2>4. /\ before \o toSend \in Seq(Units)
        /\ Len(before \o toSend) = Len(before) + Len(toSend)
        /\ Begins(before \o toSend, stream)
    BY <1>0, <2>1, <2>3, <2>5, Follows
  <2> QED  BY <2>2, <2>4 DEF before
<1>12. done \o rest \o net \o toSend = stream
  BY <1>0, <1>11, SeqEqual DEF Begins
<1> QED  BY <1>12 DEF done, rest
-----------------------------------------------------------------------------
(* The steps as ByteStream's.                                              *)

Sent == SubSeq(stream, 1, Len(stream) - Len(toSend))

(* What the client has sent is a beginning of its stream.                  *)
LEMMA SentProperties ==
  ASSUME IInv
  PROVE  /\ Len(stream) - Len(toSend) \in 0 .. Len(stream)
         /\ Sent \in Seq(Units)
         /\ Len(Sent) = Len(stream) - Len(toSend)
         /\ \A i \in 1 .. Len(Sent) : Sent[i] = stream[i]
<1>0. /\ stream \in Seq(Units) /\ Len(stream) \in Nat /\ Len(toSend) \in Nat
      /\ Len(net) \in Nat /\ Len(buffer) \in Nat /\ Len(log) \in Nat
  BY Lengths DEF IInv
<1>1. Len(stream) - Len(toSend) \in 0 .. Len(stream)
  BY <1>0 DEF IInv, TypeOK, Amount, Held
<1> QED  BY <1>0, <1>1, TakeProperties DEF Sent

(* What has been sent and not handled begins with what is in the buffer.   *)
LEMMA LeftProperties ==
  ASSUME IInv
  PROVE  /\ Len(buffer) - written <= Len(Stream!Left)
         /\ \A i \in 1 .. Len(buffer) - written :
              Stream!Left[i] = buffer[written + i]
         /\ Len(Stream!Left) \in Nat
<1>0. /\ stream \in Seq(Units) /\ Len(stream) \in Nat /\ Len(toSend) \in Nat
      /\ Len(net) \in Nat /\ Len(buffer) \in Nat /\ Len(log) \in Nat
  BY Lengths DEF IInv
<1>1. Stream!Left = Drop(Sent, Len(log))
  BY DEF Stream!Left, Drop, Sent
<1>2. /\ Sent \in Seq(Units) /\ Len(Sent) = Len(stream) - Len(toSend)
      /\ \A i \in 1 .. Len(Sent) : Sent[i] = stream[i]
  BY SentProperties
<1>3. written \in Nat /\ written <= Len(buffer)
  BY <1>0 DEF IInv, TypeOK
<1>4. Len(log) + (Len(buffer) - written) <= Len(Sent)
  BY <1>0, <1>2, <1>3 DEF IInv, Amount, Held
<1>5. Len(log) \in 0 .. Len(Sent)
  BY <1>0, <1>2, <1>3, <1>4
<1>6. /\ Len(Stream!Left) = Len(Sent) - Len(log)
      /\ \A i \in 1 .. Len(Sent) - Len(log) : Stream!Left[i] = Sent[Len(log) + i]
  BY <1>1, <1>2, <1>5, DropProperties
<1>7. Len(buffer) - written <= Len(Stream!Left) /\ Len(Stream!Left) \in Nat
  BY <1>0, <1>2, <1>3, <1>4, <1>5, <1>6
<1>8. ASSUME NEW i \in 1 .. Len(buffer) - written
      PROVE  Stream!Left[i] = buffer[written + i]
  <2>1. /\ i \in 1 .. Len(Sent) - Len(log) /\ Len(log) + i \in 1 .. Len(Sent)
        /\ written + i \in written + 1 .. Len(buffer)
    BY <1>0, <1>2, <1>3, <1>4
  <2>2. Stream!Left[i] = stream[Len(log) + i]
    BY <1>2, <1>6, <2>1
  <2>3. buffer[written + i] = stream[Len(log) - written + (written + i)]
    BY <2>1 DEF IInv, InOrder, BufferInOrder
  <2>4. Len(log) - written + (written + i) = Len(log) + i
    BY <1>0, <1>3
  <2> QED  BY <2>2, <2>3, <2>4
<1> QED  BY <1>7, <1>8

(* The history of a piece is that of ByteStream.                           *)
LEMMA FateIsHandled ==
  ASSUME NEW units \in Seq(Units), NEW fate, NEW n, Len(units) = n,
         \A i \in 1 .. n : units[i] = Stream!Left[i]
  PROVE  Fate(units, fate) =
           [i \in 1 .. n |-> [unit |-> Stream!Left[i], fate |-> fate]]
BY DEF Fate

(* The client's next unit.                                                 *)
LEMMA SendImplements ==
  ASSUME IInv, Send
  PROVE  Stream!Send
<1>0. /\ stream \in Seq(Units) /\ toSend \in Seq(Units) /\ Len(stream) \in Nat
      /\ Len(toSend) \in Nat
  BY Lengths DEF IInv
<1>1. client = "open" /\ client' = client /\ op' = op /\ log' = log /\ stream' = stream
  BY DEF Send, sessionVars
<1>2. Len(toSend') = Len(toSend) - 1 /\ Len(toSend) >= 1
  <2>1. toSend' \in Seq(Units) /\ Len(toSend') + 1 = Len(toSend)
    BY SendEffect DEF IInv
  <2>2. Len(toSend') \in Nat
    BY <2>1, LenProperties
  <2> QED  BY <1>0, <2>1, <2>2
<1>3. Len(toSend) \in 1 .. Len(toSend) /\ 1 \in 1 .. Len(toSend)
  BY <1>0, <1>2
<1>4. toSend[1] \in Units /\ toSend[1] = stream[Len(stream) - Len(toSend) + 1]
  BY <1>0, <1>3, ElementOfSeq DEF IInv, InOrder, UnsentInOrder
<1> DEFINE m == Len(stream) - Len(toSend)
<1>5. /\ m \in 0 .. Len(stream) /\ m + 1 \in 0 .. Len(stream)
      /\ Len(stream') - Len(toSend') = m + 1
  BY <1>0, <1>1, <1>2, SentProperties
<1>6. SubSeq(stream, 1, m + 1) = Append(Sent, toSend[1])
  <2>1. /\ Sent \in Seq(Units) /\ Len(Sent) = m /\ m \in Nat
        /\ \A i \in 1 .. m : Sent[i] = stream[i]
    BY <1>5, SentProperties
  <2>2. /\ Append(Sent, toSend[1]) \in Seq(Units)
        /\ Len(Append(Sent, toSend[1])) = m + 1
        /\ \A i \in 1 .. m : Append(Sent, toSend[1])[i] = Sent[i]
        /\ Append(Sent, toSend[1])[m + 1] = toSend[1]
    <3> HIDE DEF m
    <3> QED  BY <1>4, <2>1, AppendProperties
  <2>3. /\ SubSeq(stream, 1, m + 1) \in Seq(Units)
        /\ Len(SubSeq(stream, 1, m + 1)) = m + 1
        /\ \A i \in 1 .. m + 1 : SubSeq(stream, 1, m + 1)[i] = stream[i]
    BY <1>0, <1>5, TakeProperties
  <2>4. \A i \in 1 .. m + 1 : Append(Sent, toSend[1])[i] = stream[i]
    BY <1>4, <2>1, <2>2
  <2> HIDE DEF m
  <2> QED  BY <2>2, <2>3, <2>4, SeqEqual
<1>7. Sent' = Append(Sent, toSend[1])
  BY <1>1, <1>5, <1>6 DEF Sent
<1>8. Sent = SubSeq(stream, 1, Len(stream) - Len(toSend))
      /\ Sent' = SubSeq(stream', 1, Len(stream') - Len(toSend'))
  BY DEF Sent
<1>9. ~(client # "open") /\ UNCHANGED <<client # "open", op # "none", log>>
  BY <1>1
<1> QED  BY <1>4, <1>7, <1>8, <1>9 DEF Stream!Send

(* ReadHandler handles the piece that async_read_until found.              *)
LEMMA ReadImplements ==
  ASSUME IInv, ReadHandler
  PROVE  \E n \in 1 .. Len(Stream!Left) : Stream!Handle(n, "parsed")
<1> DEFINE n     == FirstEnd(buffer)
           piece == SubSeq(buffer, 1, n)
<1>0. Len(buffer) \in Nat /\ TypeOK /\ buffer \in Seq(Units)
  BY Lengths DEF IInv
<1>1. /\ op = "read" /\ op' = "write" /\ HasEnd(buffer) /\ written = 0
      /\ log' = log \o Fate(piece, "parsed")
      /\ UNCHANGED <<stream, toSend, client>>
  BY DEF ReadHandler, Running, DoWrite, IInv, WritesOnly
<1>2. /\ n \in 1 .. Len(buffer) /\ piece \in Seq(Units) /\ Len(piece) = n
      /\ \A i \in 1 .. n : piece[i] = buffer[i]
  BY <1>0, <1>1, PieceProperties
<1>3. IsEnd(buffer[n]) /\ \A i \in 1 .. n - 1 : ~IsEnd(buffer[i])
  BY <1>0, <1>1, FirstEndProperties
<1> HIDE DEF n
<1>4. /\ n \in 1 .. Len(Stream!Left)
      /\ \A i \in 1 .. n : Stream!Left[i] = buffer[i]
  <2>1. /\ Len(buffer) <= Len(Stream!Left) /\ Len(Stream!Left) \in Nat
        /\ \A i \in 1 .. Len(buffer) : Stream!Left[i] = buffer[i]
    BY <1>0, <1>1, LeftProperties, ElementOfSeq
  <2> QED  BY <1>0, <1>2, <2>1
<1>5. /\ Stream!Left[n] \in {u \in Units : IsEnd(u)}
      /\ \A i \in 1 .. n - 1 : Stream!Left[i] \notin {u \in Units : IsEnd(u)}
  <2>1. buffer[n] \in Units
    BY <1>0, <1>2, ElementOfSeq
  <2>2. n \in Nat /\ n \in 1 .. n
    BY <1>0, <1>2
  <2>3. \A i \in 1 .. n - 1 : Stream!Left[i] = buffer[i]
    BY <1>4, <2>2
  <2> QED  BY <1>3, <1>4, <2>1, <2>2, <2>3
<1>6. log' = log \o [i \in 1 .. n |-> [unit |-> Stream!Left[i], fate |-> "parsed"]]
  <2>1. \A i \in 1 .. n : piece[i] = Stream!Left[i]
    BY <1>2, <1>4
  <2>2. Fate(piece, "parsed") =
          [i \in 1 .. n |-> [unit |-> Stream!Left[i], fate |-> "parsed"]]
    BY <1>2, <2>1, FateIsHandled
  <2> QED  BY <1>1, <2>2
<1>7. UNCHANGED <<SubSeq(stream, 1, Len(stream) - Len(toSend)), client # "open",
                  op # "none">>
  BY <1>1
<1>8. Stream!Handle(n, "parsed")
  BY <1>1, <1>5, <1>6, <1>7 DEF Stream!Handle
<1> QED  BY <1>4, <1>8

(* A part of a write handles what it wrote.                                *)
LEMMA WriteImplements ==
  ASSUME IInv, WriteSome
  PROVE  \E n \in 1 .. Len(Stream!Left) : Stream!Handle(n, "echoed")
<1>0. Len(buffer) \in Nat /\ buffer \in Seq(Units)
  BY Lengths DEF IInv
<1>1. PICK n \in 1 .. Len(buffer) - written :
        log' = log \o Fate(SubSeq(buffer, written + 1, written + n), "echoed")
  BY DEF WriteSome
<1>2. op = "write" /\ UNCHANGED <<stream, toSend, client, op>>
  BY DEF WriteSome, Running
<1>3. written \in 0 .. Len(buffer) /\ n \in 0 .. Len(buffer) - written
  BY <1>0 DEF IInv, TypeOK
<1> DEFINE units == SubSeq(buffer, written + 1, written + n)
<1>4. /\ units \in Seq(Units) /\ Len(units) = n
      /\ \A i \in 1 .. n : units[i] = buffer[written + i]
  BY <1>0, <1>3, StretchProperties
<1>5. /\ n \in 1 .. Len(Stream!Left)
      /\ \A i \in 1 .. n : units[i] = Stream!Left[i]
  <2>1. \A i \in 1 .. n : i \in 1 .. Len(buffer) - written
    BY <1>0, <1>3
  <2>2. Len(buffer) - written <= Len(Stream!Left) /\ Len(Stream!Left) \in Nat
    BY LeftProperties
  <2> QED  BY <1>0, <1>3, <1>4, <2>1, <2>2, LeftProperties
<1>6. log' = log \o [i \in 1 .. n |-> [unit |-> Stream!Left[i], fate |-> "echoed"]]
  <2> HIDE DEF units
  <2>1. \A i \in 1 .. n : units[i] = Stream!Left[i]
    BY <1>5
  <2>2. Fate(units, "echoed") = [i \in 1 .. n |-> [unit |-> Stream!Left[i], fate |-> "echoed"]]
    BY <1>4, <2>1, FateIsHandled
  <2> QED  BY <1>1, <2>2 DEF units
<1>7. UNCHANGED <<SubSeq(stream, 1, Len(stream) - Len(toSend)), client # "open",
                  op # "none">>
  BY <1>2
<1>8. Stream!Handle(n, "echoed")
  BY <1>2, <1>6, <1>7 DEF Stream!Handle
<1> QED  BY <1>5, <1>8

-----------------------------------------------------------------------------
(* A client that waits.                                                    *)

(* It is ahead of the session by one head at most, the session has handled *)
(* whole heads, and nothing is left to be written back.                    *)
HeadAhead ==
  Paced =>
    /\ Len(log) = 2 * Len(answers)
    /\ Len(stream) - Len(toSend) <= Len(log) + 2
    /\ op = "write" => buffer = <<>>
PInv == IInv /\ PacedIntact /\ HeadAhead

LEMMA Counts ==
  ASSUME IInv
  PROVE  /\ Len(stream) \in Nat /\ Len(toSend) \in Nat /\ Len(log) \in Nat
         /\ Len(buffer) \in Nat /\ Len(net) \in Nat /\ Len(answers) \in Nat
         /\ written \in Nat
BY Lengths, LenProperties DEF IInv, TypeOK

(* Which units of a stream of heads are starts and which are ends.         *)
LEMMA HeadAt ==
  ASSUME IInv, Paced, NEW a \in Nat, 2 * a + 1 <= Len(stream)
  PROVE  /\ 2 * a + 2 <= Len(stream)
         /\ stream[2 * a + 1].part = "start"
         /\ stream[2 * a + 2] = [part |-> "end", kind |-> stream[2 * a + 1].kind]
<1>1. PICK n \in 0 .. Len(stream) :
        /\ Len(stream) = 2 * n
        /\ \A k \in 1 .. n :
             /\ stream[2 * k - 1].part = "start"
             /\ stream[2 * k] = [part |-> "end", kind |-> stream[2 * k - 1].kind]
  BY DEF Paced, OnlyHeads
<1>2. Len(stream) \in Nat
  BY Counts
<1>3. a + 1 \in 1 .. n /\ 2 * a + 2 <= Len(stream)
  BY <1>1, <1>2
<1>4. 2 * (a + 1) - 1 = 2 * a + 1 /\ 2 * (a + 1) = 2 * a + 2
  OBVIOUS
<1>5. /\ stream[2 * (a + 1) - 1].part = "start"
      /\ stream[2 * (a + 1)] = [part |-> "end", kind |-> stream[2 * (a + 1) - 1].kind]
  BY <1>1, <1>3
<1> QED  BY <1>3, <1>4, <1>5

(* It starts a head only when the one before is handled.                   *)
LEMMA PacedSend ==
  ASSUME PInv, Paced, Send
  PROVE  Len(stream) - Len(toSend') <= Len(log) + 2
<1> DEFINE a    == Len(answers)
           sent == Len(stream) - Len(toSend)
<1>0. IInv /\ TypeOK
  BY DEF PInv, IInv
<1>1. /\ Len(stream) \in Nat /\ Len(toSend) \in Nat /\ Len(log) \in Nat
      /\ Len(buffer) \in Nat /\ Len(net) \in Nat /\ a \in Nat /\ written \in Nat
  BY <1>0, Counts
<1>2. Len(toSend') + 1 = Len(toSend) /\ toSend' \in Seq(Units)
  BY <1>0, SendEffect
<1>3. Len(toSend') \in Nat /\ Len(toSend) >= 1
  BY <1>1, <1>2, LenProperties
<1>4. Len(log) = 2 * a /\ sent <= 2 * a + 2 /\ 2 * a <= sent
  <2>1. Len(log) = 2 * a /\ sent <= Len(log) + 2
    BY DEF PInv, HeadAhead
  <2>2. written <= Len(buffer) /\ Held + Len(net) + Len(toSend) <= Len(stream)
    BY <1>0, <1>1 DEF IInv, TypeOK, Amount
  <2> QED  BY <1>1, <2>1, <2>2 DEF Held
<1>5. CASE sent = Len(log)
  BY <1>1, <1>2, <1>3, <1>5
<1>6. CASE sent # Len(log)
  <2>1. Head(toSend) = toSend[1] /\ toSend[1] = stream[sent + 1]
    <3>1. toSend # <<>> /\ Head(toSend) = toSend[1]
      BY DEF Send
    <3>2. 1 \in 1 .. Len(toSend)
      BY <1>1, <1>3
    <3>3. toSend[1] = stream[Len(stream) - Len(toSend) + 1]
      BY <1>0, <3>2 DEF IInv, InOrder, UnsentInOrder
    <3> QED  BY <3>1, <3>3
  <2>2. stream[sent + 1].part # "start"
    <3>1. Head(toSend).part # "start"
      BY <1>1, <1>6 DEF Send, MaySend, Paced
    <3> QED  BY <2>1, <3>1
  <2>3. sent # 2 * a + 2
    <3>1. SUFFICES ASSUME sent = 2 * a + 2 PROVE FALSE
      OBVIOUS
    <3>2. a + 1 \in Nat /\ 2 * (a + 1) + 1 = sent + 1 /\ sent + 1 <= Len(stream)
      BY <1>1, <1>3, <3>1
    <3>3. stream[2 * (a + 1) + 1].part = "start"
      BY <1>0, <3>2, HeadAt
    <3> QED  BY <2>2, <3>2, <3>3
  <2> QED  BY <1>1, <1>2, <1>3, <1>4, <2>3
<1> QED  BY <1>5, <1>6

(* What is read up to an end is the next head, and all there is.           *)
LEMMA PacedPiece ==
  ASSUME PInv, Paced, Running("read"), HasEnd(buffer)
  PROVE  /\ FirstEnd(buffer) = 2 /\ Len(buffer) = 2
         /\ Outcome(SubSeq(buffer, 1, FirstEnd(buffer))) = OutcomeOfHead(Len(answers) + 1)
<1> DEFINE a     == Len(answers)
           bytes == FirstEnd(buffer)
           piece == SubSeq(buffer, 1, bytes)
<1>0. IInv /\ TypeOK /\ written = 0
  BY DEF PInv, IInv, WritesOnly, Running
<1>1. /\ Len(stream) \in Nat /\ Len(toSend) \in Nat /\ Len(log) \in Nat
      /\ Len(buffer) \in Nat /\ Len(net) \in Nat /\ a \in Nat
  BY <1>0, Counts
<1>2. /\ bytes \in 1 .. Len(buffer) /\ Len(piece) = bytes
      /\ \A i \in 1 .. bytes : piece[i] = buffer[i]
  BY <1>0, PieceProperties
<1>3. IsEnd(buffer[bytes])
  BY <1>0, FirstEndProperties, Lengths
<1> HIDE DEF bytes, piece, a
<1>4. Len(log) = 2 * a /\ Len(buffer) <= 2 /\ 2 * a + Len(buffer) <= Len(stream)
  <2>1. Len(log) = 2 * a /\ Len(stream) - Len(toSend) <= Len(log) + 2
    BY DEF PInv, HeadAhead, a
  <2>2. Len(log) + Len(buffer) - 0 + Len(net) + Len(toSend) <= Len(stream)
    BY <1>0 DEF IInv, Amount, Held
  <2> QED  BY <1>1, <2>1, <2>2
<1>5. \A i \in 1 .. Len(buffer) : buffer[i] = stream[2 * a + i]
  <2>1. ASSUME NEW i \in 1 .. Len(buffer)
        PROVE  buffer[i] = stream[2 * a + i]
    <3>1. i \in written + 1 .. Len(buffer)
      BY <1>0
    <3>2. buffer[i] = stream[Len(log) - written + i]
      BY <1>0, <3>1 DEF IInv, InOrder, BufferInOrder
    <3>3. Len(log) - written + i = 2 * a + i
      BY <1>0, <1>1, <1>4
    <3> QED  BY <3>2, <3>3
  <2> QED  BY <2>1
<1>6. /\ stream[2 * a + 1].part = "start"
      /\ stream[2 * a + 2] = [part |-> "end", kind |-> stream[2 * a + 1].kind]
  <2>1. 2 * a + 1 <= Len(stream)
    BY <1>1, <1>2, <1>4
  <2> QED  BY <1>0, <1>1, <2>1, HeadAt
<1>7. 1 \in 1 .. Len(buffer) /\ buffer[1] = stream[2 * a + 1]
  BY <1>1, <1>2, <1>5
<1>8. bytes # 1
  BY <1>3, <1>6, <1>7 DEF IsEnd
<1>9. bytes = 2 /\ Len(buffer) = 2
  <2>1. \A b, l \in Nat : b \in 1 .. l /\ l <= 2 /\ b # 1 => b = 2 /\ l = 2
    OBVIOUS
  <2>2. bytes \in 1 .. Len(buffer)
    BY <1>2
  <2>3. bytes \in Nat
    BY <1>1, <2>2
  <2> QED  BY <1>1, <1>4, <1>8, <2>1, <2>2, <2>3
<1>10. piece[1] = stream[2 * a + 1] /\ piece[2] = stream[2 * a + 2]
  BY <1>2, <1>5, <1>9
<1>11. IsHead(piece)
  BY <1>2, <1>6, <1>9, <1>10 DEF IsHead
<1>12. Outcome(piece) = OutcomeOf[stream[2 * a + 1].kind]
  BY <1>10, <1>11 DEF Outcome
<1>13. stream[2 * a + 2].kind = stream[2 * a + 1].kind /\ 2 * (a + 1) = 2 * a + 2
  BY <1>1, <1>6
<1>14. Outcome(piece) = OutcomeOfHead(a + 1)
  BY <1>12, <1>13 DEF OutcomeOfHead
<1> QED  BY <1>9, <1>14 DEF bytes, piece, a

LEMMA PacedRead ==
  ASSUME PInv, Paced, ReadHandler
  PROVE  PacedIntact' /\ HeadAhead'
<1> DEFINE a == Len(answers)
<1>0. IInv /\ TypeOK
  BY DEF PInv, IInv
<1>1. PICK bytes \in Nat, piece \in Seq(Units) :
        /\ bytes = 2 /\ Len(buffer) = 2 /\ Len(piece) = 2
        /\ Outcome(piece) = OutcomeOfHead(a + 1) /\ Outcome(piece) \in Outcomes
        /\ log' = log \o Fate(piece, "parsed")
        /\ answers' = Append(answers, Outcome(piece))
        /\ buffer' = Drop(buffer, bytes)
  <2>1. Running("read") /\ HasEnd(buffer)
    BY DEF ReadHandler
  <2>2. /\ FirstEnd(buffer) = 2 /\ Len(buffer) = 2
        /\ Outcome(SubSeq(buffer, 1, FirstEnd(buffer))) = OutcomeOfHead(a + 1)
    BY <2>1, PacedPiece
  <2>3. /\ SubSeq(buffer, 1, FirstEnd(buffer)) \in Seq(Units)
        /\ Len(SubSeq(buffer, 1, FirstEnd(buffer))) = FirstEnd(buffer)
    BY <1>0, <2>1, PieceProperties
  <2>4. Outcome(SubSeq(buffer, 1, FirstEnd(buffer))) \in Outcomes
    BY <2>3, OutcomeType
  <2> QED  BY <2>2, <2>3, <2>4 DEF ReadHandler, DoWrite
<1>2. UNCHANGED <<stream, pipelines, toSend, process>> /\ process = "up"
  BY DEF ReadHandler, Running
<1>3. /\ Len(log') = Len(log) + 2 /\ Len(log) \in Nat
      /\ \A i \in 1 .. Len(log) : log'[i] = log[i]
      /\ \A i \in 1 .. 2 : log'[Len(log) + i].fate = "parsed"
  <2>1. "parsed" \in Fates
    BY DEF Fates
  <2>2. /\ Len(log') = Len(log) + Len(piece)
        /\ \A i \in 1 .. Len(log) : log'[i] = log[i]
        /\ \A i \in 1 .. Len(piece) : log'[Len(log) + i].fate = "parsed"
    BY <1>0, <1>1, <2>1, LogEffect
  <2>3. Len(log) \in Nat /\ Len(piece) = 2
    BY <1>0, <1>1, Counts
  <2> QED  BY <2>2, <2>3
<1>4. /\ Len(answers') = a + 1 /\ a \in Nat
      /\ \A k \in 1 .. a : answers'[k] = answers[k]
      /\ answers'[a + 1] = OutcomeOfHead(a + 1)
  <2>1. answers \in Seq(Outcomes)
    BY <1>0 DEF TypeOK
  <2>2. Len(answers) \in Nat
    BY <2>1, LenProperties
  <2> QED  BY <1>1, <2>1, <2>2, AppendProperties
<1>5. buffer' = <<>>
  BY <1>0, <1>1, Lengths, SubSeqEmpty DEF Drop
<1>6. \A i \in 1 .. Len(log') : log'[i].fate = "parsed"
  <2> SUFFICES ASSUME NEW i \in 1 .. Len(log')
               PROVE  log'[i].fate = "parsed"
    OBVIOUS
  <2>1. CASE i \in 1 .. Len(log)
    BY <1>3, <2>1 DEF PInv, PacedIntact
  <2>2. CASE i > Len(log)
    <3>1. i - Len(log) \in 1 .. 2 /\ i = Len(log) + (i - Len(log))
      BY <1>3, <2>2
    <3> QED  BY <1>3, <3>1
  <2> QED  BY <1>3, <2>1, <2>2
<1>7. \A k \in 1 .. Len(answers') : answers'[k] = OutcomeOfHead(k)'
  <2>1. \A k : OutcomeOfHead(k)' = OutcomeOfHead(k)
    BY <1>2 DEF OutcomeOfHead
  <2> SUFFICES ASSUME NEW k \in 1 .. Len(answers')
               PROVE  answers'[k] = OutcomeOfHead(k)
    BY <2>1
  <2>2. CASE k \in 1 .. a
    BY <1>4, <2>2 DEF PInv, PacedIntact
  <2>3. CASE k = a + 1
    BY <1>4, <2>3
  <2> QED  BY <1>4, <2>2, <2>3
<1>8. PacedIntact'
  <2>1. process' # "terminated"
    BY <1>2
  <2> QED  BY <1>6, <1>7, <2>1 DEF PacedIntact
<1>9. HeadAhead'
  <2>1. Len(log) = 2 * a /\ Len(stream) - Len(toSend) <= Len(log) + 2
    BY DEF PInv, HeadAhead
  <2>2. Len(stream) \in Nat /\ Len(toSend) \in Nat
    BY <1>0, Counts
  <2>3. Len(log') = 2 * Len(answers') /\ Len(stream') - Len(toSend') <= Len(log') + 2
    BY <1>2, <1>3, <1>4, <2>1, <2>2
  <2> QED  BY <1>5, <2>3 DEF HeadAhead
<1> QED  BY <1>8, <1>9

LEMMA PacedStep ==
  ASSUME PInv, [Next]_vars
  PROVE  PacedIntact' /\ HeadAhead'
<1>0. IInv /\ TypeOK
  BY DEF PInv, IInv
<1>1. Paced' = Paced
  BY DEF Next, Client, Server, Send, Close, Reset, Receive, ReadHandler,
         ReadHandlerTerminates, ReadError, WriteSome, WriteHandler, WriteError,
         sessionVars, vars, Paced
<1>2. CASE ~Paced
  BY <1>1, <1>2 DEF PacedIntact, HeadAhead
<1>3. ASSUME Paced, UNCHANGED <<stream, toSend, process, log, answers>>,
             op' = "write" => op = "write" /\ buffer' = buffer
      PROVE  PacedIntact' /\ HeadAhead'
  <2>1. \A k : OutcomeOfHead(k)' = OutcomeOfHead(k)
    BY <1>3 DEF OutcomeOfHead
  <2>2. PacedIntact'
    BY <1>3, <2>1 DEF PInv, PacedIntact
  <2>3. HeadAhead'
    BY <1>3 DEF PInv, HeadAhead
  <2> QED  BY <2>2, <2>3
<1>4. CASE Paced /\ Send
  <2>1. UNCHANGED <<stream, process, log, answers, op, buffer>>
    BY <1>4 DEF Send, sessionVars
  <2>2. \A k : OutcomeOfHead(k)' = OutcomeOfHead(k)
    BY <2>1 DEF OutcomeOfHead
  <2>3. PacedIntact'
    BY <1>4, <2>1, <2>2 DEF PInv, PacedIntact
  <2>4. Len(stream) - Len(toSend') <= Len(log) + 2
    BY <1>4, PacedSend
  <2> QED  BY <1>4, <2>1, <2>3, <2>4 DEF PInv, HeadAhead
<1>5. CASE Paced /\ ReadHandler
  BY <1>5, PacedRead
<1>6. CASE Paced /\ ReadHandlerTerminates
  <2>1. /\ Running("read") /\ HasEnd(buffer) /\ UNCHANGED <<stream, toSend, log, answers>>
        /\ Outcome(SubSeq(buffer, 1, FirstEnd(buffer))) # "request"
        /\ op' = "read"
    BY <1>6 DEF ReadHandlerTerminates, Running
  <2>2. OutcomeOfHead(Len(answers) + 1) # "request"
    BY <1>6, <2>1, PacedPiece
  <2>3. \A k : OutcomeOfHead(k)' = OutcomeOfHead(k)
    BY <2>1 DEF OutcomeOfHead
  <2>4. PacedIntact'
    BY <1>6, <2>1, <2>2, <2>3 DEF PInv, PacedIntact
  <2>5. HeadAhead'
    BY <1>6, <2>1 DEF PInv, HeadAhead
  <2> QED  BY <2>4, <2>5
<1>7. CASE Paced /\ Receive
  BY <1>3, <1>7 DEF Receive, Running
<1>8. CASE Paced /\ (Close \/ Reset)
  BY <1>3, <1>8 DEF Close, Reset, sessionVars
<1>9. CASE Paced /\ (ReadError \/ WriteHandler)
  BY <1>3, <1>9 DEF ReadError, WriteHandler
<1>10. CASE Paced /\ (WriteSome \/ WriteError)
  <2>1. op = "write"
    BY <1>10 DEF WriteSome, WriteError, Running
  <2>2. Len(buffer) = 0
    BY <1>10, <2>1 DEF PInv, HeadAhead
  <2>3. written \in Nat
    BY <1>0, Counts
  <2>4. CASE WriteSome
    <3>1. PICK n \in 1 .. Len(buffer) - written : TRUE
      BY <2>4 DEF WriteSome
    <3> QED  BY <2>2, <2>3, <3>1
  <2>5. CASE WriteError
    BY <2>2, <2>3, <2>5 DEF WriteError
  <2> QED  BY <1>10, <2>4, <2>5
<1>11. CASE Paced /\ UNCHANGED vars
  BY <1>3, <1>11 DEF vars
<1> QED
  BY <1>2, <1>4, <1>5, <1>6, <1>7, <1>8, <1>9, <1>10, <1>11 DEF Next, Client, Server
-----------------------------------------------------------------------------
(* Theorems.                                                               *)

(* Every part of the connection always holds its own stretch of what the   *)
(* client sends.                                                           *)
THEOREM Inductive == Spec => []IInv
<1>1. IInv /\ [Next]_vars => IInv'
  BY IInvStep, StutterInvariant
<1> QED  BY <1>1, InitInvariant, PTL DEF Spec

(* The types of the session's state, for every stream and every cut of it. *)
THEOREM TypeCorrect == Spec => []TypeOK
<1>1. IInv => TypeOK
  BY DEF IInv
<1> QED  BY <1>1, Inductive, PTL

(* A read is started on an empty buffer: WriteHandler's second consume     *)
(* takes nothing that has yet to be parsed.                                *)
THEOREM FreshReads == Spec => FreshRead
<1>1. IInv /\ [Next]_vars => [op = "write" /\ op' = "read" => buffer' = <<>>]_vars
  <2> SUFFICES ASSUME IInv, Next, op = "write", op' = "read"
               PROVE  buffer' = <<>>
    BY DEF vars
  <2>1. WriteHandler
    BY DEF Next, Client, Server, Running, Send, Close, Reset, Receive, ReadHandler,
           DoWrite, ReadHandlerTerminates, ReadError, WriteSome, WriteError,
           sessionVars
  <2> QED  BY <2>1, WrittenAll DEF IInv
<1> QED  BY <1>1, Inductive, PTL DEF Spec, FreshRead

(* However TCP cuts the stream, however the reads and writes are split and *)
(* whatever consume is told, each byte the client sent is in one place: it *)
(* was handled, or it is in the buffer, in the socket or still unsent.     *)
THEOREM Conserved == Spec => []Conservation
<1>1. IInv => Conservation
  BY Together
<1> QED  BY <1>1, Inductive, PTL

(* The session keeps ByteStream's promise: the client's steps are its Send *)
(* and Leave, a handler and each part of a write its Handle, an error of a *)
(* read or a write its End, and the others change nothing it knows of.     *)
THEOREM Refinement == Spec => Implements
<1>1. Init => Stream!Init
  <2> SUFFICES ASSUME Init
               PROVE  Stream!Init
    OBVIOUS
  <2>1. toSend = stream /\ client = "open" /\ op = "read" /\ log = <<>>
    BY DEF Init
  <2>2. SubSeq(stream, 1, Len(stream) - Len(toSend)) = <<>>
    <3>1. stream \in Seq(Units) /\ Len(stream) \in Nat
      BY SessionAssumption, LenProperties DEF Init
    <3>2. Len(stream) - Len(toSend) = 0
      BY <2>1, <3>1
    <3> QED  BY <3>1, <3>2, SubSeqEmpty
  <2>3. (client # "open") = FALSE /\ (op # "none") = TRUE
    BY <2>1
  <2> QED  BY <2>1, <2>2, <2>3 DEF Stream!Init
<1>2. IInv /\ [Next]_vars => [Stream!Next]_(Stream!vars)
  <2> SUFFICES ASSUME IInv, [Next]_vars
               PROVE  [Stream!Next]_(Stream!vars)
    OBVIOUS
  <2>1. CASE Send
    BY <2>1, SendImplements DEF Stream!Next
  <2>2. CASE Close
    BY <2>2 DEF Close, sessionVars, Stream!Next, Stream!Leave
  <2>3. CASE Reset
    <3>1. client # "reset" /\ client' = "reset"
          /\ UNCHANGED <<stream, toSend, op, log>>
      BY <2>3 DEF Reset, sessionVars
    <3>2. CASE client = "open"
      BY <3>1, <3>2 DEF Stream!Next, Stream!Leave
    <3>3. CASE client # "open"
      BY <3>1, <3>3 DEF Stream!vars
    <3> QED  BY <3>2, <3>3
  <2>4. CASE Receive
    BY <2>4 DEF Receive, Stream!vars
  <2>5. CASE ReadHandler
    BY <2>5, ReadImplements DEF Stream!Next, Stream!Fates
  <2>6. CASE ReadHandlerTerminates
    BY <2>6 DEF ReadHandlerTerminates, Stream!vars
  <2>7. CASE ReadError
    BY <2>7 DEF ReadError, Running, Stream!Next, Stream!End
  <2>8. CASE WriteSome
    BY <2>8, WriteImplements DEF Stream!Next, Stream!Fates
  <2>9. CASE WriteHandler
    <3>1. op = "write" /\ op' = "read" /\ UNCHANGED <<stream, toSend, client, log>>
      BY <2>9 DEF WriteHandler, Running
    <3> QED  BY <3>1 DEF Stream!vars
  <2>10. CASE WriteError
    BY <2>10 DEF WriteError, Running, Stream!Next, Stream!End
  <2>11. CASE UNCHANGED vars
    BY <2>11 DEF vars, Stream!vars
  <2> QED
    BY <2>1, <2>2, <2>3, <2>4, <2>5, <2>6, <2>7, <2>8, <2>9, <2>10, <2>11
    DEF Next, Client, Server
<1> QED  BY <1>1, <1>2, Inductive, PTL DEF Spec, Implements, Stream!Spec

(* A client without bodies that lets each head be read first gets all of   *)
(* them parsed whole and in order, however TCP cuts them: what DoWrite     *)
(* finds in the buffer is nothing.                                         *)
THEOREM PacedHeadsIntact == Spec => []PacedIntact
<1>1. Init => PInv
  <2> SUFFICES ASSUME Init
               PROVE  PInv
    OBVIOUS
  <2>1. /\ log = <<>> /\ answers = <<>> /\ toSend = stream /\ op = "read"
        /\ process = "up" /\ Len(<<>>) = 0
    BY EmptySeq DEF Init
  <2>2. IInv
    BY InitInvariant
  <2>3. PacedIntact
    BY <2>1 DEF PacedIntact
  <2>4. HeadAhead
    <3>1. Len(stream) \in Nat
      BY <2>2, Counts
    <3> QED  BY <2>1, <3>1 DEF HeadAhead
  <2> QED  BY <2>2, <2>3, <2>4 DEF PInv
<1>2. PInv /\ [Next]_vars => PInv'
  <2>1. IInv /\ [Next]_vars => IInv'
    BY IInvStep, StutterInvariant
  <2> QED  BY <2>1, PacedStep DEF PInv
<1>3. PInv => PacedIntact
  BY DEF PInv
<1> QED  BY <1>1, <1>2, <1>3, PTL DEF Spec
=============================================================================
