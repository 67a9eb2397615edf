------------------------------- MODULE Session -------------------------------
(***************************************************************************)
(* One camille::network::Session (include/camille/network.h): the chain of *)
(* asynchronous reads and writes on one accepted socket, from Start to the *)
(* error that lets the last shared_ptr go.  The buffer, the operation in   *)
(* flight, what RequestHandler::Parse makes of each piece and the client's *)
(* end of the connection are modelled; the socket's receive queue is TCP's,*)
(* cut into segments anywhere.                                             *)
(*                                                                         *)
(* The byte stream is a sequence of units.  A request head is two, its     *)
(* start and its end, and the end closes with the "\r\n\r\n" that          *)
(* async_read_until looks for; a body unit holds no such thing.            *)
(***************************************************************************)
EXTENDS Naturals, Sequences

CONSTANTS
  Kinds,        (* Kinds of request head.                                  *)
  OutcomeOf,    (* What RequestHandler::Parse makes of a whole head.       *)
  Streams       (* What a client may want to send.                         *)

Outcomes == {"request", "nullopt", "throws"}
Heads    == [part : {"start", "end"}, kind : Kinds]
Body     == [part |-> "body"]
Units    == Heads \cup {Body}

ASSUME SessionAssumption ==
  /\ OutcomeOf \in [Kinds -> Outcomes]
  /\ Streams \subseteq Seq(Units)

VARIABLES
  stream,    (* all the client wants to send                               *)
  pipelines, (* whether it sends a head before the one before is read      *)
  toSend,    (* what of it the client has not sent                         *)
  client,    (* the client's end: open, closed (FIN), reset (RST)          *)
  net,       (* sent and not read by the session's socket                  *)
  buffer,    (* stream_buffer_                                             *)
  op,        (* the asynchronous operation in flight, if the session lives *)
  written,   (* how much of the buffer async_write has sent                *)
  toConsume, (* WriteHandler's to_consume                                  *)
  process,   (* the process, which an exception in a handler terminates    *)
  log,       (* history: what became of each unit, in order                *)
  answers    (* history: what Parse made of each piece                     *)

vars == <<stream, pipelines, toSend, client, net, buffer, op, written,
          toConsume, process, log, answers>>

Drop(s, n)  == SubSeq(s, n + 1, Len(s))
AtMost(m, n) == IF m < n THEN m ELSE n
IsEnd(u)    == u.part = "end"
HasEnd(s)   == \E i \in 1 .. Len(s) : IsEnd(s[i])

(* async_read_until's bytes: up to and with the first terminator.          *)
FirstEnd(s) ==
  CHOOSE i \in 1 .. Len(s) : IsEnd(s[i]) /\ \A j \in 1 .. i - 1 : ~IsEnd(s[j])

(* A piece that is not exactly one head begins with the rest of a head or  *)
(* with a body; ParseMethod refuses it.                                    *)
IsHead(piece) ==
  /\ Len(piece) = 2
  /\ piece[1].part = "start"
  /\ piece[2] = [part |-> "end", kind |-> piece[1].kind]
Outcome(piece) == IF IsHead(piece) THEN OutcomeOf[piece[1].kind] ELSE "nullopt"

Fate(units, fate) == [i \in 1 .. Len(units) |-> [unit |-> units[i], fate |-> fate]]

Init ==
  /\ stream \in Streams
  /\ pipelines \in BOOLEAN
  /\ toSend = stream
  /\ client = "open"
  /\ net = <<>>
  /\ buffer = <<>>
  /\ op = "read"          \* Start calls DoRead
  /\ written = 0
  /\ toConsume = 0
  /\ process = "up"
  /\ log = <<>>
  /\ answers = <<>>
-----------------------------------------------------------------------------
(* The client, which reads what the session writes.                        *)

sessionVars == <<stream, pipelines, buffer, op, written, toConsume, process,
                 log, answers>>

(* A client that does not pipeline lets all it sent be read first.         *)
MaySend ==
  Head(toSend).part = "start" => pipelines \/ Len(log) + Len(toSend) = Len(stream)

Send ==
  /\ client = "open" /\ process = "up"
  /\ toSend # <<>> /\ MaySend
  /\ net' = Append(net, Head(toSend))
  /\ toSend' = Tail(toSend)
  /\ UNCHANGED <<client, sessionVars>>

Close ==
  /\ client = "open"
  /\ client' = "closed"
  /\ UNCHANGED <<toSend, net, sessionVars>>

Reset ==
  /\ client # "reset"
  /\ client' = "reset"
  /\ net' = <<>>
  /\ UNCHANGED <<toSend, sessionVars>>
-----------------------------------------------------------------------------
(* The session.                                                            *)

Running(o) == process = "up" /\ op = o

(* async_read_some within async_read_until: any part of what has arrived.  *)
Receive ==
  /\ Running("read") /\ ~HasEnd(buffer)
  /\ \E n \in 1 .. Len(net) :
       /\ buffer' = buffer \o SubSeq(net, 1, n)
       /\ net' = Drop(net, n)
  /\ UNCHANGED <<stream, pipelines, toSend, client, op, written, toConsume,
                 process, log, answers>>

MutDoWrite(bytes) ==      \* the echo begins with the piece just consumed
  /\ op' = "write"
  /\ written' = 0
  /\ toConsume' = bytes
  /\ buffer' = buffer
MutWritten(bytes) ==      \* the write resumes after as many bytes as were read
  /\ op' = "write"
  /\ written' = bytes
  /\ toConsume' = bytes
  /\ buffer' = Drop(buffer, bytes)
(* consume(bytes), then DoWrite(bytes): async_write sends all that is left.*)
DoWrite(bytes) ==
  /\ op' = "write"
  /\ written' = 0
  /\ toConsume' = bytes
  /\ buffer' = Drop(buffer, bytes)

MutReadHandler ==         \* returns when there is no request
  /\ Running("read") /\ HasEnd(buffer)
  /\ LET bytes == FirstEnd(buffer)
         piece == SubSeq(buffer, 1, bytes)
     IN  /\ Outcome(piece) # "throws"
         /\ log' = log \o Fate(piece, "parsed")
         /\ answers' = Append(answers, Outcome(piece))
         /\ IF Outcome(piece) = "request" THEN DoWrite(bytes)
            ELSE op' = "none" /\ UNCHANGED <<buffer, written, toConsume>>
  /\ UNCHANGED <<stream, pipelines, toSend, client, net, process>>
(* ReadHandler without an error.  request->PrintRequest() on an empty      *)
(* optional is undefined: here it does no harm.                            *)
ReadHandler ==
  /\ Running("read") /\ HasEnd(buffer)
  /\ LET bytes == FirstEnd(buffer)
         piece == SubSeq(buffer, 1, bytes)
     IN  /\ Outcome(piece) # "throws"
         /\ log' = log \o Fate(piece, "parsed")
         /\ answers' = Append(answers, Outcome(piece))
         /\ DoWrite(bytes)
  /\ UNCHANGED <<stream, pipelines, toSend, client, net, process>>

(* ReadHandler that takes the process down: Parse throws, or the empty     *)
(* optional is read to that effect.                                        *)
ReadHandlerTerminates ==
  /\ Running("read") /\ HasEnd(buffer)
  /\ Outcome(SubSeq(buffer, 1, FirstEnd(buffer))) # "request"
  /\ process' = "terminated"
  /\ UNCHANGED <<stream, pipelines, toSend, client, net, buffer, op, written,
                 toConsume, log, answers>>

MutReadError ==           \* reads again after every error but eof
  /\ Running("read") /\ ~HasEnd(buffer)
  /\ net = <<>> /\ client = "closed"
  /\ op' = "none"
  /\ UNCHANGED <<stream, pipelines, toSend, client, net, buffer, written,
                 toConsume, process, log, answers>>
(* ReadHandler with eof or another error: no operation is started again.   *)
ReadError ==
  /\ Running("read") /\ ~HasEnd(buffer)
  /\ net = <<>> /\ client # "open"
  /\ op' = "none"
  /\ UNCHANGED <<stream, pipelines, toSend, client, net, buffer, written,
                 toConsume, process, log, answers>>

WriteSome ==
  /\ Running("write") /\ client # "reset"
  /\ \E n \in 1 .. Len(buffer) - written :
       /\ log' = log \o Fate(SubSeq(buffer, written + 1, written + n), "echoed")
       /\ written' = written + n
  /\ UNCHANGED <<stream, pipelines, toSend, client, net, buffer, op, toConsume,
                 process, answers>>

MutWriteHandler ==        \* only to_consume leaves the buffer
  /\ Running("write") /\ written = Len(buffer)
  /\ buffer' = Drop(buffer, AtMost(toConsume, written))
  /\ op' = "read"
  /\ written' = 0
  /\ toConsume' = 0
  /\ UNCHANGED <<stream, pipelines, toSend, client, net, process, log, answers>>
MutWriteEnds ==           \* an empty write is taken for the end
  /\ Running("write") /\ written = Len(buffer)
  /\ buffer' = <<>>
  /\ op' = IF written = 0 THEN "none" ELSE "read"
  /\ written' = 0
  /\ toConsume' = 0
  /\ UNCHANGED <<stream, pipelines, toSend, client, net, process, log, answers>>
(* async_write consumes what it wrote and calls WriteHandler, whose own    *)
(* consume finds what is left; an empty write succeeds at once.            *)
WriteHandler ==
  LET left == Drop(buffer, written)
  IN  /\ Running("write") /\ written = Len(buffer)
      /\ buffer' = Drop(left, AtMost(toConsume, Len(left)))
      /\ op' = "read"
      /\ written' = 0
      /\ toConsume' = 0
      /\ UNCHANGED <<stream, pipelines, toSend, client, net, process, log,
                     answers>>

WriteError ==
  /\ Running("write") /\ written < Len(buffer)
  /\ client = "reset"
  /\ buffer' = Drop(buffer, written)
  /\ op' = "none"
  /\ written' = 0
  /\ toConsume' = 0
  /\ UNCHANGED <<stream, pipelines, toSend, client, net, process, log, answers>>

Client == Send \/ Close \/ Reset
Server == \/ Receive \/ ReadHandler \/ ReadHandlerTerminates \/ ReadError
          \/ WriteSome \/ WriteHandler \/ WriteError

Next == Client \/ Server

(* The thread of the session's io_context keeps running handlers, and a    *)
(* client that is connected keeps reading; nobody has to send.             *)
Spec == Init /\ [][Next]_vars /\ WF_vars(Server)
-----------------------------------------------------------------------------
(* Properties.                                                             *)

TypeOK ==
  /\ stream \in Streams
  /\ pipelines \in BOOLEAN
  /\ {toSend, net, buffer} \subseteq Seq(Units)
  /\ client \in {"open", "closed", "reset"}
  /\ op \in {"read", "write", "none"}
  /\ written \in 0 .. Len(buffer)
  /\ toConsume \in Nat
  /\ process \in {"up", "terminated"}
  /\ log \in Seq([unit : Units, fate : {"parsed", "echoed"}])
  /\ answers \in Seq(Outcomes)

(* Across partial reads, consume twice over and partial writes, every byte *)
(* the client sent is handled once and in order: parsed or written back,   *)
(* or it still lies in the buffer or in the socket.                        *)
Conservation ==
  client # "reset" =>
    [i \in 1 .. Len(log) |-> log[i].unit] \o Drop(buffer, written) \o net \o toSend
      = stream

(* The session keeps ByteStream's promise to the bytes of its connection,  *)
(* and lets go of it only after the client did.                            *)
Stream == INSTANCE ByteStream WITH
  EndUnits <- {u \in Units : IsEnd(u)},
  sent     <- SubSeq(stream, 1, Len(stream) - Len(toSend)),
  gone     <- client # "open",
  alive    <- op # "none",
  handled  <- log
Implements == Stream!Spec

(* A read starts on an empty buffer: to_consume takes nothing that has yet *)
(* to be parsed, and no complete head waits for the client's next segment. *)
FreshRead == [][ op = "write" /\ op' = "read" => buffer' = <<>> ]_vars

(* A client without bodies that waits for each head to be read gets each   *)
(* of its heads parsed as a whole and in order, nothing written back, and  *)
(* a terminated process only for a head that Parse does not accept.        *)
OnlyHeads(s) ==
  \E n \in 0 .. Len(s) :
    /\ Len(s) = 2 * n
    /\ \A k \in 1 .. n : /\ s[2 * k - 1].part = "start"
                         /\ s[2 * k] = [part |-> "end", kind |-> s[2 * k - 1].kind]
Paced == ~pipelines /\ OnlyHeads(stream)
OutcomeOfHead(k) == OutcomeOf[stream[2 * k].kind]
PacedIntact ==
  Paced =>
    /\ \A i \in 1 .. Len(log) : log[i].fate = "parsed"
    /\ \A k \in 1 .. Len(answers) : answers[k] = OutcomeOfHead(k)
    /\ process = "terminated" => OutcomeOfHead(Len(answers) + 1) # "request"

(* Once the client is gone, so is the session.                             *)
SessionEnds == client # "open" ~> op = "none" \/ process = "terminated"

(* Every head that was sent is eventually dealt with, parsed or written    *)
(* back: none stays behind in the buffer or the socket.                    *)
MaxHeads == 3
EndsIn(s) == Len(SelectSeq(s, IsEnd))
SentEnds == EndsIn(stream) - EndsIn(toSend)
HandledEnds == EndsIn([i \in 1 .. Len(log) |-> log[i].unit])
HeadsHandled ==
  \A k \in 1 .. MaxHeads :
    SentEnds >= k ~>
      HandledEnds >= k \/ client = "reset" \/ process = "terminated"
=============================================================================
