------------------------------ MODULE Handler ------------------------------
(***************************************************************************)
(* camille::handler::RequestHandler (include/camille/handler.h) as a       *)
(* session drives it: Session's ReadHandler, the RequestHandler in it and  *)
(* its Parser, composed.  Session takes the outcome of a piece of the      *)
(* stream for given (OutcomeOf, IsHead); here the parser computes it.      *)
(*                                                                         *)
(* A session hands over the bytes async_read_until announces: the piece    *)
(* ends with the first "\r\n\r\n" and begins wherever the write before it  *)
(* emptied the buffer, which is anywhere in the client's stream.           *)
(***************************************************************************)
EXTENDS Parser

CONSTANT Streams  (* What a client may send: sequences of lexemes.         *)

ASSUME HandlerAssumption == Streams \subseteq Seq(Lexemes)

VARIABLES
  piece,          (* data, the argument of RequestHandler::Parse           *)
  answer          (* what it returned, or what came of it                  *)

handlerVars == <<vars, piece, answer>>

HandlerInit ==
  /\ Init
  /\ piece = <<>>
  /\ answer = "none"

(* Where the first terminator at or behind position i ends.                *)
EndsHead(s, j) == StartsWith(SubSeq(s, j - 3, j), <<"CR", "LF", "CR", "LF">>)
PieceEnd(s, i) ==
  {j \in i + 3 .. Len(s) : EndsHead(s, j) /\ \A k \in i + 3 .. j - 1 : ~EndsHead(s, k)}

MutHandOver(data, rem) ==      \* all of the buffer, not the announced bytes
  /\ piece' = data \o rem
  /\ rest' = data \o rem
  /\ total' = Len(data \o rem)
HandOver(data, rem) ==
  /\ piece' = data
  /\ rest' = data
  /\ total' = Len(data)

MutFreshParser ==         \* the session's one RequestHandler, by reference
  UNCHANGED <<current_state, used, error, completions>>
(* DoRead copies request_handler_, which nothing but such copies uses.     *)
FreshParser ==
  /\ current_state' = "Ready"
  /\ used' = FALSE
  /\ error' = "GeneralError"
  /\ completions' = 0

(* ReadHandler without an error: Parse on the piece with a copied handler. *)
Deliver ==
  /\ phase = "idle" /\ outcome # Thrown
  /\ answer # "none" \/ piece = <<>>
  /\ \E s \in Streams : \E i \in 1 .. Len(s) : \E j \in PieceEnd(s, i) :
       HandOver(SubSeq(s, i, j), SubSeq(s, j + 1, Len(s)))
  /\ FreshParser
  /\ dtype' = NewMessage
  /\ phase' = "loop"
  /\ outcome' = NoOutcome
  /\ calls' = 1
  /\ stale' = FALSE
  /\ answer' = "none"

Parsing == Step /\ UNCHANGED <<piece, answer>>

(* `!parser_`, then `!req`, then the value.                                *)
Answer ==
  IF outcome = Thrown THEN "throws"
  ELSE IF current_state # "Complete" \/ outcome.kind = "err" THEN "nullopt"
  ELSE "request"

Reply ==
  /\ phase = "idle" /\ piece # <<>> /\ answer = "none"
  /\ answer' = Answer
  /\ UNCHANGED <<vars, piece>>

HandlerStep == Parsing \/ Reply
HandlerNext == Deliver \/ HandlerStep

HandlerSpec == HandlerInit /\ [][HandlerNext]_handlerVars
-----------------------------------------------------------------------------
(* What Parse should make of a piece, read off the piece.                  *)

RequestLineOf(s) ==
  StartsWith(s, <<"method", "SP", "uri", "SP", "version", "CR", "LF">>)
FieldCount(s) == (Len(s) - 9) \div 3
FieldsOf(s)   == [i \in 1 .. FieldCount(s) |-> s[5 + 3 * i]]
IsLine(s, i)  == StartsWith(SubSeq(s, 5 + 3 * i, 7 + 3 * i), <<"field", "CR", "LF">>)
IsWholeHead(s) ==
  /\ Len(s) >= 9 /\ Len(s) = 9 + 3 * FieldCount(s)
  /\ RequestLineOf(s)
  /\ \A i \in 1 .. FieldCount(s) : IsLine(s, i)

(* A Host without a port, with nothing wrong in front of it.               *)
Portless(s) ==
  /\ RequestLineOf(s)
  /\ \E i \in 1 .. (Len(s) - 6) \div 3 :
       /\ \A j \in 1 .. i - 1 : IsLine(s, j)
       /\ StartsWith(SubSeq(s, 5 + 3 * i, 6 + 3 * i), <<"field", "CR">>)
       /\ s[5 + 3 * i].name \in {"Host", "host"} /\ s[5 + 3 * i].value \notin WithPort

Expected(s) ==
  CASE Portless(s) -> "throws"
    [] /\ ~Portless(s) /\ IsWholeHead(s)
       /\ HasHeader(FieldsOf(s), "Host")
       /\ ~HasHeader(FieldsOf(s), "Content-Length") -> "request"
    [] OTHER -> "nullopt"

(* What Session assumes of a piece: a request comes out of exactly one     *)
(* whole head with one Host and no usable Content-Length; a cut head, a    *)
(* body in front of a head, or any announced body, even of length 0, gives *)
(* nullopt; a Host without a port throws, also in a head that is bad later.*)
Answered == answer # "none" => answer = Expected(piece)

(* No piece of a session reaches the body states or the unbounded read of  *)
(* ParseVersion, so that none of Parse's endless passes can hang a server. *)
NeverStuck ==
  /\ phase # "overrun" /\ ~Spinning
  /\ ~At("BodyValidation") /\ ~At("BodyIdentify")
=============================================================================
