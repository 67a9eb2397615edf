---------------------------- MODULE ParserProofs ----------------------------
(***************************************************************************)
(* Proofs about Parser, for every set of header values, every answer of    *)
(* ValidateContentLength, every set of inputs and any number of calls.     *)
(***************************************************************************)
EXTENDS Parser, SequenceTheorems, TLAPS

-----------------------------------------------------------------------------
(* The inductive invariant.                                                *)

(* Where the machine can be: inside ParseHeaders the state is kHeaders, a  *)
(* state that consumes nothing on entry still has data before it, and a    *)
(* call in progress has no outcome.                                        *)
Machine ==
  /\ phase \in {"fields", "fieldsEnd"} => current_state = "Headers"
  /\ phase = "fields" => rest # <<>>
  /\ phase = "overrun" => current_state = "Version"
  /\ current_state \in {"Method", "Uri", "BodyIdentify"} =>
       phase = "loop" /\ rest # <<>>
  /\ current_state # "BodyChunked"
  /\ phase # "idle" => outcome = NoOutcome

(* What kBodyValidation has established when kBodyIdentify begins.         *)
Length ==
  LET cl == GetHeader(dtype.headers, "Content-Length")
  IN  current_state = "BodyIdentify" =>
        /\ HasHeader(dtype.headers, "Host")
        /\ cl # Unset
        /\ GetHeader(dtype.headers, "Transfer-Encoding") = Unset
        /\ LengthOf[cl] # Invalid
        /\ dtype.contentLength = LengthOf[cl]

(* ParseHost ran on every field GetHeader can find as "Host".              *)
Hosts ==
  \A i \in 1 .. Len(dtype.headers) :
    dtype.headers[i].name = "Host" => dtype.host # Unset

(* kBodyValidation sees a Content-Length only beside a Host.               *)
Validation ==
  phase = "loop" /\ current_state = "BodyValidation"
    /\ HasHeader(dtype.headers, "Content-Length")
  => HasHeader(dtype.headers, "Host")

Once == completions = IF current_state = "Complete" THEN 1 ELSE 0

NoBodyYet == outcome # Ok => dtype.body = <<>>

Returned ==
  outcome = Ok => phase = "idle" /\ current_state = "Complete" /\ HostKnown /\ Framing

(* How far the first call has come says what its message holds.            *)
Passed ==
  /\ current_state \notin {"Ready", "Method", "Garbage"} => dtype.method # Unset
  /\ current_state \notin {"Ready", "Method", "WaitUri", "UriStart", "Uri",
                            "Garbage"} => dtype.path # Unset
  /\ current_state \in {"HeadersWait", "Headers", "BodyValidation",
                         "BodyIdentify"} => dtype.version # Unset
  /\ current_state = "BodyValidation" =>
       HasHeader(dtype.headers, "Content-Length")
  /\ current_state # "Complete"

(* How much of data the first call has consumed in each state.  A field    *)
(* without a line end is followed by nothing, or by a CR that is no field. *)
Consumed(n) == total = Len(rest) + n
Lines       == 7 + 3 * Len(dtype.headers)
HeadEnds    == \/ Consumed(Lines + 2)
               \/ rest = <<>> /\ total \in {Lines - 2, Lines}
Position ==
  /\ current_state \in {"Ready", "Method"} => Consumed(0)
  /\ current_state = "WaitUri" => Consumed(1)
  /\ current_state \in {"UriStart", "Uri"} => Consumed(2)
  /\ current_state = "WaitVersion" => Consumed(3)
  /\ current_state = "Version" => Consumed(4)
  /\ current_state = "HeadersWait" => Consumed(6)
  /\ current_state = "Headers" /\ phase # "fieldsEnd" =>
       Consumed(Lines) \/ (rest # <<>> /\ ~FieldOk)
  /\ current_state \in {"BodyValidation", "BodyIdentify"} \/ phase = "fieldsEnd" =>
       HeadEnds
  /\ current_state \notin {"Headers", "BodyValidation", "BodyIdentify", "Garbage"} =>
       dtype.headers = <<>>
  /\ current_state = "Headers" /\ phase = "loop" =>
       dtype.headers = <<>> /\ Consumed(Lines)

FirstCall ==
  /\ calls = 0 => phase = "idle" /\ current_state = "Ready" /\ outcome # Ok
  /\ calls = 1 /\ phase # "idle" => Passed /\ Position
  /\ FirstCallComplete

IInv ==
  /\ TypeOK /\ Machine /\ Length /\ Hosts /\ Validation /\ Once /\ NoBodyYet
  /\ Returned /\ FirstCall /\ Diagnosed
-----------------------------------------------------------------------------
(* Operators.                                                              *)

(* Dropping lexemes from what is left to parse leaves lexemes.             *)
LEMMA DropType ==
  ASSUME rest \in Seq(Lexemes), NEW n \in Nat
  PROVE  Drop(n) \in Seq(Lexemes)
<1>1. \A i \in n + 1 .. Len(rest) : rest[i] \in Lexemes
  BY LenProperties, ElementOfSeq
<1> QED  BY <1>1, SubSeqProperties, LenProperties DEF Drop

(* Dropping none leaves what there was.                                    *)
LEMMA DropNone ==
  ASSUME rest \in Seq(Lexemes)
  PROVE  Drop(0) = rest
<1>1. Drop(0) \in Seq(Lexemes) /\ Len(Drop(0)) = Len(rest)
  BY DropType, SubSeqProperties, LenProperties DEF Drop
<1>2. \A i \in 1 .. Len(rest) : Drop(0)[i] = rest[i]
  BY SubSeqProperties, LenProperties DEF Drop
<1> QED  BY <1>1, <1>2, SeqEqual

(* Dropping n of them leaves all but n.                                    *)
LEMMA DropLength ==
  ASSUME rest \in Seq(Lexemes), NEW n \in 0 .. Len(rest)
  PROVE  /\ Len(Drop(n)) = Len(rest) - n
         /\ \A i \in 1 .. Len(rest) - n : Drop(n)[i] = rest[n + i]
<1>1. Len(rest) \in Nat /\ \A i \in n + 1 .. Len(rest) : rest[i] \in Lexemes
  BY LenProperties, ElementOfSeq
<1> QED  BY <1>1, SubSeqProperties DEF Drop

(* A lexeme of kind "field" is a header field.                             *)
LEMMA FieldLexeme ==
  ASSUME NEW x \in Lexemes, x.kind = "field"
  PROVE  x \in Fields
BY DEF Lexemes, Fields

(* GetHeader answers a value exactly when there is one field of that name. *)
LEMMA GetHeaderType ==
  ASSUME NEW headers \in Seq(Fields), NEW name
  PROVE  /\ HasHeader(headers, name) =>
              /\ GetHeader(headers, name) \in Values
              /\ GetHeader(headers, name) # Unset
         /\ ~HasHeader(headers, name) => GetHeader(headers, name) = Unset
<1>1. CASE HasHeader(headers, name)
  <2>1. PICK i \in 1 .. Len(headers) : headers[i].name = name
    BY <1>1, LenProperties DEF HasHeader
  <2> DEFINE k == CHOOSE j \in 1 .. Len(headers) : headers[j].name = name
  <2>2. k \in 1 .. Len(headers)
    BY <2>1
  <2>3. headers[k] \in Fields
    BY <2>2, ElementOfSeq
  <2>4. GetHeader(headers, name) = headers[k].value
    BY <1>1 DEF GetHeader
  <2>5. headers[k].value \in Values
    BY <2>3 DEF Fields
  <2> QED  BY <1>1, <2>4, <2>5, ParserAssumption
<1>2. CASE ~HasHeader(headers, name)
  BY <1>2 DEF GetHeader
<1> QED  BY <1>1, <1>2
-----------------------------------------------------------------------------
(* Types.                                                                  *)

LEMMA InitType == Init => TypeOK
<1> SUFFICES ASSUME Init PROVE TypeOK
  OBVIOUS
<1>1. NewMessage \in Messages
  BY EmptySeq DEF Messages, NewMessage
<1>2. rest \in Seq(Lexemes)
  BY EmptySeq DEF Init
<1>3. current_state \in States /\ error \in Errors /\ outcome \in Outcomes
  BY DEF Init, States, Errors, Outcomes
<1>4. calls \in 0 .. MaxCalls
  BY ParserAssumption DEF Init
<1> QED  BY <1>1, <1>2, <1>3, <1>4 DEF Init, TypeOK

(* Every action preserves the types.                                       *)
LEMMA StepType == TypeOK /\ Machine /\ Length /\ [Next]_vars => TypeOK'
<1> SUFFICES ASSUME TypeOK, Machine, Length, [Next]_vars
             PROVE  TypeOK'
  OBVIOUS
<1> USE DEF TypeOK
<1>a. NewMessage \in Messages
  BY ParserAssumption, EmptySeq DEF Messages, NewMessage
<1>b. \A c \in Errors : Err(c) \in Outcomes
  BY DEF Outcomes
<1>c. {NoOutcome, Ok, Thrown} \subseteq Outcomes
  BY DEF Outcomes
<1>d. rest # <<>> => rest[1] \in Lexemes
  BY EmptySeq, ElementOfSeq
<1>e. ASSUME NEW c \in Errors, Fail(c)
      PROVE  TypeOK'
  BY <1>e DEF Fail, States, history
<1>f. ASSUME NEW s \in States, NEW n \in Nat, Goto(s, n), dtype' \in Messages
      PROVE  TypeOK'
  BY <1>f, DropType DEF Goto, history
<1>g. ASSUME NEW message \in Messages, Complete(message), rest' \in Seq(Lexemes)
      PROVE  TypeOK'
  <2>1. [message EXCEPT !.size = total] \in Messages
    BY DEF Messages
  <2>2. Ok \in Outcomes /\ "Complete" \in States
    BY <1>c DEF States
  <2> QED  BY <1>g, <2>1, <2>2 DEF Complete
<1>h. {"BadMethod", "BadUri", "BadRequest", "BadVersion", "StaleParser",
       "BadContentLength", "PartialMessage"} \subseteq Errors
  BY DEF Errors
<1>1. CASE LoopExit
  BY <1>1, <1>a, <1>b DEF LoopExit, Return, history
<1>2. CASE DataEnd
  BY <1>2, <1>a, <1>b, <1>h DEF DataEnd, Return, history
<1>3. CASE Ready
  BY <1>3, <1>h DEF Ready, States, history
<1>4. CASE Method
  <2>1. CASE MethodOk
    <3>1. [dtype EXCEPT !.method = rest[1]] \in Messages
      BY <1>4, <1>d DEF Method, At, Messages
    <3> QED  BY <1>4, <2>1, <3>1, <1>f, <1>e, <1>h DEF Method, States
  <2>2. CASE ~MethodOk
    BY <1>4, <2>2, <1>e, <1>h DEF Method
  <2> QED  BY <2>1, <2>2
<1>5. CASE WaitUri
  BY <1>5, <1>e, <1>f, <1>h DEF WaitUri, WaitSpace, States
<1>6. CASE UriStart
  BY <1>6, <1>e, <1>f, <1>h DEF UriStart, States
<1>7. CASE Uri
  <2>1. CASE UriOk
    <3>1. [dtype EXCEPT !.path = rest[1]] \in Messages
      BY <1>7, <1>d DEF Uri, At, Messages
    <3> QED  BY <1>7, <2>1, <3>1, <1>f, <1>e, <1>h DEF Uri, States
  <2>2. CASE ~UriOk
    BY <1>7, <2>2, <1>e, <1>h DEF Uri
  <2> QED  BY <2>1, <2>2
<1>8. CASE WaitVersion
  BY <1>8, <1>e, <1>f, <1>h DEF WaitVersion, WaitSpace, States
<1>9. CASE Version
  <2>1. [dtype EXCEPT !.version = rest[1]] \in Messages
    BY <1>9, <1>d DEF Version, At, Messages
  <2> QED  BY <1>9, <2>1, <1>e, <1>f, <1>h DEF Version, States, history
<1>10. CASE HeadersWait
  BY <1>10, <1>e, <1>f, <1>h DEF HeadersWait, States
<1>11. CASE Headers
  BY <1>11 DEF Headers, history
<1>12. CASE Field
  <2> DEFINE skip == LineEnd(Drop(1))
  <2>1. skip \in Nat
    BY DEF LineEnd
  <2>2. Drop(1 + skip) \in Seq(Lexemes)
    BY <2>1, DropType
  <2>3. rest[1] \in Fields
    BY <1>12, <1>d, FieldLexeme DEF Field, FieldOk, Machine
  <2>4. dtype' \in Messages
    <3>1. Append(dtype.headers, rest[1]) \in Seq(Fields)
      BY <2>3, AppendProperties DEF Messages
    <3>2. rest[1].value \in Values
      BY <2>3 DEF Fields
    <3> QED  BY <1>12, <3>1, <3>2 DEF Field, Messages
  <2>5. phase' \in {"fields", "fieldsEnd"} /\ rest' \in Seq(Lexemes)
    BY <1>12, <2>2 DEF Field
  <2> QED  BY <1>12, <2>4, <2>5 DEF Field, history
<1>13. CASE FieldBad
  BY <1>13, <1>e, <1>h DEF FieldBad
<1>14. CASE HostWithoutPort
  BY <1>14, <1>a, <1>c DEF HostWithoutPort, Return, history
<1>15. CASE FieldsEnd
  BY <1>15, <1>e, <1>g, <1>h DEF FieldsEnd, States, history
<1>16. CASE BodyValidation
  <2> DEFINE cl == GetHeader(dtype.headers, "Content-Length")
  <2>1. dtype.headers \in Seq(Fields)
    BY DEF Messages
  <2>2. cl # Unset => cl \in Values
    BY <2>1, GetHeaderType
  <2>3. cl # Unset /\ LengthOf[cl] # Invalid =>
          [dtype EXCEPT !.contentLength = LengthOf[cl]] \in Messages
    BY <2>2, ParserAssumption DEF Messages
  <2>4. CASE GetHeader(dtype.headers, "Transfer-Encoding") # Unset
    BY <1>16, <2>4, <1>e, <1>h DEF BodyValidation
  <2>5. CASE /\ GetHeader(dtype.headers, "Transfer-Encoding") = Unset
             /\ LengthOf[cl] = Invalid
    BY <1>16, <2>5, <1>a, <1>c, <1>h DEF BodyValidation, Return, States, history
  <2>6. CASE /\ GetHeader(dtype.headers, "Transfer-Encoding") = Unset
             /\ LengthOf[cl] # Invalid
    BY <1>16, <2>6, <2>3, <1>f DEF BodyValidation, States
  <2> QED  BY <2>4, <2>5, <2>6
<1>17. CASE BodyIdentify
  <2> DEFINE n == dtype.contentLength
  <2>1. n \in Nat
    <3>1. dtype.headers \in Seq(Fields)
      BY DEF Messages
    <3>2. GetHeader(dtype.headers, "Content-Length") \in Values
      BY <1>17, <3>1, GetHeaderType DEF Length, BodyIdentify, At
    <3> QED  BY <1>17, <3>2, ParserAssumption DEF Length, BodyIdentify, At
  <2>2. n <= Len(rest)
    BY <1>17 DEF BodyIdentify
  <2>3. SubSeq(rest, 1, n) \in Seq(Lexemes)
    BY <2>1, <2>2, SubSeqProperties, LenProperties, ElementOfSeq
  <2>4. [dtype EXCEPT !.body = SubSeq(rest, 1, n)] \in Messages
    BY <2>3 DEF Messages
  <2> QED  BY <1>17, <2>1, <2>4, <1>g, DropType DEF BodyIdentify
<1>18. CASE Spin
  BY <1>18 DEF Spin, vars
<1>19. CASE SetUsed
  BY <1>19 DEF SetUsed, history
<1>20. CASE ParseEmpty
  BY <1>20, <1>a, <1>b, <1>h DEF ParseEmpty
<1>21. ASSUME NEW data \in Inputs, Parse(data)
       PROVE  TypeOK'
  <2>1. data \in Seq(Lexemes)
    BY ParserAssumption
  <2> QED  BY <1>21, <2>1, <1>a, <1>c, ParserAssumption, LenProperties DEF Parse
<1>22. CASE UNCHANGED vars
  BY <1>22 DEF vars
<1> QED
  BY <1>1, <1>2, <1>3, <1>4, <1>5, <1>6, <1>7, <1>8, <1>9, <1>10, <1>11, <1>12,
     <1>13, <1>14, <1>15, <1>16, <1>17, <1>18, <1>19, <1>20, <1>21, <1>22
  DEF Next, Step, Client
-----------------------------------------------------------------------------
(* Control.                                                                *)

(* Parse's own steps belong to the call in progress.                       *)
LEMMA StepCalls == Step => calls' = calls /\ phase # "idle"
<1> SUFFICES ASSUME Step PROVE calls' = calls /\ phase # "idle"
  OBVIOUS
<1> USE DEF history
<1>1. CASE LoopExit \/ DataEnd \/ HostWithoutPort
  BY <1>1 DEF LoopExit, DataEnd, HostWithoutPort, Return
<1>2. CASE Ready \/ Headers \/ Spin
  BY <1>2 DEF Ready, Headers, Spin, Spinning, vars, At
<1>3. CASE Method \/ Uri \/ UriStart
  BY <1>3 DEF Method, Uri, UriStart, Goto, Fail, At
<1>4. CASE WaitUri \/ WaitVersion \/ HeadersWait
  BY <1>4 DEF WaitUri, WaitVersion, WaitSpace, HeadersWait, Goto, Fail, At
<1>5. CASE Version
  BY <1>5 DEF Version, Goto, Fail, At
<1>6. CASE Field \/ FieldBad
  BY <1>6 DEF Field, FieldBad, Fail
<1>7. CASE FieldsEnd
  BY <1>7 DEF FieldsEnd, Fail, Complete
<1>8. CASE BodyValidation \/ BodyIdentify
  BY <1>8 DEF BodyValidation, BodyIdentify, Fail, Goto, Return, Complete, At
<1> QED
  BY <1>1, <1>2, <1>3, <1>4, <1>5, <1>6, <1>7, <1>8 DEF Step

LEMMA StepMachine == TypeOK /\ Machine /\ [Next]_vars => Machine'
<1> SUFFICES ASSUME TypeOK, Machine, [Next]_vars
             PROVE  Machine'
  OBVIOUS
<1> USE DEF Machine, history
<1>1. CASE LoopExit \/ DataEnd \/ HostWithoutPort
  BY <1>1 DEF LoopExit, DataEnd, HostWithoutPort, Return, Final
<1>2. CASE Ready \/ Headers
  BY <1>2 DEF Ready, Headers, At
<1>3. CASE Method
  BY <1>3 DEF Method, At, Goto, Fail
<1>4. CASE WaitUri \/ WaitVersion
  BY <1>4 DEF WaitUri, WaitVersion, WaitSpace, At, Goto, Fail
<1>5. CASE UriStart
  <2>1. rest' = rest \/ current_state' = "Garbage"
    BY <1>5, DropNone DEF UriStart, Goto, Fail, TypeOK
  <2> QED  BY <1>5, <2>1 DEF UriStart, At, Goto, Fail
<1>6. CASE Uri
  BY <1>6 DEF Uri, At, Goto, Fail
<1>7. CASE Version
  BY <1>7 DEF Version, At, Goto, Fail
<1>8. CASE HeadersWait
  BY <1>8 DEF HeadersWait, At, Goto, Fail
<1>9. CASE Field
  BY <1>9 DEF Field
<1>10. CASE FieldBad
  BY <1>10 DEF FieldBad, Fail
<1>11. CASE FieldsEnd
  BY <1>11 DEF FieldsEnd, Fail, Complete
<1>12. CASE BodyValidation
  <2>1. rest' = rest \/ current_state' = "Garbage"
    BY <1>12, DropNone DEF BodyValidation, Goto, Fail, TypeOK
  <2> QED  BY <1>12, <2>1 DEF BodyValidation, At, Goto, Fail, Return
<1>13. CASE BodyIdentify
  BY <1>13 DEF BodyIdentify, Complete
<1>14. CASE Spin \/ UNCHANGED vars
  BY <1>14 DEF Spin, vars
<1>15. CASE SetUsed \/ ParseEmpty
  BY <1>15 DEF SetUsed, ParseEmpty
<1>16. ASSUME NEW data \in Inputs, Parse(data)
       PROVE  Machine'
  BY <1>16 DEF Parse
<1> QED
  BY <1>1, <1>2, <1>3, <1>4, <1>5, <1>6, <1>7, <1>8, <1>9, <1>10, <1>11, <1>12,
     <1>13, <1>14, <1>15, <1>16 DEF Next, Step, Client
-----------------------------------------------------------------------------
(* The message.                                                            *)

(* Only ParseHeaders' loop writes headers and host; every other step keeps *)
(* them or starts a new message.                                           *)
LEMMA HeadersStep ==
  ASSUME TypeOK, [Next]_vars, dtype' # NewMessage, ~Field
  PROVE  dtype'.headers = dtype.headers /\ dtype'.host = dtype.host
<1> USE DEF TypeOK, Messages
<1>1. CASE LoopExit \/ DataEnd \/ HostWithoutPort
  BY <1>1 DEF LoopExit, DataEnd, HostWithoutPort, Return
<1>2. CASE Ready \/ Headers \/ Spin \/ UNCHANGED vars
  BY <1>2 DEF Ready, Headers, Spin, vars
<1>3. CASE Method \/ Uri
  BY <1>3 DEF Method, Uri, Fail
<1>4. CASE WaitUri \/ WaitVersion \/ UriStart \/ HeadersWait \/ FieldBad
  BY <1>4 DEF WaitUri, WaitVersion, WaitSpace, UriStart, HeadersWait, FieldBad,
    Fail
<1>5. CASE Version
  BY <1>5 DEF Version, Fail
<1>6. CASE FieldsEnd
  BY <1>6 DEF FieldsEnd, Fail, Complete
<1>7. CASE BodyValidation
  BY <1>7 DEF BodyValidation, Fail, Return
<1>8. CASE BodyIdentify
  BY <1>8 DEF BodyIdentify, Complete
<1>9. CASE Client
  BY <1>9 DEF Client, SetUsed, ParseEmpty, Parse
<1> QED
  BY <1>1, <1>2, <1>3, <1>4, <1>5, <1>6, <1>7, <1>8, <1>9 DEF Next, Step

LEMMA StepHosts == TypeOK /\ Machine /\ Hosts /\ [Next]_vars => Hosts'
<1> SUFFICES ASSUME TypeOK, Machine, Hosts, [Next]_vars
             PROVE  Hosts'
  OBVIOUS
<1>1. CASE dtype' = NewMessage
  BY <1>1 DEF NewMessage, Hosts
<1>2. CASE Field
  <2>1. rest[1] \in Fields
    BY <1>2, FieldLexeme, ElementOfSeq, EmptySeq
    DEF Field, FieldOk, Machine, TypeOK
  <2>2. rest[1].value \in Values /\ rest[1].value # Unset
    BY <2>1, ParserAssumption DEF Fields
  <2>3. dtype.headers \in Seq(Fields)
    BY DEF TypeOK, Messages
  <2>4. dtype'.headers = Append(dtype.headers, rest[1])
    BY <1>2 DEF Field, TypeOK, Messages
  <2>5. dtype'.host = IF IsHost(rest[1]) THEN rest[1].value ELSE dtype.host
    BY <1>2 DEF Field, TypeOK, Messages
  <2>6. SUFFICES ASSUME NEW i \in 1 .. Len(dtype'.headers),
                        dtype'.headers[i].name = "Host"
                 PROVE  dtype'.host # Unset
    BY DEF Hosts
  <2>7. CASE i = Len(dtype.headers) + 1
    BY <2>1, <2>2, <2>3, <2>4, <2>5, <2>6, <2>7, AppendProperties DEF IsHost
  <2>8. CASE i # Len(dtype.headers) + 1
    BY <2>1, <2>2, <2>3, <2>4, <2>5, <2>6, <2>8, AppendProperties, LenProperties
    DEF Hosts
  <2> QED  BY <2>7, <2>8
<1>3. CASE dtype' # NewMessage /\ ~Field
  BY <1>3, HeadersStep DEF Hosts
<1> QED  BY <1>1, <1>2, <1>3

(* kBodyIdentify is entered from kBodyValidation only, and left at once.   *)
LEMMA StepLength ==
  TypeOK /\ Machine /\ Validation /\ Length /\ [Next]_vars => Length'
<1> SUFFICES ASSUME TypeOK, Machine, Validation, Length, [Next]_vars,
                    current_state' = "BodyIdentify"
             PROVE  Length'
  BY DEF Length
<1> DEFINE cl == GetHeader(dtype.headers, "Content-Length")
           te == GetHeader(dtype.headers, "Transfer-Encoding")
<1>1. CASE BodyValidation
  <2>1. /\ te = Unset /\ cl # Unset /\ LengthOf[cl] # Invalid
        /\ dtype' = [dtype EXCEPT !.contentLength = LengthOf[cl]]
    BY <1>1 DEF BodyValidation, Fail, Return
  <2>2. HasHeader(dtype.headers, "Content-Length")
    BY <2>1 DEF GetHeader
  <2>3. HasHeader(dtype.headers, "Host")
    BY <1>1, <2>2 DEF BodyValidation, At, Validation
  <2>4. dtype'.headers = dtype.headers /\ dtype'.contentLength = LengthOf[cl]
    BY <2>1 DEF TypeOK, Messages
  <2> QED  BY <2>1, <2>3, <2>4 DEF Length
<1>2. CASE ~BodyValidation
  <2>1. current_state = "BodyIdentify" /\ dtype' = dtype
    <3>1. CASE LoopExit \/ DataEnd \/ HostWithoutPort
      BY <3>1 DEF LoopExit, DataEnd, HostWithoutPort, Return, Final, Machine
    <3>2. CASE Ready \/ Headers \/ Spin \/ UNCHANGED vars
      BY <3>2 DEF Ready, Headers, Spin, vars
    <3>3. CASE Method \/ Uri \/ UriStart
      BY <3>3 DEF Method, Uri, UriStart, Goto, Fail
    <3>4. CASE WaitUri \/ WaitVersion \/ HeadersWait \/ FieldBad
      BY <3>4 DEF WaitUri, WaitVersion, WaitSpace, HeadersWait, FieldBad, Goto, Fail
    <3>5. CASE Version
      BY <3>5 DEF Version, At, Goto, Fail
    <3>6. CASE Field
      BY <3>6 DEF Field, Machine
    <3>7. CASE FieldsEnd \/ BodyIdentify
      BY <3>7 DEF FieldsEnd, BodyIdentify, Fail, Complete
    <3>8. CASE Client
      BY <3>8 DEF Client, SetUsed, ParseEmpty, Parse, Machine
    <3> QED  BY <1>2, <3>1, <3>2, <3>3, <3>4, <3>5, <3>6, <3>7, <3>8 DEF Next, Step
  <2> QED  BY <2>1 DEF Length
<1> QED  BY <1>1, <1>2

(* kBodyValidation is entered from kHeaders, after both were found; a later *)
(* call that resumes there begins with a message that has neither.         *)
LEMMA StepValidation ==
  TypeOK /\ Machine /\ Validation /\ [Next]_vars => Validation'
<1> SUFFICES ASSUME TypeOK, Machine, Validation, [Next]_vars,
                    phase' = "loop", current_state' = "BodyValidation",
                    HasHeader(dtype'.headers, "Content-Length")
             PROVE  HasHeader(dtype'.headers, "Host")
  BY DEF Validation
<1>1. dtype' # NewMessage
  BY DEF NewMessage, HasHeader
<1>2. CASE LoopExit \/ DataEnd \/ HostWithoutPort
  BY <1>1, <1>2 DEF LoopExit, DataEnd, HostWithoutPort, Return
<1>3. CASE Ready \/ Headers \/ Spin \/ UNCHANGED vars
  BY <1>3 DEF Ready, Headers, Spin, vars, Validation, history
<1>4. CASE Method \/ Uri \/ UriStart
  BY <1>4 DEF Method, Uri, UriStart, Goto, Fail
<1>5. CASE WaitUri \/ WaitVersion \/ HeadersWait \/ FieldBad
  BY <1>5 DEF WaitUri, WaitVersion, WaitSpace, HeadersWait, FieldBad, Goto, Fail
<1>6. CASE Version
  BY <1>6 DEF Version, Goto, Fail
<1>7. CASE Field
  BY <1>7 DEF Field
<1>8. CASE FieldsEnd
  BY <1>8 DEF FieldsEnd, Fail, Complete
<1>9. CASE BodyValidation \/ BodyIdentify
  BY <1>9 DEF BodyValidation, BodyIdentify, Fail, Goto, Return, Complete
<1>10. CASE Client
  BY <1>1, <1>10 DEF Client, SetUsed, ParseEmpty, Parse, Machine
<1> QED
  BY <1>2, <1>3, <1>4, <1>5, <1>6, <1>7, <1>8, <1>9, <1>10 DEF Next, Step

(* kComplete is final: entered once, by the call that returns the message. *)
LEMMA StepOnce == TypeOK /\ Machine /\ Once /\ [Next]_vars => Once'
<1> SUFFICES ASSUME TypeOK, Machine, Once, [Next]_vars
             PROVE  Once'
  OBVIOUS
<1> USE DEF Once, history
<1>1. CASE LoopExit \/ DataEnd \/ HostWithoutPort
  BY <1>1 DEF LoopExit, DataEnd, HostWithoutPort, Return
<1>2. CASE Ready \/ Headers \/ Spin \/ UNCHANGED vars
  BY <1>2 DEF Ready, Headers, Spin, vars, At
<1>3. CASE Method \/ Uri \/ UriStart
  BY <1>3 DEF Method, Uri, UriStart, Goto, Fail, At
<1>4. CASE WaitUri \/ WaitVersion \/ HeadersWait
  BY <1>4 DEF WaitUri, WaitVersion, WaitSpace, HeadersWait, Goto, Fail, At
<1>5. CASE Version
  BY <1>5 DEF Version, Goto, Fail, At
<1>6. CASE Field \/ FieldBad
  BY <1>6 DEF Field, FieldBad, Fail, Machine
<1>7. CASE FieldsEnd
  BY <1>7 DEF FieldsEnd, Fail, Complete, Machine
<1>8. CASE BodyValidation
  BY <1>8 DEF BodyValidation, Fail, Goto, Return, At
<1>9. CASE BodyIdentify
  BY <1>9 DEF BodyIdentify, Complete, At
<1>10. CASE Client
  BY <1>10 DEF Client, SetUsed, ParseEmpty, Parse
<1> QED
  BY <1>1, <1>2, <1>3, <1>4, <1>5, <1>6, <1>7, <1>8, <1>9, <1>10 DEF Next, Step

(* Only kBodyIdentify gives a message a body, and returns it.              *)
LEMMA StepNoBodyYet ==
  TypeOK /\ Machine /\ NoBodyYet /\ [Next]_vars => NoBodyYet'
<1> SUFFICES ASSUME TypeOK, Machine, NoBodyYet, [Next]_vars, outcome' # Ok
             PROVE  dtype'.body = <<>>
  BY DEF NoBodyYet
<1> USE DEF TypeOK, Messages, history
<1>0. phase # "idle" => dtype.body = <<>>
  BY DEF Machine, NoBodyYet, NoOutcome, Ok
<1>00. NewMessage.body = <<>>
  BY DEF NewMessage
<1>1. CASE LoopExit \/ DataEnd \/ HostWithoutPort
  BY <1>00, <1>1 DEF LoopExit, DataEnd, HostWithoutPort, Return
<1>2. CASE Ready \/ Headers \/ Spin \/ UNCHANGED vars
  BY <1>2 DEF Ready, Headers, Spin, vars, NoBodyYet
<1>3. CASE Method \/ Uri
  BY <1>0, <1>3 DEF Method, Uri, Fail, At
<1>4. CASE WaitUri \/ WaitVersion \/ UriStart \/ HeadersWait \/ FieldBad
  BY <1>0, <1>4 DEF WaitUri, WaitVersion, WaitSpace, UriStart, HeadersWait,
    FieldBad, Fail, At
<1>5. CASE Version
  BY <1>0, <1>5 DEF Version, Fail, At
<1>6. CASE Field
  BY <1>0, <1>6 DEF Field
<1>7. CASE FieldsEnd
  BY <1>0, <1>7 DEF FieldsEnd, Fail, Complete
<1>8. CASE BodyValidation
  BY <1>0, <1>00, <1>8 DEF BodyValidation, Fail, Return, At
<1>9. CASE BodyIdentify
  BY <1>9 DEF BodyIdentify, Complete
<1>10. CASE Client
  BY <1>00, <1>10 DEF Client, SetUsed, ParseEmpty, Parse, NoBodyYet
<1> QED
  BY <1>1, <1>2, <1>3, <1>4, <1>5, <1>6, <1>7, <1>8, <1>9, <1>10 DEF Next, Step

(* What a call may return: nothing was left out of the message's framing.  *)
LEMMA CompleteReturned ==
  ASSUME TypeOK, Length, Hosts, NoBodyYet, outcome # Ok,
         FieldsEnd \/ BodyIdentify, outcome' = Ok
  PROVE  Returned'
<1> USE DEF TypeOK, Messages
<1> DEFINE cl == GetHeader(dtype.headers, "Content-Length")
<1>1. dtype.headers \in Seq(Fields)
  OBVIOUS
<1>2. CASE FieldsEnd
  <2>1. /\ HasHeader(dtype.headers, "Host")
        /\ ~HasHeader(dtype.headers, "Content-Length")
        /\ Complete(dtype)
    BY <1>2 DEF FieldsEnd, Fail
  <2>2. /\ dtype'.headers = dtype.headers /\ dtype'.host = dtype.host
        /\ dtype'.body = <<>>
    BY <2>1 DEF Complete, NoBodyYet
  <2>3. dtype.host # Unset
    BY <2>1 DEF HasHeader, Hosts
  <2>4. GetHeader(dtype'.headers, "Content-Length") = Unset
    BY <1>1, <2>1, <2>2, GetHeaderType
  <2>5. Framing'
    BY <2>2, <2>4 DEF Framing
  <2>6. HostKnown'
    BY <2>1, <2>2, <2>3 DEF HostKnown
  <2> QED  BY <2>1, <2>5, <2>6 DEF Returned, Complete
<1>3. CASE BodyIdentify
  <2> DEFINE n == dtype.contentLength
  <2>1. /\ HasHeader(dtype.headers, "Host") /\ cl # Unset
        /\ GetHeader(dtype.headers, "Transfer-Encoding") = Unset
        /\ LengthOf[cl] # Invalid /\ n = LengthOf[cl]
    BY <1>3 DEF BodyIdentify, At, Length
  <2>2. n \in Nat /\ n <= Len(rest)
    BY <1>1, <1>3, <2>1, GetHeaderType, ParserAssumption DEF BodyIdentify
  <2>3. Complete([dtype EXCEPT !.body = SubSeq(rest, 1, n)])
    BY <1>3 DEF BodyIdentify
  <2>4. /\ dtype'.headers = dtype.headers /\ dtype'.host = dtype.host
        /\ dtype'.contentLength = n /\ dtype'.body = SubSeq(rest, 1, n)
    BY <2>3 DEF Complete
  <2>5. Len(dtype'.body) = n
    BY <2>2, <2>4, SubSeqProperties, LenProperties
  <2>6. dtype.host # Unset
    BY <2>1 DEF HasHeader, Hosts
  <2>7. Framing'
    <3> DEFINE te == {i \in 1 .. Len(dtype.headers) :
                       dtype.headers[i].name = "Transfer-Encoding"}
    <3>1. ~HasHeader(dtype.headers, "Transfer-Encoding")
      BY <1>1, <2>1, GetHeaderType
    <3>2. \A i \in te : \E j \in te : i # j
      BY <3>1 DEF HasHeader
    <3>3. \A h : h = dtype.headers =>
            LET f == {i \in 1 .. Len(h) : h[i].name = "Transfer-Encoding"}
            IN  \A i \in f : \E j \in f : i # j
      BY <3>2
    <3>4. LET f == {i \in 1 .. Len(dtype'.headers) :
                     dtype'.headers[i].name = "Transfer-Encoding"}
          IN  \A i \in f : \E j \in f : i # j
      BY <2>4, <3>3
    <3>5. GetHeader(dtype'.headers, "Content-Length") = cl
      BY <2>4
    <3>6. /\ LengthOf[cl] # Invalid /\ dtype'.contentLength = LengthOf[cl]
          /\ Len(dtype'.body) = LengthOf[cl] /\ cl # Unset
      BY <2>1, <2>4, <2>5
    <3> HIDE DEF cl, n
    <3> QED  BY <3>4, <3>5, <3>6 DEF Framing
  <2>8. HostKnown'
    BY <2>1, <2>4, <2>6 DEF HostKnown
  <2> QED  BY <2>3, <2>7, <2>8 DEF Returned, Complete
<1> QED  BY <1>2, <1>3

(* Every other step that ends with a returned message found it returned.   *)
LEMMA OkStep ==
  ASSUME TypeOK, Machine, [Next]_vars, outcome' = Ok, ~FieldsEnd, ~BodyIdentify
  PROVE  /\ outcome = Ok
         /\ UNCHANGED <<calls, dtype, phase, current_state, rest, total>>
<1> USE DEF history, Ok, Err, Thrown, NoOutcome, Machine
<1>1. CASE LoopExit \/ DataEnd \/ HostWithoutPort
  BY <1>1 DEF LoopExit, DataEnd, HostWithoutPort, Return
<1>2. CASE Ready \/ Headers
  BY <1>2 DEF Ready, Headers, At
<1>3. CASE Method \/ Uri \/ UriStart
  BY <1>3 DEF Method, Uri, UriStart, Goto, Fail, At
<1>4. CASE WaitUri \/ WaitVersion \/ HeadersWait
  BY <1>4 DEF WaitUri, WaitVersion, WaitSpace, HeadersWait, Goto, Fail, At
<1>5. CASE Version
  BY <1>5 DEF Version, Goto, Fail, At
<1>6. CASE Field \/ FieldBad
  BY <1>6 DEF Field, FieldBad, Fail
<1>7. CASE BodyValidation
  BY <1>7 DEF BodyValidation, Fail, Goto, Return, At
<1>8. CASE Spin \/ UNCHANGED vars
  BY <1>8 DEF Spin, vars
<1>9. CASE Client
  BY <1>9 DEF Client, SetUsed, ParseEmpty, Parse
<1> QED
  BY <1>1, <1>2, <1>3, <1>4, <1>5, <1>6, <1>7, <1>8, <1>9 DEF Next, Step

LEMMA StepReturned ==
  TypeOK /\ Machine /\ Length /\ Hosts /\ NoBodyYet /\ Returned /\ [Next]_vars
  => Returned'
<1> SUFFICES ASSUME TypeOK, Machine, Length, Hosts, NoBodyYet, Returned,
                    [Next]_vars, outcome' = Ok
             PROVE  Returned'
  BY DEF Returned
<1>1. CASE FieldsEnd \/ BodyIdentify
  <2>1. outcome # Ok
    BY <1>1 DEF FieldsEnd, BodyIdentify, At, Machine, Ok, NoOutcome
  <2> QED  BY <1>1, <2>1, CompleteReturned
<1>2. CASE ~FieldsEnd /\ ~BodyIdentify
  <2>1. outcome = Ok /\ UNCHANGED <<dtype, phase, current_state>>
    BY <1>2, OkStep
  <2> QED  BY <2>1 DEF Returned, HostKnown, Framing
<1> QED  BY <1>1, <1>2

(* A step that consumes n lexemes, in a message without fields.            *)
LEMMA GotoPosition ==
  ASSUME TypeOK, NEW s \in States, NEW n \in 0 .. Len(rest), Goto(s, n),
         NEW k \in Nat, Consumed(k)
  PROVE  Consumed(k + n)'
<1>1. Len(rest) \in Nat /\ total \in Nat
  BY LenProperties DEF TypeOK
<1>2. Len(rest') = Len(rest) - n /\ total' = total
  BY DropLength DEF TypeOK, Goto, history
<1> QED  BY <1>1, <1>2 DEF Consumed

(* One field, and the line end behind it, or all the line ends of a head.  *)
LEMMA FieldPosition ==
  ASSUME TypeOK, Machine, Position, Field
  PROVE  Position'
<1> DEFINE skip == LineEnd(Drop(1))
           m    == Len(dtype.headers)
<1>0. current_state = "Headers" /\ phase = "fields" /\ rest # <<>> /\ FieldOk
  BY DEF Field, Machine
<1>1. rest \in Seq(Lexemes) /\ Len(rest) \in Nat /\ Len(rest) >= 1 /\ total \in Nat
  BY <1>0, LenProperties, EmptySeq DEF TypeOK
<1>2. Drop(1) \in Seq(Lexemes) /\ Len(Drop(1)) = Len(rest) - 1
  BY <1>1, DropType, DropLength
<1>3. skip \in {0, 2, 4} /\ skip <= Len(rest) - 1
  BY <1>1, <1>2 DEF LineEnd, StartsWith
<1>4. Len(rest') = Len(rest) - (1 + skip) /\ total' = total
  <2>1. 1 + skip \in 0 .. Len(rest)
    BY <1>1, <1>3
  <2>2. rest' = Drop(1 + skip) /\ total' = total
    BY DEF Field
  <2> QED  BY <1>1, <2>1, <2>2, DropLength
<1>5. m \in Nat /\ Len(dtype'.headers) = m + 1
  <2>1. rest[1] \in Fields /\ dtype.headers \in Seq(Fields)
    BY <1>0, <1>1, FieldLexeme, ElementOfSeq DEF FieldOk, TypeOK, Messages
  <2>2. dtype'.headers = Append(dtype.headers, rest[1])
    BY DEF Field, TypeOK, Messages
  <2> QED  BY <2>1, <2>2, AppendProperties, LenProperties
<1>6. total = Len(rest) + 7 + 3 * m
  <2>1. Consumed(Lines)
    BY <1>0 DEF Position
  <2> HIDE DEF m
  <2>2. total = Len(rest) + (7 + 3 * m)
    BY <2>1 DEF Consumed, Lines, m
  <2> QED  BY <1>1, <1>5, <2>2
<1>7. /\ current_state' = "Headers"
      /\ phase' = IF skip = 4 \/ rest' = <<>> THEN "fieldsEnd" ELSE "fields"
  BY <1>0 DEF Field
<1>8. Lines' = 7 + 3 * (m + 1)
  BY <1>5 DEF Lines
<1>9. rest' \in Seq(Lexemes) /\ (rest' = <<>> <=> Len(rest') = 0)
  <2>1. rest' = Drop(1 + skip)
    BY DEF Field
  <2>2. rest' \in Seq(Lexemes)
    <3>1. 1 + skip \in Nat
      BY <1>3
    <3> QED  BY <1>1, <2>1, <3>1, DropType
  <2> QED  BY <2>2, EmptySeq
<1> HIDE DEF skip, m
<1>10. CASE skip = 4
  <2>1. Consumed(Lines + 2)'
    BY <1>1, <1>4, <1>5, <1>6, <1>8, <1>10 DEF Consumed
  <2> QED  BY <1>7, <1>10, <2>1 DEF Position, HeadEnds
<1>11. CASE skip = 2
  <2>1. Consumed(Lines)'
    BY <1>1, <1>4, <1>5, <1>6, <1>8, <1>11 DEF Consumed
  <2>2. rest' = <<>> => total' \in {Lines - 2, Lines}'
    <3>1. \A r, k \in Nat : r - 3 = 0 => r + 7 + 3 * k = 7 + 3 * (k + 1)
      OBVIOUS
    <3>2. Len(rest') = Len(rest) - 3
      BY <1>1, <1>4, <1>11
    <3>3. Len(rest') = 0 => Len(rest) + 7 + 3 * m = 7 + 3 * (m + 1)
      BY <1>1, <1>5, <3>1, <3>2
    <3>4. Lines' = 7 + 3 * (m + 1) /\ total' = Len(rest) + 7 + 3 * m
      BY <1>4, <1>5, <1>6, <1>8
    <3> QED  BY <1>9, <3>3, <3>4
  <2> QED  BY <1>7, <1>11, <2>1, <2>2 DEF Position, HeadEnds
<1>12. CASE skip = 0
  <2>1. rest' = <<>> => total' \in {Lines - 2, Lines}'
    <3>1. \A r, k \in Nat : r - 1 = 0 => r + 7 + 3 * k = 7 + 3 * (k + 1) - 2
      OBVIOUS
    <3>2. Len(rest') = Len(rest) - 1
      BY <1>1, <1>4, <1>12
    <3>3. Len(rest') = 0 => Len(rest) + 7 + 3 * m = 7 + 3 * (m + 1) - 2
      BY <1>1, <1>5, <3>1, <3>2
    <3>4. Lines' - 2 = 7 + 3 * (m + 1) - 2 /\ total' = Len(rest) + 7 + 3 * m
      BY <1>4, <1>5, <1>6, <1>8
    <3> QED  BY <1>9, <3>3, <3>4
  <2>2. rest' # <<>> => ~FieldOk'
    <3> SUFFICES ASSUME rest' # <<>> PROVE ~FieldOk'
      OBVIOUS
    <3>1. Len(rest) > 1 /\ rest'[1] = rest[2]
      <4>1. Len(rest') >= 1
        BY <1>9, EmptySeq
      <4>2. 1 \in 1 .. Len(rest) - 1
        BY <1>1, <1>4, <1>12, <4>1
      <4>3. Drop(1)[1] = rest[1 + 1]
        BY <1>1, <4>2, DropLength
      <4>4. rest' = Drop(1)
        BY <1>12 DEF Field, skip
      <4> QED  BY <1>1, <4>2, <4>3, <4>4
    <3>2. rest[2].kind = "CR"
      BY <1>0, <3>1 DEF FieldOk, EndsAt
    <3> QED  BY <3>1, <3>2 DEF FieldOk
  <2> QED  BY <1>7, <1>12, <2>1, <2>2 DEF Position, HeadEnds
<1> QED  BY <1>3, <1>10, <1>11, <1>12

(* What the first call has consumed in each state.                         *)
LEMMA StepPosition ==
  ASSUME TypeOK, Machine, Position, phase # "idle", Step, phase' # "idle"
  PROVE  Position'
<1> USE DEF history
<1>0. /\ Len(rest) \in Nat /\ total \in Nat
      /\ rest # <<>> => Len(rest) >= 1
  BY LenProperties, EmptySeq DEF TypeOK
<1>a. ASSUME NEW code, Fail(code) PROVE Position'
  BY <1>a DEF Fail, Position, Machine
<1>b. ASSUME NEW s \in States, NEW n \in 0 .. Len(rest), NEW k \in Nat,
             Goto(s, n), Consumed(k)
      PROVE  Consumed(k + n)'
  BY <1>b, GotoPosition
<1>c. ASSUME NEW s \in States, NEW n, Goto(s, n) PROVE current_state' = s /\ phase' = phase
  BY <1>c DEF Goto
<1>d. ASSUME dtype' = [dtype EXCEPT !.method = rest[1]]
             \/ dtype' = [dtype EXCEPT !.path = rest[1]]
             \/ dtype' = [dtype EXCEPT !.version = rest[1]] \/ dtype' = dtype
      PROVE  dtype'.headers = dtype.headers
  BY <1>d DEF TypeOK, Messages
<1>1. CASE LoopExit \/ DataEnd \/ HostWithoutPort
  BY <1>1 DEF LoopExit, DataEnd, HostWithoutPort, Return
<1>2. CASE Ready
  BY <1>2 DEF Ready, At, Position, Consumed
<1>3. CASE Spin
  BY <1>3 DEF Spin, vars, Position, Consumed, Lines, HeadEnds, FieldOk, EndsAt
<1>4. CASE Headers
  <2>1. UNCHANGED <<rest, total, dtype, current_state>> /\ phase' = "fields"
        /\ current_state = "Headers" /\ phase = "loop"
    BY <1>4 DEF Headers, At
  <2>2. Consumed(Lines)
    BY <2>1 DEF Position
  <2>3. Consumed(Lines)'
    BY <2>1, <2>2 DEF Consumed, Lines
  <2> QED  BY <2>1, <2>3 DEF Position
<1>5. CASE Method
  <2>1. CASE MethodOk
    <3>1. Goto("WaitUri", 1) /\ current_state = "Method" /\ phase = "loop" /\ 1 \in 0 .. Len(rest)
      BY <1>0, <1>5, <2>1 DEF Method, At, Fail
    <3>2. Consumed(0) /\ dtype'.headers = <<>>
      BY <1>5, <2>1, <3>1, <1>d DEF Position, Method
    <3>3. Consumed(0 + 1)'
      BY <3>1, <3>2, <1>b DEF States
    <3> QED  BY <3>1, <3>2, <3>3, <1>c DEF Position, States, Goto
  <2> QED  BY <1>5, <2>1, <1>a DEF Method
<1>6. CASE WaitUri
  <2>1. CASE rest[1].kind = "SP"
    <3>1. Goto("UriStart", 1) /\ current_state = "WaitUri" /\ phase = "loop" /\ 1 \in 0 .. Len(rest)
      BY <1>0, <1>6, <2>1 DEF WaitUri, WaitSpace, At, Fail
    <3>2. Consumed(1) /\ dtype'.headers = <<>>
      BY <1>6, <2>1, <3>1, <1>d DEF Position, WaitUri, WaitSpace
    <3>3. Consumed(1 + 1)'
      BY <3>1, <3>2, <1>b DEF States
    <3> QED  BY <3>1, <3>2, <3>3 DEF Position, Goto
  <2> QED  BY <1>6, <2>1, <1>a DEF WaitUri, WaitSpace
<1>7. CASE UriStart
  <2>1. CASE rest[1].kind \in {"uri", "badUri"}
    <3>1. Goto("Uri", 0) /\ current_state = "UriStart" /\ phase = "loop" /\ 0 \in 0 .. Len(rest)
      BY <1>0, <1>7, <2>1 DEF UriStart, At, Fail
    <3>2. Consumed(2) /\ dtype'.headers = <<>>
      BY <1>7, <2>1, <3>1, <1>d DEF Position, UriStart
    <3>3. Consumed(2 + 0)'
      BY <3>1, <3>2, <1>b DEF States
    <3> QED  BY <3>1, <3>2, <3>3 DEF Position, Goto
  <2> QED  BY <1>7, <2>1, <1>a DEF UriStart
<1>8. CASE Uri
  <2>1. CASE UriOk
    <3>1. Goto("WaitVersion", 1) /\ current_state = "Uri" /\ phase = "loop" /\ 1 \in 0 .. Len(rest)
      BY <1>0, <1>8, <2>1 DEF Uri, At, Fail
    <3>2. Consumed(2) /\ dtype'.headers = <<>>
      BY <1>8, <2>1, <3>1, <1>d DEF Position, Uri
    <3>3. Consumed(2 + 1)'
      BY <3>1, <3>2, <1>b DEF States
    <3> QED  BY <3>1, <3>2, <3>3 DEF Position, Goto
  <2> QED  BY <1>8, <2>1, <1>a DEF Uri
<1>9. CASE WaitVersion
  <2>1. CASE rest[1].kind = "SP"
    <3>1. Goto("Version", 1) /\ current_state = "WaitVersion" /\ phase = "loop" /\ 1 \in 0 .. Len(rest)
      BY <1>0, <1>9, <2>1 DEF WaitVersion, WaitSpace, At, Fail
    <3>2. Consumed(3) /\ dtype'.headers = <<>>
      BY <1>9, <2>1, <3>1, <1>d DEF Position, WaitVersion, WaitSpace
    <3>3. Consumed(3 + 1)'
      BY <3>1, <3>2, <1>b DEF States
    <3> QED  BY <3>1, <3>2, <3>3 DEF Position, Goto
  <2> QED  BY <1>9, <2>1, <1>a DEF WaitVersion, WaitSpace
<1>10. CASE Version
  <2>0. current_state = "Version" /\ phase = "loop"
    BY <1>10 DEF Version, At
  <2>1. CASE VersionOk /\ Goto("HeadersWait", 2)
             /\ dtype' = [dtype EXCEPT !.version = rest[1]]
    <3>1. 2 \in 0 .. Len(rest)
      BY <1>0, <2>1 DEF VersionOk, StartsWith
    <3>2. Consumed(4) /\ dtype'.headers = <<>>
      BY <2>0, <2>1, <1>d DEF Position
    <3>3. Consumed(4 + 2)'
      BY <2>1, <3>1, <3>2, <1>b DEF States
    <3> QED  BY <2>0, <2>1, <3>2, <3>3 DEF Position, Goto
  <2>2. CASE phase' = "overrun" /\ UNCHANGED <<current_state, rest, total, dtype>>
    BY <2>0, <2>2 DEF Position, Consumed
  <2> QED  BY <1>10, <2>1, <2>2, <1>a DEF Version
<1>11. CASE HeadersWait
  <2>1. CASE rest[1].kind = "LF"
    <3>1. Goto("Headers", 1) /\ current_state = "HeadersWait" /\ phase = "loop" /\ 1 \in 0 .. Len(rest)
      BY <1>0, <1>11, <2>1 DEF HeadersWait, At, Fail
    <3>2. Consumed(6) /\ dtype'.headers = <<>>
      BY <1>11, <2>1, <3>1, <1>d DEF Position, HeadersWait
    <3>3. Consumed(6 + 1)'
      BY <3>1, <3>2, <1>b DEF States
    <3>4. Lines' = 7
      BY <3>2, EmptySeq DEF Lines
    <3> QED  BY <3>1, <3>2, <3>3, <3>4 DEF Position, Goto
  <2> QED  BY <1>11, <2>1, <1>a DEF HeadersWait
<1>12. CASE Field
  BY <1>12, FieldPosition
<1>13. CASE FieldBad
  BY <1>13, <1>a DEF FieldBad
<1>14. CASE FieldsEnd
  <2>1. CASE /\ current_state' = "BodyValidation" /\ phase' = "loop"
             /\ UNCHANGED <<rest, total, dtype>>
    <3>1. HeadEnds'
      BY <1>14, <2>1 DEF FieldsEnd, Position, HeadEnds, Consumed, Lines
    <3> QED  BY <2>1, <3>1 DEF Position
  <2>2. CASE Complete(dtype)
    BY <2>2 DEF Complete
  <2> QED  BY <1>14, <2>1, <2>2, <1>a DEF FieldsEnd
<1>15. CASE BodyValidation
  <2>0. current_state = "BodyValidation" /\ phase = "loop"
    BY <1>15 DEF BodyValidation, At
  <2>1. CASE Goto("BodyIdentify", 0) /\ dtype'.headers = dtype.headers
    <3>1. rest' = rest
      BY <2>1, DropNone DEF Goto, TypeOK
    <3>2. HeadEnds'
      BY <2>0, <2>1, <3>1 DEF Goto, Position, HeadEnds, Consumed, Lines
    <3> QED  BY <2>0, <2>1, <3>2 DEF Goto, Position
  <2>2. CASE Return(Thrown)
    BY <2>2 DEF Return
  <2>3. ASSUME NEW x, dtype' = [dtype EXCEPT !.contentLength = x]
        PROVE  dtype'.headers = dtype.headers
    BY <2>3 DEF TypeOK, Messages
  <2> QED  BY <1>15, <2>1, <2>2, <2>3, <1>a DEF BodyValidation
<1>16. CASE BodyIdentify
  BY <1>16 DEF BodyIdentify, Complete
<1> QED
  BY <1>1, <1>2, <1>3, <1>4, <1>5, <1>6, <1>7, <1>8, <1>9, <1>10, <1>11, <1>12,
     <1>13, <1>14, <1>15, <1>16 DEF Step

(* What has been consumed when a first call returns a message.             *)
LEMMA ReturnPosition ==
  ASSUME TypeOK, Machine, Length, NoBodyYet, Position, phase # "idle",
         FieldsEnd \/ BodyIdentify, outcome' = Ok
  PROVE  \/ total' = Len(rest') + Lines' + 2 + Len(dtype'.body)
         \/ rest' = <<>> /\ dtype'.body = <<>> /\ total' \in {Lines - 2, Lines}'
<1>0. /\ Len(rest) \in Nat /\ total \in Nat /\ dtype.headers \in Seq(Fields)
      /\ Len(dtype.headers) \in Nat /\ dtype.body = <<>> /\ outcome # Ok
  BY LenProperties DEF TypeOK, Messages, Machine, NoBodyYet, Ok, NoOutcome
<1>1. CASE FieldsEnd
  <2>1. Complete(dtype) /\ rest' = rest /\ HeadEnds
    BY <1>0, <1>1 DEF FieldsEnd, Fail, Position
  <2>2. /\ total' = total /\ dtype'.headers = dtype.headers /\ dtype'.body = <<>>
    BY <1>0, <2>1 DEF Complete, TypeOK, Messages
  <2>3. Lines' = Lines /\ Len(dtype'.body) = 0
    BY <2>2, EmptySeq DEF Lines
  <2>4. CASE Consumed(Lines + 2)
    BY <1>0, <2>1, <2>2, <2>3, <2>4 DEF Consumed, Lines
  <2>5. CASE rest = <<>> /\ total \in {Lines - 2, Lines}
    BY <2>1, <2>2, <2>3, <2>5
  <2> QED  BY <2>1, <2>4, <2>5 DEF HeadEnds
<1>2. CASE BodyIdentify
  <2> DEFINE n == dtype.contentLength
  <2>1. n \in Nat /\ n <= Len(rest)
    <3>1. LengthOf[GetHeader(dtype.headers, "Content-Length")] \in Nat
      BY <1>0, <1>2, GetHeaderType, ParserAssumption DEF BodyIdentify, At, Length
    <3> QED  BY <1>2, <3>1 DEF BodyIdentify, At, Length
  <2>2. /\ total' = total /\ dtype'.headers = dtype.headers
        /\ dtype'.body = SubSeq(rest, 1, n) /\ rest' = Drop(n)
    BY <1>2 DEF BodyIdentify, Complete, TypeOK, Messages
  <2>3. Len(dtype'.body) = n
    BY <1>0, <2>1, <2>2, SubSeqProperties, ElementOfSeq DEF TypeOK
  <2>4. Len(rest') = Len(rest) - n
    BY <1>0, <2>1, <2>2, DropLength DEF TypeOK
  <2>5. Consumed(Lines + 2) /\ Lines' = Lines
    BY <1>2, <2>2 DEF BodyIdentify, At, Position, HeadEnds, Lines
  <2> HIDE DEF n
  <2>6. total = Len(rest) + (Lines + 2)
    BY <2>5 DEF Consumed
  <2>7. Lines \in Nat
    BY <1>0 DEF Lines
  <2>8. total' = Len(rest') + Lines' + 2 + Len(dtype'.body)
    <3>1. \A r, l, b \in Nat : b <= r => r + (l + 2) = (r - b) + l + 2 + b
      OBVIOUS
    <3>2. Len(rest) + (Lines + 2) = (Len(rest) - n) + Lines + 2 + n
      BY <1>0, <2>1, <2>7, <3>1
    <3>3. total' = (Len(rest) - n) + Lines + 2 + n
      BY <2>2, <2>6, <3>2
    <3> QED  BY <2>3, <2>4, <2>5, <3>3
  <2> QED  BY <2>8
<1> QED  BY <1>1, <1>2

(* The first call's message grows with the states the machine passes.      *)
LEMMA StepFirstCall ==
  TypeOK /\ Machine /\ Length /\ NoBodyYet /\ FirstCall /\ [Next]_vars => FirstCall'
<1> SUFFICES ASSUME TypeOK, Machine, Length, NoBodyYet, FirstCall, [Next]_vars
             PROVE  FirstCall'
  OBVIOUS
<1> USE DEF TypeOK, Messages, history
<1>1. calls' = 0 =>
        phase' = "idle" /\ current_state' = "Ready" /\ outcome' # Ok
  <2> SUFFICES ASSUME calls' = 0
               PROVE  phase' = "idle" /\ current_state' = "Ready" /\ outcome' # Ok
    OBVIOUS
  <2>1. CASE Client
    BY <2>1 DEF Client, SetUsed, ParseEmpty, Parse, FirstCall, Ok, Err
  <2>2. CASE UNCHANGED vars
    BY <2>2 DEF vars, FirstCall
  <2>3. CASE Step
    <3>1. calls' = calls /\ phase # "idle"
      BY <2>3, StepCalls
    <3> QED  BY <3>1 DEF FirstCall
  <2> QED  BY <2>1, <2>2, <2>3 DEF Next
<1>2. FirstCallComplete'
  <2> SUFFICES ASSUME outcome' = Ok, calls' = 1
               PROVE  FirstCallComplete'
    BY DEF FirstCallComplete
  <2>0. ASSUME FieldsEnd \/ BodyIdentify
        PROVE  FirstCallComplete'
    <3>0. phase # "idle" /\ calls = 1
      BY <2>0, StepCalls DEF Step
    <3>1. Passed /\ Position
      BY <3>0 DEF FirstCall
    <3>2. /\ dtype'.method # Unset /\ dtype'.path # Unset
          /\ dtype'.version # Unset
      <4>1. CASE FieldsEnd
        BY <3>1, <4>1 DEF FieldsEnd, Complete, Fail, Machine, Passed, Ok, NoOutcome
      <4>2. CASE BodyIdentify
        BY <3>1, <4>2 DEF BodyIdentify, Complete, At, Passed
      <4> QED  BY <2>0, <4>1, <4>2
    <3>3. \/ total' = Len(rest') + Lines' + 2 + Len(dtype'.body)
          \/ rest' = <<>> /\ dtype'.body = <<>> /\ total' \in {Lines - 2, Lines}'
      BY <2>0, <3>0, <3>1, ReturnPosition
    <3> QED  BY <3>2, <3>3 DEF FirstCallComplete, Lines
  <2>1. CASE FieldsEnd
    BY <2>0, <2>1
  <2>2. CASE BodyIdentify
    BY <2>0, <2>2
  <2>3. CASE ~FieldsEnd /\ ~BodyIdentify
    BY <2>3, OkStep DEF FirstCall, FirstCallComplete
  <2> QED  BY <2>1, <2>2, <2>3
<1>4. calls' = 1 /\ phase' # "idle" => Position'
  <2> SUFFICES ASSUME calls' = 1, phase' # "idle"
               PROVE  Position'
    OBVIOUS
  <2>1. CASE Client
    <3>1. CASE SetUsed \/ ParseEmpty
      BY <3>1 DEF SetUsed, ParseEmpty
    <3>2. ASSUME NEW data \in Inputs, Parse(data)
          PROVE  Position'
      <4>1. current_state' = "Ready" /\ dtype' = NewMessage
        BY <3>2, ParserAssumption DEF Parse, FirstCall
      <4>2. data \in Seq(Lexemes) /\ rest' = data /\ total' = Len(data)
        BY <3>2, ParserAssumption DEF Parse
      <4>3. Consumed(0)'
        BY <4>2, LenProperties DEF Consumed
      <4>4. phase' = "loop"
        BY <3>2 DEF Parse
      <4> QED  BY <4>1, <4>3, <4>4 DEF Position, NewMessage
    <3> QED  BY <2>1, <3>1, <3>2 DEF Client
  <2>2. CASE UNCHANGED vars
    BY <2>2 DEF vars, FirstCall, Position, Consumed, Lines, HeadEnds, FieldOk, EndsAt
  <2>3. CASE Step
    <3>1. calls = 1 /\ phase # "idle"
      BY <2>3, StepCalls
    <3> QED  BY <2>3, <3>1, StepPosition DEF FirstCall
  <2> QED  BY <2>1, <2>2, <2>3 DEF Next
<1>3. calls' = 1 /\ phase' # "idle" => Passed'
  <2> SUFFICES ASSUME calls' = 1, phase' # "idle"
               PROVE  Passed'
    OBVIOUS
  <2>1. CASE Client
    BY <2>1 DEF Client, SetUsed, ParseEmpty, Parse, FirstCall, Passed
  <2>2. CASE UNCHANGED vars
    BY <2>2 DEF vars, FirstCall, Passed
  <2>3. CASE Step
    <3>0. calls = 1 /\ phase # "idle"
      BY <2>3, StepCalls
    <3>00. Passed
      BY <3>0 DEF FirstCall
    <3>1. CASE LoopExit \/ DataEnd \/ HostWithoutPort
      BY <3>1 DEF LoopExit, DataEnd, HostWithoutPort, Return
    <3>2. CASE Ready \/ Headers \/ Spin
      BY <3>00, <3>2 DEF Ready, Headers, Spin, vars, Passed, At
    <3>3. CASE Method
      <4>1. MethodOk => rest[1] # Unset
        BY <3>3, ElementOfSeq, EmptySeq, ParserAssumption DEF Method, At
      <4> QED  BY <3>00, <3>3, <4>1 DEF Method, Goto, Fail, Passed, At
    <3>4. CASE WaitUri \/ WaitVersion \/ UriStart
      BY <3>00, <3>4 DEF WaitUri, WaitVersion, WaitSpace, UriStart, Goto, Fail,
        Passed, At
    <3>5. CASE Uri
      <4>1. UriOk => rest[1] # Unset
        BY <3>5, ElementOfSeq, EmptySeq, ParserAssumption DEF Uri, At
      <4> QED  BY <3>00, <3>5, <4>1 DEF Uri, Goto, Fail, Passed, At
    <3>6. CASE Version
      <4>1. VersionOk => rest[1] # Unset
        BY <3>6, ElementOfSeq, EmptySeq, ParserAssumption DEF Version, At
      <4> QED  BY <3>00, <3>6, <4>1 DEF Version, Goto, Fail, Passed, At
    <3>7. CASE HeadersWait
      BY <3>00, <3>7 DEF HeadersWait, Goto, Fail, Passed, At
    <3>8. CASE Field
      BY <3>00, <3>8 DEF Field, Passed, Machine
    <3>9. CASE FieldBad
      BY <3>9 DEF FieldBad, Fail, Passed
    <3>10. CASE FieldsEnd
      BY <3>00, <3>10 DEF FieldsEnd, Fail, Complete, Passed, Machine
    <3>11. CASE BodyValidation
      BY <3>00, <3>11 DEF BodyValidation, Fail, Goto, Return, Passed, At
    <3>12. CASE BodyIdentify
      BY <3>12 DEF BodyIdentify, Complete
    <3> QED
      BY <2>3, <3>1, <3>2, <3>3, <3>4, <3>5, <3>6, <3>7, <3>8, <3>9, <3>10,
         <3>11, <3>12 DEF Step
  <2> QED  BY <2>1, <2>2, <2>3 DEF Next
<1> QED  BY <1>1, <1>2, <1>3, <1>4 DEF FirstCall

(* Every way to fail records the code it returns.                          *)
LEMMA StepDiagnosed ==
  TypeOK /\ Machine /\ Diagnosed /\ [Next]_vars => Diagnosed'
<1> SUFFICES ASSUME TypeOK, Machine, Diagnosed, [Next]_vars
             PROVE  Diagnosed'
  OBVIOUS
<1> USE DEF history, Ok, Err, Thrown, NoOutcome, Diagnosed, Final
<1>1. CASE LoopExit \/ DataEnd \/ HostWithoutPort
  BY <1>1 DEF LoopExit, DataEnd, HostWithoutPort, Return, Machine
<1>2. CASE Ready \/ Headers \/ Spin \/ UNCHANGED vars
  BY <1>2 DEF Ready, Headers, Spin, vars, At, Machine
<1>3. CASE Method \/ Uri \/ UriStart
  BY <1>3 DEF Method, Uri, UriStart, Goto, Fail, At, Machine
<1>4. CASE WaitUri \/ WaitVersion \/ HeadersWait
  BY <1>4 DEF WaitUri, WaitVersion, WaitSpace, HeadersWait, Goto, Fail, At, Machine
<1>5. CASE Version
  BY <1>5 DEF Version, Goto, Fail, At, Machine
<1>6. CASE Field \/ FieldBad
  BY <1>6 DEF Field, FieldBad, Fail, Machine
<1>7. CASE FieldsEnd
  BY <1>7 DEF FieldsEnd, Complete, Fail, Machine
<1>8. CASE BodyValidation
  BY <1>8 DEF BodyValidation, Fail, Goto, Return, At, Machine
<1>9. CASE BodyIdentify
  BY <1>9 DEF BodyIdentify, Complete
<1>10. CASE SetUsed \/ ParseEmpty \/ \E data \in Inputs : Parse(data)
  BY <1>10 DEF SetUsed, ParseEmpty, Parse
<1> QED
  BY <1>1, <1>2, <1>3, <1>4, <1>5, <1>6, <1>7, <1>8, <1>9, <1>10
  DEF Next, Step, Client
-----------------------------------------------------------------------------
(* The invariant, and what follows from it.                                *)

LEMMA InitIInv == Init => IInv
<1> SUFFICES ASSUME Init PROVE IInv
  OBVIOUS
<1>1. TypeOK
  BY InitType
<1>2. Machine /\ Once /\ NoBodyYet /\ FirstCall /\ Diagnosed
  BY DEF Init, Machine, Once, NoBodyYet, FirstCall, FirstCallComplete, Diagnosed,
    NoOutcome, Ok, NewMessage
<1>3. Length /\ Hosts /\ Validation /\ Returned
  BY DEF Init, Length, Hosts, Validation, Returned, NoOutcome, Ok, NewMessage
<1> QED  BY <1>1, <1>2, <1>3 DEF IInv

LEMMA StepIInv == IInv /\ [Next]_vars => IInv'
BY StepType, StepMachine, StepLength, StepHosts, StepValidation, StepOnce,
   StepNoBodyYet, StepReturned, StepFirstCall, StepDiagnosed DEF IInv

(* The invariant holds of every state Parse and its clients reach.         *)
THEOREM Inductive == Spec => []IInv
BY InitIInv, StepIInv, PTL DEF Spec

(* Members and locals keep their types: no lexeme, state or code that is   *)
(* none of the parser's, and an initialised length in every message.       *)
THEOREM TypeCorrect == Spec => []TypeOK
<1>1. IInv => TypeOK
  BY DEF IInv
<1> QED  BY <1>1, Inductive, PTL

(* However Parse is called, one Parser returns at most one message.        *)
THEOREM AtMostOneMessage == Spec => []OneTransaction
<1>1. IInv => OneTransaction
  BY DEF IInv, Once, OneTransaction
<1> QED  BY <1>1, Inductive, PTL

(* kBodyIdentify never reads an uninitialised content_length_.             *)
THEOREM LengthIsKnown == Spec => []LengthKnown
<1>1. IInv => LengthKnown
  <2> SUFFICES ASSUME IInv, At("BodyIdentify")
               PROVE  dtype.contentLength # Unset
    BY DEF LengthKnown
  <2>1. dtype.headers \in Seq(Fields)
    BY DEF IInv, TypeOK, Messages
  <2>2. LengthOf[GetHeader(dtype.headers, "Content-Length")] \in Nat
    BY <2>1, GetHeaderType, ParserAssumption DEF IInv, Length, At
  <2> QED  BY <2>2, ParserAssumption DEF IInv, Length, At
<1> QED  BY <1>1, Inductive, PTL

(* What a first call returns has method, path and version, and what was    *)
(* consumed for it is its head and its body.                               *)
THEOREM FirstCallIsComplete == Spec => []FirstCallComplete
<1>1. IInv => FirstCallComplete
  BY DEF IInv, FirstCall
<1> QED  BY <1>1, Inductive, PTL

(* A returned message has a Host header and the host cut out of it.        *)
THEOREM HostIsKnown == Spec => []HostKnown
<1>1. IInv => HostKnown
  BY DEF IInv, Returned, HostKnown
<1> QED  BY <1>1, Inductive, PTL

(* A returned body is as long as the one valid Content-Length says, and no *)
(* single Transfer-Encoding stands beside it.                              *)
THEOREM FramingHolds == Spec => []Framing
<1>1. IInv => Framing
  BY DEF IInv, Returned, Framing
<1> QED  BY <1>1, Inductive, PTL

(* GetErrorCode agrees with what Parse returned unless data ended early.   *)
THEOREM ErrorsDiagnosed == Spec => []Diagnosed
<1>1. IInv => Diagnosed
  BY DEF IInv
<1> QED  BY <1>1, Inductive, PTL

(* A first call of Parse can only hang in kBodyIdentify.                   *)
THEOREM FirstCallSpinsOnBody == Spec => []FirstCallSpin
<1>1. IInv => FirstCallSpin
  BY DEF IInv, FirstCall, Passed, Spinning, FirstCallSpin, At
<1> QED  BY <1>1, Inductive, PTL
=============================================================================
