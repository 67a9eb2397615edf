---------------------------- MODULE HandlerProofs ----------------------------
(***************************************************************************)
(* Proofs about Handler: what RequestHandler makes of a piece, for all     *)
(* streams, header values and answers of ValidateContentLength.            *)
(*                                                                         *)
(* The steps of Parse are those of Parser, the states are fewer: a piece   *)
(* ends with its only terminator, and the parser is fresh.  The invariant  *)
(* says at which position of the piece the machine stands in each of its   *)
(* states, and what the lexemes in front of it are.                        *)
(***************************************************************************)
EXTENDS Handler, ParserProofs

-----------------------------------------------------------------------------
(* The inductive invariant.                                                *)

K(i) == piece[i].kind

(* Lexemes k - 3 .. k of the piece are a terminator.                       *)
EndAt(k) == K(k - 3) = "CR" /\ K(k - 2) = "LF" /\ K(k - 1) = "CR" /\ K(k) = "LF"

(* async_read_until announces the end of the first terminator.             *)
Terminated ==
  piece # <<>> =>
    /\ Len(piece) >= 4 /\ EndAt(Len(piece))
    /\ \A k \in 4 .. Len(piece) - 1 : ~EndAt(k)

(* All but the first p lexemes of the piece are left to parse.             *)
Left(p) ==
  /\ p \in 0 .. Len(piece) /\ Len(rest) = Len(piece) - p
  /\ \A i \in 1 .. Len(rest) : rest[i] = piece[p + i]

(* As many lines as dtype has fields are fields with what ParseHost needs, *)
(* and are in dtype; how the last of them ends is for the place after it   *)
(* to say.                                                                 *)
FieldsRead(m) ==
  /\ RequestLineOf(piece)
  /\ \A i \in 1 .. m :
       /\ dtype.headers[i] = piece[5 + 3 * i]
       /\ K(5 + 3 * i) = "field" /\ K(6 + 3 * i) = "CR"
       /\ IsHost(piece[5 + 3 * i]) => piece[5 + 3 * i].value \in WithPort
  /\ \A i \in 1 .. m - 1 : K(7 + 3 * i) = "LF"

(* Behind a whole line, that is not the last of a head...                  *)
BehindLine(m) ==
  /\ Left(7 + 3 * m)
  /\ m > 0 => K(7 + 3 * m) = "LF" /\ Len(piece) # 9 + 3 * m

(* ... or in front of a CR that no LF follows.                             *)
BeforeLoneCR(m) ==
  m > 0 /\ Left(5 + 3 * m) /\ 7 + 3 * m <= Len(piece) /\ K(7 + 3 * m) # "LF"

InFields(m) == FieldsRead(m) /\ (BehindLine(m) \/ BeforeLoneCR(m))

InHead ==
  /\ rest = <<>>
  /\ IsWholeHead(piece) /\ ~Portless(piece) /\ dtype.headers = FieldsOf(piece)

Place ==
  /\ current_state \in {"Ready", "Method"} => phase = "loop" /\ Left(0)
  /\ current_state = "WaitUri" => phase = "loop" /\ Left(1) /\ K(1) = "method"
  /\ current_state \in {"UriStart", "Uri"} =>
       phase = "loop" /\ Left(2) /\ K(1) = "method" /\ K(2) = "SP"
  /\ current_state = "WaitVersion" =>
       /\ phase = "loop" /\ Left(3)
       /\ K(1) = "method" /\ K(2) = "SP" /\ K(3) = "uri"
  /\ current_state = "Version" =>
       /\ phase = "loop" /\ Left(4)
       /\ K(1) = "method" /\ K(2) = "SP" /\ K(3) = "uri" /\ K(4) = "SP"
  /\ current_state = "HeadersWait" =>
       /\ phase = "loop" /\ Left(6)
       /\ K(1) = "method" /\ K(2) = "SP" /\ K(3) = "uri" /\ K(4) = "SP"
       /\ K(5) = "version" /\ K(6) = "CR"
  /\ current_state = "Headers" =>
       \/ phase \in {"loop", "fields"} /\ InFields(Len(dtype.headers))
       \/ phase = "fieldsEnd" /\ InHead
  /\ current_state = "BodyValidation" => phase = "loop" /\ rest = <<>>
  /\ current_state \in {"BodyValidation", "Garbage"} =>
       phase = "loop" /\ Expected(piece) = "nullopt"
  /\ current_state \in States \ {"BodyIdentify", "BodyChunked", "Complete"}

(* Nothing is in a new message before ParseHeaders.                        *)
NoFields ==
  current_state \notin {"Headers", "BodyValidation", "Garbage"}
    => dtype.headers = <<>>

UnderWay == Place /\ NoFields /\ answer = "none"

(* A call that has returned: each way for a kind of piece of its own.      *)
Over ==
  \/ outcome = Thrown /\ Expected(piece) = "throws"
  \/ outcome = Ok /\ current_state = "Complete" /\ Expected(piece) = "request"
  \/ /\ outcome.kind = "err" /\ current_state # "Complete"
     /\ Expected(piece) = "nullopt"

HInv ==
  /\ piece \in Seq(Lexemes) /\ rest \in Seq(Lexemes)
  /\ dtype \in Messages /\ total \in Nat
  /\ Terminated
  /\ piece = <<>> => phase = "idle" /\ answer = "none"
  /\ phase # "idle" => UnderWay
  /\ phase = "idle" /\ piece # <<>> => Over
  /\ Answered
-----------------------------------------------------------------------------
(* Operators.                                                              *)

(* RequestLineOf, lexeme by lexeme.                                        *)
LEMMA RequestLineKinds ==
  ASSUME NEW s \in Seq(Lexemes)
  PROVE  RequestLineOf(s) <=>
           /\ Len(s) >= 7
           /\ s[1].kind = "method" /\ s[2].kind = "SP" /\ s[3].kind = "uri"
           /\ s[4].kind = "SP" /\ s[5].kind = "version"
           /\ s[6].kind = "CR" /\ s[7].kind = "LF"
<1> DEFINE w == <<"method", "SP", "uri", "SP", "version", "CR", "LF">>
<1>1. /\ Len(w) = 7
      /\ w[1] = "method" /\ w[2] = "SP" /\ w[3] = "uri" /\ w[4] = "SP"
      /\ w[5] = "version" /\ w[6] = "CR" /\ w[7] = "LF"
  OBVIOUS
<1>2. 1 .. 7 = {1, 2, 3, 4, 5, 6, 7}
  OBVIOUS
<1>3. RequestLineOf(s) <=> Len(s) >= 7 /\ \A i \in 1 .. 7 : s[i].kind = w[i]
  BY <1>1 DEF RequestLineOf, StartsWith
<1> HIDE DEF w
<1> QED  BY <1>1, <1>2, <1>3

(* The lexemes of a part of a sequence.                                    *)
LEMMA PartOf ==
  ASSUME NEW s \in Seq(Lexemes), NEW a \in 1 .. Len(s), NEW b \in a .. Len(s)
  PROVE  /\ SubSeq(s, a, b) \in Seq(Lexemes)
         /\ Len(SubSeq(s, a, b)) = b - a + 1
         /\ \A k \in 1 .. b - a + 1 : SubSeq(s, a, b)[k] = s[a + k - 1]
<1>1. Len(s) \in Nat
  BY LenProperties
<1>2. \A k \in a .. b : s[k] \in Lexemes
  BY <1>1, ElementOfSeq
<1> QED  BY <1>1, <1>2, SubSeqProperties

LEMMA LineKinds ==
  ASSUME NEW s \in Seq(Lexemes), NEW i \in Nat, 7 + 3 * i <= Len(s)
  PROVE  IsLine(s, i) <=>
           /\ s[5 + 3 * i].kind = "field" /\ s[6 + 3 * i].kind = "CR"
           /\ s[7 + 3 * i].kind = "LF"
<1> DEFINE t == SubSeq(s, 5 + 3 * i, 7 + 3 * i)
           w == <<"field", "CR", "LF">>
<1>0. Len(s) \in Nat
  BY LenProperties
<1>1. /\ Len(t) = 3
      /\ t[1] = s[5 + 3 * i] /\ t[2] = s[6 + 3 * i] /\ t[3] = s[7 + 3 * i]
  <2>1. 5 + 3 * i \in 1 .. Len(s) /\ 7 + 3 * i \in 5 + 3 * i .. Len(s)
    BY <1>0
  <2>2. \A k \in 1 .. 3 : t[k] = s[5 + 3 * i + k - 1]
    BY <2>1, PartOf
  <2> QED  BY <2>1, <2>2, PartOf
<1>2. Len(w) = 3 /\ w[1] = "field" /\ w[2] = "CR" /\ w[3] = "LF"
  OBVIOUS
<1>3. 1 .. 3 = {1, 2, 3}
  OBVIOUS
<1>4. IsLine(s, i) <=> \A k \in 1 .. 3 : t[k].kind = w[k]
  BY <1>1, <1>2 DEF IsLine, StartsWith
<1> HIDE DEF t, w
<1> QED  BY <1>1, <1>2, <1>3, <1>4

LEMMA FieldKinds ==
  ASSUME NEW s \in Seq(Lexemes), NEW i \in Nat, 6 + 3 * i <= Len(s)
  PROVE  StartsWith(SubSeq(s, 5 + 3 * i, 6 + 3 * i), <<"field", "CR">>) <=>
           s[5 + 3 * i].kind = "field" /\ s[6 + 3 * i].kind = "CR"
<1> DEFINE t == SubSeq(s, 5 + 3 * i, 6 + 3 * i)
           w == <<"field", "CR">>
<1>0. Len(s) \in Nat
  BY LenProperties
<1>1. Len(t) = 2 /\ t[1] = s[5 + 3 * i] /\ t[2] = s[6 + 3 * i]
  <2>1. 5 + 3 * i \in 1 .. Len(s) /\ 6 + 3 * i \in 5 + 3 * i .. Len(s)
    BY <1>0
  <2>2. \A k \in 1 .. 2 : t[k] = s[5 + 3 * i + k - 1]
    BY <2>1, PartOf
  <2> QED  BY <2>1, <2>2, PartOf
<1>2. Len(w) = 2 /\ w[1] = "field" /\ w[2] = "CR"
  OBVIOUS
<1>3. 1 .. 2 = {1, 2}
  OBVIOUS
<1>4. StartsWith(t, w) <=> \A k \in 1 .. 2 : t[k].kind = w[k]
  BY <1>1, <1>2 DEF StartsWith
<1> HIDE DEF t, w
<1>5. StartsWith(t, w) <=> s[5 + 3 * i].kind = "field" /\ s[6 + 3 * i].kind = "CR"
  BY <1>1, <1>2, <1>3, <1>4
<1> QED  BY <1>5 DEF t, w

(* EndsHead, lexeme by lexeme.                                             *)
LEMMA EndKinds ==
  ASSUME NEW s \in Seq(Lexemes), NEW j \in 4 .. Len(s)
  PROVE  EndsHead(s, j) <=>
           /\ s[j - 3].kind = "CR" /\ s[j - 2].kind = "LF"
           /\ s[j - 1].kind = "CR" /\ s[j].kind = "LF"
<1> DEFINE t == SubSeq(s, j - 3, j)
           w == <<"CR", "LF", "CR", "LF">>
<1>0. Len(s) \in Nat
  BY LenProperties
<1>1. /\ Len(t) = 4
      /\ t[1] = s[j - 3] /\ t[2] = s[j - 2] /\ t[3] = s[j - 1] /\ t[4] = s[j]
  <2>1. j - 3 \in 1 .. Len(s) /\ j \in j - 3 .. Len(s)
    BY <1>0
  <2>2. Len(t) = 4 /\ \A k \in 1 .. 4 : t[k] = s[j - 3 + k - 1]
    BY <2>1, PartOf
  <2> HIDE DEF t
  <2>3. t[1] = s[j - 3 + 1 - 1] /\ t[2] = s[j - 3 + 2 - 1]
    BY <2>2
  <2>4. t[3] = s[j - 3 + 3 - 1] /\ t[4] = s[j - 3 + 4 - 1]
    BY <2>2
  <2> QED  BY <2>2, <2>3, <2>4
<1>2. Len(w) = 4 /\ w[1] = "CR" /\ w[2] = "LF" /\ w[3] = "CR" /\ w[4] = "LF"
  OBVIOUS
<1>3. 1 .. 4 = {1, 2, 3, 4}
  OBVIOUS
<1>4. EndsHead(s, j) <=> \A k \in 1 .. 4 : t[k].kind = w[k]
  BY <1>1, <1>2 DEF EndsHead, StartsWith
<1> HIDE DEF t, w
<1> QED  BY <1>1, <1>2, <1>3, <1>4

(* Expected, case by case.                                                 *)
LEMMA ExpectedCases ==
  ASSUME NEW s
  PROVE  /\ Portless(s) => Expected(s) = "throws"
         /\ /\ ~Portless(s) /\ IsWholeHead(s)
            /\ HasHeader(FieldsOf(s), "Host")
            /\ ~HasHeader(FieldsOf(s), "Content-Length")
            => Expected(s) = "request"
         /\ /\ ~Portless(s)
            /\ \/ ~IsWholeHead(s) \/ ~HasHeader(FieldsOf(s), "Host")
               \/ HasHeader(FieldsOf(s), "Content-Length")
            => Expected(s) = "nullopt"
BY DEF Expected

LEMMA NoRequestLine ==
  ASSUME NEW s, ~RequestLineOf(s)
  PROVE  Expected(s) = "nullopt"
BY ExpectedCases DEF Portless, IsWholeHead

LEMMA DropLexemes ==
  ASSUME rest \in Seq(Lexemes), NEW n \in Nat, n <= Len(rest)
  PROVE  /\ Len(Drop(n)) = Len(rest) - n
         /\ \A i \in 1 .. Len(rest) - n : Drop(n)[i] = rest[n + i]
<1>1. Len(rest) \in Nat
  BY LenProperties
<1> QED  BY <1>1, SubSeqProperties DEF Drop

(* Consuming lexemes moves the position on.                                *)
LEMMA LeftDrop ==
  ASSUME piece \in Seq(Lexemes), rest \in Seq(Lexemes), NEW p \in Nat, NEW n \in Nat,
         Left(p), n <= Len(rest), rest' = Drop(n), piece' = piece
  PROVE  Left(p + n)'
<1>1. Len(rest) \in Nat /\ Len(piece) \in Nat
  BY LenProperties
<1>2. /\ Len(Drop(n)) = Len(rest) - n
      /\ \A i \in 1 .. Len(rest) - n : Drop(n)[i] = rest[n + i]
  BY DropLexemes
<1>3. \A i \in 1 .. Len(rest) - n : rest[n + i] = piece[p + n + i]
  <2> SUFFICES ASSUME NEW i \in 1 .. Len(rest) - n
               PROVE  rest[n + i] = piece[p + n + i]
    OBVIOUS
  <2>1. n + i \in 1 .. Len(rest) /\ p + (n + i) = p + n + i
    BY <1>1
  <2> QED  BY <2>1 DEF Left
<1>4. p + n \in 0 .. Len(piece) /\ Len(rest') = Len(piece) - (p + n)
  BY <1>1, <1>2 DEF Left
<1>5. \A i \in 1 .. Len(rest') : rest'[i] = piece[p + n + i]
  BY <1>1, <1>2, <1>3
<1> QED  BY <1>4, <1>5 DEF Left
-----------------------------------------------------------------------------
(* Steps of Parse, up to the headers.                                      *)

(* A step goes on with the piece...                                        *)
LEMMA GoesOn ==
  ASSUME HInv, phase # "idle", UNCHANGED <<piece, answer>>,
         rest' \in Seq(Lexemes), dtype' \in Messages, total' = total,
         Place', NoFields'
  PROVE  HInv'
<1>1. piece # <<>> /\ answer = "none"
  BY DEF HInv, UnderWay
<1>2. Terminated'
  BY DEF HInv, Terminated, EndAt, K
<1>3. Answered'
  BY <1>1 DEF Answered
<1>4. UnderWay'
  BY <1>1 DEF UnderWay
<1>5. phase' # "idle"
  BY DEF Place, States
<1> QED  BY <1>1, <1>2, <1>3, <1>4, <1>5 DEF HInv

(* ... or ends the call.                                                   *)
LEMMA Ends ==
  ASSUME HInv, phase # "idle", UNCHANGED <<piece, answer>>, phase' = "idle",
         rest' = rest, dtype' \in Messages, total' = total, Over'
  PROVE  HInv'
<1>1. piece # <<>> /\ answer = "none"
  BY DEF HInv, UnderWay
<1>2. Terminated'
  BY DEF HInv, Terminated, EndAt, K
<1>3. Answered'
  BY <1>1 DEF Answered
<1> QED  BY <1>1, <1>2, <1>3 DEF HInv

LEMMA EmptyMessage == NewMessage \in Messages
BY ParserAssumption, EmptySeq DEF Messages, NewMessage

(* An error is recorded for a piece that nothing is expected of.           *)
LEMMA Fails ==
  ASSUME HInv, phase # "idle", UNCHANGED <<piece, answer>>, NEW code, Fail(code),
         Expected(piece) = "nullopt"
  PROVE  HInv'
<1>1. Place' /\ NoFields'
  BY DEF Fail, Place, NoFields, States
<1> QED  BY <1>1, GoesOn DEF Fail, HInv, history

(* What the start of the piece must be is lost.                            *)
LEMMA FailsInLine ==
  ASSUME HInv, phase # "idle", UNCHANGED <<piece, answer>>, NEW code, Fail(code),
         NEW k \in 1 .. 7,
         Len(piece) < k \/
           K(k) # <<"method", "SP", "uri", "SP", "version", "CR", "LF">>[k]
  PROVE  HInv'
<1>1. Len(piece) \in Nat /\ piece \in Seq(Lexemes)
  BY LenProperties DEF HInv
<1>2. k \in {1, 2, 3, 4, 5, 6, 7}
  OBVIOUS
<1>3. ~RequestLineOf(piece)
  BY <1>1, <1>2, RequestLineKinds DEF K
<1> QED  BY <1>3, NoRequestLine, Fails

(* Data never ends before the headers do.                                  *)
LEMMA NotAtEnd ==
  ASSUME HInv, phase \in {"loop", "fields"},
         current_state \notin {"BodyValidation", "Garbage"}
  PROVE  /\ rest # <<>> /\ Len(rest) \in Nat \ {0}
         /\ Len(piece) \in Nat /\ Len(piece) >= 4 /\ EndAt(Len(piece))
<1>0. Place /\ Terminated /\ piece # <<>>
  BY DEF HInv, UnderWay
<1>1. /\ Len(piece) \in Nat /\ Len(rest) \in Nat
      /\ Len(piece) >= 4 /\ EndAt(Len(piece))
  BY <1>0, LenProperties DEF HInv, Terminated
<1>2. current_state \in {"Ready", "Method", "WaitUri", "UriStart", "Uri",
                         "WaitVersion", "Version", "HeadersWait", "Headers"}
  BY <1>0 DEF Place, States
<1>3. CASE current_state \in {"Ready", "Method", "WaitUri", "UriStart", "Uri",
                              "WaitVersion"}
  <2>1. Len(rest) >= Len(piece) - 3
    BY <1>0, <1>1, <1>3 DEF Place, Left
  <2> QED  BY <1>1, <2>1, EmptySeq
<1>4. CASE current_state = "Version"
  <2>1. Len(rest) = Len(piece) - 4 /\ K(4) = "SP"
    BY <1>0, <1>4 DEF Place, Left
  <2>2. Len(piece) # 4
    BY <1>1, <2>1 DEF EndAt
  <2> QED  BY <1>1, <2>1, <2>2, EmptySeq
<1>5. CASE current_state = "HeadersWait"
  <2>1. Len(rest) = Len(piece) - 6 /\ K(6) = "CR" /\ Len(piece) >= 6
    BY <1>0, <1>1, <1>5 DEF Place, Left
  <2>2. Len(piece) # 6
    BY <1>1, <2>1 DEF EndAt
  <2> QED  BY <1>1, <2>1, <2>2, EmptySeq
<1>6. CASE current_state = "Headers"
  <2> DEFINE m == Len(dtype.headers)
  <2>1. m \in Nat /\ InFields(m)
    BY <1>0, <1>6, LenProperties DEF Place, HInv, Messages
  <2> HIDE DEF m
  <2>2. CASE BehindLine(m)
    <3>1. Len(rest) = Len(piece) - (7 + 3 * m) /\ Len(piece) >= 7 + 3 * m
      BY <1>1, <2>1, <2>2 DEF BehindLine, Left
    <3>2. K(5 + 3 * m) # "LF"
      <4>1. CASE m = 0
        BY <2>1, <4>1, RequestLineKinds DEF InFields, FieldsRead, K, HInv
      <4>2. CASE m # 0
        <5>1. m \in 1 .. m
          BY <2>1, <4>2
        <5> QED  BY <2>1, <5>1 DEF InFields, FieldsRead
      <4> QED  BY <4>1, <4>2
    <3>3. Len(piece) # 7 + 3 * m
      <4>1. ASSUME Len(piece) = 7 + 3 * m PROVE FALSE
        <5>1. Len(piece) - 2 = 5 + 3 * m
          BY <2>1, <4>1
        <5> QED  BY <1>1, <3>2, <5>1 DEF EndAt
      <4> QED  BY <4>1
    <3> QED  BY <1>1, <2>1, <3>1, <3>3, EmptySeq
  <2>3. CASE BeforeLoneCR(m)
    <3>1. Len(rest) = Len(piece) - (5 + 3 * m) /\ Len(piece) >= 7 + 3 * m
      BY <1>1, <2>3 DEF BeforeLoneCR, Left
    <3> QED  BY <1>1, <2>1, <3>1, EmptySeq
  <2> QED  BY <2>1, <2>2, <2>3 DEF InFields
<1> QED  BY <1>1, <1>2, <1>3, <1>4, <1>5, <1>6
(* The passes of the loop in front of the headers.                         *)
LEMMA LineSteps ==
  ASSUME HInv, UNCHANGED <<piece, answer>>,
         \/ Ready \/ Method \/ WaitUri \/ UriStart \/ Uri \/ WaitVersion
         \/ Version \/ HeadersWait
  PROVE  HInv'
<1>0. phase = "loop"
  BY DEF Ready, Method, WaitUri, WaitVersion, WaitSpace, UriStart, Uri, Version,
    HeadersWait, At
<1>1. /\ piece \in Seq(Lexemes) /\ rest \in Seq(Lexemes)
      /\ dtype \in Messages /\ Place /\ NoFields
  BY <1>0 DEF HInv, UnderWay
<1>2. ASSUME current_state \notin {"BodyValidation", "Garbage"}
      PROVE  /\ rest # <<>> /\ Len(rest) \in Nat \ {0} /\ Len(piece) \in Nat
             /\ Len(piece) >= 4 /\ EndAt(Len(piece)) /\ rest[1] \in Lexemes
  <2>1. /\ rest # <<>> /\ Len(rest) \in Nat \ {0} /\ Len(piece) \in Nat
        /\ Len(piece) >= 4 /\ EndAt(Len(piece))
    BY <1>0, <1>2, NotAtEnd
  <2>2. 1 \in 1 .. Len(rest)
    BY <2>1
  <2> QED  BY <1>1, <2>1, <2>2, ElementOfSeq
<1>3. ASSUME NEW p \in Nat, Left(p), NEW n \in Nat, n <= Len(rest), rest' = Drop(n)
      PROVE  Left(p + n)'
  BY <1>1, <1>3, LeftDrop
<1>4. ASSUME NEW s, NEW n \in Nat, Goto(s, n)
      PROVE  /\ rest' \in Seq(Lexemes) /\ rest' = Drop(n) /\ current_state' = s
             /\ phase' = "loop" /\ total' = total
  BY <1>0, <1>1, <1>4, DropType DEF Goto
<1>5. CASE Ready
  <2>1. /\ UNCHANGED <<rest, dtype, total, phase>> /\ current_state = "Ready"
        /\ current_state' = "Method"
    BY <1>5 DEF Ready, At
  <2>2. Place' /\ NoFields'
    BY <1>1, <2>1 DEF Place, NoFields, Left, States
  <2> QED  BY <1>0, <1>1, <2>1, <2>2, GoesOn
<1>6. CASE Method
  <2>0. current_state = "Method" /\ Left(0)
    BY <1>1, <1>6 DEF Method, At, Place
  <2>1. Len(rest) = Len(piece) /\ rest[1] = piece[1] /\ rest[2] = piece[2]
    BY <1>2, <2>0 DEF Left
  <2>2. CASE MethodOk
    <3>1. Goto("WaitUri", 1) /\ dtype' = [dtype EXCEPT !.method = rest[1]]
      BY <1>6, <2>2 DEF Method
    <3>2. dtype' \in Messages /\ dtype'.headers = dtype.headers
      BY <1>1, <1>2, <2>0, <3>1 DEF Messages
    <3>3. Left(1)'
      BY <1>2, <1>3, <1>4, <2>0, <3>1
    <3>4. K(1)' = "method"
      BY <2>1, <2>2 DEF MethodOk, K
    <3>5. Place' /\ NoFields'
      BY <1>1, <1>4, <2>0, <3>1, <3>2, <3>3, <3>4 DEF Place, NoFields, States
    <3> QED  BY <1>0, <1>4, <3>1, <3>2, <3>5, GoesOn
  <2>3. CASE ~MethodOk
    <3>1. Fail("BadMethod")
      BY <1>6, <2>3 DEF Method
    <3>2. CASE rest[1].kind # "method"
      <4>1. 1 \in 1 .. 7 /\ K(1) # <<"method", "SP", "uri", "SP", "version", "CR", "LF">>[1]
        BY <2>1, <3>2 DEF K
      <4> QED  BY <1>0, <3>1, <4>1, FailsInLine
    <3>3. CASE rest[1].kind = "method"
      <4>1. 2 \in 1 .. 7 /\ K(2) # <<"method", "SP", "uri", "SP", "version", "CR", "LF">>[2]
        BY <1>2, <2>0, <2>1, <2>3, <3>3 DEF K, MethodOk, EndsAt
      <4> QED  BY <1>0, <3>1, <4>1, FailsInLine
    <3> QED  BY <3>2, <3>3
  <2> QED  BY <2>2, <2>3
<1>7. CASE WaitUri
  <2>0. current_state = "WaitUri" /\ Left(1) /\ K(1) = "method"
    BY <1>1, <1>7 DEF WaitUri, WaitSpace, At, Place
  <2>1. rest[1] = piece[2]
    BY <1>2, <2>0 DEF Left
  <2>2. CASE rest[1].kind = "SP"
    <3>1. Goto("UriStart", 1) /\ dtype' = dtype
      BY <1>7, <2>2 DEF WaitUri, WaitSpace
    <3>2. Left(2)'
      BY <1>2, <1>3, <1>4, <2>0, <3>1
    <3>3. K(1)' = "method" /\ K(2)' = "SP"
      BY <2>0, <2>1, <2>2 DEF K
    <3>4. Place' /\ NoFields'
      BY <1>1, <1>4, <2>0, <3>1, <3>2, <3>3 DEF Place, NoFields, States
    <3> QED  BY <1>0, <1>1, <1>4, <3>1, <3>4, GoesOn
  <2>3. CASE rest[1].kind # "SP"
    <3>1. Fail("BadRequest")
      BY <1>7, <2>3 DEF WaitUri, WaitSpace
    <3>2. 2 \in 1 .. 7 /\ K(2) # <<"method", "SP", "uri", "SP", "version", "CR", "LF">>[2]
      BY <2>1, <2>3 DEF K
    <3> QED  BY <1>0, <3>1, <3>2, FailsInLine
  <2> QED  BY <2>2, <2>3
<1>8. CASE UriStart
  <2>0. current_state = "UriStart" /\ Left(2) /\ K(1) = "method" /\ K(2) = "SP"
    BY <1>1, <1>8 DEF UriStart, At, Place
  <2>1. rest[1] = piece[3]
    BY <1>2, <2>0 DEF Left
  <2>2. CASE rest[1].kind \in {"uri", "badUri"}
    <3>1. Goto("Uri", 0) /\ dtype' = dtype
      BY <1>8, <2>2 DEF UriStart
    <3>2. Left(2)'
      <4>1. Left(2 + 0)'
        BY <1>2, <1>3, <1>4, <2>0, <3>1
      <4> QED  BY <4>1
    <3>3. K(1)' = "method" /\ K(2)' = "SP"
      BY <2>0 DEF K
    <3>4. Place' /\ NoFields'
      BY <1>1, <1>4, <2>0, <3>1, <3>2, <3>3 DEF Place, NoFields, States
    <3> QED  BY <1>0, <1>1, <1>4, <3>1, <3>4, GoesOn
  <2>3. CASE rest[1].kind \notin {"uri", "badUri"}
    <3>1. Fail("BadUri")
      BY <1>8, <2>3 DEF UriStart
    <3>2. 3 \in 1 .. 7 /\ K(3) # <<"method", "SP", "uri", "SP", "version", "CR", "LF">>[3]
      BY <2>1, <2>3 DEF K
    <3> QED  BY <1>0, <3>1, <3>2, FailsInLine
  <2> QED  BY <2>2, <2>3
<1>9. CASE Uri
  <2>0. current_state = "Uri" /\ Left(2) /\ K(1) = "method" /\ K(2) = "SP"
    BY <1>1, <1>9 DEF Uri, At, Place
  <2>1. /\ Len(rest) = Len(piece) - 2
        /\ rest[1] = piece[3] /\ rest[2] = piece[4]
    BY <1>2, <2>0 DEF Left
  <2>2. CASE UriOk
    <3>1. Goto("WaitVersion", 1) /\ dtype' = [dtype EXCEPT !.path = rest[1]]
      BY <1>9, <2>2 DEF Uri
    <3>2. dtype' \in Messages /\ dtype'.headers = dtype.headers
      BY <1>1, <1>2, <2>0, <3>1 DEF Messages
    <3>3. Left(3)'
      BY <1>2, <1>3, <1>4, <2>0, <3>1
    <3>4. K(1)' = "method" /\ K(2)' = "SP" /\ K(3)' = "uri"
      BY <2>0, <2>1, <2>2 DEF UriOk, K
    <3>5. Place' /\ NoFields'
      BY <1>1, <1>4, <2>0, <3>1, <3>2, <3>3, <3>4 DEF Place, NoFields, States
    <3> QED  BY <1>0, <1>4, <3>1, <3>2, <3>5, GoesOn
  <2>3. CASE ~UriOk
    <3>1. Fail("BadUri")
      BY <1>9, <2>3 DEF Uri
    <3>2. CASE rest[1].kind # "uri"
      <4>1. 3 \in 1 .. 7 /\ K(3) # <<"method", "SP", "uri", "SP", "version", "CR", "LF">>[3]
        BY <2>1, <3>2 DEF K
      <4> QED  BY <1>0, <3>1, <4>1, FailsInLine
    <3>3. CASE rest[1].kind = "uri"
      <4>1. 4 \in 1 .. 7 /\ K(4) # <<"method", "SP", "uri", "SP", "version", "CR", "LF">>[4]
        BY <1>2, <2>0, <2>1, <2>3, <3>3 DEF K, UriOk, EndsAt
      <4> QED  BY <1>0, <3>1, <4>1, FailsInLine
    <3> QED  BY <3>2, <3>3
  <2> QED  BY <2>2, <2>3
<1>10. CASE WaitVersion
  <2>0. /\ current_state = "WaitVersion" /\ Left(3)
        /\ K(1) = "method" /\ K(2) = "SP" /\ K(3) = "uri"
    BY <1>1, <1>10 DEF WaitVersion, WaitSpace, At, Place
  <2>1. rest[1] = piece[4]
    BY <1>2, <2>0 DEF Left
  <2>2. CASE rest[1].kind = "SP"
    <3>1. Goto("Version", 1) /\ dtype' = dtype
      BY <1>10, <2>2 DEF WaitVersion, WaitSpace
    <3>2. Left(4)'
      BY <1>2, <1>3, <1>4, <2>0, <3>1
    <3>3. K(1)' = "method" /\ K(2)' = "SP" /\ K(3)' = "uri" /\ K(4)' = "SP"
      BY <2>0, <2>1, <2>2 DEF K
    <3>4. Place' /\ NoFields'
      BY <1>1, <1>4, <2>0, <3>1, <3>2, <3>3 DEF Place, NoFields, States
    <3> QED  BY <1>0, <1>1, <1>4, <3>1, <3>4, GoesOn
  <2>3. CASE rest[1].kind # "SP"
    <3>1. Fail("BadRequest")
      BY <1>10, <2>3 DEF WaitVersion, WaitSpace
    <3>2. 4 \in 1 .. 7 /\ K(4) # <<"method", "SP", "uri", "SP", "version", "CR", "LF">>[4]
      BY <2>1, <2>3 DEF K
    <3> QED  BY <1>0, <3>1, <3>2, FailsInLine
  <2> QED  BY <2>2, <2>3
<1>11. CASE Version
  <2>0. /\ current_state = "Version" /\ Left(4)
        /\ K(1) = "method" /\ K(2) = "SP" /\ K(3) = "uri" /\ K(4) = "SP"
    BY <1>1, <1>11 DEF Version, At, Place
  <2>1. /\ Len(rest) = Len(piece) - 4 /\ rest[1] = piece[5]
        /\ Len(rest) >= 2 => rest[2] = piece[6]
    BY <1>2, <2>0 DEF Left
  <2>2. VersionOk <=> Len(rest) >= 2 /\ rest[1].kind = "version" /\ rest[2].kind = "CR"
    <3> DEFINE w == <<"version", "CR">>
    <3>1. Len(w) = 2 /\ w[1] = "version" /\ w[2] = "CR" /\ 1 .. 2 = {1, 2}
      OBVIOUS
    <3>2. VersionOk <=> Len(rest) >= Len(w) /\ \A i \in 1 .. Len(w) : rest[i].kind = w[i]
      BY DEF VersionOk, StartsWith
    <3> HIDE DEF w
    <3> QED  BY <3>1, <3>2
  <2>3. CASE VersionOk /\ Goto("HeadersWait", 2) /\ dtype' = [dtype EXCEPT !.version = rest[1]]
    <3>1. dtype' \in Messages /\ dtype'.headers = dtype.headers
      BY <1>1, <1>2, <2>0, <2>3 DEF Messages
    <3>2. Left(6)'
      BY <1>2, <1>3, <1>4, <2>0, <2>2, <2>3
    <3>3. K(1)' = "method" /\ K(2)' = "SP" /\ K(3)' = "uri" /\ K(4)' = "SP"
      BY <2>0 DEF K
    <3>4. K(5)' = "version" /\ K(6)' = "CR"
      BY <2>1, <2>2, <2>3 DEF K
    <3>5. Place' /\ NoFields'
      BY <1>1, <1>4, <2>0, <2>3, <3>1, <3>2, <3>3, <3>4 DEF Place, NoFields, States
    <3> QED  BY <1>0, <1>4, <2>3, <3>1, <3>5, GoesOn
  <2>4. CASE ~VersionOk /\ Fail("BadVersion")
    <3>1. CASE rest[1].kind # "version"
      <4>1. 5 \in 1 .. 7 /\ K(5) # <<"method", "SP", "uri", "SP", "version", "CR", "LF">>[5]
        BY <2>1, <3>1 DEF K
      <4> QED  BY <1>0, <2>4, <4>1, FailsInLine
    <3>2. CASE rest[1].kind = "version"
      <4>1. /\ 6 \in 1 .. 7
            /\ \/ Len(piece) < 6
               \/ K(6) # <<"method", "SP", "uri", "SP", "version", "CR", "LF">>[6]
        BY <1>2, <2>0, <2>1, <2>2, <2>4, <3>2 DEF K
      <4> QED  BY <1>0, <2>4, <4>1, FailsInLine
    <3> QED  BY <3>1, <3>2
  <2>5. ~(rest[1].kind = "http" /\ Len(rest) = 1)
    <3>1. ASSUME Len(rest) = 1 PROVE Len(piece) = 5
      <4>1. Len(piece) \in Nat /\ Len(piece) - 4 = 1
        BY <1>2, <2>0, <2>1, <3>1
      <4> QED  BY <4>1
    <3>2. K(Len(piece)) = "LF"
      BY <1>2, <2>0 DEF EndAt
    <3>3. Len(rest) = 1 => K(5) = "LF"
      BY <3>1, <3>2
    <3> QED  BY <2>1, <3>3 DEF K
  <2> QED  BY <1>11, <2>3, <2>4, <2>5 DEF Version
<1>12. CASE HeadersWait
  <2>0. /\ current_state = "HeadersWait" /\ Left(6)
        /\ K(1) = "method" /\ K(2) = "SP" /\ K(3) = "uri" /\ K(4) = "SP"
        /\ K(5) = "version" /\ K(6) = "CR" /\ dtype.headers = <<>>
    BY <1>1, <1>12 DEF HeadersWait, At, Place, NoFields
  <2>1. rest[1] = piece[7] /\ Len(piece) >= 7
    BY <1>2, <2>0 DEF Left
  <2>2. CASE rest[1].kind = "LF"
    <3>1. Goto("Headers", 1) /\ dtype' = dtype
      BY <1>12, <2>2 DEF HeadersWait
    <3>2. Left(7)'
      BY <1>2, <1>3, <1>4, <2>0, <3>1
    <3>3. RequestLineOf(piece)
      BY <1>1, <2>0, <2>1, <2>2, RequestLineKinds DEF K
    <3>4. InFields(0)'
      BY <3>2, <3>3 DEF InFields, FieldsRead, BehindLine
    <3>5. Len(dtype'.headers) = 0
      BY <2>0, <3>1
    <3>6. InFields(Len(dtype.headers))'
      BY <3>4, <3>5
    <3>7. Place' /\ NoFields'
      BY <1>1, <1>4, <2>0, <3>1, <3>6 DEF Place, NoFields, States
    <3> QED  BY <1>0, <1>1, <1>4, <3>1, <3>7, GoesOn
  <2>3. CASE rest[1].kind # "LF"
    <3>1. Fail("PartialMessage")
      BY <1>12, <2>3 DEF HeadersWait
    <3>2. 7 \in 1 .. 7 /\ K(7) # <<"method", "SP", "uri", "SP", "version", "CR", "LF">>[7]
      BY <2>1, <2>3 DEF K
    <3> QED  BY <1>0, <3>1, <3>2, FailsInLine
  <2> QED  BY <2>2, <2>3
<1> QED  BY <1>5, <1>6, <1>7, <1>8, <1>9, <1>10, <1>11, <1>12
-----------------------------------------------------------------------------
(* Steps of ParseHeaders.                                                  *)

(* No Host lacks its port among the fields read, nor behind them if no     *)
(* field can be reached there.                                             *)
LEMMA NotPortless ==
  ASSUME piece \in Seq(Lexemes), NEW m \in Nat, FieldsRead(m),
         \A i \in m + 1 .. (Len(piece) - 6) \div 3 :
           ~(/\ \A j \in 1 .. i - 1 : IsLine(piece, j)
             /\ K(5 + 3 * i) = "field" /\ K(6 + 3 * i) = "CR")
  PROVE  ~Portless(piece)
<1> SUFFICES ASSUME Portless(piece) PROVE FALSE
  OBVIOUS
<1>0. Len(piece) \in Nat
  BY LenProperties
<1>1. PICK i \in 1 .. (Len(piece) - 6) \div 3 :
        /\ \A j \in 1 .. i - 1 : IsLine(piece, j)
        /\ StartsWith(SubSeq(piece, 5 + 3 * i, 6 + 3 * i), <<"field", "CR">>)
        /\ piece[5 + 3 * i].name \in {"Host", "host"}
        /\ piece[5 + 3 * i].value \notin WithPort
  BY DEF Portless
<1>2. i \in Nat /\ 6 + 3 * i <= Len(piece)
  BY <1>0
<1>3. K(5 + 3 * i) = "field" /\ K(6 + 3 * i) = "CR"
  BY <1>1, <1>2, FieldKinds DEF K
<1>4. CASE i <= m
  <2>1. i \in 1 .. m
    BY <1>2, <1>4
  <2> QED  BY <1>1, <2>1 DEF FieldsRead, IsHost
<1>5. CASE i > m
  <2>1. i \in m + 1 .. (Len(piece) - 6) \div 3
    BY <1>0, <1>5
  <2> QED  BY <1>1, <1>3, <2>1
<1> QED  BY <1>2, <1>4, <1>5

(* Where ParseHeaders stands.                                              *)
LEMMA InLines ==
  ASSUME HInv, phase = "fields"
  PROVE  /\ piece \in Seq(Lexemes) /\ Len(piece) \in Nat /\ Len(rest) \in Nat \ {0}
         /\ rest \in Seq(Lexemes) /\ rest[1] \in Lexemes
         /\ Len(piece) >= 4 /\ EndAt(Len(piece))
         /\ dtype \in Messages /\ Len(dtype.headers) \in Nat
         /\ current_state = "Headers" /\ answer = "none"
         /\ InFields(Len(dtype.headers))
<1>1. piece \in Seq(Lexemes) /\ rest \in Seq(Lexemes) /\ dtype \in Messages /\ UnderWay
  BY DEF HInv
<1>2. current_state = "Headers"
  BY <1>1 DEF UnderWay, Place, States
<1>3. /\ Len(rest) \in Nat \ {0} /\ Len(piece) \in Nat
      /\ Len(piece) >= 4 /\ EndAt(Len(piece))
  BY <1>2, NotAtEnd
<1>4. 1 \in 1 .. Len(rest)
  BY <1>3
<1>5. rest[1] \in Lexemes
  BY <1>1, <1>4, ElementOfSeq
<1>6. Len(dtype.headers) \in Nat
  BY <1>1, LenProperties DEF Messages
<1>7. InFields(Len(dtype.headers))
  BY <1>1, <1>2 DEF UnderWay, Place
<1> QED  BY <1>1, <1>2, <1>3, <1>5, <1>6, <1>7 DEF UnderWay

(* A field that is accepted begins where a line does.                      *)
LEMMA FieldFound ==
  ASSUME HInv, phase = "fields", FieldOk, NEW m \in Nat, m = Len(dtype.headers)
  PROVE  /\ FieldsRead(m) /\ Left(7 + 3 * m)
         /\ Len(piece) >= 10 + 3 * m
         /\ rest[1] = piece[8 + 3 * m] /\ rest[1] \in Fields
         /\ K(8 + 3 * m) = "field" /\ K(9 + 3 * m) = "CR"
         /\ \A i \in 1 .. m : IsLine(piece, i)
<1>0. /\ piece \in Seq(Lexemes) /\ Len(piece) \in Nat /\ Len(rest) \in Nat \ {0}
      /\ rest[1] \in Lexemes /\ EndAt(Len(piece)) /\ InFields(m)
  BY InLines
<1>1. rest[1].kind = "field" /\ (Len(rest) > 1 => rest[2].kind = "CR")
  BY DEF FieldOk, EndsAt
<1>2. ~BeforeLoneCR(m)
  <2> SUFFICES ASSUME BeforeLoneCR(m) PROVE FALSE
    OBVIOUS
  <2>1. m \in 1 .. m /\ Left(5 + 3 * m)
    BY DEF BeforeLoneCR
  <2>2. rest[1] = piece[5 + 3 * m + 1]
    BY <1>0, <2>1 DEF Left
  <2>3. 5 + 3 * m + 1 = 6 + 3 * m
    OBVIOUS
  <2>4. K(6 + 3 * m) = "CR"
    BY <1>0, <2>1 DEF InFields, FieldsRead
  <2> QED  BY <1>1, <2>2, <2>3, <2>4 DEF K
<1>3. FieldsRead(m) /\ BehindLine(m) /\ Left(7 + 3 * m)
  BY <1>0, <1>2 DEF InFields, BehindLine
<1>4. Len(rest) = Len(piece) - (7 + 3 * m)
  BY <1>3 DEF Left
<1>5. rest[1] = piece[8 + 3 * m]
  <2>1. rest[1] = piece[7 + 3 * m + 1]
    BY <1>0, <1>3 DEF Left
  <2>2. 7 + 3 * m + 1 = 8 + 3 * m
    OBVIOUS
  <2> QED  BY <2>1, <2>2
<1>6. K(Len(piece)) = "LF"
  BY <1>0 DEF EndAt
<1>7. K(8 + 3 * m) = "field" /\ Len(piece) # 8 + 3 * m
  BY <1>1, <1>5, <1>6 DEF K
<1>8. Len(piece) >= 9 + 3 * m /\ Len(rest) > 1
  <2>1. Len(piece) >= 8 + 3 * m
    BY <1>0, <1>4
  <2>2. Len(piece) >= 9 + 3 * m
    BY <1>0, <1>7, <2>1
  <2>3. \A n, k \in Nat : n >= 9 + 3 * k => n - (7 + 3 * k) > 1
    OBVIOUS
  <2>4. Len(piece) - (7 + 3 * m) > 1
    BY <1>0, <2>2, <2>3, Zenon
  <2> QED  BY <1>4, <2>2, <2>4
<1>9. K(9 + 3 * m) = "CR"
  <2>1. 2 \in 1 .. Len(rest)
    BY <1>0, <1>8
  <2>2. rest[2] = piece[7 + 3 * m + 2]
    BY <1>3, <2>1 DEF Left
  <2>3. 7 + 3 * m + 2 = 9 + 3 * m
    OBVIOUS
  <2> QED  BY <1>1, <1>8, <2>2, <2>3 DEF K
<1>10. Len(piece) >= 10 + 3 * m
  <2>1. Len(piece) # 9 + 3 * m
    BY <1>6, <1>9
  <2> QED  BY <1>0, <1>8, <2>1
<1>11. \A i \in 1 .. m : IsLine(piece, i)
  <2> TAKE i \in 1 .. m
  <2>1. i \in Nat /\ 7 + 3 * i <= Len(piece)
    BY <1>0, <1>10
  <2>2. K(5 + 3 * i) = "field" /\ K(6 + 3 * i) = "CR"
    BY <1>3 DEF FieldsRead
  <2>3. K(7 + 3 * i) = "LF"
    <3>1. CASE i = m
      BY <1>3, <3>1 DEF BehindLine
    <3>2. CASE i # m
      <4>1. i \in 1 .. m - 1
        BY <3>2
      <4> QED  BY <1>3, <4>1 DEF FieldsRead
    <3> QED  BY <3>1, <3>2
  <2> QED  BY <1>0, <2>1, <2>2, <2>3, LineKinds DEF K
<1>12. rest[1] \in Fields
  BY <1>0, <1>1, FieldLexeme
<1> QED  BY <1>3, <1>5, <1>7, <1>9, <1>10, <1>11, <1>12

(* What is no field where one should be is nothing to answer.              *)
LEMMA FieldBadStep ==
  ASSUME HInv, UNCHANGED <<piece, answer>>, FieldBad
  PROVE  HInv'
<1>0. phase = "fields" /\ ~FieldOk /\ Fail("BadRequest")
  BY DEF FieldBad
<1>1. PICK m \in Nat : m = Len(dtype.headers)
  BY <1>0, InLines
<1>2. /\ piece \in Seq(Lexemes) /\ Len(piece) \in Nat /\ Len(rest) \in Nat \ {0}
      /\ FieldsRead(m) /\ (BehindLine(m) \/ BeforeLoneCR(m))
  BY <1>0, <1>1, InLines DEF InFields
<1>3. CASE BehindLine(m)
  <2>1. Left(7 + 3 * m) /\ Len(rest) = Len(piece) - (7 + 3 * m)
    BY <1>3 DEF BehindLine, Left
  <2>2. rest[1] = piece[8 + 3 * m]
    <3>0. 1 \in 1 .. Len(rest)
      BY <1>2
    <3>1. rest[1] = piece[7 + 3 * m + 1]
      BY <2>1, <3>0 DEF Left
    <3>2. 7 + 3 * m + 1 = 8 + 3 * m
      OBVIOUS
    <3> QED  BY <3>1, <3>2
  <2>3. Len(rest) > 1 => rest[2] = piece[9 + 3 * m]
    <3>1. 7 + 3 * m + 2 = 9 + 3 * m
      OBVIOUS
    <3>2. Len(rest) > 1 => 2 \in 1 .. Len(rest)
      BY <1>2
    <3> QED  BY <2>1, <3>1, <3>2 DEF Left
  <2>4. ~(K(8 + 3 * m) = "field" /\ K(9 + 3 * m) = "CR")
    BY <1>0, <2>2, <2>3 DEF FieldOk, EndsAt, K
  <2>5. 5 + 3 * (m + 1) = 8 + 3 * m /\ 6 + 3 * (m + 1) = 9 + 3 * m
    OBVIOUS
  <2>6. 7 + 3 * (m + 1) <= Len(piece) => ~IsLine(piece, m + 1)
    BY <1>2, <2>4, <2>5, LineKinds DEF K
  <2>7. ~Portless(piece)
    <3> SUFFICES ASSUME NEW i \in m + 1 .. (Len(piece) - 6) \div 3,
                        \A j \in 1 .. i - 1 : IsLine(piece, j),
                        K(5 + 3 * i) = "field", K(6 + 3 * i) = "CR"
                 PROVE  FALSE
      BY <1>2, NotPortless
    <3>1. CASE i = m + 1
      BY <2>4, <2>5, <3>1
    <3>2. CASE i # m + 1
      <4>1. m + 1 \in 1 .. i - 1 /\ 7 + 3 * (m + 1) <= Len(piece)
        BY <1>2, <3>2
      <4> QED  BY <2>6, <4>1
    <3> QED  BY <3>1, <3>2
  <2>8. ASSUME IsWholeHead(piece), HasHeader(FieldsOf(piece), "Host") PROVE FALSE
    <3> DEFINE n == FieldCount(piece)
    <3>1. n \in Nat /\ Len(piece) = 9 + 3 * n /\ \A i \in 1 .. n : IsLine(piece, i)
      BY <1>2, <2>8 DEF IsWholeHead, FieldCount
    <3>2. n >= m
      <4> HIDE DEF n
      <4> QED  BY <1>2, <2>1, <3>1
    <3>3. CASE n = m
      <4>1. m = 0
        BY <1>3, <3>1, <3>3 DEF BehindLine
      <4>2. FieldsOf(piece) = <<>>
        BY <3>3, <4>1 DEF FieldsOf
      <4> QED  BY <2>8, <4>2 DEF HasHeader
    <3>4. CASE n # m
      <4> HIDE DEF n
      <4>1. m + 1 \in 1 .. n /\ 7 + 3 * (m + 1) <= Len(piece)
        BY <3>1, <3>2, <3>4
      <4> QED  BY <2>6, <3>1, <4>1
    <3> QED  BY <3>3, <3>4
  <2> QED  BY <1>0, <2>7, <2>8, ExpectedCases, Fails
<1>4. CASE BeforeLoneCR(m)
  <2>1. m > 0 /\ 7 + 3 * m <= Len(piece) /\ ~IsLine(piece, m)
    BY <1>2, <1>4, LineKinds DEF BeforeLoneCR, K
  <2>2. ~Portless(piece)
    <3> SUFFICES ASSUME NEW i \in m + 1 .. (Len(piece) - 6) \div 3,
                        \A j \in 1 .. i - 1 : IsLine(piece, j)
                 PROVE  FALSE
      BY <1>2, NotPortless
    <3>1. m \in 1 .. i - 1
      BY <1>2, <2>1
    <3> QED  BY <2>1, <3>1
  <2>3. ASSUME IsWholeHead(piece) PROVE FALSE
    <3> DEFINE n == FieldCount(piece)
    <3>1. n \in Nat /\ Len(piece) = 9 + 3 * n /\ \A i \in 1 .. n : IsLine(piece, i)
      BY <1>2, <2>3 DEF IsWholeHead, FieldCount
    <3> HIDE DEF n
    <3>2. m \in 1 .. n
      BY <1>2, <2>1, <3>1
    <3> QED  BY <2>1, <3>1, <3>2
  <2> QED  BY <1>0, <2>2, <2>3, ExpectedCases, Fails
<1> QED  BY <1>2, <1>3, <1>4

(* A Host without a port makes Parse throw, and should.                    *)
LEMMA HostWithoutPortStep ==
  ASSUME HInv, UNCHANGED <<piece, answer>>, HostWithoutPort
  PROVE  HInv'
<1>0. /\ phase = "fields" /\ FieldOk /\ IsHost(rest[1]) /\ rest[1].value \notin WithPort
      /\ phase' = "idle" /\ outcome' = Thrown /\ dtype' = NewMessage
      /\ rest' = rest /\ total' = total
  BY DEF HostWithoutPort, Return
<1>1. PICK m \in Nat : m = Len(dtype.headers)
  BY <1>0, InLines
<1>2. /\ piece \in Seq(Lexemes) /\ Len(piece) \in Nat
      /\ FieldsRead(m) /\ Len(piece) >= 10 + 3 * m /\ rest[1] = piece[8 + 3 * m]
      /\ K(8 + 3 * m) = "field" /\ K(9 + 3 * m) = "CR"
      /\ \A i \in 1 .. m : IsLine(piece, i)
  BY <1>0, <1>1, InLines, FieldFound
<1>3. Portless(piece)
  <2>1. /\ m + 1 \in 1 .. (Len(piece) - 6) \div 3 /\ m + 1 \in Nat
        /\ 6 + 3 * (m + 1) <= Len(piece) /\ m + 1 - 1 = m
        /\ 5 + 3 * (m + 1) = 8 + 3 * m /\ 6 + 3 * (m + 1) = 9 + 3 * m
    BY <1>2
  <2>2. StartsWith(SubSeq(piece, 5 + 3 * (m + 1), 6 + 3 * (m + 1)), <<"field", "CR">>)
    BY <1>2, <2>1, FieldKinds DEF K
  <2>3. /\ piece[5 + 3 * (m + 1)].name \in {"Host", "host"}
        /\ piece[5 + 3 * (m + 1)].value \notin WithPort
    BY <1>0, <1>2, <2>1 DEF IsHost
  <2>4. RequestLineOf(piece)
    BY <1>2 DEF FieldsRead
  <2>5. \A j \in 1 .. m + 1 - 1 : IsLine(piece, j)
    BY <1>2, <2>1
  <2> QED  BY <2>1, <2>2, <2>3, <2>4, <2>5 DEF Portless
<1>4. Over'
  BY <1>0, <1>3, ExpectedCases DEF Over
<1> QED  BY <1>0, <1>4, EmptyMessage, Ends

(* LineEnd of the lexemes behind a value, for the position of the value.   *)
LEMMA LineEndKinds ==
  ASSUME NEW d \in Seq(Lexemes), NEW p \in Nat, Len(piece) \in Nat,
         Len(d) = Len(piece) - p, p + 2 <= Len(piece),
         \A i \in 1 .. Len(d) : d[i] = piece[p + i], K(p + 1) = "CR"
  PROVE  /\ LineEnd(d) \in {0, 2, 4}
         /\ LineEnd(d) = 4 <=>
              /\ p + 4 <= Len(piece)
              /\ K(p + 2) = "LF" /\ K(p + 3) = "CR" /\ K(p + 4) = "LF"
         /\ LineEnd(d) = 0 <=> K(p + 2) # "LF"
<1> DEFINE w == <<"CR", "LF", "CR", "LF">>
           v == <<"CR", "LF">>
<1>1. /\ Len(w) = 4 /\ w[1] = "CR" /\ w[2] = "LF" /\ w[3] = "CR" /\ w[4] = "LF"
      /\ Len(v) = 2 /\ v[1] = "CR" /\ v[2] = "LF"
      /\ 1 .. 4 = {1, 2, 3, 4} /\ 1 .. 2 = {1, 2}
  OBVIOUS
<1>2. StartsWith(d, w) <=> Len(d) >= 4 /\ \A i \in 1 .. 4 : d[i].kind = w[i]
  BY <1>1 DEF StartsWith
<1>3. StartsWith(d, v) <=> Len(d) >= 2 /\ \A i \in 1 .. 2 : d[i].kind = v[i]
  BY <1>1 DEF StartsWith
<1>4. LineEnd(d) = IF StartsWith(d, w) THEN 4 ELSE IF StartsWith(d, v) THEN 2 ELSE 0
  BY DEF LineEnd
<1> HIDE DEF w, v
<1>5. Len(d) >= 2 /\ d[1] = piece[p + 1] /\ d[2] = piece[p + 2]
  <2>1. Len(d) \in Nat /\ Len(d) >= 2
    OBVIOUS
  <2>2. 1 \in 1 .. Len(d) /\ 2 \in 1 .. Len(d)
    BY <2>1
  <2> QED  BY <2>1, <2>2
<1>6. Len(d) >= 4 <=> p + 4 <= Len(piece)
  OBVIOUS
<1>7. Len(d) >= 4 => d[3] = piece[p + 3] /\ d[4] = piece[p + 4]
  <2>1. Len(d) >= 4 => 3 \in 1 .. Len(d) /\ 4 \in 1 .. Len(d)
    BY LenProperties
  <2> QED  BY <2>1
<1>8. StartsWith(d, w) <=>
        /\ p + 4 <= Len(piece)
        /\ K(p + 2) = "LF" /\ K(p + 3) = "CR" /\ K(p + 4) = "LF"
  BY <1>1, <1>2, <1>5, <1>6, <1>7 DEF K
<1>9. StartsWith(d, v) <=> K(p + 2) = "LF"
  BY <1>1, <1>3, <1>5 DEF K
<1> QED  BY <1>4, <1>8, <1>9

(* A field is read.                                                        *)
LEMMA FieldStep ==
  ASSUME HInv, UNCHANGED <<piece, answer>>, Field
  PROVE  HInv'
<1> DEFINE d    == Drop(1)
           skip == LineEnd(d)
<1>0. /\ phase = "fields" /\ FieldOk /\ (IsHost(rest[1]) => rest[1].value \in WithPort)
      /\ dtype' = [dtype EXCEPT
           !.headers = Append(@, rest[1]),
           !.host = IF IsHost(rest[1]) THEN rest[1].value ELSE @]
      /\ rest' = Drop(1 + skip)
      /\ phase' = IF skip = 4 \/ rest' = <<>> THEN "fieldsEnd" ELSE "fields"
      /\ UNCHANGED <<current_state, total>>
  BY DEF Field
<1>1. PICK m \in Nat : m = Len(dtype.headers)
  BY <1>0, InLines
<1>2. /\ piece \in Seq(Lexemes) /\ Len(piece) \in Nat /\ rest \in Seq(Lexemes)
      /\ Len(rest) \in Nat \ {0} /\ dtype \in Messages
      /\ Len(piece) >= 4 /\ EndAt(Len(piece)) /\ current_state = "Headers"
  BY <1>0, InLines
<1>3. /\ FieldsRead(m) /\ Left(7 + 3 * m) /\ Len(piece) >= 10 + 3 * m
      /\ rest[1] = piece[8 + 3 * m] /\ rest[1] \in Fields
      /\ K(8 + 3 * m) = "field" /\ K(9 + 3 * m) = "CR"
      /\ \A i \in 1 .. m : IsLine(piece, i)
  BY <1>0, <1>1, FieldFound
<1>4. /\ dtype' \in Messages /\ dtype'.headers = Append(dtype.headers, rest[1])
      /\ Len(dtype'.headers) = m + 1 /\ dtype'.headers \in Seq(Fields)
      /\ \A i \in 1 .. m : dtype'.headers[i] = dtype.headers[i]
      /\ dtype'.headers[m + 1] = rest[1]
  <2>1. dtype.headers \in Seq(Fields) /\ dtype.host \in Values \cup {Unset}
    BY <1>2 DEF Messages
  <2>2. /\ Append(dtype.headers, rest[1]) \in Seq(Fields)
        /\ Len(Append(dtype.headers, rest[1])) = m + 1
        /\ \A i \in 1 .. m : Append(dtype.headers, rest[1])[i] = dtype.headers[i]
        /\ Append(dtype.headers, rest[1])[m + 1] = rest[1]
    BY <1>1, <1>3, <2>1, AppendProperties
  <2>3. rest[1].value \in Values
    BY <1>3 DEF Fields
  <2>4. dtype'.headers = Append(dtype.headers, rest[1])
    BY <1>0, <1>2 DEF Messages
  <2>5. dtype' \in Messages
    BY <1>0, <1>2, <2>1, <2>2, <2>3 DEF Messages
  <2> QED  BY <2>2, <2>4, <2>5
<1>5. 5 + 3 * (m + 1) = 8 + 3 * m /\ 6 + 3 * (m + 1) = 9 + 3 * m
      /\ 7 + 3 * (m + 1) = 10 + 3 * m /\ 9 + 3 * (m + 1) = 12 + 3 * m
  OBVIOUS
<1>6. FieldsRead(m + 1)'
  <2>1. ASSUME NEW i \in 1 .. m + 1
        PROVE  /\ dtype'.headers[i] = piece[5 + 3 * i]
               /\ K(5 + 3 * i) = "field" /\ K(6 + 3 * i) = "CR"
               /\ IsHost(piece[5 + 3 * i]) => piece[5 + 3 * i].value \in WithPort
    <3>1. CASE i \in 1 .. m
      BY <1>3, <1>4, <3>1 DEF FieldsRead
    <3>2. CASE i = m + 1
      BY <1>0, <1>3, <1>4, <1>5, <3>2
    <3> QED  BY <3>1, <3>2
  <2>2. ASSUME NEW i \in 1 .. m + 1 - 1
        PROVE  K(7 + 3 * i) = "LF"
    <3>1. i \in 1 .. m /\ i \in Nat /\ 7 + 3 * i <= Len(piece)
      BY <1>2, <1>3
    <3> QED  BY <1>2, <1>3, <3>1, LineKinds DEF K
  <2> QED  BY <1>3, <2>1, <2>2, SMTT(30) DEF FieldsRead, K
<1>7. /\ d \in Seq(Lexemes) /\ Len(d) = Len(piece) - (8 + 3 * m)
      /\ \A i \in 1 .. Len(d) : d[i] = piece[8 + 3 * m + i]
  <2>1. d \in Seq(Lexemes)
    BY <1>2, DropType
  <2>2. Len(rest) = Len(piece) - (7 + 3 * m)
    BY <1>3 DEF Left
  <2>3. Len(d) = Len(rest) - 1 /\ \A i \in 1 .. Len(rest) - 1 : d[i] = rest[1 + i]
    <3>1. 1 \in Nat /\ 1 <= Len(rest) /\ Len(rest) \in Nat
      BY <1>2
    <3> QED  BY <1>2, <3>1, DropLexemes
  <2> HIDE DEF d
  <2>4. Len(d) = Len(piece) - (8 + 3 * m) /\ Len(d) \in Nat
    BY <1>2, <1>3, <2>2, <2>3
  <2>5. ASSUME NEW i \in 1 .. Len(d)
        PROVE  d[i] = piece[8 + 3 * m + i]
    <3>1. i \in 1 .. Len(rest) - 1 /\ 1 + i \in 1 .. Len(rest)
      BY <1>2, <2>3, <2>5
    <3>2. rest[1 + i] = piece[7 + 3 * m + (1 + i)]
      BY <1>3, <3>1 DEF Left
    <3>3. 7 + 3 * m + (1 + i) = 8 + 3 * m + i
      BY <3>1
    <3> QED  BY <2>3, <3>1, <3>2, <3>3
  <2> QED  BY <2>1, <2>4, <2>5
<1> HIDE DEF d
<1>8. /\ skip \in {0, 2, 4}
      /\ skip = 4 <=> /\ 12 + 3 * m <= Len(piece)
                      /\ K(10 + 3 * m) = "LF" /\ K(11 + 3 * m) = "CR"
                      /\ K(12 + 3 * m) = "LF"
      /\ skip = 0 <=> K(10 + 3 * m) # "LF"
  <2>1. PICK p \in Nat : p = 8 + 3 * m
    OBVIOUS
  <2>2. /\ p + 1 = 9 + 3 * m /\ p + 2 = 10 + 3 * m /\ p + 3 = 11 + 3 * m
        /\ p + 4 = 12 + 3 * m
    BY <2>1
  <2>3. /\ LineEnd(d) \in {0, 2, 4}
        /\ LineEnd(d) = 4 <=>
             /\ p + 4 <= Len(piece)
             /\ K(p + 2) = "LF" /\ K(p + 3) = "CR" /\ K(p + 4) = "LF"
        /\ LineEnd(d) = 0 <=> K(p + 2) # "LF"
    BY <1>2, <1>3, <1>7, <2>1, <2>2, LineEndKinds
  <2> QED  BY <2>2, <2>3
<1>9. ASSUME NEW n \in Nat, n = 1 + skip, 7 + 3 * m + n <= Len(piece)
      PROVE  Left(7 + 3 * m + n)'
  <2>1. 7 + 3 * m \in Nat /\ n <= Len(rest)
    <3>1. Len(rest) = Len(piece) - (7 + 3 * m)
      BY <1>3 DEF Left
    <3> QED  BY <1>2, <1>9, <3>1
  <2> QED  BY <1>0, <1>2, <1>3, <1>9, <2>1, LeftDrop
<1>10. rest' \in Seq(Lexemes)
  <2>1. 1 + skip \in Nat
    BY <1>8
  <2> HIDE DEF skip
  <2> QED  BY <1>0, <1>2, <2>1, DropType
<1>11. K(Len(piece)) = "LF" /\ K(Len(piece) - 1) = "CR" /\ K(Len(piece) - 2) = "LF"
  BY <1>2 DEF EndAt
<1> HIDE DEF skip
<1>12. CASE skip = 4
  <2>1. /\ 12 + 3 * m <= Len(piece)
        /\ K(10 + 3 * m) = "LF" /\ K(11 + 3 * m) = "CR" /\ K(12 + 3 * m) = "LF"
    BY <1>8, <1>12
  <2>2. Len(piece) = 12 + 3 * m
    <3>1. PICK k \in Nat : k = 12 + 3 * m
      OBVIOUS
    <3>2. k - 3 = 9 + 3 * m /\ k - 2 = 10 + 3 * m /\ k - 1 = 11 + 3 * m
      BY <3>1
    <3>3. EndAt(k)
      BY <1>3, <2>1, <3>1, <3>2 DEF EndAt
    <3>4. k \notin 4 .. Len(piece) - 1
      BY <1>2, <3>3, EmptySeq DEF HInv, Terminated
    <3> QED  BY <1>2, <2>1, <3>1, <3>4
  <2>3. rest' = <<>>
    <3>1. 5 \in Nat /\ 5 = 1 + skip /\ 7 + 3 * m + 5 = 12 + 3 * m
      BY <1>12
    <3>2. Left(7 + 3 * m + 5)'
      BY <1>2, <1>9, <2>2, <3>1
    <3>3. Len(rest') = Len(piece) - (12 + 3 * m)
      BY <3>1, <3>2 DEF Left
    <3>4. Len(rest') = 0
      BY <1>2, <2>2, <3>3
    <3> QED  BY <1>10, <3>4, EmptySeq
  <2>4. FieldCount(piece) = m + 1
    BY <2>2 DEF FieldCount
  <2>5. \A i \in 1 .. m + 1 : IsLine(piece, i)
    <3>1. m + 1 \in Nat /\ 7 + 3 * (m + 1) <= Len(piece)
      BY <1>5, <2>2
    <3>2. IsLine(piece, m + 1)
      <4>1. /\ K(5 + 3 * (m + 1)) = "field" /\ K(6 + 3 * (m + 1)) = "CR"
            /\ K(7 + 3 * (m + 1)) = "LF"
        BY <1>3, <1>5, <2>1
      <4> QED  BY <1>2, <3>1, <4>1, LineKinds DEF K
    <3>3. \A i \in 1 .. m + 1 : i \in 1 .. m \/ i = m + 1
      OBVIOUS
    <3> QED  BY <1>3, <3>2, <3>3
  <2>6. IsWholeHead(piece)
    <3>1. Len(piece) >= 9 /\ Len(piece) = 9 + 3 * (m + 1)
      BY <2>2
    <3> QED  BY <1>3, <2>4, <2>5, <3>1 DEF IsWholeHead, FieldsRead
  <2>7. ~Portless(piece)
    <3> SUFFICES ASSUME NEW i \in m + 1 .. (Len(piece) - 6) \div 3,
                        piece[5 + 3 * i].kind = "field",
                        IsHost(piece[5 + 3 * i]),
                        piece[5 + 3 * i].value \notin WithPort
                 PROVE  FALSE
      <4>1. ASSUME Portless(piece)
            PROVE  \E i \in m + 1 .. (Len(piece) - 6) \div 3 :
                     /\ piece[5 + 3 * i].kind = "field"
                     /\ IsHost(piece[5 + 3 * i])
                     /\ piece[5 + 3 * i].value \notin WithPort
        <5>1. PICK i \in 1 .. (Len(piece) - 6) \div 3 :
                /\ StartsWith(SubSeq(piece, 5 + 3 * i, 6 + 3 * i), <<"field", "CR">>)
                /\ piece[5 + 3 * i].name \in {"Host", "host"}
                /\ piece[5 + 3 * i].value \notin WithPort
          BY <4>1 DEF Portless
        <5>2. i \in Nat /\ 6 + 3 * i <= Len(piece)
          BY <1>2
        <5>3. piece[5 + 3 * i].kind = "field" /\ IsHost(piece[5 + 3 * i])
          BY <1>2, <5>1, <5>2, FieldKinds DEF IsHost
        <5>4. i \notin 1 .. m
          BY <1>3, <5>1, <5>3 DEF FieldsRead
        <5>5. i \in m + 1 .. (Len(piece) - 6) \div 3
          BY <1>2, <5>4
        <5> QED  BY <5>1, <5>3, <5>5
      <4> QED  BY <4>1
    <3>1. i = m + 1 \/ i = m + 2
      BY <2>2
    <3>2. CASE i = m + 1
      BY <1>0, <1>3, <1>5, <3>2
    <3>3. CASE i = m + 2
      <4>1. 5 + 3 * (m + 2) = 11 + 3 * m
        OBVIOUS
      <4> QED  BY <2>1, <3>3, <4>1 DEF K
    <3> QED  BY <3>1, <3>2, <3>3
  <2>8. dtype'.headers = FieldsOf(piece)
    <3>1. FieldsOf(piece) = [i \in 1 .. m + 1 |-> piece[5 + 3 * i]]
      BY <2>4 DEF FieldsOf
    <3>2. \A i \in 1 .. m + 1 : dtype'.headers[i] = piece[5 + 3 * i]
      BY <1>6 DEF FieldsRead
    <3>3. dtype'.headers = [i \in 1 .. m + 1 |-> dtype'.headers[i]]
      BY <1>4
    <3> QED  BY <3>1, <3>2, <3>3
  <2>9. InHead'
    BY <2>3, <2>6, <2>7, <2>8 DEF InHead
  <2>10. phase' = "fieldsEnd"
    BY <1>0, <1>12 DEF skip
  <2>11. Place' /\ NoFields'
    BY <1>0, <1>2, <2>9, <2>10 DEF Place, NoFields, States
  <2> QED  BY <1>0, <1>4, <1>10, <2>11, GoesOn
<1>13. CASE skip = 2
  <2>1. K(10 + 3 * m) = "LF"
    BY <1>8, <1>13
  <2>2. Left(10 + 3 * m)'
    <3>1. 3 \in Nat /\ 3 = 1 + skip /\ 7 + 3 * m + 3 = 10 + 3 * m
      BY <1>13
    <3>2. Left(7 + 3 * m + 3)'
      BY <1>3, <1>9, <3>1
    <3> QED  BY <3>1, <3>2
  <2>3. Len(piece) # 10 + 3 * m
    <3>1. Len(piece) = 10 + 3 * m => Len(piece) - 2 = 8 + 3 * m
      BY <1>2
    <3> QED  BY <1>3, <1>11, <3>1
  <2>4. rest' # <<>>
    <3>1. Len(rest') = Len(piece) - (10 + 3 * m)
      BY <2>2 DEF Left
    <3>2. Len(rest') # 0
      BY <1>2, <1>3, <2>3, <3>1
    <3> QED  BY <3>2
  <2>5. Len(piece) # 12 + 3 * m
    <3>1. Len(piece) = 12 + 3 * m =>
            Len(piece) - 1 = 11 + 3 * m /\ 12 + 3 * m <= Len(piece)
      BY <1>2
    <3> QED  BY <1>8, <1>11, <1>13, <2>1, <3>1
  <2>6. BehindLine(m + 1)'
    BY <1>5, <2>1, <2>2, <2>5 DEF BehindLine, K
  <2>7. phase' = "fields"
    BY <1>0, <1>13, <2>4 DEF skip
  <2>8. InFields(Len(dtype.headers))'
    BY <1>4, <1>6, <2>6 DEF InFields
  <2>9. Place' /\ NoFields'
    BY <1>0, <1>2, <2>7, <2>8 DEF Place, NoFields, States
  <2> QED  BY <1>0, <1>4, <1>10, <2>9, GoesOn
<1>14. CASE skip = 0
  <2>1. K(10 + 3 * m) # "LF"
    BY <1>8, <1>14
  <2>2. Left(8 + 3 * m)'
    <3>1. 1 \in Nat /\ 1 = 1 + skip /\ 7 + 3 * m + 1 = 8 + 3 * m
      BY <1>14
    <3>2. 7 + 3 * m + 1 <= Len(piece)
      BY <1>2, <1>3
    <3>3. Left(7 + 3 * m + 1)'
      BY <1>9, <3>1, <3>2
    <3> QED  BY <3>1, <3>3
  <2>3. rest' # <<>>
    <3>1. Len(rest') = Len(piece) - (8 + 3 * m)
      BY <2>2 DEF Left
    <3>2. Len(rest') # 0
      BY <1>2, <1>3, <3>1
    <3> QED  BY <3>2
  <2>4. BeforeLoneCR(m + 1)'
    BY <1>3, <1>5, <2>1, <2>2 DEF BeforeLoneCR, K
  <2>5. phase' = "fields"
    BY <1>0, <1>14, <2>3 DEF skip
  <2>6. InFields(Len(dtype.headers))'
    BY <1>4, <1>6, <2>4 DEF InFields
  <2>7. Place' /\ NoFields'
    BY <1>0, <1>2, <2>5, <2>6 DEF Place, NoFields, States
  <2> QED  BY <1>0, <1>4, <1>10, <2>7, GoesOn
<1>15. skip \in {0, 2, 4}
  BY <1>8
<1> QED  BY <1>12, <1>13, <1>14, <1>15

(* The whole head decides: an error, a request, or a body to look for.     *)
LEMMA FieldsEndStep ==
  ASSUME HInv, UNCHANGED <<piece, answer>>, FieldsEnd
  PROVE  HInv'
<1>0. phase = "fieldsEnd"
  BY DEF FieldsEnd
<1>1. /\ dtype \in Messages /\ rest \in Seq(Lexemes) /\ total \in Nat
      /\ UnderWay /\ current_state = "Headers"
  BY <1>0 DEF HInv, UnderWay, Place, States
<1>2. /\ rest = <<>> /\ IsWholeHead(piece) /\ ~Portless(piece)
      /\ dtype.headers = FieldsOf(piece)
  BY <1>0, <1>1 DEF UnderWay, Place, InHead
<1>3. CASE ~HasHeader(dtype.headers, "Host")
  <2>1. Fail("BadRequest")
    BY <1>3 DEF FieldsEnd
  <2>2. Expected(piece) = "nullopt"
    BY <1>2, <1>3, ExpectedCases
  <2> QED  BY <1>0, <2>1, <2>2, Fails
<1>4. CASE /\ HasHeader(dtype.headers, "Host")
           /\ ~HasHeader(dtype.headers, "Content-Length")
  <2>1. Complete(dtype) /\ rest' = rest
    BY <1>4 DEF FieldsEnd
  <2>2. Expected(piece) = "request"
    BY <1>2, <1>4, ExpectedCases
  <2>3. Over' /\ phase' = "idle" /\ total' = total
    BY <2>1, <2>2 DEF Over, Complete
  <2>4. dtype' \in Messages
    BY <1>1, <2>1 DEF Complete, Messages
  <2> QED  BY <1>0, <2>1, <2>3, <2>4, Ends
<1>5. CASE /\ HasHeader(dtype.headers, "Host")
           /\ HasHeader(dtype.headers, "Content-Length")
  <2>1. /\ current_state' = "BodyValidation" /\ phase' = "loop"
        /\ UNCHANGED <<rest, total, dtype>>
    BY <1>5 DEF FieldsEnd
  <2>2. Expected(piece) = "nullopt"
    BY <1>2, <1>5, ExpectedCases
  <2>3. Place' /\ NoFields'
    BY <1>2, <2>1, <2>2 DEF Place, NoFields, States
  <2> QED  BY <1>0, <1>1, <2>1, <2>3, GoesOn
<1> QED  BY <1>3, <1>4, <1>5

(* Parse enters ParseHeaders, or ends in an error.                         *)
LEMMA OtherSteps ==
  ASSUME HInv, UNCHANGED <<piece, answer>>,
         Headers \/ LoopExit \/ DataEnd
  PROVE  HInv'
<1>0. phase = "loop"
  BY DEF Headers, LoopExit, DataEnd, At
<1>1. /\ dtype \in Messages /\ rest \in Seq(Lexemes)
      /\ UnderWay /\ Place /\ NoFields
  BY <1>0 DEF HInv, UnderWay
<1>2. CASE Headers
  <2>1. /\ current_state = "Headers" /\ phase' = "fields"
        /\ UNCHANGED <<current_state, rest, total, dtype>>
    BY <1>2 DEF Headers, At
  <2>2. InFields(Len(dtype.headers))
    BY <1>0, <1>1, <2>1 DEF Place
  <2>3. InFields(Len(dtype.headers))'
    BY <2>1, <2>2
    DEF InFields, FieldsRead, BehindLine, BeforeLoneCR, Left, K
  <2>4. Place' /\ NoFields'
    BY <2>1, <2>3 DEF Place, NoFields, States
  <2> QED  BY <1>0, <1>1, <2>1, <2>4, GoesOn
<1>3. CASE LoopExit
  <2>1. /\ current_state = "Garbage" /\ current_state' = "Garbage"
        /\ outcome' = Err(error) /\ phase' = "idle" /\ dtype' = NewMessage
        /\ UNCHANGED <<rest, total>>
    BY <1>1, <1>3 DEF LoopExit, Return, Final, Place
  <2>2. Over'
    BY <1>1, <2>1 DEF Over, Place, Err
  <2> QED  BY <1>0, <2>1, <2>2, EmptyMessage, Ends
<1>4. CASE DataEnd
  <2>1. /\ rest = <<>> /\ current_state \notin Final /\ current_state' = current_state
        /\ outcome' = Err("PartialMessage") /\ phase' = "idle" /\ dtype' = NewMessage
        /\ UNCHANGED <<rest, total>>
    BY <1>4 DEF DataEnd, Return
  <2>2. current_state = "BodyValidation"
    BY <1>0, <2>1, NotAtEnd DEF Final
  <2>3. Over'
    BY <1>1, <2>1, <2>2 DEF Over, Place, Err
  <2> QED  BY <1>0, <2>1, <2>3, EmptyMessage, Ends
<1> QED  BY <1>2, <1>3, <1>4

(* What no piece of a session makes Parse do.                              *)
LEMMA NeverTaken ==
  ASSUME HInv
  PROVE  ~BodyValidation /\ ~BodyIdentify /\ ~Spinning /\ NeverStuck
<1>1. phase = "loop" => current_state # "BodyIdentify"
  BY DEF HInv, UnderWay, Place
<1>2. phase = "loop" /\ current_state = "BodyValidation" => rest = <<>>
  BY DEF HInv, UnderWay, Place
<1>3. ~At("BodyValidation") /\ ~At("BodyIdentify")
  BY <1>1, <1>2 DEF At
<1>4. phase # "overrun"
  <2> SUFFICES ASSUME phase = "overrun" PROVE FALSE
    OBVIOUS
  <2> QED  BY DEF HInv, UnderWay, Place, States
<1> QED  BY <1>3, <1>4 DEF BodyValidation, BodyIdentify, Spinning, NeverStuck
-----------------------------------------------------------------------------
(* The session's steps.                                                    *)

(* A piece ends with its one terminator, and Parse begins at its first     *)
(* lexeme with nothing of an earlier call.                                 *)
LEMMA DeliverStep ==
  ASSUME HInv, Deliver
  PROVE  HInv'
<1>1. PICK s \in Streams : \E i \in 1 .. Len(s) : \E j \in PieceEnd(s, i) :
        HandOver(SubSeq(s, i, j), SubSeq(s, j + 1, Len(s)))
  BY DEF Deliver
<1>2. PICK i \in 1 .. Len(s) : \E j \in PieceEnd(s, i) :
        HandOver(SubSeq(s, i, j), SubSeq(s, j + 1, Len(s)))
  BY <1>1
<1>3. PICK j \in PieceEnd(s, i) : HandOver(SubSeq(s, i, j), SubSeq(s, j + 1, Len(s)))
  BY <1>2
<1>4. /\ current_state' = "Ready" /\ dtype' = NewMessage /\ phase' = "loop"
      /\ answer' = "none"
  BY DEF Deliver, FreshParser
<1>5. s \in Seq(Lexemes) /\ Len(s) \in Nat
  BY HandlerAssumption, LenProperties
<1>6. /\ j \in i + 3 .. Len(s) /\ EndsHead(s, j)
      /\ \A k \in i + 3 .. j - 1 : ~EndsHead(s, k)
  BY <1>3 DEF PieceEnd
<1>7. i \in Nat /\ j \in Nat /\ j \in i .. Len(s) /\ j \in 4 .. Len(s)
  BY <1>5, <1>6
<1>8. piece' = SubSeq(s, i, j) /\ rest' = piece' /\ total' = Len(piece')
  BY <1>3 DEF HandOver
<1>9. /\ piece' \in Seq(Lexemes) /\ Len(piece') = j - i + 1
      /\ \A k \in 1 .. j - i + 1 : piece'[k] = s[i + k - 1]
  BY <1>2, <1>5, <1>7, <1>8, PartOf
<1>10. ASSUME NEW k \in 4 .. j - i + 1
       PROVE  EndAt(k)' <=> EndsHead(s, i + k - 1)
  <2>1. i + k - 1 \in 4 .. Len(s)
    BY <1>5, <1>6, <1>7, <1>10
  <2>2. /\ k - 3 \in 1 .. j - i + 1 /\ k - 2 \in 1 .. j - i + 1
        /\ k - 1 \in 1 .. j - i + 1 /\ k \in 1 .. j - i + 1
    BY <1>7, <1>10
  <2>3. /\ piece'[k - 3] = s[i + (k - 3) - 1] /\ piece'[k - 2] = s[i + (k - 2) - 1]
        /\ piece'[k - 1] = s[i + (k - 1) - 1] /\ piece'[k] = s[i + k - 1]
    BY <1>9, <2>2
  <2>4. /\ i + (k - 3) - 1 = i + k - 1 - 3 /\ i + (k - 2) - 1 = i + k - 1 - 2
        /\ i + (k - 1) - 1 = i + k - 1 - 1
    BY <1>7, <1>10
  <2>5. PICK l \in 4 .. Len(s) : l = i + k - 1
    BY <2>1
  <2>6. EndsHead(s, l) <=>
          /\ s[l - 3].kind = "CR" /\ s[l - 2].kind = "LF"
          /\ s[l - 1].kind = "CR" /\ s[l].kind = "LF"
    BY <1>5, EndKinds
  <2>7. /\ piece'[k - 3] = s[l - 3] /\ piece'[k - 2] = s[l - 2]
        /\ piece'[k - 1] = s[l - 1] /\ piece'[k] = s[l]
    BY <2>3, <2>4, <2>5
  <2>8. EndAt(k)' <=> EndsHead(s, l)
    BY <2>6, <2>7 DEF EndAt, K
  <2> QED  BY <2>5, <2>8
<1>11. Len(piece') >= 4 /\ piece' # <<>>
  BY <1>6, <1>7, <1>9, EmptySeq
<1>12. EndAt(j - i + 1)'
  <2>1. j - i + 1 \in 4 .. j - i + 1 /\ i + (j - i + 1) - 1 = j
    BY <1>6, <1>7
  <2> QED  BY <1>6, <1>10, <2>1
<1>13. ASSUME NEW k \in 4 .. Len(piece') - 1
       PROVE  ~EndAt(k)'
  <2>1. k \in 4 .. j - i + 1 /\ i + k - 1 \in i + 3 .. j - 1
    BY <1>7, <1>9, <1>13
  <2> QED  BY <1>6, <1>10, <2>1
<1>14. Terminated'
  BY <1>9, <1>11, <1>12, <1>13 DEF Terminated
<1>15. Left(0)'
  BY <1>7, <1>8, <1>9, <1>11 DEF Left
<1>16. UnderWay'
  BY <1>4, <1>15 DEF UnderWay, Place, NoFields, States, NewMessage
<1>17. total' \in Nat
  BY <1>7, <1>8, <1>9, LenProperties
<1> QED  BY <1>4, <1>8, <1>9, <1>11, <1>14, <1>16, <1>17, EmptyMessage
         DEF HInv, Answered

(* RequestHandler answers as the parser's outcome says.                    *)
LEMMA ReplyStep ==
  ASSUME HInv, Reply
  PROVE  HInv'
<1>1. /\ phase = "idle" /\ piece # <<>> /\ answer' = Answer
      /\ UNCHANGED <<current_state, rest, total, dtype, phase, outcome, piece>>
  BY DEF Reply, vars
<1>2. Over
  BY <1>1 DEF HInv
<1>3. Answer = Expected(piece)
  BY <1>2 DEF Over, Answer, Thrown, Ok
<1>4. Answered' /\ Over'
  BY <1>1, <1>2, <1>3 DEF Answered, Over
<1>5. Terminated'
  BY <1>1 DEF HInv, Terminated, EndAt, K
<1> QED  BY <1>1, <1>4, <1>5 DEF HInv
-----------------------------------------------------------------------------
(* The invariant, and what follows from it.                                *)

LEMMA InitHInv == HandlerInit => HInv
<1> SUFFICES ASSUME HandlerInit PROVE HInv
  OBVIOUS
<1>1. /\ piece = <<>> /\ answer = "none" /\ rest = <<>> /\ dtype = NewMessage
      /\ total = 0 /\ phase = "idle"
  BY DEF HandlerInit, Init
<1>2. piece \in Seq(Lexemes) /\ rest \in Seq(Lexemes)
  BY <1>1, EmptySeq
<1> QED  BY <1>1, <1>2, EmptyMessage DEF HInv, Terminated, Answered

LEMMA NextHInv == HInv /\ [HandlerNext]_handlerVars => HInv'
<1> SUFFICES ASSUME HInv, [HandlerNext]_handlerVars
             PROVE  HInv'
  OBVIOUS
<1>1. CASE Deliver
  BY <1>1, DeliverStep
<1>2. CASE Reply
  BY <1>2, ReplyStep
<1>3. CASE Parsing
  <2>1. Step /\ UNCHANGED <<piece, answer>>
    BY <1>3 DEF Parsing
  <2>2. ~BodyValidation /\ ~BodyIdentify /\ ~Spin
    BY NeverTaken DEF Spin
  <2> QED
    BY <2>1, <2>2, LineSteps, OtherSteps, FieldStep, FieldBadStep,
       HostWithoutPortStep, FieldsEndStep DEF Step
<1>4. CASE UNCHANGED handlerVars
  <2>1. UNCHANGED <<current_state, rest, total, dtype, phase, outcome, piece, answer>>
    BY <1>4 DEF handlerVars, vars
  <2>2. phase # "idle" => UnderWay'
    BY <2>1 DEF HInv, UnderWay, Place, NoFields, InFields, InHead, FieldsRead,
      BehindLine, BeforeLoneCR, Left, K
  <2>3. Terminated' /\ Answered'
    BY <2>1 DEF HInv, Terminated, Answered, EndAt, K
  <2>4. phase = "idle" /\ piece # <<>> => Over'
    BY <2>1 DEF HInv, Over
  <2> QED  BY <2>1, <2>2, <2>3, <2>4 DEF HInv
<1> QED  BY <1>1, <1>2, <1>3, <1>4 DEF HandlerNext, HandlerStep

(* What is said of each place of Parse holds whenever it is there.         *)
THEOREM HandlerInductive == HandlerSpec => []HInv
BY InitHInv, NextHInv, PTL DEF HandlerSpec

(* What RequestHandler makes of a piece is what the piece's lexemes call   *)
(* for, wherever the session cut it out of whatever stream.                *)
THEOREM PiecesAreAnswered == HandlerSpec => []Answered
<1>1. HInv => Answered
  BY DEF HInv
<1> QED  BY <1>1, HandlerInductive, PTL

(* No piece reaches the passes of Parse that never end.                    *)
THEOREM ParseNeverHangs == HandlerSpec => []NeverStuck
<1>1. HInv => NeverStuck
  BY NeverTaken
<1> QED  BY <1>1, HandlerInductive, PTL
=============================================================================
