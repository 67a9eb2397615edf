------------------------------- MODULE Parser -------------------------------
(***************************************************************************)
(* camille::parser::Parser (include/camille/parser.h): the HTTP message    *)
(* parser that RequestHandler and ResponseHandler drive.  One Parser       *)
(* object is the state of the module; a client calls Parse(data) on it     *)
(* any number of times.  Each pass of Parse's `while` is one action, and   *)
(* so is each pass of the field loop inside ParseHeaders.                  *)
(*                                                                         *)
(* Input is a sequence of lexemes, each a maximal run of characters that   *)
(* one of the Parse... helpers consumes or rejects as a whole.  Lengths    *)
(* (data.size(), Content-Length) are counted in lexemes.                   *)
(***************************************************************************)
EXTENDS Naturals, Sequences

CONSTANTS
  Values,       (* Values of header fields.                               *)
  WithPort,     (* Those that hold a ':', so that ParseHost finds a port.  *)
  LengthOf,     (* What ValidateContentLength answers for each value.      *)
  kBodyLimit,
  Inputs,       (* The data a client may pass to Parse.                    *)
  MaxCalls,     (* Bound: calls of Parse with data on the one object.      *)
  Unset,        (* A member of the message no setter has written.          *)
  Invalid       (* The error side of ValidateContentLength.                *)

States == {"Ready", "Method", "WaitUri", "UriStart", "Uri", "WaitVersion",
           "Version", "HeadersWait", "Headers", "BodyValidation",
           "BodyIdentify", "BodyChunked", "Complete", "Garbage"}

Errors == {"GeneralError", "BadMethod", "BadUri", "BadRequest", "StaleParser",
           "BadVersion", "BadContentLength", "PartialMessage"}

(***************************************************************************)
(* Lexemes.  "method" is a word MethodEnum knows, "lower" a word that      *)
(* starts with a lower-case letter, "uri" and "badUri" start with a slash, *)
(* "version" is HTTP/ with digits and dots, "http" those four letters      *)
(* alone, "junk" any other word, "badField" a header line that is not      *)
(* `key: value`, "byte" a unit of body.                                    *)
(***************************************************************************)
FieldNames == {"Host", "host", "Content-Length", "Transfer-Encoding", "Accept"}
Fields  == [kind : {"field"}, name : FieldNames, value : Values]
Lexemes == Fields \cup
  [kind : {"SP", "CR", "LF", "method", "lower", "uri", "badUri", "version",
           "http", "junk", "badField", "byte"}]

ASSUME ParserAssumption ==
  /\ kBodyLimit \in Nat
  /\ MaxCalls \in Nat
  /\ WithPort \subseteq Values
  /\ LengthOf \in [Values -> (0 .. kBodyLimit) \cup {Invalid}]
  /\ Invalid \notin Nat
  /\ Unset \notin Values \cup Lexemes \cup Nat
  /\ Inputs \subseteq Seq(Lexemes)

VARIABLES
  current_state,  (* current_state_                                       *)
  used,           (* used_                                                *)
  error,          (* error_                                               *)
  rest,           (* rocky_.begin .. rocky_.end, what is still to parse   *)
  total,          (* total_consumed_                                      *)
  dtype,          (* the message under construction, local to Parse       *)
  phase,          (* where Parse stands                                   *)
  outcome,        (* how the last call of Parse ended                     *)
  calls,          (* history: calls of Parse with data so far             *)
  stale,          (* history: the call began on a used parser             *)
  completions     (* history: calls that returned a message               *)

history == <<calls, stale, completions>>
vars == <<current_state, used, error, rest, total, dtype, phase, outcome,
          calls, stale, completions>>

Messages ==
  [method : Lexemes \cup {Unset}, path : Lexemes \cup {Unset},
   version : Lexemes \cup {Unset}, host : Values \cup {Unset},
   headers : Seq(Fields), contentLength : (0 .. kBodyLimit) \cup {Unset},
   body : Seq(Lexemes), size : Nat]

(* `T dtype;`: content_length_ has no initialiser, the strings are empty.  *)
NewMessage ==
  [method |-> Unset, path |-> Unset, version |-> Unset, host |-> Unset,
   headers |-> <<>>, contentLength |-> Unset, body |-> <<>>, size |-> 0]

NoOutcome == [kind |-> "none"]
Ok        == [kind |-> "ok"]
Thrown    == [kind |-> "thrown"]
Err(code) == [kind |-> "err", code |-> code]
Outcomes  == {NoOutcome, Ok, Thrown} \cup {Err(e) : e \in Errors}

Init ==
  /\ current_state = "Ready"
  /\ used = FALSE
  /\ error = "GeneralError"
  /\ rest = <<>>
  /\ total = 0
  /\ dtype = NewMessage
  /\ phase = "idle"
  /\ outcome = NoOutcome
  /\ calls = 0
  /\ stale = FALSE
  /\ completions = 0
-----------------------------------------------------------------------------
(* Helpers of the parse steps.                                             *)

Drop(n) == SubSeq(rest, n + 1, Len(rest))
StartsWith(s, kinds) ==
  /\ Len(s) >= Len(kinds)
  /\ \A i \in 1 .. Len(kinds) : s[i].kind = kinds[i]
EndsAt(n, kinds) == Len(rest) > n => rest[n + 1].kind \in kinds

(* A helper of ParseMethod / ParseUri / ParseVersion accepts what is next. *)
MethodOk  == rest[1].kind = "method" /\ EndsAt(1, {"SP", "lower"})
UriOk     == rest[1].kind = "uri" /\ EndsAt(1, {"SP"})
VersionOk == StartsWith(rest, <<"version", "CR">>)
FieldOk   == rest[1].kind = "field" /\ EndsAt(1, {"CR"})

(* GetHeader: the value of the one field of that name, if exactly one.     *)
HasHeader(headers, name) ==
  \E i \in 1 .. Len(headers) :
     \A j \in 1 .. Len(headers) : headers[j].name = name <=> i = j
GetHeader(headers, name) ==
  IF HasHeader(headers, name)
  THEN headers[CHOOSE i \in 1 .. Len(headers) : headers[i].name = name].value
  ELSE Unset

(* IsHeadersEnd, given what follows a value: lexemes skipped.              *)
LineEnd(s) == IF StartsWith(s, <<"CR", "LF", "CR", "LF">>) THEN 4
              ELSE IF StartsWith(s, <<"CR", "LF">>) THEN 2 ELSE 0

Final == {"Complete", "Garbage"}
At(s) == phase = "loop" /\ current_state = s /\ rest # <<>>

Goto(s, n) ==    \* break out of the switch in state s, n lexemes consumed
  /\ current_state' = s
  /\ rest' = Drop(n)
  /\ UNCHANGED <<used, error, total, phase, outcome, history>>
MutFail(code) ==          \* error_ not recorded
  /\ current_state' = "Garbage"
  /\ phase' = "loop"
  /\ UNCHANGED <<used, error, rest, total, dtype, outcome, history>>
Fail(code) ==
  /\ current_state' = "Garbage"
  /\ error' = code
  /\ phase' = "loop"
  /\ UNCHANGED <<used, rest, total, dtype, outcome, history>>
Return(o) ==     \* anything but success: dtype goes out of scope
  /\ outcome' = o
  /\ phase' = "idle"
  /\ dtype' = NewMessage
  /\ UNCHANGED <<used, rest, total, history>>
-----------------------------------------------------------------------------
(* The client.                                                             *)

Parse(data) ==
  /\ phase = "idle" /\ calls < MaxCalls
  /\ data # <<>>
  /\ rest' = data
  /\ total' = Len(data)
  /\ dtype' = NewMessage
  /\ phase' = "loop"
  /\ outcome' = NoOutcome
  /\ calls' = calls + 1
  /\ stale' = used
  /\ UNCHANGED <<current_state, used, error, completions>>

ParseEmpty ==
  /\ phase = "idle"
  /\ error' = "BadRequest"
  /\ outcome' = Err("BadRequest")
  /\ dtype' = NewMessage
  /\ stale' = FALSE
  /\ UNCHANGED <<current_state, used, rest, total, phase, calls, completions>>

SetUsed ==
  /\ phase = "idle"
  /\ used' = TRUE
  /\ UNCHANGED <<current_state, error, rest, total, dtype, phase, outcome,
                 history>>
-----------------------------------------------------------------------------
(* The passes of Parse's loop.                                             *)

MutLoopExit ==            \* the loop's condition forgets kGarbage
  /\ phase = "loop" /\ current_state = "Complete"
  /\ Return(Err(error))
  /\ UNCHANGED <<current_state, error>>
LoopExit ==
  /\ phase = "loop" /\ current_state \in Final
  /\ Return(Err(error))
  /\ UNCHANGED <<current_state, error>>

DataEnd ==
  /\ phase = "loop" /\ current_state \notin Final
  /\ rest = <<>>
  /\ Return(Err("PartialMessage"))
  /\ UNCHANGED <<current_state, error>>

(* The kGarbage that `used_` asks for is overwritten by kMethod.           *)
Ready ==
  /\ At("Ready")
  /\ error' = IF used THEN "StaleParser" ELSE error
  /\ current_state' = "Method"
  /\ UNCHANGED <<used, rest, total, dtype, phase, outcome, history>>

Method ==
  /\ At("Method")
  /\ \/ /\ MethodOk
        /\ dtype' = [dtype EXCEPT !.method = rest[1]]
        /\ Goto("WaitUri", 1)
     \/ ~MethodOk /\ Fail("BadMethod")

WaitSpace(from, to) ==
  /\ At(from)
  /\ \/ rest[1].kind = "SP" /\ Goto(to, 1) /\ UNCHANGED dtype
     \/ rest[1].kind # "SP" /\ Fail("BadRequest")
WaitUri     == WaitSpace("WaitUri", "UriStart")
WaitVersion == WaitSpace("WaitVersion", "Version")

UriStart ==
  /\ At("UriStart")
  /\ \/ rest[1].kind \in {"uri", "badUri"} /\ Goto("Uri", 0) /\ UNCHANGED dtype
     \/ rest[1].kind \notin {"uri", "badUri"} /\ Fail("BadUri")

MutUri ==                 \* SetPath left out
  /\ At("Uri")
  /\ \/ UriOk /\ Goto("WaitVersion", 1) /\ UNCHANGED dtype
     \/ ~UriOk /\ Fail("BadUri")
Uri ==
  /\ At("Uri")
  /\ \/ /\ UriOk
        /\ dtype' = [dtype EXCEPT !.path = rest[1]]
        /\ Goto("WaitVersion", 1)
     \/ ~UriOk /\ Fail("BadUri")

(* With "HTTP" the last thing in data, ParseVersion reads *end: what lies  *)
(* there is not data's, so the read yields a slash or it does not.  After  *)
(* a slash the cursor is past end and nothing bounds it any more.          *)
Version ==
  /\ At("Version")
  /\ \/ /\ VersionOk
        /\ dtype' = [dtype EXCEPT !.version = rest[1]]
        /\ Goto("HeadersWait", 2)
     \/ ~VersionOk /\ Fail("BadVersion")
     \/ /\ rest[1].kind = "http" /\ Len(rest) = 1
        /\ phase' = "overrun"
        /\ UNCHANGED <<current_state, used, error, rest, total, dtype,
                       outcome, history>>

HeadersWait ==
  /\ At("HeadersWait")
  /\ \/ rest[1].kind = "LF" /\ Goto("Headers", 1) /\ UNCHANGED dtype
     \/ rest[1].kind # "LF" /\ Fail("PartialMessage")

Headers ==       \* calls ParseHeaders
  /\ At("Headers")
  /\ phase' = "fields"
  /\ UNCHANGED <<current_state, used, error, rest, total, dtype, outcome,
                 history>>
-----------------------------------------------------------------------------
(* ParseHeaders, and what kHeaders does with the fields.                   *)

MutIsHost(field) == field.name = "host"     \* upper case not folded
IsHost(field) == field.name \in {"Host", "host"}

(* One `key: value` line.  The loop also ends, successfully, where data    *)
(* does.                                                                   *)
Field ==
  /\ phase = "fields" /\ FieldOk
  /\ IsHost(rest[1]) => rest[1].value \in WithPort
  /\ dtype' = [dtype EXCEPT
       !.headers = Append(@, rest[1]),
       !.host = IF IsHost(rest[1]) THEN rest[1].value ELSE @]
  /\ LET skip == LineEnd(Drop(1))
     IN  /\ rest' = Drop(1 + skip)
         /\ phase' = IF skip = 4 \/ rest' = <<>> THEN "fieldsEnd" ELSE "fields"
  /\ UNCHANGED <<current_state, used, error, total, outcome, history>>

FieldBad == phase = "fields" /\ ~FieldOk /\ Fail("BadRequest")

(* ParseHost steps over a ':' that is not there; the port it then cuts out *)
(* has length -1 and SetPort throws std::length_error out of Parse.        *)
HostWithoutPort ==
  /\ phase = "fields" /\ FieldOk
  /\ IsHost(rest[1]) /\ rest[1].value \notin WithPort
  /\ Return(Thrown)
  /\ UNCHANGED <<current_state, error>>

MutComplete(message) ==   \* rewinds the parser for the next message
  /\ current_state' = "Ready"
  /\ dtype' = [message EXCEPT !.size = total]
  /\ used' = TRUE
  /\ outcome' = Ok
  /\ phase' = "idle"
  /\ completions' = completions + 1
  /\ UNCHANGED <<error, total, calls, stale>>
Complete(message) ==
  /\ current_state' = "Complete"
  /\ dtype' = [message EXCEPT !.size = total]
  /\ used' = TRUE
  /\ outcome' = Ok
  /\ phase' = "idle"
  /\ completions' = completions + 1
  /\ UNCHANGED <<error, total, calls, stale>>

MutFieldsEnd ==           \* does not look for a Content-Length
  /\ phase = "fieldsEnd"
  /\ \/ ~HasHeader(dtype.headers, "Host") /\ Fail("BadRequest")
     \/ /\ HasHeader(dtype.headers, "Host")
        /\ current_state' = "BodyValidation"
        /\ phase' = "loop"
        /\ UNCHANGED <<used, error, rest, total, dtype, outcome, history>>
FieldsEnd ==
  /\ phase = "fieldsEnd"
  /\ \/ /\ ~HasHeader(dtype.headers, "Host")
        /\ Fail("BadRequest")
     \/ /\ HasHeader(dtype.headers, "Host")
        /\ ~HasHeader(dtype.headers, "Content-Length")
        /\ Complete(dtype) /\ UNCHANGED rest
     \/ /\ HasHeader(dtype.headers, "Host")
        /\ HasHeader(dtype.headers, "Content-Length")
        /\ current_state' = "BodyValidation"
        /\ phase' = "loop"
        /\ UNCHANGED <<used, error, rest, total, dtype, outcome, history>>

MutBodyValidation ==      \* uses the length without looking at the error side
  LET cl == GetHeader(dtype.headers, "Content-Length")
      te == GetHeader(dtype.headers, "Transfer-Encoding")
  IN  /\ At("BodyValidation")
      /\ \/ te # Unset /\ Fail("BadRequest")
         \/ /\ te = Unset /\ cl # Unset
            /\ dtype' = [dtype EXCEPT !.contentLength = LengthOf[cl]]
            /\ Goto("BodyIdentify", 0)
(* A Transfer-Encoding is refused with or without a Content-Length.  After *)
(* an invalid length, content_length.value() throws bad_expected_access.   *)
BodyValidation ==
  LET cl == GetHeader(dtype.headers, "Content-Length")
      te == GetHeader(dtype.headers, "Transfer-Encoding")
  IN  /\ At("BodyValidation")
      /\ \/ te # Unset /\ Fail("BadRequest")
         \/ /\ te = Unset /\ cl # Unset /\ LengthOf[cl] = Invalid
            /\ current_state' = "Garbage"
            /\ error' = "BadContentLength"
            /\ Return(Thrown)
         \/ /\ te = Unset /\ cl # Unset /\ LengthOf[cl] # Invalid
            /\ dtype' = [dtype EXCEPT !.contentLength = LengthOf[cl]]
            /\ Goto("BodyIdentify", 0)

MutBodyIdentify ==        \* takes all of data for the body
  /\ At("BodyIdentify")
  /\ Complete([dtype EXCEPT !.body = rest])
  /\ rest' = <<>>
BodyIdentify ==
  LET n == dtype.contentLength
  IN  /\ At("BodyIdentify")
      /\ Len(rest) >= n
      /\ Complete([dtype EXCEPT !.body = SubSeq(rest, 1, n)])
      /\ rest' = Drop(n)

(* Passes of the loop that change nothing, so that the next is the same:   *)
(* kBodyIdentify with less than the body in data, kBodyValidation with     *)
(* neither header in (this call's) message.                                *)
Spinning ==
  \/ At("BodyIdentify") /\ Len(rest) < dtype.contentLength
  \/ /\ At("BodyValidation")
     /\ ~HasHeader(dtype.headers, "Content-Length")
     /\ ~HasHeader(dtype.headers, "Transfer-Encoding")
MutSpin ==                \* returns in place of spinning, to be resumed
  /\ Spinning
  /\ Return(Err("PartialMessage"))
  /\ UNCHANGED <<current_state, error>>
Spin == Spinning /\ UNCHANGED vars

Step ==
  \/ LoopExit \/ DataEnd \/ Ready \/ Method \/ WaitUri \/ UriStart \/ Uri
  \/ WaitVersion \/ Version \/ HeadersWait \/ Headers
  \/ Field \/ FieldBad \/ HostWithoutPort \/ FieldsEnd
  \/ BodyValidation \/ BodyIdentify \/ Spin

Client == SetUsed \/ ParseEmpty \/ \E data \in Inputs : Parse(data)

Next == Step \/ Client

(* The thread that called Parse runs until Parse returns; the client may   *)
(* stop calling.                                                           *)
Spec == Init /\ [][Next]_vars /\ WF_vars(Step)
-----------------------------------------------------------------------------
(* Properties.                                                             *)

(* Types of the parser's members and of the call in progress.              *)
TypeOK ==
  /\ current_state \in States
  /\ used \in BOOLEAN
  /\ error \in Errors
  /\ rest \in Seq(Lexemes)
  /\ total \in Nat
  /\ dtype \in Messages
  /\ phase \in {"idle", "loop", "fields", "fieldsEnd", "overrun"}
  /\ outcome \in Outcomes
  /\ calls \in 0 .. MaxCalls
  /\ stale \in BOOLEAN
  /\ completions \in Nat

(* One transaction per parser (error.h, kStaleParser): however often Parse *)
(* is called, resumed or fed anew, one object returns at most one message. *)
OneTransaction == completions <= 1

(* kBodyIdentify reads content_length_, which no constructor initialises:  *)
(* it has been set, by this call, whenever the loop reaches that state.    *)
LengthKnown == At("BodyIdentify") => dtype.contentLength # Unset

(* A message that a first call returns has its whole request line, and     *)
(* what the parser has consumed is that line, the fields in the message,   *)
(* the blank line and the body, no lexeme more or less.  Only data that    *)
(* ends behind a field, or behind its line, passes for a head.             *)
FirstCallComplete ==
  LET lines == 7 + 3 * Len(dtype.headers)   \* the request line and the fields
  IN  outcome = Ok /\ calls = 1 =>
        /\ dtype.method # Unset /\ dtype.path # Unset /\ dtype.version # Unset
        /\ \/ total = Len(rest) + lines + 2 + Len(dtype.body)
           \/ rest = <<>> /\ dtype.body = <<>> /\ total \in {lines - 2, lines}

(* A returned message names its host: the field GetHeader finds under the  *)
(* exact name and the member ParseHost fills for any case go together.     *)
HostKnown ==
  outcome = Ok => HasHeader(dtype.headers, "Host") /\ dtype.host # Unset

(* A returned message has the body its one Content-Length announces, that  *)
(* length passed validation, and a Transfer-Encoding beside it is never    *)
(* alone (several are let through: LengthUncontested); without one         *)
(* Content-Length there is no body.                                        *)
Framing ==
  LET cl == GetHeader(dtype.headers, "Content-Length")
      te == {i \in 1 .. Len(dtype.headers) : dtype.headers[i].name = "Transfer-Encoding"}
  IN  outcome = Ok =>
        IF cl = Unset THEN dtype.body = <<>>
        ELSE /\ LengthOf[cl] # Invalid
             /\ dtype.contentLength = LengthOf[cl]
             /\ Len(dtype.body) = LengthOf[cl]
             /\ \A i \in te : \E j \in te : i # j

(* GetErrorCode, which RequestHandler logs, is the code Parse returned,    *)
(* except for data that ended early; a rejected message has a cause.       *)
Diagnosed ==
  /\ outcome.kind = "err" =>
       \/ outcome.code = error
       \/ outcome.code = "PartialMessage" /\ current_state \notin Final
  /\ current_state = "Garbage" => error \notin {"GeneralError", "StaleParser"}

(* A first call loops for ever only on a body that data cuts short.        *)
FirstCallSpin == Spinning /\ calls = 1 => current_state = "BodyIdentify"

(* Every call returns, unless it reads past end or spins.                  *)
Returns == phase # "idle" ~> (phase \in {"idle", "overrun"} \/ Spinning)
-----------------------------------------------------------------------------
(* What the repository says and Parser does not do (see the README).       *)

(* error.h:15 and :48: a parser that was already used reports kStaleParser.*)
StaleParserReported ==
  phase = "idle" /\ stale => outcome = Err("StaleParser")

(* parser.h:18-20: never guess which length is correct, prevent request    *)
(* smuggling: a message is not returned when something competes with its   *)
(* Content-Length, another one or any Transfer-Encoding.                   *)
LengthUncontested ==
  outcome = Ok =>
    \A i, j \in 1 .. Len(dtype.headers) :
       /\ dtype.headers[i].name = "Content-Length"
       /\ dtype.headers[j].name \in {"Content-Length", "Transfer-Encoding"}
       => i = j

(* error.h:64, "Partial Message: More data expected": Parse answers data   *)
(* that is not the whole message.                                          *)
PartialBodyReported == phase = "loop" ~> phase \in {"idle", "overrun"}
=============================================================================
