---------------------------- MODULE ContentLength ----------------------------
(***************************************************************************)
(* ValidateContentLength (include/camille/parser.h): the loop that turns   *)
(* the text of a Content-Length field into a length or into an error.      *)
(* Arithmetic is that of size_t, whose largest value is SizeMax: it wraps. *)
(* A text is a sequence of digits, given by their value, and of Other for  *)
(* any character that IsDigit refuses.                                     *)
(***************************************************************************)
EXTENDS Integers, Sequences

CONSTANTS
  SizeMax,      (* std::numeric_limits<size_t>::max()                      *)
  kBodyLimit,
  Texts,        (* The texts to validate.                                  *)
  Other

ASSUME SizeAssumption ==
  /\ SizeMax \in Nat
  /\ kBodyLimit \in 0 .. SizeMax
  /\ SizeMax \div 10 \in Nat
  /\ Other \notin Nat
  /\ Texts \subseteq Seq((0 .. 9) \cup {Other})

VARIABLES
  value,           (* the text                                             *)
  pos,             (* how many of its characters the loop has passed       *)
  content_length,  (* the accumulator                                      *)
  result,          (* what was returned                                    *)
  exact            (* history: the number that the characters passed, and  *)
                   (* the one a size check refused, denote                 *)

vars == <<value, pos, content_length, result, exact>>

Running     == [kind |-> "running"]
Unexpected  == [kind |-> "unexpected"]
Returned(n) == [kind |-> "length", length |-> n]

Wrapped(n) == n % (SizeMax + 1)
Token      == value[pos + 1]
IsDigit(c) == c # Other
Looping    == result = Running /\ pos < Len(value)

Init ==
  /\ value \in Texts
  /\ pos = 0
  /\ content_length = 0
  /\ result = Running
  /\ exact = 0

Reject ==
  /\ result' = Unexpected
  /\ UNCHANGED <<value, pos, content_length>>

Empty    == result = Running /\ value = <<>> /\ Reject /\ UNCHANGED exact
MutNotDigit ==          \* stops where the digits do, as strtoul would
  /\ Looping /\ ~IsDigit(Token)
  /\ result' = Returned(content_length)
  /\ UNCHANGED <<value, pos, content_length, exact>>
NotDigit == Looping /\ ~IsDigit(Token) /\ Reject /\ UNCHANGED exact

MutTooLong ==           \* the body limit, one too early, in place of the type's
  /\ Looping /\ IsDigit(Token)
  /\ content_length * 10 >= kBodyLimit
  /\ exact' = exact * 10 + Token
  /\ Reject
TooLong ==
  /\ Looping /\ IsDigit(Token)
  /\ content_length > SizeMax \div 10
  /\ exact' = exact * 10 + Token
  /\ Reject

MutUnchecked ==         \* compares with the limit of the type itself
  /\ Looping /\ IsDigit(Token)
  /\ content_length <= SizeMax
  /\ content_length' = Wrapped(content_length * 10 + Token)
  /\ exact' = exact * 10 + Token
  /\ pos' = pos + 1
  /\ UNCHANGED <<value, result>>
Accumulate ==
  /\ Looping /\ IsDigit(Token)
  /\ content_length <= SizeMax \div 10
  /\ content_length' = Wrapped(content_length * 10 + Token)
  /\ exact' = exact * 10 + Token
  /\ pos' = pos + 1
  /\ UNCHANGED <<value, result>>

AtEnd == result = Running /\ value # <<>> /\ pos = Len(value)

TooBig ==
  /\ AtEnd /\ content_length > kBodyLimit
  /\ Reject /\ UNCHANGED exact

MutAccept ==            \* the body limit is not looked at
  /\ AtEnd
  /\ result' = Returned(content_length)
  /\ UNCHANGED <<value, pos, content_length, exact>>
Accept ==
  /\ AtEnd /\ content_length <= kBodyLimit
  /\ result' = Returned(content_length)
  /\ UNCHANGED <<value, pos, content_length, exact>>

Next == Empty \/ NotDigit \/ TooLong \/ Accumulate \/ TooBig \/ Accept

Spec == Init /\ [][Next]_vars /\ WF_vars(Next)
-----------------------------------------------------------------------------
(* Properties.                                                             *)

TypeOK ==
  /\ value \in Seq((0 .. 9) \cup {Other})
  /\ pos \in 0 .. Len(value)
  /\ content_length \in 0 .. SizeMax
  /\ result \in {Running, Unexpected} \cup {Returned(n) : n \in 0 .. kBodyLimit}
  /\ exact \in Nat

(* Whatever the loop's check lets through, the accumulator is the number   *)
(* read so far in size_t's arithmetic, so a number that fits is exact.     *)
Congruent == result # Unexpected => content_length = Wrapped(exact)

(* A text is accepted only when all of it was read and it is digits only,  *)
(* and a length beyond the type's range is the only one it gets wrong.     *)
AcceptedExact ==
  result.kind = "length" =>
    /\ pos = Len(value) /\ value # <<>>
    /\ \A i \in 1 .. Len(value) : IsDigit(value[i])
    /\ exact <= SizeMax => result.length = exact

(* A text of digits is rejected only for a number above the body limit:    *)
(* the overflow check refuses no length that the limit would admit.        *)
RejectedTooBig ==
  result = Unexpected =>
    \/ value = <<>>
    \/ pos < Len(value) /\ ~IsDigit(Token)
    \/ exact > kBodyLimit

(* The one accumulator from which a step can wrap is SizeMax \div 10, and  *)
(* what is left is then a single digit.                                    *)
WrapsOnlyAtTenth ==
  [][ pos' # pos /\ content_length' # content_length * 10 + Token =>
        content_length = SizeMax \div 10 /\ content_length' < 10 ]_vars

-----------------------------------------------------------------------------
(* parser.h:18: an invalid Content-Length must throw an error, never be    *)
(* guessed: no text is accepted as a number that it does not denote.       *)
NeverGuesses == result.kind = "length" => result.length = exact
=============================================================================
