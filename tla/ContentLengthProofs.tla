------------------------- MODULE ContentLengthProofs -------------------------
(***************************************************************************)
(* Proofs about ContentLength for every width of size_t, every body limit  *)
(* that size_t can hold and every text.                                    *)
(***************************************************************************)
EXTENDS ContentLength, SequenceTheorems, TLAPS

-----------------------------------------------------------------------------
(* size_t's arithmetic.                                                    *)

(* A number is a multiple of the modulus and its residue.                  *)
LEMMA WrappedRange ==
  ASSUME NEW n \in Nat
  PROVE  /\ Wrapped(n) \in 0 .. SizeMax
         /\ n = (SizeMax + 1) * (n \div (SizeMax + 1)) + Wrapped(n)
         /\ n \div (SizeMax + 1) \in Nat
         /\ Wrapped(n) <= n
         /\ n <= SizeMax => Wrapped(n) = n
BY SizeAssumption DEF Wrapped

(* Residues are unique.                                                    *)
LEMMA WrappedUnique ==
  ASSUME NEW q \in Nat, NEW r \in 0 .. SizeMax
  PROVE  Wrapped((SizeMax + 1) * q + r) = r
BY SizeAssumption DEF Wrapped

(* One more digit may be read before or after wrapping.                    *)
LEMMA WrappedStep ==
  ASSUME NEW n \in Nat, NEW d \in 0 .. 9
  PROVE  Wrapped(Wrapped(n) * 10 + d) = Wrapped(n * 10 + d)
<1>1. PICK k \in Nat, w \in 0 .. SizeMax :
        w = Wrapped(n) /\ n = (SizeMax + 1) * k + w
  BY WrappedRange
<1>2. w \in Nat /\ w * 10 + d \in Nat /\ SizeMax + 1 \in Nat /\ d \in Nat
  BY SizeAssumption
<1>3. PICK q \in Nat, v \in 0 .. SizeMax :
        v = Wrapped(w * 10 + d) /\ w * 10 + d = (SizeMax + 1) * q + v
  BY <1>2, WrappedRange
<1>4. v \in Nat /\ k * 10 + q \in Nat
  BY SizeAssumption
<1>5. n * 10 + d = (SizeMax + 1) * (k * 10 + q) + v
  <2>1. PICK m \in Nat : m = SizeMax + 1
    BY <1>2
  <2>2. n = m * k + w /\ w * 10 + d = m * q + v
    BY <1>1, <1>3, <2>1
  <2>3. m * (k * 10 + q) = (m * k) * 10 + m * q
    OBVIOUS
  <2>4. m * k \in Nat /\ m * q \in Nat
    OBVIOUS
  <2>5. n * 10 + d = (m * k) * 10 + (w * 10 + d)
    BY <1>2, <2>2, <2>4
  <2>6. n * 10 + d = m * (k * 10 + q) + v
    BY <1>4, <2>2, <2>3, <2>4, <2>5
  <2> QED  BY <2>1, <2>6
<1>6. Wrapped(n * 10 + d) = v
  BY <1>4, <1>5, WrappedUnique
<1> QED  BY <1>1, <1>3, <1>6
-----------------------------------------------------------------------------
(* The inductive invariant.                                                *)

(* The characters passed are digits.                                       *)
Passed == \A i \in 1 .. pos : IsDigit(value[i])

IInv == TypeOK /\ Congruent /\ Passed /\ AcceptedExact /\ RejectedTooBig

LEMMA InitIInv == Init => IInv
<1> SUFFICES ASSUME Init PROVE IInv
  OBVIOUS
<1>1. TypeOK
  BY SizeAssumption, LenProperties DEF Init, TypeOK
<1>2. Congruent
  BY WrappedRange DEF Init, Congruent
<1>3. Passed /\ AcceptedExact /\ RejectedTooBig
  BY DEF Init, Passed, AcceptedExact, RejectedTooBig, Running, Unexpected
<1> QED  BY <1>1, <1>2, <1>3 DEF IInv

(* A digit within the text has a value from 0 to 9.                        *)
LEMMA DigitValue ==
  ASSUME TypeOK, Looping, IsDigit(Token)
  PROVE  Token \in 0 .. 9 /\ pos + 1 \in 1 .. Len(value)
BY ElementOfSeq, LenProperties DEF TypeOK, Looping, IsDigit, Token

(* A check that fires has seen a number beyond SizeMax, or wrapped before. *)
LEMMA Beyond ==
  ASSUME TypeOK, NEW d \in 0 .. 9, content_length = Wrapped(exact),
         content_length > SizeMax \div 10
  PROVE  exact * 10 + d > SizeMax
<1>1. exact >= content_length
  BY WrappedRange DEF TypeOK
<1>2. content_length * 10 > SizeMax
  BY SizeAssumption DEF TypeOK
<1> QED  BY <1>1, <1>2, SizeAssumption DEF TypeOK

LEMMA StepIInv == IInv /\ [Next]_vars => IInv'
<1> SUFFICES ASSUME IInv, [Next]_vars
             PROVE  IInv'
  OBVIOUS
<1> USE DEF IInv
<1>a. Running # Unexpected /\ \A n : Returned(n) # Running /\ Returned(n) # Unexpected
  BY DEF Running, Unexpected, Returned
<1>1. CASE Empty
  BY <1>1, <1>a DEF Empty, Reject, TypeOK, Congruent, Passed, AcceptedExact,
    RejectedTooBig, Unexpected
<1>2. CASE NotDigit
  BY <1>2, <1>a DEF NotDigit, Looping, Reject, TypeOK, Congruent, Passed, Token,
    AcceptedExact, RejectedTooBig, Unexpected
<1>3. CASE TooLong
  <2>1. Token \in 0 .. 9
    BY <1>3, DigitValue DEF TooLong
  <2>2. content_length = Wrapped(exact)
    BY <1>3, <1>a DEF TooLong, Looping, Congruent
  <2>3. exact' > SizeMax
    BY <1>3, <2>1, <2>2, Beyond DEF TooLong
  <2>4. exact' \in Nat /\ result' = Unexpected
    BY <1>3, <2>1 DEF TooLong, Reject, TypeOK
  <2>5. TypeOK'
    BY <1>3, <2>4 DEF TooLong, Reject, TypeOK
  <2>6. RejectedTooBig'
    BY <2>3, <2>4, SizeAssumption DEF RejectedTooBig
  <2> QED  BY <1>3, <2>4, <2>5, <2>6
           DEF TooLong, Reject, Congruent, Passed, AcceptedExact, Unexpected
<1>4. CASE Accumulate
  <2>1. Token \in 0 .. 9 /\ pos + 1 \in 1 .. Len(value)
    BY <1>4, DigitValue DEF Accumulate
  <2>2. content_length = Wrapped(exact) /\ exact \in Nat
    BY <1>4, <1>a DEF Accumulate, Looping, Congruent, TypeOK
  <2>3. content_length' = Wrapped(exact * 10 + Token)
    BY <1>4, <2>1, <2>2, WrappedStep DEF Accumulate
  <2>4. exact' = exact * 10 + Token /\ exact' \in Nat
    BY <1>4, <2>1, <2>2 DEF Accumulate
  <2>5. Congruent'
    BY <2>3, <2>4 DEF Congruent
  <2>6. TypeOK'
    BY <1>4, <2>1, <2>3, <2>4, WrappedRange DEF Accumulate, TypeOK
  <2>7. Passed'
    BY <1>4, <2>1 DEF Accumulate, Passed, Token, TypeOK
  <2>8. AcceptedExact' /\ RejectedTooBig'
    BY <1>4 DEF Accumulate, Looping, AcceptedExact, RejectedTooBig, Running,
      Unexpected
  <2> QED  BY <2>5, <2>6, <2>7, <2>8
<1>5. CASE TooBig
  <2>1. exact >= content_length
    BY <1>5, <1>a, WrappedRange DEF TooBig, AtEnd, Congruent, TypeOK
  <2>2. RejectedTooBig'
    BY <1>5, <2>1, SizeAssumption DEF TooBig, Reject, RejectedTooBig, TypeOK
  <2> QED  BY <1>5, <2>2, <1>a DEF TooBig, Reject, TypeOK, Congruent, Passed,
             AcceptedExact, Unexpected
<1>6. CASE Accept
  <2>1. content_length = Wrapped(exact) /\ exact \in Nat
    BY <1>6, <1>a DEF Accept, AtEnd, Congruent, TypeOK
  <2>2. exact <= SizeMax => content_length = exact
    BY <2>1, WrappedRange
  <2>3. AcceptedExact'
    BY <1>6, <2>2 DEF Accept, AtEnd, AcceptedExact, Passed, Returned
  <2>4. TypeOK'
    BY <1>6, SizeAssumption DEF Accept, TypeOK
  <2> QED  BY <1>6, <2>1, <2>3, <2>4, <1>a
           DEF Accept, Congruent, Passed, RejectedTooBig
<1>7. CASE UNCHANGED vars
  BY <1>7 DEF vars, TypeOK, Congruent, Passed, AcceptedExact, RejectedTooBig, Token
<1> QED
  BY <1>1, <1>2, <1>3, <1>4, <1>5, <1>6, <1>7 DEF Next
-----------------------------------------------------------------------------
(* What ValidateContentLength guarantees at every width.                   *)

THEOREM Inductive == Spec => []IInv
BY InitIInv, StepIInv, PTL DEF Spec

(* The accumulator never leaves size_t, an accepted length never exceeds   *)
(* the body limit.                                                         *)
THEOREM TypeCorrect == Spec => []TypeOK
<1>1. IInv => TypeOK
  BY DEF IInv
<1> QED  BY <1>1, Inductive, PTL

(* The accumulator is the number read so far modulo 2^w.                   *)
THEOREM CongruentHolds == Spec => []Congruent
<1>1. IInv => Congruent
  BY DEF IInv
<1> QED  BY <1>1, Inductive, PTL

(* An accepted text is digits only and, if its number fits size_t, is      *)
(* returned exactly.                                                       *)
THEOREM AcceptedExactHolds == Spec => []AcceptedExact
<1>1. IInv => AcceptedExact
  BY DEF IInv
<1> QED  BY <1>1, Inductive, PTL

(* The overflow check rejects no number the body limit would admit.        *)
THEOREM RejectedTooBigHolds == Spec => []RejectedTooBig
<1>1. IInv => RejectedTooBig
  BY DEF IInv
<1> QED  BY <1>1, Inductive, PTL

(* The overflow check misses exactly one accumulator: only from            *)
(* SizeMax \div 10 can a digit wrap, and what is left is below ten.        *)
THEOREM WrapsOnlyAtTenthHolds == Spec => WrapsOnlyAtTenth
<1> DEFINE Edge == pos' # pos /\ content_length' # content_length * 10 + Token =>
                     content_length = SizeMax \div 10 /\ content_length' < 10
<1>1. IInv /\ [Next]_vars => [Edge]_vars
  <2> SUFFICES ASSUME IInv, Next, pos' # pos,
                      content_length' # content_length * 10 + Token
               PROVE  content_length = SizeMax \div 10 /\ content_length' < 10
    BY DEF vars
  <2>1. Accumulate
    BY DEF Next, Empty, NotDigit, TooLong, TooBig, Accept, Reject
  <2>2. Token \in 0 .. 9 /\ content_length \in 0 .. SizeMax
    BY <2>1, DigitValue DEF Accumulate, IInv, TypeOK
  <2>3. PICK x \in Nat : x = content_length * 10 + Token
    BY <2>2, SizeAssumption
  <2>4. content_length' = Wrapped(x) /\ content_length <= SizeMax \div 10
    BY <2>1, <2>3 DEF Accumulate
  <2>5. x > SizeMax
    BY <2>3, <2>4, WrappedRange, SizeAssumption
  <2>6. content_length = SizeMax \div 10
    BY <2>2, <2>3, <2>4, <2>5, SizeAssumption
  <2>7. CASE SizeMax >= 9
    <3>1. x - (SizeMax + 1) \in 0 .. 9 /\ x - (SizeMax + 1) \in 0 .. SizeMax
      BY <2>2, <2>3, <2>5, <2>6, <2>7, SizeAssumption
    <3>2. x = (SizeMax + 1) * 1 + (x - (SizeMax + 1))
      BY <2>3, SizeAssumption
    <3>3. Wrapped(x) = x - (SizeMax + 1)
      BY <3>1, <3>2, WrappedUnique
    <3> QED  BY <2>4, <2>6, <3>1, <3>3
  <2>8. CASE SizeMax < 9
    <3>1. Wrapped(x) \in 0 .. SizeMax
      BY WrappedRange
    <3> QED  BY <2>4, <2>6, <2>8, <3>1, SizeAssumption
  <2> QED  BY <2>7, <2>8, SizeAssumption
<1> QED  BY <1>1, Inductive, PTL DEF Spec, WrapsOnlyAtTenth
=============================================================================
