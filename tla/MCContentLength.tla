-------------------------- MODULE MCContentLength ---------------------------
(***************************************************************************)
(* ContentLength for an 8-bit size_t: 255 \div 10 = 25 and the digits 6 to *)
(* 9 after "25" wrap, as those after "1844674407370955161" do in 64 bits.  *)
(***************************************************************************)
EXTENDS ContentLength

CONSTANT MaxLength   (* Bound: characters of a text.                       *)

MCTexts == UNION {[1 .. n -> (0 .. 9) \cup {Other}] : n \in 0 .. MaxLength}
=============================================================================
