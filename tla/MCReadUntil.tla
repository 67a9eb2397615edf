------------------------------ MODULE MCReadUntil ------------------------------
(***************************************************************************)
(* Instances of ReadUntil for TLC: every stream up to a length over the    *)
(* bytes of the delimiter and one other.                                   *)
(***************************************************************************)
EXTENDS ReadUntil, SequencesExt

CONSTANTS
  LongestAny,     (* How long a stream of any bytes may be.                *)
  LongestDelim    (* How long one of the delimiter's bytes may be.         *)

MCBytes   == {"CR", "LF", "x"}
MCDelim   == <<"CR", "LF", "CR", "LF">>
MCStreams == BoundedSeq(MCBytes, LongestAny) \cup BoundedSeq({"CR", "LF"}, LongestDelim)
=============================================================================
