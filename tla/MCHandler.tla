----------------------------- MODULE MCHandler -----------------------------
(***************************************************************************)
(* Handler for TLC: clients that send two messages of MCParser's catalogue *)
(* back to back, every one of them first and second.                       *)
(***************************************************************************)
EXTENDS MCParser, Handler

CONSTANT Seconds  (* Names of the messages that come second.               *)

MCStreams ==
  {Catalogue[m] \o Catalogue[n] : m \in MessageSet, n \in Seconds}
=============================================================================
