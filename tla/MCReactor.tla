------------------------------ MODULE MCReactor ------------------------------
(***************************************************************************)
(* The instance of Reactor for TLC.                                        *)
(***************************************************************************)
EXTENDS Reactor
=============================================================================
