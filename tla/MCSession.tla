------------------------------ MODULE MCSession ------------------------------
(***************************************************************************)
(* Instances of Session for TLC: clients that send up to two heads of any  *)
(* kind, each with or without a body, and up to three heads that parse.    *)
(***************************************************************************)
EXTENDS Session

CONSTANT Bodies   (* How many units of body may follow a head.             *)

MCKinds == {"plain", "sized", "noPort"}
MCOutcomeOf == [plain |-> "request", sized |-> "nullopt", noPort |-> "throws"]

Request(kind, n) ==
  <<[part |-> "start", kind |-> kind], [part |-> "end", kind |-> kind]>>
    \o [i \in 1 .. n |-> Body]

Requests == {Request(k, n) : k \in MCKinds, n \in Bodies}
Plain    == Request("plain", 0)
MCStreams == Requests \cup {r \o s : r, s \in Requests} \cup {Plain \o Plain \o Plain}
=============================================================================
