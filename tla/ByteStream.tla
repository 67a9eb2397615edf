------------------------------ MODULE ByteStream ------------------------------
(***************************************************************************)
(* What a session promises to the bytes of its connection: whatever the    *)
(* cuts TCP makes in them, they are taken up once each and in the order in *)
(* which they were sent, some of them parsed and the others written back;  *)
(* a piece that is parsed ends with the end of a head; and the session     *)
(* does not let go of the connection before the client has.  Module        *)
(* Session implements it.                                                  *)
(***************************************************************************)
EXTENDS Naturals, Sequences

CONSTANTS
  Units,      (* The units of the stream.                                  *)
  EndUnits    (* Those that end a head.                                    *)

VARIABLES
  sent,       (* what the client has sent, in order                        *)
  gone,       (* whether the client has closed or reset its end            *)
  alive,      (* whether the session lives                                 *)
  handled     (* what became of the units, in order                        *)

vars == <<sent, gone, alive, handled>>

Fates == {"parsed", "echoed"}
Left  == SubSeq(sent, Len(handled) + 1, Len(sent))

Init ==
  /\ sent = <<>> /\ handled = <<>>
  /\ gone = FALSE /\ alive = TRUE

Send ==
  /\ ~gone
  /\ \E u \in Units : sent' = Append(sent, u)
  /\ UNCHANGED <<gone, alive, handled>>

Leave ==
  /\ ~gone /\ gone' = TRUE
  /\ UNCHANGED <<sent, alive, handled>>

(* The next n units meet with one fate.                                    *)
Handle(n, fate) ==
  /\ alive
  /\ fate = "parsed" => /\ Left[n] \in EndUnits
                        /\ \A i \in 1 .. n - 1 : Left[i] \notin EndUnits
  /\ handled' = handled \o [i \in 1 .. n |-> [unit |-> Left[i], fate |-> fate]]
  /\ UNCHANGED <<sent, gone, alive>>

End ==
  /\ alive /\ gone
  /\ alive' = FALSE
  /\ UNCHANGED <<sent, gone, handled>>

Next == \/ Send \/ Leave \/ End
        \/ \E n \in 1 .. Len(Left), fate \in Fates : Handle(n, fate)

Spec == Init /\ [][Next]_vars
=============================================================================
