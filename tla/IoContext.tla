------------------------------- MODULE IoContext -------------------------------
(***************************************************************************)
(* What an asio io_context promises to the sessions and to the accept loop *)
(* that live on it: every operation submitted is completed at most once,   *)
(* in one of the threads that run the context; the context stops when it   *)
(* is told to or when nothing is left to do, and not before; and once it   *)
(* has stopped a thread finishes at most what it was engaged in and then   *)
(* returns.  Module Scheduler implements it.                               *)
(***************************************************************************)
CONSTANTS
  Ops,       (* The operations, each submitted at most once.               *)
  Runners,   (* The threads that call run().                               *)
  NoOp       (* What a runner that executes no handler executes.           *)

VARIABLES
  status,    (* new, pending, running or done                              *)
  engaged,   (* the runners that took something to do                      *)
  executes,  (* the operation whose handler a runner executes              *)
  guard,     (* whether there is a work guard                              *)
  asked,     (* whether stop() was called from outside                     *)
  phase,     (* running, ending, stopped                                   *)
  returned   (* the runners whose run() has returned                       *)

vars == <<status, engaged, executes, guard, asked, phase, returned>>

Quiet == ~guard /\ \A h \in Ops : status[h] \notin {"pending", "running"}

Init ==
  /\ status = [h \in Ops |-> "new"]
  /\ engaged = {}
  /\ executes = [r \in Runners |-> NoOp]
  /\ guard = TRUE /\ asked = FALSE
  /\ phase = "running"
  /\ returned = {}

Submit(h) ==
  /\ status[h] = "new"
  /\ status' = [status EXCEPT ![h] = "pending"]
  /\ UNCHANGED <<engaged, executes, guard, asked, phase, returned>>

(* Something that may or may not turn out to complete an operation.        *)
Engage(r) ==
  /\ phase # "stopped" /\ r \notin engaged \cup returned
  /\ engaged' = engaged \cup {r}
  /\ UNCHANGED <<status, executes, guard, asked, phase, returned>>

Disengage(r) ==
  /\ r \in engaged /\ executes[r] = NoOp
  /\ engaged' = engaged \ {r}
  /\ UNCHANGED <<status, executes, guard, asked, phase, returned>>

Begin(r, h) ==
  /\ status[h] = "pending" /\ executes[r] = NoOp /\ r \notin returned
  /\ r \in engaged \/ phase # "stopped"
  /\ engaged' = engaged \cup {r}
  /\ executes' = [executes EXCEPT ![r] = h]
  /\ status' = [status EXCEPT ![h] = "running"]
  /\ UNCHANGED <<guard, asked, phase, returned>>

End(r) ==
  /\ executes[r] # NoOp
  /\ status' = [status EXCEPT ![executes[r]] = "done"]
  /\ executes' = [executes EXCEPT ![r] = NoOp]
  /\ engaged' = engaged \ {r}
  /\ UNCHANGED <<guard, asked, phase, returned>>

OutOfWork ==
  /\ phase = "running" /\ Quiet
  /\ phase' = "ending"
  /\ UNCHANGED <<status, engaged, executes, guard, asked, returned>>

(* What was executed last may have yet to be counted down.                 *)
ReleaseGuard ==
  /\ guard /\ guard' = FALSE
  /\ \/ phase' = phase
     \/ phase = "running" /\ Quiet' /\ phase' = "ending"
  /\ UNCHANGED <<status, engaged, executes, asked, returned>>

Ask ==
  /\ asked' = TRUE
  /\ phase' = IF phase = "running" THEN "ending" ELSE phase
  /\ UNCHANGED <<status, engaged, executes, guard, returned>>

Stop ==
  /\ phase = "ending" /\ phase' = "stopped"
  /\ UNCHANGED <<status, engaged, executes, guard, asked, returned>>

Return(r) ==
  /\ phase = "stopped" /\ r \notin engaged \cup returned
  /\ returned' = returned \cup {r}
  /\ UNCHANGED <<status, engaged, executes, guard, asked, phase>>

Next ==
  \/ OutOfWork \/ ReleaseGuard \/ Ask \/ Stop
  \/ \E h \in Ops : Submit(h)
  \/ \E r \in Runners : Engage(r) \/ Disengage(r) \/ End(r) \/ Return(r)
                        \/ \E h \in Ops : Begin(r, h)

Spec == Init /\ [][Next]_vars
=============================================================================
