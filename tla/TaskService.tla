---------------------------- MODULE TaskService ----------------------------
(***************************************************************************)
(* What a pool of workers promises about the tasks it is given: a task it  *)
(* has accepted is not lost, not executed twice and not handed back, and   *)
(* none is accepted once the pool is shut.                                 *)
(***************************************************************************)
CONSTANTS Tasks

VARIABLES
  status,   \* status[t]: "new", "accepted" or "done"
  open      \* tasks may still be accepted

Init == /\ status = [t \in Tasks |-> "new"]
        /\ open = TRUE

Accept(t) == /\ open
             /\ status[t] = "new"
             /\ status' = [status EXCEPT ![t] = "accepted"]
             /\ UNCHANGED open

Finish(t) == /\ status[t] = "accepted"
             /\ status' = [status EXCEPT ![t] = "done"]
             /\ UNCHANGED open

Shut == /\ open' = FALSE
        /\ UNCHANGED status

Next == Shut \/ \E t \in Tasks : Accept(t) \/ Finish(t)

Spec == Init /\ [][Next]_<<status, open>>
=============================================================================
