----------------------------- MODULE SqlService -----------------------------
(***************************************************************************)
(* What the SQL executor promises SqlHandler: a job submit() accepted is   *)
(* answered exactly once, in the order of acceptance, also when the        *)
(* executor is stopped meanwhile; a job it refused is never answered.      *)
(***************************************************************************)
EXTENDS Naturals, Sequences

CONSTANT Job

VARIABLES
    accepted,  \* the jobs submit() returned true for, in order
    answered,  \* how many of them have posted their answer
    open       \* submit() accepts

vars == <<accepted, answered, open>>

Init == accepted = <<>> /\ answered = 0 /\ open = TRUE

Submit(j) ==
    /\ open
    /\ accepted' = Append(accepted, j)
    /\ UNCHANGED <<answered, open>>

Refuse == ~open /\ UNCHANGED vars

Answer ==
    /\ answered < Len(accepted)
    /\ answered' = answered + 1
    /\ UNCHANGED <<accepted, open>>

Close == open' = FALSE /\ UNCHANGED <<accepted, answered>>

\* A stopped executor that is started again owes nothing.
Reopen ==
    /\ answered = Len(accepted)
    /\ open' = TRUE
    /\ UNCHANGED <<accepted, answered>>

Next == (\E j \in Job : Submit(j)) \/ Refuse \/ Answer \/ Close \/ Reopen

Spec == Init /\ [][Next]_vars
=============================================================================
