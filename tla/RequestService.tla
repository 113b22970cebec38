--------------------------- MODULE RequestService ---------------------------
(***************************************************************************)
(* What a user-space block device queue promises to the block layer: each  *)
(* issued request is carried out and then answered, exactly once and never *)
(* before it was carried out; the queue closes only when it owes no answer *)
(* and takes no request afterwards.                                        *)
(***************************************************************************)
CONSTANT Slots
VARIABLES
    st,         \* slot -> "free" | "pending" | "performed"
    open        \* the queue still serves requests

serviceVars == <<st, open>>

ServiceInit ==
    /\ st = [t \in Slots |-> "free"]
    /\ open = TRUE

Issue ==
    /\ open
    /\ \E t \in Slots : st[t] = "free" /\ st' = [st EXCEPT ![t] = "pending"]
    /\ UNCHANGED open

Perform ==
    /\ open
    /\ \E t \in Slots : st[t] = "pending" /\ st' = [st EXCEPT ![t] = "performed"]
    /\ UNCHANGED open

\* Answers go out in batches.
Answer ==
    /\ open
    /\ \E batch \in SUBSET Slots :
         /\ \A t \in batch : st[t] = "performed"
         /\ st' = [t \in Slots |-> IF t \in batch THEN "free" ELSE st[t]]
    /\ UNCHANGED open

Close ==
    /\ open
    /\ \A t \in Slots : st[t] = "free"
    /\ open' = FALSE
    /\ UNCHANGED st

ServiceNext == Issue \/ Perform \/ Answer \/ Close

ServiceSpec == ServiceInit /\ [][ServiceNext]_serviceVars
=============================================================================
