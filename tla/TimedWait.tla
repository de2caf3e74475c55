------------------------------ MODULE TimedWait ------------------------------
(***************************************************************************)
(* What clase7/ejemplo-sem promises of a wait with a deadline: it succeeds *)
(* if somebody posted before it gave up, gives up only after the deadline  *)
(* and with nothing posted, and ends.  Signals that come in between do not *)
(* change that.                                                            *)
(***************************************************************************)
VARIABLES
    posted,     \* somebody posted
    expired,    \* the deadline has passed
    outcome     \* what the wait came to: none (yet), success or failure

vars == <<posted, expired, outcome>>

Init == posted = FALSE /\ expired = FALSE /\ outcome = "none"

Post == posted' = TRUE /\ UNCHANGED <<expired, outcome>>

Expire == expired' = TRUE /\ UNCHANGED <<posted, outcome>>

Succeed ==
    /\ outcome = "none" /\ posted
    /\ outcome' = "success"
    /\ UNCHANGED <<posted, expired>>

GiveUp ==
    /\ outcome = "none" /\ expired /\ ~posted
    /\ outcome' = "failure"
    /\ UNCHANGED <<posted, expired>>

Next == Post \/ Expire \/ Succeed \/ GiveUp

Spec == Init /\ [][Next]_vars
FairSpec == Spec /\ WF_vars(Expire) /\ WF_vars(Succeed \/ GiveUp)
==============================================================================
