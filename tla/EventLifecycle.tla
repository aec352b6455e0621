--------------------------- MODULE EventLifecycle ---------------------------
(* What the webhook inbox promises of each Stripe event, without deliveries, *)
(* rows or claims: the handler of an event runs at most once at a time, an   *)
(* event that was handled is never run again, a failed one may be, and one   *)
(* whose run was cut off is stranded for good.                               *)
CONSTANT Events
VARIABLE phase

Phases == {"unseen", "running", "handled", "failed", "stranded"}

Init == phase = [e \in Events |-> "unseen"]

Move(e, p) == phase' = [phase EXCEPT ![e] = p]

\* A handler starts: for a new event, or for one that failed before.
Start(e) == phase[e] \in {"unseen", "failed"} /\ Move(e, "running")

\* The claim was written but its reply was lost: nobody runs the handler.
LoseClaim(e) == phase[e] \in {"unseen", "failed"} /\ Move(e, "stranded")

Complete(e) == phase[e] = "running" /\ Move(e, "handled")

Fail(e) == phase[e] = "running" /\ Move(e, "failed")

\* The process dies: every run ends where its row was left, and no event that
\* was not running changes.
Outage == /\ phase' \in [Events -> Phases \ {"running"}]
          /\ \A e \in Events :
                \/ phase[e] = "running"
                     /\ phase'[e] \in {"stranded", "handled", "failed"}
                \/ phase[e] # "running" /\ phase'[e] = phase[e]

Next == \/ \E e \in Events : Start(e) \/ LoseClaim(e) \/ Complete(e) \/ Fail(e)
        \/ Outage

Spec == Init /\ [][Next]_phase
=============================================================================
