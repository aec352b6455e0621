------------------------ MODULE MCSubscriptionLedger ------------------------
(* SubscriptionLedger for TLC: one user, who may buy the subscriptions s1    *)
(* and s2 and be given g1; or two users, where g1 is given to the second.    *)
EXTENDS SubscriptionLedger

CONSTANTS u1, u2, s1, s2, g1

OneUser == [r \in Rows |-> u1]
TwoUsers == [r \in Rows |-> IF r = g1 THEN u2 ELSE u1]

\* Invoices that do not carry the metadata of their subscription.
NamedBySubscription == {"updated", "deleted"}

\* Handlers are interchangeable.  For safety runs only.
Symmetry == Permutations(Workers)
=============================================================================
