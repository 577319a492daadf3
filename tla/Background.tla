----------------------------- MODULE Background -----------------------------
(* What runs beside the requests: calls and exports over Kafka with the worker that *)
(* serves them, and the jobs that fetch exchange rates. They share no state.        *)
EXTENDS Messaging, Rates

vars == <<messages, rateVars>>

Init == InitMessages /\ InitRates
Next ==
    \/ NextMessage /\ UNCHANGED rateVars
    \/ "rates" \in routes /\ NextRate /\ UNCHANGED messages

Spec     == Init /\ [][Next]_vars
FairSpec == Spec /\ MessagesGoOn
=============================================================================
