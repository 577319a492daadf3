---------------------------- MODULE MCBackground ----------------------------
(* Instances of Background for TLC. *)
EXTENDS Background

CONSTANTS c1, c2, e1, p1, h1, q1, usd, eur, inr

\* What goes on in one behaviour: calls with something else on the topic of their replies,
\* exports beside calls that nobody makes, and the rates, which do not meet Kafka.
Apart == {{"rpc", "garbled"}, {"export"}, {"rates"}}
=============================================================================
