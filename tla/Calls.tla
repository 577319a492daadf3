------------------------------- MODULE Calls -------------------------------
(***************************************************************************)
(* What KafkaRequestReply promises its callers: a call that is made is      *)
(* settled, by an answer or by an error, and once settled it stays so.  The *)
(* one way out is a reply that cannot be read: the call is dropped, and     *)
(* nothing but a send that fails after all settles it.                     *)
(***************************************************************************)
CONSTANT Calls

VARIABLE stage

Become(c, s) == stage' = [stage EXCEPT ![c] = s]
Made(c)      == stage[c] = "new" /\ Become(c, "waiting")
Refused(c)   == stage[c] = "new" /\ Become(c, "failed")
Settled(c)   == stage[c] = "waiting" /\ (Become(c, "answered") \/ Become(c, "failed"))
Dropped(c)   == stage[c] = "waiting" /\ Become(c, "dropped")
SentInVain(c) == stage[c] = "dropped" /\ Become(c, "failed")

Init == stage = [c \in Calls |-> "new"]
Next == \E c \in Calls : Made(c) \/ Refused(c) \/ Settled(c) \/ Dropped(c) \/ SentInVain(c)

Safety == Init /\ [][Next]_stage
Spec   == Safety /\ \A c \in Calls : WF_stage(Settled(c) \/ Dropped(c))
=============================================================================
