------------------------------ MODULE Settings ------------------------------
(* What a user can set: the account with its methods and passwords, and preferences. *)
(* They share no state.                                                             *)
EXTENDS Credentials, Preferences

vars == <<account, prefVars>>

Init == InitAccount /\ InitPreferences
Next ==
    \/ NextAccount /\ UNCHANGED prefVars
    \/ "preferences" \in routes /\ (\E v \in Visits : NextPreference(v)) /\ UNCHANGED account

Spec == Init /\ [][Next]_vars
=============================================================================
