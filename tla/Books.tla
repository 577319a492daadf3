------------------------------- MODULE Books -------------------------------
(* Transactions as they are filed and listed, and the files kept beside them. *)
EXTENDS Pages, Attachments

vars == <<books, reading, storage>>

Init == InitBooks /\ InitPages /\ InitFiles
Next ==
    \/ /\ \E r \in Requests : NextBook(r)
       /\ Disturb /\ UNCHANGED storage
    \/ /\ \E q \in Readers : List(q) \/ NextPage(q)
       /\ UNCHANGED storage
    \/ /\ "files" \in routes /\ NextFile
       /\ UNCHANGED <<books, reading>>

Spec == Init /\ [][Next]_vars
=============================================================================
