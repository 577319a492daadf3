------------------------------ MODULE MCPlans ------------------------------
(* Instances of Onboarding, and with it Subscriptions, for TLC. *)
EXTENDS Onboarding, TLC

CONSTANTS r1, r2, free, pro, b1, b2, mock, w1, w2, home, shop

AllFeatures == {"accounts", "members", "customRoles", "categories_per_workspace",
                "transactions_per_account"}
OneByDefault(f) == IF f = "transactions_per_account" THEN 2 ELSE 1
MinusOne == -1
\* The owner, the Owner role, and more default categories than any limit.
NewWorkspace == [f \in AllFeatures |-> CASE f \in {"members", "customRoles"} -> 1
                                          [] f = "categories_per_workspace" -> 3
                                          [] OTHER -> 0]
FirstOffer == free :> 1 @@ pro :> 2

\* What clients call together in one behaviour: billing; one kind of thing and its
\* limit; workspaces; setting up.
Together ==
    {{"confirm", "cancel"}, {"subscribe", "upgrade", "cancel"}, {"subscribe", "upgrade", "reprice"},
     {"register", "verify", "delete"},
     {"create", "update", "logo", "delete"}}
    \cup {{"subscribe", f} : f \in AllFeatures}
=============================================================================
