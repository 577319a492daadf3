----------------------------- MODULE Onboarding -----------------------------
(***************************************************************************)
(* One user and the workspaces the user owns: AuthService.register and      *)
(* verifyEmail, and WorkspaceService.create, update, delete and uploadLogo, *)
(* together with the subscription that verifyEmail sets up and that the     *)
(* creation of a workspace consults.                                       *)
(*                                                                         *)
(* A workspace is four inserts: its row, the Owner role, the owner's member *)
(* row and the default categories.  No transaction holds them together; a   *)
(* deletion takes all of them by cascade.                                   *)
(***************************************************************************)
EXTENDS Subscriptions

CONSTANTS
    Spaces,          \* ids of workspaces
    Slugs,           \* slugs that names give
    HomeSlug         \* the slug of the workspace that verification creates

ASSUME OnboardingConstants ==
    /\ IsFiniteSet(Spaces)
    /\ HomeSlug \in Slugs /\ None \notin Spaces \cup Slugs /\ "workspaces" \notin Features

VARIABLES
    user,       \* the account: "none", "new" or "verified"
    spaces,     \* workspaces: the slug, or None
    parts,      \* what there is beside the row of each
    deleted,    \* ghost: the workspaces that have been deleted
    revived     \* ghost: those whose row a save has inserted again

vars == <<routes, offer, subs, drawn, billed, things, invited, uncounted, req, offered, ended, alone, failed,
          user, spaces, parts, deleted, revived>>

Whole    == {"role", "member", "categories"}
Existing == {w \in Spaces : spaces[w] # None}
Taken(s) == \E w \in Spaces : spaces[w] = s
Estate   == <<user, spaces, parts, deleted, revived>>
Rest     == <<user, deleted, revived>>

-----------------------------------------------------------------------------
(* register: findByEmail, then the user and the identity in a transaction. *)
Register(r) ==
    /\ Start(r, "register")
    /\ user = "none"
    /\ Go(r, "register.save")
    /\ UNCHANGED <<Billing, Estate>>

\* UNIQUE(email) fails the second of two
SaveUser(r) ==
    /\ req[r].at = "register.save"
    /\ user' = IF user = "none" THEN "new" ELSE user
    /\ Answer(r)
    /\ UNCHANGED <<Billing, spaces, parts, deleted, revived>>

(* verifyEmail: the user, UPDATE, then createFreeSubscription and create,  *)
(* whose errors are put into the answer as a warning.                      *)
VerifyEmail(r) ==
    /\ Start(r, "verify")
    /\ user = "new"
    /\ Go(r, "verify.save")
    /\ UNCHANGED <<Billing, Estate>>

SaveVerified(r) ==
    /\ req[r].at = "verify.save"
    /\ user' = "verified"
    /\ req' = [req EXCEPT ![r].at = "free.find", ![r].slug = HomeSlug]
    /\ UNCHANGED <<Billing, spaces, parts, deleted, revived>>

\* createFreeSubscription
FindFree(r) ==
    /\ req[r].at = "free.find"
    /\ IF NoSub THEN Go(r, "free.plan") ELSE Answer(r)
    /\ UNCHANGED <<Billing, Estate>>

FindFreePlan(r) ==
    /\ req[r].at = "free.plan"
    /\ Draw(r, NewSub(FreePlan, offer[FreePlan], None))
    /\ UNCHANGED <<routes, Ledgers, Estate>>

(* create, behind the controller's limit check when a client calls it.     *)
CountSpaces(r) ==
    \E s \in Slugs :
        /\ Start(r, "create")
        /\ req' = [req EXCEPT ![r].at = "limit", ![r].feature = "workspaces",
                              ![r].count = Cardinality(Existing), ![r].slug = s]
        /\ UNCHANGED <<Billing, Estate>>

FindSlug(r) ==
    /\ req[r].at = "space.slugs"
    /\ IF Taken(req[r].slug) THEN Answer(r) ELSE Go(r, "space.insert")
    /\ UNCHANGED <<Billing, Estate>>

Fresh(w) == w \notin Existing \cup deleted /\ \A q \in Requests : req[q].space # w

InsertSpace(r) ==
    /\ req[r].at = "space.insert"
    /\ \E w \in Spaces :
          /\ Fresh(w)
          /\ spaces' = [spaces EXCEPT ![w] = req[r].slug]
          /\ req' = [req EXCEPT ![r].at = "space.role", ![r].space = w]
    /\ ~Taken(req[r].slug)
    /\ UNCHANGED <<Billing, Rest, parts>>

\* UNIQUE(slug)
SlugTaken(r) ==
    /\ req[r].at = "space.insert"
    /\ Taken(req[r].slug)
    /\ Answer(r)
    /\ UNCHANGED <<Billing, Estate>>

\* An insert that refers to the workspace, whose row must be there.
AddPart(r, place, part, next) ==
    /\ req[r].at = place
    /\ \/ /\ req[r].space \in Existing
          /\ parts' = [parts EXCEPT ![req[r].space] = @ \cup {part}]
          /\ IF next = "idle" THEN Answer(r) ELSE Go(r, next)
       \/ /\ req[r].space \notin Existing
          /\ Answer(r)
          /\ UNCHANGED parts
    /\ UNCHANGED <<Billing, Rest, spaces>>

CreateRole(r)       == AddPart(r, "space.role", "role", "space.member")
CreateOwner(r)      == AddPart(r, "space.member", "member", "space.categories")
\* A slip: the default categories are left to be made on demand.
NoCategories(r) ==
    /\ req[r].at = "space.categories"
    /\ Answer(r)
    /\ UNCHANGED <<Billing, Estate>>
CreateCategories(r) == AddPart(r, "space.categories", "categories", "idle")

(* update: member, row, permission, then BaseRepository.save, which looks  *)
(* the row up again and updates it, or inserts it.                         *)
UpdateSpace(r) ==
    \E w \in Existing :
        /\ Start(r, "update")
        /\ "member" \in parts[w]
        /\ req' = [req EXCEPT ![r].at = "space.exists", ![r].space = w, ![r].slug = spaces[w]]
        /\ UNCHANGED <<Billing, Estate>>

UploadLogo(r) ==
    \E w \in Existing :
        /\ Start(r, "logo")
        /\ "member" \in parts[w]
        /\ req' = [req EXCEPT ![r].at = "space.logo", ![r].space = w, ![r].slug = spaces[w]]
        /\ UNCHANGED <<Billing, Estate>>

\* The attachment refers to the workspace.
StoreLogo(r) ==
    /\ req[r].at = "space.logo"
    /\ IF req[r].space \in Existing THEN Go(r, "space.exists") ELSE Answer(r)
    /\ UNCHANGED <<Billing, Estate>>

FindToSave(r) ==
    /\ req[r].at = "space.exists"
    /\ Go(r, IF req[r].space \in Existing THEN "space.update" ELSE "space.revive")
    /\ UNCHANGED <<Billing, Estate>>

\* The slug is never changed; of a row that is gone, 'Entity not found'.
SaveSpace(r) ==
    /\ req[r].at = "space.update"
    /\ Answer(r)
    /\ UNCHANGED <<Billing, Estate>>

InsertAgain(r) ==
    /\ req[r].at = "space.revive"
    /\ IF req[r].space \in Existing \/ Taken(req[r].slug)
       THEN UNCHANGED <<spaces, revived>>
       ELSE /\ spaces' = [spaces EXCEPT ![req[r].space] = req[r].slug]
            /\ revived' = revived \cup {req[r].space}
    /\ Answer(r)
    /\ UNCHANGED <<Billing, user, parts, deleted>>

(* delete: the row, then DELETE, which cascades.                           *)
DeleteSpace(r) ==
    \E w \in Existing :
        /\ Start(r, "delete")
        /\ req' = [req EXCEPT ![r].at = "space.delete", ![r].space = w]
        /\ UNCHANGED <<Billing, Estate>>

DropSpace(r) ==
    /\ req[r].at = "space.delete"
    /\ spaces' = [spaces EXCEPT ![req[r].space] = None]
    /\ parts' = [parts EXCEPT ![req[r].space] = {}]
    /\ deleted' = deleted \cup {req[r].space}
    /\ Answer(r)
    /\ UNCHANGED <<Billing, user, revived>>

\* A statement fails: the method throws, and what it has written stays.
Fail(r) ==
    /\ MayFail /\ req[r].at # "idle"
    /\ failed' = TRUE
    /\ Answer(r)
    /\ UNCHANGED <<Billing, Estate, alone>>

-----------------------------------------------------------------------------
Init ==
    /\ routes \in RouteSets
    /\ offer = InitialOffer
    /\ offered = {<<p, offer[p]>> : p \in Plans}
    /\ subs = [i \in SubIds |-> None] /\ drawn = 0
    /\ billed = [b \in Bills |-> "none"] /\ ended = {}
    /\ things = AtFirst /\ invited = FALSE
    /\ uncounted = [f \in Features |-> IF AtFirst[f] < Cap THEN 0 ELSE AtFirst[f] - Cap + 1]
    /\ req = [r \in Requests |-> Idle]
    /\ alone = TRUE /\ failed = FALSE
    /\ user = "none"
    /\ spaces = [w \in Spaces |-> None] /\ parts = [w \in Spaces |-> {}]
    /\ deleted = {} /\ revived = {}

BeginBilling(r) ==
    \/ Subscribe(r) \/ Upgrade(r) \/ Confirm(r) \/ Cancel(r)
    \/ CountAccounts(r) \/ CountMembers(r) \/ CountRoles(r) \/ CountCategories(r)
    \/ CountTransactions(r)

BeginSpace(r) ==
    \/ Register(r) \/ VerifyEmail(r)
    \/ CountSpaces(r) \/ UpdateSpace(r) \/ UploadLogo(r) \/ DeleteSpace(r)

GoOnBilling(r) ==
    \/ FindActive(r) \/ InsertSub(r) \/ FindPlan(r) \/ SaveSub(r) \/ FindToConfirm(r)
    \/ SaveCancelled(r) \/ CancelAtGateway(r) \/ CheckFeatureLimit(r) \/ Make(r)

GoOnSpace(r) ==
    \/ SaveUser(r) \/ SaveVerified(r) \/ FindFree(r) \/ FindFreePlan(r)
    \/ FindSlug(r) \/ InsertSpace(r) \/ SlugTaken(r)
    \/ CreateRole(r) \/ CreateOwner(r) \/ CreateCategories(r)
    \/ StoreLogo(r) \/ FindToSave(r) \/ SaveSpace(r) \/ InsertAgain(r) \/ DropSpace(r)

Begin(r) ==
    /\ (BeginBilling(r) /\ UNCHANGED Estate) \/ BeginSpace(r)
    /\ alone' = (alone /\ \A q \in Requests \ {r} : req[q] = Idle)
    /\ UNCHANGED failed

GoOn(r) ==
    /\ (GoOnBilling(r) /\ UNCHANGED Estate) \/ GoOnSpace(r)
    /\ UNCHANGED <<alone, failed>>

World ==
    /\ \/ \E f \in Features : Remove(f)
       \/ AcceptInvitation \/ MoveTransaction
       \/ \E p \in Plans, limit \in Limits : Reprice(p, limit)
       \/ \E b \in Bills : Pay(b)
    /\ UNCHANGED <<Estate, alone, failed>>

Next == World \/ \E r \in Requests : Begin(r) \/ GoOn(r) \/ Fail(r)

\* Node goes on with a request whose statement has returned.
Spec == Init /\ [][Next]_vars /\ \A r \in Requests : WF_vars(GoOn(r))

-----------------------------------------------------------------------------
(* Properties.                                                             *)

ReqType == [at: Places, id: 0 .. MaxSubs, row: SubRow \cup {None},
            feature: Features \cup {"workspaces", None}, count: Nat,
            space: Spaces \cup {None}, slug: Slugs \cup {None}]

\* The type of every variable.
TypeOK ==
    /\ routes \in RouteSets
    /\ offer \in [Plans -> Limits] /\ offered \subseteq Plans \X Limits
    /\ subs \in [SubIds -> SubRow \cup {None}] /\ drawn \in 0 .. MaxSubs
    /\ billed \in [Bills -> {"none", "active", "ending"}] /\ ended \subseteq Bills
    /\ things \in [Features -> Nat] /\ uncounted \in [Features -> Nat] /\ invited \in BOOLEAN
    /\ req \in [Requests -> ReqType]
    /\ alone \in BOOLEAN /\ failed \in BOOLEAN
    /\ user \in {"none", "new", "verified"}
    /\ spaces \in [Spaces -> Slugs \cup {None}]
    /\ parts \in [Spaces -> SUBSET Whole]
    /\ deleted \subseteq Spaces /\ revived \subseteq Spaces

Quiet == \A r \in Requests : req[r] = Idle

\* Rows are written back whole by requests that race, and plans are repriced; still
\* the limit in force is one that the plan of the row has offered (the snapshot of
\* UserSubscription is never torn).
SnapshotWasOffered ==
    \A i \in SubIds : subs[i] # None => <<subs[i].plan, subs[i].limit>> \in offered

\* As long as requests do not overlap, an active subscription is the newest one: it
\* is found by checkFeatureLimit, and there is no second.
ActiveIsCurrent ==
    alone => \A i \in SubIds : subs[i] # None /\ subs[i].status = "active" => Current(i)

\* cancelSubscription writes the row and then calls the gateway; whatever other
\* requests do to the row meanwhile, the bill it was cancelled with is ended.
CancelReachesGateway ==
    Quiet /\ ~failed => \A b \in ended : billed[b] = "ending"

\* Counting and creating are separate: requests at the limit overtake each other.  All of
\* them together exceed the highest limit there was by less than their number, but for what
\* came without a check (default categories, accepted invitations, transfers and moves)
\* since there was room last.
NeverUnlimited == \A x \in offered : x[2] # Unlimited
OvershootBounded ==
    NeverUnlimited => \A f \in Features : things[f] < Cap + Cardinality(Requests) + uncounted[f]

\* A workspace has its Owner role, the owner's member row and its categories once
\* nothing is in flight, also when creations and deletions race. A workspace that
\* an update has inserted again after its deletion has none of them.
WorkspaceWhole ==
    Quiet /\ ~failed => \A w \in Existing \ revived : parts[w] = Whole

\* A verified user ends up with a subscription and a complete workspace, however many
\* verifications race, unless a statement failed or a workspace was deleted: no later
\* request repeats the set-up.
HasHome == ~NoSub /\ \E w \in Existing : parts[w] = Whole
VerifiedGetsHome == (user = "verified") ~> (HasHome \/ failed \/ deleted # {})
=============================================================================
