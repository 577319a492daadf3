--------------------------- MODULE Subscriptions ---------------------------
(***************************************************************************)
(* The subscription of one user: SubscriptionService, the rows of           *)
(* user_subscriptions, the payment gateways, the limits that controllers    *)
(* check before they create something, and what comes unchecked.            *)
(*                                                                         *)
(* No method uses a transaction.  Rows are never deleted; changing a plan   *)
(* or cancelling writes back the whole row that was read.  The row in force *)
(* is the newest one, whatever its status.                                  *)
(***************************************************************************)
EXTENDS Integers, FiniteSets

CONSTANTS
    Requests,        \* concurrent requests
    RouteSets,       \* sets of endpoints that clients call together
    Plans,           \* rows of subscription_plans
    FreePlan,        \* the one named "free"
    Limits,          \* limits that a plan may set
    Unlimited,       \* a limit of -1, or none at all
    Features,        \* what is counted before more of it is made
    Default(_),      \* the limit of a feature for a user with no subscription
    Cap,             \* no limit but Unlimited is above
    MaxSubs,         \* bound: rows of user_subscriptions
    MaxThings,       \* bound: things of one kind
    AtFirst,         \* of each, how many are made with the workspace, without a check
    InitialOffer,    \* the limit each plan sets at first
    Bills,           \* subscriptions at a registered gateway
    Careless,        \* those at 2Checkout, whose cancel at the end of the period does nothing
    MockBill,        \* a merchant id that the service has made up
    MayFail,         \* whether any statement may fail
    None

ASSUME SubscriptionConstants ==
    /\ IsFiniteSet(Requests) /\ Requests # {}
    /\ FreePlan \in Plans
    /\ Cap \in Nat /\ MaxSubs \in Nat /\ MaxThings \in Nat
    /\ Limits \subseteq 0 .. Cap \cup {Unlimited} /\ Unlimited \notin 0 .. Cap
    /\ Unlimited \in Int
    /\ \A f \in Features : Default(f) \in 0 .. Cap
    /\ AtFirst \in [Features -> 0 .. MaxThings]
    /\ InitialOffer \in [Plans -> Limits]
    /\ Careless \subseteq Bills /\ MockBill \notin Bills
    /\ MayFail \in BOOLEAN
    /\ None \notin Plans \cup Features \cup Bills /\ None # MockBill

VARIABLES
    routes,     \* what clients call in this behaviour
    offer,      \* subscription_plans: the limit each plan sets now
    subs,       \* user_subscriptions: [1 .. MaxSubs -> a row, or None]
    drawn,      \* rows that have been made in memory; a later one has a later created_at
    billed,     \* what the gateways know: "none", "active" or "ending"
    things,     \* how many of each feature there are
    invited,    \* there is an invitation, whatever its status
    req,        \* per request: where it is and what it holds
    offered,    \* ghost: every <<plan, limit>> there has been
    ended,      \* ghost: the bills that a cancellation was saved for
    uncounted,  \* ghost: of each, how many came without a check since there was room last,
                \* less those that have been deleted since
    alone,      \* ghost: no two requests have overlapped so far
    failed      \* ghost: a statement has failed

SubIds    == 1 .. MaxSubs
Statuses  == {"active", "cancelled"}
\* The payment provider of a row is always written together with the merchant id:
\* that of a bill is its gateway, and no gateway knows what the service has made up.
SubRow    == [plan: Plans, limit: Limits, status: Statuses, bill: Bills \cup {MockBill, None}]
ASSUME NoneIsNoSubscription == None \notin SubRow

Places == {"idle", "subscribe.find", "upgrade.plan", "confirm.find", "sub.insert", "sub.save",
           "sub.cancel", "gateway", "limit", "make", "register.save", "verify.save", "free.find", "free.plan",
           "space.slugs", "space.insert", "space.role", "space.member", "space.categories",
           "space.logo", "space.exists", "space.update", "space.revive", "space.delete"}

Idle == [at |-> "idle", id |-> 0, row |-> None, feature |-> None, count |-> 0,
         space |-> None, slug |-> None]

-----------------------------------------------------------------------------
Start(r, route)  == route \in routes /\ req[r] = Idle
Go(r, place)     == req' = [req EXCEPT ![r].at = place]
\* The method returns, or throws to the controller.
Answer(r)        == req' = [req EXCEPT ![r] = Idle]
Hold(r, place, i, row) ==
    req' = [req EXCEPT ![r].at = place, ![r].id = i, ![r].row = row]

\* findByUserId: ORDER BY created_at DESC LIMIT 1
NoSub      == \A i \in SubIds : subs[i] = None
Current(i) == i \in SubIds /\ subs[i] # None /\ \A j \in SubIds : subs[j] # None => j <= i

\* UserSubscription.create and UserSubscription.upgrade: the limits of the plan
\* are copied into the row.
NewSub(p, limit, bill) ==
    [plan |-> p, limit |-> limit, status |-> "active", bill |-> bill]
\* A slip: the plan is changed and the old limits kept.
PlanOnly(row, p, bill) ==
    [row EXCEPT !.plan = p, !.bill = bill]
Upgraded(row, p, bill) ==
    [row EXCEPT !.plan = p, !.limit = offer[p], !.bill = bill]
Cancelled(row) == [row EXCEPT !.status = "cancelled"]

\* A new row takes the next id, and with it a creation time after all others.
Draw(r, row) ==
    /\ drawn < MaxSubs
    /\ drawn' = drawn + 1
    /\ Hold(r, "sub.insert", drawn + 1, row)

Stock   == <<things, invited, uncounted>>
Ledgers == <<offer, subs, billed, Stock, offered, ended>>
Billing == <<routes, Ledgers, drawn>>

(* subscribe: the plan, then the user's row, then an INSERT.               *)
Subscribe(r) ==
    \E p \in Plans :
        /\ Start(r, "subscribe")
        /\ Hold(r, "subscribe.find", 0, NewSub(p, offer[p], MockBill))
        /\ UNCHANGED Billing

\* A slip: an active subscription does not stop a second one.
FindNothing(r) ==
    /\ req[r].at = "subscribe.find"
    /\ Draw(r, req[r].row)
    /\ UNCHANGED <<routes, Ledgers>>

FindActive(r) ==
    /\ req[r].at = "subscribe.find"
    /\ \/ /\ \E i \in SubIds : Current(i) /\ subs[i].status = "active"
          /\ Answer(r)
          /\ UNCHANGED drawn
       \/ /\ \A i \in SubIds : Current(i) => subs[i].status # "active"
          /\ Draw(r, req[r].row)
    /\ UNCHANGED <<routes, Ledgers>>

\* A slip: verification answers as soon as there is a plan.
InsertAndAnswer(r) ==
    /\ req[r].at = "sub.insert"
    /\ subs' = [subs EXCEPT ![req[r].id] = req[r].row]
    /\ Answer(r)
    /\ UNCHANGED <<routes, offer, billed, Stock, offered, ended, drawn>>

\* save of a new entity: its id is found nowhere, so it is inserted.
InsertSub(r) ==
    /\ req[r].at = "sub.insert"
    /\ subs' = [subs EXCEPT ![req[r].id] = req[r].row]
    /\ IF req[r].slug = None THEN Answer(r) ELSE Go(r, "space.slugs")
    /\ UNCHANGED <<routes, offer, billed, Stock, offered, ended, drawn>>

(* upgrade, and downgrade, which calls it: the row, the plan, UPDATE.      *)
Upgrade(r) ==
    /\ Start(r, "upgrade")
    /\ \E i \in SubIds : Current(i) /\ Hold(r, "upgrade.plan", i, subs[i])
    /\ UNCHANGED Billing

FindPlan(r) ==
    /\ req[r].at = "upgrade.plan"
    /\ \E p \in Plans :
          LET row == req[r].row IN
          Hold(r, "sub.save", req[r].id,
               Upgraded(row, p, IF row.bill = None THEN MockBill ELSE row.bill))
    /\ UNCHANGED Billing

SaveSub(r) ==
    /\ req[r].at = "sub.save"
    /\ subs' = [subs EXCEPT ![req[r].id] = req[r].row]
    /\ Answer(r)
    /\ UNCHANGED <<routes, offer, billed, Stock, offered, ended, drawn>>

(* confirmSubscription, after the user has paid at a gateway.              *)
Confirm(r) ==
    \E p \in Plans, b \in Bills :
        /\ Start(r, "confirm")
        /\ billed[b] # "none"
        /\ Hold(r, "confirm.find", 0, NewSub(p, offer[p], b))
        /\ UNCHANGED Billing

FindToConfirm(r) ==
    /\ req[r].at = "confirm.find"
    /\ LET new == req[r].row IN
       \/ /\ NoSub
          /\ Draw(r, new)
       \/ /\ \E i \in SubIds :
                /\ Current(i)
                /\ Hold(r, "sub.save", i, [new EXCEPT !.status = subs[i].status])
          /\ UNCHANGED drawn
    /\ UNCHANGED <<routes, Ledgers>>

(* cancelSubscription: the row, UPDATE, then the gateway.                  *)
Cancel(r) ==
    /\ Start(r, "cancel")
    /\ \E i \in SubIds : Current(i) /\ Hold(r, "sub.cancel", i, Cancelled(subs[i]))
    /\ UNCHANGED Billing

\* The gateway is registered, knows the bill, and acts.
Reaches(row) == row.bill \in Bills \ Careless

SaveCancelled(r) ==
    /\ req[r].at = "sub.cancel"
    /\ subs' = [subs EXCEPT ![req[r].id] = req[r].row]
    /\ ended' = IF Reaches(req[r].row) THEN ended \cup {req[r].row.bill} ELSE ended
    /\ IF req[r].row.bill # None THEN Go(r, "gateway") ELSE Answer(r)
    /\ UNCHANGED <<routes, offer, billed, Stock, offered, drawn>>

\* A slip: the bill is taken from the row as it is by now.
CancelCurrentBill(r) ==
    /\ req[r].at = "gateway"
    /\ LET row == subs[req[r].id] IN
       billed' = IF Reaches(row) THEN [billed EXCEPT ![row.bill] = "ending"] ELSE billed
    /\ Answer(r)
    /\ UNCHANGED <<routes, offer, subs, Stock, offered, ended, drawn>>

\* An error of the gateway, or having no such gateway, is logged and forgotten.
CancelAtGateway(r) ==
    /\ req[r].at = "gateway"
    /\ LET row == req[r].row IN
       billed' = IF Reaches(row) THEN [billed EXCEPT ![row.bill] = "ending"] ELSE billed
    /\ Answer(r)
    /\ UNCHANGED <<routes, offer, subs, Stock, offered, ended, drawn>>

(* Limits: a controller counts, checkFeatureLimit reads the user's row,    *)
(* and only then is the thing created.  Members are counted together with  *)
(* the pending invitations, and what is made behind that check is such an  *)
(* invitation.                                                             *)
Count(r, f) ==
    /\ Start(r, f)
    /\ req' = [req EXCEPT ![r].at = "limit", ![r].feature = f, ![r].count = things[f]]
    /\ UNCHANGED Billing

CountAccounts(r)     == "accounts" \in Features /\ Count(r, "accounts")
CountMembers(r)      == "members" \in Features /\ Count(r, "members")
CountRoles(r)        == "customRoles" \in Features /\ Count(r, "customRoles")
CountCategories(r)   == "categories_per_workspace" \in Features /\ Count(r, "categories_per_workspace")
CountTransactions(r) == "transactions_per_account" \in Features /\ Count(r, "transactions_per_account")

\* A slip: one too many.
RoomForOneMore(f, n) ==
    \/ NoSub /\ n <= Default(f)
    \/ \E i \in SubIds : Current(i) /\ (subs[i].limit = Unlimited \/ n <= subs[i].limit)
Room(f, n) ==
    \/ NoSub /\ n < Default(f)
    \/ \E i \in SubIds : Current(i) /\ (subs[i].limit = Unlimited \/ n < subs[i].limit)

CheckFeatureLimit(r) ==
    /\ req[r].at = "limit"
    /\ IF ~Room(req[r].feature, req[r].count) THEN Answer(r)
       ELSE IF req[r].slug = None THEN Go(r, "make") ELSE Go(r, "space.slugs")
    /\ UNCHANGED Billing

\* bound: MaxThings
Make(r) ==
    /\ req[r].at = "make"
    /\ things[req[r].feature] < MaxThings
    /\ things' = [things EXCEPT ![req[r].feature] = @ + 1]
    /\ invited' = (invited \/ req[r].feature = "members")
    /\ Answer(r)
    /\ UNCHANGED <<routes, offer, subs, billed, uncounted, offered, ended, drawn>>

\* Of some things there is another one that no limit was checked for.
ComesUncounted(f) ==
    /\ f \in routes \cap Features /\ things[f] < MaxThings
    /\ things' = [things EXCEPT ![f] = @ + 1]
    /\ uncounted' = [uncounted EXCEPT ![f] = @ + 1]
    /\ UNCHANGED <<routes, offer, subs, billed, invited, offered, ended, drawn, req>>

\* acceptInvitation makes a member of an invitation that was cancelled or declined, and so is
\* not counted any more, or that stays pending because its update fails.  One that was counted
\* and is closed leaves the sum as it is.
AcceptInvitation == invited /\ ComesUncounted("members")

\* transfer adds a transaction to either account; updateTransaction moves one to another
\* account or another month.
MoveTransaction == ComesUncounted("transactions_per_account")

\* One of them is deleted.
Remove(f) ==
    /\ f \in routes /\ things[f] > 0
    /\ things' = [things EXCEPT ![f] = @ - 1]
    /\ uncounted' = [uncounted EXCEPT ![f] = IF things[f] <= Cap \/ @ = 0 THEN 0 ELSE @ - 1]
    /\ UNCHANGED <<routes, offer, subs, billed, invited, offered, ended, drawn, req>>

\* The operator changes what a plan offers.
Reprice(p, limit) ==
    /\ "reprice" \in routes
    /\ offer' = [offer EXCEPT ![p] = limit]
    /\ offered' = offered \cup {<<p, limit>>}
    /\ UNCHANGED <<routes, subs, billed, Stock, ended, drawn, req>>

\* A user pays at a gateway.
Pay(b) ==
    /\ "confirm" \in routes
    /\ billed[b] = "none"
    /\ billed' = [billed EXCEPT ![b] = "active"]
    /\ UNCHANGED <<routes, offer, subs, Stock, offered, ended, drawn, req>>
=============================================================================
