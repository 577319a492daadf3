---------------------------- MODULE PlansProofs ----------------------------
(* Proofs about Onboarding, and with it Subscriptions: types, snapshots of plans,    *)
(* cancellations, limits and complete workspaces, for any number of requests, plans, *)
(* bills, features and workspaces.                                                   *)
EXTENDS Onboarding, FiniteSetTheorems, TLAPS

\* What the record of a request may be: it has at each place what that place uses.
Fit(x) ==
    /\ x \in ReqType
    /\ x.at = "idle" => x = Idle
    /\ x.at \in {"subscribe.find", "upgrade.plan", "confirm.find", "sub.insert", "sub.save",
                 "sub.cancel", "gateway"} => x.row # None
    /\ x.at \in {"upgrade.plan", "sub.insert", "sub.save", "sub.cancel"} => x.id \in SubIds
    /\ x.at = "make" \/ (x.at = "limit" /\ x.slug = None) => x.feature \in Features
    /\ x.at \in {"space.slugs", "space.insert", "space.logo", "space.exists", "space.update",
                 "space.revive"} => x.slug \in Slugs
    /\ x.at \in {"space.role", "space.member", "space.categories", "space.logo", "space.exists",
                 "space.update", "space.revive", "space.delete"} => x.space \in Spaces

\* The limits of a row that is held, saved or not, were offered with its plan.
Offered(row) == <<row.plan, row.limit>> \in offered

Billed ==
    /\ offer \in [Plans -> Limits] /\ offered \subseteq Plans \X Limits
    /\ \A p \in Plans : <<p, offer[p]>> \in offered
    /\ subs \in [SubIds -> SubRow \cup {None}] /\ drawn \in 0 .. MaxSubs
    /\ SnapshotWasOffered
    /\ billed \in [Bills -> {"none", "active", "ending"}] /\ ended \subseteq Bills
    /\ things \in [Features -> Nat] /\ uncounted \in [Features -> Nat] /\ invited \in BOOLEAN

Owned ==
    /\ user \in {"none", "new", "verified"}
    /\ spaces \in [Spaces -> Slugs \cup {None}]
    /\ parts \in [Spaces -> SUBSET Whole]
    /\ deleted \subseteq Spaces /\ revived \subseteq Spaces

Asked ==
    /\ req \in [Requests -> ReqType]
    /\ \A r \in Requests : Fit(req[r]) /\ (req[r].row # None => Offered(req[r].row))

BInv == Billed /\ Owned /\ Asked /\ routes \in RouteSets /\ alone \in BOOLEAN /\ failed \in BOOLEAN

-----------------------------------------------------------------------------
(* Requests.                                                               *)

LEMMA Constants ==
    /\ MaxSubs \in Nat /\ HomeSlug \in Slugs
    /\ None \notin SubRow /\ None \notin Features /\ None \notin Slugs /\ None \notin Spaces
BY SubscriptionConstants, OnboardingConstants, NoneIsNoSubscription

\* Changing a request's record field by field keeps its type.
LEMMA Typed ==
    /\ Idle \in ReqType
    /\ \A x \in ReqType, p \in Places :
          /\ [x EXCEPT !.at = p] \in ReqType
          /\ \A i \in SubIds \cup {0}, row \in SubRow : [x EXCEPT !.at = p, !.id = i, !.row = row] \in ReqType
          /\ \A f \in Features \cup {"workspaces"}, n \in Nat :
                [x EXCEPT !.at = p, !.feature = f, !.count = n] \in ReqType
          /\ \A s \in Slugs, n \in Nat :
                [x EXCEPT !.at = p, !.feature = "workspaces", !.count = n, !.slug = s] \in ReqType
          /\ \A w \in Spaces : [x EXCEPT !.at = p, !.space = w] \in ReqType
          /\ \A w \in Spaces, s \in Slugs : [x EXCEPT !.at = p, !.space = w, !.slug = s] \in ReqType
          /\ \A s \in Slugs : [x EXCEPT !.at = p, !.slug = s] \in ReqType
<1>1. Idle \in ReqType
  BY Constants DEF Idle, ReqType, Places
<1>2. SubIds \cup {0} \subseteq 0 .. MaxSubs
  BY Constants DEF SubIds
<1> SUFFICES ASSUME NEW x \in ReqType, NEW p \in Places
    PROVE  /\ [x EXCEPT !.at = p] \in ReqType
           /\ \A i \in 0 .. MaxSubs, row \in SubRow : [x EXCEPT !.at = p, !.id = i, !.row = row] \in ReqType
           /\ \A f \in Features \cup {"workspaces"}, n \in Nat :
                 [x EXCEPT !.at = p, !.feature = f, !.count = n] \in ReqType
           /\ \A s \in Slugs, n \in Nat :
                 [x EXCEPT !.at = p, !.feature = "workspaces", !.count = n, !.slug = s] \in ReqType
           /\ \A w \in Spaces : [x EXCEPT !.at = p, !.space = w] \in ReqType
           /\ \A w \in Spaces, s \in Slugs : [x EXCEPT !.at = p, !.space = w, !.slug = s] \in ReqType
           /\ \A s \in Slugs : [x EXCEPT !.at = p, !.slug = s] \in ReqType
  BY <1>1, <1>2
<1> QED
  BY DEF ReqType

LEMMA BeginsFit ==
    /\ Fit(Idle)
    /\ \A row \in SubRow, p \in {"subscribe.find", "confirm.find"} :
          Fit([Idle EXCEPT !.at = p, !.id = 0, !.row = row])
    /\ \A i \in SubIds, row \in SubRow, p \in {"upgrade.plan", "sub.cancel"} :
          Fit([Idle EXCEPT !.at = p, !.id = i, !.row = row])
    /\ \A f \in Features, n \in Nat : Fit([Idle EXCEPT !.at = "limit", !.feature = f, !.count = n])
    /\ \A s \in Slugs, n \in Nat :
          Fit([Idle EXCEPT !.at = "limit", !.feature = "workspaces", !.count = n, !.slug = s])
    /\ \A p \in {"register.save", "verify.save"} : Fit([Idle EXCEPT !.at = p])
    /\ \A w \in Spaces, s \in Slugs, p \in {"space.exists", "space.logo"} :
          Fit([Idle EXCEPT !.at = p, !.space = w, !.slug = s])
    /\ \A w \in Spaces : Fit([Idle EXCEPT !.at = "space.delete", !.space = w])
<1>1. /\ Fit(Idle)
      /\ \A p \in {"register.save", "verify.save"} : Fit([Idle EXCEPT !.at = p])
  <2>1. /\ Idle \in ReqType
        /\ \A p \in {"register.save", "verify.save"} : [Idle EXCEPT !.at = p] \in ReqType
    BY Typed DEF Places
  <2> QED
    BY <2>1, Constants DEF Fit, Idle
<1>2. ASSUME NEW row \in SubRow, NEW p \in {"subscribe.find", "confirm.find"}
      PROVE  Fit([Idle EXCEPT !.at = p, !.id = 0, !.row = row])
  <2>1. [Idle EXCEPT !.at = p, !.id = 0, !.row = row] \in ReqType
    BY Typed DEF Places
  <2> QED
    BY <2>1, Constants DEF Fit, Idle
<1>3. ASSUME NEW i \in SubIds, NEW row \in SubRow, NEW p \in {"upgrade.plan", "sub.cancel"}
      PROVE  Fit([Idle EXCEPT !.at = p, !.id = i, !.row = row])
  <2>1. [Idle EXCEPT !.at = p, !.id = i, !.row = row] \in ReqType
    BY Typed DEF Places
  <2> QED
    BY <2>1, Constants DEF Fit, Idle
<1>4. ASSUME NEW f \in Features, NEW n \in Nat
      PROVE  Fit([Idle EXCEPT !.at = "limit", !.feature = f, !.count = n])
  <2>1. [Idle EXCEPT !.at = "limit", !.feature = f, !.count = n] \in ReqType
    BY Typed DEF Places
  <2> QED
    BY <2>1, Constants DEF Fit, Idle
<1>5. ASSUME NEW s \in Slugs, NEW n \in Nat
      PROVE  Fit([Idle EXCEPT !.at = "limit", !.feature = "workspaces", !.count = n, !.slug = s])
  <2>1. [Idle EXCEPT !.at = "limit", !.feature = "workspaces", !.count = n, !.slug = s] \in ReqType
    BY Typed DEF Places
  <2> QED
    BY <2>1, Constants DEF Fit, Idle
<1>6. ASSUME NEW w \in Spaces, NEW s \in Slugs, NEW p \in {"space.exists", "space.logo"}
      PROVE  Fit([Idle EXCEPT !.at = p, !.space = w, !.slug = s])
  <2>1. [Idle EXCEPT !.at = p, !.space = w, !.slug = s] \in ReqType
    BY Typed DEF Places
  <2> QED
    BY <2>1, Constants DEF Fit, Idle
<1>7. ASSUME NEW w \in Spaces
      PROVE  Fit([Idle EXCEPT !.at = "space.delete", !.space = w])
  <2>1. [Idle EXCEPT !.at = "space.delete", !.space = w] \in ReqType
    BY Typed DEF Places
  <2> QED
    BY <2>1, Constants DEF Fit, Idle
<1> QED
  BY <1>1, <1>2, <1>3, <1>4, <1>5, <1>6, <1>7

LEMMA NextFits ==
    ASSUME NEW x, Fit(x)
    PROVE  /\ \A i \in SubIds, row \in SubRow, p \in {"sub.insert", "sub.save"} :
                 Fit([x EXCEPT !.at = p, !.id = i, !.row = row])
           /\ x.at = "sub.cancel" => Fit([x EXCEPT !.at = "gateway"])
           /\ x.at = "limit" /\ x.slug = None => Fit([x EXCEPT !.at = "make"])
           /\ x.slug # None => Fit([x EXCEPT !.at = "space.slugs"])
           /\ Fit([x EXCEPT !.at = "free.find", !.slug = HomeSlug])
           /\ Fit([x EXCEPT !.at = "free.plan"])
           /\ x.at = "space.slugs" => Fit([x EXCEPT !.at = "space.insert"])
           /\ x.at = "space.insert" => \A w \in Spaces :
                 Fit([x EXCEPT !.at = "space.role", !.space = w])
           /\ x.at \in {"space.role", "space.member"} => \A p \in {"space.member", "space.categories"} :
                 Fit([x EXCEPT !.at = p])
           /\ x.at \in {"space.logo", "space.exists"} =>
                 \A p \in {"space.exists", "space.update", "space.revive"} : Fit([x EXCEPT !.at = p])
<1>1. ASSUME NEW i \in SubIds, NEW row \in SubRow, NEW p \in {"sub.insert", "sub.save"}
      PROVE  Fit([x EXCEPT !.at = p, !.id = i, !.row = row])
  <2>1. [x EXCEPT !.at = p, !.id = i, !.row = row] \in ReqType
    BY Typed DEF Places, Fit
  <2> QED
    BY <2>1, Constants DEF Fit, ReqType
<1>2. ASSUME x.at = "sub.cancel"
      PROVE  Fit([x EXCEPT !.at = "gateway"])
  <2>1. [x EXCEPT !.at = "gateway"] \in ReqType
    BY <1>2, Typed DEF Places, Fit
  <2> QED
    BY <1>2, <2>1, Constants DEF Fit, ReqType
<1>3. ASSUME x.at = "limit", x.slug = None
      PROVE  Fit([x EXCEPT !.at = "make"])
  <2>1. [x EXCEPT !.at = "make"] \in ReqType
    BY <1>3, Typed DEF Places, Fit
  <2> QED
    BY <1>3, <2>1, Constants DEF Fit, ReqType
<1>4. ASSUME x.slug # None
      PROVE  Fit([x EXCEPT !.at = "space.slugs"])
  <2>1. [x EXCEPT !.at = "space.slugs"] \in ReqType
    BY <1>4, Typed DEF Places, Fit
  <2> QED
    BY <1>4, <2>1, Constants DEF Fit, ReqType
<1>5. ASSUME x.at = "space.slugs"
      PROVE  Fit([x EXCEPT !.at = "space.insert"])
  <2>1. [x EXCEPT !.at = "space.insert"] \in ReqType
    BY <1>5, Typed DEF Places, Fit
  <2> QED
    BY <1>5, <2>1, Constants DEF Fit, ReqType
<1>6. /\ Fit([x EXCEPT !.at = "free.find", !.slug = HomeSlug])
      /\ Fit([x EXCEPT !.at = "free.plan"])
  <2>1. [x EXCEPT !.at = "free.plan"] \in ReqType
    BY Typed DEF Places, Fit
  <2>2. [x EXCEPT !.at = "free.find", !.slug = HomeSlug] \in ReqType
    BY Typed, Constants DEF Places, Fit
  <2>3. Fit([x EXCEPT !.at = "free.plan"])
    BY <2>1, Constants DEF Fit, ReqType
  <2>4. Fit([x EXCEPT !.at = "free.find", !.slug = HomeSlug])
    BY <2>2, Constants DEF Fit, ReqType
  <2> QED
    BY <2>3, <2>4
<1>7. ASSUME x.at = "space.insert", NEW w \in Spaces
      PROVE  Fit([x EXCEPT !.at = "space.role", !.space = w])
  <2>1. [x EXCEPT !.at = "space.role", !.space = w] \in ReqType
    BY <1>7, Typed DEF Places, Fit
  <2> QED
    BY <1>7, <2>1, Constants DEF Fit, ReqType
<1>8. ASSUME x.at \in {"space.role", "space.member"}, NEW p \in {"space.member", "space.categories"}
      PROVE  Fit([x EXCEPT !.at = p])
  <2>1. [x EXCEPT !.at = p] \in ReqType
    BY <1>8, Typed DEF Places, Fit
  <2> QED
    BY <1>8, <2>1, Constants DEF Fit, ReqType
<1>9. ASSUME x.at \in {"space.logo", "space.exists"},
             NEW p \in {"space.exists", "space.update", "space.revive"}
      PROVE  Fit([x EXCEPT !.at = p])
  <2>1. [x EXCEPT !.at = p] \in ReqType
    BY <1>9, Typed DEF Places, Fit
  <2> QED
    BY <1>9, <2>1, Constants DEF Fit, ReqType
<1> QED
  BY <1>1, <1>2, <1>3, <1>4, <1>5, <1>6, <1>7, <1>8, <1>9

\* A request gets a record that fits.
LEMMA Put ==
    ASSUME Asked, NEW r \in Requests, NEW x, Fit(x), x.row # None => Offered(x.row),
           req' = [req EXCEPT ![r] = x], UNCHANGED offered
    PROVE  Asked'
<1>1. x \in ReqType
  BY DEF Fit
<1>2. \A q \in Requests : req'[q] = IF q = r THEN x ELSE req[q]
  BY DEF Asked
<1> QED
  BY <1>1, <1>2 DEF Asked, Offered

LEMMA Answered ==
    ASSUME Asked, NEW r \in Requests, Answer(r), UNCHANGED offered
    PROVE  Asked'
BY Put, BeginsFit DEF Answer, Idle

\* Only the requests have changed.
LEMMA RequestsOnly ==
    ASSUME BInv, Asked', alone' \in BOOLEAN, failed' \in BOOLEAN, UNCHANGED <<Billing, Estate>>
    PROVE  BInv'
BY DEF BInv, Billed, Owned, Billing, Ledgers, Stock, Estate, SnapshotWasOffered

LEMMA NewFits ==
    ASSUME BInv, NEW p \in Plans, NEW b \in Bills \cup {MockBill, None}
    PROVE  /\ NewSub(p, offer[p], b) \in SubRow
           /\ Offered(NewSub(p, offer[p], b))
           /\ \A row \in SubRow : Upgraded(row, p, b) \in SubRow /\ Offered(Upgraded(row, p, b))
BY DEF BInv, Billed, SubRow, Statuses, NewSub, Upgraded, Offered

LEMMA RowFits ==
    ASSUME BInv, NEW i \in SubIds, subs[i] # None
    PROVE  /\ subs[i] \in SubRow /\ Offered(subs[i])
           /\ Cancelled(subs[i]) \in SubRow /\ Offered(Cancelled(subs[i]))
BY DEF BInv, Billed, SubRow, Statuses, Cancelled, Offered, SnapshotWasOffered

\* Counting the workspaces gives a number.
LEMMA SpacesCounted == Cardinality(Existing) \in Nat
<1>1. IsFiniteSet(Existing)
  BY OnboardingConstants, FS_Subset DEF Existing
<1> QED
  BY <1>1, FS_CardinalityType

-----------------------------------------------------------------------------
(* Types and snapshots.                                                    *)

\* Subscriptions: what begins.
LEMMA BillingBegins ==
    ASSUME BInv, NEW r \in Requests, BeginBilling(r)
    PROVE  Asked'
<1>1. req[r] = Idle /\ UNCHANGED Billing /\ Asked /\ UNCHANGED offered
  BY DEF BeginBilling, Subscribe, Upgrade, Confirm, Cancel, CountAccounts, CountMembers, CountRoles,
         CountCategories, CountTransactions, Count, Start, Billing, Ledgers, BInv
<1>2. CASE Subscribe(r)
  <2>1. PICK p \in Plans : Hold(r, "subscribe.find", 0, NewSub(p, offer[p], MockBill))
    BY <1>2 DEF Subscribe
  <2> DEFINE row == NewSub(p, offer[p], MockBill)
  <2>2. row \in SubRow /\ Offered(row)
    BY NewFits
  <2>3. req' = [req EXCEPT ![r] = [Idle EXCEPT !.at = "subscribe.find", !.id = 0, !.row = row]]
    BY <1>1, <2>1 DEF Hold, Asked
  <2>4. Fit([Idle EXCEPT !.at = "subscribe.find", !.id = 0, !.row = row])
    BY <2>2, BeginsFit
  <2> HIDE DEF row
  <2> QED
    BY <1>1, <2>2, <2>3, <2>4, Put DEF Idle
<1>3. CASE Upgrade(r)
  <2>1. PICK i \in SubIds : subs[i] # None /\ Hold(r, "upgrade.plan", i, subs[i])
    BY <1>3 DEF Upgrade, Current
  <2>2. req' = [req EXCEPT ![r] = [Idle EXCEPT !.at = "upgrade.plan", !.id = i, !.row = subs[i]]]
    BY <1>1, <2>1 DEF Hold, Asked
  <2>3. subs[i] \in SubRow /\ Offered(subs[i])
    BY <2>1, RowFits
  <2> QED
    BY <1>1, <2>2, <2>3, BeginsFit, Put DEF Idle
<1>4. CASE Confirm(r)
  <2>1. PICK p \in Plans, b \in Bills : Hold(r, "confirm.find", 0, NewSub(p, offer[p], b))
    BY <1>4 DEF Confirm
  <2> DEFINE row == NewSub(p, offer[p], b)
  <2>2. row \in SubRow /\ Offered(row)
    BY NewFits
  <2>3. req' = [req EXCEPT ![r] = [Idle EXCEPT !.at = "confirm.find", !.id = 0, !.row = row]]
    BY <1>1, <2>1 DEF Hold, Asked
  <2>4. Fit([Idle EXCEPT !.at = "confirm.find", !.id = 0, !.row = row])
    BY <2>2, BeginsFit
  <2> HIDE DEF row
  <2> QED
    BY <1>1, <2>2, <2>3, <2>4, Put DEF Idle
<1>5. CASE Cancel(r)
  <2>1. PICK i \in SubIds : subs[i] # None /\ Hold(r, "sub.cancel", i, Cancelled(subs[i]))
    BY <1>5 DEF Cancel, Current
  <2> DEFINE row == Cancelled(subs[i])
  <2>2. req' = [req EXCEPT ![r] = [Idle EXCEPT !.at = "sub.cancel", !.id = i, !.row = row]]
    BY <1>1, <2>1 DEF Hold, Asked
  <2>3. row \in SubRow /\ Offered(row)
    BY <2>1, RowFits
  <2> HIDE DEF row
  <2> QED
    BY <1>1, <2>2, <2>3, BeginsFit, Put DEF Idle
<1>6. ASSUME NEW f \in Features, Count(r, f) PROVE Asked'
  <2>1. things[f] \in Nat
    BY DEF BInv, Billed
  <2>2. req' = [req EXCEPT ![r] = [Idle EXCEPT !.at = "limit", !.feature = f, !.count = things[f]]]
    BY <1>1, <1>6 DEF Count, Asked
  <2> QED
    BY <1>1, <2>1, <2>2, BeginsFit, Put DEF Idle
<1> QED
  BY <1>2, <1>3, <1>4, <1>5, <1>6
     DEF BeginBilling, CountAccounts, CountMembers, CountRoles, CountCategories, CountTransactions

\* Accounts and workspaces: what begins.
LEMMA SpaceBegins ==
    ASSUME BInv, NEW r \in Requests, BeginSpace(r)
    PROVE  Asked' /\ UNCHANGED <<Billing, Estate>>
<1>1. req[r] = Idle /\ UNCHANGED <<Billing, Estate>> /\ Asked
  BY DEF BeginSpace, Register, VerifyEmail, CountSpaces, UpdateSpace, UploadLogo, DeleteSpace, Start, BInv
<1>2. UNCHANGED offered
  BY <1>1 DEF Billing, Ledgers
<1>3. CASE \E p \in {"register.save", "verify.save"} : Go(r, p)
  <2>1. PICK p \in {"register.save", "verify.save"} : req' = [req EXCEPT ![r] = [Idle EXCEPT !.at = p]]
    BY <1>1, <1>3 DEF Go, Asked
  <2> QED
    BY <1>1, <1>2, <2>1, BeginsFit, Put DEF Idle
<1>4. CASE CountSpaces(r)
  <2> DEFINE n == Cardinality(Existing)
  <2>1. PICK s \in Slugs : req' = [req EXCEPT ![r].at = "limit", ![r].feature = "workspaces",
                                           ![r].count = n, ![r].slug = s]
    BY <1>4 DEF CountSpaces
  <2>2. n \in Nat
    BY SpacesCounted
  <2> HIDE DEF n
  <2>3. req' = [req EXCEPT ![r] = [Idle EXCEPT !.at = "limit", !.feature = "workspaces",
                                          !.count = n, !.slug = s]]
    BY <1>1, <2>1 DEF Asked
  <2> QED
    BY <1>1, <1>2, <2>2, <2>3, BeginsFit, Put DEF Idle
<1>5. CASE UpdateSpace(r) \/ UploadLogo(r)
  <2>1. PICK w \in Existing, p \in {"space.exists", "space.logo"} :
            req' = [req EXCEPT ![r].at = p, ![r].space = w, ![r].slug = spaces[w]]
    BY <1>5 DEF UpdateSpace, UploadLogo
  <2>2. w \in Spaces /\ spaces[w] \in Slugs
    BY DEF Existing, BInv, Owned
  <2>3. req' = [req EXCEPT ![r] = [Idle EXCEPT !.at = p, !.space = w, !.slug = spaces[w]]]
    BY <1>1, <2>1 DEF Asked
  <2> QED
    BY <1>1, <1>2, <2>2, <2>3, BeginsFit, Put DEF Idle
<1>6. CASE DeleteSpace(r)
  <2>1. PICK w \in Spaces : req' = [req EXCEPT ![r] = [Idle EXCEPT !.at = "space.delete", !.space = w]]
    BY <1>1, <1>6 DEF DeleteSpace, Existing, Asked
  <2> QED
    BY <1>1, <1>2, <2>1, BeginsFit, Put DEF Idle
<1> QED
  BY <1>1, <1>3, <1>4, <1>5, <1>6 DEF BeginSpace, Register, VerifyEmail

LEMMA BeginKeeps ==
    ASSUME BInv, NEW r \in Requests, Begin(r)
    PROVE  BInv'
<1>1. /\ UNCHANGED <<Billing, Estate>> /\ Asked'
      /\ alone' \in BOOLEAN /\ failed' \in BOOLEAN
  <2>1. CASE BeginBilling(r) /\ UNCHANGED Estate
    BY <2>1, BillingBegins
       DEF Begin, BInv, BeginBilling, Subscribe, Upgrade, Confirm, Cancel, Count, CountAccounts,
           CountMembers, CountRoles, CountCategories, CountTransactions
  <2>2. CASE BeginSpace(r)
    BY <2>2, SpaceBegins DEF Begin, BInv
  <2> QED
    BY <2>1, <2>2 DEF Begin
<1> QED
  BY <1>1, RequestsOnly

\* What a request holds on its way.
LEMMA Holds ==
    ASSUME BInv, NEW r \in Requests
    PROVE  /\ Fit(req[r]) /\ req[r] \in ReqType
           /\ req[r].row # None => req[r].row \in SubRow /\ Offered(req[r].row)
BY DEF BInv, Asked, Fit, ReqType

\* A row is written.
LEMMA Saved ==
    ASSUME BInv, NEW i \in SubIds, NEW row \in SubRow, Offered(row),
           subs' = [subs EXCEPT ![i] = row], ended' \subseteq Bills,
           UNCHANGED <<offer, billed, Stock, offered, drawn>>
    PROVE  Billed'
BY DEF BInv, Billed, Stock, SnapshotWasOffered, Offered

LEMMA Drawn ==
    ASSUME BInv, NEW r \in Requests, NEW row \in SubRow, Offered(row), Draw(r, row), UNCHANGED offered
    PROVE  Asked' /\ drawn' \in 0 .. MaxSubs
<1> DEFINE i == drawn + 1
<1>1. drawn < MaxSubs /\ drawn \in 0 .. MaxSubs /\ drawn' = i
  BY DEF Draw, BInv, Billed
<1>2. i \in SubIds /\ drawn' \in 0 .. MaxSubs
  BY <1>1, Constants DEF SubIds
<1>3. req' = [req EXCEPT ![r] = [req[r] EXCEPT !.at = "sub.insert", !.id = i, !.row = row]]
  BY DEF Draw, Hold, BInv, Asked
<1> HIDE DEF i
<1>4. Fit([req[r] EXCEPT !.at = "sub.insert", !.id = i, !.row = row])
  BY <1>2, Holds, NextFits
<1>5. Asked /\ req[r] \in ReqType
  BY Holds DEF BInv
<1> QED
  BY <1>2, <1>3, <1>4, <1>5, Put DEF ReqType

\* The request goes on to another place, holding what it held.
LEMMA Moved ==
    ASSUME BInv, NEW r \in Requests, NEW p \in Places, Go(r, p), UNCHANGED offered,
           Fit([req[r] EXCEPT !.at = p])
    PROVE  Asked'
<1>1. req' = [req EXCEPT ![r] = [req[r] EXCEPT !.at = p]]
  BY DEF Go, BInv, Asked
<1>2. Asked /\ req[r] \in ReqType /\ (req[r].row # None => Offered(req[r].row))
  BY Holds DEF BInv
<1> QED
  BY <1>1, <1>2, Put DEF ReqType

\* Rows of the billing tables stay, but for the row numbers.
LEMMA BillingOnly ==
    ASSUME BInv, Asked', drawn' \in 0 .. MaxSubs, alone' \in BOOLEAN, failed' \in BOOLEAN,
           UNCHANGED <<routes, Ledgers, Estate>>
    PROVE  BInv'
BY DEF BInv, Billed, Owned, Ledgers, Stock, Estate, SnapshotWasOffered

\* Subscriptions: what goes on.
LEMMA BillingKeeps ==
    ASSUME BInv, NEW r \in Requests, GoOnBilling(r), UNCHANGED <<Estate, alone, failed>>
    PROVE  BInv'
<1>1. /\ BInv /\ Asked /\ Owned' /\ alone' \in BOOLEAN /\ failed' \in BOOLEAN
      /\ Fit(req[r]) /\ req[r] \in ReqType /\ drawn \in 0 .. MaxSubs
      /\ ended \subseteq Bills
  BY Holds DEF BInv, Owned, Estate, Billed
<1>2. req[r].row # None => req[r].row \in SubRow /\ Offered(req[r].row)
  BY Holds
<1>3. CASE FindActive(r)
  <2>1. req[r].row \in SubRow /\ Offered(req[r].row) /\ UNCHANGED offered
    BY <1>1, <1>2, <1>3 DEF FindActive, Fit, Ledgers
  <2>2. Asked' /\ drawn' \in 0 .. MaxSubs
    BY <1>1, <1>3, <2>1, Answered, Drawn DEF FindActive
  <2> QED
    BY <1>1, <1>3, <2>2, BillingOnly DEF FindActive
<1>4. CASE InsertSub(r)
  <2>1. req[r].row \in SubRow /\ Offered(req[r].row) /\ req[r].id \in SubIds
    BY <1>1, <1>2, <1>4 DEF InsertSub, Fit
  <2>2. Billed' /\ UNCHANGED <<offered, routes>>
    BY <1>1, <1>4, <2>1, Saved DEF InsertSub
  <2>3. Asked'
    BY <1>1, <1>4, <2>2, Answered, Moved, NextFits DEF InsertSub, Places
  <2> QED
    BY <1>1, <2>2, <2>3 DEF BInv
<1>5. CASE FindPlan(r)
  <2>1. PICK p \in Plans :
            Hold(r, "sub.save", req[r].id,
                 Upgraded(req[r].row, p, IF req[r].row.bill = None THEN MockBill ELSE req[r].row.bill))
    BY <1>5 DEF FindPlan
  <2> DEFINE b == IF req[r].row.bill = None THEN MockBill ELSE req[r].row.bill
             row == Upgraded(req[r].row, p, b)
  <2>2. req[r].row \in SubRow /\ req[r].id \in SubIds /\ UNCHANGED Billing
    BY <1>1, <1>2, <1>5 DEF FindPlan, Fit
  <2>3. b \in Bills \cup {MockBill, None}
    BY <2>2 DEF SubRow
  <2>4. row \in SubRow /\ Offered(row)
    BY <2>2, <2>3, NewFits
  <2>5. req' = [req EXCEPT ![r] = [req[r] EXCEPT !.at = "sub.save", !.id = req[r].id, !.row = row]]
    BY <1>1, <2>1 DEF Hold, Asked
  <2> HIDE DEF row
  <2>6. Fit([req[r] EXCEPT !.at = "sub.save", !.id = req[r].id, !.row = row])
    BY <1>1, <2>2, <2>4, NextFits
  <2>7. UNCHANGED offered
    BY <2>2 DEF Billing, Ledgers
  <2>8. Asked'
    BY <1>1, <2>4, <2>5, <2>6, <2>7, Put DEF ReqType
  <2> QED
    BY <1>1, <2>2, <2>8, RequestsOnly
<1>6. CASE SaveSub(r)
  <2>1. req[r].row \in SubRow /\ Offered(req[r].row) /\ req[r].id \in SubIds
    BY <1>1, <1>2, <1>6 DEF SaveSub, Fit
  <2>2. Billed' /\ UNCHANGED <<offered, routes>>
    BY <1>1, <1>6, <2>1, Saved DEF SaveSub
  <2>3. Asked'
    BY <1>1, <1>6, <2>2, Answered DEF SaveSub
  <2> QED
    BY <1>1, <2>2, <2>3 DEF BInv
<1>7. CASE FindToConfirm(r)
  <2>1. req[r].row \in SubRow /\ Offered(req[r].row) /\ UNCHANGED <<routes, Ledgers, offered>>
    BY <1>1, <1>2, <1>7 DEF FindToConfirm, Fit, Ledgers
  <2>2. CASE Draw(r, req[r].row)
    <3>1. Asked' /\ drawn' \in 0 .. MaxSubs
      BY <2>1, <2>2, Drawn
    <3> QED
      BY <1>1, <2>1, <3>1, BillingOnly
  <2>3. ASSUME NEW i \in SubIds, subs[i] # None, UNCHANGED drawn,
               Hold(r, "sub.save", i, [req[r].row EXCEPT !.status = subs[i].status])
        PROVE  BInv'
    <3> DEFINE row == [req[r].row EXCEPT !.status = subs[i].status]
    <3>1. row \in SubRow /\ Offered(row)
      BY <2>1, <2>3, RowFits DEF SubRow, Offered
    <3>2. req' = [req EXCEPT ![r] = [req[r] EXCEPT !.at = "sub.save", !.id = i, !.row = row]]
      BY <1>1, <2>3 DEF Hold, Asked
    <3> HIDE DEF row
    <3>3. Fit([req[r] EXCEPT !.at = "sub.save", !.id = i, !.row = row])
      BY <1>1, <3>1, NextFits
    <3>4. Asked'
      BY <1>1, <2>1, <3>1, <3>2, <3>3, Put DEF ReqType
    <3> QED
      BY <1>1, <2>1, <2>3, <3>4, BillingOnly
  <2> QED
    BY <1>7, <2>2, <2>3 DEF FindToConfirm, Current
<1>8. CASE SaveCancelled(r)
  <2>1. req[r].row \in SubRow /\ Offered(req[r].row) /\ req[r].id \in SubIds
    BY <1>1, <1>2, <1>8 DEF SaveCancelled, Fit
  <2>2. ended' \subseteq Bills
    BY <1>1, <1>8 DEF SaveCancelled, Reaches
  <2>3. Billed' /\ UNCHANGED <<offered, routes>>
    BY <1>1, <1>8, <2>1, <2>2, Saved DEF SaveCancelled
  <2>4. Asked'
    BY <1>1, <1>8, <2>3, Answered, Moved, NextFits DEF SaveCancelled, Places
  <2> QED
    BY <1>1, <2>3, <2>4 DEF BInv
<1>9. CASE CancelAtGateway(r)
  <2>1. billed' \in [Bills -> {"none", "active", "ending"}]
    BY <1>9 DEF CancelAtGateway, BInv, Billed
  <2>2. Asked'
    BY <1>1, <1>9, Answered DEF CancelAtGateway
  <2> QED
    BY <1>1, <1>9, <2>1, <2>2 DEF CancelAtGateway, BInv, Billed, Stock, SnapshotWasOffered
<1>10. CASE CheckFeatureLimit(r)
  <2>1. UNCHANGED Billing /\ UNCHANGED offered
    BY <1>10 DEF CheckFeatureLimit, Billing, Ledgers
  <2>2. Asked'
    BY <1>1, <1>10, <2>1, Answered, Moved, NextFits DEF CheckFeatureLimit, Places
  <2> QED
    BY <1>1, <2>1, <2>2, RequestsOnly
<1>11. CASE Make(r)
  <2>1. req[r].feature \in Features
    BY <1>1, <1>11 DEF Make, Fit
  <2>2. things' \in [Features -> Nat] /\ invited' \in BOOLEAN
    BY <1>11, <2>1 DEF Make, BInv, Billed
  <2>3. Asked'
    BY <1>1, <1>11, Answered DEF Make
  <2> QED
    BY <1>1, <1>11, <2>2, <2>3 DEF Make, BInv, Billed, SnapshotWasOffered
<1> QED
  BY <1>3, <1>4, <1>5, <1>6, <1>7, <1>8, <1>9, <1>10, <1>11 DEF GoOnBilling

\* Accounts and workspaces: what goes on without a change of what is stored.
LEMMA SpaceGoesOn ==
    ASSUME BInv, NEW r \in Requests, UNCHANGED <<Billing, Estate>>,
           \/ FindFree(r) \/ FindSlug(r) \/ SlugTaken(r)
           \/ StoreLogo(r) \/ FindToSave(r) \/ SaveSpace(r)
    PROVE  Asked'
<1>1. Asked /\ UNCHANGED offered /\ Fit(req[r])
  BY Holds DEF BInv, Billing, Ledgers
<1>2. CASE FindFree(r)
  BY <1>1, <1>2, Answered, Moved, NextFits DEF FindFree, Places
<1>3. CASE FindSlug(r)
  BY <1>1, <1>3, Answered, Moved, NextFits DEF FindSlug, Places
<1>4. CASE SlugTaken(r) \/ SaveSpace(r)
  BY <1>1, <1>4, Answered DEF SlugTaken, SaveSpace
<1>5. CASE StoreLogo(r)
  BY <1>1, <1>5, Answered, Moved, NextFits DEF StoreLogo, Places
<1>6. CASE FindToSave(r)
  BY <1>1, <1>6, Moved, NextFits DEF FindToSave, Places
<1> QED
  BY <1>2, <1>3, <1>4, <1>5, <1>6

\* The insertion of one more part of a workspace.
LEMMA AddPartKeeps ==
    ASSUME BInv, NEW r \in Requests, NEW part \in Whole,
           NEW place \in {"space.role", "space.member", "space.categories"},
           NEW next \in {"space.member", "space.categories", "idle"},
           next # "idle" => place \in {"space.role", "space.member"},
           AddPart(r, place, part, next), UNCHANGED <<alone, failed>>
    PROVE  BInv'
<1>1. Asked /\ UNCHANGED <<Billing, Rest, spaces>> /\ UNCHANGED offered /\ Fit(req[r]) /\ req[r].at = place
  BY Holds DEF BInv, AddPart, Billing, Ledgers
<1>2. parts' \in [Spaces -> SUBSET Whole]
  <2>1. req[r].space \in Spaces
    BY <1>1 DEF Fit
  <2> QED
    BY <2>1 DEF AddPart, BInv, Owned
<1>3. Asked'
  BY <1>1, Answered, Moved, NextFits DEF AddPart, Places
<1> QED
  BY <1>1, <1>2, <1>3 DEF BInv, Billed, Owned, Billing, Ledgers, Stock, Rest, SnapshotWasOffered

LEMMA SpaceKeeps ==
    ASSUME BInv, NEW r \in Requests, GoOnSpace(r), UNCHANGED <<alone, failed>>
    PROVE  BInv'
<1>1. /\ Asked /\ Owned /\ Fit(req[r]) /\ req[r] \in ReqType
      /\ alone' \in BOOLEAN /\ failed' \in BOOLEAN /\ drawn \in 0 .. MaxSubs
  BY Holds DEF BInv, Billed
<1>2. CASE FindFree(r) \/ FindSlug(r) \/ SlugTaken(r) \/ StoreLogo(r) \/ FindToSave(r) \/ SaveSpace(r)
  <2>1. UNCHANGED <<Billing, Estate>>
    BY <1>2 DEF FindFree, FindSlug, SlugTaken, StoreLogo, FindToSave, SaveSpace
  <2> QED
    BY <1>1, <1>2, <2>1, SpaceGoesOn, RequestsOnly
<1>3. CASE SaveUser(r)
  <2>1. UNCHANGED <<Billing, spaces, parts, deleted, revived>> /\ UNCHANGED offered
    BY <1>3 DEF SaveUser, Billing, Ledgers
  <2>2. Asked' /\ user' \in {"none", "new", "verified"}
    BY <1>1, <1>3, <2>1, Answered DEF SaveUser, Owned
  <2> QED
    BY <1>1, <2>1, <2>2 DEF BInv, Billed, Owned, Billing, Ledgers, Stock, SnapshotWasOffered
<1>4. CASE SaveVerified(r)
  <2>1. UNCHANGED <<Billing, spaces, parts, deleted, revived>> /\ UNCHANGED offered /\ user' = "verified"
    BY <1>4 DEF SaveVerified, Billing, Ledgers
  <2>2. req' = [req EXCEPT ![r] = [req[r] EXCEPT !.at = "free.find", !.slug = HomeSlug]]
    BY <1>1, <1>4 DEF SaveVerified, Asked
  <2>3. req[r].row # None => Offered(req[r].row)
    BY DEF BInv, Asked
  <2>4. Asked'
    BY <1>1, <2>1, <2>2, <2>3, NextFits, Put DEF ReqType
  <2> QED
    BY <1>1, <2>1, <2>4 DEF BInv, Billed, Owned, Billing, Ledgers, Stock, SnapshotWasOffered
<1>5. CASE FindFreePlan(r)
  <2> DEFINE row == NewSub(FreePlan, offer[FreePlan], None)
  <2>1. Draw(r, row) /\ UNCHANGED <<routes, Ledgers, Estate>>
    BY <1>5 DEF FindFreePlan
  <2>2. row \in SubRow /\ Offered(row)
    BY NewFits, SubscriptionConstants
  <2> HIDE DEF row
  <2>3. UNCHANGED offered
    BY <2>1 DEF Ledgers
  <2>4. Asked' /\ drawn' \in 0 .. MaxSubs
    BY <2>1, <2>2, <2>3, Drawn
  <2> QED
    BY <1>1, <2>1, <2>4, BillingOnly
<1>6. CASE InsertSpace(r)
  <2>1. PICK w \in Spaces :
            /\ spaces' = [spaces EXCEPT ![w] = req[r].slug]
            /\ req' = [req EXCEPT ![r].at = "space.role", ![r].space = w]
    BY <1>6 DEF InsertSpace
  <2>2. req[r].slug \in Slugs /\ req[r].at = "space.insert" /\ UNCHANGED <<Billing, Rest, parts>>
    BY <1>1, <1>6 DEF InsertSpace, Fit
  <2>3. spaces' \in [Spaces -> Slugs \cup {None}]
    BY <1>1, <2>1, <2>2 DEF Owned
  <2>4. req' = [req EXCEPT ![r] = [req[r] EXCEPT !.at = "space.role", !.space = w]]
    BY <1>1, <2>1 DEF Asked
  <2>5. (req[r].row # None => Offered(req[r].row)) /\ UNCHANGED offered
    BY <1>1, <2>2 DEF Asked, Billing, Ledgers
  <2>6. Asked'
    BY <1>1, <2>2, <2>4, <2>5, NextFits, Put DEF ReqType
  <2> QED
    BY <1>1, <2>2, <2>3, <2>6 DEF BInv, Billed, Owned, Billing, Ledgers, Stock, Rest, SnapshotWasOffered
<1>7. CASE CreateRole(r) \/ CreateOwner(r) \/ CreateCategories(r)
  BY <1>7, AddPartKeeps DEF CreateRole, CreateOwner, CreateCategories, Whole
<1>8. CASE InsertAgain(r)
  <2>1. UNCHANGED <<Billing, user, parts, deleted>> /\ UNCHANGED offered
    BY <1>8 DEF InsertAgain, Billing, Ledgers
  <2>2. req[r].slug \in Slugs /\ req[r].space \in Spaces
    BY <1>1, <1>8 DEF InsertAgain, Fit
  <2>3. spaces' \in [Spaces -> Slugs \cup {None}] /\ revived' \subseteq Spaces
    BY <1>1, <1>8, <2>2 DEF InsertAgain, Owned
  <2>4. Asked'
    BY <1>1, <1>8, <2>1, Answered DEF InsertAgain
  <2> QED
    BY <1>1, <2>1, <2>3, <2>4 DEF BInv, Billed, Owned, Billing, Ledgers, Stock, SnapshotWasOffered
<1>9. CASE DropSpace(r)
  <2>1. UNCHANGED <<Billing, user, revived>> /\ UNCHANGED offered
    BY <1>9 DEF DropSpace, Billing, Ledgers
  <2>2. req[r].space \in Spaces
    BY <1>1, <1>9 DEF DropSpace, Fit
  <2>3. /\ spaces' \in [Spaces -> Slugs \cup {None}] /\ parts' \in [Spaces -> SUBSET Whole]
        /\ deleted' \subseteq Spaces
    BY <1>1, <1>9, <2>2 DEF DropSpace, Owned
  <2>4. Asked'
    BY <1>1, <1>9, <2>1, Answered DEF DropSpace
  <2> QED
    BY <1>1, <2>1, <2>3, <2>4 DEF BInv, Billed, Owned, Billing, Ledgers, Stock, SnapshotWasOffered
<1> QED
  BY <1>2, <1>3, <1>4, <1>5, <1>6, <1>7, <1>8, <1>9 DEF GoOnSpace

LEMMA WorldKeeps == ASSUME BInv, World PROVE BInv'
<1>1. /\ Owned' /\ alone' \in BOOLEAN /\ failed' \in BOOLEAN
  BY DEF World, BInv, Owned, Estate
<1>2. ASSUME NEW f \in Features, Remove(f) \/ ComesUncounted(f) PROVE BInv'
  <2>1. things' \in [Features -> Nat]
    BY <1>2 DEF Remove, ComesUncounted, BInv, Billed
  <2>2. uncounted' \in [Features -> Nat]
    BY <1>2 DEF Remove, ComesUncounted, BInv, Billed
  <2> QED
    BY <1>1, <1>2, <2>1, <2>2 DEF Remove, ComesUncounted, BInv, Billed, Asked, SnapshotWasOffered, Offered
<1>3. CASE \E p \in Plans, limit \in Limits : Reprice(p, limit)
  <2>1. PICK p \in Plans, limit \in Limits : Reprice(p, limit)
    BY <1>3
  <2>2. Billed'
    BY <2>1 DEF Reprice, BInv, Billed, Stock, SnapshotWasOffered
  <2>3. Asked'
    BY <2>1 DEF Reprice, BInv, Asked, Offered
  <2> QED
    BY <1>1, <2>1, <2>2, <2>3 DEF Reprice, BInv
<1>4. CASE \E b \in Bills : Pay(b)
  <2>1. PICK b \in Bills : Pay(b)
    BY <1>4
  <2>2. billed' \in [Bills -> {"none", "active", "ending"}]
    BY <2>1 DEF Pay, BInv, Billed
  <2> QED
    BY <1>1, <2>1, <2>2 DEF Pay, BInv, Billed, Stock, Asked, SnapshotWasOffered, Offered
<1> QED
  BY <1>2, <1>3, <1>4 DEF World, AcceptInvitation, MoveTransaction, ComesUncounted

LEMMA FailKeeps == ASSUME BInv, NEW r \in Requests, Fail(r) PROVE BInv'
<1>1. /\ UNCHANGED <<Billing, Estate>> /\ UNCHANGED offered
      /\ Asked /\ alone' \in BOOLEAN /\ failed' \in BOOLEAN
  BY DEF Fail, BInv, Billing, Ledgers
<1>2. Asked'
  BY <1>1, Answered DEF Fail
<1> QED
  BY <1>1, <1>2, RequestsOnly

\* The inductive invariant of one user's subscription and workspaces.
THEOREM PlansInvariant == Spec => []BInv
<1>1. Init => BInv
  <2> SUFFICES ASSUME Init PROVE BInv
    OBVIOUS
  <2>1. Billed
    <3>1. \A f \in Features :
              AtFirst[f] \in Nat /\ (IF AtFirst[f] < Cap THEN 0 ELSE AtFirst[f] - Cap + 1) \in Nat
      BY SubscriptionConstants
    <3>2. things \in [Features -> Nat]
      BY <3>1, SubscriptionConstants DEF Init
    <3>3. uncounted \in [Features -> Nat] /\ invited \in BOOLEAN
      BY <3>1 DEF Init
    <3>4. /\ offer \in [Plans -> Limits] /\ offered \subseteq Plans \X Limits
          /\ \A p \in Plans : <<p, offer[p]>> \in offered
          /\ subs \in [SubIds -> SubRow \cup {None}] /\ drawn \in 0 .. MaxSubs
          /\ SnapshotWasOffered
          /\ billed \in [Bills -> {"none", "active", "ending"}] /\ ended \subseteq Bills
      BY SubscriptionConstants DEF Init, SnapshotWasOffered
    <3> QED
      BY <3>2, <3>3, <3>4 DEF Billed
  <2>2. Owned
    BY DEF Init, Owned
  <2>3. Asked
    BY BeginsFit, Typed DEF Init, Asked, Idle
  <2> QED
    BY <2>1, <2>2, <2>3 DEF Init, BInv
<1>2. BInv /\ [Next]_vars => BInv'
  <2> SUFFICES ASSUME BInv, [Next]_vars PROVE BInv'
    OBVIOUS
  <2>1. CASE UNCHANGED vars
    BY <2>1 DEF vars, BInv, Billed, Owned, Asked, SnapshotWasOffered, Offered
  <2>2. CASE Next
    <3>1. ASSUME NEW r \in Requests, GoOn(r) PROVE BInv'
      BY <3>1, BillingKeeps, SpaceKeeps DEF GoOn
    <3> QED
      BY <2>2, <3>1, WorldKeeps, BeginKeeps, FailKeeps DEF Next
  <2> QED
    BY <2>1, <2>2
<1> QED
  BY <1>1, <1>2, PTL DEF Spec

\* Every state of subscriptions, gateways, workspaces and requests is well typed, for any
\* number of requests, plans, bills, features and workspaces.
THEOREM PlansAreTyped == Spec => []TypeOK
<1>1. BInv => TypeOK
  BY DEF BInv, Billed, Owned, Asked, TypeOK
<1> QED
  BY <1>1, PlansInvariant, PTL

\* The limit in force was offered with the plan of the row, whatever requests write the
\* row back and however plans are repriced.
THEOREM SnapshotsWereOffered == Spec => []SnapshotWasOffered
<1>1. BInv => SnapshotWasOffered
  BY DEF BInv, Billed
<1> QED
  BY <1>1, PlansInvariant, PTL

-----------------------------------------------------------------------------
(* Cancellations.                                                          *)

\* A step of one request leaves the records of the others alone.
LEMMA OthersStay ==
    ASSUME BInv, NEW r \in Requests, Begin(r) \/ GoOn(r) \/ Fail(r)
    PROVE  \A q \in Requests \ {r} : req'[q] = req[q]
<1>1. req \in [Requests -> ReqType]
  BY DEF BInv, Asked
<1>2. ASSUME BeginBilling(r) PROVE \A q \in Requests \ {r} : req'[q] = req[q]
  BY <1>1, <1>2
     DEF BeginBilling, Subscribe, Upgrade, Confirm, Cancel, Count, CountAccounts, CountMembers,
         CountRoles, CountCategories, CountTransactions, Hold
<1>3. ASSUME BeginSpace(r) PROVE \A q \in Requests \ {r} : req'[q] = req[q]
  BY <1>1, <1>3 DEF BeginSpace, Register, VerifyEmail, CountSpaces, UpdateSpace, UploadLogo, DeleteSpace, Go
<1>4. ASSUME GoOnBilling(r) PROVE \A q \in Requests \ {r} : req'[q] = req[q]
  BY <1>1, <1>4
     DEF GoOnBilling, FindActive, InsertSub, FindPlan, SaveSub, FindToConfirm, SaveCancelled,
         CancelAtGateway, CheckFeatureLimit, Make, Draw, Hold, Go, Answer
<1>5. ASSUME GoOnSpace(r) PROVE \A q \in Requests \ {r} : req'[q] = req[q]
  BY <1>1, <1>5
     DEF GoOnSpace, SaveUser, SaveVerified, FindFree, FindFreePlan, FindSlug, InsertSpace, SlugTaken,
         CreateRole, CreateOwner, CreateCategories, AddPart, StoreLogo, FindToSave, SaveSpace,
         InsertAgain, DropSpace, Draw, Hold, Go, Answer
<1>6. ASSUME Fail(r) PROVE \A q \in Requests \ {r} : req'[q] = req[q]
  BY <1>1, <1>6 DEF Fail, Answer
<1> QED
  BY <1>2, <1>3, <1>4, <1>5, <1>6 DEF Begin, GoOn

\* Where the record of a request says it is, after each way of writing it.
LEMMA Placed ==
    ASSUME BInv, NEW r \in Requests
    PROVE  /\ Answer(r) => req'[r].at = "idle"
           /\ \A p \in Places : Go(r, p) => req'[r].at = p
           /\ \A p \in Places, i \in Int : \A row : Hold(r, p, i, row) => req'[r].at = p
           /\ \A row : Draw(r, row) => req'[r].at = "sub.insert"
<1>1. req \in [Requests -> ReqType] /\ drawn \in Nat
  BY Constants DEF BInv, Billed, Asked
<1>2. ASSUME NEW p \in Places, NEW i, NEW row, Hold(r, p, i, row) PROVE req'[r].at = p
  <2>1. req' = [req EXCEPT ![r] = [req[r] EXCEPT !.at = p, !.id = i, !.row = row]]
    BY <1>1, <1>2 DEF Hold
  <2> QED
    BY <1>1, <2>1 DEF ReqType
<1>3. ASSUME NEW p \in Places, Go(r, p) PROVE req'[r].at = p
  BY <1>1, <1>3 DEF Go, ReqType
<1>4. ASSUME NEW row, Draw(r, row) PROVE req'[r].at = "sub.insert"
  BY <1>2, <1>4 DEF Draw, Places
<1>5. ASSUME Answer(r) PROVE req'[r].at = "idle"
  BY <1>1, <1>5 DEF Answer, Idle
<1> QED
  BY <1>2, <1>3, <1>4, <1>5

\* A request begins only when it has nothing under way.
LEMMA BeginsIdle == ASSUME NEW r \in Requests, Begin(r) PROVE req[r] = Idle
BY DEF Begin, BeginBilling, Subscribe, Upgrade, Confirm, Cancel, Count, CountAccounts, CountMembers,
       CountRoles, CountCategories, CountTransactions, BeginSpace, Register, VerifyEmail, CountSpaces,
       UpdateSpace, UploadLogo, DeleteSpace, Start

\* A request is on its way to the gateway to end b.
Bound(b)  == \E r \in Requests : req[r].at = "gateway" /\ Reaches(req[r].row) /\ req[r].row.bill = b
EndsInv   == ~failed => \A b \in ended : billed[b] = "ending" \/ Bound(b)

LEMMA EndsStay ==
    ASSUME BInv, EndsInv, ~failed, NEW r \in Requests, req[r].at # "gateway",
           \A q \in Requests \ {r} : req'[q] = req[q], UNCHANGED <<billed, ended>>
    PROVE  EndsInv'
BY DEF EndsInv, Bound, Reaches

LEMMA EndsKeep == BInv /\ EndsInv /\ [Next]_vars => EndsInv'
<1> SUFFICES ASSUME BInv, EndsInv, [Next]_vars, ~failed' PROVE EndsInv'
  BY DEF EndsInv
<1>1. /\ ended \subseteq Bills /\ billed \in [Bills -> {"none", "active", "ending"}]
      /\ req \in [Requests -> ReqType]
  BY DEF BInv, Billed, Asked
<1>2. CASE UNCHANGED vars
  BY <1>2 DEF vars, EndsInv, Bound, Reaches
<1>3. CASE World
  <2>1. UNCHANGED <<req, failed, ended>>
    BY <1>3 DEF World, Remove, AcceptInvitation, MoveTransaction, ComesUncounted, Reprice, Pay
  <2>2. \A b \in ended : billed[b] = "ending" => billed'[b] = "ending"
    BY <1>1, <1>3 DEF World, Remove, AcceptInvitation, MoveTransaction, ComesUncounted, Reprice, Pay
  <2> QED
    BY <2>1, <2>2 DEF EndsInv, Bound, Reaches
<1>4. ASSUME NEW r \in Requests, Begin(r) \/ GoOn(r) PROVE EndsInv'
  <2>1. (\A q \in Requests \ {r} : req'[q] = req[q]) /\ ~failed
    BY <1>4, OthersStay DEF Begin, GoOn
  <2>2. CASE Begin(r)
    <3>1. req[r].at # "gateway"
      BY <2>2, BeginsIdle DEF Idle
    <3>2. UNCHANGED <<billed, ended>>
      BY <2>2 DEF Begin, BeginBilling, Subscribe, Upgrade, Confirm, Cancel, Count, CountAccounts,
                  CountMembers, CountRoles, CountCategories, CountTransactions, BeginSpace, Register,
                  VerifyEmail, CountSpaces, UpdateSpace, UploadLogo, DeleteSpace, Billing, Ledgers
    <3> QED
      BY <2>1, <3>1, <3>2, EndsStay
  <2>3. CASE GoOnSpace(r)
    <3>1. req[r].at # "gateway" /\ UNCHANGED <<billed, ended>>
      BY <2>3 DEF GoOnSpace, SaveUser, SaveVerified, FindFree, FindFreePlan, FindSlug, InsertSpace,
                  SlugTaken, CreateRole, CreateOwner, CreateCategories, AddPart, StoreLogo, FindToSave,
                  SaveSpace, InsertAgain, DropSpace, Billing, Ledgers
    <3> QED
      BY <2>1, <3>1, EndsStay
  <2>4. CASE FindActive(r) \/ InsertSub(r) \/ FindPlan(r) \/ SaveSub(r) \/ FindToConfirm(r)
             \/ CheckFeatureLimit(r) \/ Make(r)
    <3>1. req[r].at # "gateway" /\ UNCHANGED <<billed, ended>>
      BY <2>4 DEF FindActive, InsertSub, FindPlan, SaveSub, FindToConfirm, CheckFeatureLimit, Make,
                  Billing, Ledgers
    <3> QED
      BY <2>1, <3>1, EndsStay
  <2>5. CASE SaveCancelled(r)
    <3>1. req[r].at # "gateway" /\ UNCHANGED billed
      BY <2>5 DEF SaveCancelled
    <3>3. ASSUME NEW b, Reaches(req[r].row), b = req[r].row.bill PROVE Bound(b)'
      <4>1. req[r].row.bill # None
        BY <3>3, SubscriptionConstants DEF Reaches
      <4>2. req' = [req EXCEPT ![r] = [req[r] EXCEPT !.at = "gateway"]]
        BY <1>1, <2>5, <4>1 DEF SaveCancelled, Go
      <4>3. req'[r].at = "gateway" /\ req'[r].row = req[r].row
        BY <1>1, <4>2 DEF ReqType
      <4> QED
        BY <3>3, <4>3 DEF Bound, Reaches
    <3>4. ended' = IF Reaches(req[r].row) THEN ended \cup {req[r].row.bill} ELSE ended
      BY <2>5 DEF SaveCancelled
    <3>5. ASSUME NEW b \in ended' PROVE billed'[b] = "ending" \/ Bound(b)'
      <4>1. CASE b \in ended
        <5>1. billed[b] = "ending" \/ Bound(b)
          BY <2>1, <4>1 DEF EndsInv
        <5>2. Bound(b) => Bound(b)'
          BY <2>1, <3>1 DEF Bound, Reaches
        <5> QED
          BY <3>1, <5>1, <5>2
      <4>2. CASE Reaches(req[r].row) /\ b = req[r].row.bill
        BY <3>3, <4>2
      <4> QED
        BY <3>4, <3>5, <4>1, <4>2
    <3> QED
      BY <3>5 DEF EndsInv
  <2>6. CASE CancelAtGateway(r)
    <3> DEFINE row == req[r].row
    <3>1. /\ req[r].at = "gateway" /\ UNCHANGED ended
          /\ billed' = IF Reaches(row) THEN [billed EXCEPT ![row.bill] = "ending"] ELSE billed
      BY <2>6 DEF CancelAtGateway
    <3>2. ASSUME NEW b \in ended PROVE billed'[b] = "ending" \/ Bound(b)'
      <4>1. CASE billed[b] = "ending"
        BY <1>1, <3>1, <4>1
      <4>2. CASE Reaches(row) /\ row.bill = b
        BY <1>1, <3>1, <4>2
      <4>3. CASE \E q \in Requests \ {r} : req[q].at = "gateway" /\ Reaches(req[q].row) /\ req[q].row.bill = b
        BY <2>1, <4>3 DEF Bound, Reaches
      <4> QED
        BY <2>1, <4>1, <4>2, <4>3 DEF EndsInv, Bound
    <3> QED
      BY <3>1, <3>2 DEF EndsInv
  <2> QED
    BY <1>4, <2>2, <2>3, <2>4, <2>5, <2>6 DEF GoOn, GoOnBilling
<1>5. ASSUME NEW r \in Requests, Fail(r) PROVE EndsInv'
  BY <1>5 DEF Fail
<1> QED
  BY <1>2, <1>3, <1>4, <1>5 DEF Next

\* For any requests that race on the row, the bill that a cancellation was saved with is
\* ended at its gateway once nothing is in flight, unless a statement failed.
THEOREM CancelsReachTheirGateway == Spec => []CancelReachesGateway
<1>1. Init => EndsInv
  BY DEF Init, EndsInv
<1>2. EndsInv => CancelReachesGateway
  BY DEF EndsInv, CancelReachesGateway, Quiet, Bound, Idle
<1> QED
  BY <1>1, <1>2, EndsKeep, PlansInvariant, PTL DEF Spec

-----------------------------------------------------------------------------
(* Workspaces.                                                             *)

\* A creation is about to add to the workspace what it has not got.
Adds(x, w) ==
    /\ x.space = w
    /\ \/ x.at = "space.role"
       \/ x.at = "space.member" /\ "role" \in parts[w]
       \/ x.at = "space.categories" /\ {"role", "member"} \subseteq parts[w]
WholeInv ==
    ~failed => \A w \in Existing \ revived :
                  Whole \subseteq parts[w] \/ \E r \in Requests : Adds(req[r], w)

\* A step of a request that adds nothing, and takes nothing from what stays.
LEMMA WholeStays ==
    ASSUME BInv, WholeInv, ~failed, NEW r \in Requests,
           req[r].at \notin {"space.role", "space.member", "space.categories"},
           \A q \in Requests \ {r} : req'[q] = req[q],
           (Existing \ revived)' \subseteq Existing \ revived,
           \A w \in (Existing \ revived)' : parts'[w] = parts[w]
    PROVE  WholeInv'
BY DEF WholeInv, Adds

\* A step of a request that adds a part to its workspace.
LEMMA WholeGrows ==
    ASSUME BInv, WholeInv, ~failed, NEW r \in Requests, NEW part \in Whole,
           NEW place \in {"space.role", "space.member", "space.categories"}, NEW next \in Places \cup {"idle"},
           <<place, part, next>> \in {<<"space.role", "role", "space.member">>,
                                     <<"space.member", "member", "space.categories">>,
                                     <<"space.categories", "categories", "idle">>},
           AddPart(r, place, part, next),
           \A q \in Requests \ {r} : req'[q] = req[q]
    PROVE  WholeInv'
<1>1. UNCHANGED <<spaces, deleted, revived>> /\ Existing' = Existing
  BY DEF AddPart, Rest, Existing
<1>2. /\ req[r].at = place /\ req[r].space \in Spaces
      /\ req \in [Requests -> ReqType] /\ parts \in [Spaces -> SUBSET Whole]
  BY DEF AddPart, BInv, Asked, Owned, Fit
<1> SUFFICES ASSUME NEW w \in Existing \ revived
    PROVE Whole \subseteq parts'[w] \/ \E q \in Requests : Adds(req[q], w)'
  BY <1>1 DEF WholeInv
<1>3. w \in Spaces /\ parts[w] \subseteq parts'[w]
  BY <1>2 DEF AddPart, Existing
<1>4. CASE Whole \subseteq parts[w]
  BY <1>3, <1>4
<1>5. CASE \E q \in Requests \ {r} : Adds(req[q], w)
  <2>1. PICK q \in Requests \ {r} : Adds(req[q], w)
    BY <1>5
  <2>2. req'[q] = req[q]
    BY <2>1
  <2>3. Adds(req[q], w)'
    BY <1>3, <2>1, <2>2 DEF Adds
  <2> QED
    BY <2>3
<1>6. CASE Adds(req[r], w)
  <2>1. req[r].space = w /\ req[r].space \in Existing
    BY <1>6 DEF Adds
  <2>2. parts'[w] = parts[w] \cup {part}
    BY <1>2, <2>1 DEF AddPart
  <2>3. CASE next = "idle"
    <3>1. {"role", "member"} \subseteq parts[w] /\ part = "categories"
      BY <1>2, <1>6, <2>3 DEF Adds
    <3> QED
      BY <2>2, <3>1 DEF Whole
  <2>4. CASE next # "idle"
    <3>1. req' = [req EXCEPT ![r] = [req[r] EXCEPT !.at = next]]
      BY <1>2, <2>1, <2>4 DEF AddPart, Go
    <3>2. req'[r].at = next /\ req'[r].space = w
      BY <1>2, <2>1, <3>1 DEF ReqType
    <3>3. place = "space.member" => "role" \in parts[w]
      BY <1>2, <1>6 DEF Adds
    <3>4. Adds(req[r], w)'
      BY <2>2, <2>4, <3>2, <3>3 DEF Adds
    <3> QED
      BY <3>4
  <2> QED
    BY <2>3, <2>4
<1> QED
  BY <1>4, <1>5, <1>6 DEF WholeInv

LEMMA WholeKeeps == BInv /\ WholeInv /\ [Next]_vars => WholeInv'
<1> SUFFICES ASSUME BInv, WholeInv, [Next]_vars, ~failed' PROVE WholeInv'
  BY DEF WholeInv
<1>1. /\ spaces \in [Spaces -> Slugs \cup {None}] /\ parts \in [Spaces -> SUBSET Whole]
      /\ req \in [Requests -> ReqType] /\ revived \subseteq Spaces
  BY DEF BInv, Owned, Asked
<1>2. CASE UNCHANGED vars
  BY <1>2 DEF vars, WholeInv, Adds, Existing
<1>3. CASE World
  <2>1. UNCHANGED <<req, spaces, parts, revived, failed>>
    BY <1>3 DEF World, Remove, AcceptInvitation, MoveTransaction, ComesUncounted, Reprice, Pay, Estate
  <2> QED
    BY <2>1 DEF WholeInv, Adds, Existing
<1>4. ASSUME NEW r \in Requests, Begin(r) \/ GoOn(r) PROVE WholeInv'
  <2>1. (\A q \in Requests \ {r} : req'[q] = req[q]) /\ ~failed
    BY <1>4, OthersStay DEF Begin, GoOn
  <2>2. CASE Begin(r)
    <3>1. req[r].at = "idle"
      BY <2>2, BeginsIdle DEF Idle
    <3>2. UNCHANGED <<spaces, parts, revived>>
      BY <2>2, SpaceBegins DEF Begin, Estate
    <3> QED
      BY <2>1, <3>1, <3>2, WholeStays DEF Existing
  <2>3. CASE GoOnBilling(r) /\ UNCHANGED Estate
    <3>1. req[r].at \notin {"space.role", "space.member", "space.categories"}
      BY <2>3 DEF GoOnBilling, FindActive, InsertSub, FindPlan, SaveSub, FindToConfirm, SaveCancelled,
                  CancelAtGateway, CheckFeatureLimit, Make
    <3> QED
      BY <2>1, <2>3, <3>1, WholeStays DEF Estate, Existing
  <2>4. CASE SaveUser(r) \/ SaveVerified(r) \/ FindFree(r) \/ FindFreePlan(r) \/ FindSlug(r)
             \/ SlugTaken(r) \/ StoreLogo(r) \/ FindToSave(r) \/ SaveSpace(r)
    <3>1. /\ req[r].at \notin {"space.role", "space.member", "space.categories"}
          /\ UNCHANGED <<spaces, parts, revived>>
      BY <2>4 DEF SaveUser, SaveVerified, FindFree, FindFreePlan, FindSlug, SlugTaken, StoreLogo,
                  FindToSave, SaveSpace, Estate
    <3> QED
      BY <2>1, <3>1, WholeStays DEF Existing
  <2>5. CASE InsertAgain(r)
    <3>1. req[r].at = "space.revive" /\ req[r].space \in Spaces /\ UNCHANGED parts
      BY <2>5 DEF InsertAgain, BInv, Asked, Fit
    <3>2. (Existing \ revived)' \subseteq Existing \ revived
      BY <1>1, <2>5, <3>1 DEF InsertAgain, Existing
    <3> QED
      BY <2>1, <3>1, <3>2, WholeStays
  <2>6. CASE DropSpace(r)
    <3>1. req[r].at = "space.delete" /\ req[r].space \in Spaces /\ UNCHANGED revived
      BY <2>6 DEF DropSpace, BInv, Asked, Fit
    <3>2. /\ (Existing \ revived)' \subseteq Existing \ revived
          /\ \A w \in (Existing \ revived)' : parts'[w] = parts[w]
      BY <1>1, <2>6, <3>1 DEF DropSpace, Existing
    <3> QED
      BY <2>1, <3>1, <3>2, WholeStays
  <2>7. CASE InsertSpace(r)
    <3>1. PICK n \in Spaces :
              /\ spaces' = [spaces EXCEPT ![n] = req[r].slug]
              /\ req' = [req EXCEPT ![r].at = "space.role", ![r].space = n]
      BY <2>7 DEF InsertSpace
    <3>2. req[r].at = "space.insert" /\ UNCHANGED <<parts, revived>>
      BY <2>7 DEF InsertSpace, Rest
    <3>3. Adds(req[r], n)'
      <4>1. req'[r].at = "space.role" /\ req'[r].space = n
        BY <1>1, <3>1 DEF ReqType
      <4> QED
        BY <4>1 DEF Adds
    <3>4. ASSUME NEW w \in (Existing \ revived)', w # n
          PROVE  Whole \subseteq parts'[w] \/ \E q \in Requests : Adds(req[q], w)'
      <4>1. w \in Existing \ revived
        BY <1>1, <3>1, <3>2, <3>4 DEF Existing
      <4>2. CASE Whole \subseteq parts[w]
        BY <3>2, <4>2
      <4>3. CASE \E q \in Requests : Adds(req[q], w)
        <5>1. PICK q \in Requests : Adds(req[q], w)
          BY <4>3
        <5>2. req'[q] = req[q]
          BY <2>1, <3>2, <5>1 DEF Adds
        <5>3. Adds(req[q], w)'
          BY <3>2, <5>1, <5>2 DEF Adds
        <5> QED
          BY <5>3
      <4> QED
        BY <2>1, <4>1, <4>2, <4>3 DEF WholeInv
    <3>5. ASSUME NEW w \in (Existing \ revived)'
          PROVE  Whole \subseteq parts'[w] \/ \E q \in Requests : Adds(req[q], w)'
      BY <3>3, <3>4
    <3> QED
      BY <3>5 DEF WholeInv
  <2>8. CASE CreateRole(r) \/ CreateOwner(r) \/ CreateCategories(r)
    BY <2>1, <2>8, WholeGrows DEF CreateRole, CreateOwner, CreateCategories, Whole, Places
  <2> QED
    BY <1>4, <2>2, <2>3, <2>4, <2>5, <2>6, <2>7, <2>8 DEF GoOn, GoOnSpace
<1>5. ASSUME NEW r \in Requests, Fail(r) PROVE WholeInv'
  BY <1>5 DEF Fail
<1> QED
  BY <1>2, <1>3, <1>4, <1>5 DEF Next

\* For any creations, deletions and updates that race, a workspace has its role, member
\* and categories once nothing is in flight, unless a statement failed or an update has
\* inserted it again.
THEOREM WorkspacesAreWhole == Spec => []WorkspaceWhole
<1>1. Init => WholeInv
  BY DEF Init, WholeInv, Existing
<1>2. BInv /\ WholeInv => WorkspaceWhole
  <2> SUFFICES ASSUME BInv, WholeInv, Quiet, ~failed, NEW w \in Existing \ revived
        PROVE  parts[w] = Whole
    BY DEF WorkspaceWhole
  <2>1. \A r \in Requests : ~Adds(req[r], w)
    BY DEF Quiet, Idle, Adds
  <2>2. parts[w] \subseteq Whole
    BY DEF BInv, Owned, Existing
  <2> QED
    BY <2>1, <2>2 DEF WholeInv
<1> QED
  BY <1>1, <1>2, WholeKeeps, PlansInvariant, PTL DEF Spec

-----------------------------------------------------------------------------
(* Limits.                                                                 *)

\* The requests that may still make one more thing.
Near(f)  == {r \in Requests : req[r].at \in {"limit", "make"} /\ req[r].feature = f /\ req[r].count < Cap}
Makers   == \A r \in Requests : req[r].at = "make" => req[r].count < Cap
LimitInv ==
    NeverUnlimited =>
        /\ Makers
        /\ \A f \in Features : things[f] + Cardinality(Near(f)) < Cap + Cardinality(Requests) + uncounted[f]

LEMMA NearCounted ==
    /\ Cardinality(Requests) \in Nat /\ Cardinality(Requests) > 0
    /\ \A S \in SUBSET Requests :
          IsFiniteSet(S) /\ Cardinality(S) \in Nat /\ Cardinality(S) <= Cardinality(Requests)
<1>1. IsFiniteSet(Requests) /\ Requests # {}
  BY SubscriptionConstants
<1>2. Cardinality(Requests) \in Nat /\ Cardinality(Requests) # 0
  BY <1>1, FS_CardinalityType, FS_EmptySet
<1>3. ASSUME NEW S \in SUBSET Requests
      PROVE  IsFiniteSet(S) /\ Cardinality(S) \in Nat /\ Cardinality(S) <= Cardinality(Requests)
  BY <1>1, <1>3, FS_Subset, FS_CardinalityType
<1> QED
  BY <1>2, <1>3

\* As many things of a kind, and no more requests near to it.
LEMMA FewerStay ==
    ASSUME NEW f \in Features, NEW n \in Nat, NEW u \in Nat, NEW S \in SUBSET Requests, NEW T \in SUBSET S,
           n + Cardinality(S) < Cap + Cardinality(Requests) + u
    PROVE  n + Cardinality(T) < Cap + Cardinality(Requests) + u
<1>1. Cardinality(T) <= Cardinality(S)
  BY NearCounted, FS_Subset
<1>2. Cardinality(T) \in Nat /\ Cardinality(S) \in Nat /\ Cardinality(Requests) \in Nat /\ Cap \in Nat
  BY NearCounted, SubscriptionConstants
<1> QED
  BY <1>1, <1>2

\* A step of a request that neither counts nor makes anything.
LEMMA LimitStays ==
    ASSUME BInv, LimitInv, offered \subseteq offered', NEW r \in Requests,
           \A q \in Requests \ {r} : req'[q] = req[q], UNCHANGED <<things, uncounted>>,
           \/ req'[r].at \notin {"limit", "make"}
           \/ /\ req[r].at \in {"limit", "make"} /\ req'[r].feature = req[r].feature
              /\ req'[r].count = req[r].count
              /\ NeverUnlimited /\ req'[r].at = "make" => req[r].count < Cap
    PROVE  LimitInv'
<1> SUFFICES ASSUME NeverUnlimited' PROVE LimitInv'
  BY DEF LimitInv
<1>1. NeverUnlimited /\ things \in [Features -> Nat] /\ uncounted \in [Features -> Nat]
  BY DEF NeverUnlimited, BInv, Billed
<1>2. Makers'
  BY <1>1 DEF LimitInv, Makers
<1>3. ASSUME NEW f \in Features
      PROVE  things'[f] + Cardinality(Near(f)') < Cap + Cardinality(Requests) + uncounted'[f]
  <2>1. Near(f)' \subseteq Near(f)
    BY DEF Near
  <2>2. things[f] + Cardinality(Near(f)) < Cap + Cardinality(Requests) + uncounted[f]
    BY <1>1 DEF LimitInv
  <2>3. /\ Near(f) \in SUBSET Requests /\ things[f] \in Nat /\ things'[f] = things[f]
        /\ uncounted[f] \in Nat /\ uncounted'[f] = uncounted[f]
    BY <1>1 DEF Near
  <2> QED
    BY <2>1, <2>2, <2>3, FewerStay
<1> QED
  BY <1>2, <1>3 DEF LimitInv

LEMMA CountKeeps ==
    ASSUME BInv, LimitInv, NEW r \in Requests, NEW f \in Features, Count(r, f),
           \A q \in Requests \ {r} : req'[q] = req[q]
    PROVE  LimitInv'
<1>1. /\ UNCHANGED <<things, uncounted, offered>> /\ things \in [Features -> Nat] /\ req[r] = Idle
      /\ Cap \in Nat /\ uncounted \in [Features -> Nat]
  BY SubscriptionConstants DEF Count, Start, Billing, Ledgers, Stock, BInv, Billed
<1>2. req'[r].at = "limit" /\ req'[r].feature = f /\ req'[r].count = things[f]
  <2>1. req' = [req EXCEPT ![r] = [Idle EXCEPT !.at = "limit", !.feature = f, !.count = things[f]]]
    BY <1>1 DEF Count, BInv, Asked
  <2> QED
    BY <2>1 DEF Idle, BInv, Asked
<1> SUFFICES ASSUME NeverUnlimited' PROVE LimitInv'
  BY DEF LimitInv
<1>3. Makers' /\ \A g \in Features : things[g] + Cardinality(Near(g)) < Cap + Cardinality(Requests) + uncounted[g]
  BY <1>1, <1>2 DEF LimitInv, Makers, NeverUnlimited
<1>4. ASSUME NEW g \in Features
      PROVE  things'[g] + Cardinality(Near(g)') < Cap + Cardinality(Requests) + uncounted'[g]
  <2>1. /\ things'[g] = things[g] /\ things[g] \in Nat /\ Near(g)' \subseteq Requests
        /\ uncounted'[g] = uncounted[g] /\ uncounted[g] \in Nat
    BY <1>1 DEF Near
  <2>2. CASE g = f /\ things[f] < Cap
    <3>1. Cardinality(Near(g)') \in Nat /\ Cardinality(Near(g)') <= Cardinality(Requests)
      BY <2>1, NearCounted
    <3> QED
      BY <1>1, <2>1, <2>2, <3>1, NearCounted
  <2>3. CASE ~(g = f /\ things[f] < Cap)
    <3>1. Near(g)' \subseteq Near(g)
      BY <1>2, <2>3 DEF Near
    <3>2. Near(g) \in SUBSET Requests
      BY DEF Near
    <3> QED
      BY <1>3, <2>1, <3>1, <3>2, FewerStay
  <2> QED
    BY <2>2, <2>3
<1> QED
  BY <1>3, <1>4 DEF LimitInv

LEMMA MakeKeeps ==
    ASSUME BInv, LimitInv, NEW r \in Requests, Make(r), \A q \in Requests \ {r} : req'[q] = req[q]
    PROVE  LimitInv'
<1> DEFINE f == req[r].feature
<1>1. /\ UNCHANGED <<offered, uncounted>> /\ uncounted \in [Features -> Nat] /\ things \in [Features -> Nat]
      /\ f \in Features /\ Cap \in Nat
      /\ things' = [things EXCEPT ![f] = @ + 1] /\ req'[r].at = "idle" /\ req[r].at = "make"
  BY SubscriptionConstants DEF Make, Answer, Idle, BInv, Billed, Asked, Fit
<1> SUFFICES ASSUME NeverUnlimited' PROVE LimitInv'
  BY DEF LimitInv
<1>2. /\ Makers /\ \A g \in Features : things[g] + Cardinality(Near(g)) < Cap + Cardinality(Requests) + uncounted[g]
  BY <1>1 DEF LimitInv, NeverUnlimited
<1>3. Makers'
  BY <1>1, <1>2 DEF Makers
<1>4. ASSUME NEW g \in Features
      PROVE  things'[g] + Cardinality(Near(g)') < Cap + Cardinality(Requests) + uncounted'[g]
  <2>1. /\ things[g] \in Nat /\ Near(g) \in SUBSET Requests /\ Near(g)' \subseteq Near(g) \ {r}
        /\ uncounted'[g] = uncounted[g] /\ uncounted[g] \in Nat
    BY <1>1 DEF Near
  <2>2. CASE g # f
    BY <1>1, <1>2, <2>1, <2>2, FewerStay
  <2>3. CASE g = f
    <3>1. r \in Near(g)
      BY <1>1, <1>2, <2>3 DEF Near, Makers
    <3>2. Cardinality(Near(g) \ {r}) = Cardinality(Near(g)) - 1
      BY <2>1, <3>1, NearCounted, FS_RemoveElement
    <3>3. Cardinality(Near(g)') <= Cardinality(Near(g) \ {r})
      BY <2>1, NearCounted, FS_Subset
    <3>4. Cardinality(Near(g)') \in Nat /\ Cardinality(Near(g)) \in Nat
      BY <2>1, NearCounted
    <3>5. things'[g] = things[g] + 1
      BY <1>1, <2>3
    <3> QED
      BY <1>1, <1>2, <2>1, <3>2, <3>3, <3>4, <3>5, NearCounted
  <2> QED
    BY <2>2, <2>3
<1> QED
  BY <1>3, <1>4 DEF LimitInv

\* A limit that is not Unlimited is passed by no count at Cap or above.
LEMMA RoomBelowCap ==
    ASSUME BInv, NEW f \in Features, NEW n \in Nat, Room(f, n), NeverUnlimited
    PROVE  n < Cap
<1>1. Cap \in Nat /\ Default(f) \in 0 .. Cap
  BY SubscriptionConstants
<1>2. ASSUME NEW i \in SubIds, subs[i] # None, subs[i].limit = Unlimited \/ n < subs[i].limit
      PROVE  n < Cap
  <2>1. <<subs[i].plan, subs[i].limit>> \in offered /\ offered \subseteq Plans \X Limits
    BY <1>2 DEF BInv, Billed, SnapshotWasOffered
  <2>2. subs[i].limit # Unlimited /\ subs[i].limit \in Limits
    BY <2>1 DEF NeverUnlimited
  <2>3. subs[i].limit \in 0 .. Cap
    BY <2>2, SubscriptionConstants
  <2> QED
    BY <1>1, <1>2, <2>2, <2>3
<1> QED
  BY <1>1, <1>2 DEF Room, Current

LEMMA LimitKeeps == BInv /\ LimitInv /\ [Next]_vars => LimitInv'
<1> SUFFICES ASSUME BInv, LimitInv, [Next]_vars PROVE LimitInv'
  OBVIOUS
<1>1. req \in [Requests -> ReqType] /\ things \in [Features -> Nat] /\ uncounted \in [Features -> Nat]
  BY DEF BInv, Billed, Asked
<1>2. CASE UNCHANGED vars
  <2>1. UNCHANGED <<req, things, uncounted, offered>>
    BY <1>2 DEF vars
  <2> QED
    BY <2>1 DEF LimitInv, NeverUnlimited, Makers, Near
<1>3. CASE World
  <2>1. UNCHANGED req /\ offered \subseteq offered'
    BY <1>3 DEF World, Remove, AcceptInvitation, MoveTransaction, ComesUncounted, Reprice, Pay
  <2>2. \A f \in Features : /\ things[f] \in Nat /\ uncounted[f] \in Nat
                             /\ \/ things'[f] = things[f] /\ uncounted'[f] = uncounted[f]
                                \/ things'[f] = things[f] + 1 /\ uncounted'[f] = uncounted[f] + 1
                                \/ /\ things[f] > 0 /\ things'[f] = things[f] - 1
                                   /\ uncounted'[f] = IF things[f] <= Cap \/ uncounted[f] = 0 THEN 0
                                                      ELSE uncounted[f] - 1
    <3>1. ASSUME NEW g \in Features, Remove(g) \/ ComesUncounted(g) PROVE <2>2!:
      BY <1>1, <3>1 DEF Remove, ComesUncounted
    <3>2. ASSUME UNCHANGED Stock PROVE <2>2!:
      BY <1>1, <3>2 DEF Stock
    <3> QED
      BY <1>3, <3>1, <3>2 DEF World, AcceptInvitation, MoveTransaction, ComesUncounted, Reprice, Pay
  <2> SUFFICES ASSUME NeverUnlimited' PROVE LimitInv'
    BY DEF LimitInv
  <2>3. Makers' /\ \A f \in Features : things[f] + Cardinality(Near(f)) < Cap + Cardinality(Requests) + uncounted[f]
    BY <2>1 DEF LimitInv, Makers, NeverUnlimited
  <2>4. ASSUME NEW f \in Features
        PROVE  things'[f] + Cardinality(Near(f)') < Cap + Cardinality(Requests) + uncounted'[f]
    <3>1. Near(f)' = Near(f) /\ Near(f) \in SUBSET Requests
      BY <2>1 DEF Near
    <3>2. /\ Cardinality(Near(f)) \in Nat /\ Cardinality(Near(f)) <= Cardinality(Requests)
          /\ Cardinality(Requests) \in Nat /\ Cap \in Nat
      BY <3>1, NearCounted, SubscriptionConstants
    <3> DEFINE c == Cardinality(Near(f))
               n == Cardinality(Requests)
    <3>3. c \in Nat /\ n \in Nat /\ c <= n /\ things[f] + c < Cap + n + uncounted[f]
      BY <2>3, <3>2
    <3>4. things'[f] + c < Cap + n + uncounted'[f]
      <4> HIDE DEF c, n
      <4> QED
        BY <2>2, <3>2, <3>3
    <3> QED
      BY <3>1, <3>4
  <2> QED
    BY <2>3, <2>4 DEF LimitInv
<1>4. ASSUME NEW r \in Requests, Begin(r) \/ GoOn(r) \/ Fail(r) PROVE LimitInv'
  <2>1. \A q \in Requests \ {r} : req'[q] = req[q]
    BY <1>4, OthersStay
  <2>2. CASE Begin(r)
    <3>1. req[r] = Idle
      BY <2>2, BeginsIdle
    <3>2. CASE \E f \in Features : Count(r, f)
      BY <2>1, <3>2, CountKeeps
    <3>3. CASE \/ Subscribe(r) \/ Upgrade(r) \/ Confirm(r) \/ Cancel(r)
               \/ Register(r) \/ VerifyEmail(r) \/ UpdateSpace(r) \/ UploadLogo(r) \/ DeleteSpace(r)
      <4>1. UNCHANGED Billing
        BY <3>3 DEF Subscribe, Upgrade, Confirm, Cancel, Register, VerifyEmail, UpdateSpace, UploadLogo,
                    DeleteSpace
      <4>2. req'[r].at \notin {"limit", "make"}
        <5>1. CASE Subscribe(r) \/ Upgrade(r) \/ Confirm(r) \/ Cancel(r)
          <6>1. \E p \in {"subscribe.find", "upgrade.plan", "confirm.find", "sub.cancel"}, i \in Int : \E row :
                    Hold(r, p, i, row)
            BY <5>1 DEF Subscribe, Upgrade, Confirm, Cancel, SubIds
          <6>2. req'[r].at \in {"subscribe.find", "upgrade.plan", "confirm.find", "sub.cancel"}
            BY <6>1, Placed DEF Places
          <6> QED
            BY <6>2
        <5>2. CASE Register(r) \/ VerifyEmail(r)
          BY <5>2, Placed DEF Register, VerifyEmail, Places
        <5>3. CASE UpdateSpace(r) \/ UploadLogo(r) \/ DeleteSpace(r)
          <6>1. \/ \E p \in {"space.exists", "space.logo"} : \E w, slug :
                      req' = [req EXCEPT ![r].at = p, ![r].space = w, ![r].slug = slug]
                \/ \E w : req' = [req EXCEPT ![r].at = "space.delete", ![r].space = w]
            <7>1. CASE UpdateSpace(r)
              BY <7>1 DEF UpdateSpace
            <7>2. CASE UploadLogo(r)
              BY <7>2 DEF UploadLogo
            <7>3. CASE DeleteSpace(r)
              BY <7>3 DEF DeleteSpace
            <7> QED
              BY <5>3, <7>1, <7>2, <7>3
          <6>2. req'[r].at \in {"space.exists", "space.logo", "space.delete"}
            BY <1>1, <6>1 DEF ReqType
          <6> QED
            BY <6>2
        <5> QED
          BY <3>3, <5>1, <5>2, <5>3
      <4> QED
        BY <2>1, <4>1, <4>2, LimitStays DEF Billing, Ledgers, Stock
    <3>4. CASE CountSpaces(r)
      <4>1. PICK s \in Slugs : req' = [req EXCEPT ![r].at = "limit", ![r].feature = "workspaces",
                                               ![r].count = Cardinality(Existing), ![r].slug = s]
        BY <3>4 DEF CountSpaces
      <4>2. req'[r].at = "limit" /\ req'[r].feature = "workspaces"
        BY <1>1, <4>1 DEF ReqType
      <4>3. \A f \in Features : Near(f)' \subseteq Near(f)
        BY <2>1, <4>2, OnboardingConstants DEF Near
      <4>4. UNCHANGED <<things, uncounted, offered>> /\ (Makers => Makers')
        BY <2>1, <3>4, <4>2 DEF CountSpaces, Billing, Ledgers, Stock, Makers
      <4> SUFFICES ASSUME NeverUnlimited' PROVE LimitInv'
        BY DEF LimitInv
      <4>5. Makers' /\ \A f \in Features : things[f] + Cardinality(Near(f)) < Cap + Cardinality(Requests) + uncounted[f]
        BY <4>4 DEF LimitInv, NeverUnlimited
      <4>6. ASSUME NEW f \in Features
            PROVE  things'[f] + Cardinality(Near(f)') < Cap + Cardinality(Requests) + uncounted'[f]
        <5>1. /\ Near(f) \in SUBSET Requests /\ things[f] \in Nat /\ things'[f] = things[f]
              /\ uncounted[f] \in Nat /\ uncounted'[f] = uncounted[f]
          BY <1>1, <4>4 DEF Near
        <5> QED
          BY <4>3, <4>5, <5>1, FewerStay
      <4> QED
        BY <4>5, <4>6 DEF LimitInv
    <3> QED
      BY <2>2, <3>2, <3>3, <3>4
         DEF Begin, BeginBilling, BeginSpace, CountAccounts, CountMembers, CountRoles, CountCategories,
             CountTransactions
  <2>3. CASE Make(r)
    BY <2>1, <2>3, MakeKeeps
  <2>4. CASE CheckFeatureLimit(r)
    <3>1. UNCHANGED <<things, uncounted, offered>> /\ req[r].at = "limit"
      BY <2>4 DEF CheckFeatureLimit, Billing, Ledgers, Stock
    <3>2. CASE Answer(r) \/ Go(r, "space.slugs")
      <4>1. req'[r].at \notin {"limit", "make"}
        BY <1>1, <3>2 DEF Answer, Go, Idle, ReqType
      <4> QED
        BY <2>1, <3>1, <4>1, LimitStays
    <3>3. CASE Go(r, "make") /\ req[r].slug = None /\ Room(req[r].feature, req[r].count)
      <4>1. req[r].feature \in Features /\ req[r].count \in Nat
        BY <1>1, <3>1, <3>3 DEF BInv, Asked, Fit, ReqType
      <4>2. NeverUnlimited => req[r].count < Cap
        BY <3>3, <4>1, RoomBelowCap
      <4>3. req' = [req EXCEPT ![r] = [req[r] EXCEPT !.at = "make"]]
        BY <1>1, <3>3 DEF Go
      <4>4. req'[r].at = "make" /\ req'[r].feature = req[r].feature /\ req'[r].count = req[r].count
        BY <1>1, <4>3 DEF ReqType
      <4> QED
        BY <2>1, <3>1, <4>2, <4>4, LimitStays
    <3> QED
      BY <2>4, <3>2, <3>3 DEF CheckFeatureLimit
  <2>5. CASE \/ FindActive(r) \/ InsertSub(r) \/ FindPlan(r) \/ SaveSub(r) \/ FindToConfirm(r)
             \/ SaveCancelled(r) \/ CancelAtGateway(r) \/ GoOnSpace(r) \/ Fail(r)
    <3>1. UNCHANGED <<things, uncounted, offered>>
      BY <2>5 DEF FindActive, InsertSub, FindPlan, SaveSub, FindToConfirm, SaveCancelled, CancelAtGateway,
                  GoOnSpace, SaveUser, SaveVerified, FindFree, FindFreePlan, FindSlug, InsertSpace,
                  SlugTaken, CreateRole, CreateOwner, CreateCategories, AddPart, StoreLogo, FindToSave,
                  SaveSpace, InsertAgain, DropSpace, Fail, Billing, Ledgers, Stock
    <3>2. req'[r].at \notin {"limit", "make"}
      <4>1. CASE FindActive(r) \/ InsertSub(r) \/ FindPlan(r) \/ SaveSub(r) \/ FindToConfirm(r)
                 \/ SaveCancelled(r) \/ CancelAtGateway(r) \/ Fail(r)
        <5>1. req[r].id \in Int
          BY <1>1, Constants DEF ReqType
        <5>2. \/ Answer(r) \/ Go(r, "space.slugs") \/ Go(r, "gateway")
              \/ \E row : Draw(r, row)
              \/ \E i \in Int : \E row : Hold(r, "sub.save", i, row)
          <6>1. CASE FindActive(r) \/ InsertSub(r) \/ SaveSub(r) \/ SaveCancelled(r) \/ CancelAtGateway(r)
                     \/ Fail(r)
            BY <6>1 DEF FindActive, InsertSub, SaveSub, SaveCancelled, CancelAtGateway, Fail
          <6>2. CASE FindPlan(r)
            BY <5>1, <6>2 DEF FindPlan
          <6>3. CASE FindToConfirm(r)
            <7>1. CASE Draw(r, req[r].row)
              BY <7>1
            <7>2. ASSUME NEW i \in SubIds, Hold(r, "sub.save", i, [req[r].row EXCEPT !.status = subs[i].status])
                  PROVE  \E j \in Int : \E row : Hold(r, "sub.save", j, row)
              BY <7>2 DEF SubIds
            <7> QED
              BY <6>3, <7>1, <7>2 DEF FindToConfirm, Current
          <6> QED
            BY <4>1, <6>1, <6>2, <6>3
        <5> QED
          BY <5>2, Placed DEF Places
      <4>2. CASE GoOnSpace(r)
        BY <1>1, <4>2 DEF GoOnSpace, SaveUser, SaveVerified, FindFree, FindFreePlan, FindSlug, InsertSpace,
                          SlugTaken, CreateRole, CreateOwner, CreateCategories, AddPart, StoreLogo,
                          FindToSave, SaveSpace, InsertAgain, DropSpace, Draw, Hold, Go, Answer, Idle, ReqType
      <4> QED
        BY <2>5, <4>1, <4>2
    <3> QED
      BY <2>1, <3>1, <3>2, LimitStays
  <2> QED
    BY <1>4, <2>2, <2>3, <2>4, <2>5 DEF GoOn, GoOnBilling
<1> QED
  BY <1>2, <1>3, <1>4 DEF Next

\* However many requests count before any of them creates, they exceed the highest limit by
\* less than their number and what came without a check since there was room last, whatever
\* plans are changed meanwhile.
THEOREM OvershootIsBounded == Spec => []OvershootBounded
<1>1. Init => LimitInv
  <2> SUFFICES ASSUME Init PROVE LimitInv
    OBVIOUS
  <2>1. ASSUME NEW f \in Features
        PROVE  things[f] + Cardinality(Near(f)) < Cap + Cardinality(Requests) + uncounted[f]
    <3>1. Cardinality(Near(f)) = 0
      <4>1. Near(f) = {}
        BY DEF Init, Near, Idle
      <4> QED
        BY <4>1, FS_EmptySet
    <3>2. /\ AtFirst[f] \in Nat /\ things[f] = AtFirst[f]
          /\ uncounted[f] = IF AtFirst[f] < Cap THEN 0 ELSE AtFirst[f] - Cap + 1
      BY SubscriptionConstants DEF Init
    <3> QED
      BY <3>1, <3>2, NearCounted, SubscriptionConstants
  <2>2. Makers
    BY DEF Init, Makers, Idle
  <2> QED
    BY <2>1, <2>2 DEF LimitInv
<1>2. BInv /\ LimitInv => OvershootBounded
  <2> SUFFICES ASSUME BInv, LimitInv, NeverUnlimited, NEW f \in Features
        PROVE  things[f] < Cap + Cardinality(Requests) + uncounted[f]
    BY DEF OvershootBounded
  <2>1. things[f] \in Nat /\ uncounted[f] \in Nat /\ Near(f) \in SUBSET Requests
    BY DEF BInv, Billed, Near
  <2>2. things[f] + Cardinality(Near(f)) < Cap + Cardinality(Requests) + uncounted[f]
    BY DEF LimitInv
  <2>3. Cardinality(Near(f)) \in Nat /\ Cap \in Nat /\ Cardinality(Requests) \in Nat
    BY <2>1, NearCounted, SubscriptionConstants
  <2> QED
    BY <2>1, <2>2, <2>3
<1> QED
  BY <1>1, <1>2, LimitKeeps, PlansInvariant, PTL DEF Spec
=============================================================================
