---------------------------- MODULE Credentials ----------------------------
(***************************************************************************)
(* The account of one user: the methods of AuthService and UserService that *)
(* write the users row, the identity row and the codes in Redis.            *)
(*                                                                         *)
(* Every writer of the users row reads it, changes some fields and writes   *)
(* all of them back.  Redis holds one key per purpose: a code is compared   *)
(* by a GET and used up by a later DEL of the key, whatever it then holds.  *)
(* A code the user types wrongly is refused with nothing changed and is     *)
(* left out; so is a one-time password of an authenticator application,     *)
(* which is not stored.                                                     *)
(***************************************************************************)
EXTENDS Naturals, FiniteSets

CONSTANTS
    Requests,    \* concurrent requests
    RouteSets,   \* sets of endpoints that clients call together
    Codes,       \* codes that can be drawn and sent
    Secrets,     \* what else can be drawn: the secret of a method with its backup codes
    Passwords,   \* passwords, each with its hash
    App,         \* the method of an authenticator application
    Mailed,      \* the methods that send a code: sms, email
    None

ASSUME CredentialConstants ==
    /\ IsFiniteSet(Requests) /\ Requests # {}
    /\ App \notin Mailed /\ Codes \cap Secrets = {}
    /\ None \notin Codes \cup Secrets \cup Passwords \cup Mailed \cup {App}

Methods == Mailed \cup {App}
\* users: the columns that matter; "codes" stands for the eight backup codes
Account == [verified: BOOLEAN, enabled: BOOLEAN, methods: SUBSET Methods,
            primary: Methods \cup {None}, secret: Secrets \cup {None}, codes: Secrets \cup {None}]
ASSUME NoneIsNoAccount == None \notin Account

VARIABLES
    routes,     \* what clients call in this behaviour
    cacheUp,    \* Redis answered when the service was built; if not, it has no cache
    acct,       \* the users row
    password,   \* auth_identities.password_hash
    pending,    \* 2fa_pending:<user>:<method>
    loginCode,  \* 2fa_login:<user>:<method>
    resetCode,  \* reset_code:<email>
    tokens,     \* reset tokens that have not expired, by the code they were given for
    drawn,      \* what has been drawn so far
    req,        \* per request: where it is and what it holds
    accepted,   \* ghost: how often each code has been accepted
    chosen,     \* ghost: the last password that a change or a reset has saved
    calm        \* ghost: so far no two requests have overlapped and nothing has failed

account == <<routes, cacheUp, acct, password, pending, loginCode, resetCode, tokens, drawn, req,
             accepted, chosen, calm>>

Places == {"idle", "user.save", "backup.save", "avatar.store", "pending.set", "enable.find", "pending.del",
           "login.identity", "login.save", "identity.save", "reset.set", "reset.del", "code.set", "code.get",
           "code.del"}
Idle == [at |-> "idle", row |-> None, method |-> None, code |-> None, hash |-> None]

-----------------------------------------------------------------------------
Start(r, route) == route \in routes /\ req[r] = Idle
Go(r, place)    == req' = [req EXCEPT ![r].at = place]
\* The method returns, or throws to the controller.
Answer(r)       == req' = [req EXCEPT ![r] = Idle]
\* Go on to UserRepository.save with this row.
SaveNext(r, row) == req' = [req EXCEPT ![r].at = "user.save", ![r].row = row]
HoldCode(r, place, m, c) ==
    req' = [req EXCEPT ![r].at = place, ![r].method = m, ![r].code = c]
HoldHash(r, place, p) == req' = [req EXCEPT ![r].at = place, ![r].hash = p]

Redis  == <<pending, loginCode, resetCode>>
Ghosts == <<accepted, chosen>>
Fixed  == <<routes, cacheUp>>
Tables == <<acct, password>>
All    == <<Fixed, Tables, Redis, tokens, drawn, Ghosts>>

\* bound: the count stops where it exceeds what ReuseBounded allows.
Accept(c) ==
    accepted' = IF accepted[c] > Cardinality(Requests) THEN accepted
                ELSE [accepted EXCEPT ![c] = @ + 1]

\* User.enable2FA
WithMethod(row, m, s) ==
    [row EXCEPT !.enabled = TRUE,
                !.primary = IF row.primary = None THEN m ELSE row.primary,
                !.secret  = IF m = App THEN s ELSE row.secret,
                !.codes   = s,
                !.methods = @ \cup {m}]

\* User.disable2FA
Without2FA(row) ==
    [row EXCEPT !.enabled = FALSE, !.primary = None, !.secret = None, !.codes = None,
                !.methods = {}]

\* A slip: the method in use stays in use.
KeepPrimary(row, m) ==
    {IF row.methods \ {m} = {} THEN Without2FA(row)
     ELSE [row EXCEPT !.methods = @ \ {m}, !.secret = IF m = App THEN None ELSE row.secret]}

\* User.disableMethod: the next method in use is any that is left.
WithoutMethod(row, m) ==
    LET left == row.methods \ {m} IN
    IF left = {} THEN {Without2FA(row)}
    ELSE {[row EXCEPT !.methods = left,
                      !.primary = IF row.primary = m THEN next ELSE row.primary,
                      !.secret  = IF m = App THEN None ELSE row.secret] : next \in left}

-----------------------------------------------------------------------------
(* Writers of the users row.                                               *)

VerifyEmail(r) ==
    /\ Start(r, "verify")
    /\ ~acct.verified
    /\ SaveNext(r, [acct EXCEPT !.verified = TRUE])
    /\ UNCHANGED All

UpdateProfile(r) ==
    /\ Start(r, "profile")
    /\ SaveNext(r, acct)
    /\ UNCHANGED All

\* The picture is uploaded between the read and the write.
UploadAvatar(r) ==
    /\ Start(r, "avatar")
    /\ req' = [req EXCEPT ![r].at = "avatar.store", ![r].row = acct]
    /\ UNCHANGED All

StoreAvatar(r) ==
    /\ req[r].at = "avatar.store"
    /\ Go(r, "user.save")
    /\ UNCHANGED All

Disable2FA(r) ==
    /\ Start(r, "disable")
    /\ SaveNext(r, Without2FA(acct))
    /\ UNCHANGED All

Disable2FAMethod(r) ==
    \E m \in Methods :
        /\ Start(r, "disableMethod")
        /\ \E row \in WithoutMethod(acct, m) : SaveNext(r, row)
        /\ UNCHANGED All

RegenerateBackupCodes(r) ==
    \E c \in Secrets \ drawn :
        /\ Start(r, "regenerate")
        /\ acct.enabled
        /\ drawn' = drawn \cup {c}
        /\ SaveNext(r, [acct EXCEPT !.codes = c])
        /\ UNCHANGED <<Fixed, Tables, Redis, tokens, Ghosts>>

\* A slip: the backup code that was used stays on the row.
UseBackupCode(r) ==
    /\ Start(r, "backup")
    /\ acct.codes # None
    /\ req' = [req EXCEPT ![r].at = "backup.save", ![r].row = acct, ![r].code = acct.codes]
    /\ UNCHANGED All

\* verifyBackupCode: whoever uses one switches everything off.
VerifyBackupCode(r) ==
    /\ Start(r, "backup")
    /\ acct.codes # None
    /\ req' = [req EXCEPT ![r].at = "backup.save", ![r].row = Without2FA(acct), ![r].code = acct.codes]
    /\ UNCHANGED All

SaveUsed(r) ==
    /\ req[r].at = "backup.save"
    /\ acct' = req[r].row
    /\ Accept(req[r].code)
    /\ Answer(r)
    /\ UNCHANGED <<Fixed, password, Redis, tokens, drawn, chosen>>

\* UserRepository.save: the row exists, so it is updated, every column of it.
SaveUser(r) ==
    /\ req[r].at = "user.save"
    /\ acct' = req[r].row
    /\ IF req[r].code = None THEN Answer(r) ELSE Go(r, "pending.del")
    /\ UNCHANGED <<Fixed, password, Redis, tokens, drawn, Ghosts>>

-----------------------------------------------------------------------------
(* Setting up a method: generate2FASecret, then enable2FA.                 *)
Generate2FASecret(r) ==
    \E m \in Methods, s \in Secrets \ drawn :
        /\ Start(r, "setup")
        /\ drawn' = drawn \cup {s}
        /\ IF cacheUp THEN HoldCode(r, "pending.set", m, s) ELSE UNCHANGED req
        /\ UNCHANGED <<Fixed, Tables, Redis, tokens, Ghosts>>

SetPending(r) ==
    /\ req[r].at = "pending.set"
    /\ pending' = [pending EXCEPT ![req[r].method] = req[r].code]
    /\ Answer(r)
    /\ UNCHANGED <<Fixed, Tables, loginCode, resetCode, tokens, drawn, Ghosts>>

Enable2FA(r) ==
    \E m \in Methods :
        /\ Start(r, "enable")
        /\ pending[m] # None
        /\ HoldCode(r, "enable.find", m, pending[m])
        /\ UNCHANGED All

FindToEnable(r) ==
    /\ req[r].at = "enable.find"
    /\ SaveNext(r, WithMethod(acct, req[r].method, req[r].code))
    /\ UNCHANGED All

DelPending(r) ==
    /\ req[r].at = "pending.del"
    /\ pending' = [pending EXCEPT ![req[r].method] = None]
    /\ Answer(r)
    /\ UNCHANGED <<Fixed, Tables, loginCode, resetCode, tokens, drawn, Ghosts>>

-----------------------------------------------------------------------------
(* Logging in: the password, then a code if the user has set up 2FA.       *)
\* With 2FA the answer is a request for a code.
Login(r) ==
    /\ Start(r, "login")
    /\ ~acct.enabled
    /\ Go(r, "login.identity")
    /\ UNCHANGED All

\* The password typed is that of the identity; updateLastLogin, then save.
FindIdentity(r) ==
    /\ req[r].at = "login.identity"
    /\ HoldHash(r, "login.save", password)
    /\ UNCHANGED All

\* resend2FA looks at the user only to find where to send the code.
Resend2FA(r) ==
    \E m \in Mailed, c \in Codes \ drawn :
        /\ Start(r, "resend")
        /\ drawn' = drawn \cup {c}
        /\ IF cacheUp THEN HoldCode(r, "code.set", m, c) ELSE UNCHANGED req
        /\ UNCHANGED <<Fixed, Tables, Redis, tokens, Ghosts>>

SetLoginCode(r) ==
    /\ req[r].at = "code.set"
    /\ loginCode' = [loginCode EXCEPT ![req[r].method] = req[r].code]
    /\ Answer(r)
    /\ UNCHANGED <<Fixed, Tables, pending, resetCode, tokens, drawn, Ghosts>>

Verify2FA(r) ==
    \E m \in Mailed :
        /\ Start(r, "verify2FA")
        /\ acct.enabled /\ cacheUp
        /\ HoldCode(r, "code.get", m, None)
        /\ UNCHANGED All

CompareLoginCode(r) ==
    /\ req[r].at = "code.get"
    /\ IF loginCode[req[r].method] = None THEN Answer(r)
       ELSE HoldCode(r, "code.del", req[r].method, loginCode[req[r].method])
    /\ UNCHANGED All

DelLoginCode(r) ==
    /\ req[r].at = "code.del"
    /\ loginCode' = [loginCode EXCEPT ![req[r].method] = None]
    /\ Accept(req[r].code)
    /\ Answer(r)
    /\ UNCHANGED <<Fixed, Tables, pending, resetCode, tokens, drawn, chosen>>

-----------------------------------------------------------------------------
(* Passwords.                                                              *)
ForgotPassword(r) ==
    \E c \in Codes \ drawn :
        /\ Start(r, "forgot")
        /\ drawn' = drawn \cup {c}
        /\ IF cacheUp THEN HoldCode(r, "reset.set", None, c) ELSE UNCHANGED req
        /\ UNCHANGED <<Fixed, Tables, Redis, tokens, Ghosts>>

SetResetCode(r) ==
    /\ req[r].at = "reset.set"
    /\ resetCode' = req[r].code
    /\ Answer(r)
    /\ UNCHANGED <<Fixed, Tables, pending, loginCode, tokens, drawn, Ghosts>>

VerifyResetCode(r) ==
    /\ Start(r, "verifyReset")
    /\ resetCode # None
    /\ HoldCode(r, "reset.del", None, resetCode)
    /\ UNCHANGED All

\* A slip: the code is left to expire.
KeepResetCode(r) ==
    /\ req[r].at = "reset.del"
    /\ Accept(req[r].code)
    /\ tokens' = tokens \cup {req[r].code}
    /\ Answer(r)
    /\ UNCHANGED <<Fixed, Tables, Redis, drawn, chosen>>

DelResetCode(r) ==
    /\ req[r].at = "reset.del"
    /\ resetCode' = None
    /\ Accept(req[r].code)
    /\ tokens' = tokens \cup {req[r].code}
    /\ Answer(r)
    /\ UNCHANGED <<Fixed, Tables, pending, loginCode, drawn, chosen>>

ResetPassword(r) ==
    \E c \in tokens, p \in Passwords :
        /\ Start(r, "reset")
        /\ HoldHash(r, "identity.save", p)
        /\ UNCHANGED All

ChangePassword(r) ==
    \E p \in Passwords :
        /\ Start(r, "change")
        /\ HoldHash(r, "identity.save", p)
        /\ UNCHANGED All

\* A slip: the UPDATE leaves out the hash.
SaveTimeOnly(r) ==
    /\ req[r].at = "identity.save"
    /\ chosen' = req[r].hash
    /\ Answer(r)
    /\ UNCHANGED <<Fixed, Tables, Redis, tokens, drawn, accepted>>

\* AuthRepository.save: password_hash and last_login_at
SaveIdentity(r) ==
    /\ req[r].at = "identity.save"
    /\ password' = req[r].hash /\ chosen' = req[r].hash
    /\ Answer(r)
    /\ UNCHANGED <<Fixed, acct, Redis, tokens, drawn, accepted>>

SaveLogin(r) ==
    /\ req[r].at = "login.save"
    /\ password' = req[r].hash
    /\ Answer(r)
    /\ UNCHANGED <<Fixed, acct, Redis, tokens, drawn, Ghosts>>

\* A key or a token reaches the end of its time.
Expire ==
    /\ \/ \E m \in Methods : pending' = [pending EXCEPT ![m] = None] /\ UNCHANGED <<loginCode, resetCode, tokens>>
       \/ \E m \in Mailed : loginCode' = [loginCode EXCEPT ![m] = None] /\ UNCHANGED <<pending, resetCode, tokens>>
       \/ resetCode' = None /\ UNCHANGED <<pending, loginCode, tokens>>
       \/ \E c \in tokens : tokens' = tokens \ {c} /\ UNCHANGED <<pending, loginCode, resetCode>>
    /\ UNCHANGED <<Fixed, Tables, drawn, req, Ghosts, calm>>

\* A statement or a command fails: the method throws, and what it has written stays.
Fail(r) ==
    /\ req[r].at # "idle"
    /\ Answer(r)
    /\ calm' = FALSE
    /\ UNCHANGED All

-----------------------------------------------------------------------------
InitAccount ==
    /\ routes \in RouteSets /\ cacheUp \in BOOLEAN
    /\ acct = [verified |-> FALSE, enabled |-> FALSE, methods |-> {}, primary |-> None,
               secret |-> None, codes |-> None]
    /\ password \in Passwords /\ chosen = password
    /\ pending = [m \in Methods |-> None] /\ loginCode = [m \in Mailed |-> None]
    /\ resetCode = None /\ tokens = {} /\ drawn = {}
    /\ req = [r \in Requests |-> Idle]
    /\ accepted = [c \in Codes \cup Secrets |-> 0]
    /\ calm = TRUE

BeginAuth(r) ==
    \/ VerifyEmail(r) \/ Login(r) \/ Resend2FA(r) \/ Verify2FA(r) \/ VerifyBackupCode(r)
    \/ ForgotPassword(r) \/ VerifyResetCode(r) \/ ResetPassword(r)

BeginProfile(r) == UpdateProfile(r) \/ UploadAvatar(r)

BeginSettings(r) ==
    \/ ChangePassword(r) \/ Generate2FASecret(r) \/ Enable2FA(r)
    \/ Disable2FA(r) \/ Disable2FAMethod(r) \/ RegenerateBackupCodes(r)

Begin(r) ==
    /\ BeginAuth(r) \/ BeginProfile(r) \/ BeginSettings(r)
    /\ calm' = (calm /\ \A q \in Requests \ {r} : req[q] = Idle)

GoOn(r) ==
    /\ \/ StoreAvatar(r) \/ SaveUser(r) \/ SaveUsed(r)
       \/ SetPending(r) \/ FindToEnable(r) \/ DelPending(r)
       \/ FindIdentity(r) \/ SaveLogin(r) \/ SaveIdentity(r)
       \/ SetLoginCode(r) \/ CompareLoginCode(r) \/ DelLoginCode(r)
       \/ SetResetCode(r) \/ DelResetCode(r)
    /\ UNCHANGED calm

NextAccount == Expire \/ \E r \in Requests : Begin(r) \/ GoOn(r) \/ Fail(r)

-----------------------------------------------------------------------------
(* Properties.                                                             *)

ReqType == [at: Places, row: Account \cup {None}, method: Methods \cup {None},
            code: Codes \cup Secrets \cup {None}, hash: Passwords \cup {None}]

\* The type of every variable.
AccountTyped ==
    /\ routes \in RouteSets /\ cacheUp \in BOOLEAN
    /\ acct \in Account /\ password \in Passwords
    /\ pending \in [Methods -> Secrets \cup {None}]
    /\ loginCode \in [Mailed -> Codes \cup {None}]
    /\ resetCode \in Codes \cup {None}
    /\ tokens \subseteq Codes /\ drawn \subseteq Codes \cup Secrets
    /\ req \in [Requests -> ReqType]
    /\ accepted \in [Codes \cup Secrets -> Nat]
    /\ chosen \in Passwords /\ calm \in BOOLEAN

\* Nobody is locked out by a half-made setting: 2FA is on exactly if there is a method
\* and backup codes, the method asked for is one of them, and the authenticator has its secret.
\* It is so whatever requests race to write the row.
Sound(row) ==
    /\ row.enabled <=> row.methods # {}
    /\ row.enabled <=> row.codes # None
    /\ row.enabled <=> row.primary # None
    /\ row.primary # None => row.primary \in row.methods
    /\ App \in row.methods <=> row.secret # None
TwoFactorWhole == Sound(acct)

\* As long as requests do not overlap and none fails, a code is accepted once: a code sent by mail or
\* message, a reset code, a set of backup codes.
SingleUse == calm => \A c \in Codes \cup Secrets : accepted[c] <= 1

\* However requests overlap, a code that was sent is accepted by no more requests than
\* those that were in flight when the first of them used it up.
ReuseBounded == \A c \in Codes : accepted[c] <= Cardinality(Requests)

\* As long as requests do not overlap and none fails, the password is the one that was last chosen:
\* logging in, which writes the identity back, does not change it.
PasswordAsChosen == calm => password = chosen
=============================================================================
