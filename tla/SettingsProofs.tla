-------------------------- MODULE SettingsProofs --------------------------
(* Proofs about Settings: however requests race to write the users row back, its     *)
(* two-factor setting is whole, and everything that is read from Redis is of its type. *)
EXTENDS Settings, TLAPS, FiniteSetTheorems

\* What the record of a request may be: the row it will save is whole, and it has at
\* each place what that place goes on to use.
Fit(x) ==
    /\ x \in ReqType
    /\ x.row # None => Sound(x.row)
    /\ x.at = "idle" => x = Idle
    /\ x.at \in {"user.save", "backup.save", "avatar.store"} => x.row # None
    /\ x.at \in {"pending.set", "enable.find"} => x.method \in Methods /\ x.code \in Secrets
    /\ x.at = "pending.del" => x.method \in Methods
    /\ x.at = "user.save" /\ x.code # None => x.method \in Methods
    /\ x.at = "avatar.store" => x.code = None
    /\ x.at \in {"code.set", "code.del"} => x.method \in Mailed /\ x.code \in Codes
    /\ x.at = "code.get" => x.method \in Mailed
    /\ x.at \in {"reset.set", "reset.del"} => x.code \in Codes
    /\ x.at = "backup.save" => x.code \in Secrets
    /\ x.at \in {"identity.save", "login.save"} => x.hash \in Passwords

Fitting == \A r \in Requests : Fit(req[r])
AInv    == AccountTyped /\ TwoFactorWhole /\ Fitting

-----------------------------------------------------------------------------
(* Rows.                                                                   *)

\* Setting up a method keeps the setting whole.
LEMMA WithMethodSound ==
    ASSUME NEW row \in Account, Sound(row), NEW m \in Methods, NEW s \in Secrets
    PROVE  WithMethod(row, m, s) \in Account /\ Sound(WithMethod(row, m, s))
<1> DEFINE new == WithMethod(row, m, s)
<1>1. /\ new \in Account
      /\ new.enabled = TRUE /\ new.codes = s
      /\ new.primary = IF row.primary = None THEN m ELSE row.primary
      /\ new.secret = IF m = App THEN s ELSE row.secret
      /\ new.methods = row.methods \cup {m}
  <2>1. new = [row EXCEPT !.enabled = TRUE,
                          !.primary = IF row.primary = None THEN m ELSE row.primary,
                          !.secret  = IF m = App THEN s ELSE row.secret,
                          !.codes   = s,
                          !.methods = row.methods \cup {m}]
    BY DEF WithMethod
  <2> HIDE DEF new
  <2> QED
    BY <2>1 DEF Account
<1>2. s # None /\ m # None
  BY CredentialConstants DEF Methods
<1>3. Sound(new)
  BY <1>1, <1>2 DEF Sound
<1> QED
  BY <1>1, <1>3

LEMMA Without2FASound ==
    ASSUME NEW row \in Account PROVE Without2FA(row) \in Account /\ Sound(Without2FA(row))
<1> DEFINE new == Without2FA(row)
<1>1. /\ new = [row EXCEPT !.enabled = FALSE, !.primary = None, !.secret = None, !.codes = None,
                          !.methods = {}]
      /\ new \in Account
      /\ new.enabled = FALSE /\ new.methods = {} /\ new.primary = None
      /\ new.secret = None /\ new.codes = None
  <2>1. new = [row EXCEPT !.enabled = FALSE, !.primary = None, !.secret = None, !.codes = None,
                          !.methods = {}]
    BY DEF Without2FA
  <2> HIDE DEF new
  <2> QED
    BY <2>1 DEF Account
<1>2. Sound(new)
  BY <1>1 DEF Sound
<1> QED
  BY <1>1, <1>2

\* Giving one up keeps it whole: the last one switches everything off.
LEMMA WithoutMethodSound ==
    ASSUME NEW row \in Account, Sound(row), NEW m \in Methods, NEW new \in WithoutMethod(row, m)
    PROVE  new \in Account /\ Sound(new)
<1> DEFINE left == row.methods \ {m}
<1>1. CASE left = {}
  BY <1>1, Without2FASound DEF WithoutMethod
<1>2. CASE left # {}
  <2>1. PICK next \in left :
           new = [row EXCEPT !.methods = left,
                             !.primary = IF row.primary = m THEN next ELSE row.primary,
                             !.secret  = IF m = App THEN None ELSE row.secret]
    BY <1>2 DEF WithoutMethod
  <2>2. /\ new.enabled = row.enabled /\ new.codes = row.codes /\ new.methods = left
        /\ new.primary = IF row.primary = m THEN next ELSE row.primary
        /\ new.secret = IF m = App THEN None ELSE row.secret
        /\ new = [verified |-> row.verified, enabled |-> row.enabled, methods |-> left,
                  primary |-> new.primary, secret |-> new.secret, codes |-> row.codes]
    BY <2>1 DEF Account
  <2>3. row.methods \subseteq Methods /\ next \in Methods /\ None \notin Methods
    BY CredentialConstants DEF Account, Methods
  <2>4. new \in Account
    BY <2>2, <2>3 DEF Account
  <2>5. Sound(new)
    BY <1>2, <2>2, <2>3 DEF Sound
  <2> QED
    BY <2>4, <2>5
<1> QED
  BY <1>1, <1>2

\* Verification, and new backup codes, leave the methods alone.
LEMMA OthersSound ==
    ASSUME NEW row \in Account, Sound(row)
    PROVE  /\ [row EXCEPT !.verified = TRUE] \in Account /\ Sound([row EXCEPT !.verified = TRUE])
           /\ \A c \in Secrets : row.enabled =>
                 [row EXCEPT !.codes = c] \in Account /\ Sound([row EXCEPT !.codes = c])
BY CredentialConstants DEF Account, Sound

-----------------------------------------------------------------------------
(* Requests.                                                               *)

LEMMA Types == Idle \in ReqType
BY DEF Idle, ReqType, Places

\* What a request may begin with.
LEMMA BeginsFit ==
    /\ Fit(Idle)
    /\ \A row \in Account : Sound(row) =>
          /\ Fit([Idle EXCEPT !.at = "user.save", !.row = row])
          /\ Fit([Idle EXCEPT !.at = "avatar.store", !.row = row])
          /\ \A c \in Secrets : Fit([Idle EXCEPT !.at = "backup.save", !.row = row, !.code = c])
    /\ \A m \in Methods, s \in Secrets :
          /\ Fit([Idle EXCEPT !.at = "pending.set", !.method = m, !.code = s])
          /\ Fit([Idle EXCEPT !.at = "enable.find", !.method = m, !.code = s])
    /\ \A m \in Mailed :
          /\ Fit([Idle EXCEPT !.at = "code.get", !.method = m, !.code = None])
          /\ \A c \in Codes : Fit([Idle EXCEPT !.at = "code.set", !.method = m, !.code = c])
    /\ \A c \in Codes :
          /\ Fit([Idle EXCEPT !.at = "reset.set", !.method = None, !.code = c])
          /\ Fit([Idle EXCEPT !.at = "reset.del", !.method = None, !.code = c])
    /\ \A p \in Passwords : Fit([Idle EXCEPT !.at = "identity.save", !.hash = p])
    /\ Fit([Idle EXCEPT !.at = "login.identity"])
<1> USE CredentialConstants, NoneIsNoAccount DEF Fit, Idle, ReqType, Places, Methods
<1>1. Fit(Idle) /\ Fit([Idle EXCEPT !.at = "login.identity"])
  OBVIOUS
<1>2. ASSUME NEW row \in Account, Sound(row)
      PROVE  /\ Fit([Idle EXCEPT !.at = "user.save", !.row = row])
             /\ Fit([Idle EXCEPT !.at = "avatar.store", !.row = row])
             /\ \A c \in Secrets : Fit([Idle EXCEPT !.at = "backup.save", !.row = row, !.code = c])
  BY <1>2
<1>3. ASSUME NEW m \in Methods, NEW s \in Secrets
      PROVE  /\ Fit([Idle EXCEPT !.at = "pending.set", !.method = m, !.code = s])
             /\ Fit([Idle EXCEPT !.at = "enable.find", !.method = m, !.code = s])
  OBVIOUS
<1>4. ASSUME NEW m \in Mailed
      PROVE  /\ Fit([Idle EXCEPT !.at = "code.get", !.method = m, !.code = None])
             /\ \A c \in Codes : Fit([Idle EXCEPT !.at = "code.set", !.method = m, !.code = c])
  OBVIOUS
<1>5. ASSUME NEW c \in Codes
      PROVE  /\ Fit([Idle EXCEPT !.at = "reset.set", !.method = None, !.code = c])
             /\ Fit([Idle EXCEPT !.at = "reset.del", !.method = None, !.code = c])
  OBVIOUS
<1>6. ASSUME NEW p \in Passwords PROVE Fit([Idle EXCEPT !.at = "identity.save", !.hash = p])
  OBVIOUS
<1> HIDE DEF Fit, Idle
<1> QED
  BY <1>1, <1>2, <1>3, <1>4, <1>5, <1>6

\* What it may go on with.
LEMMA NextFits ==
    ASSUME NEW x, Fit(x)
    PROVE  /\ x.at = "avatar.store" => Fit([x EXCEPT !.at = "user.save"])
           /\ x.at = "user.save" /\ x.code # None => Fit([x EXCEPT !.at = "pending.del"])
           /\ x.at = "enable.find" => \A row \in Account :
                 Sound(row) => Fit([x EXCEPT !.at = "user.save", !.row = row])
           /\ x.at = "login.identity" => \A p \in Passwords :
                 Fit([x EXCEPT !.at = "login.save", !.hash = p])
           /\ x.at = "code.get" => \A c \in Codes :
                 Fit([x EXCEPT !.at = "code.del", !.method = x.method, !.code = c])
<1> USE CredentialConstants, NoneIsNoAccount DEF Fit, Idle, ReqType, Places, Methods
<1>1. x.at = "avatar.store" => Fit([x EXCEPT !.at = "user.save"])
  OBVIOUS
<1>2. x.at = "user.save" /\ x.code # None => Fit([x EXCEPT !.at = "pending.del"])
  OBVIOUS
<1>3. ASSUME x.at = "enable.find", NEW row \in Account, Sound(row)
      PROVE  Fit([x EXCEPT !.at = "user.save", !.row = row])
  BY <1>3
<1>4. ASSUME x.at = "login.identity", NEW p \in Passwords
      PROVE  Fit([x EXCEPT !.at = "login.save", !.hash = p])
  BY <1>4
<1>5. ASSUME x.at = "code.get", NEW c \in Codes
      PROVE  Fit([x EXCEPT !.at = "code.del", !.method = x.method, !.code = c])
  BY <1>5
<1> HIDE DEF Fit
<1> QED
  BY <1>1, <1>2, <1>3, <1>4, <1>5

LEMMA Put ==
    ASSUME AInv, NEW r \in Requests, NEW x, Fit(x), req' = [req EXCEPT ![r] = x]
    PROVE  req' \in [Requests -> ReqType] /\ Fitting'
BY DEF AInv, AccountTyped, Fitting, Fit

LEMMA Answered ==
    ASSUME AInv, NEW r \in Requests, Answer(r)
    PROVE  req' \in [Requests -> ReqType] /\ Fitting'
BY Put, BeginsFit DEF Answer

LEMMA RowSaved ==
    ASSUME AInv, NEW r \in Requests, req[r] = Idle, NEW row \in Account, Sound(row), SaveNext(r, row)
    PROVE  req' \in [Requests -> ReqType] /\ Fitting'
<1>1. req' = [req EXCEPT ![r] = [Idle EXCEPT !.at = "user.save", !.row = row]]
  BY DEF SaveNext, AInv, AccountTyped
<1> QED
  BY <1>1, Put, BeginsFit

-----------------------------------------------------------------------------
(* Each operation.                                                         *)

LEMMA AccountStart == InitAccount => AInv
<1> SUFFICES ASSUME InitAccount PROVE AInv
  OBVIOUS
<1>1. AccountTyped
  BY Types DEF InitAccount, AccountTyped, Account
<1>2. TwoFactorWhole
  BY DEF InitAccount, TwoFactorWhole, Sound
<1>3. Fitting
  BY BeginsFit DEF InitAccount, Fitting
<1> QED
  BY <1>1, <1>2, <1>3 DEF AInv

LEMMA AccountRest == AInv /\ UNCHANGED account => AInv'
BY DEF account, AInv, AccountTyped, TwoFactorWhole, Fitting

\* An operation that changes nothing but the requests.
LEMMA RequestsOnly ==
    ASSUME AInv, UNCHANGED All, calm' \in BOOLEAN, req' \in [Requests -> ReqType], Fitting'
    PROVE  AInv'
BY DEF AInv, AccountTyped, TwoFactorWhole, All, Fixed, Tables, Redis, Ghosts

\* Requests that begin by reading the row they will save.
LEMMA ReadersKeep ==
    ASSUME AInv, NEW r \in Requests, calm' \in BOOLEAN,
           \/ VerifyEmail(r) \/ UpdateProfile(r) \/ UploadAvatar(r) \/ Disable2FA(r)
           \/ Disable2FAMethod(r)
    PROVE  AInv'
<1>1. acct \in Account /\ Sound(acct)
  BY DEF AInv, AccountTyped, TwoFactorWhole
<1>2. req[r] = Idle /\ UNCHANGED All
  BY DEF VerifyEmail, UpdateProfile, UploadAvatar, Disable2FA, Disable2FAMethod, Start
<1>3. req' \in [Requests -> ReqType] /\ Fitting'
  <2>1. CASE VerifyEmail(r)
    BY <2>1, <1>1, <1>2, RowSaved, OthersSound DEF VerifyEmail
  <2>2. CASE UpdateProfile(r)
    BY <2>2, <1>1, <1>2, RowSaved DEF UpdateProfile
  <2>3. CASE UploadAvatar(r)
    <3>1. req' = [req EXCEPT ![r] = [Idle EXCEPT !.at = "avatar.store", !.row = acct]]
      BY <2>3, <1>2 DEF UploadAvatar, AInv, AccountTyped
    <3> QED
      BY <3>1, <1>1, Put, BeginsFit
  <2>4. CASE Disable2FA(r)
    BY <2>4, <1>1, <1>2, RowSaved, Without2FASound DEF Disable2FA
  <2>5. CASE Disable2FAMethod(r)
    <3>1. PICK m \in Methods : \E row \in WithoutMethod(acct, m) : SaveNext(r, row)
      BY <2>5 DEF Disable2FAMethod
    <3>2. PICK row \in WithoutMethod(acct, m) : SaveNext(r, row)
      BY <3>1
    <3> QED
      BY <3>2, <1>1, <1>2, RowSaved, WithoutMethodSound
  <2> QED
    BY <2>1, <2>2, <2>3, <2>4, <2>5
<1> QED
  BY <1>2, <1>3, RequestsOnly

LEMMA BackupCodesKeep ==
    ASSUME AInv, NEW r \in Requests, calm' \in BOOLEAN,
           RegenerateBackupCodes(r) \/ VerifyBackupCode(r)
    PROVE  AInv'
<1>1. acct \in Account /\ Sound(acct)
  BY DEF AInv, AccountTyped, TwoFactorWhole
<1>2. CASE RegenerateBackupCodes(r)
  <2>1. PICK c \in Secrets \ drawn :
           /\ req[r] = Idle /\ acct.enabled /\ drawn' = drawn \cup {c}
           /\ SaveNext(r, [acct EXCEPT !.codes = c])
           /\ UNCHANGED <<Fixed, Tables, Redis, tokens, Ghosts>>
    BY <1>2 DEF RegenerateBackupCodes, Start
  <2>2. req' \in [Requests -> ReqType] /\ Fitting'
    BY <2>1, <1>1, RowSaved, OthersSound
  <2> QED
    BY <2>1, <2>2 DEF AInv, AccountTyped, TwoFactorWhole, Fixed, Tables, Redis, Ghosts
<1>3. CASE VerifyBackupCode(r)
  <2>1. acct.codes \in Secrets
    BY <1>1, <1>3 DEF VerifyBackupCode, Account
  <2>2. req' = [req EXCEPT ![r] = [Idle EXCEPT !.at = "backup.save", !.row = Without2FA(acct),
                                              !.code = acct.codes]]
    BY <1>3 DEF VerifyBackupCode, Start, AInv, AccountTyped
  <2>3. req' \in [Requests -> ReqType] /\ Fitting'
    BY <2>1, <2>2, <1>1, Without2FASound, Put, BeginsFit
  <2> QED
    BY <1>3, <2>3, RequestsOnly DEF VerifyBackupCode
<1> QED
  BY <1>2, <1>3

\* Requests that begin with a code, a secret or a password, drawn, read or typed.
LEMMA DrawnKeep ==
    ASSUME AInv, NEW r \in Requests, calm' \in BOOLEAN,
           Generate2FASecret(r) \/ Resend2FA(r) \/ ForgotPassword(r)
    PROVE  AInv'
<1>1. req' \in [Requests -> ReqType] /\ Fitting'
  <2>1. CASE UNCHANGED req
    BY <2>1 DEF AInv, AccountTyped, Fitting
  <2>2. CASE req[r] = Idle /\ \E m \in Methods, s \in Secrets : HoldCode(r, "pending.set", m, s)
    <3>1. PICK m \in Methods, s \in Secrets : HoldCode(r, "pending.set", m, s)
      BY <2>2
    <3>2. req' = [req EXCEPT ![r] = [Idle EXCEPT !.at = "pending.set", !.method = m, !.code = s]]
      BY <3>1, <2>2 DEF HoldCode, AInv, AccountTyped
    <3> QED
      BY <3>2, Put, BeginsFit
  <2>3. CASE req[r] = Idle /\ \E m \in Mailed, c \in Codes : HoldCode(r, "code.set", m, c)
    <3>1. PICK m \in Mailed, c \in Codes : HoldCode(r, "code.set", m, c)
      BY <2>3
    <3>2. req' = [req EXCEPT ![r] = [Idle EXCEPT !.at = "code.set", !.method = m, !.code = c]]
      BY <3>1, <2>3 DEF HoldCode, AInv, AccountTyped
    <3> QED
      BY <3>2, Put, BeginsFit
  <2>4. CASE req[r] = Idle /\ \E c \in Codes : HoldCode(r, "reset.set", None, c)
    <3>1. PICK c \in Codes :
             req' = [req EXCEPT ![r] = [Idle EXCEPT !.at = "reset.set", !.method = None, !.code = c]]
      BY <2>4 DEF HoldCode, AInv, AccountTyped
    <3> QED
      BY <3>1, Put, BeginsFit
  <2> QED
    BY <2>1, <2>2, <2>3, <2>4 DEF Generate2FASecret, Resend2FA, ForgotPassword, Start
<1>2. /\ UNCHANGED <<Fixed, Tables, Redis, tokens, Ghosts>>
      /\ drawn' \subseteq Codes \cup Secrets
  BY DEF Generate2FASecret, Resend2FA, ForgotPassword, AInv, AccountTyped
<1> QED
  BY <1>1, <1>2 DEF AInv, AccountTyped, TwoFactorWhole, Fixed, Tables, Redis, Ghosts

LEMMA TypedKeep ==
    ASSUME AInv, NEW r \in Requests, calm' \in BOOLEAN,
           \/ Enable2FA(r) \/ Login(r) \/ Verify2FA(r) \/ VerifyResetCode(r)
           \/ ResetPassword(r) \/ ChangePassword(r)
    PROVE  AInv'
<1>1. req[r] = Idle /\ UNCHANGED All
  BY DEF Enable2FA, Login, Verify2FA, VerifyResetCode, ResetPassword, ChangePassword, Start
<1>2. \E x : Fit(x) /\ req' = [req EXCEPT ![r] = x]
  <2>1. CASE Enable2FA(r)
    <3>1. PICK m \in Methods : pending[m] # None /\ HoldCode(r, "enable.find", m, pending[m])
      BY <2>1 DEF Enable2FA
    <3>2. pending[m] \in Secrets
      BY <3>1 DEF AInv, AccountTyped
    <3>3. req' = [req EXCEPT ![r] = [Idle EXCEPT !.at = "enable.find", !.method = m, !.code = pending[m]]]
      BY <1>1, <3>1 DEF HoldCode, AInv, AccountTyped
    <3> QED
      BY <3>2, <3>3, BeginsFit
  <2>2. CASE Login(r)
    <3>1. req' = [req EXCEPT ![r] = [Idle EXCEPT !.at = "login.identity"]]
      BY <1>1, <2>2 DEF Login, Go, AInv, AccountTyped
    <3> QED
      BY <3>1, BeginsFit
  <2>3. CASE Verify2FA(r)
    <3>1. PICK m \in Mailed :
             req' = [req EXCEPT ![r] = [Idle EXCEPT !.at = "code.get", !.method = m, !.code = None]]
      BY <1>1, <2>3 DEF Verify2FA, HoldCode, AInv, AccountTyped
    <3> QED
      BY <3>1, BeginsFit
  <2>4. CASE VerifyResetCode(r)
    <3>1. resetCode \in Codes
      BY <2>4 DEF VerifyResetCode, AInv, AccountTyped
    <3>2. req' = [req EXCEPT ![r] = [Idle EXCEPT !.at = "reset.del", !.method = None, !.code = resetCode]]
      BY <1>1, <2>4 DEF VerifyResetCode, HoldCode, AInv, AccountTyped
    <3> QED
      BY <3>1, <3>2, BeginsFit
  <2>5. CASE ResetPassword(r) \/ ChangePassword(r)
    <3>1. PICK p \in Passwords :
             req' = [req EXCEPT ![r] = [Idle EXCEPT !.at = "identity.save", !.hash = p]]
      BY <1>1, <2>5 DEF ResetPassword, ChangePassword, HoldHash, AInv, AccountTyped
    <3> QED
      BY <3>1, BeginsFit
  <2> QED
    BY <2>1, <2>2, <2>3, <2>4, <2>5
<1>3. req' \in [Requests -> ReqType] /\ Fitting'
  BY <1>2, Put
<1> QED
  BY <1>1, <1>3, RequestsOnly

LEMMA BeginKeeps == ASSUME AInv, NEW r \in Requests, Begin(r) PROVE AInv'
<1>1. calm' \in BOOLEAN
  BY DEF Begin, AInv, AccountTyped
<1> QED
  BY <1>1, ReadersKeep, BackupCodesKeep, DrawnKeep, TypedKeep
     DEF Begin, BeginAuth, BeginProfile, BeginSettings

-----------------------------------------------------------------------------
(* Going on.                                                               *)

LEMMA GoesOnKeep ==
    ASSUME AInv, NEW r \in Requests, UNCHANGED calm,
           StoreAvatar(r) \/ FindToEnable(r) \/ FindIdentity(r) \/ CompareLoginCode(r)
    PROVE  AInv'
<1>1. Fit(req[r]) /\ UNCHANGED All
  BY DEF AInv, Fitting, StoreAvatar, FindToEnable, FindIdentity, CompareLoginCode
<1>2. acct \in Account /\ Sound(acct) /\ password \in Passwords
  BY DEF AInv, AccountTyped, TwoFactorWhole
<1>3. \E x : Fit(x) /\ req' = [req EXCEPT ![r] = x]
  <2>1. CASE StoreAvatar(r)
    <3>1. req' = [req EXCEPT ![r] = [req[r] EXCEPT !.at = "user.save"]]
      BY <2>1 DEF StoreAvatar, Go, AInv, AccountTyped
    <3> QED
      BY <3>1, <1>1, <2>1, NextFits DEF StoreAvatar
  <2>2. CASE FindToEnable(r)
    <3>1. req[r].method \in Methods /\ req[r].code \in Secrets
      BY <1>1, <2>2 DEF Fit, FindToEnable
    <3> DEFINE row == WithMethod(acct, req[r].method, req[r].code)
    <3>2. row \in Account /\ Sound(row)
      BY <1>2, <3>1, WithMethodSound
    <3>3. req' = [req EXCEPT ![r] = [req[r] EXCEPT !.at = "user.save", !.row = row]]
      BY <2>2 DEF FindToEnable, SaveNext, AInv, AccountTyped
    <3> QED
      BY <3>2, <3>3, <1>1, <2>2, NextFits DEF FindToEnable
  <2>3. CASE FindIdentity(r)
    <3>1. req' = [req EXCEPT ![r] = [req[r] EXCEPT !.at = "login.save", !.hash = password]]
      BY <2>3 DEF FindIdentity, HoldHash, AInv, AccountTyped
    <3> QED
      BY <3>1, <1>1, <1>2, <2>3, NextFits DEF FindIdentity
  <2>4. CASE CompareLoginCode(r)
    <3> DEFINE code == loginCode[req[r].method]
    <3>1. code \in Codes \cup {None}
      BY <1>1, <2>4 DEF Fit, CompareLoginCode, AInv, AccountTyped
    <3>2. CASE code = None
      BY <2>4, <3>2, BeginsFit DEF CompareLoginCode, Answer
    <3>3. CASE code # None
      <4>1. req' = [req EXCEPT ![r] = [req[r] EXCEPT !.at = "code.del", !.method = req[r].method, !.code = code]]
        BY <2>4, <3>3 DEF CompareLoginCode, HoldCode, AInv, AccountTyped
      <4> QED
        BY <4>1, <3>1, <3>3, <1>1, <2>4, NextFits DEF CompareLoginCode
    <3> QED
      BY <3>2, <3>3
  <2> QED
    BY <2>1, <2>2, <2>3, <2>4
<1>4. req' \in [Requests -> ReqType] /\ Fitting'
  BY <1>3, Put
<1> QED
  BY <1>1, <1>4, RequestsOnly DEF AInv, AccountTyped

LEMMA Accepted ==
    ASSUME AInv, NEW c \in Codes \cup Secrets, Accept(c)
    PROVE  accepted' \in [Codes \cup Secrets -> Nat]
BY DEF Accept, AInv, AccountTyped

LEMMA RowsKeep ==
    ASSUME AInv, NEW r \in Requests, UNCHANGED calm, SaveUser(r) \/ SaveUsed(r)
    PROVE  AInv'
<1>1. Fit(req[r])
  BY DEF AInv, Fitting
<1>2. acct' = req[r].row /\ acct' \in Account /\ TwoFactorWhole'
  BY <1>1 DEF SaveUser, SaveUsed, Fit, ReqType, TwoFactorWhole
<1>3. CASE SaveUser(r)
  <2>1. req' \in [Requests -> ReqType] /\ Fitting'
    <3>1. CASE req[r].code = None
      BY <1>3, <3>1, Answered DEF SaveUser
    <3>2. CASE req[r].code # None
      <4>1. req' = [req EXCEPT ![r] = [req[r] EXCEPT !.at = "pending.del"]]
        BY <1>3, <3>2 DEF SaveUser, Go, AInv, AccountTyped
      <4> QED
        BY <4>1, <1>1, <1>3, <3>2, NextFits, Put DEF SaveUser
    <3> QED
      BY <3>1, <3>2
  <2> QED
    BY <1>2, <1>3, <2>1 DEF SaveUser, AInv, AccountTyped, Fixed, Redis, Ghosts
<1>4. CASE SaveUsed(r)
  <2>1. req' \in [Requests -> ReqType] /\ Fitting'
    BY <1>4, Answered DEF SaveUsed
  <2>2. accepted' \in [Codes \cup Secrets -> Nat]
    BY <1>1, <1>4, Accepted DEF SaveUsed, Fit
  <2> QED
    BY <1>2, <1>4, <2>1, <2>2 DEF SaveUsed, AInv, AccountTyped, Fixed, Redis
<1> QED
  BY <1>3, <1>4

\* The last statement of a request, other than a save of the users row.
LEMMA LastKeep ==
    ASSUME AInv, NEW r \in Requests, UNCHANGED calm,
           \/ SetPending(r) \/ DelPending(r) \/ SetLoginCode(r) \/ DelLoginCode(r)
           \/ SetResetCode(r) \/ DelResetCode(r) \/ SaveLogin(r) \/ SaveIdentity(r)
    PROVE  AInv'
<1>1. req' \in [Requests -> ReqType] /\ Fitting'
  BY Answered DEF SetPending, DelPending, SetLoginCode, DelLoginCode, SetResetCode, DelResetCode,
                  SaveLogin, SaveIdentity
<1>2. Fit(req[r])
  BY DEF AInv, Fitting
<1> USE <1>1, <1>2 DEF AInv, TwoFactorWhole, AccountTyped, Fixed, Tables, Redis, Ghosts
<1>3. CASE SetPending(r)
  <2>1. req[r].method \in Methods /\ req[r].code \in Secrets
    BY <1>3 DEF SetPending, Fit
  <2> QED
    BY <1>3, <2>1 DEF SetPending
<1>4. CASE DelPending(r)
  BY <1>4 DEF DelPending
<1>5. CASE SetLoginCode(r)
  <2>1. req[r].method \in Mailed /\ req[r].code \in Codes
    BY <1>5 DEF SetLoginCode, Fit
  <2> QED
    BY <1>5, <2>1 DEF SetLoginCode
<1>6. CASE DelLoginCode(r)
  <2>1. accepted' \in [Codes \cup Secrets -> Nat]
    BY <1>6, Accepted DEF DelLoginCode, Fit
  <2> QED
    BY <1>6, <2>1 DEF DelLoginCode
<1>7. CASE SetResetCode(r)
  <2>1. req[r].code \in Codes
    BY <1>7 DEF SetResetCode, Fit
  <2> QED
    BY <1>7, <2>1 DEF SetResetCode
<1>8. CASE DelResetCode(r)
  <2>1. req[r].code \in Codes
    BY <1>8 DEF DelResetCode, Fit
  <2>2. accepted' \in [Codes \cup Secrets -> Nat]
    BY <1>8, <2>1, Accepted DEF DelResetCode
  <2> QED
    BY <1>8, <2>1, <2>2 DEF DelResetCode
<1>9. CASE SaveLogin(r) \/ SaveIdentity(r)
  <2>1. req[r].hash \in Passwords
    BY <1>9 DEF SaveLogin, SaveIdentity, Fit
  <2> QED
    BY <1>9, <2>1 DEF SaveLogin, SaveIdentity
<1> QED
  BY <1>3, <1>4, <1>5, <1>6, <1>7, <1>8, <1>9

LEMMA ExpireKeeps == AInv /\ Expire => AInv'
BY DEF Expire, AInv, AccountTyped, TwoFactorWhole, Fitting, Fixed, Tables, Ghosts

LEMMA FailKeeps == ASSUME AInv, NEW r \in Requests, Fail(r) PROVE AInv'
BY Answered, RequestsOnly DEF Fail

LEMMA AccountKeeps == AInv /\ NextAccount => AInv'
BY BeginKeeps, GoesOnKeep, RowsKeep, LastKeep, ExpireKeeps, FailKeeps DEF NextAccount, GoOn

\* The invariant of the account, as part of Settings.
THEOREM AccountInvariant == Spec => []AInv
<1>1. Init => AInv
  BY AccountStart DEF Init
<1>2. AInv /\ [Next]_vars => AInv'
  BY AccountKeeps, AccountRest DEF Next, vars
<1> QED
  BY <1>1, <1>2, PTL DEF Spec

\* The users row, the identity, what is in Redis and what requests hold have their types.
THEOREM AccountIsTyped == Spec => []AccountTyped
<1>1. AInv => AccountTyped
  BY DEF AInv
<1> QED
  BY <1>1, AccountInvariant, PTL

\* For any number of requests that write the users row back over each other, the
\* two-factor setting is never half of one and half of another.
THEOREM TwoFactorStaysWhole == Spec => []TwoFactorWhole
<1>1. AInv => TwoFactorWhole
  BY DEF AInv
<1> QED
  BY <1>1, AccountInvariant, PTL

-----------------------------------------------------------------------------
(* Preferences.                                                            *)

Visit == [at: {"away", "find", "insert", "update"}, row: [Fields -> Choices] \cup {NoRow},
          todo: Changes, done: Changes]

\* A visit under way holds a row; without overlaps it is alone, and the row is what was
\* saved with the changes that it is going to save.
UnderWay(v) ==
    visit[v] # Away =>
        /\ visit[v].row \in [Fields -> Choices]
        /\ apart => /\ visit[v].row = Over(visit[v].done, saved)
                    /\ \A w \in Visits \ {v} : visit[w] = Away

PInv ==
    /\ PreferencesTyped /\ PreferencesAsSaved
    /\ apart /\ prefs = NoRow => saved = Default
    /\ \A v \in Visits : UnderWay(v)

LEMMA Overs ==
    ASSUME NEW row \in [Fields -> Choices]
    PROVE  /\ \A d \in Changes : Over(d, row) \in [Fields -> Choices]
           /\ Over(Nothing, row) = row
           /\ Nothing \in Changes
BY PreferenceConstants DEF Over, Changes, Nothing

LEMMA VisitsTyped ==
    /\ Away \in Visit
    /\ \A row \in [Fields -> Choices], d, e \in Changes :
          [at |-> "find", row |-> row, todo |-> d, done |-> e] \in Visit
    /\ \A x \in Visit, p \in {"insert", "update"} : [x EXCEPT !.at = p] \in Visit
<1>1. Nothing \in Changes
  BY DEF Changes, Nothing
<1> QED
  BY <1>1 DEF Visit, Away

LEMMA Arrives ==
    ASSUME PInv, NEW v \in Visits, NEW row \in [Fields -> Choices],
           NEW d \in Changes, NEW e \in Changes, Arrive(v, row, d, e),
           apart => row = Over(e, saved)
    PROVE  PInv'
<1> DEFINE new == [at |-> "find", row |-> row, todo |-> d, done |-> e]
<1>1. new \in Visit /\ new # Away /\ new.row = row /\ new.done = e
  BY VisitsTyped DEF Away
<1>2. visit \in [Visits -> Visit]
  BY DEF PInv, PreferencesTyped, Visit
<1>3. visit' = [visit EXCEPT ![v] = new] /\ UNCHANGED <<prefs, saved>>
      /\ apart' = (apart /\ \A w \in Visits \ {v} : visit[w] = Away)
  BY DEF Arrive
<1> HIDE DEF new
<1>4. PreferencesTyped' /\ PreferencesAsSaved'
  <2>1. visit' \in [Visits -> Visit]
    BY <1>1, <1>2, <1>3
  <2> QED
    BY <2>1, <1>3 DEF PInv, PreferencesTyped, PreferencesAsSaved, Visit
<1>5. ASSUME NEW w \in Visits PROVE UnderWay(w)'
  BY <1>1, <1>2, <1>3 DEF PInv, UnderWay
<1> QED
  BY <1>3, <1>4, <1>5 DEF PInv

LEMMA PreferencesKeep == ASSUME PInv, NEW v \in Visits, NextPreference(v) PROVE PInv'
<1>1. visit \in [Visits -> Visit] /\ saved \in [Fields -> Choices] /\ Default \in [Fields -> Choices]
  BY PreferenceConstants DEF PInv, PreferencesTyped, Visit
<1>2. CASE GetPreferences(v)
  BY <1>1, <1>2, Arrives, Overs DEF GetPreferences, PInv
<1>3. CASE UpdatePreferences(v)
  <2>1. PICK d \in Changes \ {Nothing} :
           \/ prefs = NoRow /\ Arrive(v, Default, d, Nothing)
           \/ prefs # NoRow /\ Arrive(v, Over(d, prefs), Nothing, d)
    BY <1>3 DEF UpdatePreferences
  <2>2. CASE prefs = NoRow
    BY <1>1, <2>1, <2>2, Arrives, Overs DEF PInv
  <2>3. CASE prefs # NoRow
    <3>1. prefs \in [Fields -> Choices] /\ (apart => prefs = saved)
      BY <2>3 DEF PInv, PreferencesTyped, PreferencesAsSaved
    <3>2. Over(d, prefs) \in [Fields -> Choices] /\ Nothing \in Changes
      BY <3>1, Overs
    <3> QED
      BY <2>1, <2>3, <3>1, <3>2, Arrives
  <2> QED
    BY <2>2, <2>3
<1>4. CASE FindToSavePreferences(v)
  <2> DEFINE new == [visit[v] EXCEPT !.at = IF prefs = NoRow THEN "insert" ELSE "update"]
  <2>1. /\ new \in Visit /\ new.row = visit[v].row /\ new.done = visit[v].done
        /\ visit[v] # Away /\ visit' = [visit EXCEPT ![v] = new] /\ UNCHANGED <<prefs, saved, apart>>
    <3>1. visit[v] \in Visit /\ visit[v].at = "find" /\ UNCHANGED <<prefs, saved, apart>>
          /\ visit' = [visit EXCEPT ![v].at = IF prefs = NoRow THEN "insert" ELSE "update"]
      BY <1>1, <1>4 DEF FindToSavePreferences
    <3>2. new \in Visit /\ new.row = visit[v].row /\ new.done = visit[v].done
      BY <3>1, VisitsTyped DEF Visit
    <3>3. visit[v] # Away
      BY <3>1 DEF Away
    <3>4. visit' = [visit EXCEPT ![v] = new]
      BY <1>1, <3>1
    <3> QED
      BY <3>1, <3>2, <3>3, <3>4
  <2> HIDE DEF new
  <2>2. visit' \in [Visits -> Visit]
    BY <1>1, <2>1
  <2>3. ASSUME NEW w \in Visits PROVE UnderWay(w)'
    BY <1>1, <2>1 DEF PInv, UnderWay
  <2> QED
    BY <2>1, <2>2, <2>3 DEF PInv, PreferencesTyped, PreferencesAsSaved, Visit
<1>5. CASE SavePreferences(v)
  <2> DEFINE row == visit[v].row
             todo == visit[v].todo
             new == IF todo = Nothing THEN Away
                    ELSE [at |-> "find", row |-> Over(todo, row), todo |-> Nothing, done |-> todo]
  <2>1. visit[v] # Away /\ row \in [Fields -> Choices] /\ todo \in Changes /\ visit[v].done \in Changes
    BY <1>1, <1>5 DEF SavePreferences, PInv, UnderWay, Away, Visit
  <2>2. /\ visit' = [visit EXCEPT ![v] = new]
        /\ prefs' = row /\ saved' = Over(visit[v].done, saved) /\ UNCHANGED apart
    BY <1>1, <1>5 DEF SavePreferences, Visit
  <2>3. new \in Visit
    <3>1. Over(todo, row) \in [Fields -> Choices] /\ Nothing \in Changes
      BY <2>1, Overs
    <3>2. [at |-> "find", row |-> Over(todo, row), todo |-> Nothing, done |-> todo] \in Visit
      BY <2>1, <3>1, VisitsTyped
    <3> QED
      BY <3>2, VisitsTyped
  <2>4. saved' \in [Fields -> Choices]
    BY <1>1, <2>1, <2>2, Overs
  <2>5. apart => saved' = row /\ \A w \in Visits \ {v} : visit[w] = Away
    BY <2>1, <2>2 DEF PInv, UnderWay
  <2>6. row # NoRow
    BY <2>1, PreferenceConstants
  <2>7. UnderWay(v)'
    <3>1. visit'[v] = new
      BY <1>1, <2>2
    <3>2. CASE todo = Nothing
      BY <3>1, <3>2 DEF UnderWay
    <3>3. CASE todo # Nothing
      <4>1. visit'[v].row = Over(todo, row) /\ visit'[v].done = todo
        BY <3>1, <3>3
      <4>2. Over(todo, row) \in [Fields -> Choices]
        BY <2>1, Overs
      <4>3. apart' => \A w \in Visits \ {v} : visit'[w] = Away
        BY <1>1, <2>2, <2>5
      <4> QED
        BY <4>1, <4>2, <4>3, <2>2, <2>5 DEF UnderWay
    <3> QED
      BY <3>2, <3>3
  <2>8. ASSUME NEW w \in Visits, w # v PROVE UnderWay(w)'
    BY <1>1, <2>2, <2>5, <2>8 DEF PInv, UnderWay
  <2>9. visit' \in [Visits -> Visit]
    BY <1>1, <2>2, <2>3
  <2> HIDE DEF new
  <2> QED
    BY <2>1, <2>2, <2>4, <2>5, <2>6, <2>7, <2>8, <2>9 DEF PInv, PreferencesTyped, PreferencesAsSaved, Visit
<1>6. CASE LeavePreferences(v)
  <2>1. visit' = [visit EXCEPT ![v] = Away] /\ UNCHANGED <<prefs, saved, apart>>
    BY <1>6 DEF LeavePreferences
  <2>2. visit' \in [Visits -> Visit]
    BY <1>1, <2>1, VisitsTyped
  <2>3. ASSUME NEW w \in Visits PROVE UnderWay(w)'
    BY <1>1, <2>1 DEF PInv, UnderWay
  <2> QED
    BY <2>1, <2>2, <2>3 DEF PInv, PreferencesTyped, PreferencesAsSaved, Visit
<1> QED
  BY <1>2, <1>3, <1>4, <1>5, <1>6 DEF NextPreference

\* The invariant of the preferences, as part of Settings.
THEOREM PreferencesInvariant == Spec => []PInv
<1>1. Init => PInv
  <2> SUFFICES ASSUME Init PROVE PInv
    OBVIOUS
  <2>1. PreferencesTyped
    BY VisitsTyped, PreferenceConstants DEF Init, InitPreferences, PreferencesTyped, Visit
  <2> QED
    BY <2>1 DEF Init, InitPreferences, PInv, PreferencesAsSaved, UnderWay
<1>2. PInv /\ [Next]_vars => PInv'
  <2>1. PInv /\ UNCHANGED prefVars => PInv'
    BY DEF prefVars, PInv, PreferencesTyped, PreferencesAsSaved, UnderWay
  <2> QED
    BY <2>1, PreferencesKeep DEF Next, vars
<1> QED
  BY <1>1, <1>2, PTL DEF Spec

\* The row of preferences and the requests about it have their types.
THEOREM PreferencesAreTyped == Spec => []PreferencesTyped
<1>1. PInv => PreferencesTyped
  BY DEF PInv
<1> QED
  BY <1>1, PreferencesInvariant, PTL

\* For any fields, values and requests that do not overlap, each preference is what was
\* last saved for it, though a row is made on first use and written whole.
THEOREM PreferencesStayAsSaved == Spec => []PreferencesAsSaved
<1>1. PInv => PreferencesAsSaved
  BY DEF PInv
<1> QED
  BY <1>1, PreferencesInvariant, PTL

-----------------------------------------------------------------------------
(* How often a code is accepted.                                           *)

\* A request changes its own record only.
LEMMA Steps ==
    ASSUME AInv, NEW r \in Requests, Begin(r) \/ GoOn(r) \/ Fail(r)
    PROVE  \A q \in Requests \ {r} : req'[q] = req[q]
<1>1. req \in [Requests -> ReqType]
  BY DEF AInv, AccountTyped
<1>2. CASE Begin(r)
  BY <1>1, <1>2
     DEF Begin, BeginAuth, BeginProfile, BeginSettings, VerifyEmail, Login, Resend2FA, Verify2FA,
         VerifyBackupCode, ForgotPassword, VerifyResetCode, ResetPassword, UpdateProfile, UploadAvatar,
         ChangePassword, Generate2FASecret, Enable2FA, Disable2FA, Disable2FAMethod,
         RegenerateBackupCodes, SaveNext, HoldCode, HoldHash, Go
<1>3. CASE GoOn(r)
  BY <1>1, <1>3
     DEF GoOn, StoreAvatar, SaveUser, SaveUsed, SetPending, FindToEnable, DelPending, FindIdentity,
         SaveLogin, SaveIdentity, SetLoginCode, CompareLoginCode, DelLoginCode, SetResetCode,
         DelResetCode, SaveNext, HoldCode, HoldHash, Go, Answer
<1>4. CASE Fail(r)
  BY <1>1, <1>4 DEF Fail, Answer
<1> QED
  BY <1>2, <1>3, <1>4

LEMMA BeginsIdle == ASSUME NEW r \in Requests, Begin(r) PROVE req[r] = Idle
BY DEF Begin, BeginAuth, BeginProfile, BeginSettings, VerifyEmail, Login, Resend2FA, Verify2FA,
       VerifyBackupCode, ForgotPassword, VerifyResetCode, ResetPassword, UpdateProfile, UploadAvatar,
       ChangePassword, Generate2FASecret, Enable2FA, Disable2FA, Disable2FAMethod,
       RegenerateBackupCodes, Start

\* A request is about to store c in Redis; it has compared c and goes on to delete its key.
Sends(x, c) == x.at \in {"code.set", "reset.set"} /\ x.code = c
Uses(x, c)  == x.at \in {"code.del", "reset.del"} /\ x.code = c
Users(c)    == {r \in Requests : Uses(req[r], c)}
Alive(c)    == (\E m \in Mailed : loginCode[m] = c) \/ resetCode = c \/ \E r \in Requests : Sends(req[r], c)

\* A code is in one place, and whoever uses it deletes it there.
OneHome(c) ==
    /\ c \notin drawn => ~Alive(c) /\ Users(c) = {} /\ accepted[c] = 0
    /\ \A m, n \in Mailed : loginCode[m] = c /\ loginCode[n] = c => m = n
    /\ resetCode = c => \A m \in Mailed : loginCode[m] # c
    /\ \A r \in Requests : Sends(req[r], c) =>
          /\ resetCode # c /\ \A m \in Mailed : loginCode[m] # c
          /\ \A q \in Requests \ {r} : ~Sends(req[q], c)
    /\ \A r \in Requests : Uses(req[r], c) =>
          /\ \A q \in Requests : ~Sends(req[q], c)
          /\ req[r].at = "code.del"  => resetCode # c /\ \A m \in Mailed \ {req[r].method} : loginCode[m] # c
          /\ req[r].at = "reset.del" => \A m \in Mailed : loginCode[m] # c

\* Once it has been used it is in no place, so only those who use it already can still be accepted.
Counted(c) ==
    /\ Alive(c) => accepted[c] = 0
    /\ accepted[c] + Cardinality(Users(c)) <= Cardinality(Requests)

CodeInv == \A c \in Codes : OneHome(c) /\ Counted(c)

LEMMA Cards ==
    /\ Cardinality(Requests) \in Nat
    /\ \A S \in SUBSET Requests : Cardinality(S) \in Nat /\ Cardinality(S) <= Cardinality(Requests)
    /\ \A S \in SUBSET Requests : \A T \in SUBSET S : Cardinality(T) <= Cardinality(S)
    /\ \A S \in SUBSET Requests : \A r \in S : Cardinality(S \ {r}) = Cardinality(S) - 1
<1>1. IsFiniteSet(Requests)
  BY CredentialConstants
<1>2. \A S \in SUBSET Requests : IsFiniteSet(S)
  BY <1>1, FS_Subset
<1> QED
  BY <1>1, <1>2, FS_CardinalityType, FS_Subset, FS_RemoveElement

\* A code that a step does not bring anywhere and that nobody begins to use.
LEMMA CodeFades ==
    ASSUME AInv, NEW c \in Codes, OneHome(c), Counted(c),
           Alive(c)' => Alive(c), accepted'[c] = accepted[c], Users(c)' \subseteq Users(c)
    PROVE  Counted(c)'
<1>1. Users(c) \in SUBSET Requests /\ accepted[c] \in Nat
  BY DEF Users, AInv, AccountTyped
<1>2. Cardinality(Users(c)') <= Cardinality(Users(c)) /\ Cardinality(Users(c)') \in Nat
      /\ Cardinality(Users(c)) \in Nat /\ Cardinality(Requests) \in Nat
  BY <1>1, Cards
<1> QED
  BY <1>1, <1>2 DEF Counted

\* A code that is found in its place.
LEMMA CodeFound ==
    ASSUME AInv, NEW c \in Codes, Counted(c), Alive(c), accepted'[c] = accepted[c]
    PROVE  Counted(c)'
<1>1. accepted'[c] = 0
  BY DEF Counted
<1>2. Users(c)' \in SUBSET Requests
  BY DEF Users
<1>3. Cardinality(Users(c)') \in Nat /\ Cardinality(Requests) \in Nat
      /\ Cardinality(Users(c)') <= Cardinality(Requests)
  BY <1>2, Cards
<1> QED
  BY <1>1, <1>3 DEF Counted

\* A code that is accepted: its place is emptied, and it has one user less.
LEMMA CodeAccepted ==
    ASSUME AInv, NEW c \in Codes, Counted(c), ~Alive(c)',
           NEW r \in Users(c), Users(c)' = Users(c) \ {r}, Accept(c)
    PROVE  Counted(c)'
<1>1. Users(c) \in SUBSET Requests /\ accepted[c] \in Nat
  BY DEF Users, AInv, AccountTyped
<1>2. Cardinality(Users(c)') = Cardinality(Users(c)) - 1 /\ Cardinality(Requests) \in Nat
      /\ Cardinality(Users(c)) \in Nat
  BY <1>1, Cards
<1>3. accepted'[c] = accepted[c] \/ accepted'[c] = accepted[c] + 1
  BY DEF Accept, AInv, AccountTyped
<1> QED
  BY <1>1, <1>2, <1>3 DEF Counted

\* Nothing new is sent or used: keys may be emptied, and requests end.
LEMMA CodesRest ==
    ASSUME AInv, CodeInv, drawn \subseteq drawn',
           \A c \in Codes : accepted'[c] = accepted[c],
           \A m \in Mailed : loginCode'[m] \in {loginCode[m], None},
           resetCode' \in {resetCode, None},
           \A q \in Requests : \A c \in Codes :
               /\ Sends(req'[q], c) => Sends(req[q], c)
               /\ Uses(req'[q], c) => Uses(req[q], c) /\ req'[q] = req[q]
    PROVE  CodeInv'
<1> SUFFICES ASSUME NEW c \in Codes PROVE OneHome(c)' /\ Counted(c)'
  BY DEF CodeInv
<1>1. OneHome(c) /\ Counted(c) /\ c # None
  BY CredentialConstants DEF CodeInv
<1>2. Alive(c)' => Alive(c)
  BY <1>1 DEF Alive
<1>3. Users(c)' \subseteq Users(c)
  BY DEF Users
<1>4. Counted(c)'
  BY <1>1, <1>2, <1>3, CodeFades
<1>5. OneHome(c)'
  <2>1. c \notin drawn' => ~Alive(c)' /\ Users(c)' = {} /\ accepted'[c] = 0
    BY <1>1, <1>2, <1>3 DEF OneHome
  <2>2. \A m \in Mailed : loginCode'[m] = c => loginCode[m] = c
    BY <1>1
  <2>3. resetCode' = c => resetCode = c
    BY <1>1
  <2>4. \A r \in Requests : Uses(req'[r], c) => Uses(req[r], c) /\ req'[r] = req[r]
    OBVIOUS
  <2>5. \A r \in Requests : Sends(req'[r], c) => Sends(req[r], c)
    OBVIOUS
  <2> QED
    BY <1>1, <2>1, <2>2, <2>3, <2>4, <2>5 DEF OneHome
<1> QED
  BY <1>4, <1>5

\* A fresh code is drawn, to be sent.
LEMMA CodeDrawn ==
    ASSUME AInv, CodeInv, NEW r \in Requests, NEW c \in Codes \ drawn,
           req[r] = Idle, \A q \in Requests \ {r} : req'[q] = req[q],
           req'[r].at \in {"code.set", "reset.set"}, req'[r].code = c,
           drawn' = drawn \cup {c}, UNCHANGED <<loginCode, resetCode, accepted>>
    PROVE  CodeInv'
<1> SUFFICES ASSUME NEW d \in Codes PROVE OneHome(d)' /\ Counted(d)'
  BY DEF CodeInv
<1>1. OneHome(d) /\ Counted(d)
  BY DEF CodeInv
<1>2. /\ \A q \in Requests : Uses(req'[q], d) <=> Uses(req[q], d) /\ q # r
      /\ \A q \in Requests \ {r} : Sends(req'[q], d) <=> Sends(req[q], d)
      /\ Sends(req'[r], d) <=> d = c
      /\ ~Sends(req[r], d) /\ ~Uses(req[r], d)
  BY DEF Uses, Sends, Idle
<1>3. Users(d)' = Users(d)
  BY <1>2 DEF Users
<1>4. CASE d = c
  <2>1. ~Alive(c) /\ Users(c) = {} /\ accepted[c] = 0 /\ accepted'[c] = 0
    BY <1>1, <1>4 DEF OneHome
  <2>2. Cardinality({}) = 0 /\ Cardinality(Requests) \in Nat
    BY Cards, FS_EmptySet
  <2>3. Counted(c)'
    <3>1. Users(c)' = {}
      BY <1>2, <1>4, <2>1 DEF Users
    <3> QED
      BY <2>1, <2>2, <3>1 DEF Counted
  <2>4. OneHome(c)'
    BY <1>2, <1>3, <1>4, <2>1 DEF OneHome, Alive, Users
  <2> QED
    BY <1>4, <2>3, <2>4
<1>5. CASE d # c
  <2>1. Alive(d)' <=> Alive(d)
    BY <1>2, <1>5 DEF Alive
  <2>2. OneHome(d)'
    BY <1>1, <1>2, <1>3, <1>5, <2>1 DEF OneHome
  <2>3. Counted(d)'
    BY <1>1, <1>3, <2>1, CodeFades
  <2> QED
    BY <2>2, <2>3
<1> QED
  BY <1>4, <1>5

\* The code that was drawn arrives at its place.
LEMMA CodeSet ==
    ASSUME AInv, CodeInv, UNCHANGED <<drawn, accepted>>, NEW r \in Requests,
           \A q \in Requests \ {r} : req'[q] = req[q], req'[r] = Idle,
           \/ /\ req[r].at = "code.set" /\ req[r].method \in Mailed /\ UNCHANGED resetCode
              /\ loginCode' = [loginCode EXCEPT ![req[r].method] = req[r].code]
           \/ req[r].at = "reset.set" /\ resetCode' = req[r].code /\ UNCHANGED loginCode
    PROVE  CodeInv'
<1> SUFFICES ASSUME NEW c \in Codes PROVE OneHome(c)' /\ Counted(c)'
  BY DEF CodeInv
<1>1. OneHome(c) /\ Counted(c) /\ loginCode \in [Mailed -> Codes \cup {None}]
  BY DEF CodeInv, AInv, AccountTyped
<1>2. /\ \A q \in Requests : Uses(req'[q], c) <=> Uses(req[q], c)
      /\ \A q \in Requests : Sends(req'[q], c) <=> Sends(req[q], c) /\ q # r
      /\ \A q \in Requests : Uses(req[q], c) => q # r /\ req'[q] = req[q]
  BY DEF Uses, Sends, Idle
<1>3. Users(c)' = Users(c)
  BY <1>2 DEF Users
<1>4. CASE req[r].code = c
  <2>1. Sends(req[r], c)
    BY <1>4 DEF Sends
  <2>2. Alive(c)
    BY <2>1 DEF Alive
  <2>3. OneHome(c)'
    BY <1>1, <1>2, <1>3, <1>4, <2>1, <2>2 DEF OneHome
  <2> QED
    BY <1>1, <1>3, <2>2, <2>3, CodeFades
<1>5. CASE req[r].code # c
  <2>1. /\ ~Sends(req[r], c)
        /\ \A m \in Mailed : loginCode'[m] = c => loginCode[m] = c
        /\ resetCode' = c => resetCode = c
    BY <1>1, <1>5 DEF Sends
  <2>2. Alive(c)' => Alive(c)
    BY <1>2, <2>1 DEF Alive
  <2>3. OneHome(c)'
    BY <1>1, <1>2, <1>3, <2>1, <2>2 DEF OneHome
  <2> QED
    BY <1>1, <1>3, <2>2, <2>3, CodeFades
<1> QED
  BY <1>4, <1>5

\* A request compares the code that it finds.
LEMMA CodeRead ==
    ASSUME AInv, CodeInv, UNCHANGED <<drawn, accepted, loginCode, resetCode>>,
           NEW r \in Requests, req[r].at \in {"idle", "code.get"},
           \A q \in Requests \ {r} : req'[q] = req[q],
           \/ /\ req'[r].at = "code.del" /\ req'[r].method \in Mailed
              /\ req'[r].code = loginCode[req'[r].method]
           \/ req'[r].at = "reset.del" /\ req'[r].code = resetCode
    PROVE  CodeInv'
<1> SUFFICES ASSUME NEW c \in Codes PROVE OneHome(c)' /\ Counted(c)'
  BY DEF CodeInv
<1>1. OneHome(c) /\ Counted(c)
  BY DEF CodeInv
<1>2. /\ \A q \in Requests : Sends(req'[q], c) <=> Sends(req[q], c)
      /\ ~Sends(req[r], c) /\ ~Uses(req[r], c)
      /\ Uses(req'[r], c) <=> req'[r].code = c
      /\ \A q \in Requests \ {r} : Uses(req'[q], c) <=> Uses(req[q], c)
  BY DEF Uses, Sends
<1>3. Alive(c)' <=> Alive(c)
  BY <1>2 DEF Alive
<1>4. CASE req'[r].code = c
  <2>1. Alive(c)
    BY <1>4 DEF Alive
  <2>2. c \in drawn'
    BY <1>1, <2>1 DEF OneHome
  <2>3. ASSUME NEW q \in Requests PROVE ~Sends(req'[q], c)
    BY <1>1, <1>2, <1>4 DEF OneHome
  <2>4. OneHome(c)'
    BY <1>1, <1>2, <1>4, <2>2, <2>3 DEF OneHome
  <2> QED
    BY <1>1, <2>1, <2>4, CodeFound
<1>5. CASE req'[r].code # c
  <2>1. Users(c)' = Users(c)
    BY <1>2, <1>5 DEF Users
  <2>2. OneHome(c)'
    BY <1>1, <1>2, <1>3, <1>5, <2>1 DEF OneHome
  <2> QED
    BY <1>1, <1>3, <2>1, <2>2, CodeFades
<1> QED
  BY <1>4, <1>5

\* It is accepted, and its key deleted.
LEMMA CodeUsed ==
    ASSUME AInv, CodeInv, UNCHANGED drawn, NEW r \in Requests,
           \A q \in Requests \ {r} : req'[q] = req[q], req'[r] = Idle,
           req[r].code \in Codes, Accept(req[r].code),
           \/ /\ req[r].at = "code.del" /\ req[r].method \in Mailed /\ UNCHANGED resetCode
              /\ loginCode' = [loginCode EXCEPT ![req[r].method] = None]
           \/ req[r].at = "reset.del" /\ resetCode' = None /\ UNCHANGED loginCode
    PROVE  CodeInv'
<1> SUFFICES ASSUME NEW c \in Codes PROVE OneHome(c)' /\ Counted(c)'
  BY DEF CodeInv
<1>1. OneHome(c) /\ Counted(c) /\ loginCode \in [Mailed -> Codes \cup {None}] /\ c # None
      /\ accepted \in [Codes \cup Secrets -> Nat]
  BY CredentialConstants DEF CodeInv, AInv, AccountTyped
<1>2. /\ \A q \in Requests : Sends(req'[q], c) <=> Sends(req[q], c)
      /\ \A q \in Requests : Uses(req'[q], c) <=> Uses(req[q], c) /\ q # r
      /\ \A m \in Mailed : loginCode'[m] = c => loginCode[m] = c
      /\ resetCode' = c => resetCode = c
  BY <1>1 DEF Uses, Sends, Idle
<1>3. Users(c)' = Users(c) \ {r}
  BY <1>2 DEF Users
<1>4. Alive(c)' => Alive(c)
  BY <1>2 DEF Alive
<1>5. CASE req[r].code = c
  <2>1. Uses(req[r], c) /\ r \in Users(c)
    BY <1>5 DEF Uses, Users
  <2>2. ~Alive(c)'
    BY <1>1, <1>2, <1>5, <2>1 DEF OneHome, Alive
  <2>3. Counted(c)'
    BY <1>1, <1>3, <1>5, <2>1, <2>2, CodeAccepted
  <2>4. c \in drawn
    BY <1>1, <2>1 DEF OneHome
  <2>5. OneHome(c)'
    BY <1>1, <1>2, <2>4 DEF OneHome
  <2> QED
    BY <2>3, <2>5
<1>6. CASE req[r].code # c
  <2>1. accepted'[c] = accepted[c]
    BY <1>1, <1>6 DEF Accept
  <2>2. Users(c)' \subseteq Users(c)
    BY <1>3
  <2>3. OneHome(c)'
    BY <1>1, <1>2, <1>3, <1>4, <2>1 DEF OneHome
  <2> QED
    BY <1>1, <1>4, <2>1, <2>2, <2>3, CodeFades
<1> QED
  BY <1>5, <1>6

\* A step of a request that has nothing to do with codes.
LEMMA CodesAside ==
    ASSUME AInv, CodeInv, NEW r \in Requests, drawn \subseteq drawn',
           UNCHANGED <<loginCode, resetCode>>, \A c \in Codes : accepted'[c] = accepted[c],
           \A q \in Requests \ {r} : req'[q] = req[q],
           \/ req'[r] = req[r]
           \/ req'[r].at \notin {"code.set", "reset.set", "code.del", "reset.del"}
    PROVE  CodeInv'
<1>1. \A q \in Requests : \A c \in Codes :
         /\ Sends(req'[q], c) => Sends(req[q], c)
         /\ Uses(req'[q], c) => Uses(req[q], c) /\ req'[q] = req[q]
  BY DEF Sends, Uses
<1> QED
  BY <1>1, CodesRest

LEMMA CodeBegins == ASSUME AInv, CodeInv, NEW r \in Requests, Begin(r) PROVE CodeInv'
<1>1. req \in [Requests -> ReqType]
  BY DEF AInv, AccountTyped
<1>2. /\ \A q \in Requests \ {r} : req'[q] = req[q]
      /\ req[r] = Idle
  BY Steps, BeginsIdle
<1>3. \A m, c : \A p \in Places : HoldCode(r, p, m, c) =>
         req'[r].at = p /\ req'[r].method = m /\ req'[r].code = c
  BY <1>1 DEF HoldCode, ReqType
<1>4. CASE VerifyEmail(r) \/ UpdateProfile(r) \/ Disable2FA(r) \/ Disable2FAMethod(r)
           \/ RegenerateBackupCodes(r) \/ VerifyBackupCode(r) \/ UploadAvatar(r) \/ Login(r)
           \/ ResetPassword(r) \/ ChangePassword(r)
  <2>1. UNCHANGED <<loginCode, resetCode, accepted>> /\ drawn \subseteq drawn'
    BY <1>4 DEF VerifyEmail, UpdateProfile, Disable2FA, Disable2FAMethod, RegenerateBackupCodes,
                VerifyBackupCode, UploadAvatar, Login, ResetPassword, ChangePassword, All, Redis, Ghosts
  <2>2. req'[r].at \in {"user.save", "backup.save", "avatar.store", "login.identity", "identity.save"}
    BY <1>1, <1>4 DEF VerifyEmail, UpdateProfile, Disable2FA, Disable2FAMethod, RegenerateBackupCodes,
                      VerifyBackupCode, UploadAvatar, Login, ResetPassword, ChangePassword,
                      SaveNext, HoldHash, Go, ReqType
  <2> QED
    BY <1>2, <2>1, <2>2, CodesAside
<1>5. CASE Generate2FASecret(r) \/ Enable2FA(r) \/ Verify2FA(r)
  <2>1. UNCHANGED <<loginCode, resetCode, accepted>> /\ drawn \subseteq drawn'
    BY <1>5 DEF Generate2FASecret, Enable2FA, Verify2FA, All, Redis, Ghosts
  <2>2. req'[r] = req[r] \/ req'[r].at \in {"pending.set", "enable.find", "code.get"}
    BY <1>3, <1>5 DEF Generate2FASecret, Enable2FA, Verify2FA, Places
  <2> QED
    BY <1>2, <2>1, <2>2, CodesAside
<1>6. CASE Resend2FA(r) \/ ForgotPassword(r)
  <2>1. PICK c \in Codes \ drawn :
           /\ drawn' = drawn \cup {c}
           /\ UNCHANGED <<Redis, Ghosts>>
           /\ \/ UNCHANGED req
              \/ req'[r].at \in {"code.set", "reset.set"} /\ req'[r].code = c
    BY <1>3, <1>6 DEF Resend2FA, ForgotPassword, Places
  <2>2. CASE UNCHANGED req
    BY <1>2, <2>1, <2>2, CodesAside DEF Redis, Ghosts
  <2>3. CASE req'[r].at \in {"code.set", "reset.set"} /\ req'[r].code = c
    BY <1>2, <2>1, <2>3, CodeDrawn DEF Redis, Ghosts
  <2> QED
    BY <2>1, <2>2, <2>3
<1>7. CASE VerifyResetCode(r)
  <2>1. req'[r].at = "reset.del" /\ req'[r].code = resetCode
    BY <1>3, <1>7 DEF VerifyResetCode, Places
  <2> QED
    BY <1>2, <1>7, <2>1, CodeRead DEF VerifyResetCode, All, Redis, Ghosts, Idle
<1> QED
  BY <1>4, <1>5, <1>6, <1>7 DEF Begin, BeginAuth, BeginProfile, BeginSettings

LEMMA CodeGoesOn == ASSUME AInv, CodeInv, NEW r \in Requests, GoOn(r) PROVE CodeInv'
<1>1. req \in [Requests -> ReqType] /\ accepted \in [Codes \cup Secrets -> Nat] /\ Fit(req[r])
  BY DEF AInv, AccountTyped, Fitting
<1>2. (\A q \in Requests \ {r} : req'[q] = req[q])
  BY Steps DEF GoOn
<1>3. Answer(r) => req'[r] = Idle
  BY <1>1 DEF Answer
<1>4. CASE StoreAvatar(r) \/ SaveUser(r) \/ SetPending(r) \/ FindToEnable(r) \/ DelPending(r)
           \/ FindIdentity(r) \/ SaveLogin(r) \/ SaveIdentity(r)
  <2>1. UNCHANGED <<loginCode, resetCode, drawn, accepted>>
    BY <1>4 DEF StoreAvatar, SaveUser, SetPending, FindToEnable, DelPending, FindIdentity, SaveLogin,
                SaveIdentity, All, Redis, Ghosts
  <2>2. req'[r].at \in {"idle", "user.save", "pending.del", "login.save"}
    BY <1>1, <1>3, <1>4 DEF StoreAvatar, SaveUser, SetPending, FindToEnable, DelPending, FindIdentity,
                           SaveLogin, SaveIdentity, SaveNext, HoldHash, Go, Idle, ReqType
  <2> QED
    BY <1>2, <2>1, <2>2, CodesAside
<1>5. CASE SaveUsed(r)
  <2>1. req[r].code \in Secrets
    BY <1>1, <1>5 DEF SaveUsed, Fit
  <2>2. \A c \in Codes : accepted'[c] = accepted[c]
    BY <1>1, <1>5, <2>1, CredentialConstants DEF SaveUsed, Accept
  <2> QED
    BY <1>2, <1>3, <1>5, <2>2, CodesAside DEF SaveUsed, Redis, Idle
<1>6. CASE CompareLoginCode(r)
  <2>1. UNCHANGED <<loginCode, resetCode, drawn, accepted>> /\ req[r].at = "code.get"
    BY <1>6 DEF CompareLoginCode, All, Redis, Ghosts
  <2>2. CASE loginCode[req[r].method] = None
    <3>1. req'[r].at = "idle"
      BY <1>3, <1>6, <2>2 DEF CompareLoginCode, Idle
    <3> QED
      BY <1>2, <2>1, <3>1, CodesAside
  <2>3. CASE loginCode[req[r].method] # None
    <3>1. req'[r].at = "code.del" /\ req'[r].method = req[r].method
          /\ req'[r].code = loginCode[req'[r].method]
      BY <1>1, <1>6, <2>3 DEF CompareLoginCode, HoldCode, ReqType
    <3>2. req[r].method \in Mailed
      BY <1>1, <2>1 DEF Fit
    <3> QED
      BY <1>2, <2>1, <3>1, <3>2, CodeRead
  <2> QED
    BY <2>2, <2>3
<1>7. CASE SetLoginCode(r) \/ SetResetCode(r)
  <2>1. /\ UNCHANGED <<drawn, accepted>> /\ req'[r] = Idle
        /\ \/ /\ req[r].at = "code.set" /\ req[r].method \in Mailed /\ UNCHANGED resetCode
              /\ loginCode' = [loginCode EXCEPT ![req[r].method] = req[r].code]
           \/ req[r].at = "reset.set" /\ resetCode' = req[r].code /\ UNCHANGED loginCode
    BY <1>1, <1>3, <1>7 DEF SetLoginCode, SetResetCode, Ghosts, Fit
  <2> QED
    BY <1>2, <2>1, CodeSet
<1>8. CASE DelLoginCode(r) \/ DelResetCode(r)
  <2>1. /\ UNCHANGED drawn /\ req'[r] = Idle /\ Accept(req[r].code) /\ req[r].code \in Codes
        /\ \/ /\ req[r].at = "code.del" /\ req[r].method \in Mailed /\ UNCHANGED resetCode
              /\ loginCode' = [loginCode EXCEPT ![req[r].method] = None]
           \/ req[r].at = "reset.del" /\ resetCode' = None /\ UNCHANGED loginCode
    BY <1>1, <1>3, <1>8 DEF DelLoginCode, DelResetCode, Fit
  <2> QED
    BY <1>2, <2>1, CodeUsed
<1> QED
  BY <1>4, <1>5, <1>6, <1>7, <1>8 DEF GoOn

LEMMA CodeStays == AInv /\ CodeInv /\ NextAccount => CodeInv'
<1> SUFFICES ASSUME AInv, CodeInv, NextAccount PROVE CodeInv'
  OBVIOUS
<1>1. CASE Expire
  <2>1. /\ UNCHANGED <<req, drawn, accepted>>
        /\ \A m \in Mailed : loginCode'[m] \in {loginCode[m], None}
        /\ resetCode' \in {resetCode, None}
    BY <1>1 DEF Expire, Ghosts, AInv, AccountTyped
  <2> QED
    BY <2>1, CodesRest
<1>2. ASSUME NEW r \in Requests, Fail(r) PROVE CodeInv'
  <2>1. UNCHANGED <<loginCode, resetCode, drawn, accepted>> /\ req'[r] = Idle
    BY <1>2 DEF Fail, Answer, All, Redis, Ghosts, AInv, AccountTyped
  <2> QED
    BY <1>2, <2>1, Steps, CodesAside DEF Idle
<1> QED
  BY <1>1, <1>2, CodeBegins, CodeGoesOn DEF NextAccount

-----------------------------------------------------------------------------
KInv == AInv /\ CodeInv

\* The inductive invariant of the codes that are sent: a code is in one place, and those who
\* use it and those who have had it accepted are no more than the requests.
THEOREM CodesInvariant == Spec => []KInv
<1>1. Init => KInv
  <2> SUFFICES ASSUME Init PROVE KInv
    OBVIOUS
  <2>1. AInv
    BY AccountStart DEF Init
  <2>2. ASSUME NEW c \in Codes PROVE OneHome(c) /\ Counted(c)
    <3>1. Users(c) = {} /\ ~Alive(c) /\ accepted[c] = 0
      BY CredentialConstants DEF Init, InitAccount, Users, Alive, Uses, Sends, Idle
    <3>2. OneHome(c)
      BY <3>1, CredentialConstants DEF Init, InitAccount, OneHome, Uses, Sends, Idle
    <3>3. Cardinality({}) = 0 /\ Cardinality(Requests) \in Nat
      BY Cards, FS_EmptySet
    <3> QED
      BY <3>1, <3>2, <3>3 DEF Counted
  <2> QED
    BY <2>1, <2>2 DEF KInv, CodeInv
<1>2. KInv /\ UNCHANGED account => KInv'
  <2> SUFFICES ASSUME KInv, UNCHANGED account PROVE KInv'
    OBVIOUS
  <2>1. AInv'
    BY AccountRest DEF KInv
  <2>2. CodeInv'
    BY CodesRest DEF KInv, account
  <2> QED
    BY <2>1, <2>2 DEF KInv
<1>3. KInv /\ NextAccount => KInv'
  BY AccountKeeps, CodeStays DEF KInv
<1>4. KInv /\ [Next]_vars => KInv'
  BY <1>2, <1>3 DEF Next, vars
<1> QED
  BY <1>1, <1>4, PTL DEF Spec

\* For any number of requests that race to use a code, it is accepted at most once by each.
THEOREM ReuseIsBounded == Spec => []ReuseBounded
<1>1. KInv => ReuseBounded
  <2> SUFFICES ASSUME KInv, NEW c \in Codes PROVE accepted[c] <= Cardinality(Requests)
    BY DEF ReuseBounded
  <2>1. Users(c) \in SUBSET Requests /\ accepted[c] \in Nat
    BY DEF KInv, AInv, AccountTyped, Users
  <2>2. Cardinality(Users(c)) \in Nat /\ Cardinality(Requests) \in Nat
    BY <2>1, Cards
  <2>3. accepted[c] + Cardinality(Users(c)) <= Cardinality(Requests)
    BY DEF KInv, CodeInv, Counted
  <2> QED
    BY <2>1, <2>2, <2>3
<1> QED
  BY <1>1, CodesInvariant, PTL
=============================================================================
