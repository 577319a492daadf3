--------------------------- MODULE MCCredentials ---------------------------
(* Instances of Settings for TLC. *)
EXTENDS Settings, TLC

CONSTANTS r1, r2, c1, c2, s1, s2, p1, p2, app, email, v1, v2

\* What clients call together in one behaviour: setting 2FA up and down; codes and the
\* logins they admit; passwords.
Together ==
    {{"setup", "enable", "disableMethod", "backup"}, {"setup", "enable", "regenerate", "backup"},
     {"setup", "enable", "disable", "regenerate", "profile"}, {"setup", "enable", "verify", "avatar"},
     {"setup", "enable", "resend", "verify2FA"},
     {"forgot", "verifyReset", "reset", "change", "login"}, {"preferences"}}

LightEnglish == [f \in {"theme", "language"} |-> "usual"]

Interchangeable == Permutations(Requests) \cup Permutations(Codes) \cup Permutations(Secrets)
                   \cup Permutations(Passwords) \cup Permutations(Visits)
=============================================================================
