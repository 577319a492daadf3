---------------------------- MODULE Preferences ----------------------------
(***************************************************************************)
(* The preferences of one user: UserPreferencesService over one row that is *)
(* made when it is first asked for.                                        *)
(*                                                                         *)
(* save looks whether there is a row and writes all of it, by UPDATE or     *)
(* INSERT.  A request that only reads goes through save as well if it has   *)
(* found no row, and then writes the defaults, even over a row that another *)
(* request has made and changed meanwhile.                                 *)
(***************************************************************************)
CONSTANTS
    Visits,      \* requests
    Fields,      \* theme, language, ...
    Choices,     \* values of a field
    Unset,       \* a field that a request leaves alone
    Default,     \* the value of each field in a row just made
    NoRow

ASSUME PreferenceConstants ==
    Unset \notin Choices /\ Default \in [Fields -> Choices] /\ NoRow \notin [Fields -> Choices]

VARIABLES
    prefs,       \* user_preferences: the row, or NoRow
    visit,       \* per request: where it is, the row it saves, what it has still to change
    saved,       \* ghost: the last value that was saved for each field, or its default
    apart        \* ghost: no two requests have overlapped so far

prefVars == <<prefs, visit, saved, apart>>

Changes == [Fields -> Choices \cup {Unset}]
Nothing == [f \in Fields |-> Unset]
Away    == [at |-> "away", row |-> NoRow, todo |-> Nothing, done |-> Nothing]

\* UserPreference.update
Over(d, row) == [f \in Fields |-> IF d[f] = Unset THEN row[f] ELSE d[f]]

-----------------------------------------------------------------------------
Arrive(v, row, todo, done) ==
    /\ visit[v] = Away
    /\ visit' = [visit EXCEPT ![v] = [at |-> "find", row |-> row, todo |-> todo, done |-> done]]
    /\ apart' = (apart /\ \A w \in Visits \ {v} : visit[w] = Away)
    /\ UNCHANGED <<prefs, saved>>

\* If there is a row, it is the answer.
GetPreferences(v) == prefs = NoRow /\ Arrive(v, Default, Nothing, Nothing)

\* A slip: what a request leaves alone goes back to its default.
FromDefaults(v) ==
    \E d \in Changes \ {Nothing} :
        \/ prefs = NoRow /\ Arrive(v, Default, d, Nothing)
        \/ prefs # NoRow /\ Arrive(v, Over(d, Default), Nothing, d)

UpdatePreferences(v) ==
    \E d \in Changes \ {Nothing} :
        \/ prefs = NoRow /\ Arrive(v, Default, d, Nothing)
        \/ prefs # NoRow /\ Arrive(v, Over(d, prefs), Nothing, d)

FindToSavePreferences(v) ==
    /\ visit[v].at = "find"
    /\ visit' = [visit EXCEPT ![v].at = IF prefs = NoRow THEN "insert" ELSE "update"]
    /\ UNCHANGED <<prefs, saved, apart>>

\* After the row is made, the changes are applied to it and it is saved again.
SavePreferences(v) ==
    /\ \/ visit[v].at = "insert" /\ prefs = NoRow
       \/ visit[v].at = "update"
    /\ prefs' = visit[v].row
    /\ saved' = Over(visit[v].done, saved)
    /\ visit' = [visit EXCEPT ![v] =
          IF @.todo = Nothing THEN Away
          ELSE [at |-> "find", row |-> Over(@.todo, @.row), todo |-> Nothing, done |-> @.todo]]
    /\ UNCHANGED apart

\* A statement fails, as an INSERT does on UNIQUE(user_id).
LeavePreferences(v) ==
    /\ visit[v] # Away
    /\ visit' = [visit EXCEPT ![v] = Away]
    /\ UNCHANGED <<prefs, saved, apart>>

InitPreferences ==
    /\ prefs = NoRow
    /\ visit = [v \in Visits |-> Away]
    /\ saved = Default /\ apart = TRUE

NextPreference(v) ==
    \/ GetPreferences(v) \/ UpdatePreferences(v)
    \/ FindToSavePreferences(v) \/ SavePreferences(v) \/ LeavePreferences(v)

-----------------------------------------------------------------------------
(* Properties.                                                             *)

\* The type of the variables.
PreferencesTyped ==
    /\ prefs \in [Fields -> Choices] \cup {NoRow}
    /\ visit \in [Visits -> [at: {"away", "find", "insert", "update"},
                             row: [Fields -> Choices] \cup {NoRow}, todo: Changes, done: Changes]]
    /\ saved \in [Fields -> Choices] /\ apart \in BOOLEAN

\* As long as requests do not overlap, each preference is what was last saved for it, or
\* its default, though the row is written whole and any statement may fail.
PreferencesAsSaved == apart /\ prefs # NoRow => prefs = saved
=============================================================================
