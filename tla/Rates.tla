------------------------------- MODULE Rates -------------------------------
(***************************************************************************)
(* Exchange rates: the daily job of CronScheduler in every process, the     *)
(* endpoint that fetches by hand, and conversions, which look for a rate    *)
(* with one statement after another while the jobs write.                   *)
(*                                                                         *)
(* A rate is abstracted to its being there: what the API and the fallback   *)
(* table give is positive.  A row is never deleted.  The rate of a currency *)
(* in itself, which is stored as well and never looked for, is left out.    *)
(***************************************************************************)
EXTENDS Naturals, FiniteSets

CONSTANTS
    Currencies,
    USD,
    Bases,         \* the currencies that fetchAllRates asks for
    Procs,         \* processes with a scheduler
    ByHand,        \* requests to fetch the rates of one currency
    Conversions    \* requests to convert

ASSUME RateConstants ==
    USD \in Bases /\ Bases \subseteq Currencies /\ Procs \cap ByHand = {}

Pairs == {x \in Currencies \X Currencies : x[1] # x[2]}
Jobs  == Procs \cup ByHand

VARIABLES
    rates,      \* exchange_rates: the pairs that have a row
    running,    \* isRunning of each process
    job,        \* what each job has still to fetch, and to save
    conv        \* what each conversion asks for, and where it is

rateVars == <<rates, running, job, conv>>

NoJob     == [bases |-> {}, base |-> USD, left |-> {}]
Done(j)   == job[j].bases = {} /\ job[j].left = {}
Given(a, b) == <<a, b>> \in rates
\* convert finds a rate if the table stays as it is.
Derivable(a, b) == a = b \/ Given(a, b) \/ Given(b, a) \/ (Given(a, USD) /\ Given(USD, b))

-----------------------------------------------------------------------------
(* start, the check at two o'clock, and runNow                             *)
RunJob(p) ==
    /\ ~running[p]
    /\ running' = [running EXCEPT ![p] = TRUE]
    /\ job' = [job EXCEPT ![p] = [NoJob EXCEPT !.bases = Bases]]
    /\ UNCHANGED <<rates, conv>>

FetchByHand(h) ==
    \E base \in Currencies :
        /\ Done(h)
        /\ job' = [job EXCEPT ![h] = [NoJob EXCEPT !.bases = {base}]]
        /\ UNCHANGED <<rates, running, conv>>

\* A slip: the rows of the base are deleted to make room for the new ones.
ReplaceRates(j) ==
    \E base \in job[j].bases :
        /\ job[j].left = {}
        /\ job' = [job EXCEPT ![j] = [bases |-> @.bases \ {base}, base |-> base, left |-> Currencies \ {base}]]
        /\ rates' = {x \in rates : x[1] # base}
        /\ UNCHANGED <<running, conv>>

\* fetchRatesFromAPI: an error gives the fallback table; an answer may be empty.
FetchRates(j) ==
    \E base \in job[j].bases : \E given \in {{}, Currencies \ {base}} :
        /\ job[j].left = {}
        /\ job' = [job EXCEPT ![j] = [bases |-> @.bases \ {base}, base |-> IF given = {} THEN USD ELSE base, left |-> given]]
        /\ UNCHANGED <<rates, running, conv>>

\* One upsert per rate; one that fails is noted and the next is tried.
SaveRate(j) ==
    \E to \in job[j].left :
        /\ job' = [job EXCEPT ![j].left = @ \ {to},
                              ![j].base = IF job[j].left = {to} THEN USD ELSE @]
        /\ \/ rates' = rates \cup {<<job[j].base, to>>}
           \/ UNCHANGED rates
        /\ UNCHANGED <<running, conv>>

EndJob(p) ==
    /\ running[p] /\ Done(p)
    /\ running' = [running EXCEPT ![p] = FALSE]
    /\ UNCHANGED <<rates, job, conv>>

-----------------------------------------------------------------------------
(* convert: the direct rate, the reverse one, the two by way of USD.       *)
Convert(q) ==
    \E a, b \in Currencies :
        /\ conv[q].at = "none"
        /\ conv' = [conv EXCEPT ![q] = [at |-> IF a = b THEN "found" ELSE "direct", from |-> a, to |-> b,
                                        known |-> Derivable(a, b)]]
        /\ UNCHANGED <<rates, running, job>>

Look(q, place, a, b, found, missing) ==
    /\ conv[q].at = place
    /\ conv' = [conv EXCEPT ![q].at = IF Given(a, b) THEN found ELSE missing]
    /\ UNCHANGED <<rates, running, job>>

FindDirect(q)  == Look(q, "direct", conv[q].from, conv[q].to, "found", "reverse")
FindReverse(q) == Look(q, "reverse", conv[q].to, conv[q].from, "found",
                       IF USD \in {conv[q].from, conv[q].to} THEN "thrown" ELSE "to USD")
\* Both halves are looked up in any case; the second decides nothing without the first.
FindToUSD(q)   == Look(q, "to USD", conv[q].from, USD, "from USD", "thrown")
FindFromUSD(q) == Look(q, "from USD", USD, conv[q].to, "found", "thrown")

-----------------------------------------------------------------------------
InitRates ==
    /\ rates = {}
    /\ running = [p \in Procs |-> FALSE]
    /\ job = [j \in Jobs |-> NoJob]
    /\ conv = [q \in Conversions |-> [at |-> "none", from |-> USD, to |-> USD, known |-> FALSE]]

NextRate ==
    \/ \E p \in Procs : RunJob(p) \/ EndJob(p)
    \/ \E h \in ByHand : FetchByHand(h)
    \/ \E j \in Jobs : FetchRates(j) \/ SaveRate(j)
    \/ \E q \in Conversions :
          Convert(q) \/ FindDirect(q) \/ FindReverse(q) \/ FindToUSD(q) \/ FindFromUSD(q)

-----------------------------------------------------------------------------
(* Properties.                                                             *)

\* The type of the variables.
RatesTyped ==
    /\ rates \subseteq Pairs
    /\ running \in [Procs -> BOOLEAN]
    /\ job \in [Jobs -> [bases: SUBSET Currencies, base: Currencies, left: SUBSET Currencies]]
    /\ conv \in [Conversions -> [at: {"none", "direct", "reverse", "to USD", "from USD", "found", "thrown"},
                                 from: Currencies, to: Currencies, known: BOOLEAN]]

\* convert does not throw if the rate could be derived when it was called, whatever jobs
\* of several processes write between its statements.
RateStaysFound == \A q \in Conversions : conv[q].at = "thrown" => ~conv[q].known
=============================================================================
