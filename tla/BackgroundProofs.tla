-------------------------- MODULE BackgroundProofs --------------------------
(* Proofs about Background: what the promises of KafkaRequestReply keep, that they      *)
(* implement the abstract calls, and that a conversion finds what can be found.         *)
EXTENDS Background, TLAPS

-----------------------------------------------------------------------------
(* Messages.                                                               *)

\* A reply is on its way, or being sent, only for a call whose handler has thrown.
RepliesAreRefusals ==
    /\ \A c \in Calls : replies[c] > 0 => c \in refused
    /\ replying => busy \in refused

\* What a call that has not been sent, or that has been dropped, has none of.
NotYetSent ==
    \A c \in Calls : promise[c] \in {"none", "connecting"} =>
        c \notin sending \cup stored \cup pending \cup dropped
DroppedForGood == dropped \cap pending = {}

MInv == /\ MessagesTyped /\ EntriesAreOpen /\ AnswerIsTheirs
        /\ RepliesAreRefusals /\ NotYetSent /\ DroppedForGood

LEMMA MessagesStart == InitMessages => MInv
<1> SUFFICES ASSUME InitMessages PROVE MInv
  OBVIOUS
<1>1. crashes \in 0 .. MaxCrashes
  BY MessagingConstants DEF InitMessages
<1>2. MessagesTyped
  BY <1>1 DEF InitMessages, MessagesTyped
<1>3. EntriesAreOpen /\ AnswerIsTheirs /\ RepliesAreRefusals /\ NotYetSent /\ DroppedForGood
  BY DEF InitMessages, EntriesAreOpen, RepliesAreRefusals, AnswerIsTheirs, NotYetSent, DroppedForGood
<1> QED
  BY <1>2, <1>3 DEF MInv

\* Nothing of the messages changes.
LEMMA MessagesRest == MInv /\ UNCHANGED messages => MInv'
BY DEF messages, caller, broker, worker, MInv, MessagesTyped, EntriesAreOpen, RepliesAreRefusals, AnswerIsTheirs,
       NotYetSent, DroppedForGood

\* What a step of the caller of c leaves alone.
LEMMA CallerTouches ==
    ASSUME NEW c \in Calls, CallerSteps(c)
    PROVE  UNCHANGED <<routes, stored, topic, offsets, worker>>
BY DEF CallerSteps, Request, Connect, ConnectFails, TimeOut, SendFails, Receive, ReceiveGarbled, broker

LEMMA CallerKeeps ==
    ASSUME MInv, NEW c \in Calls, CallerSteps(c)
    PROVE  MInv'
<1> USE MessagingConstants DEF Records, MInv, MessagesTyped, EntriesAreOpen, RepliesAreRefusals, AnswerIsTheirs,
                               NotYetSent, DroppedForGood
<1>0. UNCHANGED <<routes, stored, topic, offsets, up, busy, replying, handled, crashes, tried, refused>>
  BY CallerTouches DEF worker
<1>1. CASE Request(c)
  <2>1. CASE connected /\ Open(c)
    BY <1>0, <1>1, <2>1 DEF Request, Open
  <2>2. CASE connected /\ OpenUnsendable(c)
    BY <1>0, <1>1, <2>2 DEF Request, OpenUnsendable
  <2>3. CASE ~connected
    BY <1>0, <1>1, <2>3 DEF Request
  <2> QED
    BY <1>1, <2>1, <2>2, <2>3 DEF Request
<1>2. CASE Connect(c)
  <2>1. CASE Open(c)
    BY <1>0, <1>2, <2>1 DEF Connect, Open
  <2>2. CASE OpenUnsendable(c)
    BY <1>0, <1>2, <2>2 DEF Connect, OpenUnsendable
  <2> QED
    BY <1>2, <2>1, <2>2 DEF Connect
<1>3. CASE ConnectFails(c)
  BY <1>0, <1>3 DEF ConnectFails, broker
<1>4. CASE TimeOut(c)
  BY <1>0, <1>4 DEF TimeOut, Settle, broker
<1>5. CASE SendFails(c)
  BY <1>0, <1>5 DEF SendFails, Settle
<1>6. CASE Receive(c)
  <2>1. replies' \in [Calls -> Nat] /\ \A d \in Calls : replies'[d] > 0 => replies[d] > 0
    BY <1>6 DEF Receive
  <2>2. UNCHANGED <<connected, dropped, sending>> /\ replies[c] > 0
    BY <1>6 DEF Receive
  <2>3. CASE c \in pending
    <3>1. promise' = [promise EXCEPT ![c] = "answered"] \/ promise' = promise
      BY <1>6, <2>3 DEF Receive, Settle
    <3>2. timers' = timers \ {c} /\ pending' = pending \ {c} /\ promise'[c] # "open"
      BY <1>6, <2>3 DEF Receive, Settle
    <3>3. promise'[c] \in {"none", "connecting"} => promise' = promise
      BY <3>1
    <3> QED
      BY <1>0, <2>1, <2>2, <3>1, <3>2, <3>3
  <2>4. CASE c \notin pending
    BY <1>0, <1>6, <2>1, <2>2, <2>4 DEF Receive
  <2> QED
    BY <2>3, <2>4
<1>7. CASE ReceiveGarbled(c)
  BY <1>0, <1>7 DEF ReceiveGarbled, broker
<1> QED
  BY <1>1, <1>2, <1>3, <1>4, <1>5, <1>6, <1>7 DEF CallerSteps

LEMMA SenderKeeps ==
    ASSUME MInv, NEW x \in Records,
           (x \in Exports /\ (Publish(x) \/ PublishFails(x))) \/ Store(x) \/ SendReturns(x)
    PROVE  MInv'
<1>1. UNCHANGED <<routes, caller, worker, offsets, replies>>
  BY DEF Publish, PublishFails, Store, SendReturns
<1>2. sending' \subseteq Records /\ stored' \subseteq Records /\ topic' \subseteq Records
  BY DEF Publish, PublishFails, Store, SendReturns, MInv, MessagesTyped, Records
<1>3. (sending' \cup stored') \cap Calls \subseteq sending \cup stored
  BY MessagingConstants DEF Publish, PublishFails, Store, SendReturns
<1> QED
  BY <1>1, <1>2, <1>3 DEF caller, worker, MInv, MessagesTyped, EntriesAreOpen, RepliesAreRefusals, AnswerIsTheirs,
                          NotYetSent, DroppedForGood

LEMMA HandlerKeeps ==
    ASSUME MInv, NEW x \in Records, Take(x) \/ HandlerSteps(x)
    PROVE  MInv'
<1> USE MessagingConstants DEF Records, caller, broker, MInv, MessagesTyped, EntriesAreOpen, RepliesAreRefusals,
                               AnswerIsTheirs, NotYetSent, DroppedForGood
<1>1. CASE Take(x)
  BY <1>1 DEF Take
<1>2. CASE Handle(x)
  BY <1>2 DEF Handle, Resolve
<1>3. CASE x \in Calls /\ HandlerThrows(x)
  BY <1>3 DEF HandlerThrows
<1>4. CASE x \in Calls /\ ReplyError(x)
  <2>1. replies' \in [Calls -> Nat] /\ \A c \in Calls \ {x} : replies'[c] = replies[c]
    BY <1>4 DEF ReplyError
  <2>2. x \in refused /\ UNCHANGED refused
    BY <1>4 DEF ReplyError
  <2>3. RepliesAreRefusals'
    BY <1>4, <2>1, <2>2 DEF ReplyError
  <2>4. MessagesTyped'
    BY <1>4, <2>1 DEF ReplyError, Resolve
  <2> QED
    BY <1>4, <2>3, <2>4 DEF ReplyError
<1> QED
  BY <1>1, <1>2, <1>3, <1>4 DEF HandlerSteps

LEMMA WorkerKeeps ==
    ASSUME MInv, StartWorker \/ CommitOffsets \/ Stop
    PROVE  MInv'
<1>1. UNCHANGED <<routes, caller, sending, stored, replies, tried, refused>>
  BY DEF StartWorker, CommitOffsets, Stop, broker
<1>2. /\ topic' \subseteq topic /\ offsets' \subseteq {"calls", "exports"}
      /\ up' \in BOOLEAN /\ handled' \subseteq Records
      /\ busy' \in {busy, None} /\ (replying' => replying /\ busy' = busy) /\ replying' \in BOOLEAN
      /\ crashes' \in 0 .. MaxCrashes
  <2>1. CASE StartWorker
    BY <2>1 DEF StartWorker, MInv, MessagesTyped
  <2>2. CASE CommitOffsets
    <3>1. {TopicOf(x) : x \in handled} \subseteq {"calls", "exports"}
      BY DEF TopicOf
    <3> QED
      BY <2>2, <3>1 DEF CommitOffsets, MInv, MessagesTyped
  <2>3. CASE Stop
    <3>1. crashes' \in 0 .. MaxCrashes
      <4>1. crashes \in 0 .. MaxCrashes /\ crashes < MaxCrashes /\ crashes' = crashes + 1
        BY <2>3 DEF Stop, MInv, MessagesTyped
      <4> QED
        BY <4>1, MessagingConstants
    <3>2. topic' = topic /\ offsets' = offsets
      BY <2>3 DEF Stop, broker
    <3>3. up' = FALSE /\ busy' = None /\ replying' = FALSE /\ handled' = {}
      BY <2>3 DEF Stop
    <3> QED
      BY <3>1, <3>2, <3>3 DEF MInv, MessagesTyped
  <2> QED
    BY <2>1, <2>2, <2>3
<1> QED
  BY <1>1, <1>2 DEF caller, MInv, MessagesTyped, EntriesAreOpen, RepliesAreRefusals, AnswerIsTheirs,
                    NotYetSent, DroppedForGood

LEMMA MessagesKeep == MInv /\ NextMessage => MInv'
<1> SUFFICES ASSUME MInv, NextMessage PROVE MInv'
  OBVIOUS
<1>1. ASSUME NEW c \in Calls, CallerSteps(c) PROVE MInv'
  BY <1>1, CallerKeeps
<1>2. ASSUME NEW e \in Exports, Publish(e) \/ PublishFails(e) PROVE MInv'
  BY <1>2, SenderKeeps DEF Records
<1>3. ASSUME NEW x \in Records, Store(x) \/ SendReturns(x) PROVE MInv'
  BY <1>3, SenderKeeps
<1>4. ASSUME NEW x \in Records, Take(x) \/ HandlerSteps(x) PROVE MInv'
  BY <1>4, HandlerKeeps
<1> QED
  BY <1>1, <1>2, <1>3, <1>4, WorkerKeeps DEF NextMessage

\* The invariant of the messages, as part of Background.
THEOREM MessagesInvariant == Spec => []MInv
<1>1. Init => MInv
  BY MessagesStart DEF Init
<1>2. MInv /\ [Next]_vars => MInv'
  BY MessagesKeep, MessagesRest DEF Next, vars
<1> QED
  BY <1>1, <1>2, PTL DEF Spec

\* The variables of KafkaRequestReply, the broker and the worker have their types.
THEOREM MessagesAreTyped == Spec => []MessagesTyped
BY MessagesInvariant, PTL DEF MInv

\* For any number of calls, replies and crashes, whoever waits has an entry with its timer
\* unless a reply that is no JSON has taken it, and no entry is left that a reply could find.
THEOREM NothingLeaks == Spec => []EntriesAreOpen
BY MessagesInvariant, PTL DEF MInv

\* A call is answered only if its own handler has thrown, whatever is redelivered, late or lost.
THEOREM AnswersAreTheirs == Spec => []AnswerIsTheirs
BY MessagesInvariant, PTL DEF MInv

-----------------------------------------------------------------------------
(* The calls of the abstract specification.                                *)

LEMMA CallsStart == InitMessages => Abstract!Init
BY DEF InitMessages, Abstract!Init, StageOf

Stages == [c \in Calls |-> StageOf(c)]

\* A step that moves one promise forward, of a call that is not dropped or only to "failed",
\* is a step of the abstract call, or none.
LEMMA PromiseStep ==
    ASSUME MInv, NEW c \in Calls, NEW p, UNCHANGED dropped,
           promise' = [promise EXCEPT ![c] = p],
           \/ promise[c] = "none" /\ p \in {"connecting", "open", "failed"}
           \/ promise[c] = "connecting" /\ p \in {"open", "failed"}
           \/ promise[c] = "open" /\ p = "failed"
           \/ promise[c] = "open" /\ p = "answered" /\ c \notin dropped
    PROVE  Abstract!Next \/ Stages' = Stages
<1> DEFINE s == StageOf(c)'
<1>1. promise'[c] = p /\ \A d \in Calls \ {c} : promise'[d] = promise[d]
  BY DEF MInv, MessagesTyped
<1>2. Stages' = [Stages EXCEPT ![c] = s]
  BY <1>1 DEF Stages, StageOf
<1>3. Stages[c] = StageOf(c)
  BY DEF Stages
<1>4. CASE promise[c] = "none"
  <2>1. Stages[c] = "new" /\ s \in {"waiting", "failed"}
    BY <1>1, <1>3, <1>4 DEF StageOf, MInv, NotYetSent
  <2> QED
    BY <2>1, <1>2 DEF Abstract!Next, Abstract!Made, Abstract!Refused, Abstract!Become, Stages
<1>5. CASE promise[c] \in {"connecting", "open"} /\ p = "open"
  <2>1. Stages[c] = s
    BY <1>1, <1>3, <1>5 DEF StageOf
  <2> QED
    BY <2>1, <1>2 DEF Stages
<1>6. CASE promise[c] \in {"connecting", "open"} /\ p \in {"answered", "failed"}
  <2>1. s = p
    BY <1>1, <1>6 DEF StageOf
  <2>2. Stages[c] = "waiting" \/ (Stages[c] = "dropped" /\ p = "failed")
    BY <1>3, <1>6 DEF StageOf
  <2> QED
    BY <2>1, <2>2, <1>2, <1>6
       DEF Abstract!Next, Abstract!Settled, Abstract!SentInVain, Abstract!Become, Stages
<1> QED
  BY <1>4, <1>5, <1>6

\* A reply that cannot be read drops a call that is waiting.
LEMMA GarbledStep ==
    ASSUME MInv, NEW c \in Calls, ReceiveGarbled(c)
    PROVE  Abstract!Next \/ Stages' = Stages
<1>1. promise[c] = "open" /\ c \notin dropped /\ dropped' = dropped \cup {c} /\ UNCHANGED promise
  BY DEF ReceiveGarbled, MInv, EntriesAreOpen, DroppedForGood
<1>2. Stages' = [Stages EXCEPT ![c] = "dropped"] /\ Stages[c] = "waiting"
  BY <1>1 DEF Stages, StageOf
<1> QED
  BY <1>2 DEF Abstract!Next, Abstract!Dropped, Abstract!Become, Stages

LEMMA CallerStep ==
    ASSUME MInv, NEW c \in Calls, CallerSteps(c)
    PROVE  Abstract!Next \/ Stages' = Stages
<1>1. CASE promise' = promise /\ dropped' = dropped
  BY <1>1 DEF Stages, StageOf
<1>2. CASE Request(c)
  BY <1>2, PromiseStep DEF Request, Open, OpenUnsendable
<1>3. CASE Connect(c)
  BY <1>3, PromiseStep DEF Connect, Open, OpenUnsendable
<1>4. CASE ConnectFails(c)
  BY <1>4, PromiseStep DEF ConnectFails
<1>5. CASE TimeOut(c)
  BY <1>1, <1>5, PromiseStep DEF TimeOut, Settle
<1>6. CASE SendFails(c)
  BY <1>1, <1>6, PromiseStep DEF SendFails, Settle
<1>7. CASE Receive(c)
  <2>1. c \in pending => c \notin dropped
    BY DEF MInv, DroppedForGood
  <2> QED
    BY <1>1, <1>7, <2>1, PromiseStep DEF Receive, Settle
<1> QED
  BY <1>2, <1>3, <1>4, <1>5, <1>6, <1>7, GarbledStep DEF CallerSteps

LEMMA OthersStep ==
    ASSUME UNCHANGED <<promise, dropped>>
    PROVE  Stages' = Stages
BY DEF Stages, StageOf

LEMMA MessageStep == MInv /\ [Next]_vars => [Abstract!Next]_Stages
<1> SUFFICES ASSUME MInv, [Next]_vars PROVE Abstract!Next \/ Stages' = Stages
  OBVIOUS
<1>1. ASSUME NEW c \in Calls, CallerSteps(c) PROVE Abstract!Next \/ Stages' = Stages
  BY <1>1, CallerStep
<1>2. ASSUME NEW e \in Exports, Publish(e) \/ PublishFails(e) PROVE UNCHANGED <<promise, dropped>>
  BY <1>2 DEF Publish, PublishFails, caller
<1>3. ASSUME NEW x \in Records, Store(x) \/ SendReturns(x) \/ Take(x) \/ HandlerSteps(x)
      PROVE  UNCHANGED <<promise, dropped>>
  BY <1>3 DEF Store, SendReturns, HandlerSteps, Take, Handle, HandlerThrows, ReplyError, caller
<1>4. CASE StartWorker \/ CommitOffsets \/ Stop
  BY <1>4, OthersStep DEF StartWorker, CommitOffsets, Stop, caller
<1>5. CASE UNCHANGED messages
  BY <1>5, OthersStep DEF messages, caller
<1> QED
  BY <1>1, <1>2, <1>3, <1>4, <1>5, OthersStep DEF Next, NextMessage, vars

\* KafkaRequestReply with the worker implements the abstract calls, as far as safety goes: a
\* call is settled at most once, though the worker may handle it and reply to it again each
\* time it stops before its commit; a reply that is no JSON drops it, and then only a send
\* that fails after all can settle it.
THEOREM CallsRefine == Spec => Abstract!Safety
<1>1. Init => Abstract!Init
  BY CallsStart DEF Init
<1>2. MInv /\ [Next]_vars => [Abstract!Next]_[c \in Calls |-> StageOf(c)]
  BY MessageStep DEF Stages
<1> QED
  BY <1>1, <1>2, MessagesInvariant, PTL DEF Spec, Abstract!Safety

-----------------------------------------------------------------------------
(* Rates.                                                                  *)

\* What a conversion has still to look for, if there was a rate when it was called: rows are
\* never deleted, so what was there then is there at each of its statements.
Findable(q) ==
    LET a == conv[q].from
        b == conv[q].to
        place == conv[q].at
    IN  conv[q].known =>
            /\ place = "direct" => a # b /\ Derivable(a, b)
            /\ place = "reverse" => Given(b, a) \/ (Given(a, USD) /\ Given(USD, b))
            /\ place = "to USD" => Given(a, USD) /\ Given(USD, b)
            /\ place = "from USD" => Given(USD, b)
            /\ place # "thrown"

\* A job saves no rate of a currency in itself.
Sensible == \A j \in Jobs : job[j].base \notin job[j].left

RInv == RatesTyped /\ Sensible /\ \A q \in Conversions : Findable(q)

JobType == [bases: SUBSET Currencies, base: Currencies, left: SUBSET Currencies]

LEMMA NoJobType == NoJob \in JobType /\ [NoJob EXCEPT !.bases = Bases] \in JobType
BY RateConstants DEF NoJob, JobType

LEMMA RatesStart == InitRates => RInv
<1> SUFFICES ASSUME InitRates PROVE RInv
  OBVIOUS
<1>1. rates = {} /\ running \in [Procs -> BOOLEAN] /\ job \in [Jobs -> JobType]
  BY NoJobType DEF InitRates
<1>2. Sensible
  BY DEF InitRates, Sensible, NoJob
<1>3. conv \in [Conversions -> [at: {"none"}, from: Currencies, to: Currencies, known: {FALSE}]]
  BY RateConstants DEF InitRates
<1>4. \A q \in Conversions : Findable(q)
  BY <1>3 DEF Findable
<1> QED
  BY <1>1, <1>2, <1>3, <1>4 DEF RInv, RatesTyped, JobType

LEMMA RatesRest == RInv /\ UNCHANGED rateVars => RInv'
BY DEF rateVars, RInv, RatesTyped, Sensible, Findable, Derivable, Given

\* What was given stays given, so a step of a job takes nothing from a conversion.
LEMMA FindableStays ==
    ASSUME RInv, rates \subseteq rates', UNCHANGED conv
    PROVE  \A q \in Conversions : Findable(q)'
BY DEF RInv, Findable, Derivable, Given

LEMMA JobKeeps ==
    ASSUME RInv, NEW j \in Jobs, FetchRates(j) \/ SaveRate(j)
    PROVE  RInv'
<1>1. CASE FetchRates(j)
  <2>1. PICK base \in job[j].bases : \E given \in {{}, Currencies \ {base}} :
            job' = [job EXCEPT ![j] = [bases |-> job[j].bases \ {base}, base |-> IF given = {} THEN USD ELSE base, left |-> given]]
    BY <1>1 DEF FetchRates
  <2>2. UNCHANGED <<rates, running, conv>>
    BY <1>1 DEF FetchRates
  <2>3. PICK k \in JobType : k.base \notin k.left /\ job' = [job EXCEPT ![j] = k]
    BY <2>1, RateConstants DEF RInv, RatesTyped, JobType
  <2>4. RatesTyped'
    BY <2>2, <2>3 DEF RInv, RatesTyped, JobType
  <2>5. Sensible'
    BY <2>3 DEF RInv, RatesTyped, Sensible
  <2> QED
    BY <2>2, <2>4, <2>5, FindableStays DEF RInv
<1>2. CASE SaveRate(j)
  <2>1. PICK to \in job[j].left :
            /\ job' = [job EXCEPT ![j].left = job[j].left \ {to},
                                 ![j].base = IF job[j].left = {to} THEN USD ELSE job[j].base]
            /\ rates' \in {rates, rates \cup {<<job[j].base, to>>}}
            /\ UNCHANGED <<running, conv>>
    BY <1>2 DEF SaveRate
  <2>2. <<job[j].base, to>> \in Pairs
    BY <2>1 DEF RInv, RatesTyped, Sensible, Pairs
  <2>6. PICK k \in JobType : job' = [job EXCEPT ![j] = k]
    <3> DEFINE k == [job[j] EXCEPT !.left = job[j].left \ {to}, !.base = IF job[j].left = {to} THEN USD ELSE job[j].base]
    <3>1. job[j] \in JobType
      BY DEF RInv, RatesTyped, JobType
    <3>2. k \in JobType
      BY <3>1, RateConstants DEF JobType
    <3>3. job' = [job EXCEPT ![j] = k]
      BY <2>1 DEF RInv, RatesTyped
    <3> QED
      BY <3>2, <3>3
  <2>7. rates' \subseteq Pairs
    BY <2>1, <2>2 DEF RInv, RatesTyped
  <2>8. job \in [Jobs -> JobType]
    BY DEF RInv, RatesTyped, JobType
  <2>9. job' \in [Jobs -> JobType]
    BY <2>6, <2>8
  <2>3. RatesTyped'
    BY <2>1, <2>7, <2>9 DEF RInv, RatesTyped, JobType
  <2>4. Sensible'
    BY <2>1 DEF RInv, RatesTyped, Sensible
  <2>5. rates \subseteq rates'
    BY <2>1
  <2> QED
    BY <2>1, <2>3, <2>4, <2>5, FindableStays DEF RInv
<1> QED
  BY <1>1, <1>2

LEMMA ScheduleKeeps ==
    ASSUME RInv, NEW p \in Jobs, (p \in Procs /\ (RunJob(p) \/ EndJob(p))) \/ (p \in ByHand /\ FetchByHand(p))
    PROVE  RInv'
<1>1. UNCHANGED <<rates, conv>>
  BY DEF RunJob, EndJob, FetchByHand
<1>4. \A base \in Currencies : [NoJob EXCEPT !.bases = {base}] \in JobType
  BY NoJobType DEF JobType, NoJob
<1> DEFINE Typed(j, n) == j \in [Jobs -> JobType] /\ n \in [Procs -> BOOLEAN]
<1>6. Typed(job, running)
  BY DEF RInv, RatesTyped, JobType
<1>7. ASSUME p \in Procs, RunJob(p) PROVE Typed(job', running')
  BY <1>6, <1>7, NoJobType DEF RunJob
<1>8. ASSUME p \in Procs, EndJob(p) PROVE Typed(job', running')
  BY <1>6, <1>8 DEF EndJob
<1>9. ASSUME p \in ByHand, FetchByHand(p) PROVE Typed(job', running')
  <2>1. PICK base \in Currencies : job' = [job EXCEPT ![p] = [NoJob EXCEPT !.bases = {base}]]
    BY <1>9 DEF FetchByHand
  <2>2. running' = running
    BY <1>9 DEF FetchByHand
  <2> QED
    BY <1>4, <1>6, <2>1, <2>2
<1>5. Typed(job', running')
  BY <1>7, <1>8, <1>9
<1>2. RatesTyped'
  BY <1>1, <1>5 DEF RInv, RatesTyped, JobType
<1>3. Sensible'
  BY RateConstants DEF RunJob, EndJob, FetchByHand, NoJob, RInv, RatesTyped, Sensible
<1> QED
  BY <1>1, <1>2, <1>3, FindableStays DEF RInv

\* A step of one conversion, which changes nothing else.
LEMMA LookKeeps ==
    ASSUME RInv, NEW q \in Conversions, NEW c,
           conv' = [conv EXCEPT ![q] = c], RatesTyped', Findable(q)',
           UNCHANGED <<rates, running, job>>
    PROVE  RInv'
<1>1. \A p \in Conversions \ {q} : conv'[p] = conv[p]
  BY DEF RInv, RatesTyped
<1>2. ASSUME NEW p \in Conversions \ {q} PROVE Findable(p)'
  <2>1. conv'[p] = conv[p] /\ rates' = rates /\ Findable(p)
    BY <1>1 DEF RInv
  <2> QED
    BY <2>1 DEF Findable, Derivable, Given
<1> QED
  BY <1>2 DEF RInv, Sensible

LEMMA ConversionKeeps ==
    ASSUME RInv, NEW q \in Conversions,
           Convert(q) \/ FindDirect(q) \/ FindReverse(q) \/ FindToUSD(q) \/ FindFromUSD(q)
    PROVE  RInv'
<1> USE DEF RInv, RatesTyped, Findable, Derivable, Given
<1>0. UNCHANGED <<rates, running, job>>
  BY DEF Convert, FindDirect, FindReverse, FindToUSD, FindFromUSD, Look
<1>1. CASE Convert(q)
  <2>1. PICK a \in Currencies, b \in Currencies :
            conv' = [conv EXCEPT ![q] = [at |-> IF a = b THEN "found" ELSE "direct", from |-> a, to |-> b,
                                         known |-> Derivable(a, b)]]
    BY <1>1 DEF Convert
  <2>2. RatesTyped' /\ Findable(q)'
    BY <2>1, <1>0
  <2> QED
    BY <2>1, <2>2, <1>0, LookKeeps
<1>2. ~Given(USD, USD)
  BY DEF Pairs
<1>3. CASE FindDirect(q)
  <2>1. RatesTyped' /\ Findable(q)'
    BY <1>0, <1>3 DEF FindDirect, Look
  <2> QED
    BY <2>1, <1>0, <1>3, LookKeeps DEF FindDirect, Look
<1>4. CASE FindReverse(q)
  <2>1. RatesTyped' /\ Findable(q)'
    BY <1>0, <1>2, <1>4 DEF FindReverse, Look
  <2> QED
    BY <2>1, <1>0, <1>4, LookKeeps DEF FindReverse, Look
<1>5. CASE FindToUSD(q)
  <2>1. RatesTyped' /\ Findable(q)'
    BY <1>0, <1>5 DEF FindToUSD, Look
  <2> QED
    BY <2>1, <1>0, <1>5, LookKeeps DEF FindToUSD, Look
<1>6. CASE FindFromUSD(q)
  <2>1. RatesTyped' /\ Findable(q)'
    BY <1>0, <1>6 DEF FindFromUSD, Look
  <2> QED
    BY <2>1, <1>0, <1>6, LookKeeps DEF FindFromUSD, Look
<1> QED
  BY <1>1, <1>3, <1>4, <1>5, <1>6

LEMMA RatesKeep == RInv /\ NextRate => RInv'
BY JobKeeps, ScheduleKeeps, ConversionKeeps DEF NextRate, Jobs

\* The invariant of the rates, as part of Background.
THEOREM RatesInvariant == Spec => []RInv
<1>1. Init => RInv
  BY RatesStart DEF Init
<1>2. RInv /\ [Next]_vars => RInv'
  BY RatesKeep, RatesRest DEF Next, vars
<1> QED
  BY <1>1, <1>2, PTL DEF Spec

\* The rates, the jobs and the conversions have their types; no currency has a rate in itself.
THEOREM RatesAreTyped == Spec => []RatesTyped
BY RatesInvariant, PTL DEF RInv

\* For any currencies, processes and requests, a conversion that could be derived when it was
\* asked for is found, whatever the jobs write between its statements.
THEOREM RatesAreFound == Spec => []RateStaysFound
<1>1. RInv => RateStaysFound
  BY DEF RInv, Findable, RateStaysFound
<1> QED
  BY <1>1, RatesInvariant, PTL
=============================================================================
