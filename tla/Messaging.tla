----------------------------- MODULE Messaging -----------------------------
(***************************************************************************)
(* Calls over Kafka: KafkaRequestReply on the side of the caller, the       *)
(* unified worker on the other, and the exports of reports that are         *)
(* published to the worker with no reply.                                  *)
(*                                                                         *)
(* The worker commits its offsets some time after its handlers; what it has *)
(* handled and not committed is given again when it stops before, and       *)
(* replied to again.  It reads a topic from its end (fromBeginning: false)  *)
(* as long as its group has committed no offset there, so what was stored   *)
(* while it was down is then skipped.  Records come in any order, which     *)
(* allows for several partitions.  The worker has a branch for every topic  *)
(* it subscribes to, and the branch that sends a result back comes after    *)
(* all of them: only errors are replied.                                   *)
(***************************************************************************)
EXTENDS Naturals, FiniteSets

CONSTANTS
    RouteSets,   \* sets of what goes on together in one behaviour
    Calls,       \* correlation ids
    Exports,     \* messages to reports.export
    MaxCrashes,  \* bound: how often the worker stops
    None

ASSUME MessagingConstants ==
    /\ IsFiniteSet(Calls) /\ IsFiniteSet(Exports)
    /\ Calls \cap Exports = {} /\ None \notin Calls \cup Exports
    /\ MaxCrashes \in Nat

Records == Calls \cup Exports
\* The topic of a record; those of the calls are taken together.
TopicOf(x) == IF x \in Calls THEN "calls" ELSE "exports"

VARIABLES
    routes,     \* what goes on in this behaviour
    connected,  \* KafkaRequestReply.connected
    promise,    \* what the caller of each call has
    pending,    \* pendingRequests: those with an entry
    timers,     \* calls whose timer is running
    sending,    \* records whose producer.send has not returned
    stored,     \* records that the broker has taken
    topic,      \* those from the worker's committed offsets on
    offsets,    \* topics for which the worker's group has committed an offset
    up,         \* the worker runs
    busy,       \* what it handles, or None
    replying,   \* it is sending an error back
    handled,    \* records it is through with and has not committed
    replies,    \* for each call, how many replies are on their way
    crashes,    \* how often the worker has stopped so far
    tried,      \* ghost: exports whose handler has come to an end
    refused,    \* ghost: calls whose handler has thrown
    dropped     \* ghost: calls whose entry a reply that is no JSON has taken

caller == <<connected, promise, pending, timers, dropped>>
broker == <<sending, stored, topic, offsets, replies>>
worker == <<up, busy, replying, handled, crashes, tried, refused>>
messages == <<routes, caller, broker, worker>>

-----------------------------------------------------------------------------
(* The caller.                                                             *)
\* The entry, the timer and the send are one synchronous stretch.
Open(c) ==
    /\ promise' = [promise EXCEPT ![c] = "open"]
    /\ pending' = pending \cup {c}
    /\ timers' = timers \cup {c}
    /\ sending' = sending \cup {c}

\* JSON.stringify throws: nothing is sent and the promise is rejected, but the
\* entry and the timer are there already.
OpenUnsendable(c) ==
    /\ promise' = [promise EXCEPT ![c] = "failed"]
    /\ pending' = pending \cup {c}
    /\ timers' = timers \cup {c}
    /\ UNCHANGED sending

Request(c) ==
    /\ "rpc" \in routes /\ promise[c] = "none"
    /\ \/ connected /\ (Open(c) \/ OpenUnsendable(c))
       \/ /\ ~connected
          /\ promise' = [promise EXCEPT ![c] = "connecting"]
          /\ UNCHANGED <<pending, timers, sending>>
    /\ UNCHANGED <<routes, connected, dropped, stored, topic, offsets, replies, worker>>

Connect(c) ==
    /\ promise[c] = "connecting"
    /\ connected' = TRUE
    /\ Open(c) \/ OpenUnsendable(c)
    /\ UNCHANGED <<routes, dropped, stored, topic, offsets, replies, worker>>

\* Also when two callers connect and the consumer is already running.
ConnectFails(c) ==
    /\ promise[c] = "connecting"
    /\ promise' = [promise EXCEPT ![c] = "failed"]
    /\ UNCHANGED <<routes, connected, pending, timers, dropped, broker, worker>>

\* A slip: the last to settle wins.
SettleAgain(c, how) == promise' = [promise EXCEPT ![c] = how]
\* resolve and reject do nothing to a promise that is settled.
Settle(c, how) ==
    promise' = IF promise[c] = "open" THEN [promise EXCEPT ![c] = how] ELSE promise

\* A slip: the entry is left, and a late reply finds it.
LeaveEntry(c) ==
    /\ c \in timers
    /\ timers' = timers \ {c}
    /\ IF c \in pending THEN Settle(c, "failed") ELSE UNCHANGED promise
    /\ UNCHANGED <<routes, connected, pending, dropped, broker, worker>>

TimeOut(c) ==
    /\ c \in timers
    /\ timers' = timers \ {c}
    /\ pending' = pending \ {c}
    /\ IF c \in pending THEN Settle(c, "failed") ELSE UNCHANGED promise
    /\ UNCHANGED <<routes, connected, dropped, broker, worker>>

\* The catch of producer.send; the broker may have taken the record all the same.
SendFails(c) ==
    /\ c \in Calls \cap sending
    /\ sending' = sending \ {c}
    /\ timers' = timers \ {c}
    /\ pending' = pending \ {c}
    /\ Settle(c, "failed")
    /\ UNCHANGED <<routes, connected, dropped, stored, topic, offsets, replies, worker>>

\* A slip: a reply goes to whoever waits, as with a shared consumer group and no ids.
AnyReply(c) ==
    /\ replies[c] > 0
    /\ replies' = [replies EXCEPT ![c] = @ - 1]
    /\ \E d \in pending :
          timers' = timers \ {d} /\ pending' = pending \ {d} /\ Settle(d, "answered")
    /\ UNCHANGED <<routes, connected, dropped, sending, stored, topic, offsets, worker>>

\* A reply for a call without an entry is ignored.
Receive(c) ==
    /\ replies[c] > 0
    /\ replies' = [replies EXCEPT ![c] = @ - 1]
    /\ IF c \in pending
       THEN timers' = timers \ {c} /\ pending' = pending \ {c} /\ Settle(c, "answered")
       ELSE UNCHANGED <<timers, pending, promise>>
    /\ UNCHANGED <<routes, connected, dropped, sending, stored, topic, offsets, worker>>

\* The worker replies in JSON; something else on the topic need not.  The timer and the
\* entry are gone when JSON.parse throws, and the record that Kafka gives again finds none.
ReceiveGarbled(c) ==
    /\ "garbled" \in routes
    /\ c \in stored \cap pending
    /\ timers' = timers \ {c}
    /\ pending' = pending \ {c}
    /\ dropped' = dropped \cup {c}
    /\ UNCHANGED <<routes, connected, promise, broker, worker>>

-----------------------------------------------------------------------------
(* exportReport: KafkaClient.publish, then the answer.                     *)
Publish(e) ==
    /\ "export" \in routes /\ e \notin sending \cup stored
    /\ sending' = sending \cup {e}
    /\ UNCHANGED <<routes, caller, stored, topic, offsets, replies, worker>>

\* Answered with an error; here, too, the broker may have taken the record.
PublishFails(e) ==
    /\ e \in sending
    /\ sending' = sending \ {e}
    /\ UNCHANGED <<routes, caller, stored, topic, offsets, replies, worker>>

(* The broker takes a record, and the send returns.                        *)
Store(x) ==
    /\ x \in sending \ stored
    /\ stored' = stored \cup {x}
    /\ topic' = topic \cup {x}
    /\ UNCHANGED <<routes, caller, sending, offsets, replies, worker>>

SendReturns(x) ==
    /\ x \in sending \cap stored
    /\ sending' = sending \ {x}
    /\ UNCHANGED <<routes, caller, stored, topic, offsets, replies, worker>>

-----------------------------------------------------------------------------
(* The worker.                                                             *)
\* fromBeginning: false counts where the group has committed nothing.
StartWorker ==
    /\ ~up
    /\ up' = TRUE
    /\ topic' = {x \in topic : TopicOf(x) \in offsets}
    /\ UNCHANGED <<routes, caller, sending, stored, offsets, replies,
                   busy, replying, handled, crashes, tried, refused>>

Take(x) ==
    /\ up /\ busy = None /\ x \in topic \ handled
    /\ busy' = x
    /\ UNCHANGED <<routes, caller, broker, up, replying, handled, crashes, tried, refused>>

\* eachMessage has returned: the offset is resolved, to be committed later.
Resolve(x) ==
    /\ handled' = handled \cup {x}
    /\ busy' = None

\* The service returns, or the export fails and its error is logged.
Handle(x) ==
    /\ busy = x /\ ~replying /\ x # None
    /\ tried' = tried \cup ({x} \cap Exports)
    /\ Resolve(x)
    /\ UNCHANGED <<routes, caller, broker, up, replying, crashes, refused>>

\* The service throws.
HandlerThrows(c) ==
    /\ busy = c /\ ~replying
    /\ refused' = refused \cup {c}
    /\ replying' = TRUE
    /\ UNCHANGED <<routes, caller, broker, up, busy, handled, crashes, tried>>

ReplyError(c) ==
    /\ busy = c /\ replying
    /\ replies' = [replies EXCEPT ![c] = @ + 1]
    /\ replying' = FALSE
    /\ Resolve(c)
    /\ UNCHANGED <<routes, caller, sending, stored, topic, offsets, up, crashes, tried, refused>>

\* A slip: what is being handled is committed too.
CommitInHand ==
    /\ up /\ handled \cup {busy} # {None}
    /\ topic' = topic \ (handled \cup {busy})
    /\ offsets' = offsets \cup {TopicOf(x) : x \in (handled \cup {busy}) \ {None}}
    /\ handled' = {}
    /\ UNCHANGED <<routes, caller, sending, stored, replies, up, busy, replying, crashes, tried, refused>>

\* autoCommit, between two records.
CommitOffsets ==
    /\ up /\ busy = None /\ handled # {}
    /\ topic' = topic \ handled
    /\ offsets' = offsets \cup {TopicOf(x) : x \in handled}
    /\ handled' = {}
    /\ UNCHANGED <<routes, caller, sending, stored, replies, up, busy, replying, crashes, tried, refused>>

\* The process stops, or kafkajs restarts the consumer because a reply could not be sent.
Stop ==
    /\ up /\ crashes < MaxCrashes
    /\ crashes' = crashes + 1
    /\ up' = FALSE /\ busy' = None /\ replying' = FALSE /\ handled' = {}
    /\ UNCHANGED <<routes, caller, broker, tried, refused>>

-----------------------------------------------------------------------------
\* The group may have committed offsets of the exports before.
InitMessages ==
    /\ routes \in RouteSets
    /\ connected = FALSE
    /\ promise = [c \in Calls |-> "none"]
    /\ pending = {} /\ timers = {} /\ dropped = {}
    /\ sending = {} /\ stored = {} /\ topic = {}
    /\ offsets = {} \/ ("export" \in routes /\ offsets = {"exports"})
    /\ replies = [c \in Calls |-> 0]
    /\ up = FALSE /\ busy = None /\ replying = FALSE /\ handled = {}
    /\ crashes = 0 /\ tried = {} /\ refused = {}

CallerSteps(c) ==
    \/ Request(c) \/ Connect(c) \/ ConnectFails(c)
    \/ TimeOut(c) \/ SendFails(c) \/ Receive(c) \/ ReceiveGarbled(c)

HandlerSteps(x) == Handle(x) \/ (x \in Calls /\ (HandlerThrows(x) \/ ReplyError(x)))

NextMessage ==
    \/ \E c \in Calls : CallerSteps(c)
    \/ \E e \in Exports : Publish(e) \/ PublishFails(e)
    \/ \E x \in Records : Store(x) \/ SendReturns(x) \/ Take(x) \/ HandlerSteps(x)
    \/ StartWorker \/ CommitOffsets \/ Stop

\* A timer that runs goes off, a connection attempt ends, and a worker that runs takes
\* its records and goes on with the one it has.  Nothing starts it again.
MessagesGoOn ==
    /\ \A c \in Calls : /\ WF_messages(TimeOut(c))
                        /\ WF_messages(Connect(c) \/ ConnectFails(c))
    /\ \A x \in Records : SF_messages(Take(x)) /\ WF_messages(HandlerSteps(x))

-----------------------------------------------------------------------------
(* Properties.                                                             *)

\* The type of the variables.
MessagesTyped ==
    /\ routes \in RouteSets
    /\ connected \in BOOLEAN
    /\ promise \in [Calls -> {"none", "connecting", "open", "answered", "failed"}]
    /\ pending \subseteq Calls /\ timers \subseteq Calls /\ dropped \subseteq Calls
    /\ sending \subseteq Records /\ stored \subseteq Records /\ topic \subseteq Records
    /\ offsets \subseteq {"calls", "exports"}
    /\ replies \in [Calls -> Nat]
    /\ up \in BOOLEAN /\ busy \in Records \cup {None} /\ replying \in BOOLEAN
    /\ handled \subseteq Records
    /\ crashes \in 0 .. MaxCrashes
    /\ tried \subseteq Exports /\ refused \subseteq Calls

\* Late and repeated replies, time-outs and failed sends race for the entry of a call, and
\* none is left behind or taken away: whoever waits has one, unless a reply that is no JSON
\* has taken it; an entry has its timer; and one for which nobody waits is of a call whose
\* payload could not be serialised, so that no reply can come.
EntriesAreOpen ==
    /\ timers = pending
    /\ {c \in Calls : promise[c] = "open"} \ dropped \subseteq pending
    /\ \A c \in pending : promise[c] = "open" \/ c \notin sending \cup stored

\* An answer means that the handler of this call has thrown: replies are matched with
\* calls across redelivery, late and repeated replies and failed sends.
AnswerIsTheirs == \A c \in Calls : promise[c] = "answered" => c \in refused

\* The promises of KafkaRequestReply are the calls of the abstract specification.
StageOf(c) == CASE promise[c] = "none" -> "new"
                [] promise[c] \in {"connecting", "open"} -> IF c \in dropped THEN "dropped" ELSE "waiting"
                [] OTHER -> promise[c]
Abstract == INSTANCE Calls WITH stage <- [c \in Calls |-> StageOf(c)]

\* Every call is settled, and for good, though the worker stops between a reply and its
\* commit and replies again, replies are lost or late, and sends fail after delivery; only
\* a reply that is no JSON leaves a caller waiting.
CallsAreSettled == Abstract!Spec

\* Once the worker's group has committed an offset for the exports, an export that is in
\* the topic is handled even if the worker stops while it handles it, provided that it is
\* started again whenever it stops, which the deployment leaves to the operator.
ExportIsTried ==
    \A e \in Exports : []<>up => ((e \in topic /\ "exports" \in offsets) ~> (e \in tried))
=============================================================================
