---------------------------- MODULE Notifications ----------------------------
(* NotificationService for one tenant: notify and optOut. A message is one   *)
(* call of notify; the callers (OrderService.maybeNotify, reservations) may  *)
(* repeat a call with its dedupe key. Delivery through the channel's adapter *)
(* cannot be rolled back: it stands between the lookups of the transaction   *)
(* and the insert that records it. An address is a recipient on a channel.   *)
EXTENDS Integers

CONSTANTS
  Messages,     \* calls of notify
  Addresses,    \* recipients, each with a channel
  DedupeKeys,
  To,           \* the address of a message
  DedupeKeyOf,  \* its dedupe key, or unset
  unset

ASSUME MessagesAssumption ==
  /\ To \in [Messages -> Addresses]
  /\ DedupeKeyOf \in [Messages -> DedupeKeys \union {unset}]
  /\ unset \notin DedupeKeys /\ unset \notin {"sent", "deduped", "opted_out", "error"}

VARIABLES
  optouts,      \* notification_optouts: addresses
  recorded,     \* notifications: the messages recorded
  delivered,    \* history: the messages the adapter took
  sending,      \* where each call stands
  result,       \* what it returned: "sent", "deduped", "opted_out", "error" or unset
  silenced      \* history: the calls that began after their address had opted out

notifyRows == <<optouts, recorded>>
notifyVars == <<optouts, recorded, delivered, sending, result, silenced>>

NotifyResult == {"sent", "deduped", "opted_out"}

NotifyTypeOK ==
  /\ optouts \subseteq Addresses
  /\ recorded \subseteq Messages
  /\ delivered \subseteq Messages
  /\ silenced \subseteq Messages
  /\ sending \in [Messages -> {"idle", "optout", "dedupe", "deliver", "record", "done"}]
  /\ result \in [Messages -> NotifyResult \union {"error", unset}]

NotifyInit ==
  /\ optouts = {} /\ recorded = {} /\ delivered = {} /\ silenced = {}
  /\ sending = [m \in Messages |-> "idle"]
  /\ result = [m \in Messages |-> unset]

SameDedupeKey(m, n) == DedupeKeyOf[m] # unset /\ DedupeKeyOf[m] = DedupeKeyOf[n]
Recorded(m) == \E n \in recorded : SameDedupeKey(m, n)

Goto(m, place) == sending' = [sending EXCEPT ![m] = place] /\ UNCHANGED result
Answer(m, r) == sending' = [sending EXCEPT ![m] = "done"] /\ result' = [result EXCEPT ![m] = r]

notify(m) ==
  /\ sending[m] = "idle"
  /\ silenced' = IF To[m] \in optouts THEN silenced \union {m} ELSE silenced
  /\ Goto(m, "optout")
  /\ UNCHANGED <<notifyRows, delivered>>

(* A plausible slip: messages that carry a dedupe key (orders, bookings) are *)
(* taken for transactional and skip the opt-out.                             *)
RespectOptoutOfKeyless(m) ==
  /\ sending[m] = "optout"
  /\ IF To[m] \in optouts /\ DedupeKeyOf[m] = unset THEN Answer(m, "opted_out") ELSE Goto(m, "dedupe")
  /\ UNCHANGED <<notifyRows, delivered, silenced>>

RespectOptout(m) ==
  /\ sending[m] = "optout"
  /\ IF To[m] \in optouts THEN Answer(m, "opted_out") ELSE Goto(m, "dedupe")
  /\ UNCHANGED <<notifyRows, delivered, silenced>>

LookUp(m) ==
  /\ sending[m] = "dedupe"
  /\ IF Recorded(m) THEN Answer(m, "deduped") ELSE Goto(m, "deliver")
  /\ UNCHANGED <<notifyRows, delivered, silenced>>

(* A plausible slip: the error of the adapter is swallowed, and the message  *)
(* recorded as if it had gone out.                                           *)
DeliverSwallowingErrors(m) ==
  /\ sending[m] = "deliver"
  /\ delivered' \in {delivered, delivered \union {m}}
  /\ Goto(m, "record")
  /\ UNCHANGED <<notifyRows, silenced>>

(* The adapter takes the message, or throws, before or after taking it.      *)
Deliver(m) ==
  /\ sending[m] = "deliver"
  /\ \/ delivered' = delivered \union {m} /\ Goto(m, "record")
     \/ delivered' \in {delivered, delivered \union {m}} /\ Answer(m, "error")
  /\ UNCHANGED <<notifyRows, silenced>>

(* A plausible slip: no unique index on the key.                             *)
RecordWithoutIndex(m) ==
  /\ sending[m] = "record"
  /\ recorded' = recorded \union {m} /\ Answer(m, "sent")
  /\ UNCHANGED <<optouts, delivered, silenced>>

(* The insert and the commit, which meet the unique index of 0008.           *)
Record(m) ==
  /\ sending[m] = "record"
  /\ IF Recorded(m)
       THEN Answer(m, "error") /\ UNCHANGED recorded
       ELSE recorded' = recorded \union {m} /\ \E r \in {"sent", "error"} : Answer(m, r)
  /\ UNCHANGED <<optouts, delivered, silenced>>

GiveUp(m) ==
  /\ sending[m] \in {"optout", "dedupe", "deliver", "record"}
  /\ Answer(m, "error")
  /\ UNCHANGED <<notifyRows, delivered, silenced>>

optOut(a) ==
  /\ a \notin optouts
  /\ optouts' = optouts \union {a}
  /\ UNCHANGED <<recorded, delivered, sending, result, silenced>>

Progress(m) == RespectOptout(m) \/ LookUp(m) \/ Deliver(m) \/ Record(m)
NotifyNext ==
  \/ \E m \in Messages : notify(m) \/ Progress(m) \/ GiveUp(m)
  \/ \E a \in Addresses : optOut(a)
NotifySpec == NotifyInit /\ [][NotifyNext]_notifyVars
NotifyFairness == \A m \in Messages : WF_notifyVars(Progress(m))

----------------------------------------------------------------------------
(* "respects opt-out": whoever had opted out when a call began is not        *)
(* reached by it. An opt-out that comes later may find the message gone.     *)
OptedOutAreLeftAlone == silenced \intersect delivered = {}

(* "dedupes on a per-tenant key": of the calls with a key one at most says   *)
(* that it sent; a second delivery always belongs to a call that failed.     *)
OneSentPerKey ==
  \A m, n \in Messages :
    m # n /\ SameDedupeKey(m, n) /\ result[m] = "sent" =>
      result[n] # "sent" /\ n \notin recorded

(* No message is swallowed: a caller is told "sent" only if its message went *)
(* out, and "deduped" only if a message with its key did.                    *)
DedupedWasDelivered ==
  /\ \A m \in recorded : m \in delivered
  /\ \A m \in Messages :
       result[m] = "deduped" => \E n \in delivered : n # m /\ SameDedupeKey(m, n)

(* No notification is under way.                                             *)
NotifyIsQuiet == \A m \in Messages : sending[m] \in {"idle", "done"}
=============================================================================
