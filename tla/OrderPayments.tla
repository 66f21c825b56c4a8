---------------------------- MODULE OrderPayments ----------------------------
(***************************************************************************)
(* The life of an order and of the money paid for it: the customer's       *)
(* createIntent, the connector's answers and webhooks, the staff's status  *)
(* changes and deletions, and the admin's edits of a receiving account,    *)
(* all running concurrently against one database.                          *)
(*                                                                         *)
(* A handler is split where it awaits, so that between two of its steps    *)
(* any other handler may run; what it read is kept in its call record.  A  *)
(* Prisma transaction is one step: its writes hold their row locks until   *)
(* it commits.  A call may die at any of its awaits (process crash, lost   *)
(* connection, rolled back transaction).                                   *)
(***************************************************************************)
EXTENDS OrderStatuses, Sequences, FiniteSets, Naturals

CONSTANTS
  Orders,          \* orders already created, PENDING_PAYMENT at first
  Intents,         \* createIntent calls, and the row each may insert
  RequestIds,      \* values of clientRequestId
  OnlineChannels,  \* payment channels other than CASH, one account each
  AccountNumbers,  \* values of paymentAccount.externalAccountId
  AccountStatuses, \* statuses the admin may give an account
  AnswerStatuses,  \* statuses the connector answers createIntent with
  Events,          \* event ids the connector may use
  Deliveries,      \* webhook requests the API serves at a time
  StaffCalls,      \* status updates and deletions it serves at a time
  StaffTargets     \* statuses the staff may ask for

ASSUME ConstantsAssumption ==
  /\ "CASH" \notin OnlineChannels
  /\ "staff" \notin Intents
  /\ AccountStatuses \subseteq {"ACTIVE", "DISABLED"}
  /\ AnswerStatuses \subseteq {"PENDING", "PROCESSING", "SUCCEEDED"}
  /\ StaffTargets \subseteq Statuses \ {"DELETED", "CREATING"}

VARIABLES
  order,      \* orders: status and paymentChannel
  log,        \* order_status_logs of each order, oldest first
  paidBy,     \* who wrote the rows of log that lead to PAID: the staff, or an intent's webhook
  intent,     \* payment_intents
  txns,       \* payment_transactions
  account,    \* payment_accounts
  event,      \* payment_webhook_events
  payCall, hookCall, staffCall,   \* what the calls in progress have read
  provider,   \* external: the connector's side of each intent
  sent        \* external: the webhooks the connector has started to send

db == <<order, log, paidBy, intent, txns, event>>
calls == <<payCall, hookCall, staffCall>>
external == <<provider, sent>>
vars == <<db, account, calls, external>>

-----------------------------------------------------------------------------
(* Rows and call records. *)

Channels == OnlineChannels \cup {"CASH"}

IntentStatuses == {"CREATED", "PENDING", "PROCESSING", "SUCCEEDED", "FAILED"}
ActiveStatuses == IntentStatuses \ {"FAILED"}
EventTypes == {"PAYMENT_SUCCEEDED", "PAYMENT_PROCESSING", "PAYMENT_FAILED"}

NoRow == [status |-> "ABSENT"]
Idle == [pc |-> "idle"]
NoEvent == [type |-> "NONE"]
NotAsked == [state |-> "none"]

Step(from, to) == [from |-> from, to |-> to]
CreationLog == <<Step("NONE", "CREATING"), Step("CREATING", "PENDING_PAYMENT")>>

IntentRow ==
  [order : Orders, key : RequestIds, channel : OnlineChannels,
   status : IntentStatuses, recon : {"PENDING", "MATCHED", "LATE_PAYMENT", "MANUAL_REVIEW"},
   known : BOOLEAN]   \* providerIntentId has been stored

PayCall ==
  [pc : {"started", "clear", "linked", "gateway"}, order : Orders, key : RequestIds,
   channel : OnlineChannels, number : AccountNumbers]

HookCall ==
  [pc : {"reserved"}, event : Events, number : AccountNumbers]
    \cup [pc : {"seen"}, event : Events, intentStatus : IntentStatuses]
    \cup [pc : {"read"}, event : Events, intentStatus : IntentStatuses, orderStatus : Statuses]

StaffCall == [pc : {"checked"}, order : Orders, seen : Statuses, target : Statuses]

LogRow == [from : Statuses \cup {"NONE"}, to : Statuses]

TypeOK ==
  /\ order \in [Orders -> [status : Statuses, channel : Channels]]
  /\ log \in [Orders -> Seq(LogRow)]
  /\ paidBy \in [Orders -> SUBSET (Intents \cup {"staff"})]
  /\ intent \in [Intents -> IntentRow \cup {NoRow}]
  /\ txns \subseteq [intent : Intents, event : Events]
  /\ account \in [OnlineChannels -> [number : AccountNumbers, status : {"ACTIVE", "DISABLED"}]]
  /\ event \in [Events -> [state : {"absent", "reserved", "processed"}, error : BOOLEAN]]
  /\ payCall \in [Intents -> PayCall \cup {Idle}]
  /\ hookCall \in [Deliveries -> HookCall \cup {Idle}]
  /\ staffCall \in [StaffCalls -> StaffCall \cup {Idle}]
  /\ provider \in [Intents -> [state : {"asked", "open"}, number : AccountNumbers] \cup {NotAsked}]
  /\ sent \in [Events -> [intent : Intents, type : EventTypes] \cup {NoEvent}]

Init ==
  /\ order \in [Orders -> [status : {"PENDING_PAYMENT"}, channel : Channels]]
  /\ log = [o \in Orders |-> CreationLog]
  /\ paidBy = [o \in Orders |-> {}]
  /\ intent = [i \in Intents |-> NoRow]
  /\ txns = {}
  /\ account \in [OnlineChannels -> [number : AccountNumbers, status : {"ACTIVE"}]]
  /\ event = [e \in Events |-> [state |-> "absent", error |-> FALSE]]
  /\ payCall = [i \in Intents |-> Idle]
  /\ hookCall = [d \in Deliveries |-> Idle]
  /\ staffCall = [s \in StaffCalls |-> Idle]
  /\ provider = [i \in Intents |-> NotAsked]
  /\ sent = [e \in Events |-> NoEvent]

-----------------------------------------------------------------------------
(* The order row.  Every writer of orders.status is a conditional update   *)
(* followed, in the same transaction, by a row of order_status_logs that   *)
(* names the status the writer believes it moves the order from.           *)

MoveOrder(o, from, to, by) ==
  /\ order' = [order EXCEPT ![o].status = to]
  /\ log' = [log EXCEPT ![o] = Append(@, Step(from, to))]
  /\ paidBy' = IF to = "PAID" THEN [paidBy EXCEPT ![o] = @ \cup {by}] ELSE paidBy

KeepOrders == UNCHANGED <<order, log, paidBy>>

-----------------------------------------------------------------------------
(* Staff: updateOrderStatus and deleteOrder.  Both read the order, decide  *)
(* on what they read, and write only if the status is still the one read.  *)

CanUpdate(o, target) ==
  /\ order[o].status # "DELETED"
  /\ order[o].status # target
  /\ target = "PAID" => order[o].channel = "CASH"
  /\ target \in EditableTransitions(order[o].status)

CanDelete(o) == order[o].status \in DeletableStatuses

Check(s, o, target) ==
  /\ staffCall[s] = Idle
  /\ staffCall' = [staffCall EXCEPT
       ![s] = [pc |-> "checked", order |-> o, seen |-> order[o].status, target |-> target]]
  /\ UNCHANGED <<db, account, payCall, hookCall, external>>

CheckUpdate(s, o, target) == target \in StaffTargets /\ CanUpdate(o, target) /\ Check(s, o, target)

CheckDelete(s, o) == CanDelete(o) /\ Check(s, o, "DELETED")

StillThere(s) == order[staffCall[s].order].status # "DELETED"   \* mutant: where { id, isDeleted: false }
StillAsSeen(s) == order[staffCall[s].order].status = staffCall[s].seen

(* The transaction: the compare-and-set and the log row, or 409.           *)
CommitMove(s) ==
  /\ staffCall[s].pc = "checked"
  /\ staffCall' = [staffCall EXCEPT ![s] = Idle]
  /\ IF StillAsSeen(s)
       THEN MoveOrder(staffCall[s].order, staffCall[s].seen, staffCall[s].target, "staff")
       ELSE KeepOrders
  /\ UNCHANGED <<intent, txns, event, account, payCall, hookCall, external>>

CommitUpdate(s) == staffCall[s].pc = "checked" /\ staffCall[s].target # "DELETED" /\ CommitMove(s)

CommitDelete(s) == staffCall[s].pc = "checked" /\ staffCall[s].target = "DELETED" /\ CommitMove(s)

StaffCallDies(s) ==
  /\ staffCall[s] # Idle
  /\ staffCall' = [staffCall EXCEPT ![s] = Idle]
  /\ UNCHANGED <<db, account, payCall, hookCall, external>>

-----------------------------------------------------------------------------
(* Customer: createIntent.                                                 *)

RowsOf(o) == {i \in Intents : intent[i] # NoRow /\ intent[i].order = o}
SameRequest(o, k) == {i \in RowsOf(o) : intent[i].key = k}
ActiveAttempts(o) == {i \in RowsOf(o) : intent[i].status \in ActiveStatuses}

AwaitsPayment(o) == order[o].status = "PENDING_PAYMENT"

(* Reads the order, the earlier intent of this request and the account.    *)
(* The refusals and the idempotent answer change nothing and are left out. *)
StartIntent(i, o, k, ch) ==
  /\ payCall[i] = Idle /\ intent[i] = NoRow
  /\ AwaitsPayment(o)
  /\ SameRequest(o, k) = {}
  /\ account[ch].status = "ACTIVE"
  /\ payCall' = [payCall EXCEPT ![i] =
       [pc |-> "started", order |-> o, key |-> k, channel |-> ch, number |-> account[ch].number]]
  /\ UNCHANGED <<db, account, hookCall, staffCall, external>>

(* Refuses an order that already has an active attempt.                    *)
CheckActive(i) ==
  /\ payCall[i].pc = "started"
  /\ payCall' = IF ActiveAttempts(payCall[i].order) = {}
                  THEN [payCall EXCEPT ![i].pc = "clear"]
                  ELSE [payCall EXCEPT ![i] = Idle]
  /\ UNCHANGED <<db, account, hookCall, staffCall, external>>

LinkAny(i) == TRUE   \* mutant: where { id } only
MayLink(i) == AwaitsPayment(payCall[i].order)

(* order.updateMany: no row matching is not an error.                      *)
LinkChannel(i) ==
  /\ payCall[i].pc = "clear"
  /\ payCall' = [payCall EXCEPT ![i].pc = "linked"]
  /\ order' = IF MayLink(i)
                THEN [order EXCEPT ![payCall[i].order].channel = payCall[i].channel]
                ELSE order
  /\ UNCHANGED <<log, paidBy, intent, txns, event, account, hookCall, staffCall, external>>

NewRowPending(c) ==   \* mutant: the row starts as the connector usually answers
  [order |-> c.order, key |-> c.key, channel |-> c.channel,
   status |-> "PENDING", recon |-> "PENDING", known |-> FALSE]

NewRow(c) ==
  [order |-> c.order, key |-> c.key, channel |-> c.channel,
   status |-> "CREATED", recon |-> "PENDING", known |-> FALSE]

(* paymentIntent.create; a row of the same request answers the duplicate.  *)
(* Then the connector is asked, and may act on it at any later time.       *)
InsertIntent(i) ==
  /\ payCall[i].pc = "linked"
  /\ IF SameRequest(payCall[i].order, payCall[i].key) = {}
       THEN /\ intent' = [intent EXCEPT ![i] = NewRow(payCall[i])]
            /\ payCall' = [payCall EXCEPT ![i].pc = "gateway"]
            /\ provider' = [provider EXCEPT ![i] = [state |-> "asked", number |-> payCall[i].number]]
       ELSE /\ payCall' = [payCall EXCEPT ![i] = Idle]
            /\ UNCHANGED <<intent, provider>>
  /\ UNCHANGED <<order, log, paidBy, txns, event, account, hookCall, staffCall, sent>>

EndPayCall(i) ==
  /\ payCall[i].pc = "gateway"
  /\ payCall' = [payCall EXCEPT ![i] = Idle]
  /\ KeepOrders
  /\ UNCHANGED <<txns, event, account, hookCall, staffCall, external>>

(* The connector echoed the account and the amount: the answer is stored.  *)
GatewayAnswers(i, status) ==
  /\ EndPayCall(i)
  /\ provider[i].state = "open"
  /\ intent' = [intent EXCEPT ![i].known = TRUE, ![i].status = status]

(* It echoed something else: FAILED, and a person has to look at it.       *)
GatewayMismatches(i) ==
  /\ EndPayCall(i)
  /\ provider[i].state = "open"
  /\ intent' = [intent EXCEPT ![i].status = "FAILED", ![i].recon = "MANUAL_REVIEW"]

(* No usable answer within ten seconds; the connector may have acted or not. *)
GatewayFails(i) ==
  /\ EndPayCall(i)
  /\ intent' = IF intent[i].status = "CREATED"
                 THEN [intent EXCEPT ![i].status = "FAILED"]
                 ELSE intent

PayCallDies(i) ==
  /\ payCall[i] # Idle
  /\ payCall' = [payCall EXCEPT ![i] = Idle]
  /\ UNCHANGED <<db, account, hookCall, staffCall, external>>

-----------------------------------------------------------------------------
(* External: the connector.  It opens the payment it was asked for, and    *)
(* sends any events about it, each as often as it likes.                   *)

ConnectorOpens(i) ==
  /\ provider[i].state = "asked"
  /\ provider' = [provider EXCEPT ![i].state = "open"]
  /\ UNCHANGED <<db, account, calls, sent>>

ConnectorSends(e, i, type) ==
  /\ sent[e] = NoEvent
  /\ provider[i].state = "open"
  /\ sent' = [sent EXCEPT ![e] = [intent |-> i, type |-> type]]
  /\ UNCHANGED <<db, account, calls, provider>>

(* Admin: upsertAccount on an existing account. *)
UpsertAccount(ch, number, status) ==
  /\ account' = [account EXCEPT ![ch] = [number |-> number, status |-> status]]
  /\ account' # account
  /\ UNCHANGED <<db, calls, external>>

-----------------------------------------------------------------------------
(* handleWebhook.                                                          *)

NeverSeen(e) == event[e].state = "absent"   \* mutant: any earlier row is a duplicate
MayHandle(e) == event[e].state # "processed"

(* Reads the account and reserves the event id; a processed event is       *)
(* answered at once, an unprocessed one is resumed.                        *)
ReserveEvent(d, e) ==
  /\ hookCall[d] = Idle
  /\ sent[e] # NoEvent
  /\ MayHandle(e)
  /\ event' = [event EXCEPT ![e].state = "reserved"]
  /\ hookCall' = [hookCall EXCEPT ![d] = [pc |-> "reserved", event |-> e,
       number |-> account[intent[sent[e].intent].channel].number]]
  /\ KeepOrders
  /\ UNCHANGED <<intent, txns, account, payCall, staffCall, external>>

AccountMatches(e, number) == provider[sent[e].intent].number = number   \* mutant: intent id unchecked

(* The event names the account the connector was asked to use, and the     *)
(* connector's own id of the payment.                                      *)
ReferencesMatch(e, number) ==
  /\ provider[sent[e].intent].number = number
  /\ intent[sent[e].intent].known

(* The intent, read outside the transaction.  The included order is loaded *)
(* by a second SELECT: the schema enables no joins for relations.          *)
ReadIntent(d) ==
  LET e == hookCall[d].event
  IN /\ hookCall[d].pc = "reserved"
     /\ IF ReferencesMatch(e, hookCall[d].number)
          THEN /\ hookCall' = [hookCall EXCEPT ![d] =
                    [pc |-> "seen", event |-> e, intentStatus |-> intent[sent[e].intent].status]]
               /\ event' = event
          ELSE /\ hookCall' = [hookCall EXCEPT ![d] = Idle]
               /\ event' = [event EXCEPT ![e].error = TRUE]
     /\ KeepOrders
     /\ UNCHANGED <<intent, txns, account, payCall, staffCall, external>>

ReadOrder(d) ==
  LET e == hookCall[d].event
  IN /\ hookCall[d].pc = "seen"
     /\ hookCall' = [hookCall EXCEPT ![d] =
          [pc |-> "read", event |-> e, intentStatus |-> hookCall[d].intentStatus,
           orderStatus |-> order[intent[sent[e].intent].order].status]]
     /\ UNCHANGED <<db, account, payCall, staffCall, external>>

EndHookCall(d, type) ==
  /\ hookCall[d].pc = "read"
  /\ sent[hookCall[d].event].type = type
  /\ hookCall' = [hookCall EXCEPT ![d] = Idle]
  /\ event' = [event EXCEPT ![hookCall[d].event].state = "processed"]
  /\ UNCHANGED <<account, payCall, staffCall, external>>

ProgressedWhenRead(d) ==   \* mutant: an intent in progress needs no settling
  hookCall[d].intentStatus \in {"PROCESSING", "SUCCEEDED"}

SettledWhenRead(d) == hookCall[d].intentStatus = "SUCCEEDED"

(* A success of an intent that had already succeeded: only acknowledged.   *)
AcknowledgeSettled(d) ==
  /\ EndHookCall(d, "PAYMENT_SUCCEEDED")
  /\ SettledWhenRead(d)
  /\ KeepOrders
  /\ UNCHANGED <<intent, txns>>

OrderCanBePaid(d) == hookCall[d].orderStatus = "PENDING_PAYMENT"

(* One provider transaction per intent: a transaction of another event     *)
(* carries the same providerTransactionId, and the insert is refused.      *)
TransactionFitsByEvent(i, e) == TRUE   \* mutant: unique by event id only
TransactionFits(i, e) == \A t \in txns : t.intent = i => t.event = e

PayOrderAsRead(i, o) == MoveOrder(o, "PENDING_PAYMENT", "PAID", i)   \* mutant: no condition on status

PayOrder(i, o) ==
  IF AwaitsPayment(o) THEN MoveOrder(o, "PENDING_PAYMENT", "PAID", i) ELSE KeepOrders

(* A success: the intent, its transaction and the order, in one transaction. *)
SettleIntent(d) ==
  LET e == hookCall[d].event
      i == sent[e].intent
  IN /\ EndHookCall(d, "PAYMENT_SUCCEEDED")
     /\ ~SettledWhenRead(d)
     /\ TransactionFits(i, e)
     /\ intent' = [intent EXCEPT ![i].status = "SUCCEEDED",
          ![i].recon = IF OrderCanBePaid(d) THEN "MATCHED" ELSE "LATE_PAYMENT"]
     /\ txns' = txns \cup {[intent |-> i, event |-> e]}
     /\ IF OrderCanBePaid(d) THEN PayOrder(i, intent[i].order) ELSE KeepOrders

ProgressVerbatim(type) == type   \* mutant: the event type stored as the status
Progress(type) == IF type = "PAYMENT_PROCESSING" THEN "PROCESSING" ELSE "FAILED"

(* A progress or failure event: never over a success.                      *)
NoteAlways(i) == TRUE   \* mutant: update by id
MayNoteProgress(i) == intent[i].status # "SUCCEEDED"

NoteProgress(d, type) ==
  LET i == sent[hookCall[d].event].intent
  IN /\ type # "PAYMENT_SUCCEEDED"
     /\ EndHookCall(d, type)
     /\ intent' = IF MayNoteProgress(i)
                    THEN [intent EXCEPT ![i].status = Progress(type)]
                    ELSE intent
     /\ KeepOrders
     /\ txns' = txns

HookCallDies(d) ==
  /\ hookCall[d] # Idle
  /\ hookCall' = [hookCall EXCEPT ![d] = Idle]
  /\ UNCHANGED <<db, account, payCall, staffCall, external>>

-----------------------------------------------------------------------------

Staff ==
  \E s \in StaffCalls :
    \/ \E o \in Orders, t \in StaffTargets : CheckUpdate(s, o, t)
    \/ \E o \in Orders : CheckDelete(s, o)
    \/ CommitUpdate(s)
    \/ CommitDelete(s)
    \/ StaffCallDies(s)

CreateIntent ==
  \E i \in Intents :
    \/ \E o \in Orders, k \in RequestIds, ch \in OnlineChannels : StartIntent(i, o, k, ch)
    \/ CheckActive(i)
    \/ LinkChannel(i)
    \/ InsertIntent(i)
    \/ \E status \in AnswerStatuses : GatewayAnswers(i, status)
    \/ GatewayMismatches(i)
    \/ GatewayFails(i)
    \/ PayCallDies(i)

Connector ==
  \E i \in Intents :
    \/ ConnectorOpens(i)
    \/ \E e \in Events, type \in EventTypes : ConnectorSends(e, i, type)

Admin ==
  \E ch \in OnlineChannels, number \in AccountNumbers, status \in AccountStatuses :
    UpsertAccount(ch, number, status)

CommitWebhook(d) ==
  \/ AcknowledgeSettled(d)
  \/ SettleIntent(d)
  \/ \E type \in EventTypes : NoteProgress(d, type)

Webhook ==
  \E d \in Deliveries :
    \/ \E e \in Events : ReserveEvent(d, e)
    \/ ReadIntent(d)
    \/ ReadOrder(d)
    \/ CommitWebhook(d)
    \/ HookCallDies(d)

Next == Staff \/ CreateIntent \/ Connector \/ Admin \/ Webhook

Spec == Init /\ [][Next]_vars

-----------------------------------------------------------------------------
(* Safety. *)

PaidSteps(o) == {n \in DOMAIN log[o] : log[o][n].to = "PAID"}

(* order_status_logs is the audit chain of the order (docs/10): every row  *)
(* starts where the one before it ended, and the last one ends at          *)
(* orders.status, whoever raced with whom.                                 *)
LogIsAuditChain ==
  \A o \in Orders :
    /\ \A n \in 1 .. Len(log[o]) - 1 : log[o][n].to = log[o][n + 1].from
    /\ log[o][Len(log[o])].to = order[o].status

(* An order is marked paid once: by one webhook of one intent or by the    *)
(* staff, never by two of them, also when several intents of it succeed.   *)
PaidAtMostOnce ==
  \A o \in Orders :
    /\ \A m, n \in PaidSteps(o) : m = n
    /\ \A a, b \in paidBy[o] : a = b

(* An order marked paid by a webhook stays backed by money: the intent is  *)
(* of that order, it succeeded for good, and there is a transaction of it. *)
WebhookPaymentIsBacked ==
  \A o \in Orders : \A i \in paidBy[o] \ {"staff"} :
    /\ intent[i] # NoRow
    /\ intent[i].order = o
    /\ intent[i].status = "SUCCEEDED"
    /\ \E t \in txns : t.intent = i

(* Money is recorded once per intent, under any number of redeliveries and *)
(* concurrent deliveries, and only for an intent that succeeded.           *)
MoneyIsRecordedOnce ==
  \A t, u \in txns :
    /\ intent[t.intent].status = "SUCCEEDED"
    /\ t.intent = u.intent => t = u

(* An event of a success is marked processed only when its intent has      *)
(* succeeded, and no later event or answer takes that back.                *)
ProcessedSuccessIsSettled ==
  \A e \in Events :
    event[e].state = "processed" /\ sent[e].type = "PAYMENT_SUCCEEDED"
      => intent[sent[e].intent].status = "SUCCEEDED"

(* payment_transactions is the record of the money facts (docs/10): every  *)
(* accepted success has a transaction.  Holds as long as the connector     *)
(* reports success by webhook only; after a SUCCEEDED answer to            *)
(* createIntent the webhook is acknowledged without one.                   *)
AcceptedSuccessHasTransaction ==
  \A e \in Events :
    event[e].state = "processed" /\ sent[e].type = "PAYMENT_SUCCEEDED"
      => \E t \in txns : t.intent = sent[e].intent

(* A createIntent call that waits for the connector has its row to itself: *)
(* no webhook can touch the row until the answer is stored, because only   *)
(* that answer makes the event's reference match.  A call that has not     *)
(* inserted yet has no row to overwrite.                                   *)
CallsOwnTheirRows ==
  \A i \in Intents :
    /\ payCall[i].pc = "gateway" => intent[i] # NoRow /\ intent[i].status = "CREATED" /\ ~intent[i].known
    /\ payCall[i].pc \in {"started", "clear", "linked"} => intent[i] = NoRow /\ provider[i] = NotAsked

(* The connector knows only intents that have a row, and a webhook past    *)
(* its checks works on one whose reference is stored.                      *)
EventsHaveRows ==
  /\ \A i \in Intents : provider[i].state # "none" => intent[i] # NoRow
  /\ \A e \in Events : sent[e] # NoEvent => provider[sent[e].intent].state = "open"
  /\ \A e \in Events : event[e].state # "absent" => sent[e] # NoEvent
  /\ \A d \in Deliveries : hookCall[d] # Idle => sent[hookCall[d].event] # NoEvent
  /\ \A d \in Deliveries :
       hookCall[d].pc \in {"seen", "read"} => intent[sent[hookCall[d].event].intent].known

(* What a webhook read before its transaction is stale in one direction    *)
(* only: a success it saw still stands, and an order it saw closed or paid *)
(* does not await payment again.                                           *)
StaleReadsGoOneWay ==
  \A d \in Deliveries :
    LET i == sent[hookCall[d].event].intent
    IN /\ hookCall[d].pc \in {"seen", "read"} /\ SettledWhenRead(d) => intent[i].status = "SUCCEEDED"
       /\ hookCall[d].pc = "read" /\ ~OrderCanBePaid(d) => ~AwaitsPayment(intent[i].order)

-----------------------------------------------------------------------------
(* Action properties and the abstract specification. *)

(* No step downgrades a succeeded intent: neither a late progress or       *)
(* failure event nor the connector's answer that arrives after the webhook *)
(* (createIntent stores that answer unconditionally).                      *)
SuccessIsFinal ==
  [][\A i \in Intents :
       intent[i] # NoRow /\ intent[i].status = "SUCCEEDED"
         => intent'[i].status = "SUCCEEDED"]_intent

(* While an order's payment is in flight its channel may change only as    *)
(* long as it awaits payment: the channel it was paid through is kept.     *)
ChannelIsFrozenOncePaid ==
  [][\A o \in Orders :
       ~AwaitsPayment(o) => order'[o].channel = order[o].channel]_order

(* Every interleaving of handlers is a behaviour of the order's lifecycle. *)
Lifecycle == INSTANCE OrderLifecycle WITH status <- [o \in Orders |-> order[o].status]
ImplementsLifecycle == Lifecycle!Spec

-----------------------------------------------------------------------------
(* Liveness.  The connector redelivers an event until it is accepted, and  *)
(* a delivery that keeps being retried is not cut off at the same await    *)
(* forever.  Nothing is assumed of customers, staff or the admin.          *)

Fairness ==
  \A e \in Events :
    /\ SF_vars(\E d \in Deliveries : ReserveEvent(d, e))
    /\ SF_vars(\E d \in Deliveries : hookCall[d] # Idle /\ hookCall[d].event = e /\ ReadIntent(d))
    /\ SF_vars(\E d \in Deliveries : hookCall[d] # Idle /\ hookCall[d].event = e /\ ReadOrder(d))
    /\ SF_vars(\E d \in Deliveries : hookCall[d] # Idle /\ hookCall[d].event = e /\ CommitWebhook(d))

LiveSpec == Spec /\ Fairness

Acceptable(e) ==
  sent[e] # NoEvent /\ ReferencesMatch(e, account[intent[sent[e].intent].channel].number)

(* An event of a known payment is processed in the end, as long as the     *)
(* account is not renumbered under it: whatever dies in between, and       *)
(* whatever other events and deliveries it races with.                     *)
KnownEventsAreProcessed ==
  \A e \in Events : <>[]Acceptable(e) => <>(event[e].state = "processed")

-----------------------------------------------------------------------------
(* What the repository's documents say and the code does not do.           *)

(* docs/10, constraint 7: an online order becomes PAID only through a      *)
(* verified webhook.                                                       *)
OnlineOrdersArePaidByWebhook ==
  \A o \in Orders : "staff" \in paidBy[o] => order[o].channel = "CASH"
=============================================================================
