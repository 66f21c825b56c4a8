---------------------------- MODULE OrderCreation ----------------------------
(***************************************************************************)
(* createOrder of the orders service, call by call: the look for an order  *)
(* of the same clientRequestId before and inside the transaction, the      *)
(* pickup code's counter, the order's unique indexes, the commit, and the  *)
(* second look after a unique conflict.  A call may fail or die anywhere,  *)
(* and a customer may repeat a request at any time, while earlier calls    *)
(* are still running.                                                      *)
(*                                                                         *)
(* The database is MySQL at its default REPEATABLE READ: what the          *)
(* transaction reads is the snapshot of its first read, what it writes it  *)
(* writes to the newest row, and rows it has written stay locked.          *)
(***************************************************************************)
EXTENDS Naturals

CONSTANTS
  Calls,      \* createOrder calls; an order is known by the call that made it
  Requests,   \* (customer, clientRequestId) pairs
  NoRequest,  \* a call without a clientRequestId
  NoOrder,
  MaxDay,     \* bound: business days until which calls are followed
  Capacity    \* how many codes the format of PICKUP_CODE_FORMATS holds

ASSUME CreationAssumption ==
  /\ MaxDay \in Nat /\ Capacity \in Nat
  /\ NoRequest \notin Requests
  /\ NoOrder \notin Calls
  /\ NoOrder \notin [request : Requests \cup {NoRequest}, day : 0 .. MaxDay, seq : 1 .. Capacity]

VARIABLES
  order,    \* orders, committed
  counter,  \* pickup_code_sequences.lastValue, committed; 0 when there is no row
  call,     \* the calls under way
  today     \* the Shanghai business day

vars == <<order, counter, call, today>>

-----------------------------------------------------------------------------

Days == 0 .. MaxDay

Order == [request : Requests \cup {NoRequest}, day : Days, seq : 1 .. Capacity]

(* knows: the counters in the snapshot.  seq: the number taken, 0 if none. *)
Call ==
  [pc : {"none", "checking", "opening", "validating", "waiting", "holding", "writing",
         "committed", "recovering", "answered", "failed", "lost"},
   request : Requests \cup {NoRequest}, knows : SUBSET Days, day : Days, seq : 0 .. Capacity,
   answer : Calls \cup {NoOrder}]

TypeOK ==
  /\ order \in [Calls -> Order \cup {NoOrder}]
  /\ counter \in [Days -> 0 .. Capacity]
  /\ call \in [Calls -> Call]
  /\ today \in Days

Init ==
  /\ order = [c \in Calls |-> NoOrder]
  /\ counter = [d \in Days |-> 0]
  /\ call = [c \in Calls |-> [pc |-> "none", request |-> NoRequest, knows |-> {}, day |-> 0,
                              seq |-> 0, answer |-> NoOrder]]
  /\ today = 0

PlacedOrders == {c \in Calls : order[c] # NoOrder}

(* findIdempotentOrder: a call without a request id finds nothing. *)
OrdersWith(r) == {c \in PlacedOrders : order[c].request = r}   \* mutant: no early return
OrdersOf(r) == {c \in PlacedOrders : order[c].request = r /\ r # NoRequest}

-----------------------------------------------------------------------------

StartCall(c, r) ==
  /\ call[c].pc = "none"
  /\ call' = [call EXCEPT ![c].pc = "checking", ![c].request = r]
  /\ UNCHANGED <<order, counter, today>>

(* The call is answered with an order of its request, if there is one. *)
AnswersWith(c, o) ==
  call' = [call EXCEPT ![c].pc = "answered", ![c].answer = o]

MovesTo(c, pc) == call' = [call EXCEPT ![c].pc = pc]

(* The look before the transaction. *)
CheckRequest(c) ==
  /\ call[c].pc = "checking"
  /\ \/ \E o \in OrdersOf(call[c].request) : AnswersWith(c, o)
     \/ OrdersOf(call[c].request) = {} /\ MovesTo(c, "opening")
  /\ UNCHANGED <<order, counter, today>>

(* The transaction's first read looks again and fixes its snapshot. *)
OpenTransaction(c) ==
  /\ call[c].pc = "opening"
  /\ \/ \E o \in OrdersOf(call[c].request) : AnswersWith(c, o)
     \/ /\ OrdersOf(call[c].request) = {}
        /\ call' = [call EXCEPT ![c].pc = "validating",
                                ![c].knows = {d \in Days : counter[d] > 0}]
  /\ UNCHANGED <<order, counter, today>>

(* The store is closed, an item is unknown or badly selected, and so on. *)
RejectOrder(c) ==
  /\ call[c].pc \in {"opening", "validating"}
  /\ MovesTo(c, "failed")
  /\ UNCHANGED <<order, counter, today>>

(* allocatePickupCode reads the clock, then waits for the counter's row. *)
AskForCode(c) ==
  /\ call[c].pc = "validating"
  /\ call' = [call EXCEPT ![c].pc = "waiting", ![c].day = today]
  /\ UNCHANGED <<order, counter, today>>

(* mutants: the lock ends with the upsert; a failed transaction stays open. *)
HeldForUpsert(c, d) == call[c].pc = "holding" /\ call[c].day = d
HeldAfterFailure(c, d) == call[c].pc \in {"holding", "writing", "failed"} /\ call[c].day = d
HoldsCounter(c, d) == call[c].pc \in {"holding", "writing"} /\ call[c].day = d

ExceedsByOne(n) == n > Capacity + 1   \* mutant: off by one
Exceeds(n) == n > Capacity

(* The upsert reads its snapshot and then inserts or increments: an insert *)
(* fails if the row has come up since.                                     *)
AllocatePickupCode(c) ==
  LET d == call[c].day
  IN /\ call[c].pc = "waiting"
     /\ \A other \in Calls : ~HoldsCounter(other, d)
     /\ \/ counter[d] > 0 /\ d \notin call[c].knows /\ MovesTo(c, "recovering")
        \/ /\ counter[d] = 0 \/ d \in call[c].knows
           /\ IF Exceeds(counter[d] + 1)
                THEN MovesTo(c, "failed")
                ELSE call' = [call EXCEPT ![c].pc = "holding", ![c].seq = counter[d] + 1]
     /\ UNCHANGED <<order, counter, today>>

(* The unique indexes of orders: an insert waits for the transaction that  *)
(* has put in the same key, and fails if that key is there.                *)
SameRequest(c, other) == call[c].request = call[other].request /\ call[c].request # NoRequest

ClashesOnCode(c) ==   \* mutant: no unique index on the request
  \E o \in PlacedOrders : order[o].day = call[c].day /\ order[o].seq = call[c].seq

ClashesWithOrder(c) ==
  \/ OrdersOf(call[c].request) # {}
  \/ \E o \in PlacedOrders : order[o].day = call[c].day /\ order[o].seq = call[c].seq

WriteOrder(c) ==
  /\ call[c].pc = "holding"
  /\ \A other \in Calls : call[other].pc = "writing" => ~SameRequest(c, other)
  /\ IF ClashesWithOrder(c) THEN MovesTo(c, "recovering") ELSE MovesTo(c, "writing")
  /\ UNCHANGED <<order, counter, today>>

(* The order, its outbox rows and the counter become visible together. *)
CommitOrder(c) ==
  /\ call[c].pc = "writing"
  /\ order' = [order EXCEPT ![c] =
       [request |-> call[c].request, day |-> call[c].day, seq |-> call[c].seq]]
  /\ counter' = [counter EXCEPT ![call[c].day] = call[c].seq]
  /\ MovesTo(c, "committed")
  /\ UNCHANGED today

AnswerOrder(c) ==
  /\ call[c].pc = "committed"
  /\ AnswersWith(c, c)
  /\ UNCHANGED <<order, counter, today>>

(* After a unique conflict: the request's order, or the error. *)
RecoverFromConflict(c) ==
  /\ call[c].pc = "recovering"
  /\ \/ \E o \in OrdersOf(call[c].request) : AnswersWith(c, o)
     \/ OrdersOf(call[c].request) = {} /\ MovesTo(c, "failed")
  /\ UNCHANGED <<order, counter, today>>

(* A deadlock, a timeout, a lost connection; from "committed" on, only the *)
(* acknowledgement of the commit is lost.                                  *)
Running(c) == call[c].pc \notin {"none", "answered", "failed", "lost"}

DatabaseFails(c) ==
  /\ Running(c)
  /\ MovesTo(c, "failed")
  /\ UNCHANGED <<order, counter, today>>

(* The process dies: the transaction is rolled back, nobody is answered. *)
Die(c) ==
  /\ Running(c)
  /\ MovesTo(c, "lost")
  /\ UNCHANGED <<order, counter, today>>

Midnight ==
  /\ today < MaxDay
  /\ today' = today + 1
  /\ UNCHANGED <<order, counter, call>>

-----------------------------------------------------------------------------

Proceed(c) ==
  \/ CheckRequest(c)
  \/ OpenTransaction(c)
  \/ RejectOrder(c)
  \/ AskForCode(c)
  \/ AllocatePickupCode(c)
  \/ WriteOrder(c)
  \/ CommitOrder(c)
  \/ AnswerOrder(c)
  \/ RecoverFromConflict(c)

Next ==
  \/ \E c \in Calls :
       \/ \E r \in Requests \cup {NoRequest} : StartCall(c, r)
       \/ Proceed(c)
       \/ DatabaseFails(c)
       \/ Die(c)
  \/ Midnight

Spec == Init /\ [][Next]_vars

(* A process runs its calls; InnoDB grants its row locks in turn. *)
LiveSpec == Spec /\ \A c \in Calls : WF_vars(Proceed(c))

-----------------------------------------------------------------------------
(* Properties. *)

(* Whatever is repeated, rolled back or killed, the codes of a day are the *)
(* numbers from 1 up to the counter, each on exactly one order.            *)
CodesAreGapless ==
  \A d \in Days :
    LET ofDay == {c \in PlacedOrders : order[c].day = d}
    IN /\ {order[c].seq : c \in ofDay} = 1 .. counter[d]
       /\ \A a, b \in ofDay : order[a].seq = order[b].seq => a = b

(* A request has at most one order, however its calls interleave. *)
OneOrderPerRequest ==
  \A r \in Requests : \A a, b \in OrdersOf(r) : a = b

(* Whoever is answered is shown a placed order of his own request, or, if  *)
(* he gave no request id, the order his call has made.                     *)
AnswersAreOwn ==
  \A c \in Calls : call[c].pc = "answered" =>
    /\ call[c].answer \in PlacedOrders
    /\ order[call[c].answer].request = call[c].request
    /\ call[c].request = NoRequest => call[c].answer = c

(* A unique conflict means that the request already has its order, or that *)
(* the first order of the day came up after the snapshot: the index on     *)
(* pickup codes itself never refuses an order.                             *)
ConflictsHaveACause ==
  \A c \in Calls : call[c].pc = "recovering" =>
    \/ OrdersOf(call[c].request) # {}
    \/ counter[call[c].day] > 0 /\ call[c].day \notin call[c].knows

(* createOrder is atomic and idempotent, as OrderBook has it. *)
Book == INSTANCE OrderBook WITH answer <- [c \in Calls |-> call[c].answer]

ImplementsBook == Book!BookSpec

(* Liveness: no call waits for ever for the locks of the others. *)
CallsEnd == \A c \in Calls : Running(c) ~> ~Running(c)
=============================================================================
