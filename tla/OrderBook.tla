------------------------------ MODULE OrderBook ------------------------------
(***************************************************************************)
(* What createOrder promises: placing an order is one indivisible step that *)
(* takes the next pickup code of the day, a request is placed at most once, *)
(* and whoever asks again is shown the order the request already has.      *)
(***************************************************************************)
EXTENDS Naturals

CONSTANTS
  Calls,      \* createOrder calls; an order is known by the call that made it
  Requests,   \* (customer, clientRequestId) pairs
  NoRequest,  \* a call without a clientRequestId
  NoOrder,
  Days,       \* Shanghai business days, numbered
  Capacity    \* how many codes the format of PICKUP_CODE_FORMATS holds

VARIABLES
  order,    \* the orders placed
  counter,  \* the last number of each day
  answer    \* the order each call was answered with

bookVars == <<order, counter, answer>>

PlacedOrders == {c \in Calls : order[c] # NoOrder}
OrdersOf(r) == {c \in PlacedOrders : order[c].request = r /\ r # NoRequest}

BookInit ==
  /\ order = [c \in Calls |-> NoOrder]
  /\ counter = [d \in Days |-> 0]
  /\ answer = [c \in Calls |-> NoOrder]

Place(c, r, d) ==
  /\ order[c] = NoOrder
  /\ OrdersOf(r) = {}
  /\ counter[d] < Capacity
  /\ counter' = [counter EXCEPT ![d] = @ + 1]
  /\ order' = [order EXCEPT ![c] = [request |-> r, day |-> d, seq |-> counter[d] + 1]]
  /\ UNCHANGED answer

(* A call is answered once, with its own order or with its request's.      *)
Reply(c, o) ==
  /\ answer[c] = NoOrder
  /\ o \in PlacedOrders
  /\ o = c \/ o \in OrdersOf(order[o].request)
  /\ answer' = [answer EXCEPT ![c] = o]
  /\ UNCHANGED <<order, counter>>

BookNext ==
  \E c \in Calls :
    \/ \E r \in Requests \cup {NoRequest}, d \in Days : Place(c, r, d)
    \/ \E o \in Calls : Reply(c, o)

BookSpec == BookInit /\ [][BookNext]_bookVars
=============================================================================
