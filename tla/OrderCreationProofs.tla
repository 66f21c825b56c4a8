------------------------- MODULE OrderCreationProofs -------------------------
(***************************************************************************)
(* How an order is placed and passed on: createOrder, and in the second    *)
(* part the outbox that carries the order to the connectors.               *)
(*                                                                         *)
(* createOrder for any number of calls, requests and days and any capacity *)
(* of the pickup codes.  The argument rests on the counter's row lock: who *)
(* holds it has the number after the committed one, and nobody else can    *)
(* place an order of that day before he is done.                           *)
(***************************************************************************)
EXTENDS OrderCreation, IntegrationOutbox, FiniteSetTheorems, TLAPS

LockInv ==
  /\ \A a, b \in Calls : \A d \in Days : HoldsCounter(a, d) /\ HoldsCounter(b, d) => a = b
  /\ \A c \in Calls : call[c].pc \in {"holding", "writing"} => call[c].seq = counter[call[c].day] + 1

(* An order is inserted only for a request that has none, and nobody else  *)
(* inserts one for it meanwhile.                                           *)
InsertInv ==
  /\ \A c \in Calls : call[c].pc = "writing" => OrdersOf(call[c].request) = {}
  /\ \A a, b \in Calls :
       call[a].pc = "writing" /\ call[b].pc = "writing" /\ SameRequest(a, b) => a = b

(* What a call has left behind, and what it says.                          *)
CallsInv ==
  \A c \in Calls :
    /\ order[c] # NoOrder =>
         /\ call[c].pc \in {"committed", "answered", "failed", "lost"}
         /\ order[c].request = call[c].request
    /\ call[c].pc = "committed" => order[c] # NoOrder
    /\ call[c].pc # "answered" => call[c].answer = NoOrder

CreationInv ==
  /\ TypeOK /\ LockInv /\ InsertInv /\ CallsInv
  /\ CodesAreGapless /\ OneOrderPerRequest /\ AnswersAreOwn /\ ConflictsHaveACause

LEMMA InitCreation == Init => CreationInv
<1> SUFFICES ASSUME Init PROVE CreationInv
  OBVIOUS
<1> USE CreationAssumption DEF Init, CreationAssumption
<1>1. TypeOK
  BY DEF TypeOK, Call, Days
<1>2. PlacedOrders = {}
  BY DEF PlacedOrders
<1>3. LockInv /\ InsertInv /\ CallsInv
  BY DEF LockInv, InsertInv, CallsInv, HoldsCounter
<1>4. CodesAreGapless
  BY <1>2 DEF CodesAreGapless, Days
<1>5. OneOrderPerRequest /\ AnswersAreOwn /\ ConflictsHaveACause
  BY <1>2 DEF OneOrderPerRequest, OrdersOf, AnswersAreOwn, ConflictsHaveACause
<1>6. QED
  BY <1>1, <1>3, <1>4, <1>5 DEF CreationInv

(* One call moves and no order is placed: what has to be shown of it.      *)
LEMMA CallMoves ==
  ASSUME CreationInv, NEW c \in Calls, UNCHANGED <<order, counter, today>>,
         NEW new \in Call, call' = [call EXCEPT ![c] = new],
         new.pc \in {"holding", "writing"} =>
           /\ new.seq = counter[new.day] + 1
           /\ \A other \in Calls : other # c => ~HoldsCounter(other, new.day),
         new.pc = "writing" =>
           /\ OrdersOf(new.request) = {}
           /\ \A other \in Calls : call[other].pc = "writing" =>
                new.request # call[other].request \/ new.request = NoRequest,
         new.request = call[c].request \/ call[c].pc = "none",
         call[c].pc \in {"committed", "answered", "failed", "lost"} =>
           new.pc \in {"committed", "answered", "failed", "lost"},
         new.pc = "committed" => order[c] # NoOrder,
         new.pc # "answered" => new.answer = NoOrder,
         new.pc = "answered" =>
           /\ new.answer \in PlacedOrders
           /\ order[new.answer].request = new.request
           /\ new.request = NoRequest => new.answer = c,
         new.pc = "recovering" =>
           OrdersOf(new.request) # {} \/ (counter[new.day] > 0 /\ new.day \notin new.knows)
  PROVE  CreationInv'
<1>1. call \in [Calls -> Call]
  BY DEF CreationInv, TypeOK
<1>2. call'[c] = new /\ \A q \in Calls : q # c => call'[q] = call[q]
  BY <1>1
<1>3. TypeOK'
  BY <1>1 DEF CreationInv, TypeOK
<1>4. PlacedOrders' = PlacedOrders /\ \A r : OrdersOf(r)' = OrdersOf(r)
  BY DEF PlacedOrders, OrdersOf
<1>5. LockInv'
  <2>1. \A q \in Calls : \A d \in Days : q # c => (HoldsCounter(q, d)' <=> HoldsCounter(q, d))
    BY <1>2 DEF HoldsCounter
  <2>2. \A d \in Days : HoldsCounter(c, d)' => new.pc \in {"holding", "writing"} /\ d = new.day
    BY <1>2 DEF HoldsCounter
  <2>3. QED
    BY <1>2, <2>1, <2>2 DEF CreationInv, LockInv
<1>6. InsertInv'
  BY <1>2, <1>4 DEF CreationInv, InsertInv, SameRequest
<1>7. CallsInv'
  BY <1>2 DEF CreationInv, CallsInv
<1>8. CodesAreGapless' /\ OneOrderPerRequest'
  BY <1>4 DEF CreationInv, CodesAreGapless, OneOrderPerRequest
<1>9. AnswersAreOwn'
  BY <1>2, <1>4 DEF CreationInv, AnswersAreOwn
<1>10. ConflictsHaveACause'
  BY <1>2, <1>4 DEF CreationInv, ConflictsHaveACause
<1>11. QED
  BY <1>3, <1>5, <1>6, <1>7, <1>8, <1>9, <1>10 DEF CreationInv

(* A call that ends or only moves on, without taking or inserting anything. *)
LEMMA MovesOn ==
  ASSUME CreationInv, NEW c \in Calls, UNCHANGED <<order, counter, today>>,
         Running(c), NEW pc \in {"opening", "failed", "lost"}, MovesTo(c, pc),
         pc = "opening" => call[c].pc = "checking"
  PROVE  CreationInv'
<1> DEFINE new == [call[c] EXCEPT !.pc = pc]
<1>1. call \in [Calls -> Call] /\ call[c] \in Call
  BY DEF CreationInv, TypeOK
<1>2. new \in Call /\ new.pc = pc /\ new.request = call[c].request /\ new.answer = call[c].answer
  BY <1>1 DEF Call
<1>3. call' = [call EXCEPT ![c] = new]
  BY <1>1 DEF MovesTo
<1>4. new.answer = NoOrder
  BY <1>2 DEF Running, CreationInv, CallsInv
<1> HIDE DEF new
<1>5. QED
  BY <1>2, <1>3, <1>4, CallMoves DEF Running

(* An answer names an order of the call's own request.                     *)
LEMMA AnswerStep ==
  ASSUME CreationInv, NEW c \in Calls, UNCHANGED <<order, counter, today>>,
         NEW o \in Calls, AnswersWith(c, o), Running(c),
         o \in OrdersOf(call[c].request) \/ (o = c /\ order[c] # NoOrder)
  PROVE  CreationInv'
<1> DEFINE new == [call[c] EXCEPT !.pc = "answered", !.answer = o]
<1>1. call \in [Calls -> Call] /\ call[c] \in Call
  BY DEF CreationInv, TypeOK
<1>2. new \in Call /\ new.pc = "answered" /\ new.request = call[c].request /\ new.answer = o
  BY <1>1 DEF Call
<1>3. call' = [call EXCEPT ![c] = new]
  BY <1>1 DEF AnswersWith
<1>4. /\ o \in PlacedOrders
      /\ order[o].request = call[c].request
      /\ call[c].request = NoRequest => o = c
  BY DEF OrdersOf, PlacedOrders, CreationInv, CallsInv
<1> HIDE DEF new
<1>5. QED
  BY <1>2, <1>3, <1>4, CallMoves DEF Running

LEMMA StartStep ==
  ASSUME CreationInv, NEW c \in Calls, NEW r \in Requests \cup {NoRequest}, StartCall(c, r)
  PROVE  CreationInv'
<1> DEFINE new == [call[c] EXCEPT !.pc = "checking", !.request = r]
<1>1. call \in [Calls -> Call] /\ call[c] \in Call
  BY DEF CreationInv, TypeOK
<1>2. new \in Call /\ new.pc = "checking" /\ new.answer = call[c].answer
  BY <1>1 DEF Call
<1>3. call' = [call EXCEPT ![c] = new] /\ UNCHANGED <<order, counter, today>> /\ call[c].pc = "none"
  BY <1>1 DEF StartCall
<1>4. new.answer = NoOrder
  BY <1>2, <1>3 DEF CreationInv, CallsInv
<1> HIDE DEF new
<1>5. QED
  BY <1>2, <1>3, <1>4, CallMoves

LEMMA OpenStep ==
  ASSUME CreationInv, NEW c \in Calls, CheckRequest(c) \/ OpenTransaction(c) \/ AskForCode(c)
  PROVE  CreationInv'
<1>1. call \in [Calls -> Call] /\ call[c] \in Call /\ today \in Days
  BY DEF CreationInv, TypeOK
<1>2. /\ UNCHANGED <<order, counter, today>>
      /\ call[c].pc \in {"checking", "opening", "validating"}
      /\ Running(c)
  BY DEF CheckRequest, OpenTransaction, AskForCode, Running
<1>3. CASE \E o \in OrdersOf(call[c].request) : AnswersWith(c, o)
  BY <1>2, <1>3, AnswerStep DEF OrdersOf, PlacedOrders
<1>4. CASE CheckRequest(c) /\ MovesTo(c, "opening")
  BY <1>2, <1>4, MovesOn DEF CheckRequest
<1>5. ASSUME NEW knows \in SUBSET Days, NEW day \in Days, NEW pc \in {"validating", "waiting"},
             call' = [call EXCEPT ![c] = [call[c] EXCEPT !.pc = pc, !.knows = knows, !.day = day]]
      PROVE  CreationInv'
  <2> DEFINE new == [call[c] EXCEPT !.pc = pc, !.knows = knows, !.day = day]
  <2>1. new \in Call /\ new.pc = pc /\ new.request = call[c].request /\ new.answer = call[c].answer
    BY <1>1 DEF Call
  <2>2. new.answer = NoOrder
    BY <1>2, <2>1 DEF CreationInv, CallsInv
  <2>3. call' = [call EXCEPT ![c] = new]
    BY <1>5
  <2> HIDE DEF new
  <2>4. QED
    BY <1>2, <2>1, <2>2, <2>3, CallMoves
<1>6. CASE OpenTransaction(c) /\ ~\E o \in OrdersOf(call[c].request) : AnswersWith(c, o)
  <2> DEFINE knows == {d \in Days : counter[d] > 0}
  <2>1. call' = [call EXCEPT ![c].pc = "validating", ![c].knows = knows]
    BY <1>6 DEF OpenTransaction
  <2>2. call' = [call EXCEPT ![c] =
          [call[c] EXCEPT !.pc = "validating", !.knows = knows, !.day = call[c].day]]
    BY <1>1, <2>1 DEF Call
  <2>3. knows \in SUBSET Days /\ call[c].day \in Days
    BY <1>1 DEF Call
  <2> HIDE DEF knows
  <2>4. QED
    BY <1>5, <2>2, <2>3
<1>7. CASE AskForCode(c)
  <2>1. call' = [call EXCEPT ![c] =
          [call[c] EXCEPT !.pc = "waiting", !.knows = call[c].knows, !.day = today]]
    BY <1>1, <1>7 DEF AskForCode, Call
  <2>2. call[c].knows \in SUBSET Days
    BY <1>1 DEF Call
  <2>3. QED
    BY <1>1, <1>5, <2>1, <2>2
<1>8. QED
  BY <1>3, <1>4, <1>6, <1>7 DEF CheckRequest

(* The lock's holder gets the number after the committed one.              *)
LEMMA AllocateStep ==
  ASSUME CreationInv, NEW c \in Calls, AllocatePickupCode(c)
  PROVE  CreationInv'
<1> DEFINE d == call[c].day
<1>1. /\ call \in [Calls -> Call] /\ call[c] \in Call
      /\ d \in Days /\ counter[d] \in 0 .. Capacity
  BY DEF CreationInv, TypeOK, Call
<1>2. /\ UNCHANGED <<order, counter, today>> /\ call[c].pc = "waiting" /\ Running(c)
      /\ \A other \in Calls : ~HoldsCounter(other, d)
  BY DEF AllocatePickupCode, Running
<1>3. call[c].answer = NoOrder
  BY <1>2 DEF CreationInv, CallsInv
<1>4. CASE counter[d] > 0 /\ d \notin call[c].knows /\ MovesTo(c, "recovering")
  <2> DEFINE new == [call[c] EXCEPT !.pc = "recovering"]
  <2>1. /\ new \in Call /\ new.pc = "recovering" /\ new.request = call[c].request
        /\ new.answer = call[c].answer /\ new.day = d /\ new.knows = call[c].knows
    BY <1>1 DEF Call
  <2>2. call' = [call EXCEPT ![c] = new]
    BY <1>1, <1>4 DEF MovesTo
  <2> HIDE DEF new
  <2>3. QED
    BY <1>2, <1>3, <1>4, <2>1, <2>2, CallMoves
<1>5. CASE MovesTo(c, "failed")
  BY <1>2, <1>5, MovesOn
<1>6. CASE ~Exceeds(counter[d] + 1)
           /\ call' = [call EXCEPT ![c].pc = "holding", ![c].seq = counter[d] + 1]
  <2> DEFINE new == [call[c] EXCEPT !.pc = "holding", !.seq = counter[d] + 1]
  <2>1. counter[d] + 1 \in 0 .. Capacity
    BY <1>1, <1>6, CreationAssumption DEF Exceeds, CreationAssumption
  <2>2. /\ new \in Call /\ new.pc = "holding" /\ new.request = call[c].request
        /\ new.answer = call[c].answer /\ new.day = d /\ new.seq = counter[d] + 1
    BY <1>1, <2>1 DEF Call
  <2>3. call' = [call EXCEPT ![c] = new]
    BY <1>1, <1>6
  <2> HIDE DEF new
  <2>4. QED
    BY <1>2, <1>3, <2>2, <2>3, CallMoves
<1>7. QED
  BY <1>4, <1>5, <1>6 DEF AllocatePickupCode

(* The holder's number is on no order yet, so that only the request's own  *)
(* index can refuse him.                                                   *)
LEMMA WriteStep ==
  ASSUME CreationInv, NEW c \in Calls, WriteOrder(c)
  PROVE  CreationInv'
<1> DEFINE d == call[c].day
<1>1. /\ call \in [Calls -> Call] /\ call[c] \in Call
      /\ d \in Days /\ counter[d] \in 0 .. Capacity
  BY DEF CreationInv, TypeOK, Call
<1>2. /\ UNCHANGED <<order, counter, today>> /\ call[c].pc = "holding"
      /\ \A other \in Calls : call[other].pc = "writing" => ~SameRequest(c, other)
  BY DEF WriteOrder
<1>3. call[c].answer = NoOrder /\ call[c].seq = counter[d] + 1
  BY <1>2 DEF CreationInv, CallsInv, LockInv
<1>4. ~\E o \in PlacedOrders : order[o].day = d /\ order[o].seq = call[c].seq
  <2>1. ASSUME NEW o \in PlacedOrders, order[o].day = d, order[o].seq = call[c].seq
        PROVE  FALSE
    <3>1. order[o].seq \in 1 .. counter[d]
      BY <1>1, <2>1 DEF CreationInv, CodesAreGapless
    <3>2. QED
      BY <1>1, <1>3, <2>1, <3>1
  <2>2. QED
    BY <2>1
<1>5. PICK pc \in {"recovering", "writing"} :
        /\ MovesTo(c, pc)
        /\ pc = "recovering" => OrdersOf(call[c].request) # {}
        /\ pc = "writing" => OrdersOf(call[c].request) = {}
  BY <1>4 DEF WriteOrder, ClashesWithOrder
<1> DEFINE new == [call[c] EXCEPT !.pc = pc]
<1>6. /\ new \in Call /\ new.pc = pc /\ new.request = call[c].request
      /\ new.answer = call[c].answer /\ new.day = d /\ new.seq = call[c].seq
  BY <1>1 DEF Call
<1>7. call' = [call EXCEPT ![c] = new]
  BY <1>1, <1>5 DEF MovesTo
<1>8. \A other \in Calls : other # c => ~HoldsCounter(other, d)
  BY <1>1, <1>2 DEF CreationInv, LockInv, HoldsCounter
<1>9. \A other \in Calls : call[other].pc = "writing" =>
        new.request # call[other].request \/ new.request = NoRequest
  BY <1>2, <1>6 DEF SameRequest
<1> HIDE DEF new
<1>10. QED
  BY <1>2, <1>3, <1>5, <1>6, <1>7, <1>8, <1>9, CallMoves

(* The commit: the order gets the day's next number.                       *)
LEMMA CommitStep ==
  ASSUME CreationInv, NEW c \in Calls, CommitOrder(c)
  PROVE  CreationInv'
<1> DEFINE d == call[c].day
           r == call[c].request
           placed == [request |-> r, day |-> d, seq |-> call[c].seq]
<1>1. /\ call \in [Calls -> Call] /\ call[c] \in Call /\ counter \in [Days -> 0 .. Capacity]
      /\ order \in [Calls -> Order \cup {NoOrder}]
      /\ d \in Days /\ counter[d] \in Nat /\ call[c].seq \in 0 .. Capacity
      /\ r \in Requests \cup {NoRequest}
  BY CreationAssumption DEF CreationInv, TypeOK, Call, CreationAssumption
<1>2. /\ call[c].pc = "writing" /\ call[c].seq = counter[d] + 1 /\ call[c].answer = NoOrder
      /\ order[c] = NoOrder /\ OrdersOf(r) = {}
  BY DEF CommitOrder, CreationInv, LockInv, CallsInv, InsertInv
<1>3. call[c].seq \in 1 .. Capacity /\ placed \in Order /\ placed # NoOrder
  <2>1. call[c].seq \in 1 .. Capacity
    BY <1>1, <1>2, CreationAssumption DEF CreationAssumption
  <2>2. QED
    BY <1>1, <2>1, CreationAssumption DEF Order, CreationAssumption, Days
<1> HIDE DEF placed
<1>4. /\ order' = [order EXCEPT ![c] = placed] /\ counter' = [counter EXCEPT ![d] = counter[d] + 1]
      /\ call' = [call EXCEPT ![c].pc = "committed"] /\ today' = today
  BY <1>2 DEF CommitOrder, MovesTo, placed
<1>5. /\ order'[c] = placed /\ \A q \in Calls : q # c => order'[q] = order[q]
      /\ counter'[d] = counter[d] + 1 /\ \A e \in Days : e # d => counter'[e] = counter[e]
      /\ call'[c] = [call[c] EXCEPT !.pc = "committed"] /\ \A q \in Calls : q # c => call'[q] = call[q]
  BY <1>1, <1>4
<1>6. placed.request = r /\ placed.day = d /\ placed.seq = counter[d] + 1
  BY <1>2 DEF placed
<1>7. PlacedOrders' = PlacedOrders \cup {c} /\ c \notin PlacedOrders
  BY <1>2, <1>3, <1>5 DEF PlacedOrders
<1>8. TypeOK'
  BY <1>1, <1>2, <1>3, <1>4 DEF CreationInv, TypeOK, Call
<1>9. \A q \in Calls \ {c} : call[q].pc \in {"holding", "writing"} => call[q].day # d
  BY <1>1, <1>2 DEF CreationInv, LockInv, HoldsCounter
<1>10. LockInv'
  <2>1. \A q \in Calls : \A e \in Days : HoldsCounter(q, e)' => HoldsCounter(q, e) /\ q # c
    BY <1>1, <1>5 DEF HoldsCounter, Call
  <2>2. ASSUME NEW q \in Calls, call'[q].pc \in {"holding", "writing"}
        PROVE  call'[q].seq = counter'[call'[q].day] + 1
    <3>1. q # c
      BY <1>1, <1>5, <2>2 DEF Call
    <3>2. call'[q] = call[q] /\ call[q].day \in Days /\ call[q].day # d
      BY <1>1, <1>5, <1>9, <2>2, <3>1 DEF Call
    <3>3. QED
      BY <1>5, <2>2, <3>2 DEF CreationInv, LockInv
  <2>3. QED
    BY <2>1, <2>2 DEF CreationInv, LockInv
<1>11. InsertInv'
  <2>1. ASSUME NEW q \in Calls, call'[q].pc = "writing"
        PROVE  q # c /\ call'[q] = call[q]
    BY <1>1, <1>5, <2>1 DEF Call
  <2>2. ASSUME NEW q \in Calls, call'[q].pc = "writing"
        PROVE  OrdersOf(call[q].request)' = {}
    <3>1. ~SameRequest(q, c) /\ OrdersOf(call[q].request) = {}
      BY <1>2, <2>1, <2>2 DEF CreationInv, InsertInv
    <3>2. QED
      BY <1>5, <1>6, <2>1, <2>2, <3>1 DEF SameRequest, OrdersOf, PlacedOrders
  <2>3. \A a, b \in Calls :
          (call[a].pc = "writing" /\ call[b].pc = "writing" /\ SameRequest(a, b))' => a = b
    BY <2>1 DEF CreationInv, InsertInv, SameRequest
  <2>4. QED
    BY <2>2, <2>3 DEF InsertInv
<1>12. CallsInv'
  BY <1>1, <1>2, <1>3, <1>5, <1>6 DEF CreationInv, CallsInv, Call
<1>13. CodesAreGapless'
  <2>1. ASSUME NEW e \in Days
        PROVE  LET ofDay == {q \in PlacedOrders' : order'[q].day = e}
               IN /\ {order'[q].seq : q \in ofDay} = 1 .. counter'[e]
                  /\ \A a, b \in ofDay : order'[a].seq = order'[b].seq => a = b
    <3> DEFINE before == {q \in PlacedOrders : order[q].day = e}
               after == {q \in PlacedOrders' : order'[q].day = e}
    <3>1. /\ {order[q].seq : q \in before} = 1 .. counter[e]
          /\ \A a, b \in before : order[a].seq = order[b].seq => a = b
      BY DEF CreationInv, CodesAreGapless
    <3>2. c \notin before /\ \A q \in before : order'[q] = order[q]
      BY <1>5, <1>7 DEF PlacedOrders
    <3>3. CASE e # d
      <4>1. after = before
        BY <1>5, <1>6, <1>7, <3>3 DEF PlacedOrders
      <4>2. QED
        BY <1>5, <3>1, <3>2, <3>3, <4>1
    <3>4. CASE e = d
      <4>1. after = before \cup {c}
        BY <1>5, <1>6, <1>7, <3>4 DEF PlacedOrders
      <4>2. order'[c].seq = counter[d] + 1
        BY <1>5, <1>6
      <4>3. \A q \in before : order[q].seq \in 1 .. counter[d]
        BY <3>1, <3>4
      <4>4. {order'[q].seq : q \in after} = {order[q].seq : q \in before} \cup {counter[d] + 1}
        BY <3>2, <4>1, <4>2
      <4>5. {order'[q].seq : q \in after} = 1 .. counter'[e]
        <5>1. (1 .. counter[d]) \cup {counter[d] + 1} = 1 .. (counter[d] + 1)
          BY <1>1
        <5>2. {order'[q].seq : q \in after} = (1 .. counter[d]) \cup {counter[d] + 1}
          BY <3>1, <3>4, <4>4
        <5>3. QED
          BY <1>5, <3>4, <5>1, <5>2
      <4>6. \A q \in before : order'[q].seq # order'[c].seq
        BY <1>1, <3>2, <4>2, <4>3
      <4>7. QED
        BY <3>1, <3>2, <4>1, <4>5, <4>6
    <3>5. QED
      BY <3>3, <3>4
  <2>2. QED
    BY <2>1 DEF CodesAreGapless
<1>14. OneOrderPerRequest'
  BY <1>2, <1>5, <1>6 DEF CreationInv, OneOrderPerRequest, OrdersOf, PlacedOrders
<1>15. AnswersAreOwn'
  <2>1. ASSUME NEW q \in Calls, call'[q].pc = "answered"
        PROVE  /\ call'[q] = call[q] /\ call[q].answer \in PlacedOrders
               /\ order[call[q].answer].request = call[q].request
               /\ call[q].request = NoRequest => call[q].answer = q
    BY <1>1, <1>5, <2>1 DEF CreationInv, AnswersAreOwn, Call
  <2>2. \A o \in PlacedOrders : o \in PlacedOrders' /\ order'[o] = order[o]
    BY <1>2, <1>5 DEF PlacedOrders
  <2>3. QED
    BY <2>1, <2>2 DEF AnswersAreOwn
<1>16. ConflictsHaveACause'
  <2>1. ASSUME NEW q \in Calls, call'[q].pc = "recovering"
        PROVE  OrdersOf(call[q].request)' # {}
               \/ (counter'[call'[q].day] > 0 /\ call'[q].day \notin call'[q].knows)
    <3>1. q # c /\ call'[q] = call[q] /\ call[q].day \in Days
      BY <1>1, <1>5, <2>1 DEF Call
    <3>2. counter[call[q].day] > 0 => counter'[call[q].day] > 0
      BY <1>1, <1>5, <3>1
    <3>3. OrdersOf(call[q].request) # {} => OrdersOf(call[q].request)' # {}
      BY <1>2, <1>5, <3>1 DEF OrdersOf, PlacedOrders
    <3>4. QED
      BY <2>1, <3>1, <3>2, <3>3 DEF CreationInv, ConflictsHaveACause
  <2>2. QED
    BY <2>1 DEF ConflictsHaveACause
<1>17. QED
  BY <1>8, <1>10, <1>11, <1>12, <1>13, <1>14, <1>15, <1>16 DEF CreationInv

LEMMA CreationStep == CreationInv /\ [Next]_vars => CreationInv'
<1> SUFFICES ASSUME CreationInv, [Next]_vars PROVE CreationInv'
  OBVIOUS
<1>1. CASE UNCHANGED vars
  BY <1>1 DEF vars, CreationInv, TypeOK, LockInv, HoldsCounter, InsertInv, SameRequest, CallsInv,
       CodesAreGapless, OneOrderPerRequest, AnswersAreOwn, ConflictsHaveACause, OrdersOf, PlacedOrders
<1>2. ASSUME NEW c \in Calls, NEW r \in Requests \cup {NoRequest}, StartCall(c, r)
      PROVE  CreationInv'
  BY <1>2, StartStep
<1>3. ASSUME NEW c \in Calls, CheckRequest(c) \/ OpenTransaction(c) \/ AskForCode(c)
      PROVE  CreationInv'
  BY <1>3, OpenStep
<1>4. ASSUME NEW c \in Calls, AllocatePickupCode(c) \/ WriteOrder(c) \/ CommitOrder(c)
      PROVE  CreationInv'
  BY <1>4, AllocateStep, WriteStep, CommitStep
<1>5. ASSUME NEW c \in Calls, RejectOrder(c) \/ DatabaseFails(c) \/ Die(c)
      PROVE  CreationInv'
  BY <1>5, MovesOn DEF RejectOrder, DatabaseFails, Die, Running
<1>6. ASSUME NEW c \in Calls, AnswerOrder(c)
      PROVE  CreationInv'
  BY <1>6, AnswerStep DEF AnswerOrder, Running, CreationInv, CallsInv
<1>7. ASSUME NEW c \in Calls, RecoverFromConflict(c)
      PROVE  CreationInv'
  BY <1>7, AnswerStep, MovesOn DEF RecoverFromConflict, Running, OrdersOf, PlacedOrders
<1>8. CASE Midnight
  <2>1. today' \in Days /\ UNCHANGED <<order, counter, call>>
    BY <1>8, CreationAssumption DEF Midnight, Days, CreationInv, TypeOK, CreationAssumption
  <2>2. QED
    BY <2>1 DEF CreationInv, TypeOK, LockInv, HoldsCounter, InsertInv, SameRequest, CallsInv,
       CodesAreGapless, OneOrderPerRequest, AnswersAreOwn, ConflictsHaveACause, OrdersOf, PlacedOrders
<1>9. QED
  BY <1>1, <1>2, <1>3, <1>4, <1>5, <1>6, <1>7, <1>8 DEF Next, Proceed

LEMMA CreationHolds == Spec => []CreationInv
BY InitCreation, CreationStep, PTL DEF Spec

(* Orders, counters and calls keep their types: no number leaves its width. *)
THEOREM CreationIsTyped == Spec => []TypeOK
<1>1. CreationInv => TypeOK
  BY DEF CreationInv
<1>2. QED
  BY <1>1, CreationHolds, PTL

(* The pickup codes of a day are 1, 2, 3 and so on, each on one order.     *)
THEOREM PickupCodesAreGapless == Spec => []CodesAreGapless
<1>1. CreationInv => CodesAreGapless
  BY DEF CreationInv
<1>2. QED
  BY <1>1, CreationHolds, PTL

(* However often a customer repeats a request, it has one order.           *)
THEOREM RequestsAreIdempotent == Spec => []OneOrderPerRequest
<1>1. CreationInv => OneOrderPerRequest
  BY DEF CreationInv
<1>2. QED
  BY <1>1, CreationHolds, PTL

(* A customer is never shown the order of another request.                 *)
THEOREM CallersSeeTheirOwn == Spec => []AnswersAreOwn
<1>1. CreationInv => AnswersAreOwn
  BY DEF CreationInv
<1>2. QED
  BY <1>1, CreationHolds, PTL

(* The index on pickup codes never refuses an order.                       *)
THEOREM ConflictsAreExplained == Spec => []ConflictsHaveACause
<1>1. CreationInv => ConflictsHaveACause
  BY DEF CreationInv
<1>2. QED
  BY <1>1, CreationHolds, PTL

-----------------------------------------------------------------------------
(* createOrder implements OrderBook: the commit places the order, and each *)
(* way of answering is a reply; all other steps go unnoticed.              *)

LEMMA SameOrders ==
  Book!PlacedOrders = PlacedOrders /\ \A r : Book!OrdersOf(r) = OrdersOf(r)
BY DEF Book!PlacedOrders, PlacedOrders, Book!OrdersOf, OrdersOf

LEMMA BookStart == Init => Book!BookInit
BY DEF Init, Book!BookInit

LEMMA ReplyStep ==
  ASSUME CreationInv, NEW c \in Calls, NEW o \in Calls, AnswersWith(c, o), Running(c),
         UNCHANGED <<order, counter, today>>,
         o \in OrdersOf(call[c].request) \/ (o = c /\ order[c] # NoOrder)
  PROVE  Book!Reply(c, o)
<1>1. call \in [Calls -> Call] /\ call[c].answer = NoOrder
  BY DEF CreationInv, TypeOK, CallsInv, Running
<1>2. o \in PlacedOrders /\ (o = c \/ o \in OrdersOf(order[o].request))
  BY DEF OrdersOf, PlacedOrders
<1>3. [q \in Calls |-> call'[q].answer] = [[q \in Calls |-> call[q].answer] EXCEPT ![c] = o]
  <2>1. call'[c].answer = o /\ \A q \in Calls : q # c => call'[q] = call[q]
    BY <1>1 DEF AnswersWith, Call
  <2>2. QED
    BY <2>1
<1>4. QED
  BY <1>1, <1>2, <1>3, SameOrders DEF Book!Reply

LEMMA PlaceStep ==
  ASSUME CreationInv, NEW c \in Calls, CommitOrder(c)
  PROVE  Book!Place(c, call[c].request, call[c].day)
<1>1. /\ call \in [Calls -> Call] /\ call[c] \in Call
      /\ call[c].pc = "writing" /\ call[c].seq = counter[call[c].day] + 1
      /\ order[c] = NoOrder /\ OrdersOf(call[c].request) = {}
  BY DEF CommitOrder, CreationInv, TypeOK, LockInv, CallsInv, InsertInv
<1>2. counter[call[c].day] < Capacity
  <2>1. call[c].seq \in 0 .. Capacity /\ counter[call[c].day] \in 0 .. Capacity
    BY <1>1 DEF CreationInv, TypeOK, Call
  <2>2. QED
    BY <1>1, <2>1, CreationAssumption DEF CreationAssumption
<1>3. [q \in Calls |-> call'[q].answer] = [q \in Calls |-> call[q].answer]
  BY <1>1 DEF CommitOrder, MovesTo
<1>4. QED
  BY <1>1, <1>2, <1>3, SameOrders DEF Book!Place, CommitOrder

LEMMA BookStep ==
  ASSUME CreationInv, [Next]_vars
  PROVE  [Book!BookNext]_(Book!bookVars)
<1>1. call \in [Calls -> Call]
  BY DEF CreationInv, TypeOK
<1>2. ASSUME NEW c \in Calls, CommitOrder(c)
      PROVE  Book!BookNext
  <2>1. call[c].request \in Requests \cup {NoRequest} /\ call[c].day \in Days
    BY <1>1 DEF Call
  <2>2. QED
    BY <1>2, <2>1, PlaceStep DEF Book!BookNext
<1>3. ASSUME NEW c \in Calls, NEW o \in Calls, Book!Reply(c, o)
      PROVE  Book!BookNext
  BY <1>3 DEF Book!BookNext
<1>4. ASSUME UNCHANGED <<order, counter>>, \A q \in Calls : call'[q].answer = call[q].answer
      PROVE  UNCHANGED Book!bookVars
  BY <1>4 DEF Book!bookVars
<1>5. ASSUME NEW c \in Calls, CheckRequest(c) \/ OpenTransaction(c) \/ RecoverFromConflict(c)
      PROVE  [Book!BookNext]_(Book!bookVars)
  <2>1. CASE \E o \in OrdersOf(call[c].request) : AnswersWith(c, o)
    <3>1. PICK o \in OrdersOf(call[c].request) : AnswersWith(c, o)
      BY <2>1
    <3>2. o \in Calls /\ Running(c) /\ UNCHANGED <<order, counter, today>>
      BY <1>5 DEF OrdersOf, PlacedOrders, CheckRequest, OpenTransaction, RecoverFromConflict, Running
    <3>3. QED
      BY <1>3, <3>1, <3>2, ReplyStep
  <2>2. CASE ~\E o \in OrdersOf(call[c].request) : AnswersWith(c, o)
    <3>1. UNCHANGED <<order, counter>> /\ \A q \in Calls : call'[q].answer = call[q].answer
      <4>1. call[c] \in Call
        BY <1>1
      <4>2. CASE OpenTransaction(c)
        BY <1>1, <2>2, <4>1, <4>2 DEF OpenTransaction, Call
      <4>3. CASE CheckRequest(c) \/ RecoverFromConflict(c)
        BY <1>1, <2>2, <4>1, <4>3 DEF CheckRequest, RecoverFromConflict, MovesTo, Call
      <4>4. QED
        BY <1>5, <4>2, <4>3
    <3>2. QED
      BY <1>4, <3>1
  <2>3. QED
    BY <2>1, <2>2
<1>6. ASSUME NEW c \in Calls, AnswerOrder(c)
      PROVE  Book!BookNext
  <2>1. Running(c) /\ order[c] # NoOrder /\ AnswersWith(c, c) /\ UNCHANGED <<order, counter, today>>
    BY <1>6 DEF AnswerOrder, Running, CreationInv, CallsInv
  <2>2. QED
    BY <1>3, <2>1, ReplyStep
<1>7. ASSUME NEW c \in Calls, NEW r \in Requests \cup {NoRequest},
             \/ StartCall(c, r) \/ RejectOrder(c) \/ AskForCode(c) \/ AllocatePickupCode(c)
             \/ WriteOrder(c) \/ DatabaseFails(c) \/ Die(c)
      PROVE  UNCHANGED Book!bookVars
  <2>1. UNCHANGED <<order, counter>> /\ \A q \in Calls : call'[q].answer = call[q].answer
    <3>1. call[c] \in Call
      BY <1>1
    <3>2. CASE \E pc \in {"failed", "lost", "recovering", "writing"} : MovesTo(c, pc)
      BY <1>1, <1>7, <3>1, <3>2
      DEF MovesTo, Call, StartCall, RejectOrder, AskForCode, AllocatePickupCode, WriteOrder, DatabaseFails, Die
    <3>3. CASE StartCall(c, r) \/ AskForCode(c)
      BY <1>1, <3>1, <3>3 DEF StartCall, AskForCode, Call
    <3>4. CASE AllocatePickupCode(c) /\ ~\E pc \in {"failed", "recovering"} : MovesTo(c, pc)
      BY <1>1, <3>1, <3>4 DEF AllocatePickupCode, Call
    <3>5. QED
      BY <1>7, <3>2, <3>3, <3>4 DEF RejectOrder, AllocatePickupCode, WriteOrder, DatabaseFails, Die
  <2>2. QED
    BY <1>4, <2>1
<1>8. CASE Midnight \/ UNCHANGED vars
  BY <1>4, <1>8 DEF Midnight, vars
<1>9. QED
  BY <1>2, <1>5, <1>6, <1>7, <1>8 DEF Next, Proceed

(* Seen from outside, createOrder is one indivisible step.                 *)
THEOREM CreationIsAtomic == Spec => ImplementsBook
BY BookStart, BookStep, CreationHolds, PTL DEF Spec, ImplementsBook, Book!BookSpec

-----------------------------------------------------------------------------
(* The outbox, for any number of rows and of processes, any batch size,    *)
(* any number of attempts and any number of crashes.                       *)


Busy(p) == worker[p].pc \in {"next", "posting", "accepted", "failed"}

(* A worker that is under way has a row in hand, the counts it has read    *)
(* are below the limit, and what it is about to record as delivered was.   *)
WorkerInv ==
  \A p \in Processes :
    /\ Busy(p) <=> worker[p].batch # <<>>
    /\ \A n \in 1 .. Len(worker[p].batch) : worker[p].batch[n].attempts < MaxAttempts
    /\ worker[p].pc = "accepted" => Current(p) \in received

OutboxInv ==
  OutboxTypeOK /\ WorkerInv /\ ClaimIsExclusive /\ DeliveredIsReceived /\ GivenUpOnlyWhenExhausted

LEMMA InitOutbox == OutboxInit => OutboxInv
<1> SUFFICES ASSUME OutboxInit PROVE OutboxInv
  OBVIOUS
<1> USE DEF OutboxInit, OutboxAssumption
<1>1. OutboxTypeOK
  <2>1. <<>> \in Seq(Snapshot)
    OBVIOUS
  <2>2. row \in [Rows -> Row]
    BY OutboxAssumption DEF Row
  <2>3. worker \in [Processes -> Worker]
    BY <2>1 DEF Worker
  <2>4. crashes \in 0 .. MaxCrashes
    BY OutboxAssumption
  <2>5. QED
    BY <2>2, <2>3, <2>4 DEF OutboxTypeOK
<1>2. WorkerInv
  BY DEF WorkerInv, Busy
<1>3. ClaimIsExclusive /\ DeliveredIsReceived /\ GivenUpOnlyWhenExhausted
  BY OutboxAssumption DEF ClaimIsExclusive, Claims, DeliveredIsReceived, GivenUpOnlyWhenExhausted
<1>4. QED
  BY <1>1, <1>2, <1>3 DEF OutboxInv

(* The row in a busy worker's hand, and what is left of its batch.         *)
LEMMA InHand ==
  ASSUME OutboxInv, NEW p \in Processes, Busy(p)
  PROVE  /\ worker[p].batch \in Seq(Snapshot) /\ worker[p].batch # <<>>
         /\ Head(worker[p].batch) \in Snapshot
         /\ Head(worker[p].batch).attempts < MaxAttempts
         /\ Current(p) \in Rows
         /\ Tail(worker[p].batch) \in Seq(Snapshot)
         /\ Tail(worker[p].batch) = <<>> <=> Len(worker[p].batch) = 1
         /\ \A n \in 1 .. Len(Tail(worker[p].batch)) : Tail(worker[p].batch)[n].attempts < MaxAttempts
<1> DEFINE b == worker[p].batch
<1>1. b \in Seq(Snapshot) /\ b # <<>>
  BY DEF OutboxInv, OutboxTypeOK, Worker, WorkerInv
<1>2. \A n \in 1 .. Len(b) : b[n].attempts < MaxAttempts
  BY DEF OutboxInv, WorkerInv
<1> HIDE DEF b
<1>3. Len(b) \in Nat /\ Len(b) > 0 /\ Head(b) = b[1] /\ Head(b) \in Snapshot
  BY <1>1
<1>4. Tail(b) \in Seq(Snapshot) /\ Len(Tail(b)) = Len(b) - 1
  BY <1>1
<1>5. \A n \in 1 .. Len(Tail(b)) : Tail(b)[n] = b[n + 1] /\ n + 1 \in 1 .. Len(b)
  BY <1>1, <1>3, <1>4
<1>6. Tail(b) = <<>> <=> Len(b) = 1
  BY <1>1, <1>3, <1>4
<1>7. QED
  BY <1>1, <1>2, <1>3, <1>4, <1>5, <1>6 DEF b, Current, Snapshot

(* What Advance leaves behind is a proper worker that claims nothing.      *)
LEMMA AdvanceFacts ==
  ASSUME OutboxInv, NEW p \in Processes, Busy(p), Advance(p)
  PROVE  /\ worker' \in [Processes -> Worker]
         /\ worker'[p].pc \in {"idle", "next"}
         /\ \A q \in Processes : q # p => worker'[q] = worker[q]
         /\ worker'[p].pc = "next" <=> worker'[p].batch # <<>>
         /\ \A n \in 1 .. Len(worker'[p].batch) : worker'[p].batch[n].attempts < MaxAttempts
<1> DEFINE new == [pc |-> IF Len(worker[p].batch) = 1 THEN "idle" ELSE "next", batch |-> Tail(worker[p].batch)]
<1>1. new \in Worker
  BY InHand DEF Worker
<1>2. worker' = [worker EXCEPT ![p] = new] /\ worker \in [Processes -> Worker]
  BY DEF Advance, OutboxInv, OutboxTypeOK
<1>3. worker'[p] = new /\ \A q \in Processes : q # p => worker'[q] = worker[q]
  BY <1>2
<1>4. worker' \in [Processes -> Worker]
  BY <1>1, <1>2
<1>5. QED
  BY <1>3, <1>4, InHand

(* Only the worker of p moves: the others' part of the invariant follows   *)
(* as long as no row they hold is touched.                                 *)
LEMMA OneWorkerMoves ==
  ASSUME OutboxInv, NEW p \in Processes,
         OutboxTypeOK', received \subseteq received',
         \A q \in Processes : q # p => worker'[q] = worker[q],
         \A q \in Processes : \A r \in Rows : q # p /\ Claims(q, r) => row'[r] = row[r],
         Busy(p)' <=> worker'[p].batch # <<>>,
         \A n \in 1 .. Len(worker'[p].batch) : worker'[p].batch[n].attempts < MaxAttempts,
         worker'[p].pc = "accepted" => Current(p)' \in received',
         \A r \in Rows : Claims(p, r)' =>
           /\ row'[r].status = "PROCESSING" /\ ~row'[r].aged
           /\ \A q \in Processes : q # p => ~Claims(q, r),
         \A r \in Rows : row'[r].status = "DELIVERED" => r \in received',
         \A r \in Rows : row'[r].status = "DEAD_LETTER" <=> row'[r].attempts >= MaxAttempts
  PROVE  OutboxInv'
<1>1. \A q \in Processes, r \in Rows : q # p => (Claims(q, r)' <=> Claims(q, r))
  BY DEF Claims, Current
<1>2. WorkerInv'
  BY DEF OutboxInv, WorkerInv, Busy, Current
<1>3. ClaimIsExclusive'
  BY <1>1 DEF OutboxInv, ClaimIsExclusive
<1>4. DeliveredIsReceived' /\ GivenUpOnlyWhenExhausted'
  BY DEF DeliveredIsReceived, GivenUpOnlyWhenExhausted
<1>5. QED
  BY <1>2, <1>3, <1>4 DEF OutboxInv

(* A step of the clock or of createOrder: no row that is held changes.     *)
LEMMA OutsideStep ==
  ASSUME OutboxInv, NEW r \in Rows,
         EnqueueOrderCreated(r) \/ RetryFallsDue(r) \/ ClaimAges(r)
  PROVE  OutboxInv'
<1>1. UNCHANGED <<worker, received, crashes>>
  BY DEF EnqueueOrderCreated, RetryFallsDue, ClaimAges
<1>2. Cardinality(Existing) \in Nat
  BY OutboxAssumption, FS_Subset, FS_CardinalityType DEF OutboxAssumption, Existing
<1>3. row \in [Rows -> Row] /\ row[r] \in Row
  BY DEF OutboxInv, OutboxTypeOK
<1>4. PICK new \in Row :
        /\ row' = [row EXCEPT ![r] = new]
        /\ new.attempts = row[r].attempts
        /\ new.status = row[r].status \/ (row[r].status = "ABSENT" /\ new.status = "PENDING")
        /\ new.aged = row[r].aged \/ Abandoned(r)
  <2>1. CASE EnqueueOrderCreated(r)
    <3>1. [row[r] EXCEPT !.status = "PENDING", !.due = TRUE, !.place = Cardinality(Existing)] \in Row
      BY <1>2, <1>3 DEF Row
    <3>2. QED
      BY <1>3, <2>1, <3>1 DEF EnqueueOrderCreated, Row
  <2>2. CASE RetryFallsDue(r)
    <3>1. [row[r] EXCEPT !.due = TRUE] \in Row
      BY <1>3 DEF Row
    <3>2. QED
      BY <1>3, <2>2, <3>1 DEF RetryFallsDue, Row
  <2>3. CASE ClaimAges(r)
    <3>1. [row[r] EXCEPT !.aged = TRUE] \in Row
      BY <1>3 DEF Row
    <3>2. QED
      BY <1>3, <2>3, <3>1 DEF ClaimAges, Row
  <2>4. QED
    BY <2>1, <2>2, <2>3
<1>5. OutboxTypeOK'
  BY <1>1, <1>3, <1>4 DEF OutboxInv, OutboxTypeOK
<1>6. \A s \in Rows : s # r => row'[s] = row[s]
  BY <1>3, <1>4
<1>7. row'[r] = new
  BY <1>3, <1>4
<1>8. WorkerInv'
  BY <1>1 DEF OutboxInv, WorkerInv, Busy, Current
<1>9. ClaimIsExclusive'
  BY <1>1, <1>4, <1>6, <1>7 DEF OutboxInv, ClaimIsExclusive, Claims, Current, Abandoned
<1>10. DeliveredIsReceived' /\ GivenUpOnlyWhenExhausted'
  BY <1>1, <1>4, <1>6, <1>7 DEF OutboxInv, DeliveredIsReceived, GivenUpOnlyWhenExhausted
<1>11. QED
  BY <1>5, <1>8, <1>9, <1>10 DEF OutboxInv

(* The worker of a process that starts, dies or gives up its pass claims   *)
(* nothing any more.                                                       *)
LEMMA IdleStep ==
  ASSUME OutboxInv, NEW p \in Processes, StartProcess(p) \/ Crash(p) \/ AbortPass(p)
  PROVE  OutboxInv'
<1>1. row' = row /\ received' = received /\ worker \in [Processes -> Worker]
  BY DEF StartProcess, Crash, AbortPass, OutboxInv, OutboxTypeOK
<1>2. crashes' \in 0 .. MaxCrashes
  BY OutboxAssumption DEF StartProcess, Crash, AbortPass, OutboxInv, OutboxTypeOK, OutboxAssumption
<1>3. CASE StartProcess(p)
  <2>1. worker[p].batch = <<>> /\ worker[p] \in Worker
    BY <1>1, <1>3 DEF StartProcess, OutboxInv, WorkerInv, Busy
  <2>2. /\ worker'[p].pc = "booting" /\ worker'[p].batch = <<>>
        /\ worker' \in [Processes -> Worker]
        /\ \A q \in Processes : q # p => worker'[q] = worker[q]
    BY <1>1, <1>3, <2>1 DEF StartProcess, Worker
  <2>3. OutboxTypeOK'
    BY <1>1, <1>2, <2>2 DEF OutboxInv, OutboxTypeOK
  <2>4. QED
    BY <1>1, <2>2, <2>3, OneWorkerMoves
    DEF Busy, Claims, OutboxInv, DeliveredIsReceived, GivenUpOnlyWhenExhausted
<1>4. CASE Crash(p) \/ AbortPass(p)
  <2>1. <<>> \in Seq(Snapshot)
    OBVIOUS
  <2>2. PICK pc \in {"down", "idle"} : worker' = [worker EXCEPT ![p] = [pc |-> pc, batch |-> <<>>]]
    BY <1>4 DEF Crash, AbortPass
  <2>3. [pc |-> pc, batch |-> <<>>] \in Worker
    BY <2>1 DEF Worker
  <2>4. /\ worker'[p].pc \in {"down", "idle"} /\ worker'[p].batch = <<>>
        /\ worker' \in [Processes -> Worker]
        /\ \A q \in Processes : q # p => worker'[q] = worker[q]
    BY <1>1, <2>2, <2>3
  <2>5. OutboxTypeOK'
    BY <1>1, <1>2, <2>4 DEF OutboxInv, OutboxTypeOK
  <2>6. QED
    BY <1>1, <2>4, <2>5, OneWorkerMoves
    DEF Busy, Claims, OutboxInv, DeliveredIsReceived, GivenUpOnlyWhenExhausted
<1>5. QED
  BY <1>3, <1>4

(* Recovery at start takes back aged claims only, and those nobody holds.  *)
LEMMA RecoverStep ==
  ASSUME OutboxInv, NEW p \in Processes, RecoverAbandonedClaims(p)
  PROVE  OutboxInv'
<1>1. received' = received /\ crashes' = crashes /\ worker \in [Processes -> Worker] /\ row \in [Rows -> Row]
  BY DEF RecoverAbandonedClaims, OutboxInv, OutboxTypeOK
<1>2. worker[p].pc = "booting" /\ worker[p].batch = <<>>
  BY DEF RecoverAbandonedClaims, OutboxInv, WorkerInv, Busy
<1>3. /\ worker'[p].pc = "idle" /\ worker'[p].batch = <<>>
      /\ worker' \in [Processes -> Worker]
      /\ \A q \in Processes : q # p => worker'[q] = worker[q]
  BY <1>1, <1>2 DEF RecoverAbandonedClaims, Worker
<1>4. \A r \in Rows :
        /\ row'[r] \in Row
        /\ row'[r].attempts = row[r].attempts
        /\ row'[r] = row[r] \/ (row[r].status = "PROCESSING" /\ row[r].aged /\ row'[r].status = "PENDING")
  BY <1>1 DEF RecoverAbandonedClaims, RecoversClaim, Row
<1>5. row' \in [Rows -> Row]
  BY <1>4 DEF RecoverAbandonedClaims
<1>6. OutboxTypeOK'
  BY <1>1, <1>3, <1>5 DEF OutboxInv, OutboxTypeOK
<1>7. \A q \in Processes : \A r \in Rows : Claims(q, r) => row'[r] = row[r]
  BY <1>4 DEF OutboxInv, ClaimIsExclusive
<1>8. \A r \in Rows : /\ row'[r].status = "DELIVERED" => r \in received'
                      /\ (row'[r].status = "DEAD_LETTER") <=> (row'[r].attempts >= MaxAttempts)
  BY <1>1, <1>4 DEF OutboxInv, DeliveredIsReceived, GivenUpOnlyWhenExhausted
<1>9. QED
  BY <1>1, <1>3, <1>6, <1>7, <1>8, OneWorkerMoves DEF Busy, Claims

LEMMA ReadStep ==
  ASSUME OutboxInv, NEW p \in Processes, ReadBatch(p)
  PROVE  OutboxInv'
<1>1. row' = row /\ received' = received /\ crashes' = crashes
      /\ worker \in [Processes -> Worker] /\ row \in [Rows -> Row]
  BY DEF ReadBatch, OutboxInv, OutboxTypeOK
<1>0. PICK n \in 1 .. BatchSize : \E rows \in [1 .. n -> Rows] :
        /\ IsBatch(rows)
        /\ worker' = [worker EXCEPT ![p] = [pc |-> "next",
             batch |-> [i \in 1 .. n |-> [row |-> rows[i], attempts |-> row[rows[i]].attempts]]]]
  BY DEF ReadBatch
<1>2. PICK rows \in [1 .. n -> Rows] :
        /\ IsBatch(rows)
        /\ worker' = [worker EXCEPT ![p] = [pc |-> "next",
             batch |-> [i \in 1 .. n |-> [row |-> rows[i], attempts |-> row[rows[i]].attempts]]]]
  BY <1>0
<1> DEFINE b == [i \in 1 .. n |-> [row |-> rows[i], attempts |-> row[rows[i]].attempts]]
<1>3. n \in Nat /\ n > 0
  BY <1>2, OutboxAssumption DEF OutboxAssumption
<1>4. \A i \in 1 .. n : b[i] \in Snapshot
  BY <1>1, <1>2 DEF Snapshot, Row
<1>5. b \in Seq(Snapshot) /\ Len(b) = n /\ b # <<>>
  BY <1>3, <1>4
<1>6. Len(rows) = n
  BY <1>3
<1>7. \A i \in 1 .. n : b[i].attempts < MaxAttempts
  <2>1. ASSUME NEW i \in 1 .. n
        PROVE  b[i].attempts < MaxAttempts
    <3>1. row[rows[i]].status = "PENDING" /\ rows[i] \in Rows
      BY <1>2, <1>6, <2>1 DEF IsBatch, Ready
    <3>2. ~(row[rows[i]].attempts >= MaxAttempts)
      BY <3>1 DEF OutboxInv, GivenUpOnlyWhenExhausted
    <3>3. row[rows[i]].attempts \in Nat /\ MaxAttempts \in Nat
      BY <1>1, <3>1, OutboxAssumption DEF Row, OutboxAssumption
    <3>4. QED
      BY <3>2, <3>3
  <2>2. QED
    BY <2>1
<1> HIDE DEF b
<1>8. [pc |-> "next", batch |-> b] \in Worker
  BY <1>5 DEF Worker
<1>9. /\ worker'[p].pc = "next" /\ worker'[p].batch = b
      /\ worker' \in [Processes -> Worker]
      /\ \A q \in Processes : q # p => worker'[q] = worker[q]
  BY <1>1, <1>2, <1>8 DEF b
<1>10. OutboxTypeOK'
  BY <1>1, <1>9 DEF OutboxInv, OutboxTypeOK
<1>11. QED
  BY <1>1, <1>5, <1>7, <1>9, <1>10, OneWorkerMoves
  DEF Busy, Claims, OutboxInv, DeliveredIsReceived, GivenUpOnlyWhenExhausted

(* The conditional claim succeeds for one worker only.                     *)
LEMMA ClaimStep ==
  ASSUME OutboxInv, NEW p \in Processes, Claim(p)
  PROVE  OutboxInv'
<1> DEFINE r == Current(p)
           new == [row[r] EXCEPT !.status = "PROCESSING", !.aged = FALSE]
<1>1. received' = received /\ crashes' = crashes /\ Busy(p) /\ worker[p].pc = "next"
      /\ worker \in [Processes -> Worker] /\ row \in [Rows -> Row]
  BY DEF Claim, Busy, OutboxInv, OutboxTypeOK
<1>2. CASE CanClaim(r)
  <2>1. row[r].status = "PENDING" /\ r \in Rows /\ row[r] \in Row
    BY <1>1, <1>2, InHand DEF CanClaim
  <2>2. new \in Row /\ new.status = "PROCESSING" /\ ~new.aged /\ new.attempts = row[r].attempts
    BY <2>1 DEF Row
  <2>3. row' = [row EXCEPT ![r] = new] /\ worker' = [worker EXCEPT ![p].pc = "posting"]
    BY <1>2 DEF Claim
  <2> HIDE DEF new
  <2>4. row' \in [Rows -> Row] /\ row'[r] = new /\ \A s \in Rows : s # r => row'[s] = row[s]
    BY <1>1, <2>1, <2>2, <2>3
  <2>5. /\ worker'[p].pc = "posting" /\ worker'[p].batch = worker[p].batch
        /\ worker' \in [Processes -> Worker]
        /\ \A q \in Processes : q # p => worker'[q] = worker[q]
    BY <1>1, <2>3 DEF Worker
  <2>6. \A q \in Processes : ~Claims(q, r)
    BY <2>1 DEF OutboxInv, ClaimIsExclusive
  <2>7. OutboxTypeOK'
    BY <1>1, <2>4, <2>5 DEF OutboxInv, OutboxTypeOK
  <2>8. \A s \in Rows : Claims(p, s)' => s = r
    BY <2>5 DEF Claims, Current
  <2>9. Busy(p)' /\ worker'[p].batch # <<>>
        /\ \A n \in 1 .. Len(worker'[p].batch) : worker'[p].batch[n].attempts < MaxAttempts
    BY <1>1, <2>5 DEF Busy, OutboxInv, WorkerInv
  <2>10. \A s \in Rows : /\ row'[s].status = "DELIVERED" => s \in received'
                         /\ (row'[s].status = "DEAD_LETTER") <=> (row'[s].attempts >= MaxAttempts)
    BY <1>1, <2>1, <2>2, <2>4 DEF OutboxInv, DeliveredIsReceived, GivenUpOnlyWhenExhausted
  <2>11. \A s \in Rows : Claims(p, s)' =>
           /\ row'[s].status = "PROCESSING" /\ ~row'[s].aged
           /\ \A q \in Processes : q # p => ~Claims(q, s)
    BY <2>2, <2>4, <2>6, <2>8
  <2>12. \A q \in Processes : \A s \in Rows : q # p /\ Claims(q, s) => row'[s] = row[s]
    BY <2>4, <2>6
  <2>13. QED
    BY <1>1, <2>5, <2>7, <2>9, <2>10, <2>11, <2>12, OneWorkerMoves
<1>3. CASE ~CanClaim(r)
  <2>1. row' = row /\ Advance(p)
    BY <1>3 DEF Claim
  <2>2. OutboxTypeOK'
    BY <1>1, <2>1, AdvanceFacts DEF OutboxInv, OutboxTypeOK
  <2>3. Busy(p)' <=> worker'[p].batch # <<>>
    BY <1>1, <2>1, AdvanceFacts DEF Busy
  <2>4. \A s \in Rows : ~Claims(p, s)'
    BY <1>1, <2>1, AdvanceFacts DEF Claims
  <2>5. QED
    BY <1>1, <2>1, <2>2, <2>3, <2>4, AdvanceFacts, OneWorkerMoves
    DEF OutboxInv, DeliveredIsReceived, GivenUpOnlyWhenExhausted
<1>4. QED
  BY <1>2, <1>3

(* While a worker posts, and when the record of a delivery fails, its row  *)
(* stays in hand and nothing is written.                                   *)
LEMMA PostStep ==
  ASSUME OutboxInv, NEW p \in Processes, Post(p) \/ RecordDeliveryFails(p)
  PROVE  OutboxInv'
<1> USE DEF Post, PostAccepted, PostFails, RecordDeliveryFails
<1>1. /\ row' = row /\ crashes' = crashes /\ worker[p].pc \in {"posting", "accepted"}
      /\ worker \in [Processes -> Worker]
  BY DEF OutboxInv, OutboxTypeOK
<1>2. Busy(p)
  BY <1>1 DEF Busy
<1>3. Current(p) \in Rows
  BY <1>2, InHand
<1>4. received' \subseteq Rows /\ received \subseteq received'
  BY <1>3 DEF OutboxInv, OutboxTypeOK
<1>5. worker' = [worker EXCEPT ![p].pc = "failed"]
      \/ (worker' = [worker EXCEPT ![p].pc = "accepted"] /\ received' = received \cup {Current(p)})
  OBVIOUS
<1>6. /\ worker'[p].pc \in {"accepted", "failed"} /\ worker'[p].batch = worker[p].batch
      /\ worker'[p].pc = "accepted" => received' = received \cup {Current(p)}
      /\ worker' \in [Processes -> Worker]
      /\ \A q \in Processes : q # p => worker'[q] = worker[q]
  BY <1>1, <1>5 DEF Worker
<1>7. OutboxTypeOK'
  BY <1>1, <1>4, <1>6 DEF OutboxInv, OutboxTypeOK
<1>8. Current(p)' = Current(p)
  BY <1>6 DEF Current
<1>9. \A r \in Rows : Claims(p, r)' => Claims(p, r)
  BY <1>1, <1>8 DEF Claims
<1>10. Busy(p)' /\ worker'[p].batch # <<>>
       /\ \A n \in 1 .. Len(worker'[p].batch) : worker'[p].batch[n].attempts < MaxAttempts
  BY <1>2, <1>6 DEF Busy, OutboxInv, WorkerInv
<1>11. \A r \in Rows : /\ row'[r].status = "DELIVERED" => r \in received'
                       /\ (row'[r].status = "DEAD_LETTER") <=> (row'[r].attempts >= MaxAttempts)
  BY <1>1, <1>4 DEF OutboxInv, DeliveredIsReceived, GivenUpOnlyWhenExhausted
<1>12. \A r \in Rows : Claims(p, r)' =>
           /\ row'[r].status = "PROCESSING" /\ ~row'[r].aged
           /\ \A q \in Processes : q # p => ~Claims(q, r)
  BY <1>1, <1>9 DEF OutboxInv, ClaimIsExclusive
<1>13. worker'[p].pc = "accepted" => Current(p)' \in received'
  BY <1>6, <1>8
<1>14. QED
  BY <1>1, <1>4, <1>6, <1>7, <1>10, <1>11, <1>12, <1>13, OneWorkerMoves

(* The outcome is written to a row that nobody else holds.                 *)
LEMMA RecordStep ==
  ASSUME OutboxInv, NEW p \in Processes, RecordDelivery(p) \/ RecordFailure(p)
  PROVE  OutboxInv'
<1> DEFINE r == Current(p)
<1>1. received' = received /\ crashes' = crashes /\ Busy(p) /\ Advance(p) /\ Claims(p, r)
      /\ worker \in [Processes -> Worker] /\ row \in [Rows -> Row]
  BY DEF RecordDelivery, RecordFailure, Busy, Claims, OutboxInv, OutboxTypeOK
<1>2. r \in Rows /\ row[r] \in Row
  BY <1>1, InHand
<1>3. row[r].status = "PROCESSING" /\ \A q \in Processes : q # p => ~Claims(q, r)
  BY <1>1, <1>2 DEF OutboxInv, ClaimIsExclusive
<1>4. PICK new \in Row :
        /\ row' = [row EXCEPT ![r] = new]
        /\ new.status = "DELIVERED" => r \in received
        /\ (new.status = "DEAD_LETTER") <=> (new.attempts >= MaxAttempts)
  <2>1. CASE RecordDelivery(p)
    <3>1. [row[r] EXCEPT !.status = "DELIVERED", !.aged = FALSE] \in Row
      BY <1>2 DEF Row
    <3>2. r \in received
      BY <2>1 DEF RecordDelivery, OutboxInv, WorkerInv
    <3>3. ~(row[r].attempts >= MaxAttempts)
      BY <1>2, <1>3 DEF OutboxInv, GivenUpOnlyWhenExhausted
    <3>4. QED
      BY <1>2, <2>1, <3>1, <3>2, <3>3 DEF RecordDelivery, Row
  <2>2. CASE RecordFailure(p)
    <3>1. Head(worker[p].batch).attempts \in 0 .. MaxAttempts /\ Head(worker[p].batch).attempts < MaxAttempts
      BY <1>1, InHand DEF Snapshot
    <3>2. Attempts(p) \in 0 .. MaxAttempts
      BY <3>1, OutboxAssumption DEF Attempts, OutboxAssumption
    <3> DEFINE failed == [row[r] EXCEPT !.status = IF Exhausted(Attempts(p)) THEN "DEAD_LETTER" ELSE "PENDING",
                            !.attempts = Attempts(p), !.due = FALSE, !.aged = FALSE]
    <3>3. failed \in Row
      BY <1>2, <3>2 DEF Row
    <3>4. /\ failed.status # "DELIVERED" /\ failed.attempts = Attempts(p)
          /\ (failed.status = "DEAD_LETTER") <=> Exhausted(Attempts(p))
      BY <1>2 DEF Row
    <3>5. QED
      BY <2>2, <3>3, <3>4 DEF RecordFailure, Exhausted
  <2>3. QED
    BY <2>1, <2>2
<1>5. row' \in [Rows -> Row] /\ row'[r] = new /\ \A s \in Rows : s # r => row'[s] = row[s]
  BY <1>1, <1>2, <1>4
<1>6. OutboxTypeOK'
  BY <1>1, <1>5, AdvanceFacts DEF OutboxInv, OutboxTypeOK
<1>7. Busy(p)' <=> worker'[p].batch # <<>>
  BY <1>1, AdvanceFacts DEF Busy
<1>8. \A s \in Rows : ~Claims(p, s)'
  BY <1>1, AdvanceFacts DEF Claims
<1>9. \A q \in Processes : \A s \in Rows : q # p /\ Claims(q, s) => row'[s] = row[s]
  BY <1>3, <1>5
<1>10. \A s \in Rows : /\ row'[s].status = "DELIVERED" => s \in received'
                       /\ (row'[s].status = "DEAD_LETTER") <=> (row'[s].attempts >= MaxAttempts)
  BY <1>1, <1>4, <1>5 DEF OutboxInv, DeliveredIsReceived, GivenUpOnlyWhenExhausted
<1>11. QED
  BY <1>1, <1>6, <1>7, <1>8, <1>9, <1>10, AdvanceFacts, OneWorkerMoves

LEMMA OutboxStep == OutboxInv /\ [OutboxNext]_outboxVars => OutboxInv'
<1> SUFFICES ASSUME OutboxInv, [OutboxNext]_outboxVars PROVE OutboxInv'
  OBVIOUS
<1>1. CASE UNCHANGED outboxVars
  BY <1>1 DEF outboxVars, OutboxInv, OutboxTypeOK, WorkerInv, Busy, Current, ClaimIsExclusive, Claims,
       DeliveredIsReceived, GivenUpOnlyWhenExhausted
<1>2. CASE OutboxNext
  BY <1>2, OutsideStep, IdleStep, RecoverStep, ReadStep, ClaimStep, PostStep, RecordStep
  DEF OutboxNext, Record
<1>3. QED
  BY <1>1, <1>2

LEMMA OutboxHolds == OutboxSpec => []OutboxInv
BY InitOutbox, OutboxStep, PTL DEF OutboxSpec

(* Rows, workers and counters keep their types.                            *)
THEOREM OutboxIsTyped == OutboxSpec => []OutboxTypeOK
<1>1. OutboxInv => OutboxTypeOK
  BY DEF OutboxInv
<1>2. QED
  BY <1>1, OutboxHolds, PTL

(* No two processes ever post the same row at the same time.               *)
THEOREM ClaimsAreExclusive == OutboxSpec => []ClaimIsExclusive
<1>1. OutboxInv => ClaimIsExclusive
  BY DEF OutboxInv
<1>2. QED
  BY <1>1, OutboxHolds, PTL

(* A row marked DELIVERED was received: delivery is at least once.         *)
THEOREM DeliveriesAreReceived == OutboxSpec => []DeliveredIsReceived
<1>1. OutboxInv => DeliveredIsReceived
  BY DEF OutboxInv
<1>2. QED
  BY <1>1, OutboxHolds, PTL

(* A row is a dead letter exactly when its attempts are used up.           *)
THEOREM DeadLettersAreExhausted == OutboxSpec => []GivenUpOnlyWhenExhausted
<1>1. OutboxInv => GivenUpOnlyWhenExhausted
  BY DEF OutboxInv
<1>2. QED
  BY <1>1, OutboxHolds, PTL

(* A settled row is held by no worker, so that nobody can rewrite it.      *)
LEMMA SettledStep ==
  ASSUME OutboxInv, OutboxNext, NEW r \in Rows, Settled(r)
  PROVE  row'[r].status = row[r].status
<1>1. row \in [Rows -> Row]
  BY DEF OutboxInv, OutboxTypeOK
<1>2. \A p \in Processes : ~Claims(p, r)
  BY DEF OutboxInv, ClaimIsExclusive, Settled
<1>3. ASSUME NEW s \in Rows, EnqueueOrderCreated(s) \/ RetryFallsDue(s) \/ ClaimAges(s)
      PROVE  row'[r].status = row[r].status
  BY <1>1, <1>3 DEF EnqueueOrderCreated, RetryFallsDue, ClaimAges, Abandoned, Settled
<1>4. ASSUME NEW p \in Processes, RecoverAbandonedClaims(p)
      PROVE  row'[r].status = row[r].status
  BY <1>1, <1>4 DEF RecoverAbandonedClaims, RecoversClaim, Settled
<1>5. ASSUME NEW p \in Processes, Claim(p)
      PROVE  row'[r].status = row[r].status
  BY <1>1, <1>5 DEF Claim, CanClaim, Settled
<1>6. ASSUME NEW p \in Processes, RecordDelivery(p) \/ RecordFailure(p)
      PROVE  row'[r].status = row[r].status
  <2>1. Current(p) # r
    BY <1>2, <1>6 DEF RecordDelivery, RecordFailure, Claims
  <2>2. QED
    BY <1>1, <1>6, <2>1 DEF RecordDelivery, RecordFailure
<1>7. ASSUME NEW p \in Processes,
             \/ StartProcess(p) \/ Crash(p) \/ AbortPass(p)
             \/ ReadBatch(p) \/ Post(p) \/ RecordDeliveryFails(p)
      PROVE  row'[r].status = row[r].status
  BY <1>7 DEF StartProcess, Crash, AbortPass, ReadBatch, Post, PostAccepted, PostFails, RecordDeliveryFails
<1>8. QED
  BY <1>3, <1>4, <1>5, <1>6, <1>7 DEF OutboxNext, Record

(* A delivered or dead row never comes back, under any interleaving of     *)
(* batches, claims, crashes and recoveries.                                *)
THEOREM SettledRowsStaySettled == OutboxSpec => SettledIsFinal
<1>1. OutboxInv /\ [OutboxNext]_outboxVars => [\A r \in Rows : Settled(r) => row'[r].status = row[r].status]_row
  BY SettledStep DEF outboxVars
<1>2. QED
  BY <1>1, OutboxHolds, PTL DEF OutboxSpec, SettledIsFinal

-----------------------------------------------------------------------------
(* With one process the clock is the only other actor. What the worker has *)
(* read of the rows still before it is what they are, and they are ready.  *)
OneProcess == \A p, q \in Processes : p = q

FreshFor(rows, pc, b) ==
  /\ \A n \in 1 .. Len(b) :
       /\ rows[b[n].row].attempts = b[n].attempts
       /\ n > 1 \/ pc = "next" => rows[b[n].row].status = "PENDING" /\ rows[b[n].row].due
  /\ \A m, n \in 1 .. Len(b) : m # n => b[m].row # b[n].row
BatchIsFresh == \A p \in Processes : FreshFor(row, worker[p].pc, worker[p].batch)

(* The worker of p keeps its batch and its row, or goes on: nothing it is to *)
(* do afterwards has changed.                                              *)
LEMMA BatchStaysFresh ==
  ASSUME OutboxInv, BatchIsFresh, OneProcess, NEW p \in Processes,
         worker'[p].batch = worker[p].batch, worker'[p].pc = "next" => worker[p].pc = "next",
         \A n \in 1 .. Len(worker[p].batch) :
           LET r == worker[p].batch[n].row
           IN row'[r].attempts = row[r].attempts /\ (n > 1 \/ worker'[p].pc = "next" => (Ready(r) => Ready(r)'))
  PROVE  BatchIsFresh'
<1> DEFINE b == worker[p].batch
<1>1. FreshFor(row, worker[p].pc, b) /\ worker'[p].batch = b
  BY DEF BatchIsFresh
<1>2. \A n \in 1 .. Len(b) :
        /\ row'[b[n].row].attempts = row[b[n].row].attempts
        /\ n > 1 \/ worker'[p].pc = "next" =>
              (row[b[n].row].status = "PENDING" /\ row[b[n].row].due => row'[b[n].row].status = "PENDING" /\ row'[b[n].row].due)
  BY DEF Ready
<1> HIDE DEF b
<1>3. FreshFor(row', worker'[p].pc, b)
  BY <1>1, <1>2 DEF FreshFor
<1>4. QED
  BY <1>1, <1>3 DEF BatchIsFresh, OneProcess

LEMMA EmptyBatchIsFresh ==
  ASSUME OneProcess, NEW p \in Processes, worker'[p].batch = <<>> PROVE BatchIsFresh'
BY DEF BatchIsFresh, FreshFor, OneProcess

LEMMA RestIsFresh ==
  ASSUME OutboxInv, BatchIsFresh, OneProcess, NEW p \in Processes, Busy(p), Advance(p),
         \A r \in Rows : r # Current(p) => row'[r] = row[r]
  PROVE  BatchIsFresh'
<1> DEFINE b == worker[p].batch
<1>1. worker'[p].batch = Tail(b) /\ worker \in [Processes -> Worker]
  BY DEF Advance, OutboxInv, OutboxTypeOK
<1>2. b \in Seq(Snapshot) /\ b # <<>> /\ Current(p) = Head(b).row
  BY InHand DEF Current
<1>3. /\ \A n \in 1 .. Len(b) : row[b[n].row].attempts = b[n].attempts /\ (n > 1 => row[b[n].row].status = "PENDING" /\ row[b[n].row].due)
      /\ \A m, n \in 1 .. Len(b) : m # n => b[m].row # b[n].row
  BY DEF BatchIsFresh, FreshFor
<1>4. worker'[p].batch = Tail(b)
  BY <1>1
<1> HIDE DEF b
<1>5. /\ Len(Tail(b)) = Len(b) - 1 /\ Len(b) \in Nat /\ Len(b) > 0 /\ Head(b) = b[1]
      /\ \A n \in 1 .. Len(b) - 1 : Tail(b)[n] = b[n + 1]
  BY <1>2
<1> DEFINE t == Tail(b)
<1>6. Len(t) = Len(b) - 1 /\ \A n \in 1 .. Len(t) : t[n] = b[n + 1] /\ n + 1 \in 2 .. Len(b) /\ b[n + 1] \in Snapshot
  BY <1>2, <1>5
<1> HIDE DEF t
<1>7. ASSUME NEW n \in 1 .. Len(t)
      PROVE  row'[t[n].row].attempts = t[n].attempts /\ row'[t[n].row].status = "PENDING" /\ row'[t[n].row].due
  <2>1. t[n].row \in Rows /\ t[n].row # Current(p)
    BY <1>2, <1>3, <1>5, <1>6 DEF Snapshot
  <2>2. row'[t[n].row] = row[t[n].row]
    BY <2>1
  <2>3. row[t[n].row].attempts = t[n].attempts /\ row[t[n].row].status = "PENDING" /\ row[t[n].row].due
    BY <1>3, <1>5, <1>6
  <2>4. QED
    BY <2>2, <2>3
<1>8. \A m, n \in 1 .. Len(t) : m # n => t[m].row # t[n].row
  BY <1>3, <1>5, <1>6
<1>9. worker'[p].batch = t
  BY <1>4 DEF t
<1>10. FreshFor(row', worker'[p].pc, t)
  BY <1>7, <1>8 DEF FreshFor
<1>11. QED
  BY <1>9, <1>10 DEF BatchIsFresh, OneProcess

LEMMA FreshWhenRead ==
  ASSUME OutboxInv, OneProcess, NEW p \in Processes, ReadBatch(p) PROVE BatchIsFresh'
<1>1. row' = row /\ worker \in [Processes -> Worker] /\ row \in [Rows -> Row]
  BY DEF ReadBatch, OutboxInv, OutboxTypeOK
<1>2. PICK n \in 1 .. BatchSize : \E rows \in [1 .. n -> Rows] :
        /\ IsBatch(rows)
        /\ worker' = [worker EXCEPT ![p] = [pc |-> "next",
             batch |-> [i \in 1 .. n |-> [row |-> rows[i], attempts |-> row[rows[i]].attempts]]]]
  BY DEF ReadBatch
<1>3. PICK rows \in [1 .. n -> Rows] :
        /\ IsBatch(rows)
        /\ worker' = [worker EXCEPT ![p] = [pc |-> "next",
             batch |-> [i \in 1 .. n |-> [row |-> rows[i], attempts |-> row[rows[i]].attempts]]]]
  BY <1>2
<1> DEFINE b == [i \in 1 .. n |-> [row |-> rows[i], attempts |-> row[rows[i]].attempts]]
<1>4. n \in Nat /\ n > 0 /\ Len(rows) = n
  BY OutboxAssumption DEF OutboxAssumption
<1>5. Len(b) = n /\ \A i \in 1 .. n : b[i].row = rows[i] /\ b[i].attempts = row[rows[i]].attempts
  BY <1>4
<1>6. worker'[p].batch = b
  BY <1>1, <1>3
<1> HIDE DEF b
<1>7. \A i \in 1 .. n : Ready(rows[i]) /\ row[rows[i]].place \in Nat
  BY <1>1, <1>3, <1>4 DEF IsBatch, Row
<1>8. \A i, j \in 1 .. n : i # j => rows[i] # rows[j]
  <2>1. ASSUME NEW i \in 1 .. n, NEW j \in 1 .. n, i < j PROVE rows[i] # rows[j]
    BY <1>3, <1>4, <1>7, <2>1 DEF IsBatch
  <2>2. QED
    BY <1>4, <2>1
<1>9. FreshFor(row', worker'[p].pc, b)
  BY <1>1, <1>5, <1>7, <1>8 DEF FreshFor, Ready
<1>10. QED
  BY <1>6, <1>9 DEF BatchIsFresh, OneProcess

LEMMA FreshStep == ASSUME OutboxInv, BatchIsFresh, OneProcess, OutboxNext \/ UNCHANGED outboxVars PROVE BatchIsFresh'
<1>1. worker \in [Processes -> Worker] /\ row \in [Rows -> Row]
  BY DEF OutboxInv, OutboxTypeOK
<1>2. ASSUME NEW p \in Processes
      PROVE  worker[p].batch \in Seq(Snapshot) /\ \A n \in 1 .. Len(worker[p].batch) : worker[p].batch[n].row \in Rows
  <2>1. worker[p].batch \in Seq(Snapshot)
    BY <1>1 DEF Worker
  <2>2. \A n \in 1 .. Len(worker[p].batch) : worker[p].batch[n] \in Snapshot
    BY <2>1
  <2>3. QED
    BY <2>1, <2>2 DEF Snapshot
<1>3. ASSUME NEW r \in Rows, EnqueueOrderCreated(r) \/ RetryFallsDue(r) \/ ClaimAges(r) PROVE BatchIsFresh'
  <2>1. worker' = worker
    BY <1>3 DEF EnqueueOrderCreated, RetryFallsDue, ClaimAges
  <2>2. row[r] \in Row /\ \A s \in Rows : s # r => row'[s] = row[s]
    BY <1>1, <1>3 DEF EnqueueOrderCreated, RetryFallsDue, ClaimAges
  <2>3. row'[r].attempts = row[r].attempts /\ (Ready(r) => Ready(r)')
    <3>1. CASE EnqueueOrderCreated(r)
      BY <1>1, <2>2, <3>1 DEF EnqueueOrderCreated, Ready, Row
    <3>2. CASE RetryFallsDue(r)
      BY <1>1, <2>2, <3>2 DEF RetryFallsDue, Ready, Row
    <3>3. CASE ClaimAges(r)
      BY <1>1, <2>2, <3>3 DEF ClaimAges, Abandoned, Ready, Row
    <3>4. QED
      BY <1>3, <3>1, <3>2, <3>3
  <2>4. \A s \in Rows : row'[s].attempts = row[s].attempts /\ (Ready(s) => Ready(s)')
    BY <2>2, <2>3 DEF Ready
  <2>5. CASE Processes = {}
    BY <2>5 DEF BatchIsFresh
  <2>6. ASSUME NEW p \in Processes PROVE BatchIsFresh'
    BY <1>2, <2>1, <2>4, BatchStaysFresh
  <2>7. QED
    BY <2>5, <2>6
<1>4. ASSUME NEW p \in Processes, StartProcess(p) PROVE BatchIsFresh'
  <2>1. worker'[p].batch = worker[p].batch /\ row' = row /\ worker'[p].pc = "booting"
    BY <1>1, <1>4 DEF StartProcess, Worker
  <2>2. worker[p].batch = <<>>
    BY <1>4 DEF StartProcess, OutboxInv, WorkerInv, Busy
  <2>3. QED
    BY <2>1, <2>2, EmptyBatchIsFresh
<1>5. ASSUME NEW p \in Processes, RecoverAbandonedClaims(p) PROVE BatchIsFresh'
  <2>1. worker[p].batch = <<>>
    BY <1>5 DEF RecoverAbandonedClaims, OutboxInv, WorkerInv, Busy
  <2>2. worker'[p].batch = worker[p].batch
    BY <1>1, <1>5 DEF RecoverAbandonedClaims, Worker
  <2>3. QED
    BY <2>1, <2>2, EmptyBatchIsFresh
<1>6. ASSUME NEW p \in Processes, Crash(p) \/ AbortPass(p) PROVE BatchIsFresh'
  <2>1. worker'[p].batch = <<>>
    BY <1>1, <1>6 DEF Crash, AbortPass
  <2>2. QED
    BY <2>1, EmptyBatchIsFresh
<1>7. ASSUME NEW p \in Processes, ReadBatch(p) PROVE BatchIsFresh'
  BY <1>7, FreshWhenRead
<1>8. ASSUME NEW p \in Processes, Claim(p) PROVE BatchIsFresh'
  <2>1. Busy(p) /\ worker[p].pc = "next"
    BY <1>8 DEF Claim, Busy
  <2>2. CASE CanClaim(Current(p))
    <3>1. /\ worker'[p].pc = "posting" /\ worker'[p].batch = worker[p].batch
          /\ row' = [row EXCEPT ![Current(p)] = [@ EXCEPT !.status = "PROCESSING", !.aged = FALSE]]
      BY <1>1, <1>8, <2>2 DEF Claim, Worker
    <3>2. \A s \in Rows : row'[s].attempts = row[s].attempts /\ (s # Current(p) => row'[s] = row[s])
      BY <1>1, <3>1 DEF Row
    <3>3. ASSUME NEW n \in 1 .. Len(worker[p].batch), n > 1 PROVE worker[p].batch[n].row # Current(p)
      <4>1. Current(p) = worker[p].batch[1].row /\ 1 \in 1 .. Len(worker[p].batch)
        BY <2>1, InHand DEF Current
      <4>2. QED
        BY <3>3, <4>1 DEF BatchIsFresh, FreshFor
    <3>4. QED
      BY <1>2, <3>1, <3>2, <3>3, BatchStaysFresh DEF Ready
  <2>3. CASE ~CanClaim(Current(p))
    <3>1. Advance(p) /\ row' = row
      BY <1>8, <2>3 DEF Claim
    <3>2. QED
      BY <2>1, <3>1, RestIsFresh
  <2>4. QED
    BY <2>2, <2>3
<1>9. ASSUME NEW p \in Processes, Post(p) \/ RecordDeliveryFails(p) PROVE BatchIsFresh'
  <2>1. /\ worker'[p].batch = worker[p].batch /\ row' = row /\ worker'[p].pc # "next"
    BY <1>1, <1>9 DEF Post, PostAccepted, PostFails, RecordDeliveryFails, Worker
  <2>2. QED
    BY <2>1, BatchStaysFresh DEF Ready
<1>10. ASSUME NEW p \in Processes, RecordDelivery(p) \/ RecordFailure(p) PROVE BatchIsFresh'
  <2>1. Busy(p) /\ Advance(p) /\ \A s \in Rows : s # Current(p) => row'[s] = row[s]
    BY <1>1, <1>10 DEF RecordDelivery, RecordFailure, Busy
  <2>2. QED
    BY <2>1, RestIsFresh
<1>11. CASE UNCHANGED outboxVars
  BY <1>11 DEF outboxVars, BatchIsFresh
<1>12. QED
  BY <1>3, <1>4, <1>5, <1>6, <1>7, <1>8, <1>9, <1>10, <1>11 DEF OutboxNext, Record

LEMMA BatchesStayFresh == OneProcess => (OutboxSpec => []BatchIsFresh)
<1> SUFFICES ASSUME OneProcess PROVE OutboxSpec => []BatchIsFresh
  OBVIOUS
<1>1. OutboxInit => BatchIsFresh
  BY DEF OutboxInit, BatchIsFresh, FreshFor
<1>2. OutboxInv /\ BatchIsFresh /\ [OutboxNext]_outboxVars => BatchIsFresh'
  BY FreshStep
<1>3. QED
  BY <1>1, <1>2, OutboxHolds, PTL DEF OutboxSpec

(* What a failure adds, and what a claim finds, in one step. *)
LEMMA FailureCounts ==
  ASSUME OutboxInv, BatchIsFresh, OneProcess, OutboxNext, NEW p \in Processes,
         worker[p].pc = "failed", row' # row, worker'[p] # worker[p]
  PROVE  row'[Current(p)].attempts = row[Current(p)].attempts + 1
<1>1. worker \in [Processes -> Worker] /\ row \in [Rows -> Row] /\ Busy(p)
  BY DEF OutboxInv, OutboxTypeOK, Busy
<1>2. RecordFailure(p)
  <2>1. ~\E r \in Rows : EnqueueOrderCreated(r) \/ RetryFallsDue(r) \/ ClaimAges(r)
    BY DEF EnqueueOrderCreated, RetryFallsDue, ClaimAges
  <2>2. PICK q \in Processes :
           \/ StartProcess(q) \/ RecoverAbandonedClaims(q) \/ Crash(q) \/ ReadBatch(q)
           \/ Claim(q) \/ Post(q) \/ Record(q) \/ AbortPass(q)
    BY <2>1 DEF OutboxNext
  <2>3. q = p
    BY DEF OneProcess
  <2>4. QED
    BY <2>2, <2>3
    DEF StartProcess, RecoverAbandonedClaims, Crash, ReadBatch, Claim, Post, PostAccepted, PostFails, Record,
        RecordDelivery, RecordDeliveryFails, AbortPass
<1> DEFINE b == worker[p].batch
<1>3. b \in Seq(Snapshot) /\ b # <<>> /\ Head(b).row = Current(p) /\ Current(p) \in Rows
  BY <1>1, InHand DEF Current
<1>4. \A n \in 1 .. Len(b) : row[b[n].row].attempts = b[n].attempts
  BY DEF BatchIsFresh, FreshFor
<1>5. Attempts(p) = Head(b).attempts + 1
  BY DEF Attempts
<1> HIDE DEF b
<1>6. Head(b).attempts = row[Current(p)].attempts
  BY <1>3, <1>4
<1>7. row[Current(p)] \in Row
  BY <1>1, <1>3
<1>8. row'[Current(p)].attempts = Attempts(p)
  BY <1>1, <1>2, <1>3, <1>7 DEF RecordFailure, Row
<1>9. QED
  BY <1>5, <1>6, <1>8

LEMMA ClaimsAreDue ==
  ASSUME OutboxInv, BatchIsFresh, OneProcess, OutboxNext, NEW r \in Rows,
         row[r].status = "PENDING", row'[r].status = "PROCESSING"
  PROVE  row[r].due
<1>1. worker \in [Processes -> Worker] /\ row \in [Rows -> Row]
  BY DEF OutboxInv, OutboxTypeOK
<1>2. ~\E s \in Rows : EnqueueOrderCreated(s) \/ RetryFallsDue(s) \/ ClaimAges(s)
  BY <1>1 DEF EnqueueOrderCreated, RetryFallsDue, ClaimAges, Row
<1>3. PICK p \in Processes :
         \/ StartProcess(p) \/ RecoverAbandonedClaims(p) \/ Crash(p) \/ ReadBatch(p)
         \/ Claim(p) \/ Post(p) \/ Record(p) \/ AbortPass(p)
  BY <1>2 DEF OutboxNext
<1>4. ~(RecordDelivery(p) \/ RecordFailure(p) \/ RecoverAbandonedClaims(p))
  <2>1. row[r] \in Row /\ row'[r] # row[r]
    BY <1>1
  <2>2. ~RecoverAbandonedClaims(p)
    BY <2>1 DEF RecoverAbandonedClaims, RecoversClaim
  <2>3. ~RecordDelivery(p)
    BY <1>1, <2>1 DEF RecordDelivery, Row
  <2>4. ASSUME RecordFailure(p) PROVE FALSE
    <3>1. PICK status \in {"DEAD_LETTER", "PENDING"} : row' = [row EXCEPT ![Current(p)] =
             [@ EXCEPT !.status = status, !.attempts = Attempts(p), !.due = FALSE, !.aged = FALSE]]
      BY <2>4 DEF RecordFailure
    <3>2. QED
      BY <1>1, <2>1, <3>1 DEF Row
  <2>5. QED
    BY <2>2, <2>3, <2>4
<1>5. Claim(p) /\ worker[p].pc = "next"
  BY <1>3, <1>4
  DEF StartProcess, Crash, ReadBatch, Post, PostAccepted, PostFails, Record, RecordDeliveryFails, AbortPass, Claim
<1>6. r = Current(p)
  BY <1>1, <1>5 DEF Claim
<1> DEFINE b == worker[p].batch
<1>7. b \in Seq(Snapshot) /\ b # <<>> /\ Head(b).row = r
  BY <1>5, <1>6, InHand DEF Busy, Current
<1>8. FreshFor(row, "next", b)
  BY <1>5 DEF BatchIsFresh
<1> HIDE DEF b
<1>9. QED
  BY <1>7, <1>8 DEF FreshFor

(* With one API process, every failed delivery is counted and no retry      *)
(* comes before its backoff, whatever crashes and failed writes there are.  *)
THEOREM OneProcessFollowsTheRules == OneProcess => (OutboxSpec => RetriesFollowTheRules)
<1> SUFFICES ASSUME OneProcess PROVE OutboxSpec => RetriesFollowTheRules
  OBVIOUS
<1>1. OutboxInv /\ BatchIsFresh /\ [OutboxNext]_outboxVars =>
        [\A p \in Processes : worker[p].pc = "failed" /\ row' # row /\ worker'[p] # worker[p]
           => row'[Current(p)].attempts = row[Current(p)].attempts + 1]_outboxVars
  BY FailureCounts
<1>2. OutboxInv /\ BatchIsFresh /\ [OutboxNext]_outboxVars =>
        [\A r \in Rows : row[r].status = "PENDING" /\ row'[r].status = "PROCESSING" => row[r].due]_row
  BY ClaimsAreDue DEF outboxVars
<1>3. OutboxSpec => []BatchIsFresh
  BY BatchesStayFresh
<1>4. QED
  BY <1>1, <1>2, <1>3, OutboxHolds, PTL DEF OutboxSpec, RetriesFollowTheRules, EveryFailureCounts, BackoffIsRespected
=============================================================================
