-------------------------- MODULE StorefrontProofs --------------------------
(***************************************************************************)
(* Proofs about the customer's app and his address book, for any number    *)
(* of calls, addresses, portions, checkout pages and submissions.          *)
(*                                                                         *)
(* Two inductive invariants that share no variable: ShopInv follows a      *)
(* portion from the cart through the orders under way to the orders in the *)
(* database; BookInv is about the rows of the address book, whose          *)
(* transactions commit only on what they read.                             *)
(***************************************************************************)
EXTENDS Storefront, SequenceTheorems, FiniteSetTheorems, TLAPS

(* Removing an element of a sequence, and writing a row so that it comes last. *)
LEMMA RemoveAtFacts ==
    ASSUME NEW S, NEW q \in Seq(S), NEW i \in 1 .. Len(q)
    PROVE  /\ RemoveAt(q, i) \in Seq(S)
           /\ Len(RemoveAt(q, i)) = Len(q) - 1
           /\ \A j \in 1 .. Len(q) - 1 : RemoveAt(q, i)[j] = q[IF j < i THEN j ELSE j + 1]
<1> DEFINE front == SubSeq(q, 1, i - 1)
           back == SubSeq(q, i + 1, Len(q))
<1>0. Len(q) \in Nat /\ i \in Nat
      OBVIOUS
<1>1. front \in Seq(S) /\ Len(front) = i - 1 /\ \A j \in 1 .. i - 1 : front[j] = q[j]
      BY <1>0, SubSeqProperties
<1>2. back \in Seq(S) /\ Len(back) = Len(q) - i /\ \A j \in 1 .. Len(q) - i : back[j] = q[i + j]
      <2>1. CASE i = Len(q)
            <3>1. back = <<>>
                  BY <2>1, <1>0, SubSeqProperties
            <3> QED  BY <3>1, <2>1, <1>0
      <2>2. CASE i < Len(q)
            BY <2>2, <1>0, SubSeqProperties
      <2> QED  BY <2>1, <2>2, <1>0
<1> HIDE DEF front, back
<1>3. /\ front \o back \in Seq(S)
      /\ Len(front \o back) = Len(front) + Len(back)
      /\ \A j \in 1 .. Len(front) + Len(back) : (front \o back)[j] = IF j <= Len(front) THEN front[j] ELSE back[j - Len(front)]
      BY <1>1, <1>2, ConcatProperties
<1>4. RemoveAt(q, i) = front \o back
      BY DEF RemoveAt, front, back
<1>5. ASSUME NEW j \in 1 .. Len(q) - 1
      PROVE  (front \o back)[j] = q[IF j < i THEN j ELSE j + 1]
      <2>1. CASE j < i
            BY <2>1, <1>0, <1>1, <1>2, <1>3
      <2>2. CASE ~(j < i)
            <3>1. (front \o back)[j] = back[j - (i - 1)] /\ j - (i - 1) \in 1 .. Len(q) - i
                  BY <2>2, <1>0, <1>1, <1>2, <1>3
            <3>2. back[j - (i - 1)] = q[i + (j - (i - 1))]
                  BY <3>1, <1>2
            <3>3. i + (j - (i - 1)) = j + 1
                  BY <1>0
            <3> QED  BY <2>2, <3>1, <3>2, <3>3
      <2> QED  BY <2>1, <2>2
<1>6. \A j \in 1 .. Len(q) - 1 : (front \o back)[j] = q[IF j < i THEN j ELSE j + 1]
      BY <1>5
<1>7. Len(front) + Len(back) = Len(q) - 1
      BY <1>0, <1>1, <1>2
<1> QED  BY <1>3, <1>4, <1>6, <1>7

(* What is left was there before. *)
LEMMA RemoveAtKeeps ==
    ASSUME NEW S, NEW q \in Seq(S), NEW i \in 1 .. Len(q)
    PROVE  /\ RemoveAt(q, i) \in Seq(S)
           /\ \A j \in DOMAIN RemoveAt(q, i) : \E k \in DOMAIN q : RemoveAt(q, i)[j] = q[k]
<1>1. ASSUME NEW j \in DOMAIN RemoveAt(q, i)
      PROVE  \E k \in DOMAIN q : RemoveAt(q, i)[j] = q[k]
      <2>1. j \in 1 .. Len(q) - 1
            BY RemoveAtFacts
      <2>2. (IF j < i THEN j ELSE j + 1) \in DOMAIN q
            BY <2>1
      <2> QED  BY <2>1, <2>2, RemoveAtFacts
<1> QED  BY <1>1, RemoveAtFacts

-----------------------------------------------------------------------------
(* The orders. *)
Submission ==
    [page: Nat, request: Nat, items: SUBSET (1 .. MaxPicks), place: Places \cup {None},
     known: SUBSET (1 .. MaxPages), pc: {"sent", "answer"}, order: Nat]

ShopTypeOK ==
    /\ picked \in 0 .. MaxPicks /\ pages \in 0 .. MaxPages /\ submits \in Nat /\ page \in 0 .. pages
    /\ cart \subseteq 1 .. picked /\ late \subseteq 1 .. picked /\ known \subseteq 1 .. pages
    /\ sent \in Seq(Submission) /\ orders \in Seq(Order)

(* A request, under way or made an order: its id is its page's. *)
IsRequest(r) == r.request = r.page /\ r.page \in 1 .. pages /\ r.items \subseteq 1 .. picked /\ r.known \subseteq known
RequestsAreSound ==
    /\ \A s \in DOMAIN sent : IsRequest(sent[s])
    /\ \A o \in DOMAIN orders : IsRequest(orders[o])

(* While a page is on screen the cart stays as it is, so all that a page sends is alike. *)
PagesKeepTheirCart ==
    /\ \A s \in DOMAIN sent : sent[s].page = page => sent[s].items = cart
    /\ \A o \in DOMAIN orders : orders[o].page = page => orders[o].items = cart
    /\ \A s, t \in DOMAIN sent : sent[s].page = sent[t].page => sent[s].items = sent[t].items
    /\ \A s \in DOMAIN sent, o \in DOMAIN orders : sent[s].page = orders[o].page => sent[s].items = orders[o].items

AnswersAreOrders ==
    \A s \in DOMAIN sent :
        /\ sent[s].order \in 0 .. Len(orders)
        /\ sent[s].pc = "answer" => sent[s].order # 0 /\ orders[sent[s].order].page = sent[s].page

(* A page whose order was shown has one, so the server makes no other; and what was in it
   left the cart before anything that was sent knowing of it. *)
ShownIsOrdered == \A q \in known : \E o \in DOMAIN orders : orders[o].page = q
ShownIsGone ==
    /\ \A o \in DOMAIN orders : orders[o].page \in known => orders[o].items \cap cart = {}
    /\ \A o \in DOMAIN orders, s \in DOMAIN sent : orders[o].page \in sent[s].known => orders[o].items \cap sent[s].items = {}

(* Whatever answer comes next, what it sweeps away is in it or was late. *)
CartIsOnItsWay == \A s \in DOMAIN sent : cart \subseteq sent[s].items \cup late

ShopInv ==
    /\ ShopTypeOK /\ RequestsAreSound /\ PagesKeepTheirCart /\ AnswersAreOrders
    /\ ShownIsOrdered /\ ShownIsGone /\ CartIsOnItsWay
    /\ OneOrderPerPage /\ NothingIsOrderedAgain /\ OnlyOrderedPicksLeave

tracked == <<cart, picked, late, page, pages, sent, submits, known, orders>>

LEMMA ShopInit == Init => ShopInv
BY StorefrontAssumption, EmptySeq
   DEF Init, ShopInv, ShopTypeOK, RequestsAreSound, PagesKeepTheirCart, AnswersAreOrders, ShownIsOrdered, ShownIsGone,
       CartIsOnItsWay, OneOrderPerPage, NothingIsOrderedAgain, OnlyOrderedPicksLeave

LEMMA ShopUntouched == ShopInv /\ UNCHANGED tracked => ShopInv'
BY DEF tracked, ShopInv, ShopTypeOK, RequestsAreSound, IsRequest, PagesKeepTheirCart, AnswersAreOrders, ShownIsOrdered,
       ShownIsGone, CartIsOnItsWay, OneOrderPerPage, NothingIsOrderedAgain, OnlyOrderedPicksLeave

LEMMA AddCartItemKeeps == ShopInv /\ AddCartItem => ShopInv'
<1> SUFFICES ASSUME ShopInv, AddCartItem PROVE ShopInv'
    OBVIOUS
<1> USE DEF ShopInv, AddCartItem, Offered
<1>1. ShopTypeOK'
      BY StorefrontAssumption DEF ShopTypeOK
<1>2. picked \in Nat /\ picked' = picked + 1 /\ pages \in Nat /\ page = 0
      BY StorefrontAssumption DEF ShopTypeOK
<1>3. RequestsAreSound'
      BY <1>2 DEF RequestsAreSound, IsRequest
<1>4. PagesKeepTheirCart'
      BY <1>2 DEF PagesKeepTheirCart, RequestsAreSound, IsRequest
<1>5. AnswersAreOrders' /\ ShownIsOrdered' /\ OneOrderPerPage' /\ NothingIsOrderedAgain'
      BY DEF AnswersAreOrders, ShownIsOrdered, OneOrderPerPage, NothingIsOrderedAgain
<1>6. ShownIsGone'
      <2>1. \A o \in DOMAIN orders : picked' \notin orders[o].items
            BY <1>2 DEF RequestsAreSound, IsRequest
      <2> QED  BY <2>1 DEF ShownIsGone
<1>7. CartIsOnItsWay'
      <2>1. CASE sent = <<>>
            BY <2>1 DEF CartIsOnItsWay
      <2>2. CASE sent # <<>>
            BY <2>2 DEF CartIsOnItsWay
      <2> QED  BY <2>1, <2>2
<1>8. OnlyOrderedPicksLeave'
      BY <1>2 DEF OnlyOrderedPicksLeave
<1> QED  BY <1>1, <1>3, <1>4, <1>5, <1>6, <1>7, <1>8

LEMMA OpenCheckoutKeeps == ShopInv /\ OpenCheckout => ShopInv'
<1> SUFFICES ASSUME ShopInv, OpenCheckout PROVE ShopInv'
    OBVIOUS
<1> USE DEF ShopInv, OpenCheckout
<1>1. ShopTypeOK'
      BY StorefrontAssumption DEF ShopTypeOK
<1>2. pages \in Nat /\ pages' = pages + 1 /\ page' = pages + 1
      BY StorefrontAssumption DEF ShopTypeOK
<1>3. RequestsAreSound'
      BY <1>2 DEF RequestsAreSound, IsRequest
<1>4. PagesKeepTheirCart'
      BY <1>2 DEF PagesKeepTheirCart, RequestsAreSound, IsRequest
<1>5. /\ AnswersAreOrders' /\ ShownIsOrdered' /\ ShownIsGone' /\ CartIsOnItsWay'
      /\ OneOrderPerPage' /\ NothingIsOrderedAgain' /\ OnlyOrderedPicksLeave'
      BY DEF AnswersAreOrders, ShownIsOrdered, ShownIsGone, CartIsOnItsWay, OneOrderPerPage, NothingIsOrderedAgain, OnlyOrderedPicksLeave
<1> QED  BY <1>1, <1>3, <1>4, <1>5

LEMMA GoBackKeeps == ShopInv /\ GoBack => ShopInv'
<1> SUFFICES ASSUME ShopInv, GoBack PROVE ShopInv'
    OBVIOUS
<1> USE DEF ShopInv, GoBack
<1>1. ShopTypeOK'
      BY StorefrontAssumption DEF ShopTypeOK
<1>2. RequestsAreSound' /\ PagesKeepTheirCart'
      BY StorefrontAssumption DEF ShopTypeOK, RequestsAreSound, IsRequest, PagesKeepTheirCart
<1>3. /\ AnswersAreOrders' /\ ShownIsOrdered' /\ ShownIsGone' /\ CartIsOnItsWay'
      /\ OneOrderPerPage' /\ NothingIsOrderedAgain' /\ OnlyOrderedPicksLeave'
      BY DEF AnswersAreOrders, ShownIsOrdered, ShownIsGone, CartIsOnItsWay, OneOrderPerPage, NothingIsOrderedAgain, OnlyOrderedPicksLeave
<1> QED  BY <1>1, <1>2, <1>3

LEMMA SubmitKeeps == ShopInv /\ (\E place \in Places \cup {None} : Submit(place)) => ShopInv'
<1> SUFFICES ASSUME ShopInv, NEW place \in Places \cup {None}, Submit(place) PROVE ShopInv'
    OBVIOUS
<1> DEFINE r == [page |-> page, request |-> RequestId, items |-> cart, place |-> place, known |-> known, pc |-> "sent", order |-> 0]
<1>1. /\ r.page = page /\ r.request = page /\ r.items = cart /\ r.known = known /\ r.pc = "sent" /\ r.order = 0
      BY DEF RequestId
<1>2. r \in Submission
      BY StorefrontAssumption DEF ShopInv, ShopTypeOK, Submission, RequestId
<1>3. sent \in Seq(Submission) /\ sent' = Append(sent, r) /\ page # 0 /\ page \in 1 .. pages /\ submits' \in Nat
      BY StorefrontAssumption DEF ShopInv, ShopTypeOK, Submit
<1>4. UNCHANGED <<cart, picked, late, page, pages, known, orders>>
      BY DEF Submit
<1> HIDE DEF r
<1>5. /\ sent' \in Seq(Submission) /\ DOMAIN sent' = 1 .. Len(sent) + 1 /\ DOMAIN sent = 1 .. Len(sent) /\ Len(sent) \in Nat
      /\ \A s \in DOMAIN sent : sent'[s] = sent[s]
      /\ sent'[Len(sent) + 1] = r
      BY <1>2, <1>3, AppendProperties
<1>6. \A s \in DOMAIN sent' : s \in DOMAIN sent \/ (s = Len(sent) + 1 /\ sent'[s] = r)
      BY <1>5
<1>7. ShopTypeOK'
      BY <1>3, <1>4, <1>5 DEF ShopInv, ShopTypeOK
<1>8. RequestsAreSound'
      BY <1>1, <1>3, <1>4, <1>5, <1>6 DEF ShopInv, ShopTypeOK, RequestsAreSound, IsRequest
<1>9. PagesKeepTheirCart'
      BY <1>1, <1>4, <1>5, <1>6 DEF ShopInv, PagesKeepTheirCart
<1>10. AnswersAreOrders'
      <2>1. Len(orders) \in Nat
            BY DEF ShopInv, ShopTypeOK
      <2> QED  BY <2>1, <1>1, <1>4, <1>5, <1>6 DEF ShopInv, AnswersAreOrders
<1>11. ShownIsOrdered' /\ OneOrderPerPage' /\ NothingIsOrderedAgain' /\ OnlyOrderedPicksLeave'
      BY <1>4 DEF ShopInv, ShownIsOrdered, OneOrderPerPage, NothingIsOrderedAgain, OnlyOrderedPicksLeave
<1>12. ShownIsGone' /\ CartIsOnItsWay'
      BY <1>1, <1>4, <1>5, <1>6 DEF ShopInv, ShownIsGone, CartIsOnItsWay
<1> QED  BY <1>7, <1>8, <1>9, <1>10, <1>11, <1>12 DEF ShopInv

(* What an answer changes of a submission is its answer. *)
AnsweredWith(q, s, o) == [q EXCEPT ![s].pc = "answer", ![s].order = o]
IsAnswered(q, s, o, a) ==
    /\ a \in Seq(Submission) /\ DOMAIN a = DOMAIN q
    /\ \A t \in DOMAIN q : /\ a[t].page = q[t].page /\ a[t].request = q[t].request
                           /\ a[t].items = q[t].items /\ a[t].known = q[t].known
                           /\ t # s => a[t] = q[t]
    /\ a[s].pc = "answer" /\ a[s].order = o
LEMMA AnsweredFacts ==
    ASSUME NEW q \in Seq(Submission), NEW s \in DOMAIN q, NEW o \in Nat
    PROVE  IsAnswered(q, s, o, AnsweredWith(q, s, o))
<1> DEFINE a == [q EXCEPT ![s].pc = "answer", ![s].order = o]
<1>1. DOMAIN q = 1 .. Len(q) /\ Len(q) \in Nat
      OBVIOUS
<1>2. ASSUME NEW t \in DOMAIN q
      PROVE  /\ q[t] \in Submission
             /\ a[t] = IF t = s THEN [q[s] EXCEPT !.pc = "answer", !.order = o] ELSE q[t]
      OBVIOUS
<1>3. [q[s] EXCEPT !.pc = "answer", !.order = o] \in Submission
      BY <1>2 DEF Submission
<1>4. a \in [1 .. Len(q) -> Submission] /\ DOMAIN a = 1 .. Len(q)
      BY <1>1, <1>2, <1>3
<1>5. a \in Seq(Submission)
      <2> DEFINE e == [q[s] EXCEPT !.pc = "answer", !.order = o]
      <2>1. e \in Submission
            BY <1>3
      <2>2. a = [q EXCEPT ![s] = e]
            OBVIOUS
      <2> HIDE DEF e
      <2>3. s \in 1 .. Len(q)
            BY <1>1
      <2>4. [q EXCEPT ![s] = e] \in Seq(Submission)
            BY ONLY <2>1, <2>3, q \in Seq(Submission), ExceptSeq
      <2> QED  BY <2>2, <2>4
<1>6. a[s] = [q[s] EXCEPT !.pc = "answer", !.order = o] /\ q[s] \in Submission
      BY <1>2
<1>7. /\ a[s].page = q[s].page /\ a[s].request = q[s].request /\ a[s].items = q[s].items /\ a[s].known = q[s].known
      /\ a[s].pc = "answer" /\ a[s].order = o
      BY <1>6 DEF Submission
<1>8. a = AnsweredWith(q, s, o)
      BY DEF AnsweredWith
<1> HIDE DEF a
<1> QED  BY <1>1, <1>2, <1>4, <1>5, <1>7, <1>8 DEF IsAnswered

(* A retry, or a second press: the page has its order. *)
LEMMA KnownOrderKeeps ==
    ASSUME ShopInv, NEW s \in DOMAIN sent, NEW o \in OrderOf(sent[s].request),
           sent' = AnsweredWith(sent, s, o),
           UNCHANGED <<cart, picked, late, page, pages, submits, known, orders>>
    PROVE  ShopInv'
<1>1. sent \in Seq(Submission) /\ o \in DOMAIN orders /\ DOMAIN orders = 1 .. Len(orders) /\ Len(orders) \in Nat /\ orders[o].request = sent[s].request
      BY DEF ShopInv, ShopTypeOK, OrderOf
<1>2. orders[o].page = sent[s].page
      BY <1>1 DEF ShopInv, RequestsAreSound, IsRequest
<1>3. /\ sent' \in Seq(Submission) /\ DOMAIN sent' = DOMAIN sent
      /\ \A t \in DOMAIN sent : /\ sent'[t].page = sent[t].page /\ sent'[t].request = sent[t].request
                                /\ sent'[t].items = sent[t].items /\ sent'[t].known = sent[t].known
                                /\ t # s => sent'[t] = sent[t]
      /\ sent'[s].pc = "answer" /\ sent'[s].order = o
      <2>1. o \in Nat
            BY <1>1
      <2>2. IsAnswered(sent, s, o, sent')
            BY <1>1, <2>1, AnsweredFacts
      <2> QED  BY <2>2 DEF IsAnswered
<1>4. ShopTypeOK'
      BY <1>3 DEF ShopInv, ShopTypeOK
<1>5. RequestsAreSound' /\ PagesKeepTheirCart'
      BY <1>3 DEF ShopInv, RequestsAreSound, IsRequest, PagesKeepTheirCart
<1>6. AnswersAreOrders'
      BY <1>1, <1>2, <1>3 DEF ShopInv, AnswersAreOrders
<1>7. ShownIsOrdered' /\ ShownIsGone' /\ CartIsOnItsWay' /\ OneOrderPerPage' /\ NothingIsOrderedAgain' /\ OnlyOrderedPicksLeave'
      BY <1>3 DEF ShopInv, ShownIsOrdered, ShownIsGone, CartIsOnItsWay, OneOrderPerPage, NothingIsOrderedAgain, OnlyOrderedPicksLeave
<1> QED  BY <1>4, <1>5, <1>6, <1>7 DEF ShopInv

(* The first try of a page that the server accepts. Nobody was shown an order of this page. *)
LEMMA NewOrderKeeps ==
    ASSUME ShopInv, NEW s \in DOMAIN sent, OrderOf(sent[s].request) = {}, NEW n, n = Len(orders) + 1,
           NEW r \in Order, r.page = sent[s].page, r.request = sent[s].request, r.items = sent[s].items, r.known = sent[s].known,
           orders' = Append(orders, r), sent' = AnsweredWith(sent, s, n),
           UNCHANGED <<cart, picked, late, page, pages, submits, known>>
    PROVE  ShopInv'
<1>1. sent \in Seq(Submission) /\ sent[s] \in Submission /\ orders \in Seq(Order) /\ DOMAIN orders = 1 .. Len(orders) /\ Len(orders) \in Nat
      BY DEF ShopInv, ShopTypeOK
<1>3. r.page = sent[s].page /\ r.request = sent[s].request /\ r.items = sent[s].items /\ r.known = sent[s].known
      OBVIOUS
<1>5. /\ orders' \in Seq(Order) /\ DOMAIN orders' = 1 .. n /\ n \in Nat /\ Len(orders') = n
      /\ \A o \in DOMAIN orders : orders'[o] = orders[o] /\ o # n /\ o \in DOMAIN orders'
      /\ orders'[n] = r
      BY <1>1, AppendProperties
<1>6. \A o \in DOMAIN orders' : o \in DOMAIN orders \/ o = n
      BY <1>1, <1>5
<1>7. /\ sent' \in Seq(Submission) /\ DOMAIN sent' = DOMAIN sent
      /\ \A t \in DOMAIN sent : /\ sent'[t].page = sent[t].page /\ sent'[t].request = sent[t].request
                                /\ sent'[t].items = sent[t].items /\ sent'[t].known = sent[t].known
                                /\ t # s => sent'[t] = sent[t]
      /\ sent'[s].pc = "answer" /\ sent'[s].order = n
      <2>1. IsAnswered(sent, s, n, sent')
            BY <1>1, <1>5, AnsweredFacts
      <2> QED  BY <2>1 DEF IsAnswered
<1>8. \A o \in DOMAIN orders : orders[o].page # r.page
      BY <1>3 DEF ShopInv, RequestsAreSound, IsRequest, OrderOf
<1>9. r.page \notin known /\ (\A t \in DOMAIN sent : r.page \notin sent[t].known) /\ \A o \in DOMAIN orders' : r.page \notin orders'[o].known
      <2>1. r.page \notin known
            BY <1>8 DEF ShopInv, ShownIsOrdered
      <2> QED  BY <2>1, <1>3, <1>5, <1>6 DEF ShopInv, RequestsAreSound, IsRequest
<1>10. ShopTypeOK'
      BY <1>5, <1>7 DEF ShopInv, ShopTypeOK
<1>11. RequestsAreSound'
      <2>1. \A t \in DOMAIN sent : IsRequest(sent[t])
            BY DEF ShopInv, RequestsAreSound
      <2>2. \A t \in DOMAIN sent' : IsRequest(sent'[t])
            BY <2>1, <1>7 DEF IsRequest
      <2>3. IsRequest(r)
            BY <2>1, <1>3 DEF IsRequest
      <2>4. \A o \in DOMAIN orders' : IsRequest(orders'[o])
            BY <2>3, <1>5, <1>6 DEF ShopInv, RequestsAreSound
      <2>5. UNCHANGED <<pages, picked, known>>
            OBVIOUS
      <2> QED  BY ONLY <2>2, <2>4, <2>5 DEF RequestsAreSound, IsRequest
<1>12. PagesKeepTheirCart'
      <2>1. /\ \A o \in DOMAIN orders' : orders'[o].page = page => orders'[o].items = cart
            /\ \A t \in DOMAIN sent, o \in DOMAIN orders' : sent[t].page = orders'[o].page => sent[t].items = orders'[o].items
            BY <1>3, <1>5, <1>6 DEF ShopInv, PagesKeepTheirCart
      <2>2. /\ \A t \in DOMAIN sent : sent[t].page = page => sent[t].items = cart
            /\ \A t, u \in DOMAIN sent : sent[t].page = sent[u].page => sent[t].items = sent[u].items
            BY DEF ShopInv, PagesKeepTheirCart
      <2>3. UNCHANGED <<page, cart>> /\ DOMAIN sent' = DOMAIN sent /\ \A t \in DOMAIN sent : sent'[t].page = sent[t].page /\ sent'[t].items = sent[t].items
            BY <1>7
      <2> QED  BY ONLY <2>1, <2>2, <2>3 DEF PagesKeepTheirCart
<1>13. AnswersAreOrders'
      <2>1. ASSUME NEW t \in DOMAIN sent, t # s
            PROVE  /\ sent'[t].order \in 0 .. n
                   /\ sent'[t].pc = "answer" => sent'[t].order # 0 /\ orders'[sent'[t].order].page = sent'[t].page
            BY <1>1, <1>5, <1>7, <2>1 DEF ShopInv, AnswersAreOrders
      <2>2. /\ sent'[s].order \in 0 .. n
            /\ sent'[s].order # 0 /\ orders'[sent'[s].order].page = sent'[s].page
            <3>1. n # 0 /\ n \in 0 .. n
                  BY <1>1, <1>5
            <3>2. sent'[s].order = n /\ sent'[s].page = sent[s].page /\ orders'[n] = r
                  BY <1>5, <1>7
            <3> QED  BY <3>1, <3>2, <1>3
      <2> QED  BY <2>1, <2>2, <1>5, <1>7 DEF AnswersAreOrders
<1>14. ShownIsOrdered'
      BY <1>5 DEF ShopInv, ShownIsOrdered
<1>15. ShownIsGone'
      <2>1. \A o \in DOMAIN orders' : orders'[o].page \in known => orders'[o].items \cap cart = {}
            BY <1>3, <1>5, <1>6, <1>9 DEF ShopInv, ShownIsGone
      <2>2. ASSUME NEW o \in DOMAIN orders', NEW t \in DOMAIN sent, orders'[o].page \in sent[t].known
            PROVE  orders'[o].items \cap sent[t].items = {}
            <3>1. o # n
                  BY <2>2, <1>3, <1>5, <1>9
            <3>2. o \in DOMAIN orders /\ orders'[o] = orders[o]
                  BY <3>1, <1>5, <1>6
            <3> QED  BY <2>2, <3>2 DEF ShopInv, ShownIsGone
      <2>3. \A o \in DOMAIN orders', t \in DOMAIN sent : orders'[o].page \in sent'[t].known => orders'[o].items \cap sent'[t].items = {}
            BY <2>2, <1>7
      <2> QED  BY <2>1, <2>3, <1>7 DEF ShownIsGone
<1>16. CartIsOnItsWay'
      BY <1>7 DEF ShopInv, CartIsOnItsWay
<1>17. OneOrderPerPage'
      BY <1>5, <1>6, <1>8 DEF ShopInv, OneOrderPerPage
<1>18. NothingIsOrderedAgain'
      <2>1. \A o \in DOMAIN orders : orders[o].page \in r.known => orders[o].items \cap r.items = {}
            BY <1>3 DEF ShopInv, ShownIsGone
      <2> QED  BY <2>1, <1>5, <1>6, <1>9 DEF ShopInv, NothingIsOrderedAgain
<1>19. OnlyOrderedPicksLeave'
      BY <1>5 DEF ShopInv, OnlyOrderedPicksLeave
<1> QED  BY <1>10, <1>11, <1>12, <1>13, <1>14, <1>15, <1>16, <1>17, <1>18, <1>19 DEF ShopInv

LEMMA TakeOrderKeeps == ShopInv /\ (\E s \in DOMAIN sent : TakeOrder(s)) => ShopInv'
<1> SUFFICES ASSUME ShopInv, NEW s \in DOMAIN sent, TakeOrder(s) PROVE ShopInv'
    OBVIOUS
<1>1. CASE OrderOf(sent[s].request) = {}
      <2> DEFINE r == [page |-> sent[s].page, request |-> sent[s].request, items |-> sent[s].items,
                       place |-> sent[s].place, known |-> sent[s].known]
      <2>1. orders' = Append(orders, r) /\ sent' = AnsweredWith(sent, s, Len(orders'))
            BY <1>1 DEF TakeOrder, AnsweredWith
      <2>2. sent[s] \in Submission /\ orders \in Seq(Order)
            BY DEF ShopInv, ShopTypeOK
      <2>3. r \in Order
            BY <2>2 DEF Submission, Order
      <2>4. r.page = sent[s].page /\ r.request = sent[s].request /\ r.items = sent[s].items /\ r.known = sent[s].known
            OBVIOUS
      <2> HIDE DEF r
      <2>5. Len(orders') = Len(orders) + 1
            BY <2>1, <2>2, <2>3, AppendProperties
      <2>6. UNCHANGED <<cart, picked, late, page, pages, submits, known>>
            BY DEF TakeOrder
      <2> QED  BY <1>1, <2>1, <2>3, <2>4, <2>5, <2>6, NewOrderKeeps
<1>2. CASE OrderOf(sent[s].request) # {}
      <2>1. PICK o \in OrderOf(sent[s].request) : sent' = AnsweredWith(sent, s, o)
            BY <1>2 DEF TakeOrder, AnsweredWith
      <2>2. UNCHANGED <<cart, picked, late, page, pages, submits, known, orders>>
            BY <1>2 DEF TakeOrder
      <2> QED  BY <2>1, <2>2, KnownOrderKeeps
<1> QED  BY <1>1, <1>2

(* What is not waited for any longer leaves the rest as it was. *)
LEMMA FailOrderKeeps == ShopInv /\ (\E s \in DOMAIN sent : FailOrder(s)) => ShopInv'
<1> SUFFICES ASSUME ShopInv, NEW s \in DOMAIN sent, FailOrder(s) PROVE ShopInv'
    OBVIOUS
<1>1. sent \in Seq(Submission) /\ s \in 1 .. Len(sent) /\ sent' = RemoveAt(sent, s)
      BY DEF ShopInv, ShopTypeOK, FailOrder, Forgotten
<1>2. sent' \in Seq(Submission) /\ \A t \in DOMAIN sent' : \E u \in DOMAIN sent : sent'[t] = sent[u]
      BY <1>1, RemoveAtKeeps
<1>3. UNCHANGED <<cart, picked, late, page, pages, submits, known, orders>>
      BY DEF FailOrder, CartAfterFailure
<1>4. ShopTypeOK'
      BY <1>2, <1>3 DEF ShopInv, ShopTypeOK
<1>7. RequestsAreSound'
      BY <1>2, <1>3 DEF ShopInv, RequestsAreSound, IsRequest
<1>8. AnswersAreOrders'
      BY <1>2, <1>3 DEF ShopInv, AnswersAreOrders
<1>5. PagesKeepTheirCart'
      BY <1>2, <1>3 DEF ShopInv, PagesKeepTheirCart
<1>6. ShownIsOrdered' /\ ShownIsGone' /\ CartIsOnItsWay'
      BY <1>2, <1>3 DEF ShopInv, ShownIsOrdered, ShownIsGone, CartIsOnItsWay
<1>9. OneOrderPerPage' /\ NothingIsOrderedAgain' /\ OnlyOrderedPicksLeave'
      BY <1>2, <1>3 DEF ShopInv, OneOrderPerPage, NothingIsOrderedAgain, OnlyOrderedPicksLeave
<1> QED  BY <1>4, <1>5, <1>6, <1>7, <1>8, <1>9 DEF ShopInv

LEMMA ShowOrderKeeps == ShopInv /\ (\E s \in DOMAIN sent : ShowOrder(s)) => ShopInv'
<1> SUFFICES ASSUME ShopInv, NEW s \in DOMAIN sent, ShowOrder(s) PROVE ShopInv'
    OBVIOUS
<1>1. sent \in Seq(Submission) /\ s \in 1 .. Len(sent) /\ sent' = RemoveAt(sent, s) /\ sent[s].pc = "answer"
      BY DEF ShopInv, ShopTypeOK, ShowOrder, Forgotten
<1>2. sent' \in Seq(Submission) /\ \A t \in DOMAIN sent' : \E u \in DOMAIN sent : sent'[t] = sent[u]
      BY <1>1, RemoveAtKeeps
<1>3. cart' = {} /\ page' = 0 /\ known' = known \cup {sent[s].page} /\ UNCHANGED <<picked, late, pages, submits, orders>>
      BY DEF ShowOrder, CartAfterAnswer
<1>4. IsRequest(sent[s]) /\ sent[s].order \in DOMAIN orders /\ orders[sent[s].order].page = sent[s].page /\ orders[sent[s].order].items = sent[s].items
      <2>1. DOMAIN orders = 1 .. Len(orders) /\ Len(orders) \in Nat
            BY DEF ShopInv, ShopTypeOK
      <2> QED  BY <1>1, <2>1 DEF ShopInv, RequestsAreSound, AnswersAreOrders, PagesKeepTheirCart
<1>5. pages \in Nat /\ 0 \notin 1 .. pages
      BY StorefrontAssumption DEF ShopInv, ShopTypeOK
<1>6. ShopTypeOK'
      <2>1. known' \subseteq 1 .. pages
            BY <1>3, <1>4 DEF ShopInv, ShopTypeOK, IsRequest
      <2> QED  BY <1>2, <1>3, <1>5, <2>1 DEF ShopInv, ShopTypeOK
<1>7. RequestsAreSound'
      BY <1>2, <1>3 DEF ShopInv, RequestsAreSound, IsRequest
<1>8. PagesKeepTheirCart'
      <2>1. (\A t \in DOMAIN sent' : sent'[t].page # 0) /\ \A o \in DOMAIN orders : orders[o].page # 0
            BY <1>2, <1>5 DEF ShopInv, RequestsAreSound, IsRequest
      <2> QED  BY <1>2, <1>3, <2>1 DEF ShopInv, PagesKeepTheirCart
<1>9. AnswersAreOrders'
      BY <1>2, <1>3 DEF ShopInv, AnswersAreOrders
<1>10. ShownIsOrdered'
      BY <1>3, <1>4 DEF ShopInv, ShownIsOrdered
<1>11. ShownIsGone' /\ CartIsOnItsWay' /\ OneOrderPerPage' /\ NothingIsOrderedAgain'
      BY <1>2, <1>3 DEF ShopInv, ShownIsGone, CartIsOnItsWay, OneOrderPerPage, NothingIsOrderedAgain
<1>12. OnlyOrderedPicksLeave'
      BY <1>1, <1>3, <1>4 DEF ShopInv, CartIsOnItsWay, OnlyOrderedPicksLeave
<1> QED  BY <1>6, <1>7, <1>8, <1>9, <1>10, <1>11, <1>12 DEF ShopInv

-----------------------------------------------------------------------------
(* The address book. *)
PlacesDiffer(rows) == \A j, k \in DOMAIN rows : rows[j].place = rows[k].place => j = k
OneDefault(rows) == \A j, k \in DOMAIN rows : rows[j].default /\ rows[k].default => j = k
HasDefault(rows) == \E k \in DOMAIN rows : rows[k].default
IsBook(rows) == rows \in Seq(Address) /\ PlacesDiffer(rows) /\ OneDefault(rows) /\ (rows # <<>> => HasDefault(rows))

Transaction == [op: Ops, place: Places, pc: {"begin", "commit"}, attempt: 1 .. MaxAttempts, saw: Seq(Address)]
BookInv ==
    /\ IsBook(addresses) /\ Len(addresses) <= MaxAddresses
    /\ txn \in [Calls -> {Idle} \cup Transaction]
    /\ onSale \in BOOLEAN /\ menu \in BOOLEAN \cup {None} /\ mix \in Mixes

(* The rows without row k. *)
IsWithout(rows, k, w) ==
    /\ w \in Seq(Address) /\ Len(w) = Len(rows) - 1
    /\ \A j \in 1 .. Len(rows) - 1 : w[j] = rows[IF j < k THEN j ELSE j + 1]

LEMMA WithoutFacts ==
    ASSUME NEW rows \in Seq(Address), NEW k \in DOMAIN rows
    PROVE  IsWithout(rows, k, RemoveAt(rows, k))
<1>1. k \in 1 .. Len(rows)
      OBVIOUS
<1> QED  BY <1>1, RemoveAtFacts DEF IsWithout

(* Every row but k is still there, and nothing else. *)
HasTheOthers(rows, k, w) ==
    /\ \A j \in DOMAIN w : \E i \in DOMAIN rows \ {k} : w[j] = rows[i]
    /\ \A i \in DOMAIN rows \ {k} : \E j \in DOMAIN w : w[j] = rows[i]

LEMMA WithoutRows ==
    ASSUME NEW rows \in Seq(Address), NEW k \in DOMAIN rows, NEW w, IsWithout(rows, k, w)
    PROVE  /\ HasTheOthers(rows, k, w)
           /\ PlacesDiffer(rows) => PlacesDiffer(w)
           /\ OneDefault(rows) => OneDefault(w)
<1>1. DOMAIN rows = 1 .. Len(rows) /\ DOMAIN w = 1 .. Len(rows) - 1 /\ Len(rows) \in Nat /\ k \in 1 .. Len(rows)
      BY DEF IsWithout
<1> DEFINE At(j) == IF j < k THEN j ELSE j + 1
<1>2. \A j \in DOMAIN w : At(j) \in DOMAIN rows \ {k} /\ w[j] = rows[At(j)]
      BY <1>1 DEF IsWithout
<1>3. \A i, j \in DOMAIN w : At(i) = At(j) => i = j
      BY <1>1
<1>4. ASSUME NEW i \in DOMAIN rows \ {k}
      PROVE  \E j \in DOMAIN w : w[j] = rows[i]
      <2>1. CASE i < k
            <3>1. i \in DOMAIN w /\ At(i) = i
                  BY <2>1, <1>1
            <3> QED  BY <3>1, <1>2
      <2>2. CASE ~(i < k)
            <3>1. i - 1 \in DOMAIN w /\ At(i - 1) = i
                  BY <2>2, <1>1
            <3> QED  BY <3>1, <1>2
      <2> QED  BY <2>1, <2>2
<1> HIDE DEF At
<1>5. PlacesDiffer(rows) => PlacesDiffer(w)
      BY <1>2, <1>3, Zenon DEF PlacesDiffer
<1>6. OneDefault(rows) => OneDefault(w)
      BY <1>2, <1>3, Zenon DEF OneDefault
<1> QED  BY <1>2, <1>4, <1>5, <1>6 DEF HasTheOthers

(* The rows with row k written, which makes it the last. *)
IsMoved(rows, k, d, m) ==
    /\ m \in Seq(Address) /\ Len(m) = Len(rows) /\ PlacesDiffer(m)
    /\ m[Len(rows)].place = rows[k].place /\ m[Len(rows)].default = d
    /\ \A j \in DOMAIN m : j # Len(rows) => \E i \in DOMAIN rows \ {k} : m[j] = rows[i]
    /\ \A i \in DOMAIN rows \ {k} : \E j \in DOMAIN m : m[j] = rows[i]

LEMMA MovedFacts ==
    ASSUME NEW rows \in Seq(Address), NEW k \in DOMAIN rows, NEW d \in BOOLEAN, PlacesDiffer(rows)
    PROVE  IsMoved(rows, k, d, Moved(rows, k, d))
<1> DEFINE w == RemoveAt(rows, k)
           row == [rows[k] EXCEPT !.default = d]
           n == Len(rows)
<1>1. n \in Nat /\ k \in 1 .. n /\ rows[k] \in Address
      OBVIOUS
<1>2. row \in Address /\ row.place = rows[k].place /\ row.default = d
      BY <1>1 DEF Address
<1>3. Moved(rows, k, d) = Append(w, row)
      BY DEF Moved
<1>4. IsWithout(rows, k, w)
      BY WithoutFacts
<1> HIDE DEF w, row
<1>5. /\ w \in Seq(Address) /\ Len(w) = n - 1 /\ DOMAIN w = 1 .. n - 1
      /\ \A j \in DOMAIN w : \E i \in DOMAIN rows \ {k} : w[j] = rows[i]
      /\ \A i \in DOMAIN rows \ {k} : \E j \in DOMAIN w : w[j] = rows[i]
      /\ PlacesDiffer(w)
      <2>1. HasTheOthers(rows, k, w) /\ PlacesDiffer(w)
            BY <1>4, WithoutRows
      <2>2. w \in Seq(Address) /\ Len(w) = n - 1
            BY <1>4 DEF IsWithout
      <2>3. DOMAIN w = 1 .. n - 1
            BY <2>2
      <2> QED  BY <2>1, <2>2, <2>3 DEF HasTheOthers
<1> DEFINE m == Append(w, row)
<1>6. /\ m \in Seq(Address) /\ Len(m) = n /\ DOMAIN m = 1 .. n /\ m[n] = row
      /\ \A j \in DOMAIN w : j \in DOMAIN m /\ m[j] = w[j]
      BY <1>1, <1>2, <1>5, AppendProperties
<1>7. \A j \in DOMAIN m : j # n => j \in DOMAIN w
      BY <1>1, <1>5, <1>6
<1> HIDE DEF m
<1>8. \A j \in DOMAIN w : w[j].place # row.place
      BY <1>2, <1>5 DEF PlacesDiffer
<1>9. PlacesDiffer(m)
      BY <1>5, <1>6, <1>7, <1>8 DEF PlacesDiffer
<1>10. /\ \A j \in DOMAIN m : j # n => \E i \in DOMAIN rows \ {k} : m[j] = rows[i]
       /\ \A i \in DOMAIN rows \ {k} : \E j \in DOMAIN m : m[j] = rows[i]
       BY <1>5, <1>6, <1>7
<1>11. m = Moved(rows, k, d)
       BY <1>3 DEF m
<1> QED  BY <1>2, <1>6, <1>9, <1>10, <1>11 DEF IsMoved

(* Only the row of the place is a default after setDefault, and its row is still there. *)
LEMMA WithDefaultFacts ==
    ASSUME NEW rows, IsBook(rows), NEW place, \E k \in DOMAIN rows : rows[k].place = place
    PROVE  IsBook(WithDefault(rows, place)) /\ Len(WithDefault(rows, place)) = Len(rows)
<1> DEFINE others == {k \in DOMAIN rows : rows[k].default /\ rows[k].place # place}
           cleared == IF others = {} THEN rows ELSE Moved(rows, CHOOSE k \in others : TRUE, FALSE)
           k == CHOOSE k \in DOMAIN cleared : cleared[k].place = place
<1>1. rows \in Seq(Address) /\ PlacesDiffer(rows) /\ OneDefault(rows)
      BY DEF IsBook
<1>8. WithDefault(rows, place) = Moved(cleared, k, TRUE)
      BY DEF WithDefault
<1>2. /\ cleared \in Seq(Address) /\ Len(cleared) = Len(rows) /\ PlacesDiffer(cleared)
      /\ \E j \in DOMAIN cleared : cleared[j].place = place
      /\ \A j \in DOMAIN cleared : cleared[j].default => cleared[j].place = place
      <2>1. CASE others = {}
            BY <2>1, <1>1
      <2>2. CASE others # {}
            <3> DEFINE o == CHOOSE o \in others : TRUE
                       c == Moved(rows, o, FALSE)
            <3>1. o \in DOMAIN rows /\ rows[o].default /\ rows[o].place # place /\ cleared = c
                  BY <2>2
            <3> HIDE DEF o, others, cleared
            <3>2. IsMoved(rows, o, FALSE, c)
                  BY <3>1, <1>1, MovedFacts
            <3> HIDE DEF c
            <3>3. /\ c \in Seq(Address) /\ Len(c) = Len(rows) /\ PlacesDiffer(c) /\ c[Len(rows)].default = FALSE
                  /\ \A j \in DOMAIN c : j # Len(rows) => \E i \in DOMAIN rows \ {o} : c[j] = rows[i]
                  /\ \A i \in DOMAIN rows \ {o} : \E j \in DOMAIN c : c[j] = rows[i]
                  BY <3>2 DEF IsMoved
            <3>4. \E j \in DOMAIN c : c[j].place = place
                  <4>1. PICK i \in DOMAIN rows : rows[i].place = place
                        OBVIOUS
                  <4>2. i # o
                        BY <4>1, <3>1
                  <4> QED  BY <4>1, <4>2, <3>3
            <3>5. \A j \in DOMAIN c : ~c[j].default
                  BY <3>1, <3>3, <1>1 DEF OneDefault
            <3> QED  BY <3>1, <3>3, <3>4, <3>5
      <2> QED  BY <2>1, <2>2
<1>3. k \in DOMAIN cleared /\ cleared[k].place = place
      BY <1>2
<1> HIDE DEF cleared, k
<1> DEFINE m == Moved(cleared, k, TRUE)
<1>4. /\ m \in Seq(Address) /\ Len(m) = Len(rows) /\ PlacesDiffer(m) /\ m[Len(rows)].default = TRUE
      /\ \A j \in DOMAIN m : j # Len(rows) => \E i \in DOMAIN cleared \ {k} : m[j] = cleared[i]
      <2>1. IsMoved(cleared, k, TRUE, m)
            BY <1>2, <1>3, MovedFacts
      <2> HIDE DEF m
      <2> QED  BY <2>1, <1>2 DEF IsMoved
<1>9. WithDefault(rows, place) = m
      BY <1>8
<1> HIDE DEF m
<1>5. \A j \in DOMAIN m : m[j].default => j = Len(rows)
      BY <1>2, <1>3, <1>4 DEF PlacesDiffer
<1>6. OneDefault(m)
      BY <1>5, Zenon DEF OneDefault
<1>7. HasDefault(m)
      <2>1. DOMAIN cleared = 1 .. Len(rows) /\ DOMAIN m = 1 .. Len(rows) /\ Len(rows) \in Nat
            BY <1>1, <1>2, <1>4
      <2>2. Len(rows) \in DOMAIN m
            BY <2>1, <1>3
      <2> QED  BY <2>2, <1>4 DEF HasDefault
<1> QED  BY <1>4, <1>6, <1>7, <1>9 DEF IsBook

(* A new row is a default when there is none, which is when there is no row. *)
LEMMA AppendedIsBook ==
    ASSUME NEW rows, IsBook(rows), NEW a \in Address, \A k \in DOMAIN rows : rows[k].place # a.place,
           a.default = (\A k \in DOMAIN rows : ~rows[k].default)
    PROVE  IsBook(Append(rows, a)) /\ Len(Append(rows, a)) = Len(rows) + 1
<1> DEFINE m == Append(rows, a)
           n == Len(rows) + 1
<1>1. /\ rows \in Seq(Address) /\ n \in Nat /\ DOMAIN rows = 1 .. Len(rows) /\ DOMAIN m = 1 .. n /\ Len(m) = n /\ m \in Seq(Address)
      /\ m[n] = a /\ \A j \in DOMAIN rows : m[j] = rows[j] /\ j \in DOMAIN m /\ j # n
      BY AppendProperties DEF IsBook
<1>2. \A j \in DOMAIN m : j = n \/ j \in DOMAIN rows
      BY <1>1
<1>3. n \in DOMAIN m
      BY <1>1
<1> HIDE DEF m, n
<1>4. PlacesDiffer(m)
      BY <1>1, <1>2 DEF IsBook, PlacesDiffer
<1>5. OneDefault(m)
      BY <1>1, <1>2 DEF IsBook, OneDefault
<1>6. HasDefault(m)
      <2>1. CASE rows = <<>>
            BY <2>1, <1>1, <1>3 DEF HasDefault
      <2>2. CASE rows # <<>>
            BY <2>2, <1>1 DEF IsBook, HasDefault
      <2> QED  BY <2>1, <2>2
<1> QED  BY <1>1, <1>4, <1>5, <1>6 DEF IsBook, m, n

(* When the default goes, the last row that is left becomes it. *)
LEMMA ReplacedIsBook ==
    ASSUME NEW rows, IsBook(rows), NEW k \in DOMAIN rows
    PROVE  /\ IsBook(Replaced(RemoveAt(rows, k), rows[k].default))
           /\ Len(Replaced(RemoveAt(rows, k), rows[k].default)) = Len(rows) - 1
<1> DEFINE w == RemoveAt(rows, k)
<1>1. rows \in Seq(Address) /\ PlacesDiffer(rows) /\ OneDefault(rows) /\ rows[k] \in Address
      BY DEF IsBook
<1>2. IsWithout(rows, k, w)
      BY <1>1, WithoutFacts
<1> HIDE DEF w
<1>3. /\ w \in Seq(Address) /\ Len(w) = Len(rows) - 1 /\ PlacesDiffer(w) /\ OneDefault(w)
      /\ \A j \in DOMAIN w : \E i \in DOMAIN rows \ {k} : w[j] = rows[i]
      /\ \A i \in DOMAIN rows \ {k} : \E j \in DOMAIN w : w[j] = rows[i]
      <2>1. HasTheOthers(rows, k, w) /\ PlacesDiffer(w) /\ OneDefault(w)
            BY <1>1, <1>2, WithoutRows
      <2> QED  BY <2>1, <1>2 DEF IsWithout, HasTheOthers
<1>4. CASE rows[k].default /\ w # <<>>
      <2> DEFINE m == Moved(w, Len(w), TRUE)
      <2>1. Len(w) \in DOMAIN w /\ DOMAIN w = 1 .. Len(w) /\ Len(w) \in Nat
            BY <1>3, <1>4, EmptySeq
      <2>2. /\ m \in Seq(Address) /\ Len(m) = Len(w) /\ PlacesDiffer(m) /\ m[Len(w)].default = TRUE
            /\ \A j \in DOMAIN m : j # Len(w) => \E i \in DOMAIN w \ {Len(w)} : m[j] = w[i]
            <3>1. IsMoved(w, Len(w), TRUE, m)
                  BY <2>1, <1>3, MovedFacts
            <3> HIDE DEF m
            <3> QED  BY <3>1 DEF IsMoved
      <2>3. \A j \in DOMAIN w : ~w[j].default
            BY <1>1, <1>3, <1>4 DEF OneDefault
      <2>4. Replaced(w, rows[k].default) = m
            BY <1>4 DEF Replaced
      <2> HIDE DEF m
      <2>5. OneDefault(m)
            BY <2>2, <2>3 DEF OneDefault
      <2>6. HasDefault(m)
            <3>1. DOMAIN m = 1 .. Len(w)
                  BY <2>2
            <3> QED  BY <2>1, <2>2, <3>1 DEF HasDefault
      <2> QED  BY <2>2, <2>4, <2>5, <2>6, <1>3 DEF IsBook, w
<1>5. CASE ~(rows[k].default /\ w # <<>>)
      <2>1. Replaced(w, rows[k].default) = w
            BY <1>5 DEF Replaced
      <2>2. ASSUME w # <<>>
            PROVE  HasDefault(w)
            <3>1. PICK i \in DOMAIN rows : rows[i].default
                  BY <1>1 DEF IsBook, HasDefault
            <3>2. i # k
                  BY <3>1, <2>2, <1>5
            <3> QED  BY <3>1, <3>2, <1>3 DEF HasDefault
      <2> QED  BY <2>1, <2>2, <1>3 DEF IsBook, w
<1> QED  BY <1>4, <1>5

LEMMA BookInit == Init => BookInv
<1> SUFFICES ASSUME Init PROVE BookInv
    OBVIOUS
<1>1. txn \in [Calls -> {Idle} \cup Transaction] /\ onSale \in BOOLEAN /\ menu \in BOOLEAN \cup {None} /\ mix \in Mixes
      BY DEF Init
<1>2. IsBook(addresses) /\ Len(addresses) <= MaxAddresses
      <2>1. CASE addresses = <<>>
            BY <2>1, EmptySeq, StorefrontAssumption DEF IsBook, PlacesDiffer, OneDefault
      <2>2. CASE addresses # <<>>
            <3>1. PICK p \in Places : addresses = <<[place |-> p, default |-> TRUE]>>
                  BY <2>2 DEF Init
            <3> DEFINE a == [place |-> p, default |-> TRUE]
            <3>2. a \in Address /\ a.default
                  BY DEF Address
            <3>3. addresses = <<a>>
                  BY <3>1
            <3> HIDE DEF a
            <3>4. addresses \in Seq(Address) /\ Len(addresses) = 1 /\ addresses[1] = a /\ DOMAIN addresses = {1}
                  BY <3>2, <3>3
            <3>5. PlacesDiffer(addresses) /\ OneDefault(addresses) /\ HasDefault(addresses)
                  BY <3>2, <3>4 DEF PlacesDiffer, OneDefault, HasDefault
            <3> QED  BY <3>4, <3>5, StorefrontAssumption DEF IsBook
      <2> QED  BY <2>1, <2>2
<1> QED  BY <1>1, <1>2 DEF BookInv

(* An operation that moves on, in one call. *)
LEMMA TxnMoves ==
    ASSUME BookInv, NEW c \in Calls, NEW t \in {Idle} \cup Transaction, txn' = [txn EXCEPT ![c] = t]
    PROVE  txn' \in [Calls -> {Idle} \cup Transaction]
BY DEF BookInv

LEMMA AskKeeps == BookInv /\ (\E c \in Calls, op \in Ops, p \in Places : Ask(c, op, p)) => BookInv'
<1> SUFFICES ASSUME BookInv, NEW c \in Calls, NEW op \in Ops, NEW p \in Places, Ask(c, op, p) PROVE BookInv'
    OBVIOUS
<1> DEFINE t == [op |-> op, place |-> p, pc |-> "begin", attempt |-> 1, saw |-> <<>>]
<1>1. t \in Transaction
      BY StorefrontAssumption DEF Transaction
<1>2. txn' = [txn EXCEPT ![c] = t] /\ UNCHANGED <<addresses, onSale, menu, mix>>
      BY DEF Ask, shop
<1> HIDE DEF t
<1> QED  BY <1>1, <1>2, TxnMoves DEF BookInv

LEMMA BeginTransactionKeeps == BookInv /\ (\E c \in Calls : BeginTransaction(c)) => BookInv'
<1> SUFFICES ASSUME BookInv, NEW c \in Calls, BeginTransaction(c) PROVE BookInv'
    OBVIOUS
<1> DEFINE t == [txn[c] EXCEPT !.pc = "commit", !.saw = addresses]
<1>1. txn[c] \in Transaction /\ addresses \in Seq(Address)
      BY DEF BeginTransaction, BookInv, IsBook
<1>2. t \in Transaction
      BY <1>1 DEF Transaction
<1>3. txn' = [txn EXCEPT ![c] = t]
      BY DEF BeginTransaction, BookInv
<1>4. UNCHANGED <<addresses, onSale, menu, mix>>
      BY DEF BeginTransaction, shop
<1> HIDE DEF t
<1> QED  BY <1>2, <1>3, <1>4, TxnMoves DEF BookInv

LEMMA AbortTransactionKeeps == BookInv /\ (\E c \in Calls : AbortTransaction(c)) => BookInv'
<1> SUFFICES ASSUME BookInv, NEW c \in Calls, AbortTransaction(c) PROVE BookInv'
    OBVIOUS
<1>1. UNCHANGED <<addresses, onSale, menu, mix>>
      BY DEF AbortTransaction, shop
<1>2. CASE MayRetry(c)
      <2> DEFINE t == [txn[c] EXCEPT !.pc = "begin", !.saw = <<>>, !.attempt = @ + 1]
      <2>1. txn[c] \in Transaction
            BY DEF AbortTransaction, BookInv
      <2>2. txn[c].attempt + 1 \in 1 .. MaxAttempts
            BY <1>2, <2>1, StorefrontAssumption DEF MayRetry, Transaction
      <2>3. t \in Transaction
            <3>1. <<>> \in Seq(Address)
                  BY EmptySeq
            <3> DEFINE u == [txn[c] EXCEPT !.pc = "begin", !.saw = <<>>]
            <3>2. u \in Transaction /\ u.attempt = txn[c].attempt
                  BY <2>1, <3>1 DEF Transaction
            <3>3. t = [u EXCEPT !.attempt = @ + 1]
                  OBVIOUS
            <3> HIDE DEF u, t
            <3>4. u.attempt + 1 \in 1 .. MaxAttempts
                  BY <2>2, <3>2
            <3> QED  BY <3>2, <3>3, <3>4 DEF Transaction
      <2>4. txn' = [txn EXCEPT ![c] = t]
            BY <1>2 DEF AbortTransaction, BookInv
      <2> HIDE DEF t
      <2> QED  BY <1>1, <2>3, <2>4, TxnMoves DEF BookInv
<1>3. CASE ~MayRetry(c)
      <2>1. txn' = [txn EXCEPT ![c] = Idle]
            BY <1>3 DEF AbortTransaction, Answered
      <2> QED  BY <1>1, <2>1, TxnMoves DEF BookInv
<1> QED  BY <1>2, <1>3

(* What commits has read the rows that it changes. *)
LEMMA CommitFacts ==
    ASSUME BookInv, NEW c \in Calls, NEW op \in Ops, Commits(c, op)
    PROVE  txn[c] \in Transaction /\ txn[c].saw = addresses /\ txn[c].place \in Places
<1>1. txn[c] # Idle
      <2>1. Idle.op = "none"
            BY DEF Idle
      <2> QED  BY <2>1 DEF Commits, Ops
<1>2. txn[c] \in Transaction
      BY <1>1 DEF BookInv
<1> QED  BY <1>2 DEF Commits, IsSerial, Transaction

LEMMA CreateAddressKeeps == BookInv /\ (\E c \in Calls : CreateAddress(c)) => BookInv'
<1> SUFFICES ASSUME BookInv, NEW c \in Calls, CreateAddress(c) PROVE BookInv'
    OBVIOUS
<1>1. UNCHANGED <<onSale, menu, mix>> /\ txn' = [txn EXCEPT ![c] = Idle]
      BY DEF CreateAddress, Answered, shop
<1>2. txn[c].saw = addresses /\ txn[c].place \in Places
      BY CommitFacts DEF CreateAddress, Ops
<1> DEFINE a == [place |-> txn[c].place, default |-> \A k \in DOMAIN addresses : ~addresses[k].default]
<1>3. a \in Address /\ a.place = txn[c].place /\ a.default = (\A k \in DOMAIN addresses : ~addresses[k].default)
      BY <1>2 DEF Address
<1>4. addresses' = IF Saved(txn[c].place) # {} \/ Len(addresses) >= MaxAddresses THEN addresses ELSE Append(addresses, a)
      BY <1>2 DEF CreateAddress
<1> HIDE DEF a
<1>5. IsBook(addresses') /\ Len(addresses') <= MaxAddresses
      <2>1. CASE Saved(txn[c].place) # {} \/ Len(addresses) >= MaxAddresses
            BY <2>1, <1>4 DEF BookInv
      <2>2. CASE Saved(txn[c].place) = {} /\ ~(Len(addresses) >= MaxAddresses)
            <3>1. \A k \in DOMAIN addresses : addresses[k].place # a.place
                  BY <2>2, <1>3 DEF Saved
            <3>2. IsBook(Append(addresses, a)) /\ Len(Append(addresses, a)) = Len(addresses) + 1
                  BY <3>1, <1>3, AppendedIsBook DEF BookInv
            <3>3. Len(addresses) \in Nat
                  BY DEF BookInv, IsBook
            <3> QED  BY <2>2, <3>2, <3>3, <1>4, StorefrontAssumption
      <2> QED  BY <2>1, <2>2
<1> QED  BY <1>1, <1>5, TxnMoves DEF BookInv

LEMMA SetDefaultKeeps == BookInv /\ (\E c \in Calls : SetDefault(c)) => BookInv'
<1> SUFFICES ASSUME BookInv, NEW c \in Calls, SetDefault(c) PROVE BookInv'
    OBVIOUS
<1>1. UNCHANGED <<onSale, menu, mix>> /\ txn' = [txn EXCEPT ![c] = Idle]
      BY DEF SetDefault, Answered, shop
<1>2. IsBook(addresses') /\ Len(addresses') <= MaxAddresses
      <2>1. CASE Saved(txn[c].place) = {}
            BY <2>1 DEF SetDefault, BookInv
      <2>2. CASE Saved(txn[c].place) # {}
            <3>1. addresses' = WithDefault(addresses, txn[c].place)
                  BY <2>2 DEF SetDefault
            <3>2. \E k \in DOMAIN addresses : addresses[k].place = txn[c].place
                  BY <2>2 DEF Saved
            <3> QED  BY <3>1, <3>2, WithDefaultFacts DEF BookInv
      <2> QED  BY <2>1, <2>2
<1> QED  BY <1>1, <1>2, TxnMoves DEF BookInv

LEMMA RemoveAddressKeeps == BookInv /\ (\E c \in Calls : RemoveAddress(c)) => BookInv'
<1> SUFFICES ASSUME BookInv, NEW c \in Calls, RemoveAddress(c) PROVE BookInv'
    OBVIOUS
<1>1. UNCHANGED <<onSale, menu, mix>> /\ txn' = [txn EXCEPT ![c] = Idle]
      BY DEF RemoveAddress, Answered, shop
<1>2. IsBook(addresses') /\ Len(addresses') <= MaxAddresses
      <2>1. CASE Saved(txn[c].place) = {}
            BY <2>1 DEF RemoveAddress, BookInv
      <2>2. CASE Saved(txn[c].place) # {}
            <3> DEFINE k == CHOOSE k \in Saved(txn[c].place) : TRUE
            <3>1. k \in DOMAIN addresses
                  BY <2>2 DEF Saved
            <3>2. addresses' = Replaced(RemoveAt(addresses, k), addresses[k].default)
                  BY <2>2 DEF RemoveAddress
            <3> HIDE DEF k
            <3>3. IsBook(addresses') /\ Len(addresses') = Len(addresses) - 1
                  BY <3>1, <3>2, ReplacedIsBook DEF BookInv
            <3>4. Len(addresses) \in Nat /\ Len(addresses) <= MaxAddresses
                  BY DEF BookInv, IsBook
            <3> QED  BY <3>3, <3>4, StorefrontAssumption
      <2> QED  BY <2>1, <2>2
<1> QED  BY <1>1, <1>2, TxnMoves DEF BookInv

-----------------------------------------------------------------------------
(* Both invariants, over all the actions. *)
LEMMA BookStep == BookInv /\ [Next]_vars => BookInv'
<1> SUFFICES ASSUME BookInv, [Next]_vars PROVE BookInv'
    OBVIOUS
<1>1. CASE \E c \in Calls : AddressBook(c)
      BY <1>1, AskKeeps, BeginTransactionKeeps, AbortTransactionKeeps, CreateAddressKeeps, SetDefaultKeeps, RemoveAddressKeeps DEF AddressBook
<1>2. CASE ChangeSale
      BY <1>2 DEF BookInv, ChangeSale
<1>3. CASE FetchMenu
      BY <1>3 DEF BookInv, FetchMenu
<1>4. CASE Shopping /\ UNCHANGED <<addresses, txn, onSale, menu, mix>>
      BY <1>4 DEF BookInv
<1>5. CASE Shopping
      <2>1. ChangeSale \/ FetchMenu \/ UNCHANGED <<addresses, txn, onSale, menu, mix>>
            BY <1>5 DEF Shopping, AddCartItem, OpenCheckout, GoBack, Submit, TakeOrder, FailOrder, ShowOrder
      <2> QED  BY <1>2, <1>3, <1>4, <1>5, <2>1
<1>6. CASE UNCHANGED vars
      BY <1>6 DEF BookInv, vars, shop
<1> QED  BY <1>1, <1>5, <1>6 DEF Next

LEMMA ShopStep == ShopInv /\ [Next]_vars => ShopInv'
<1> SUFFICES ASSUME ShopInv, [Next]_vars PROVE ShopInv'
    OBVIOUS
<1>1. CASE \E c \in Calls : AddressBook(c)
      <2>1. UNCHANGED tracked
            BY <1>1 DEF AddressBook, Ask, BeginTransaction, AbortTransaction, CreateAddress, SetDefault, RemoveAddress, shop, tracked
      <2> QED  BY <2>1, ShopUntouched
<1>2. CASE ChangeSale \/ FetchMenu
      <2>1. UNCHANGED tracked
            BY <1>2 DEF ChangeSale, FetchMenu, tracked
      <2> QED  BY <2>1, ShopUntouched
<1>3. CASE AddCartItem
      BY <1>3, AddCartItemKeeps
<1>4. CASE OpenCheckout \/ GoBack
      BY <1>4, OpenCheckoutKeeps, GoBackKeeps
<1>5. CASE \E p \in Places \cup {None} : Submit(p)
      BY <1>5, SubmitKeeps
<1>6. CASE \E s \in DOMAIN sent : TakeOrder(s) \/ FailOrder(s) \/ ShowOrder(s)
      BY <1>6, TakeOrderKeeps, FailOrderKeeps, ShowOrderKeeps
<1>7. CASE UNCHANGED vars
      <2>1. UNCHANGED tracked
            BY <1>7 DEF vars, shop, tracked
      <2> QED  BY <2>1, ShopUntouched
<1> QED  BY <1>1, <1>2, <1>3, <1>4, <1>5, <1>6, <1>7 DEF Next, Shopping

LEMMA InvImplies == ShopInv /\ BookInv => OrdersAreAsPicked
<1> SUFFICES ASSUME ShopInv, BookInv PROVE OrdersAreAsPicked
    OBVIOUS
<1>1. \A c \in Calls : txn[c] = Idle \/ (txn[c].op \in Ops /\ txn[c].attempt \in 1 .. MaxAttempts)
      BY DEF BookInv, Transaction
<1>2. addresses \in Seq(Address) /\ onSale \in BOOLEAN /\ menu \in BOOLEAN \cup {None} /\ mix \in Mixes
      BY DEF BookInv, IsBook
<1>3. /\ cart \subseteq 1 .. picked /\ late \subseteq 1 .. picked /\ picked <= MaxPicks
      /\ page \in 0 .. pages /\ known \subseteq 1 .. pages /\ pages <= MaxPages /\ orders \in Seq(Order)
      BY StorefrontAssumption DEF ShopInv, ShopTypeOK
<1>4. \A s \in DOMAIN sent : sent[s].order \in 0 .. Len(orders)
      BY DEF ShopInv, AnswersAreOrders
<1>5. TypeOK
      BY <1>1, <1>2, <1>3, <1>4 DEF TypeOK
<1>6. AnswerHasTheCart
      <2>1. DOMAIN orders = 1 .. Len(orders) /\ Len(orders) \in Nat
            BY <1>3
      <2> QED  BY <2>1 DEF AnswerHasTheCart, ShopInv, AnswersAreOrders, PagesKeepTheirCart
<1> QED  BY <1>5, <1>6 DEF OrdersAreAsPicked, ShopInv

(* At most one, counted. *)
LEMMA AtMostOneCounted ==
    ASSUME NEW S, \A x, y \in S : x = y
    PROVE  Cardinality(S) <= 1 /\ (S # {} => Cardinality(S) = 1)
<1>1. CASE S = {}
      BY <1>1, FS_EmptySet
<1>2. CASE S # {}
      <2>1. PICK x : S = {x}
            BY <1>2
      <2> QED  BY <2>1, FS_Singleton
<1> QED  BY <1>1, <1>2

LEMMA BookIsSound == BookInv => AddressBookIsSound
<1> SUFFICES ASSUME BookInv PROVE AddressBookIsSound
    OBVIOUS
<1>1. \A x, y \in Defaults : x = y
      BY DEF Defaults, BookInv, IsBook, OneDefault
<1>2. addresses # <<>> => Defaults # {}
      BY DEF Defaults, BookInv, IsBook, HasDefault
<1>3. \A p \in Places : \A x, y \in Saved(p) : x = y
      BY DEF Saved, BookInv, IsBook, PlacesDiffer
<1>4. \A p \in Places : Cardinality(Saved(p)) <= 1
      BY <1>3, AtMostOneCounted
<1>5. addresses # <<>> => Cardinality(Defaults) = 1
      BY <1>1, <1>2, AtMostOneCounted
<1> QED  BY <1>4, <1>5 DEF AddressBookIsSound, BookInv

(* What is in the orders is what the customer picked, once; what he picked is ordered or
   still in the cart. Any number of presses, lost answers, pages and portions. *)
THEOREM OrdersHold == Spec => []OrdersAreAsPicked
<1>1. Init => ShopInv /\ BookInv
      BY ShopInit, BookInit
<1>2. ShopInv /\ BookInv /\ [Next]_vars => (ShopInv /\ BookInv)'
      BY ShopStep, BookStep
<1>3. ShopInv /\ BookInv => OrdersAreAsPicked
      BY InvImplies
<1> QED  BY <1>1, <1>2, <1>3, PTL DEF Spec

(* One default, no address twice, never more than the limit, for any number of calls that
   interleave, are retried and give up. *)
THEOREM AddressBookHolds == Spec => []AddressBookIsSound
<1>1. Init => BookInv
      BY BookInit
<1>2. BookInv /\ [Next]_vars => BookInv'
      BY BookStep
<1>3. BookInv => AddressBookIsSound
      BY BookIsSound
<1> QED  BY <1>1, <1>2, <1>3, PTL DEF Spec
=============================================================================
