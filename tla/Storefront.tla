----------------------------- MODULE Storefront -----------------------------
(***************************************************************************)
(* A customer's app and the API behind it: the menu it has cached, the     *)
(* cart it keeps in memory, checkout pages with their request id, orders   *)
(* on their way, and the address book with its one default address.        *)
(*                                                                         *)
(* What is put into the cart is numbered, so that a portion can be         *)
(* followed from the menu to an order. Address operations are Serializable *)
(* transactions: a read, then a commit that succeeds while what was read   *)
(* is still so, or a victim that is retried.                               *)
(***************************************************************************)
EXTENDS Naturals, Sequences, FiniteSets, SequencesExt

CONSTANTS
    Calls,        \* requests that can be under way, of each kind
    Places,       \* addresses to be imported from WeChat
    MaxAddresses, \* MAX_ADDRESSES_PER_USER
    MaxAttempts,  \* TRANSACTION_MAX_ATTEMPTS
    MaxPicks,     \* bound: portions put into the cart
    MaxPages,     \* bound: checkout pages opened
    MaxSubmits,   \* bound: orders submitted
    Mixes,        \* bound: what one behaviour mixes
    None

ASSUME StorefrontAssumption ==
    /\ {MaxAddresses, MaxAttempts} \subseteq Nat \ {0}
    /\ {MaxPicks, MaxPages, MaxSubmits} \subseteq Nat
    /\ None \notin Places

VARIABLES
    addresses, \* user_addresses by updatedAt, the latest last
    txn,       \* address operations being handled
    onSale,    \* the SKU and its product are active
    menu,      \* cachedMenu: None or whether it offers the product
    cart,      \* cartItems
    picked,    \* portions put into a cart so far
    late,      \* portions put into the cart while an order was on its way
    page,      \* the checkout page on screen, or 0
    pages,     \* checkout pages opened
    sent,      \* submitted orders whose end the customer has not seen
    submits,   \* orders submitted
    known,     \* checkout pages whose order the customer was shown
    orders,    \* orders in the database
    mix

shop == <<onSale, menu, cart, picked, late, page, pages, sent, submits, known, orders>>
vars == <<addresses, txn, shop, mix>>

Address == [place: Places, default: BOOLEAN]
Ops == {"create", "setDefault", "remove"}
Idle == [op |-> "none"]
Order == [page: Nat, request: Nat, items: SUBSET (1 .. MaxPicks), place: Places \cup {None}, known: SUBSET (1 .. MaxPages)]

TypeOK ==
    /\ addresses \in Seq(Address)
    /\ \A c \in Calls : txn[c] = Idle \/ (txn[c].op \in Ops /\ txn[c].attempt \in 1 .. MaxAttempts)
    /\ onSale \in BOOLEAN /\ menu \in BOOLEAN \cup {None}
    /\ cart \subseteq 1 .. picked /\ late \subseteq 1 .. picked /\ picked <= MaxPicks
    /\ page \in 0 .. pages /\ known \subseteq 1 .. pages /\ pages <= MaxPages
    /\ \A s \in DOMAIN sent : sent[s].order \in 0 .. Len(orders)
    /\ orders \in Seq(Order) /\ mix \in Mixes

Init ==
    /\ addresses \in {<<>>} \cup {<<[place |-> p, default |-> TRUE]>> : p \in Places}
    /\ txn = [c \in Calls |-> Idle] /\ mix \in Mixes
    /\ onSale = TRUE /\ menu = None /\ cart = {} /\ picked = 0 /\ late = {} /\ page = 0 /\ pages = 0
    /\ sent = <<>> /\ submits = 0 /\ known = {} /\ orders = <<>>

-----------------------------------------------------------------------------
(* AddressesService *)
Saved(place) == {k \in DOMAIN addresses : addresses[k].place = place}
Defaults == {k \in DOMAIN addresses : addresses[k].default}

Ask(c, op, place) ==
    /\ txn[c] = Idle /\ op \in mix
    /\ op = "create" \/ Saved(place) # {}
    /\ txn' = [txn EXCEPT ![c] = [op |-> op, place |-> place, pc |-> "begin", attempt |-> 1, saw |-> <<>>]]
    /\ UNCHANGED <<addresses, shop, mix>>

BeginTransaction(c) ==
    /\ txn[c] # Idle /\ txn[c].pc = "begin"
    /\ txn' = [txn EXCEPT ![c].pc = "commit", ![c].saw = addresses]
    /\ UNCHANGED <<addresses, shop, mix>>

IsUnchecked(c) == c \in Calls   \* mutant: the default isolation level
IsSerial(c) == txn[c].saw = addresses
Commits(c, op) == txn[c].op = op /\ txn[c].pc = "commit" /\ IsSerial(c)
Answered(c) == txn' = [txn EXCEPT ![c] = Idle]

MayRetryAlways(c) == txn[c] # Idle   \* mutant: no last attempt
MayRetry(c) == txn[c].attempt < MaxAttempts
(* P2034: what was read has changed, or another open transaction wins. *)
AbortTransaction(c) ==
    /\ txn[c] # Idle /\ txn[c].pc = "commit"
    /\ ~IsSerial(c) \/ \E d \in Calls \ {c} : txn[d] # Idle /\ txn[d].pc = "commit"
    /\ IF MayRetry(c)
         THEN txn' = [txn EXCEPT ![c].pc = "begin", ![c].saw = <<>>, ![c].attempt = @ + 1]
         ELSE Answered(c)
    /\ UNCHANGED <<addresses, shop, mix>>

(* An address that is there already is answered as it is; the 21st is refused. *)
CreateAddress(c) ==
    /\ Commits(c, "create")
    /\ addresses' = IF Saved(txn[c].place) # {} \/ Len(addresses) >= MaxAddresses THEN addresses
                    ELSE Append(addresses, [place |-> txn[c].place, default |-> \A k \in DOMAIN txn[c].saw : ~txn[c].saw[k].default])
    /\ Answered(c) /\ UNCHANGED <<shop, mix>>

(* A row that is written comes last. *)
Moved(rows, k, default) == Append(RemoveAt(rows, k), [rows[k] EXCEPT !.default = default])
WithDefault(rows, place) ==
    LET others == {k \in DOMAIN rows : rows[k].default /\ rows[k].place # place}
        cleared == IF others = {} THEN rows ELSE Moved(rows, CHOOSE k \in others : TRUE, FALSE)
    IN Moved(cleared, CHOOSE k \in DOMAIN cleared : cleared[k].place = place, TRUE)

SetDefault(c) ==
    /\ Commits(c, "setDefault")
    /\ addresses' = IF Saved(txn[c].place) = {} THEN addresses ELSE WithDefault(addresses, txn[c].place)
    /\ Answered(c) /\ UNCHANGED <<shop, mix>>

(* The latest remaining row takes the place of a default that is deleted. *)
Replaced(rows, wasDefault) == IF wasDefault /\ rows # <<>> THEN Moved(rows, Len(rows), TRUE) ELSE rows
RemoveAddress(c) ==
    /\ Commits(c, "remove")
    /\ addresses' = IF Saved(txn[c].place) = {} THEN addresses
                    ELSE LET k == CHOOSE k \in Saved(txn[c].place) : TRUE
                         IN Replaced(RemoveAt(addresses, k), addresses[k].default)
    /\ Answered(c) /\ UNCHANGED <<shop, mix>>

-----------------------------------------------------------------------------
(* The menu and the cart. The catalog changes under them. *)
ChangeSale ==
    /\ "shop" \in mix
    /\ onSale' = ~onSale
    /\ UNCHANGED <<addresses, txn, menu, cart, picked, late, page, pages, sent, submits, known, orders, mix>>

(* A cached menu is shown again for a minute, and after that when loading fails. *)
FetchMenu ==
    /\ "shop" \in mix /\ menu # onSale
    /\ menu' = onSale
    /\ UNCHANGED <<addresses, txn, onSale, cart, picked, late, page, pages, sent, submits, known, orders, mix>>

(* A menu is on screen and has the product; a portion is chosen from its page. *)
Offered == menu = TRUE /\ page = 0
AddCartItem ==
    /\ Offered /\ picked < MaxPicks
    /\ picked' = picked + 1 /\ cart' = cart \cup {picked'}
    /\ late' = IF sent = <<>> THEN late ELSE late \cup {picked'}
    /\ UNCHANGED <<addresses, txn, onSale, menu, page, pages, sent, submits, known, orders, mix>>

(* A page of its own for every checkout, with a request id that lives as long. *)
CanCheckout == cart # {}
OpenCheckout ==
    /\ page = 0 /\ CanCheckout /\ pages < MaxPages
    /\ pages' = pages + 1 /\ page' = pages'
    /\ UNCHANGED <<addresses, txn, onSale, menu, cart, picked, late, sent, submits, known, orders, mix>>

GoBack ==
    /\ page # 0 /\ page' = 0
    /\ UNCHANGED <<addresses, txn, onSale, menu, cart, picked, late, pages, sent, submits, known, orders, mix>>

AppRequest == 1                 \* mutant: one id for the app
SubmitRequest == submits + 1    \* mutant: an id for every submit
RequestId == page

(* The store's id is that of the cached menu, so the cart is sent as it is. The button
   stays enabled while an order is on its way. *)
Submit(place) ==
    /\ page # 0 /\ CanCheckout /\ submits < MaxSubmits
    /\ place = None \/ \E k \in DOMAIN addresses : addresses[k].place = place
    /\ submits' = submits + 1
    /\ sent' = Append(sent, [page |-> page, request |-> RequestId, items |-> cart, place |-> place,
                             known |-> known, pc |-> "sent", order |-> 0])
    /\ UNCHANGED <<addresses, txn, onSale, menu, cart, picked, late, page, pages, known, orders, mix>>

-----------------------------------------------------------------------------
(* The order service: a known request id is answered with its order. *)
OrderOf(request) == {o \in DOMAIN orders : orders[o].request = request}
Deliverable(place) == place = None \/ Saved(place) # {}
Acceptable(s) == onSale /\ Deliverable(sent[s].place)

TakeOrder(s) ==
    LET r == sent[s] IN
    /\ r.pc = "sent"
    /\ \/ /\ OrderOf(r.request) = {} /\ Acceptable(s)
          /\ orders' = Append(orders, [page |-> r.page, request |-> r.request, items |-> r.items, place |-> r.place, known |-> r.known])
          /\ sent' = [sent EXCEPT ![s].pc = "answer", ![s].order = Len(orders')]
       \/ /\ \E o \in OrderOf(r.request) : sent' = [sent EXCEPT ![s].pc = "answer", ![s].order = o]
          /\ UNCHANGED orders
    /\ UNCHANGED <<addresses, txn, onSale, menu, cart, picked, late, page, pages, submits, known, mix>>

Forgotten(s) == sent' = RemoveAt(sent, s)

(* A failure is a message on the page, whether the order was made or not. *)
CartAfterSubmit == {}   \* mutant: cleared whatever the answer is
CartAfterFailure == cart
FailOrder(s) ==
    /\ Forgotten(s)
    /\ cart' = CartAfterFailure
    /\ UNCHANGED <<addresses, txn, onSale, menu, picked, late, page, pages, submits, known, orders, mix>>

(* clearCart and on to the order, also when its page has been left. *)
CartKept(s) == cart   \* mutant: the cart stays
CartAfterAnswer(s) == {}
ShowOrder(s) ==
    /\ sent[s].pc = "answer"
    /\ cart' = CartAfterAnswer(s) /\ known' = known \cup {sent[s].page}
    /\ page' = 0 /\ Forgotten(s)
    /\ UNCHANGED <<addresses, txn, onSale, menu, picked, late, pages, submits, orders, mix>>

-----------------------------------------------------------------------------
AddressBook(c) ==
    \/ \E op \in Ops, p \in Places : Ask(c, op, p)
    \/ BeginTransaction(c) \/ AbortTransaction(c)
    \/ CreateAddress(c) \/ SetDefault(c) \/ RemoveAddress(c)

Shopping ==
    \/ ChangeSale \/ FetchMenu \/ AddCartItem \/ OpenCheckout \/ GoBack
    \/ \E p \in Places \cup {None} : Submit(p)
    \/ \E s \in DOMAIN sent : TakeOrder(s) \/ FailOrder(s) \/ ShowOrder(s)

Next == (\E c \in Calls : AddressBook(c)) \/ Shopping

Spec == Init /\ [][Next]_vars

-----------------------------------------------------------------------------
(* However often the button is pressed and answers get lost, a checkout page makes at
   most one order (the request id of checkout.vue:42 and the server's lookup). *)
OneOrderPerPage ==
    \A o, p \in DOMAIN orders : orders[o].page = orders[p].page => o = p

(* What was in an order that the customer has been shown is never in a later order:
   the cart was emptied before anything else could be sent (clearCart). An order whose
   answer was lost gives no such promise. *)
NothingIsOrderedAgain ==
    \A o, p \in DOMAIN orders : orders[o].page \in orders[p].known => orders[o].items \cap orders[p].items = {}

(* A portion leaves the cart by being ordered; only what was added while an order was
   on its way may be swept away by its answer (orders.ts clears the whole cart). *)
OnlyOrderedPicksLeave ==
    \A k \in 1 .. picked : k \in cart \cup late \/ \E o \in DOMAIN orders : k \in orders[o].items

(* The order that a customer is shown holds the portions that were sent, also when it
   answers an earlier try of the same page. *)
AnswerHasTheCart ==
    \A s \in DOMAIN sent : sent[s].pc = "answer" => orders[sent[s].order].items = sent[s].items

(* A customer with addresses has exactly one default, no address twice and no more than
   the limit, although requests of two devices interleave and are retried. *)
AddressBookIsSound ==
    /\ addresses # <<>> => Cardinality(Defaults) = 1
    /\ Len(addresses) <= MaxAddresses
    /\ \A p \in Places : Cardinality(Saved(p)) <= 1

(* The invariants of the cart together: what is in the orders is what the customer
   picked, once, and what he picked is ordered or still in the cart. *)
OrdersAreAsPicked ==
    TypeOK /\ OneOrderPerPage /\ NothingIsOrderedAgain /\ OnlyOrderedPicksLeave /\ AnswerHasTheCart
=============================================================================
