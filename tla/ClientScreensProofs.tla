------------------------- MODULE ClientScreensProofs -------------------------
(***************************************************************************)
(* Proofs about the clients' screens, for any number of requests on their  *)
(* way, products, prices and orders.                                       *)
(*                                                                         *)
(* The product page and the order screens share no variable; each has an   *)
(* inductive invariant of its own.                                         *)
(***************************************************************************)
EXTENDS ClientScreens, SequenceTheorems, FiniteSetTheorems, TLAPS

-----------------------------------------------------------------------------
(* The product page. *)
Change == [product: Products, old: Prices, new: Prices]
MaybeChange == {NoOne} \cup Change
AnyChange == MaybeChange \cup [product: Products]
Seen == [Products -> Prices]
AnySeen == {<<>>} \cup Seen
Cell == [price: Prices, loose: BOOLEAN, detailed: BOOLEAN]
PageRequest ==
    [kind: {"list", "expand", "open", "save", "reload", "config"}, product: Products \cup {"none"},
     change: AnyChange, seen: AnySeen, pc: {"sent", "handled", "settling"}]
EditState == [change: MaybeChange, attached: BOOLEAN, asks: BOOLEAN, saving: BOOLEAN]
DialogState == [open: BOOLEAN, id: Products \cup {"none"}, shown: Products \cup {"none"}, saving: BOOLEAN]
Focus == [cell: Products \cup {"none"}, original: Prices \cup {0}]

PricesTypeOK ==
    /\ stored \in [Products -> Prices] /\ past \in [Products -> SUBSET Prices] /\ changes \in Nat
    /\ \A p \in Products : stored[p] \in past[p]
PageTypeOK ==
    /\ cells \in [Products -> Cell] /\ focused \in Focus /\ edit \in EditState /\ dialog \in DialogState
    /\ dialog.open => {dialog.id, dialog.shown} \subseteq Products
    /\ loading \in BOOLEAN /\ closedEarly \in BOOLEAN /\ crossed \in BOOLEAN
    /\ request \in [Requests -> {Nothing} \cup PageRequest]

(* What an answer carries was stored once; what is sent is about a product. *)
Carries(q) ==
    /\ q.kind \in {"expand", "open", "save", "config"} => q.product \in Products
    /\ q.kind = "save" => q.change \in Change /\ q.change.product = q.product
    /\ q.pc \in {"handled", "settling"} => q.seen \in Seen /\ \A p \in Products : q.seen[p] \in past[p]
RequestsCarry == \A r \in Requests : request[r] # Nothing => Carries(request[r])

(* A price on display was stored, or nobody was asked about it, or it is the new price of
   the pending change; so is the one captured, which a change can fall back to. *)
Pending(p) == edit.change.product = p /\ edit.attached
IsReal(p, price) == price \in past[p] \/ cells[p].loose
CellsAreKnown ==
    /\ \A p \in Products : IsReal(p, cells[p].price) \/ (Pending(p) /\ cells[p].price = edit.change.new)
    /\ \A p \in Products : focused.cell = p /\ focused.original # 0 =>
         IsReal(p, focused.original) \/ (Pending(p) /\ focused.original = edit.change.new)
    /\ edit.change # NoOne /\ edit.attached => IsReal(edit.change.product, edit.change.old)
    /\ edit.asks => focused.original = 0

(* One price is saved at a time, and it is the pending one. *)
OneSaves ==
    /\ \A r, q \in Requests : {request[r].kind, request[q].kind} \subseteq {"save", "reload"} => r = q
    /\ \A r \in Requests : request[r].kind \in {"save", "reload"} => edit.saving
    /\ \A r \in Requests : request[r].kind = "save" =>
         request[r].change = edit.change /\ (request[r].pc = "handled" => edit.change.new \in past[edit.change.product])

(* Until a dialog opens beside a configuration that is being saved, it is all one product. *)
OneProduct ==
    crossed \/ (/\ dialog.id = dialog.shown
                /\ \A r \in Requests : request[r].kind = "config" => request[r].product = dialog.id /\ request[r].change.product = dialog.id)

ProductInv ==
    /\ PricesTypeOK /\ PageTypeOK /\ RequestsCarry
    /\ EditsCanBeDecided /\ CellsAreKnown /\ OneSaves /\ OneProduct /\ FlagsFall

LEMMA NothingIsNoRequest ==
    /\ Nothing.kind = "nothing" /\ NoOne.product = "none"
    /\ Nothing \notin PageRequest /\ NoOne \notin Change /\ NoOne \in MaybeChange
BY ProductDeskAssumption DEF Nothing, NoOne, PageRequest, Change, MaybeChange

LEMMA ProductInit == ProductDeskInit => ProductInv
<1> SUFFICES ASSUME ProductDeskInit PROVE ProductInv
    OBVIOUS
<1> DEFINE first == CHOOSE price \in Prices : TRUE
<1>1. first \in Prices
      BY ProductDeskAssumption
<1>2. /\ stored = [p \in Products |-> first] /\ past = [p \in Products |-> {stored[p]}]
      /\ cells = [p \in Products |-> [price |-> stored[p], loose |-> FALSE, detailed |-> FALSE]]
      /\ changes = MaxChanges
      BY DEF ProductDeskInit, Loaded
<1> HIDE DEF first
<1>3. stored \in [Products -> Prices] /\ past \in [Products -> SUBSET Prices] /\ \A p \in Products : stored[p] \in past[p] /\ cells[p].price \in past[p]
      BY <1>1, <1>2
<1>4. cells \in [Products -> Cell]
      BY <1>2, <1>3 DEF Cell
<1>5. edit.change = NoOne /\ ~edit.attached /\ ~edit.asks /\ ~edit.saving /\ edit \in EditState
      BY NothingIsNoRequest DEF ProductDeskInit, EditState
<1>6. ~dialog.open /\ ~dialog.saving /\ dialog.id = dialog.shown /\ dialog \in DialogState
      BY DEF ProductDeskInit, DialogState
<1>7. focused \in Focus /\ focused.original = 0
      BY DEF ProductDeskInit, Nowhere, Focus
<1>8. request = [r \in Requests |-> Nothing] /\ ~loading /\ ~closedEarly /\ ~crossed /\ loading \in BOOLEAN /\ closedEarly \in BOOLEAN /\ crossed \in BOOLEAN
      BY DEF ProductDeskInit
<1>9. PricesTypeOK /\ PageTypeOK
      BY <1>2, <1>3, <1>4, <1>5, <1>6, <1>7, <1>8, ProductDeskAssumption DEF PricesTypeOK, PageTypeOK
<1>10. \A r \in Requests : request[r] = Nothing /\ request[r].kind = "nothing"
       BY <1>8, NothingIsNoRequest
<1>11. RequestsCarry /\ OneSaves /\ OneProduct
       BY <1>6, <1>10 DEF RequestsCarry, OneSaves, OneProduct
<1>12. EditsCanBeDecided /\ FlagsFall
       BY <1>5, <1>6, <1>8 DEF EditsCanBeDecided, FlagsFall
<1>13. CellsAreKnown
       BY <1>3, <1>5, <1>7 DEF CellsAreKnown, IsReal
<1> QED  BY <1>9, <1>11, <1>12, <1>13 DEF ProductInv

LEMMA ProductUntouched == ProductInv /\ UNCHANGED productVars => ProductInv'
BY DEF productVars, ProductInv, PricesTypeOK, PageTypeOK, RequestsCarry, Carries, EditsCanBeDecided, CellsAreKnown, IsReal, Pending,
       OneSaves, OneProduct, FlagsFall, OfKind

(* A request that is sent, answered or forgotten: the others stay. *)
LEMMA RequestChanges ==
    ASSUME ProductInv, NEW r \in Requests, NEW q \in {Nothing} \cup PageRequest, request' = [request EXCEPT ![r] = q]
    PROVE  /\ request' \in [Requests -> {Nothing} \cup PageRequest]
           /\ request'[r] = q /\ \A s \in Requests : s # r => request'[s] = request[s]
BY DEF ProductInv, PageTypeOK

LEMMA RequestFacts ==
    ASSUME ProductInv, NEW r \in Requests, request[r].kind # "nothing"
    PROVE  request[r] \in PageRequest /\ request[r] # Nothing /\ Carries(request[r])
<1>1. request[r] # Nothing
      BY NothingIsNoRequest
<1> QED  BY <1>1 DEF ProductInv, PageTypeOK, RequestsCarry

(* What is posted is on its way, as request r. *)
LEMMA PostFacts ==
    ASSUME ProductInv, NEW r \in Requests, NEW kind \in {"list", "expand", "open", "save", "config"},
           NEW p \in Products \cup {"none"}, NEW change \in AnyChange, Post(r, kind, p, change)
    PROVE  /\ request' \in [Requests -> {Nothing} \cup PageRequest]
           /\ request[r] = Nothing /\ request[r].kind = "nothing"
           /\ request'[r] # Nothing /\ request'[r].kind = kind /\ request'[r].product = p /\ request'[r].change = change /\ request'[r].pc = "sent"
           /\ \A s \in Requests : s # r => request'[s] = request[s]
<1> DEFINE q == [kind |-> kind, product |-> p, change |-> change, seen |-> <<>>, pc |-> "sent"]
<1>1. q \in PageRequest
      BY DEF PageRequest, AnySeen
<1>2. q.kind = kind /\ q.product = p /\ q.change = change /\ q.pc = "sent"
      OBVIOUS
<1>3. request[r] = Nothing /\ request' = [request EXCEPT ![r] = q]
      BY DEF Post
<1> HIDE DEF q
<1>4. q # Nothing
      BY <1>1, NothingIsNoRequest
<1>5. request' \in [Requests -> {Nothing} \cup PageRequest] /\ request'[r] = q /\ \A s \in Requests : s # r => request'[s] = request[s]
      BY <1>1, <1>3, RequestChanges
<1> QED  BY <1>2, <1>3, <1>4, <1>5, NothingIsNoRequest

(* A list, a row or a dialog is asked for. *)
LEMMA AskingKeeps ==
    ASSUME ProductInv, NEW r \in Requests, NEW kind \in {"list", "expand", "open"}, NEW p \in Products \cup {"none"},
           kind # "list" => p \in Products, Post(r, kind, p, NoOne),
           loading' = loading \/ (loading' = TRUE /\ kind = "list"),
           dialog' = dialog \/ dialog' = [dialog EXCEPT !.saving = FALSE],
           UNCHANGED <<stored, past, changes, cells, focused, edit, closedEarly, crossed>>
    PROVE  ProductInv'
<1>1. NoOne \in AnyChange
      BY NothingIsNoRequest DEF AnyChange
<1>2. /\ request' \in [Requests -> {Nothing} \cup PageRequest]
      /\ request[r] = Nothing /\ request[r].kind = "nothing"
      /\ request'[r] # Nothing /\ request'[r].kind = kind /\ request'[r].product = p /\ request'[r].change = NoOne /\ request'[r].pc = "sent"
      /\ \A s \in Requests : s # r => request'[s] = request[s]
      BY <1>1, PostFacts
<1>3. dialog' \in DialogState /\ dialog'.open = dialog.open /\ dialog'.id = dialog.id /\ dialog'.shown = dialog.shown /\ (dialog'.saving => dialog.saving)
      BY DEF ProductInv, PageTypeOK, DialogState
<1>4. PricesTypeOK' /\ PageTypeOK'
      BY <1>2, <1>3 DEF ProductInv, PricesTypeOK, PageTypeOK
<1>5. RequestsCarry'
      BY <1>2 DEF ProductInv, RequestsCarry, Carries
<1>6. EditsCanBeDecided' /\ CellsAreKnown'
      BY DEF ProductInv, EditsCanBeDecided, CellsAreKnown, IsReal, Pending
<1>7. OneSaves'
      BY <1>2 DEF ProductInv, OneSaves
<1>8. OneProduct'
      BY <1>2, <1>3 DEF ProductInv, OneProduct
<1>9. FlagsFall'
      BY <1>2, <1>3 DEF ProductInv, FlagsFall, OfKind
<1> QED  BY <1>4, <1>5, <1>6, <1>7, <1>8, <1>9 DEF ProductInv

LEMMA AskStep ==
    ASSUME ProductInv, NEW r \in Requests,
           FetchProducts(r) \/ \E p \in Products : ExpandRow(r, p) \/ OpenConfigDialog(r, p)
    PROVE  ProductInv'
<1>1. CASE FetchProducts(r)
      BY <1>1, AskingKeeps DEF FetchProducts
<1>2. ASSUME NEW p \in Products, ExpandRow(r, p)
      PROVE  ProductInv'
      BY <1>2, AskingKeeps DEF ExpandRow
<1>3. ASSUME NEW p \in Products, OpenConfigDialog(r, p)
      PROVE  ProductInv'
      BY <1>3, AskingKeeps DEF OpenConfigDialog
<1> QED  BY <1>1, <1>2, <1>3

LEMMA CaptureKeeps == ASSUME ProductInv, NEW p \in Products, CaptureOriginalValue(p) PROVE ProductInv'
<1>1. focused'.cell = p /\ focused'.original = cells[p].price
      BY DEF CaptureOriginalValue
<1>2. focused' \in Focus
      BY DEF CaptureOriginalValue, ProductInv, PageTypeOK, Cell, Focus
<1>3. UNCHANGED <<stored, past, changes, cells, edit, dialog, loading, request, closedEarly, crossed>>
      BY DEF CaptureOriginalValue
<1>4. PricesTypeOK' /\ PageTypeOK' /\ RequestsCarry' /\ EditsCanBeDecided' /\ OneSaves' /\ OneProduct' /\ FlagsFall'
      BY <1>2, <1>3 DEF ProductInv, PricesTypeOK, PageTypeOK, RequestsCarry, Carries, EditsCanBeDecided, OneSaves, OneProduct, FlagsFall, OfKind
<1>5. CellsAreKnown'
      <2>1. ~edit.asks
            BY DEF CaptureOriginalValue, NoModal
      <2> QED  BY <1>1, <1>3, <2>1 DEF ProductInv, CellsAreKnown, IsReal, Pending
<1> QED  BY <1>4, <1>5 DEF ProductInv

LEMMA QueueKeeps == ASSUME ProductInv, NEW p \in Products, NEW price \in Prices, QueueSkuChange(p, price) PROVE ProductInv'
<1> DEFINE original == focused.original
           ignored == edit.change # NoOne \/ original = 0
           asks == ~ignored /\ original # price
           c == [product |-> p, old |-> original, new |-> price]
<1>1. /\ focused.cell = p /\ changes > 0 /\ changes' = changes - 1 /\ changes \in Nat
      /\ cells' = [cells EXCEPT ![p].price = price, ![p].loose = @ \/ ignored]
      /\ edit' = IF asks THEN [edit EXCEPT !.change = c, !.attached = TRUE, !.asks = TRUE] ELSE edit
      /\ focused' = IF asks THEN Nowhere ELSE focused
      /\ UNCHANGED <<stored, past, dialog, loading, request, closedEarly, crossed>>
      BY DEF QueueSkuChange, ProductInv, PricesTypeOK
<1>2. /\ cells' \in [Products -> Cell]
      /\ cells'[p].price = price /\ cells'[p].loose = (cells[p].loose \/ ignored)
      /\ \A o \in Products : o # p => cells'[o] = cells[o]
      <2> DEFINE l == cells[p].loose \/ ignored
                 row == [cells[p] EXCEPT !.price = price, !.loose = l]
      <2>1. cells' = [cells EXCEPT ![p] = row] /\ cells \in [Products -> Cell]
            BY <1>1 DEF ProductInv, PageTypeOK
      <2>2. l \in BOOLEAN /\ l = (cells[p].loose \/ ignored)
            OBVIOUS
      <2> HIDE DEF l
      <2>3. row \in Cell /\ row.price = price /\ row.loose = l
            BY <2>1, <2>2 DEF Cell
      <2> HIDE DEF row
      <2> QED  BY <2>1, <2>2, <2>3
<1>3. focused \in Focus /\ edit \in EditState
      BY DEF ProductInv, PageTypeOK
<1>4. CASE asks
      <2>1. original \in Prices /\ original # 0 /\ edit.change = NoOne
            BY <1>3, <1>4 DEF Focus
      <2>2. c \in Change /\ c.product = p /\ c.old = original /\ c.new = price
            BY <2>1 DEF Change
      <2>3. edit' = [edit EXCEPT !.change = c, !.attached = TRUE, !.asks = TRUE] /\ focused' = Nowhere
            BY <1>1, <1>4
      <2> HIDE DEF c
      <2>4. c \in MaybeChange /\ c # NoOne
            BY <2>2, NothingIsNoRequest DEF MaybeChange
      <2>5. edit' \in EditState /\ edit'.change = c /\ edit'.attached /\ edit'.asks /\ edit'.saving = edit.saving
            BY <2>3, <2>4, <1>3 DEF EditState
      <2>6. focused' \in Focus /\ focused'.original = 0
            BY <2>3 DEF Nowhere, Focus
      <2>7. PricesTypeOK' /\ PageTypeOK'
            BY <1>1, <1>2, <2>5, <2>6 DEF ProductInv, PricesTypeOK, PageTypeOK
      <2>8. RequestsCarry' /\ EditsCanBeDecided' /\ OneProduct' /\ FlagsFall'
            BY <1>1, <2>5 DEF ProductInv, RequestsCarry, Carries, EditsCanBeDecided, OneProduct, FlagsFall, OfKind
      <2>9. OneSaves'
            <3>1. \A r \in Requests : request[r].kind # "save"
                  <4>1. ASSUME NEW r \in Requests, request[r].kind = "save"
                        PROVE  FALSE
                        <5>1. request[r].change = NoOne
                              BY <4>1, <2>1 DEF ProductInv, OneSaves
                        <5>2. request[r].change \in Change
                              BY <4>1, RequestFacts DEF Carries
                        <5> QED  BY <5>1, <5>2, NothingIsNoRequest
                  <4> QED  BY <4>1
            <3> QED  BY <3>1, <1>1, <2>5 DEF ProductInv, OneSaves
      <2>10. CellsAreKnown'
            <3>1. \A o \in Products : ~Pending(o)
                  BY <2>1, NothingIsNoRequest, ProductDeskAssumption DEF Pending
            <3>2. IsReal(p, original)
                  BY <3>1, <2>1, <1>1 DEF ProductInv, CellsAreKnown
            <3>3. \A o \in Products : o # p => IsReal(o, cells[o].price)
                  BY <3>1 DEF ProductInv, CellsAreKnown
            <3>4. \A o \in Products : IsReal(o, cells[o].price)' \/ (Pending(o)' /\ cells'[o].price = edit'.change.new)
                  BY <3>3, <1>1, <1>2, <2>2, <2>5 DEF IsReal, Pending
            <3>5. IsReal(edit.change.product, edit.change.old)'
                  BY <3>2, <1>1, <1>2, <2>2, <2>5 DEF IsReal
            <3> QED  BY <3>4, <3>5, <2>6 DEF CellsAreKnown
      <2> QED  BY <2>7, <2>8, <2>9, <2>10 DEF ProductInv
<1>5. CASE ~asks
      <2>1. UNCHANGED <<edit, focused, stored, past, dialog, loading, request, closedEarly, crossed>>
            BY <1>1, <1>5
      <2>2. PricesTypeOK' /\ PageTypeOK'
            BY <1>1, <1>2, <2>1 DEF ProductInv, PricesTypeOK, PageTypeOK
      <2>3. RequestsCarry' /\ EditsCanBeDecided' /\ OneSaves' /\ OneProduct' /\ FlagsFall'
            BY <2>1 DEF ProductInv, RequestsCarry, Carries, EditsCanBeDecided, OneSaves, OneProduct, FlagsFall, OfKind
      <2>4. CellsAreKnown'
            <3>1. \A o \in Products, x \in Prices : IsReal(o, x) => IsReal(o, x)'
                  BY <1>2, <2>1 DEF IsReal
            <3>2. IsReal(p, price)'
                  <4>1. CASE ignored
                        BY <4>1, <1>2 DEF IsReal
                  <4>2. CASE ~ignored
                        <5>1. original = price /\ edit.change = NoOne /\ original # 0
                              BY <4>2, <1>5
                        <5>2. ~Pending(p)
                              BY <5>1, NothingIsNoRequest, ProductDeskAssumption DEF Pending
                        <5> QED  BY <5>1, <5>2, <3>1, <1>1 DEF ProductInv, CellsAreKnown
                  <4> QED  BY <4>1, <4>2
            <3>3. \A o \in Products : cells[o].price \in Prices /\ (focused.original # 0 => focused.original \in Prices)
                  BY <1>3 DEF ProductInv, PageTypeOK, Cell, Focus
            <3>4. \A o \in Products : IsReal(o, cells[o].price)' \/ (Pending(o)' /\ cells'[o].price = edit'.change.new)
                  <4>1. ASSUME NEW o \in Products, o # p
                        PROVE  IsReal(o, cells[o].price)' \/ (Pending(o)' /\ cells'[o].price = edit'.change.new)
                        <5>1. IsReal(o, cells[o].price) \/ (Pending(o) /\ cells[o].price = edit.change.new)
                              BY DEF ProductInv, CellsAreKnown
                        <5> QED  BY <5>1, <4>1, <1>2, <2>1 DEF IsReal, Pending
                  <4>2. IsReal(p, cells[p].price)'
                        BY <3>2, <1>2 DEF IsReal
                  <4> QED  BY <4>1, <4>2
            <3>5. \A o \in Products : focused.cell = o /\ focused.original # 0 =>
                    IsReal(o, focused.original)' \/ (Pending(o) /\ focused.original = edit.change.new)
                  <4>1. ASSUME NEW o \in Products, focused.cell = o, focused.original # 0
                        PROVE  IsReal(o, focused.original)' \/ (Pending(o) /\ focused.original = edit.change.new)
                        <5>1. IsReal(o, focused.original) \/ (Pending(o) /\ focused.original = edit.change.new)
                              BY <4>1 DEF ProductInv, CellsAreKnown
                        <5>2. cells[o].loose => cells'[o].loose
                              BY <1>2
                        <5> QED  BY <5>1, <5>2, <2>1 DEF IsReal
                  <4> QED  BY <4>1
            <3>6. edit.change # NoOne /\ edit.attached => IsReal(edit.change.product, edit.change.old)'
                  <4>1. edit.change # NoOne => edit.change.product \in Products /\ edit.change.old \in Prices
                        BY <1>3 DEF EditState, MaybeChange, Change
                  <4> QED  BY <4>1, <3>1, <2>1 DEF ProductInv, CellsAreKnown
            <3>7. edit.asks => focused.original = 0
                  BY DEF ProductInv, CellsAreKnown
            <3> QED  BY <3>4, <3>5, <3>6, <3>7, <2>1 DEF CellsAreKnown, IsReal, Pending
      <2> QED  BY <2>2, <2>3, <2>4 DEF ProductInv
<1> QED  BY <1>4, <1>5

LEMMA ConfirmKeeps == ASSUME ProductInv, NEW r \in Requests, ConfirmPendingChange(r) PROVE ProductInv'
<1>1. edit \in EditState /\ edit.change \in Change /\ ~edit.saving
      BY DEF ConfirmPendingChange, ProductInv, PageTypeOK, EditState, MaybeChange
<1>2. edit.change.product \in Products /\ edit.change \in AnyChange
      BY <1>1 DEF Change, AnyChange, MaybeChange
<1>3. /\ request' \in [Requests -> {Nothing} \cup PageRequest]
      /\ request[r] = Nothing /\ request[r].kind = "nothing"
      /\ request'[r] # Nothing /\ request'[r].kind = "save" /\ request'[r].product = edit.change.product
      /\ request'[r].change = edit.change /\ request'[r].pc = "sent"
      /\ \A s \in Requests : s # r => request'[s] = request[s]
      BY <1>2, PostFacts DEF ConfirmPendingChange
<1>4. /\ edit' \in EditState /\ edit'.change = edit.change /\ edit'.attached = edit.attached /\ edit'.asks = edit.asks /\ edit'.saving
      /\ UNCHANGED <<stored, past, changes, cells, focused, dialog, loading, closedEarly, crossed>>
      BY <1>1 DEF ConfirmPendingChange, EditState
<1>5. PricesTypeOK' /\ PageTypeOK'
      BY <1>3, <1>4 DEF ProductInv, PricesTypeOK, PageTypeOK
<1>6. RequestsCarry'
      BY <1>1, <1>2, <1>3, <1>4 DEF ProductInv, RequestsCarry, Carries
<1>7. EditsCanBeDecided' /\ CellsAreKnown'
      BY <1>4 DEF ProductInv, EditsCanBeDecided, CellsAreKnown, IsReal, Pending
<1>8. OneSaves'
      <2>1. \A s \in Requests : request[s].kind \notin {"save", "reload"}
            BY <1>1 DEF ProductInv, OneSaves
      <2> QED  BY <2>1, <1>3, <1>4 DEF OneSaves
<1>9. OneProduct'
      BY <1>3, <1>4 DEF ProductInv, OneProduct
<1>10. FlagsFall'
      BY <1>3, <1>4 DEF ProductInv, FlagsFall, OfKind
<1> QED  BY <1>5, <1>6, <1>7, <1>8, <1>9, <1>10 DEF ProductInv

LEMMA CancelKeeps == ASSUME ProductInv, CancelPendingChange PROVE ProductInv'
<1>1. edit \in EditState /\ edit.asks /\ focused.original = 0 /\ closedEarly' = (closedEarly \/ edit.saving)
      BY DEF CancelPendingChange, ProductInv, PageTypeOK, CellsAreKnown
<1>2. UNCHANGED <<stored, past, changes, focused, dialog, loading, request, crossed>> /\ closedEarly' \in BOOLEAN
      BY DEF CancelPendingChange
<1>3. RequestsCarry' /\ OneProduct'
      BY <1>2 DEF ProductInv, RequestsCarry, Carries, OneProduct
<1>4. CASE edit.saving \/ edit.change = NoOne
      <2>1. UNCHANGED cells /\ edit' = [edit EXCEPT !.asks = FALSE]
            BY <1>4 DEF CancelPendingChange
      <2>2. edit' \in EditState /\ edit'.change = edit.change /\ edit'.attached = edit.attached /\ ~edit'.asks /\ edit'.saving = edit.saving
            BY <2>1, <1>1 DEF EditState
      <2>3. PricesTypeOK' /\ PageTypeOK' /\ OneSaves' /\ FlagsFall'
            BY <1>2, <2>1, <2>2 DEF ProductInv, PricesTypeOK, PageTypeOK, OneSaves, FlagsFall, OfKind
      <2>4. EditsCanBeDecided'
            BY <1>1, <1>4, <2>2 DEF EditsCanBeDecided
      <2>5. CellsAreKnown'
            BY <1>2, <2>1, <2>2 DEF ProductInv, CellsAreKnown, IsReal, Pending
      <2> QED  BY <1>3, <2>3, <2>4, <2>5 DEF ProductInv
<1>5. CASE ~edit.saving /\ edit.change # NoOne
      <2>1. /\ edit' = [edit EXCEPT !.asks = FALSE, !.change = NoOne]
            /\ cells' = IF edit.attached THEN Reverted(edit.change.product, edit.change.old) ELSE cells
            BY <1>5 DEF CancelPendingChange
      <2>2. edit' \in EditState /\ edit'.change = NoOne /\ ~edit'.asks /\ edit'.saving = edit.saving
            BY <2>1, <1>1, NothingIsNoRequest DEF EditState
      <2> DEFINE o == edit.change.product
                 old == edit.change.old
      <2>3. o \in Products /\ old \in Prices
            BY <1>1, <1>5 DEF EditState, MaybeChange, Change
      <2> HIDE DEF o, old
      <2>4. /\ cells' \in [Products -> Cell]
            /\ \A p \in Products : cells'[p].loose = cells[p].loose /\ (p # o \/ ~edit.attached => cells'[p].price = cells[p].price)
            /\ edit.attached => cells'[o].price = old
            <3>1. cells \in [Products -> Cell]
                  BY DEF ProductInv, PageTypeOK
            <3>2. CASE edit.attached
                  <4>1. cells' = [cells EXCEPT ![o].price = old]
                        BY <3>2, <2>1 DEF Reverted, o, old
                  <4> QED  BY <4>1, <3>1, <3>2, <2>3 DEF Cell
            <3>3. CASE ~edit.attached
                  BY <3>1, <3>3, <2>1
            <3> QED  BY <3>2, <3>3
      <2>5. PricesTypeOK' /\ PageTypeOK' /\ FlagsFall'
            BY <1>2, <2>2, <2>4 DEF ProductInv, PricesTypeOK, PageTypeOK, FlagsFall, OfKind
      <2>6. OneSaves'
            BY <1>2, <1>5, <2>2 DEF ProductInv, OneSaves
      <2>7. EditsCanBeDecided'
            BY <2>2 DEF EditsCanBeDecided
      <2>8. CellsAreKnown'
            <3>1. edit.attached => IsReal(o, old)
                  BY <1>5 DEF ProductInv, CellsAreKnown, o, old
            <3>2. \A p \in Products : p # o \/ ~edit.attached => IsReal(p, cells[p].price)
                  BY DEF ProductInv, CellsAreKnown, Pending, o
            <3>3. \A p \in Products : cells'[p].price \in past[p] \/ cells'[p].loose
                  BY <3>1, <3>2, <2>4 DEF IsReal
            <3> QED  BY <3>3, <1>1, <1>2, <2>2 DEF CellsAreKnown, IsReal
      <2> QED  BY <1>3, <2>5, <2>6, <2>7, <2>8 DEF ProductInv
<1> QED  BY <1>4, <1>5

LEMMA SaveConfigKeeps == ASSUME ProductInv, NEW r \in Requests, SaveProductConfig(r) PROVE ProductInv'
<1> DEFINE c == [product |-> dialog.shown]
<1>1. dialog \in DialogState /\ dialog.open /\ ~dialog.saving /\ dialog.id \in Products /\ dialog.shown \in Products
      BY DEF SaveProductConfig, ProductInv, PageTypeOK
<1>2. c \in AnyChange /\ c.product = dialog.shown
      BY <1>1 DEF AnyChange
<1>3. Post(r, "config", dialog.id, c)
      BY DEF SaveProductConfig
<1> HIDE DEF c
<1>4. /\ request' \in [Requests -> {Nothing} \cup PageRequest]
      /\ request[r] = Nothing /\ request[r].kind = "nothing"
      /\ request'[r] # Nothing /\ request'[r].kind = "config" /\ request'[r].product = dialog.id
      /\ request'[r].change = c /\ request'[r].pc = "sent"
      /\ \A s \in Requests : s # r => request'[s] = request[s]
      BY <1>1, <1>2, <1>3, PostFacts
<1>5. /\ dialog' \in DialogState /\ dialog'.open = dialog.open /\ dialog'.id = dialog.id /\ dialog'.shown = dialog.shown
      /\ UNCHANGED <<stored, past, changes, cells, focused, edit, loading, closedEarly, crossed>>
      BY <1>1 DEF SaveProductConfig, DialogState
<1>6. PricesTypeOK' /\ PageTypeOK'
      BY <1>4, <1>5 DEF ProductInv, PricesTypeOK, PageTypeOK
<1>7. RequestsCarry'
      BY <1>1, <1>4, <1>5 DEF ProductInv, RequestsCarry, Carries
<1>8. EditsCanBeDecided' /\ CellsAreKnown'
      BY <1>5 DEF ProductInv, EditsCanBeDecided, CellsAreKnown, IsReal, Pending
<1>9. OneSaves'
      BY <1>4, <1>5 DEF ProductInv, OneSaves
<1>10. OneProduct'
      BY <1>2, <1>4, <1>5 DEF ProductInv, OneProduct
<1>11. FlagsFall'
      BY <1>4, <1>5 DEF ProductInv, FlagsFall, OfKind
<1> QED  BY <1>6, <1>7, <1>8, <1>9, <1>10, <1>11 DEF ProductInv

LEMMA CloseConfigKeeps == ASSUME ProductInv, CloseConfigDialog PROVE ProductInv'
<1>1. /\ dialog' \in DialogState /\ ~dialog'.open /\ dialog'.id = dialog.id /\ dialog'.shown = dialog.shown /\ dialog'.saving = dialog.saving
      /\ UNCHANGED <<stored, past, changes, cells, focused, edit, loading, request, closedEarly, crossed>>
      BY DEF CloseConfigDialog, DialogState, ProductInv, PageTypeOK
<1> QED  BY <1>1 DEF ProductInv, PricesTypeOK, PageTypeOK, RequestsCarry, Carries, EditsCanBeDecided, CellsAreKnown, IsReal, Pending,
             OneSaves, OneProduct, FlagsFall, OfKind

(* What was stored once stays so. *)
PastGrows ==
    /\ PricesTypeOK' /\ \A p \in Products : past[p] \subseteq past'[p]

LEMMA StoreGrows ==
    ASSUME ProductInv, NEW p \in Products, NEW price \in Prices, Store(p, price), changes' \in Nat
    PROVE  PastGrows /\ price \in past'[p]
<1>1. /\ stored' = [stored EXCEPT ![p] = price] /\ past' = [past EXCEPT ![p] = @ \cup {price}]
      /\ stored \in [Products -> Prices] /\ past \in [Products -> SUBSET Prices] /\ \A o \in Products : stored[o] \in past[o]
      BY DEF Store, ProductInv, PricesTypeOK
<1>2. past' \in [Products -> SUBSET Prices] /\ \A o \in Products : past'[o] = IF o = p THEN past[o] \cup {price} ELSE past[o]
      BY <1>1
<1>3. stored' \in [Products -> Prices] /\ \A o \in Products : stored'[o] = IF o = p THEN price ELSE stored[o]
      BY <1>1
<1> QED  BY <1>1, <1>2, <1>3 DEF PastGrows, PricesTypeOK

LEMMA AnswerFacts ==
    ASSUME ProductInv, NEW r \in Requests, request[r].kind # "nothing",
           request' = [request EXCEPT ![r].pc = "handled", ![r].seen = stored]
    PROVE  /\ request' \in [Requests -> {Nothing} \cup PageRequest]
           /\ request'[r] # Nothing /\ request'[r].kind = request[r].kind /\ request'[r].product = request[r].product
           /\ request'[r].change = request[r].change /\ request'[r].pc = "handled" /\ request'[r].seen = stored
           /\ \A s \in Requests : s # r => request'[s] = request[s]
<1> DEFINE q == [request[r] EXCEPT !.pc = "handled", !.seen = stored]
<1>1. request[r] \in PageRequest /\ stored \in AnySeen
      BY RequestFacts DEF ProductInv, PricesTypeOK, AnySeen, Seen
<1>2. /\ q \in PageRequest /\ q.kind = request[r].kind /\ q.product = request[r].product /\ q.change = request[r].change
      /\ q.pc = "handled" /\ q.seen = stored
      BY <1>1 DEF PageRequest
<1>3. request' = [request EXCEPT ![r] = q]
      BY DEF ProductInv, PageTypeOK
<1> HIDE DEF q
<1>4. request' \in [Requests -> {Nothing} \cup PageRequest] /\ request'[r] = q /\ \A s \in Requests : s # r => request'[s] = request[s]
      BY <1>2, <1>3, RequestChanges
<1>5. q # Nothing
      BY <1>2, NothingIsNoRequest
<1> QED  BY <1>2, <1>4, <1>5

LEMMA ServedKeeps ==
    ASSUME ProductInv, NEW r \in Requests, NEW kinds, "nothing" \notin kinds, Answer(r, kinds), PastGrows,
           request[r].kind = "save" => request[r].change.new \in past'[request[r].product]
    PROVE  ProductInv'
<1>1. request[r].kind # "nothing" /\ request' = [request EXCEPT ![r].pc = "handled", ![r].seen = stored]
      BY DEF Answer, OfKind
<1>2. UNCHANGED <<cells, focused, edit, dialog, loading, closedEarly, crossed>>
      BY DEF Answer
<1>3. /\ request' \in [Requests -> {Nothing} \cup PageRequest]
      /\ request'[r] # Nothing /\ request'[r].kind = request[r].kind /\ request'[r].product = request[r].product
      /\ request'[r].change = request[r].change /\ request'[r].pc = "handled" /\ request'[r].seen = stored
      /\ \A s \in Requests : s # r => request'[s] = request[s]
      BY <1>1, AnswerFacts
<1>4. request[r] \in PageRequest /\ request[r] # Nothing /\ Carries(request[r])
      BY <1>1, RequestFacts
<1>5. PricesTypeOK' /\ PageTypeOK'
      BY <1>2, <1>3 DEF ProductInv, PageTypeOK, PastGrows
<1>6. RequestsCarry'
      <2>1. stored \in Seen /\ \A p \in Products : stored[p] \in past'[p]
            BY DEF ProductInv, PricesTypeOK, PastGrows, Seen
      <2>2. Carries(request[r])'
            BY <1>3, <1>4, <2>1 DEF Carries
      <2>3. ASSUME NEW s \in Requests, s # r, request[s] # Nothing
            PROVE  Carries(request[s])'
            BY <1>3, <2>3 DEF ProductInv, RequestsCarry, Carries, PastGrows
      <2> QED  BY <1>3, <2>2, <2>3 DEF RequestsCarry
<1>7. EditsCanBeDecided'
      BY <1>2 DEF ProductInv, EditsCanBeDecided
<1>8. CellsAreKnown'
      <2>1. edit.change # NoOne => edit.change.product \in Products
            BY DEF ProductInv, PageTypeOK, EditState, MaybeChange, Change
      <2> QED  BY <2>1, <1>2 DEF ProductInv, CellsAreKnown, IsReal, Pending, PastGrows
<1>9. OneSaves'
      <2>1. \A s \in Requests : request'[s].kind = request[s].kind /\ request'[s].change = request[s].change
            BY <1>3
      <2>2. ASSUME NEW s \in Requests, request[s].kind = "save", request'[s].pc = "handled"
            PROVE  edit.change.new \in past'[edit.change.product]
            <3>1. request[s].change = edit.change
                  BY <2>2 DEF ProductInv, OneSaves
            <3>2. request[s].change \in Change /\ request[s].change.product = request[s].product
                  BY <2>2, RequestFacts DEF Carries
            <3>3. CASE s = r
                  BY <3>1, <3>2, <3>3, <2>2
            <3>4. CASE s # r
                  <4>1. edit.change.new \in past[edit.change.product]
                        BY <3>4, <2>2, <1>3 DEF ProductInv, OneSaves
                  <4> QED  BY <4>1, <3>1, <3>2 DEF PastGrows, Change
            <3> QED  BY <3>3, <3>4
      <2> QED  BY <2>1, <2>2, <1>2 DEF ProductInv, OneSaves
<1>10. OneProduct'
       BY <1>2, <1>3 DEF ProductInv, OneProduct
<1>11. FlagsFall'
       <2>1. \A s \in Requests : request'[s].kind = request[s].kind
             BY <1>3
       <2> QED  BY <2>1, <1>2 DEF ProductInv, FlagsFall, OfKind
<1> QED  BY <1>5, <1>6, <1>7, <1>8, <1>9, <1>10, <1>11 DEF ProductInv

LEMMA ServeStep ==
    ASSUME ProductInv, NEW r \in Requests,
           GetProducts(r) \/ GetProductDetail(r) \/ UpdateSkuPrice(r) \/ SyncProductConfiguration(r)
    PROVE  ProductInv'
<1>1. ASSUME UNCHANGED <<stored, past, changes>> PROVE PastGrows
      BY <1>1 DEF PastGrows, ProductInv, PricesTypeOK
<1>2. CASE GetProducts(r)
      <2>1. Answer(r, {"list", "reload"}) /\ request[r].kind # "save" /\ UNCHANGED <<stored, past, changes>>
            BY <1>2 DEF GetProducts, Answer, OfKind
      <2> QED  BY <2>1, <1>1, ServedKeeps
<1>3. CASE GetProductDetail(r)
      <2>1. Answer(r, {"expand", "open"}) /\ request[r].kind # "save" /\ UNCHANGED <<stored, past, changes>>
            BY <1>3 DEF GetProductDetail, Answer, OfKind
      <2> QED  BY <2>1, <1>1, ServedKeeps
<1>4. CASE SyncProductConfiguration(r)
      <2>1. Answer(r, {"config"}) /\ request[r].kind # "save" /\ UNCHANGED <<stored, past, changes>>
            BY <1>4 DEF SyncProductConfiguration, Answer, OfKind
      <2> QED  BY <2>1, <1>1, ServedKeeps
<1>5. CASE UpdateSkuPrice(r)
      <2>1. Answer(r, {"save"}) /\ request[r].kind = "save" /\ UNCHANGED changes
            BY <1>5 DEF UpdateSkuPrice, Answer, OfKind
      <2>2. request[r].product \in Products /\ request[r].change \in Change
            BY <2>1, RequestFacts DEF Carries
      <2>3. Store(request[r].product, request[r].change.new) /\ request[r].change.new \in Prices /\ changes' \in Nat
            BY <1>5, <2>1, <2>2 DEF UpdateSkuPrice, Change, ProductInv, PricesTypeOK
      <2>4. PastGrows /\ request[r].change.new \in past'[request[r].product]
            BY <2>2, <2>3, StoreGrows
      <2> QED  BY <2>1, <2>4, ServedKeeps
<1> QED  BY <1>2, <1>3, <1>4, <1>5

LEMMA ElsewhereKeeps == ASSUME ProductInv, PriceChangesElsewhere PROVE ProductInv'
<1>1. PICK p \in Products, price \in Prices : Store(p, price)
      BY DEF PriceChangesElsewhere
<1>2. changes' \in Nat /\ UNCHANGED <<cells, focused, edit, dialog, loading, request, closedEarly, crossed>>
      BY DEF PriceChangesElsewhere, ProductInv, PricesTypeOK
<1>3. PastGrows
      BY <1>1, <1>2, StoreGrows
<1>4. PricesTypeOK' /\ PageTypeOK' /\ EditsCanBeDecided' /\ OneProduct' /\ FlagsFall'
      BY <1>2, <1>3 DEF ProductInv, PageTypeOK, EditsCanBeDecided, OneProduct, FlagsFall, OfKind, PastGrows
<1>5. RequestsCarry'
      BY <1>2, <1>3 DEF ProductInv, RequestsCarry, Carries, PastGrows
<1>6. edit.change # NoOne => edit.change.product \in Products
      BY DEF ProductInv, PageTypeOK, EditState, MaybeChange, Change
<1>7. CellsAreKnown'
      BY <1>2, <1>3, <1>6 DEF ProductInv, CellsAreKnown, IsReal, Pending, PastGrows
<1>8. OneSaves'
      <2>1. \A s \in Requests : request[s].kind = "save" => edit.change \in Change
            <3>1. ASSUME NEW s \in Requests, request[s].kind = "save"
                  PROVE  edit.change \in Change
                  BY <3>1, RequestFacts DEF ProductInv, OneSaves, Carries
            <3> QED  BY <3>1
      <2> QED  BY <2>1, <1>2, <1>3 DEF ProductInv, OneSaves, PastGrows, Change
<1> QED  BY <1>4, <1>5, <1>7, <1>8 DEF ProductInv

(* Rows that are loaded hold what was stored; a pending change keeps the row it was made in. *)
LEMMA ReplaceKeeps ==
    ASSUME ProductInv, NEW rows \in SUBSET Products, NEW seen \in Seen, NEW detailed \in BOOLEAN,
           \A p \in Products : seen[p] \in past[p], Replace(rows, seen, detailed), past' = past,
           edit'.change = edit.change, edit'.attached = (edit.attached /\ edit.change.product \notin rows), edit'.asks = edit.asks
    PROVE  cells' \in [Products -> Cell] /\ focused' \in Focus /\ CellsAreKnown'
<1>1. /\ cells \in [Products -> Cell] /\ focused \in Focus /\ edit \in EditState
      /\ cells' = [p \in Products |-> IF p \in rows THEN [price |-> seen[p], loose |-> FALSE, detailed |-> detailed] ELSE cells[p]]
      /\ focused' = IF focused.cell \in rows THEN [focused EXCEPT !.original = 0] ELSE focused
      BY DEF ProductInv, PageTypeOK, Replace, Loaded
<1>2. /\ cells' \in [Products -> Cell]
      /\ \A p \in Products : p \in rows => cells'[p].price = seen[p]
      /\ \A p \in Products : p \notin rows => cells'[p] = cells[p]
      <2>1. ASSUME NEW p \in Products
            PROVE  [price |-> seen[p], loose |-> FALSE, detailed |-> detailed] \in Cell
            BY DEF Cell, Seen
      <2> QED  BY <2>1, <1>1
<1>3. focused' \in Focus /\ focused'.cell = focused.cell /\ (focused.cell \in rows => focused'.original = 0)
      /\ (focused.cell \notin rows => focused' = focused) /\ (focused.original = 0 => focused'.original = 0)
      BY <1>1 DEF Focus
<1>4. \A p \in Products : p \notin rows => (Pending(p)' <=> Pending(p))
      BY DEF Pending
<1>5. \A p \in Products : IsReal(p, cells[p].price)' \/ (Pending(p)' /\ cells'[p].price = edit'.change.new)
      <2>1. ASSUME NEW p \in rows
            PROVE  IsReal(p, cells[p].price)'
            BY <1>2 DEF IsReal
      <2>2. ASSUME NEW p \in Products, p \notin rows
            PROVE  IsReal(p, cells[p].price)' \/ (Pending(p)' /\ cells'[p].price = edit'.change.new)
            <3>1. IsReal(p, cells[p].price) \/ (Pending(p) /\ cells[p].price = edit.change.new)
                  BY DEF ProductInv, CellsAreKnown
            <3>2. cells'[p] = cells[p]
                  BY <1>2, <2>2
            <3> QED  BY <3>1, <3>2, <1>4, <2>2 DEF IsReal
      <2> QED  BY <2>1, <2>2
<1>6. ASSUME NEW p \in Products, focused'.cell = p, focused'.original # 0
      PROVE  IsReal(p, focused.original)' \/ (Pending(p)' /\ focused'.original = edit'.change.new)
      <2>1. p \notin rows /\ focused' = focused
            BY <1>3, <1>6
      <2>2. IsReal(p, focused.original) \/ (Pending(p) /\ focused.original = edit.change.new)
            BY <1>6, <2>1 DEF ProductInv, CellsAreKnown
      <2>3. cells'[p] = cells[p]
            BY <1>2, <2>1
      <2> QED  BY <2>1, <2>2, <2>3, <1>4 DEF IsReal
<1>7. ASSUME edit'.change # NoOne, edit'.attached
      PROVE  IsReal(edit.change.product, edit.change.old)'
      <2>1. edit.change # NoOne /\ edit.attached /\ edit.change.product \notin rows /\ edit.change.product \in Products
            BY <1>1, <1>7 DEF EditState, MaybeChange, Change
      <2>2. IsReal(edit.change.product, edit.change.old)
            BY <2>1 DEF ProductInv, CellsAreKnown
      <2>3. cells'[edit.change.product] = cells[edit.change.product]
            BY <1>2, <2>1
      <2> QED  BY <2>2, <2>3 DEF IsReal
<1>8. edit'.asks => focused'.original = 0
      BY <1>3 DEF ProductInv, CellsAreKnown
<1> QED  BY <1>2, <1>3, <1>5, <1>6, <1>7, <1>8 DEF CellsAreKnown

LEMMA DetachedFacts ==
    ASSUME ProductInv, NEW rows
    PROVE  /\ Detached(rows) \in EditState /\ Detached(rows).change = edit.change /\ Detached(rows).asks = edit.asks
           /\ Detached(rows).saving = edit.saving
           /\ Detached(rows).attached = (edit.attached /\ edit.change.product \notin rows)
<1> DEFINE a == edit.attached /\ edit.change.product \notin rows
<1>1. edit \in EditState /\ a \in BOOLEAN /\ Detached(rows) = [edit EXCEPT !.attached = a]
      BY DEF ProductInv, PageTypeOK, EditState, Detached
<1>2. a = (edit.attached /\ edit.change.product \notin rows)
      OBVIOUS
<1> HIDE DEF a
<1> QED  BY <1>1, <1>2 DEF EditState

(* A request that is over. *)
LEMMA ForgetFacts ==
    ASSUME ProductInv, NEW r \in Requests, Forget(r)
    PROVE  /\ request' \in [Requests -> {Nothing} \cup PageRequest]
           /\ request'[r] = Nothing /\ request'[r].kind = "nothing" /\ \A s \in Requests : s # r => request'[s] = request[s]
BY RequestChanges, NothingIsNoRequest DEF Forget

(* An answer is shown: its rows are replaced, and what it asked for is settled. *)
LEMMA ShownKeeps ==
    ASSUME ProductInv, NEW r \in Requests, NEW rows \in SUBSET Products, NEW detailed \in BOOLEAN,
           request[r].kind # "nothing", request[r].pc = "handled", Replace(rows, request[r].seen, detailed), Forget(r),
           edit' = Detached(rows) \/ edit' = [Detached(rows) EXCEPT !.saving = FALSE],
           edit'.saving = (edit.saving /\ request[r].kind # "reload"), request[r].kind \notin {"save", "config"},
           loading' = loading \/ loading' = FALSE, request[r].kind \in {"list", "reload"} => ~loading',
           UNCHANGED <<stored, past, changes, closedEarly>>, crossed' \in BOOLEAN,
           dialog' \in DialogState, dialog'.saving = dialog.saving, dialog'.open => {dialog'.id, dialog'.shown} \subseteq Products,
           OneProduct'
    PROVE  ProductInv'
<1>1. request[r].seen \in Seen /\ \A p \in Products : request[r].seen[p] \in past[p]
      BY RequestFacts DEF Carries
<1>2. /\ edit' \in EditState /\ edit'.change = edit.change /\ edit'.asks = edit.asks
      /\ edit'.attached = (edit.attached /\ edit.change.product \notin rows)
      <2> DEFINE e == Detached(rows)
      <2>1. /\ e \in EditState /\ e.change = edit.change /\ e.asks = edit.asks
            /\ e.attached = (edit.attached /\ edit.change.product \notin rows)
            BY DetachedFacts
      <2>2. edit' = e \/ edit' = [e EXCEPT !.saving = FALSE]
            OBVIOUS
      <2> HIDE DEF e
      <2>3. edit' \in EditState /\ edit'.change = e.change /\ edit'.asks = e.asks /\ edit'.attached = e.attached
            BY <2>1, <2>2 DEF EditState
      <2> QED  BY <2>1, <2>3
<1>3. cells' \in [Products -> Cell] /\ focused' \in Focus /\ CellsAreKnown'
      BY <1>1, <1>2, ReplaceKeeps
<1>4. /\ request' \in [Requests -> {Nothing} \cup PageRequest]
      /\ request'[r] = Nothing /\ request'[r].kind = "nothing" /\ \A s \in Requests : s # r => request'[s] = request[s]
      BY ForgetFacts
<1>5. PricesTypeOK' /\ PageTypeOK'
      BY <1>2, <1>3, <1>4 DEF ProductInv, PricesTypeOK, PageTypeOK
<1>6. RequestsCarry'
      BY <1>4 DEF ProductInv, RequestsCarry, Carries
<1>7. EditsCanBeDecided'
      BY <1>2 DEF ProductInv, EditsCanBeDecided
<1>8. OneSaves'
      <2>1. ASSUME NEW s \in Requests, request'[s].kind \in {"save", "reload"}
            PROVE  edit'.saving
            <3>1. s # r /\ request[s].kind \in {"save", "reload"}
                  BY <2>1, <1>4
            <3>2. edit.saving /\ request[r].kind # "reload"
                  BY <3>1 DEF ProductInv, OneSaves
            <3> QED  BY <3>2
      <2>2. \A s, q \in Requests : {request'[s].kind, request'[q].kind} \subseteq {"save", "reload"} => s = q
            BY <1>4 DEF ProductInv, OneSaves
      <2>3. \A s \in Requests : request'[s].kind = "save" =>
              request'[s].change = edit'.change /\ (request'[s].pc = "handled" => edit'.change.new \in past[edit'.change.product])
            BY <1>2, <1>4 DEF ProductInv, OneSaves
      <2> QED  BY <2>1, <2>2, <2>3 DEF OneSaves
<1>9. FlagsFall'
      <2>1. \A s \in Requests : request[s].kind # request[r].kind => request'[s] = request[s]
            BY <1>4
      <2>2. loading' => OfKind({"list", "reload"})' # {}
            BY <2>1 DEF ProductInv, FlagsFall, OfKind
      <2>3. edit'.saving => OfKind({"save", "reload"})' # {}
            BY <2>1 DEF ProductInv, FlagsFall, OfKind
      <2>4. dialog'.saving => OfKind({"config"})' # {}
            BY <2>1 DEF ProductInv, FlagsFall, OfKind
      <2> QED  BY <2>2, <2>3, <2>4 DEF FlagsFall
<1> QED  BY <1>3, <1>5, <1>6, <1>7, <1>8, <1>9 DEF ProductInv

LEMMA ShowProductsKeeps == ASSUME ProductInv, NEW r \in Requests, ShowProducts(r) PROVE ProductInv'
<1>1. /\ request[r].kind \in {"list", "reload"} /\ request[r].pc = "handled"
      /\ Replace(Products, request[r].seen, FALSE) /\ loading' = FALSE /\ Forget(r)
      /\ UNCHANGED <<stored, past, changes, dialog, closedEarly, crossed>>
      BY DEF ShowProducts, Returned, OfKind
<1>2. /\ edit' = Detached(Products) \/ edit' = [Detached(Products) EXCEPT !.saving = FALSE]
      /\ edit'.saving = (edit.saving /\ request[r].kind # "reload")
      <2> DEFINE e == Detached(Products)
      <2>1. e \in EditState /\ e.saving = edit.saving /\ edit \in EditState
            BY DetachedFacts DEF ProductInv, PageTypeOK
      <2>2. (request[r].kind = "list" /\ edit' = e) \/ (request[r].kind = "reload" /\ edit' = [e EXCEPT !.saving = FALSE])
            BY DEF ShowProducts, Returned, OfKind
      <2> HIDE DEF e
      <2>3. edit'.saving = (edit.saving /\ request[r].kind # "reload")
            BY <2>1, <2>2 DEF EditState
      <2> QED  BY <2>2, <2>3 DEF e
<1>3. OneProduct'
      BY <1>1, ForgetFacts DEF ProductInv, OneProduct
<1>4. dialog \in DialogState /\ (dialog.open => {dialog.id, dialog.shown} \subseteq Products) /\ crossed \in BOOLEAN
      BY DEF ProductInv, PageTypeOK
<1> QED  BY <1>1, <1>2, <1>3, <1>4, ShownKeeps

LEMMA ShowExpandedKeeps == ASSUME ProductInv, NEW r \in Requests, ShowExpanded(r) PROVE ProductInv'
<1>1. /\ request[r].kind = "expand" /\ request[r].pc = "handled" /\ edit' = Detached({request[r].product})
      /\ Replace({request[r].product}, request[r].seen, TRUE) /\ Forget(r)
      /\ UNCHANGED <<stored, past, changes, dialog, loading, closedEarly, crossed>>
      BY DEF ShowExpanded, Returned, OfKind
<1>2. request[r].product \in Products
      BY <1>1, RequestFacts DEF Carries
<1>3. edit'.saving = (edit.saving /\ request[r].kind # "reload")
      BY <1>1, DetachedFacts DEF ProductInv, PageTypeOK, EditState
<1>4. OneProduct'
      BY <1>1, ForgetFacts DEF ProductInv, OneProduct
<1>5. dialog \in DialogState /\ (dialog.open => {dialog.id, dialog.shown} \subseteq Products) /\ crossed \in BOOLEAN
      BY DEF ProductInv, PageTypeOK
<1> QED  BY <1>1, <1>2, <1>3, <1>4, <1>5, ShownKeeps

LEMMA ShowConfigDialogKeeps == ASSUME ProductInv, NEW r \in Requests, ShowConfigDialog(r) PROVE ProductInv'
<1>1. /\ request[r].kind = "open" /\ request[r].pc = "handled" /\ edit' = Detached({request[r].product})
      /\ Replace({request[r].product}, request[r].seen, TRUE) /\ Forget(r)
      /\ dialog' = Opened(request[r].product) /\ crossed' = (crossed \/ OfKind({"config"}) # {})
      /\ UNCHANGED <<stored, past, changes, loading, closedEarly>>
      BY DEF ShowConfigDialog, Returned, OfKind
<1>2. request[r].product \in Products
      BY <1>1, RequestFacts DEF Carries
<1>3. edit'.saving = (edit.saving /\ request[r].kind # "reload")
      BY <1>1, DetachedFacts DEF ProductInv, PageTypeOK, EditState
<1>4. dialog' \in DialogState /\ dialog'.saving = dialog.saving /\ dialog'.id = request[r].product /\ dialog'.shown = request[r].product
      BY <1>1, <1>2 DEF Opened, ProductInv, PageTypeOK, DialogState
<1>5. OneProduct'
      <2>1. crossed' \/ \A s \in Requests : request[s].kind # "config"
            BY <1>1 DEF OfKind
      <2>2. crossed' \/ \A s \in Requests : request'[s].kind # "config"
            BY <1>1, <2>1, ForgetFacts
      <2> QED  BY <1>4, <2>2 DEF OneProduct
<1>6. crossed' \in BOOLEAN
      BY <1>1
<1> QED  BY <1>1, <1>2, <1>3, <1>4, <1>5, <1>6, ShownKeeps

(* The change that was saved is no longer pending; what it had put into the cell is stored. *)
LEMMA ShowSavedKeeps == ASSUME ProductInv, NEW r \in Requests, ShowSaved(r) PROVE ProductInv'
<1> DEFINE q == [request[r] EXCEPT !.kind = "reload", !.pc = "sent"]
<1>1. /\ request[r].kind = "save" /\ request[r].pc = "handled" /\ edit' = Cleared /\ loading' = TRUE
      /\ request' = [request EXCEPT ![r] = q]
      /\ UNCHANGED <<stored, past, changes, cells, focused, dialog, closedEarly, crossed>>
      BY DEF ShowSaved, Returned, OfKind
<1>2. request[r] \in PageRequest /\ Carries(request[r])
      BY <1>1, RequestFacts
<1>3. q \in PageRequest /\ q.kind = "reload" /\ q.pc = "sent" /\ q.product = request[r].product
      BY <1>2 DEF PageRequest
<1> HIDE DEF q
<1>4. /\ request' \in [Requests -> {Nothing} \cup PageRequest]
      /\ request'[r] = q /\ \A s \in Requests : s # r => request'[s] = request[s]
      BY <1>1, <1>3, RequestChanges
<1>5. edit \in EditState /\ edit' \in EditState /\ edit'.change = NoOne /\ ~edit'.asks /\ edit'.saving = edit.saving
      BY <1>1, NothingIsNoRequest DEF Cleared, ProductInv, PageTypeOK, EditState
<1>6. edit.saving /\ edit.change = request[r].change /\ edit.change.new \in past[edit.change.product]
      BY <1>1 DEF ProductInv, OneSaves
<1>7. \A s \in Requests : s # r => request[s].kind \notin {"save", "reload"}
      BY <1>1 DEF ProductInv, OneSaves
<1>8. PricesTypeOK' /\ PageTypeOK'
      BY <1>1, <1>4, <1>5 DEF ProductInv, PricesTypeOK, PageTypeOK
<1>9. RequestsCarry'
      <2>1. Carries(q)
            BY <1>3 DEF Carries
      <2> QED  BY <2>1, <1>1, <1>4 DEF ProductInv, RequestsCarry, Carries
<1>10. EditsCanBeDecided'
      BY <1>5 DEF EditsCanBeDecided
<1>11. CellsAreKnown'
      <2>1. \A p \in Products : Pending(p) => edit.change.new \in past[p]
            BY <1>6 DEF Pending
      <2>2. \A p \in Products : IsReal(p, cells[p].price)
            BY <2>1 DEF ProductInv, CellsAreKnown, IsReal
      <2>3. \A p \in Products : focused.cell = p /\ focused.original # 0 => IsReal(p, focused.original)
            BY <2>1 DEF ProductInv, CellsAreKnown, IsReal
      <2> QED  BY <2>2, <2>3, <1>1, <1>5 DEF CellsAreKnown, IsReal
<1>12. OneSaves'
      BY <1>3, <1>4, <1>5, <1>6, <1>7 DEF OneSaves
<1>13. OneProduct'
      BY <1>1, <1>3, <1>4 DEF ProductInv, OneProduct
<1>14. FlagsFall'
      <2>1. r \in OfKind({"list", "reload"})' /\ r \in OfKind({"save", "reload"})'
            BY <1>3, <1>4 DEF OfKind
      <2>2. dialog.saving => OfKind({"config"})' # {}
            BY <1>1, <1>4 DEF ProductInv, FlagsFall, OfKind
      <2> QED  BY <2>1, <2>2, <1>1 DEF FlagsFall
<1> QED  BY <1>8, <1>9, <1>10, <1>11, <1>12, <1>13, <1>14 DEF ProductInv

LEMMA ShowConfigKeeps == ASSUME ProductInv, NEW r \in Requests, ShowConfig(r) PROVE ProductInv'
<1> DEFINE q == [request[r] EXCEPT !.pc = "settling"]
           p == request[r].product
<1>1. /\ request[r].kind = "config" /\ request[r].pc = "handled" /\ edit' = Detached({p})
      /\ Replace({p}, request[r].seen, TRUE) /\ dialog' = [dialog EXCEPT !.shown = p]
      /\ request' = [request EXCEPT ![r].pc = "settling"]
      /\ UNCHANGED <<stored, past, changes, loading, closedEarly, crossed>>
      BY DEF ShowConfig, Returned, OfKind
<1>2. request[r] \in PageRequest /\ Carries(request[r]) /\ p \in Products
      BY <1>1, RequestFacts DEF Carries
<1>3. q \in PageRequest /\ q.kind = "config" /\ q.pc = "settling" /\ q.product = p /\ q.change = request[r].change /\ q.seen = request[r].seen
      BY <1>1, <1>2 DEF PageRequest
<1>4. request' = [request EXCEPT ![r] = q]
      BY <1>1 DEF ProductInv, PageTypeOK
<1> HIDE DEF q
<1>5. /\ request' \in [Requests -> {Nothing} \cup PageRequest]
      /\ request'[r] = q /\ \A s \in Requests : s # r => request'[s] = request[s]
      BY <1>3, <1>4, RequestChanges
<1>6. /\ edit' \in EditState /\ edit'.change = edit.change /\ edit'.asks = edit.asks /\ edit'.saving = edit.saving
      /\ edit'.attached = (edit.attached /\ edit.change.product \notin {p})
      BY <1>1, DetachedFacts
<1>7. request[r].seen \in Seen /\ (\A o \in Products : request[r].seen[o] \in past[o])
      BY <1>1, <1>2 DEF Carries
<1>8. cells' \in [Products -> Cell] /\ focused' \in Focus /\ CellsAreKnown'
      BY <1>1, <1>2, <1>6, <1>7, ReplaceKeeps
<1>9. /\ dialog' \in DialogState /\ dialog'.open = dialog.open /\ dialog'.id = dialog.id /\ dialog'.shown = p /\ dialog'.saving = dialog.saving
      BY <1>1, <1>2 DEF ProductInv, PageTypeOK, DialogState
<1>10. PricesTypeOK' /\ PageTypeOK'
      BY <1>1, <1>2, <1>5, <1>6, <1>8, <1>9 DEF ProductInv, PricesTypeOK, PageTypeOK
<1>11. RequestsCarry'
      <2>1. Carries(q)
            BY <1>2, <1>3, <1>7 DEF Carries
      <2> QED  BY <2>1, <1>1, <1>5 DEF ProductInv, RequestsCarry, Carries
<1>12. EditsCanBeDecided'
      BY <1>1, <1>6 DEF ProductInv, EditsCanBeDecided
<1>13. OneSaves'
      BY <1>1, <1>3, <1>5, <1>6 DEF ProductInv, OneSaves
<1>14. OneProduct'
      <2>1. crossed \/ p = dialog.id
            BY <1>1 DEF ProductInv, OneProduct
      <2> QED  BY <2>1, <1>1, <1>3, <1>5, <1>9 DEF ProductInv, OneProduct
<1>15. FlagsFall'
      <2>1. \A s \in Requests : request'[s].kind = request[s].kind
            BY <1>1, <1>3, <1>5
      <2> QED  BY <2>1, <1>1, <1>6, <1>9 DEF ProductInv, FlagsFall, OfKind
<1> QED  BY <1>8, <1>10, <1>11, <1>12, <1>13, <1>14, <1>15 DEF ProductInv

LEMMA EndConfigKeeps == ASSUME ProductInv, NEW r \in Requests, EndConfig(r) PROVE ProductInv'
<1>1. /\ request[r].kind = "config" /\ Forget(r) /\ dialog' = [dialog EXCEPT !.open = FALSE, !.saving = FALSE]
      /\ UNCHANGED <<stored, past, changes, cells, focused, edit, loading, closedEarly, crossed>>
      BY DEF EndConfig, OfKind
<1>2. /\ request' \in [Requests -> {Nothing} \cup PageRequest]
      /\ request'[r] = Nothing /\ request'[r].kind = "nothing" /\ \A s \in Requests : s # r => request'[s] = request[s]
      BY <1>1, ForgetFacts
<1>3. dialog' \in DialogState /\ ~dialog'.open /\ ~dialog'.saving /\ dialog'.id = dialog.id /\ dialog'.shown = dialog.shown
      BY <1>1 DEF ProductInv, PageTypeOK, DialogState
<1>4. PricesTypeOK' /\ PageTypeOK'
      BY <1>1, <1>2, <1>3 DEF ProductInv, PricesTypeOK, PageTypeOK
<1>5. RequestsCarry' /\ OneSaves' /\ OneProduct'
      BY <1>1, <1>2, <1>3 DEF ProductInv, RequestsCarry, Carries, OneSaves, OneProduct
<1>6. EditsCanBeDecided' /\ CellsAreKnown'
      BY <1>1 DEF ProductInv, EditsCanBeDecided, CellsAreKnown, IsReal, Pending
<1>7. FlagsFall'
      BY <1>1, <1>2, <1>3 DEF ProductInv, FlagsFall, OfKind
<1> QED  BY <1>4, <1>5, <1>6, <1>7 DEF ProductInv

LEMMA FailAtPageKeeps == ASSUME ProductInv, NEW r \in Requests, FailAtPage(r) PROVE ProductInv'
<1> DEFINE kind == request[r].kind
<1>1. /\ request[r] # Nothing /\ Forget(r)
      /\ loading' = (loading /\ kind \notin {"list", "reload"})
      /\ edit' = [edit EXCEPT !.saving = SavingAfter(kind)] /\ dialog' = [dialog EXCEPT !.saving = @ /\ kind # "config"]
      /\ UNCHANGED <<stored, past, changes, cells, focused, closedEarly, crossed>>
      BY DEF FailAtPage
<1>2. /\ request' \in [Requests -> {Nothing} \cup PageRequest]
      /\ request'[r] = Nothing /\ request'[r].kind = "nothing" /\ \A s \in Requests : s # r => request'[s] = request[s]
      BY <1>1, ForgetFacts
<1> HIDE DEF kind
<1>3. edit' \in EditState /\ edit'.change = edit.change /\ edit'.attached = edit.attached /\ edit'.asks = edit.asks
      /\ edit'.saving = (edit.saving /\ kind \notin {"save", "reload"})
      <2> DEFINE b == edit.saving /\ kind \notin {"save", "reload"}
      <2>1. b \in BOOLEAN /\ edit' = [edit EXCEPT !.saving = b] /\ edit \in EditState /\ b = (edit.saving /\ kind \notin {"save", "reload"})
            BY <1>1 DEF SavingAfter, ProductInv, PageTypeOK, EditState
      <2> HIDE DEF b
      <2> QED  BY <2>1 DEF EditState
<1>4. dialog' \in DialogState /\ dialog'.open = dialog.open /\ dialog'.id = dialog.id /\ dialog'.shown = dialog.shown
      /\ dialog'.saving = (dialog.saving /\ kind # "config")
      <2> DEFINE b == dialog.saving /\ kind # "config"
      <2>1. b \in BOOLEAN /\ dialog' = [dialog EXCEPT !.saving = b] /\ dialog \in DialogState /\ b = (dialog.saving /\ kind # "config")
            BY <1>1 DEF ProductInv, PageTypeOK, DialogState
      <2> HIDE DEF b
      <2> QED  BY <2>1 DEF DialogState
<1>5. PricesTypeOK' /\ PageTypeOK'
      BY <1>1, <1>2, <1>3, <1>4 DEF ProductInv, PricesTypeOK, PageTypeOK
<1>6. RequestsCarry' /\ OneProduct'
      BY <1>1, <1>2, <1>4 DEF ProductInv, RequestsCarry, Carries, OneProduct
<1>7. EditsCanBeDecided' /\ CellsAreKnown'
      BY <1>1, <1>3 DEF ProductInv, EditsCanBeDecided, CellsAreKnown, IsReal, Pending
<1>8. OneSaves'
      <2>1. ASSUME NEW s \in Requests, request'[s].kind \in {"save", "reload"}
            PROVE  edit'.saving
            <3>1. s # r /\ request[s].kind \in {"save", "reload"}
                  BY <2>1, <1>2
            <3>2. edit.saving /\ kind \notin {"save", "reload"}
                  BY <3>1 DEF ProductInv, OneSaves, kind
            <3> QED  BY <3>2, <1>3
      <2>2. \A s, q \in Requests : {request'[s].kind, request'[q].kind} \subseteq {"save", "reload"} => s = q
            BY <1>2 DEF ProductInv, OneSaves
      <2>3. \A s \in Requests : request'[s].kind = "save" =>
              request'[s].change = edit'.change /\ (request'[s].pc = "handled" => edit'.change.new \in past[edit'.change.product])
            BY <1>2, <1>3 DEF ProductInv, OneSaves
      <2> QED  BY <2>1, <2>2, <2>3, <1>1 DEF OneSaves
<1>9. FlagsFall'
      <2>1. \A s \in Requests : request[s].kind # kind => request'[s] = request[s]
            BY <1>2 DEF kind
      <2>2. loading' => OfKind({"list", "reload"})' # {}
            BY <2>1, <1>1 DEF ProductInv, FlagsFall, OfKind
      <2>3. edit'.saving => OfKind({"save", "reload"})' # {}
            BY <2>1, <1>3 DEF ProductInv, FlagsFall, OfKind
      <2>4. dialog'.saving => OfKind({"config"})' # {}
            BY <2>1, <1>4 DEF ProductInv, FlagsFall, OfKind
      <2> QED  BY <2>2, <2>3, <2>4 DEF FlagsFall
<1> QED  BY <1>5, <1>6, <1>7, <1>8, <1>9 DEF ProductInv

LEMMA ProductStep == ProductInv /\ [ScreensNext]_screenVars => ProductInv'
<1> SUFFICES ASSUME ProductInv, [ScreensNext]_screenVars PROVE ProductInv'
    OBVIOUS
<1>1. CASE UNCHANGED productVars
      BY <1>1, ProductUntouched
<1>2. CASE ProductDeskNext
      <2>1. CASE CancelPendingChange \/ CloseConfigDialog \/ PriceChangesElsewhere
            BY <2>1, CancelKeeps, CloseConfigKeeps, ElsewhereKeeps
      <2>2. CASE \E p \in Products : CaptureOriginalValue(p) \/ \E price \in Prices : QueueSkuChange(p, price)
            BY <2>2, CaptureKeeps, QueueKeeps
      <2>3. ASSUME NEW r \in Requests, UsePage(r)
            PROVE  ProductInv'
            BY <2>3, AskStep, ConfirmKeeps, SaveConfigKeeps DEF UsePage
      <2>4. ASSUME NEW r \in Requests, AnswerPage(r)
            PROVE  ProductInv'
            BY <2>4, ServeStep, ShowProductsKeeps, ShowExpandedKeeps, ShowConfigDialogKeeps, ShowSavedKeeps, ShowConfigKeeps,
               EndConfigKeeps, FailAtPageKeeps DEF AnswerPage
      <2> QED  BY <1>2, <2>1, <2>2, <2>3, <2>4 DEF ProductDeskNext
<1> QED  BY <1>1, <1>2 DEF ScreensNext, screenVars

LEMMA ProductIsSound == ProductInv => ProductEditsAreSound
<1> SUFFICES ASSUME ProductInv PROVE ProductEditsAreSound
    OBVIOUS
<1>1. ProductDeskTypeOK
      <2>1. edit \in EditState /\ dialog \in DialogState /\ cells \in [Products -> Cell] /\ loading \in BOOLEAN
            /\ \A p \in Products : stored[p] \in past[p]
            BY DEF ProductInv, PageTypeOK, PricesTypeOK
      <2>2. edit.change = NoOne \/ (edit.change.product \in Products /\ {edit.change.old, edit.change.new} \subseteq Prices)
            BY <2>1 DEF EditState, MaybeChange, Change
      <2>3. {edit.asks, edit.saving, dialog.open, dialog.saving, loading} \subseteq BOOLEAN
            BY <2>1 DEF EditState, DialogState
      <2>4. \A p \in Products : cells[p].price \in Prices
            BY <2>1 DEF Cell
      <2>5. dialog.open => {dialog.id, dialog.shown} \subseteq Products
            BY DEF ProductInv, PageTypeOK
      <2> QED  BY <2>1, <2>2, <2>3, <2>4, <2>5 DEF ProductDeskTypeOK
<1>2. CellsAreTrue
      BY DEF ProductInv, CellsAreKnown, IsReal, Pending, CellsAreTrue
<1>3. ConfigurationsGoHome
      BY DEF ProductInv, OneProduct, ConfigurationsGoHome, OfKind
<1> QED  BY <1>1, <1>2, <1>3 DEF ProductInv, ProductEditsAreSound

(* What the merchant edits on the product page is decided on, shown and saved as it was
   meant, in whatever order answers come or get lost. *)
THEOREM ProductEditsHold == ScreensSpec => []ProductEditsAreSound
<1>1. ScreensInit => ProductInv
      BY ProductInit DEF ScreensInit
<1>2. ProductInv /\ [ScreensNext]_screenVars => ProductInv'
      BY ProductStep
<1>3. ProductInv => ProductEditsAreSound
      BY ProductIsSound
<1> QED  BY <1>1, <1>2, <1>3, PTL DEF ScreensSpec

-----------------------------------------------------------------------------
(* The order screens. *)
DeskState ==
    [rows: Seq(Row), loading: BOOLEAN, detail: Row \cup {None}, open: BOOLEAN, opening: BOOLEAN,
     confirm: Row \cup {None}, saving: Statuses \cup {None}, deleting: BOOLEAN]
ListState ==
    [rows: Seq(Row), page: 1 .. MaxPages, total: 0 .. MaxOrders, more: BOOLEAN, detail: Row \cup {None},
     disturbed: BOOLEAN, repair: Calls \cup {None}]

ScreensTypeOK ==
    /\ status \in Seq(Statuses) /\ Len(status) <= MaxOrders /\ moves \in Nat /\ screen \in {"desk", "customer"}
    /\ desk \in DeskState /\ mine \in ListState /\ call \in [Calls -> {Idle} \cup Call]

(* An order that is shown or asked about exists, and one shown as over is over. *)
OverStatuses == {"COMPLETED", "CANCELLED", "FAILED", "TIMED_OUT", "REFUNDING", "REFUNDED", "DELETED"}
IsTrue(row, orders) ==
    /\ row.id \in DOMAIN orders
    /\ row.status \in OverStatuses => orders[row.id] \in OverStatuses
AreTrue(rows, orders) == \A k \in DOMAIN rows : IsTrue(rows[k], orders)
ShownIsTrue ==
    /\ AreTrue(desk.rows, status) /\ AreTrue(mine.rows, status)
    /\ desk.detail # None => IsTrue(desk.detail, status)
    /\ mine.detail # None => IsTrue(mine.detail, status)
    /\ desk.confirm # None => desk.detail # None

(* What a request asks and what its answer carries. *)
AboutOne == {"detail", "view", "update", "delete"}
AsksOf(where) == IF where = "desk" THEN {"list", "detail", "update", "delete"} ELSE {"show", "more", "view"}
Distinct(rows) == \A j, k \in DOMAIN rows : rows[j].id = rows[k].id => j = k
Asks(q, where, orders) ==
    /\ q.kind \in AsksOf(where)
    /\ q.after # "none" => q.kind = "list"
    /\ q.kind \in AboutOne => q.order \in DOMAIN orders
    /\ q.kind = "update" => q.to \in Statuses /\ q.shown \in Row /\ q.to \in DetailActions(q.shown.status)
    /\ q.kind = "show" => q.page = 1
    /\ q.kind = "more" => q.page \in 2 .. MaxPages
Tells(q, orders) ==
    /\ AreTrue(q.rows, orders) /\ q.total <= MaxOrders
    /\ q.kind \in {"show", "more"} => Distinct(q.rows) /\ Len(q.rows) <= PageSize
    /\ q.kind \in {"detail", "view"} /\ q.pc = "handled" => IsTrue([id |-> q.order, status |-> q.was], orders) /\ q.was \in Statuses
    /\ q.kind = "update" /\ q.pc = "handled" /\ q.ok => IsTrue([id |-> q.order, status |-> q.to], orders)
    /\ q.kind = "delete" /\ q.pc = "handled" /\ q.ok => IsTrue([id |-> q.order, status |-> "DELETED"], orders)
    /\ q.kind = "update" /\ q.pc = "handled" /\ ~q.ok => q.was # q.shown.status \/ (q.to = "PAID" /\ q.order \in Online)
CallsAreTrue == \A c \in Calls : call[c] # Idle => Asks(call[c], screen, status) /\ Tells(call[c], status)

(* One page is loaded at a time, and it is a later one. *)
OneMore ==
    /\ \A c \in Calls : call[c].kind = "more" => mine.more /\ mine.page < call[c].page
    /\ \A c, d \in Calls : call[c].kind = "more" /\ call[d].kind = "more" => c = d
    /\ Len(mine.rows) <= mine.page * PageSize

(* While the shop stands still the pages fit together. *)
Now == Newest(Matching(None))
FirstPages(rows, page) == SubSeq(rows, 1, IF page * PageSize < Len(rows) THEN page * PageSize ELSE Len(rows))
NotLoaded == mine.rows = <<>> /\ mine.total = 0 /\ ~mine.more
PagesFit ==
    /\ screen = "desk" => NotLoaded
    /\ ~mine.disturbed => NotLoaded \/ mine.rows = FirstPages(Now, mine.page)
    /\ ~mine.disturbed => \A c \in Calls : call[c].kind = "more" => call[c].page = mine.page + 1
    /\ ~mine.disturbed \/ mine.repair # None =>
         \A c \in Calls : call[c].kind \in {"show", "more"} /\ call[c].pc = "handled" => call[c].rows = PageOf(Now, call[c].page)

OrdersInv ==
    /\ ScreensTypeOK /\ ShownIsTrue /\ CallsAreTrue /\ SpinnersStop
    /\ NoOrderTwice /\ OneMore /\ PagesFit

(* The positions at or before a position, and what Nth finds: the k-th position, in order. *)
Upto(positions, i) == {j \in positions : j <= i}

LEMMA PositionsAreFinite ==
    ASSUME NEW n \in Nat, NEW positions \in SUBSET (1 .. n)
    PROVE  IsFiniteSet(positions) /\ Cardinality(positions) \in 0 .. n
<1>1. IsFiniteSet(1 .. n) /\ Cardinality(1 .. n) = n
      BY FS_Interval
<1>2. IsFiniteSet(positions) /\ Cardinality(positions) <= n
      BY <1>1, FS_Subset
<1> QED  BY <1>2, FS_CardinalityType

LEMMA UptoGrows ==
    ASSUME NEW n \in Nat, NEW positions \in SUBSET (1 .. n), NEW i \in positions, NEW j \in positions, i < j
    PROVE  Cardinality(Upto(positions, i)) < Cardinality(Upto(positions, j))
<1>1. Upto(positions, i) \in SUBSET Upto(positions, j) /\ Upto(positions, j) \in SUBSET (1 .. n)
      <2>1. \A m \in positions : m \in Nat /\ (m <= i => m <= j)
            OBVIOUS
      <2> QED  BY <2>1 DEF Upto
<1>2. Upto(positions, i) # Upto(positions, j)
      <2>1. i \in Nat /\ j \in Nat
            OBVIOUS
      <2>2. j \in Upto(positions, j) /\ j \notin Upto(positions, i)
            BY <2>1 DEF Upto
      <2> QED  BY <2>2
<1>3. /\ IsFiniteSet(Upto(positions, j)) /\ Cardinality(Upto(positions, j)) \in Nat
      /\ Cardinality(Upto(positions, i)) \in Nat
      BY <1>1, PositionsAreFinite
<1>4. /\ Cardinality(Upto(positions, i)) <= Cardinality(Upto(positions, j))
      /\ Cardinality(Upto(positions, j)) = Cardinality(Upto(positions, i)) => Upto(positions, j) = Upto(positions, i)
      BY <1>1, <1>3, FS_Subset
<1> QED  BY <1>2, <1>3, <1>4

LEMMA NthIsThere ==
    ASSUME NEW n \in Nat, NEW positions \in SUBSET (1 .. n), NEW k \in 1 .. Cardinality(positions)
    PROVE  Nth(positions, k) \in positions /\ Cardinality(Upto(positions, Nth(positions, k))) = k
<1> DEFINE size == Cardinality(positions)
           rank == [i \in positions |-> Cardinality(Upto(positions, i))]
<1>1. IsFiniteSet(positions) /\ size \in Nat
      BY PositionsAreFinite
<1>2. ASSUME NEW i \in positions
      PROVE  Cardinality(Upto(positions, i)) \in 1 .. size
      <2>1. Upto(positions, i) \in SUBSET positions /\ i \in Upto(positions, i)
            BY DEF Upto
      <2>2. IsFiniteSet(Upto(positions, i)) /\ Cardinality(Upto(positions, i)) <= size
            BY <1>1, <2>1, FS_Subset
      <2>3. Cardinality(Upto(positions, i)) \in Nat /\ Cardinality(Upto(positions, i)) # 0
            BY <2>1, <2>2, FS_CardinalityType, FS_EmptySet
      <2> QED  BY <1>1, <2>2, <2>3
<1>3. rank \in [positions -> 1 .. size]
      BY <1>2
<1>4. \A i, j \in positions : rank[i] = rank[j] => i = j
      <2> SUFFICES ASSUME NEW i \in positions, NEW j \in positions, i # j PROVE rank[i] # rank[j]
          OBVIOUS
      <2>1. i < j \/ j < i
            OBVIOUS
      <2>2. Cardinality(Upto(positions, i)) \in Nat /\ Cardinality(Upto(positions, j)) \in Nat
            BY <1>1, <1>2
      <2>3. CASE i < j
            <3>1. Cardinality(Upto(positions, i)) < Cardinality(Upto(positions, j))
                  BY <2>3, UptoGrows
            <3> QED  BY <2>2, <3>1
      <2>4. CASE j < i
            <3>1. Cardinality(Upto(positions, j)) < Cardinality(Upto(positions, i))
                  BY <2>4, UptoGrows
            <3> QED  BY <2>2, <3>1
      <2> QED  BY <2>1, <2>3, <2>4
<1>5. rank \in Injection(positions, 1 .. size)
      BY <1>3, <1>4 DEF Injection, IsInjective
<1>6. IsFiniteSet(1 .. size) /\ Cardinality(1 .. size) = size
      BY <1>1, FS_Interval
<1>7. rank \in Surjection(positions, 1 .. size)
      BY <1>5, <1>6, FS_Injection
<1>8. \E i \in positions : rank[i] = k
      BY <1>7 DEF Surjection
<1>9. \E i \in positions : Cardinality({j \in positions : j <= i}) = k
      BY <1>8 DEF Upto
<1> QED  BY <1>9 DEF Nth, Upto

LEMMA NthGrows ==
    ASSUME NEW n \in Nat, NEW positions \in SUBSET (1 .. n), NEW k \in 1 .. Cardinality(positions), NEW l \in 1 .. Cardinality(positions), k < l
    PROVE  Nth(positions, k) < Nth(positions, l)
<1>1. Nth(positions, k) \in positions /\ Nth(positions, l) \in positions
      BY NthIsThere
<1>2. Cardinality(Upto(positions, Nth(positions, k))) = k /\ Cardinality(Upto(positions, Nth(positions, l))) = l
      BY NthIsThere
<1>3. ~(Nth(positions, l) < Nth(positions, k))
      <2> SUFFICES ASSUME Nth(positions, l) < Nth(positions, k) PROVE FALSE
          OBVIOUS
      <2>1. l < k
            BY <1>1, <1>2, UptoGrows
      <2> QED  BY <2>1, PositionsAreFinite
<1>4. Nth(positions, l) # Nth(positions, k)
      BY <1>2, PositionsAreFinite
<1> DEFINE a == Nth(positions, k)
           b == Nth(positions, l)
<1>5. a \in Nat /\ b \in Nat /\ ~(b < a) /\ b # a
      <2>1. a \in positions /\ b \in positions
            BY <1>1
      <2>2. ~(b < a) /\ b # a
            BY <1>3, <1>4
      <2> HIDE DEF a, b
      <2> QED  BY <2>1, <2>2
<1> HIDE DEF a, b
<1>6. a < b
      BY <1>5
<1> QED  BY <1>6 DEF a, b

(* What Only keeps of a sequence, and that it keeps all of it. *)
LEMMA OnlyFacts ==
    ASSUME NEW S, NEW rows \in Seq(S), NEW positions \in SUBSET DOMAIN rows
    PROVE  /\ Only(rows, positions) \in Seq(S) /\ Len(Only(rows, positions)) = Cardinality(positions)
           /\ Cardinality(positions) \in 0 .. Len(rows)
           /\ \A k \in 1 .. Cardinality(positions) : Nth(positions, k) \in positions /\ Only(rows, positions)[k] = rows[Nth(positions, k)]
           /\ \A k, l \in 1 .. Cardinality(positions) : Nth(positions, k) = Nth(positions, l) => k = l
<1>1. Len(rows) \in Nat /\ DOMAIN rows = 1 .. Len(rows) /\ positions \in SUBSET (1 .. Len(rows))
      BY LenProperties
<1>2. Cardinality(positions) \in 0 .. Len(rows)
      BY <1>1, PositionsAreFinite
<1>3. \A k \in 1 .. Cardinality(positions) : Nth(positions, k) \in positions
      BY <1>1, NthIsThere
<1>4. \A k \in 1 .. Cardinality(positions) : rows[Nth(positions, k)] \in S
      BY <1>1, <1>3, ElementOfSeq
<1>5. Only(rows, positions) \in [1 .. Cardinality(positions) -> S]
      BY <1>4 DEF Only
<1>6. Only(rows, positions) \in Seq(S) /\ Len(Only(rows, positions)) = Cardinality(positions)
      BY <1>2, <1>5
<1>7. ASSUME NEW k \in 1 .. Cardinality(positions), NEW l \in 1 .. Cardinality(positions), Nth(positions, k) = Nth(positions, l)
      PROVE  k = l
      <2>1. k < l \/ l < k \/ k = l
            BY <1>2
      <2>2. Nth(positions, k) \in 1 .. Len(rows)
            BY <1>1, <1>3
      <2>3. ~(Nth(positions, k) < Nth(positions, k))
            BY <2>2
      <2> QED  BY <1>1, <1>7, <2>1, <2>3, NthGrows
<1> QED  BY <1>2, <1>3, <1>6, <1>7 DEF Only

LEMMA OnlyAll ==
    ASSUME NEW S, NEW rows \in Seq(S)
    PROVE  Only(rows, DOMAIN rows) = rows
<1> DEFINE n == Len(rows)
<1>1. n \in Nat /\ DOMAIN rows = 1 .. n /\ Cardinality(1 .. n) = n
      <2>1. n \in Nat /\ DOMAIN rows = 1 .. n
            BY LenProperties
      <2> QED  BY <2>1, FS_Interval
<1>2. ASSUME NEW k \in 1 .. n
      PROVE  Nth(1 .. n, k) = k
      <2>1. Nth(1 .. n, k) \in 1 .. n /\ Cardinality(Upto(1 .. n, Nth(1 .. n, k))) = k
            BY <1>1, NthIsThere
      <2>2. Upto(1 .. n, Nth(1 .. n, k)) = 1 .. Nth(1 .. n, k)
            BY <1>1, <2>1 DEF Upto
      <2>3. Cardinality(1 .. Nth(1 .. n, k)) = Nth(1 .. n, k)
            BY <2>1, FS_Interval
      <2> QED  BY <2>1, <2>2, <2>3
<1>3. Only(rows, DOMAIN rows) = [k \in 1 .. n |-> rows[k]]
      BY <1>1, <1>2 DEF Only
<1> QED  BY <1>1, <1>3

-----------------------------------------------------------------------------
(* Facts about the orders that are listed. *)
LEMMA NewestFacts ==
    ASSUME status \in Seq(Statuses), Len(status) <= MaxOrders, NEW ids
    PROVE  /\ Newest(ids) \in Seq(Row) /\ Len(Newest(ids)) <= Len(status)
           /\ Distinct(Newest(ids)) /\ AreTrue(Newest(ids), status)
<1> DEFINE n == Len(status)
           all == [k \in Ids |-> Shown(n + 1 - k)]
           positions == {k \in Ids : n + 1 - k \in ids}
<1>1. n \in Nat /\ Ids = 1 .. n /\ \A o \in Ids : status[o] \in Statuses
      BY LenProperties, ElementOfSeq DEF Ids
<1>0. n <= MaxOrders /\ MaxOrders \in Nat
      BY OrderViewsAssumption
<1>2. \A k \in Ids : n + 1 - k \in Ids /\ Shown(n + 1 - k) \in Row /\ IsTrue(Shown(n + 1 - k), status)
      <2> SUFFICES ASSUME NEW k \in Ids PROVE n + 1 - k \in Ids /\ Shown(n + 1 - k) \in Row /\ IsTrue(Shown(n + 1 - k), status)
          OBVIOUS
      <2> DEFINE o == n + 1 - k
      <2>1. o \in Ids /\ o \in 1 .. MaxOrders
            <3> HIDE DEF n
            <3>1. k \in 1 .. n
                  BY <1>1
            <3>2. n + 1 - k \in 1 .. n
                  BY <1>1, <3>1
            <3> QED  BY <1>0, <1>1, <3>2
      <2> HIDE DEF o
      <2>2. Shown(o) \in Row
            <3>1. status[o] \in Statuses
                  BY <1>1, <2>1
            <3> QED  BY <2>1, <3>1 DEF Shown, Row
      <2>3. Shown(o).id = o /\ Shown(o).status = status[o]
            BY DEF Shown
      <2>4. IsTrue(Shown(o), status)
            BY <2>1, <2>3 DEF IsTrue, Ids
      <2> QED  BY <2>1, <2>2, <2>4 DEF o
<1>3. all \in Seq(Row) /\ Len(all) = n /\ DOMAIN all = Ids /\ positions \in SUBSET DOMAIN all
      BY <1>1, <1>2
<1>4. \A k \in Ids : all[k] = Shown(n + 1 - k) /\ all[k].id = n + 1 - k /\ IsTrue(all[k], status)
      BY <1>2 DEF Shown
<1>5. Newest(ids) = Only(all, positions)
      BY DEF Newest
<1> HIDE DEF all, positions
<1>6. /\ Newest(ids) \in Seq(Row) /\ Len(Newest(ids)) = Cardinality(positions) /\ Cardinality(positions) \in 0 .. n
      /\ \A k \in 1 .. Cardinality(positions) : Nth(positions, k) \in positions /\ Newest(ids)[k] = all[Nth(positions, k)]
      /\ \A k, l \in 1 .. Cardinality(positions) : Nth(positions, k) = Nth(positions, l) => k = l
      BY <1>3, <1>5, OnlyFacts
<1>7. DOMAIN Newest(ids) = 1 .. Cardinality(positions)
      BY <1>6, LenProperties
<1>8. \A k \in DOMAIN Newest(ids) : Nth(positions, k) \in Ids /\ Newest(ids)[k] = all[Nth(positions, k)]
      BY <1>3, <1>6, <1>7
<1>9. AreTrue(Newest(ids), status)
      BY <1>4, <1>8 DEF AreTrue
<1>10. Distinct(Newest(ids))
       <2> SUFFICES ASSUME NEW j \in DOMAIN Newest(ids), NEW k \in DOMAIN Newest(ids), Newest(ids)[j].id = Newest(ids)[k].id PROVE j = k
           BY DEF Distinct
       <2>1. n + 1 - Nth(positions, j) = n + 1 - Nth(positions, k)
             BY <1>4, <1>8
       <2>2. Nth(positions, j) \in Int /\ Nth(positions, k) \in Int
             BY <1>1, <1>8
       <2>3. Nth(positions, j) = Nth(positions, k)
             BY <1>1, <2>1, <2>2
       <2> QED  BY <1>6, <1>7, <2>3
<1> QED  BY <1>1, <1>6, <1>9, <1>10

LEMMA NowStays == status' = status => Now' = Now
<1> SUFFICES ASSUME status' = status PROVE Now' = Now
    OBVIOUS
<1>1. Ids' = Ids /\ Matching(None)' = Matching(None) /\ \A k : Shown(k)' = Shown(k)
      BY DEF Ids, Matching, Shown
<1> QED  BY <1>1 DEF Now, Newest, Ids, Matching, Shown

LEMMA PageArithmetic ==
    ASSUME NEW page \in Nat \ {0}
    PROVE  /\ PageSize \in Nat \ {0} /\ page * PageSize \in Nat /\ (page - 1) * PageSize \in Nat
           /\ page * PageSize = (page - 1) * PageSize + PageSize
           /\ (page + 1) * PageSize = page * PageSize + PageSize
           /\ PageSize <= page * PageSize
BY OrderViewsAssumption

LEMMA PageFacts ==
    ASSUME NEW rows \in Seq(Row), NEW page \in Nat \ {0}
    PROVE  /\ PageOf(rows, page) \in Seq(Row) /\ Len(PageOf(rows, page)) <= PageSize
           /\ Distinct(rows) => Distinct(PageOf(rows, page))
           /\ AreTrue(rows, status) => AreTrue(PageOf(rows, page), status)
           /\ DOMAIN PageOf(rows, page) = 1 .. Len(PageOf(rows, page))
           /\ \A k \in DOMAIN PageOf(rows, page) : (page - 1) * PageSize + k \in DOMAIN rows /\ PageOf(rows, page)[k] = rows[(page - 1) * PageSize + k]
           /\ Len(PageOf(rows, page)) = IF page * PageSize <= Len(rows) THEN PageSize
                                        ELSE IF (page - 1) * PageSize <= Len(rows) THEN Len(rows) - (page - 1) * PageSize ELSE 0
<1> DEFINE size == PageSize
           before == (page - 1) * PageSize
           upto == page * PageSize
           n == Len(rows)
           last == IF upto < n THEN upto ELSE n
           part == SubSeq(rows, before + 1, last)
<1>1. before \in Nat /\ upto \in Nat /\ size \in Nat \ {0} /\ upto = before + size /\ n \in Nat /\ DOMAIN rows = 1 .. n
      BY PageArithmetic, LenProperties
<1>2. PageOf(rows, page) = part
      BY DEF PageOf
<1> HIDE DEF size, before, upto, n
<1>3. last \in 0 .. n /\ last <= upto /\ (last # 0 => last \in 1 .. n)
      BY <1>1
<1>4. \A i \in before + 1 .. last : i \in 1 .. n
      BY <1>1, <1>3
<1>5. \A i \in before + 1 .. last : rows[i] \in Row
      BY <1>1, <1>4, ElementOfSeq
<1>6. /\ part \in Seq(Row)
      /\ Len(part) = (IF before + 1 <= last THEN last - before ELSE 0)
      /\ \A i \in 1 .. Len(part) : part[i] = rows[before + i]
      <2> HIDE DEF last
      <2>1. \A i \in before + 1 .. last : rows[i] \in Row
            BY <1>5
      <2>2. part \in Seq(Row) /\ Len(part) = (IF before + 1 <= last THEN last - (before + 1) + 1 ELSE 0)
            BY <1>1, <1>3, <2>1, SubSeqProperties
      <2>3. \A i \in 1 .. Len(part) : part[i] = rows[before + 1 + i - 1]
            BY <1>1, <1>3, <2>1, SubSeqProperties
      <2>4. \A i \in 1 .. Len(part) : before + 1 + i - 1 = before + i
            BY <1>1, <1>3, <2>2
      <2> QED  BY <1>1, <1>3, <2>2, <2>3, <2>4
<1>7. Len(part) \in Nat /\ DOMAIN part = 1 .. Len(part)
      BY <1>6, LenProperties
<1>8. Len(part) = IF upto <= n THEN size ELSE IF before <= n THEN n - before ELSE 0
      BY <1>1, <1>6
<1>9. Len(part) <= size
      BY <1>1, <1>8
<1>10. \A k \in DOMAIN part : before + k \in DOMAIN rows /\ part[k] = rows[before + k]
       BY <1>1, <1>3, <1>6, <1>7
<1> HIDE DEF part
<1>11. Distinct(rows) => Distinct(part)
       <2> SUFFICES ASSUME Distinct(rows), NEW j \in DOMAIN part, NEW k \in DOMAIN part, part[j].id = part[k].id PROVE j = k
           BY DEF Distinct
       <2>1. before + j = before + k
             BY <1>10 DEF Distinct
       <2> QED  BY <1>1, <1>7, <2>1
<1>12. AreTrue(rows, status) => AreTrue(part, status)
       BY <1>10 DEF AreTrue
<1> QED  BY <1>2, <1>6, <1>7, <1>8, <1>9, <1>10, <1>11, <1>12 DEF size, before, upto, n

LEMMA AddedFacts ==
    ASSUME NEW rows \in Seq(Row)
    PROVE  /\ Added(rows) \in Seq(Row) /\ Len(Added(rows)) <= Len(rows)
           /\ Distinct(rows) => Distinct(Added(rows))
           /\ \A k \in DOMAIN Added(rows) : Added(rows)[k].id \notin Known
           /\ AreTrue(rows, status) => AreTrue(Added(rows), status)
           /\ (\A k \in DOMAIN rows : rows[k].id \notin Known) => Added(rows) = rows
<1> DEFINE positions == {k \in DOMAIN rows : rows[k].id \notin Known}
           kept == Only(rows, positions)
<1>1. Added(rows) = kept
      BY DEF Added
<1>2. positions \in SUBSET DOMAIN rows
      OBVIOUS
<1>3. \A k \in positions : k \in DOMAIN rows /\ rows[k].id \notin Known
      OBVIOUS
<1>4. (\A k \in DOMAIN rows : rows[k].id \notin Known) => positions = DOMAIN rows
      OBVIOUS
<1> HIDE DEF positions
<1>5. /\ kept \in Seq(Row) /\ Len(kept) = Cardinality(positions) /\ Cardinality(positions) \in 0 .. Len(rows)
      /\ \A k \in 1 .. Cardinality(positions) : Nth(positions, k) \in positions /\ kept[k] = rows[Nth(positions, k)]
      /\ \A k, l \in 1 .. Cardinality(positions) : Nth(positions, k) = Nth(positions, l) => k = l
      BY <1>2, OnlyFacts
<1>6. positions = DOMAIN rows => kept = rows
      BY OnlyAll
<1> HIDE DEF kept
<1>7. DOMAIN kept = 1 .. Cardinality(positions) /\ Len(kept) <= Len(rows)
      BY <1>5, LenProperties
<1>8. \A k \in DOMAIN kept : Nth(positions, k) \in positions /\ kept[k] = rows[Nth(positions, k)]
      BY <1>5, <1>7
<1>9. Distinct(rows) => Distinct(kept)
      BY <1>3, <1>5, <1>7, <1>8 DEF Distinct
<1>10. AreTrue(rows, status) => AreTrue(kept, status)
       BY <1>3, <1>8 DEF AreTrue
<1>11. \A k \in DOMAIN kept : kept[k].id \notin Known
       BY <1>3, <1>8
<1> QED  BY <1>1, <1>4, <1>5, <1>6, <1>7, <1>9, <1>10, <1>11

-----------------------------------------------------------------------------
(* Requests that are sent, served, answered and lost. *)
LEMMA IdleFacts ==
    /\ Idle.kind = "none" /\ Idle \notin Call
    /\ \A q \in Call : q # Idle /\ q.kind # "none"
BY DEF Idle, Call, Kinds

LEMMA NoneIsNoRow == None \notin Row
BY OrderViewsAssumption DEF Row

(* A request as it is sent. *)
IsRequest(q, kind, order, to, page, shown, after) ==
    /\ q \in Call /\ q # Idle /\ q.kind = kind /\ q.order = order /\ q.to = to /\ q.page = page /\ q.shown = shown /\ q.after = after
    /\ q.pc = "sent" /\ q.ok /\ q.rows = <<>> /\ q.total = 0

LEMMA OrderRequestFacts ==
    ASSUME NEW kind \in Kinds, NEW order \in 0 .. MaxOrders
    PROVE  IsRequest(Request(kind, order), kind, order, None, 1, None, "none")
<1> DEFINE q == Request(kind, order)
<1>1. <<>> \in Seq(Row)
      BY EmptySeq
<1>2. q \in Call
      BY <1>1 DEF Request, Call
<1>3. q.kind = kind /\ q.order = order /\ q.to = None /\ q.page = 1 /\ q.shown = None /\ q.after = "none" /\ q.pc = "sent" /\ q.ok /\ q.rows = <<>> /\ q.total = 0
      BY DEF Request
<1> HIDE DEF q
<1> QED  BY <1>2, <1>3, IdleFacts DEF IsRequest, q

(* The parts of a request that are set after. *)
LEMMA RequestWith ==
    ASSUME NEW q \in Call, NEW kind, NEW order, NEW to \in Statuses \cup {None}, NEW page \in Nat, NEW shown \in Row \cup {None},
           IsRequest(q, kind, order, None, 1, None, "none")
    PROVE  /\ IsRequest([q EXCEPT !.to = to], kind, order, to, 1, None, "none")
           /\ IsRequest([q EXCEPT !.page = page], kind, order, None, page, None, "none")
           /\ IsRequest([q EXCEPT !.shown = shown], kind, order, None, 1, shown, "none")
           /\ IsRequest([q EXCEPT !.to = to, !.shown = shown], kind, order, to, 1, shown, "none")
<1>0. q.kind = kind /\ q.order = order /\ q.to = None /\ q.page = 1 /\ q.shown = None /\ q.after = "none" /\ q.pc = "sent" /\ q.ok /\ q.rows = <<>> /\ q.total = 0
      BY DEF IsRequest
<1>1. IsRequest([q EXCEPT !.to = to], kind, order, to, 1, None, "none")
      <2> DEFINE r == [q EXCEPT !.to = to]
      <2>1. r \in Call
            BY DEF Call
      <2>2. r.kind = kind /\ r.order = order /\ r.to = to /\ r.page = 1 /\ r.shown = None /\ r.after = "none" /\ r.pc = "sent" /\ r.ok /\ r.rows = <<>> /\ r.total = 0
            BY <1>0 DEF Call
      <2> HIDE DEF r
      <2> QED  BY <2>1, <2>2, IdleFacts DEF IsRequest, r
<1>2. IsRequest([q EXCEPT !.page = page], kind, order, None, page, None, "none")
      <2> DEFINE r == [q EXCEPT !.page = page]
      <2>1. r \in Call
            BY DEF Call
      <2>2. r.kind = kind /\ r.order = order /\ r.to = None /\ r.page = page /\ r.shown = None /\ r.after = "none" /\ r.pc = "sent" /\ r.ok /\ r.rows = <<>> /\ r.total = 0
            BY <1>0 DEF Call
      <2> HIDE DEF r
      <2> QED  BY <2>1, <2>2, IdleFacts DEF IsRequest, r
<1>3. IsRequest([q EXCEPT !.shown = shown], kind, order, None, 1, shown, "none")
      <2> DEFINE r == [q EXCEPT !.shown = shown]
      <2>1. r \in Call
            BY DEF Call
      <2>2. r.kind = kind /\ r.order = order /\ r.to = None /\ r.page = 1 /\ r.shown = shown /\ r.after = "none" /\ r.pc = "sent" /\ r.ok /\ r.rows = <<>> /\ r.total = 0
            BY <1>0 DEF Call
      <2> HIDE DEF r
      <2> QED  BY <2>1, <2>2, IdleFacts DEF IsRequest, r
<1>4. IsRequest([q EXCEPT !.to = to, !.shown = shown], kind, order, to, 1, shown, "none")
      <2> DEFINE r == [q EXCEPT !.to = to, !.shown = shown]
      <2>1. r \in Call
            BY DEF Call
      <2>2. r.kind = kind /\ r.order = order /\ r.to = to /\ r.page = 1 /\ r.shown = shown /\ r.after = "none" /\ r.pc = "sent" /\ r.ok /\ r.rows = <<>> /\ r.total = 0
            BY <1>0 DEF Call
      <2> HIDE DEF r
      <2> QED  BY <2>1, <2>2, IdleFacts DEF IsRequest, r
<1> QED  BY <1>1, <1>2, <1>3, <1>4

LEMMA RequestAfter ==
    \A q \in Call, to \in Statuses \cup {None}, then \in {"none", "update", "delete"} : \A kind, order :
        IsRequest(q, kind, order, None, 1, None, "none") => IsRequest([q EXCEPT !.to = to, !.after = then], kind, order, to, 1, None, then)
<1> SUFFICES ASSUME NEW q \in Call, NEW to \in Statuses \cup {None}, NEW then \in {"none", "update", "delete"}, NEW kind, NEW order,
                    IsRequest(q, kind, order, None, 1, None, "none")
             PROVE  IsRequest([q EXCEPT !.to = to, !.after = then], kind, order, to, 1, None, then)
    OBVIOUS
<1>1. q.kind = kind /\ q.order = order /\ q.to = None /\ q.page = 1 /\ q.shown = None /\ q.after = "none" /\ q.pc = "sent" /\ q.ok /\ q.rows = <<>> /\ q.total = 0
      BY DEF IsRequest
<1> DEFINE r == [q EXCEPT !.to = to, !.after = then]
<1>2. r \in Call
      BY DEF Call
<1>3. r.kind = kind /\ r.order = order /\ r.to = to /\ r.page = 1 /\ r.shown = None /\ r.after = then /\ r.pc = "sent" /\ r.ok /\ r.rows = <<>> /\ r.total = 0
      BY <1>1 DEF Call
<1> HIDE DEF r
<1> QED  BY <1>2, <1>3, IdleFacts DEF IsRequest, r

(* One request changes and the others stay. *)
Replaced(c, q) == call' = [call EXCEPT ![c] = q]
LEMMA ReplacedFacts ==
    ASSUME ScreensTypeOK, NEW c \in Calls, NEW q \in {Idle} \cup Call, Replaced(c, q)
    PROVE  /\ call' \in [Calls -> {Idle} \cup Call] /\ call'[c] = q
           /\ \A d \in Calls : d # c => call'[d] = call[d]
BY DEF ScreensTypeOK, Replaced

LEMMA SentIs == ASSUME NEW c, NEW q, Send(c, q) PROVE Replaced(c, q) /\ call[c] = Idle
BY DEF Send, Replaced

LEMMA EndedIs == ASSUME NEW c, Ended(c) PROVE Replaced(c, Idle)
BY DEF Ended, Replaced

LEMMA CallFacts ==
    ASSUME OrdersInv, NEW c \in Calls, call[c] # Idle
    PROVE  call[c] \in Call /\ Asks(call[c], screen, status) /\ Tells(call[c], status)
BY DEF OrdersInv, ScreensTypeOK, CallsAreTrue

(* Orders come into being and none vanishes; what is over stays over. *)
Grows(before, after) ==
    /\ DOMAIN before \subseteq DOMAIN after
    /\ \A o \in DOMAIN before : before[o] \in OverStatuses => after[o] \in OverStatuses

LEMMA TruthStays ==
    ASSUME NEW before, NEW after, Grows(before, after)
    PROVE  /\ \A row : IsTrue(row, before) => IsTrue(row, after)
           /\ \A rows : AreTrue(rows, before) => AreTrue(rows, after)
           /\ \A q, where : Asks(q, where, before) => Asks(q, where, after)
           /\ \A q : Tells(q, before) => Tells(q, after)
<1>1. \A row : IsTrue(row, before) => IsTrue(row, after)
      BY DEF Grows, IsTrue
<1>2. \A rows : AreTrue(rows, before) => AreTrue(rows, after)
      BY <1>1 DEF AreTrue
<1>3. \A q, where : Asks(q, where, before) => Asks(q, where, after)
      BY DEF Asks, Grows
<1>4. ASSUME NEW q, Tells(q, before)
      PROVE  Tells(q, after)
      BY <1>1, <1>2, <1>4 DEF Tells
<1> QED  BY <1>1, <1>2, <1>3, <1>4

LEMMA StillGrows == Grows(status, status)
BY DEF Grows

LEMMA CallsStay ==
    ASSUME OrdersInv, NEW c \in Calls, NEW q \in {Idle} \cup Call, Replaced(c, q), screen' = screen, Grows(status, status'),
           q # Idle => Asks(q, screen, status') /\ Tells(q, status')
    PROVE  CallsAreTrue' /\ call' \in [Calls -> {Idle} \cup Call]
<1>1. ScreensTypeOK
      BY DEF OrdersInv
<1>2. call' \in [Calls -> {Idle} \cup Call] /\ call'[c] = q /\ \A d \in Calls : d # c => call'[d] = call[d]
      BY <1>1, ReplacedFacts
<1>3. ASSUME NEW d \in Calls, call'[d] # Idle
      PROVE  Asks(call'[d], screen', status') /\ Tells(call'[d], status')
      <2>1. CASE d = c
            BY <1>2, <1>3, <2>1
      <2>2. CASE d # c
            <3>1. call'[d] = call[d] /\ Asks(call[d], screen, status) /\ Tells(call[d], status)
                  BY <1>2, <1>3, <2>2, CallFacts
            <3> QED  BY <3>1, TruthStays
      <2> QED  BY <2>1, <2>2
<1> QED  BY <1>2, <1>3 DEF CallsAreTrue

LEMMA CallsAreLeft ==
    ASSUME OrdersInv, call' = call, screen' = screen, Grows(status, status')
    PROVE  CallsAreTrue'
<1>1. ASSUME NEW d \in Calls, call[d] # Idle
      PROVE  Asks(call[d], screen, status') /\ Tells(call[d], status')
      BY <1>1, CallFacts, TruthStays
<1> QED  BY <1>1 DEF CallsAreTrue

(* What is asked for is what the screen asks, of an order there is. *)
LEMMA AskedIsFine ==
    ASSUME OrdersInv, NEW q, NEW kind \in AsksOf(screen), NEW order, NEW to, NEW page, NEW shown, NEW after, IsRequest(q, kind, order, to, page, shown, after),
           kind \in AboutOne => order \in Ids, after # "none" => kind = "list",
           kind = "update" => to \in Statuses /\ shown \in Row /\ to \in DetailActions(shown.status),
           kind = "show" => page = 1, kind = "more" => page \in 2 .. MaxPages
    PROVE  Asks(q, screen, status) /\ Tells(q, status)
<1>1. Asks(q, screen, status)
      BY DEF Asks, IsRequest, Ids
<1>2. MaxOrders \in Nat /\ PageSize \in Nat
      BY OrderViewsAssumption
<1>3. Len(q.rows) = 0 /\ DOMAIN q.rows = {} /\ q.total = 0 /\ q.pc = "sent"
      <2>1. q.rows = <<>> /\ q.total = 0 /\ q.pc = "sent"
            BY DEF IsRequest
      <2> QED  BY <2>1
<1>4. Tells(q, status)
      BY <1>2, <1>3 DEF Tells, AreTrue, Distinct
<1> QED  BY <1>1, <1>4

-----------------------------------------------------------------------------
(* Statuses. *)
LEMMA OverIsOver ==
    ASSUME NEW s \in Statuses, NEW t, t \in EditableTransitions(s) \/ (t = "DELETED" /\ s \in DeletableStatuses)
    PROVE  t \in Statuses /\ (s \in OverStatuses => t \in OverStatuses)
BY DEF Statuses, EditableTransitions, DeletableStatuses, OverStatuses

LEMMA OffersAreAccepted == ASSUME NEW s \in Statuses PROVE DetailActions(s) \subseteq EditableTransitions(s) /\ DetailActions(s) \subseteq Statuses
BY DEF Statuses, DetailActions, EditableTransitions

LEMMA HistoryIsOfTheOver == ASSUME NEW s \in Statuses, StatusMap(s) \in HistoryStatuses PROVE s \in OverStatuses
BY DEF Statuses, StatusMap, HistoryStatuses, OverStatuses

LEMMA StatusTypes == ScreensTypeOK => /\ Len(status) \in 0 .. MaxOrders /\ Ids = 1 .. Len(status) /\ Ids \subseteq 1 .. MaxOrders
                                      /\ \A o \in Ids : status[o] \in Statuses
<1> SUFFICES ASSUME ScreensTypeOK PROVE /\ Len(status) \in 0 .. MaxOrders /\ Ids = 1 .. Len(status) /\ Ids \subseteq 1 .. MaxOrders
                                        /\ \A o \in Ids : status[o] \in Statuses
    OBVIOUS
<1>1. status \in Seq(Statuses) /\ Len(status) <= MaxOrders /\ MaxOrders \in Nat
      BY OrderViewsAssumption DEF ScreensTypeOK
<1>2. Len(status) \in Nat /\ Ids = 1 .. Len(status) /\ \A o \in Ids : status[o] \in Statuses
      BY <1>1, LenProperties, ElementOfSeq DEF Ids
<1> QED  BY <1>1, <1>2

(* An order is moved. *)
LEMMA MovedGrows ==
    ASSUME ScreensTypeOK, NEW o \in Ids, NEW s, status' = [status EXCEPT ![o] = s],
           s \in EditableTransitions(status[o]) \/ (s = "DELETED" /\ status[o] \in DeletableStatuses)
    PROVE  status' \in Seq(Statuses) /\ Len(status') <= MaxOrders /\ Grows(status, status')
<1>1. status[o] \in Statuses /\ o \in 1 .. Len(status) /\ status \in Seq(Statuses) /\ Len(status) <= MaxOrders
      BY StatusTypes DEF ScreensTypeOK
<1>2. s \in Statuses /\ (status[o] \in OverStatuses => s \in OverStatuses)
      BY <1>1, OverIsOver
<1>3. status' \in Seq(Statuses) /\ Len(status') = Len(status)
      BY <1>1, <1>2, ExceptSeq
<1>4. DOMAIN status' = DOMAIN status /\ \A i \in DOMAIN status : status'[i] = IF i = o THEN s ELSE status[i]
      OBVIOUS
<1> QED  BY <1>1, <1>2, <1>3, <1>4 DEF Grows

-----------------------------------------------------------------------------
(* The merchant's page: a flag is raised with its request, and falls with it. *)
Keeps(q, kind) == q # Idle /\ (q.kind = kind \/ q.after = kind)
HasReason(up, wasUp, q, was, kind) == up => Keeps(q, kind) \/ (wasUp /\ (Keeps(was, kind) => Keeps(q, kind)))

LEMMA FlagsHaveReasons ==
    ASSUME OrdersInv, NEW c \in Calls, NEW q \in {Idle} \cup Call, Replaced(c, q),
           HasReason(desk'.loading, desk.loading, q, call[c], "list"), HasReason(desk'.opening, desk.opening, q, call[c], "detail"),
           HasReason(desk'.saving # None, desk.saving # None, q, call[c], "update"), HasReason(desk'.deleting, desk.deleting, q, call[c], "delete")
    PROVE  SpinnersStop'
<1>1. call'[c] = q /\ \A d \in Calls : d # c => call'[d] = call[d]
      BY ReplacedFacts DEF OrdersInv
<1>2. /\ desk.loading => \E d \in Calls : Keeps(call[d], "list")
      /\ desk.opening => \E d \in Calls : Keeps(call[d], "detail")
      /\ desk.saving # None => \E d \in Calls : Keeps(call[d], "update")
      /\ desk.deleting => \E d \in Calls : Keeps(call[d], "delete")
      BY DEF OrdersInv, SpinnersStop, Waiting, Keeps
<1>3. ASSUME NEW kind, NEW up, NEW wasUp, wasUp => \E d \in Calls : Keeps(call[d], kind), HasReason(up, wasUp, q, call[c], kind), up
      PROVE  \E d \in Calls : Keeps(call'[d], kind)
      <2>1. CASE Keeps(q, kind)
            BY <1>1, <2>1
      <2>2. CASE wasUp /\ ~Keeps(q, kind)
            <3>1. PICK d \in Calls : Keeps(call[d], kind)
                  BY <1>3, <2>2
            <3>2. d # c
                  BY <1>3, <2>2, <3>1 DEF HasReason
            <3> QED  BY <1>1, <3>1, <3>2
      <2> QED  BY <1>3, <2>1, <2>2 DEF HasReason
<1>4. desk'.loading => \E d \in Calls : Keeps(call'[d], "list")
      BY <1>2, <1>3
<1>5. desk'.opening => \E d \in Calls : Keeps(call'[d], "detail")
      BY <1>2, <1>3
<1>6. desk'.saving # None => \E d \in Calls : Keeps(call'[d], "update")
      BY <1>2, <1>3
<1>7. desk'.deleting => \E d \in Calls : Keeps(call'[d], "delete")
      BY <1>2, <1>3
<1> QED  BY <1>4, <1>5, <1>6, <1>7 DEF SpinnersStop, Waiting, Keeps

(* A request is sent where none was: what spins goes on to spin. *)
LEMMA SentHasReason ==
    ASSUME NEW q, NEW up, NEW wasUp, NEW kind, up => wasUp \/ Keeps(q, kind)
    PROVE  HasReason(up, wasUp, q, Idle, kind)
BY DEF HasReason, Keeps

LEMMA DeskStep ==
    ASSUME OrdersInv, screen = "desk", mine' = mine, screen' = screen, moves' \in Nat,
           status' \in Seq(Statuses), Len(status') <= MaxOrders, Grows(status, status'),
           call' \in [Calls -> {Idle} \cup Call], CallsAreTrue',
           desk' \in DeskState, AreTrue(desk'.rows, status'), desk'.detail # None => IsTrue(desk'.detail, status'),
           desk'.confirm # None => desk'.detail # None, SpinnersStop'
    PROVE  OrdersInv'
<1>1. ScreensTypeOK'
      BY DEF OrdersInv, ScreensTypeOK
<1>2. ShownIsTrue'
      <2>1. AreTrue(mine'.rows, status') /\ (mine'.detail # None => IsTrue(mine'.detail, status'))
            BY TruthStays DEF OrdersInv, ShownIsTrue
      <2> QED  BY <2>1 DEF ShownIsTrue
<1>3. \A c \in Calls : call'[c].kind \notin {"show", "more"}
      <2> SUFFICES ASSUME NEW c \in Calls PROVE call'[c].kind \notin {"show", "more"}
          OBVIOUS
      <2>1. CASE call'[c] = Idle
            BY <2>1, IdleFacts
      <2>2. CASE call'[c] # Idle
            BY <2>2 DEF CallsAreTrue, Asks, AsksOf
      <2> QED  BY <2>1, <2>2
<1>4. NoOrderTwice' /\ OneMore'
      BY <1>3 DEF OrdersInv, NoOrderTwice, OneMore
<1>5. PagesFit'
      <2>1. NotLoaded'
            BY DEF OrdersInv, PagesFit, NotLoaded
      <2> QED  BY <1>3, <2>1 DEF PagesFit
<1> QED  BY <1>1, <1>2, <1>4, <1>5 DEF OrdersInv

(* A step of the page alone or of one request, while no order moves. *)
LEMMA PageStep ==
    ASSUME OrdersInv, AtDesk, moves' \in Nat, NEW c \in Calls, NEW q \in {Idle} \cup Call, Replaced(c, q),
           q # Idle => Asks(q, screen, status) /\ Tells(q, status),
           desk' \in DeskState, AreTrue(desk'.rows, status), desk'.detail # None => IsTrue(desk'.detail, status),
           desk'.confirm # None => desk'.detail # None,
           HasReason(desk'.loading, desk.loading, q, call[c], "list"), HasReason(desk'.opening, desk.opening, q, call[c], "detail"),
           HasReason(desk'.saving # None, desk.saving # None, q, call[c], "update"), HasReason(desk'.deleting, desk.deleting, q, call[c], "delete")
    PROVE  OrdersInv'
<1>1. status' = status /\ mine' = mine /\ screen' = screen /\ screen = "desk"
      BY DEF AtDesk
<1>2. Grows(status, status')
      BY <1>1, StillGrows
<1>3. CallsAreTrue' /\ call' \in [Calls -> {Idle} \cup Call]
      BY <1>1, <1>2, CallsStay
<1>4. SpinnersStop'
      BY FlagsHaveReasons
<1>5. status' \in Seq(Statuses) /\ Len(status') <= MaxOrders
      BY <1>1 DEF OrdersInv, ScreensTypeOK
<1> QED  BY <1>1, <1>2, <1>3, <1>4, <1>5, DeskStep

LEMMA PageAloneStep ==
    ASSUME OrdersInv, AtDesk, UNCHANGED <<moves, call>>, desk' \in DeskState,
           desk'.rows = desk.rows, desk'.detail = desk.detail, desk'.confirm # None => desk.detail # None,
           desk'.loading = desk.loading, desk'.opening = desk.opening, desk'.saving = desk.saving, desk'.deleting = desk.deleting
    PROVE  OrdersInv'
<1>1. status' = status /\ mine' = mine /\ screen' = screen /\ screen = "desk"
      BY DEF AtDesk
<1>2. Grows(status, status')
      BY <1>1, StillGrows
<1>3. CallsAreTrue'
      BY <1>1, <1>2, CallsAreLeft
<1>4. SpinnersStop'
      BY DEF OrdersInv, SpinnersStop, Waiting
<1>5. status' \in Seq(Statuses) /\ Len(status') <= MaxOrders /\ moves' \in Nat /\ call' \in [Calls -> {Idle} \cup Call]
      BY <1>1 DEF OrdersInv, ScreensTypeOK
<1>6. AreTrue(desk'.rows, status') /\ (desk'.detail # None => IsTrue(desk'.detail, status')) /\ (desk'.confirm # None => desk'.detail # None)
      BY <1>1 DEF OrdersInv, ShownIsTrue
<1> QED  BY <1>1, <1>2, <1>3, <1>4, <1>5, <1>6, DeskStep

LEMMA DeskFacts ==
    ASSUME OrdersInv
    PROVE  /\ desk \in DeskState /\ AreTrue(desk.rows, status) /\ (desk.detail # None => desk.detail \in Row /\ IsTrue(desk.detail, status))
           /\ desk.confirm # None => desk.confirm \in Row /\ desk.detail # None
           /\ \A k \in DOMAIN desk.rows : desk.rows[k].id \in Ids
           /\ status \in Seq(Statuses) /\ Len(status) <= MaxOrders /\ moves \in Nat /\ Ids \subseteq 1 .. MaxOrders
<1>1. desk \in DeskState /\ AreTrue(desk.rows, status) /\ (desk.detail # None => IsTrue(desk.detail, status)) /\ (desk.confirm # None => desk.detail # None)
      BY DEF OrdersInv, ScreensTypeOK, ShownIsTrue
<1>2. desk.detail \in Row \cup {None} /\ desk.confirm \in Row \cup {None}
      BY <1>1 DEF DeskState
<1>3. \A k \in DOMAIN desk.rows : desk.rows[k].id \in Ids
      BY <1>1 DEF AreTrue, IsTrue, Ids
<1>4. ScreensTypeOK
      BY DEF OrdersInv
<1>5. status \in Seq(Statuses) /\ Len(status) <= MaxOrders /\ moves \in Nat
      BY <1>4 DEF ScreensTypeOK
<1> QED  BY <1>1, <1>2, <1>3, <1>4, <1>5, StatusTypes

LEMMA DialogKeeps == ASSUME OrdersInv, CloseDialog \/ HandleDeleteOrder \/ CancelDelete PROVE OrdersInv'
<1>0. desk \in DeskState /\ (desk.detail # None => desk.detail \in Row) /\ (desk.confirm # None => desk.detail # None)
      BY DeskFacts
<1>1. CASE CloseDialog
      <2>1. AtDesk /\ UNCHANGED <<moves, call>> /\ desk' = [desk EXCEPT !.open = FALSE]
            BY <1>1 DEF CloseDialog
      <2>2. desk' \in DeskState /\ desk'.rows = desk.rows /\ desk'.detail = desk.detail /\ desk'.confirm = desk.confirm
            /\ desk'.loading = desk.loading /\ desk'.opening = desk.opening /\ desk'.saving = desk.saving /\ desk'.deleting = desk.deleting
            BY <1>0, <2>1 DEF DeskState
      <2> QED  BY <1>0, <2>1, <2>2, PageAloneStep
<1>2. CASE HandleDeleteOrder
      <2>1. AtDesk /\ UNCHANGED <<moves, call>> /\ desk' = [desk EXCEPT !.confirm = desk.detail] /\ desk.detail # None
            BY <1>2 DEF HandleDeleteOrder, Operable
      <2>2. desk' \in DeskState /\ desk'.rows = desk.rows /\ desk'.detail = desk.detail
            /\ desk'.loading = desk.loading /\ desk'.opening = desk.opening /\ desk'.saving = desk.saving /\ desk'.deleting = desk.deleting
            BY <1>0, <2>1 DEF DeskState
      <2> QED  BY <1>0, <2>1, <2>2, PageAloneStep
<1>3. CASE CancelDelete
      <2>1. AtDesk /\ UNCHANGED <<moves, call>> /\ desk' = [desk EXCEPT !.confirm = None]
            BY <1>3 DEF CancelDelete
      <2>2. desk' \in DeskState /\ desk'.rows = desk.rows /\ desk'.detail = desk.detail /\ desk'.confirm = None
            /\ desk'.loading = desk.loading /\ desk'.opening = desk.opening /\ desk'.saving = desk.saving /\ desk'.deleting = desk.deleting
            BY <1>0, <2>1 DEF DeskState
      <2> QED  BY <1>0, <2>1, <2>2, PageAloneStep
<1> QED  BY <1>1, <1>2, <1>3

LEMMA FinishedFacts ==
    ASSUME NEW d \in DeskState, NEW after
    PROVE  LET e == Finished(d, after)
           IN  /\ e \in DeskState /\ e.rows = d.rows /\ e.detail = d.detail /\ e.confirm = d.confirm /\ e.loading = d.loading /\ e.opening = d.opening
               /\ e.saving # None => d.saving # None /\ after # "update"
               /\ e.deleting => d.deleting /\ after # "delete"
<1>1. CASE after = "update"
      BY <1>1 DEF Finished, DeskState
<1>2. CASE after = "delete"
      <2> DEFINE e == [d EXCEPT !.deleting = FALSE]
      <2>1. e \in DeskState /\ e.rows = d.rows /\ e.detail = d.detail /\ e.confirm = d.confirm /\ e.loading = d.loading /\ e.opening = d.opening
            /\ e.saving = d.saving /\ e.deleting = FALSE
            BY DEF DeskState
      <2> QED  BY <1>2, <2>1 DEF Finished
<1>3. CASE after \notin {"update", "delete"}
      BY <1>3 DEF Finished
<1> QED  BY <1>1, <1>2, <1>3

(* The merchant asks for something. *)
LEMMA BoundedIsNat == ASSUME OrdersInv, Bounded \/ UNCHANGED moves PROVE moves' \in Nat
BY DEF OrdersInv, ScreensTypeOK, Bounded

LEMMA FetchKeeps == ASSUME OrdersInv, NEW c \in Calls, FetchOrders(c) PROVE OrdersInv'
<1>0. desk \in DeskState /\ AreTrue(desk.rows, status) /\ (desk.detail # None => IsTrue(desk.detail, status)) /\ (desk.confirm # None => desk.detail # None)
      BY DeskFacts
<1>1. AtDesk /\ UNCHANGED moves /\ screen = "desk" /\ desk' = [desk EXCEPT !.loading = TRUE]
      BY DEF FetchOrders, AtDesk
<1>2. PICK f \in Filters : Send(c, [Request("list", 0) EXCEPT !.to = f])
      BY DEF FetchOrders
<1> DEFINE q == [Request("list", 0) EXCEPT !.to = f]
<1>3. f \in Statuses \cup {None} /\ 0 \in 0 .. MaxOrders /\ "list" \in Kinds /\ None \in Row \cup {None}
      BY OrderViewsAssumption DEF Kinds
<1>4. IsRequest(Request("list", 0), "list", 0, None, 1, None, "none")
      BY <1>3, OrderRequestFacts
<1>5. Request("list", 0) \in Call
      BY <1>4 DEF IsRequest
<1>6. IsRequest(q, "list", 0, f, 1, None, "none")
      BY <1>3, <1>4, <1>5, RequestWith
<1>7. Replaced(c, q) /\ call[c] = Idle
      BY <1>2, SentIs
<1> HIDE DEF q
<1>8. q \in Call /\ q # Idle /\ q.kind = "list"
      BY <1>6 DEF IsRequest
<1>9. Asks(q, screen, status) /\ Tells(q, status)
      <2>1. "list" \in AsksOf(screen) /\ "list" \notin AboutOne
            BY <1>1 DEF AsksOf, AboutOne
      <2> QED  BY <1>6, <2>1, AskedIsFine
<1>10. desk' \in DeskState /\ desk'.rows = desk.rows /\ desk'.detail = desk.detail /\ desk'.confirm = desk.confirm
       /\ desk'.opening = desk.opening /\ desk'.saving = desk.saving /\ desk'.deleting = desk.deleting
       BY <1>0, <1>1 DEF DeskState
<1>11. /\ HasReason(desk'.loading, desk.loading, q, call[c], "list") /\ HasReason(desk'.opening, desk.opening, q, call[c], "detail")
       /\ HasReason(desk'.saving # None, desk.saving # None, q, call[c], "update") /\ HasReason(desk'.deleting, desk.deleting, q, call[c], "delete")
       <2>1. Keeps(q, "list")
             BY <1>8 DEF Keeps
       <2> QED  BY <1>7, <1>10, <2>1, SentHasReason
<1> QED  BY <1>0, <1>1, <1>7, <1>8, <1>9, <1>10, <1>11, BoundedIsNat, PageStep

LEMMA OpenKeeps == ASSUME OrdersInv, NEW c \in Calls, OpenOrderDetail(c) PROVE OrdersInv'
<1>0. desk \in DeskState /\ AreTrue(desk.rows, status) /\ (desk.detail # None => IsTrue(desk.detail, status)) /\ (desk.confirm # None => desk.detail # None)
      BY DeskFacts
<1>1. AtDesk /\ UNCHANGED moves /\ screen = "desk" /\ desk' = [desk EXCEPT !.open = TRUE, !.opening = TRUE]
      BY DEF OpenOrderDetail, AtDesk
<1>2. PICK k \in DOMAIN desk.rows : Send(c, Request("detail", desk.rows[k].id))
      BY DEF OpenOrderDetail
<1> DEFINE o == desk.rows[k].id
           q == Request("detail", o)
<1>3. o \in Ids /\ o \in 0 .. MaxOrders /\ "detail" \in Kinds
      <2>1. o \in Ids /\ Ids \subseteq 1 .. MaxOrders
            BY DeskFacts
      <2> QED  BY <2>1, OrderViewsAssumption DEF Kinds
<1>6. IsRequest(q, "detail", o, None, 1, None, "none")
      BY <1>3, OrderRequestFacts
<1>7. Replaced(c, q) /\ call[c] = Idle
      BY <1>2, SentIs
<1> HIDE DEF q, o
<1>8. q \in Call /\ q # Idle /\ q.kind = "detail"
      BY <1>6 DEF IsRequest
<1>9. Asks(q, screen, status) /\ Tells(q, status)
      <2>1. "detail" \in AsksOf(screen)
            BY <1>1 DEF AsksOf
      <2> QED  BY <1>3, <1>6, <2>1, AskedIsFine
<1>10. desk' \in DeskState /\ desk'.rows = desk.rows /\ desk'.detail = desk.detail /\ desk'.confirm = desk.confirm
       /\ desk'.loading = desk.loading /\ desk'.saving = desk.saving /\ desk'.deleting = desk.deleting
       BY <1>0, <1>1 DEF DeskState
<1>11. /\ HasReason(desk'.loading, desk.loading, q, call[c], "list") /\ HasReason(desk'.opening, desk.opening, q, call[c], "detail")
       /\ HasReason(desk'.saving # None, desk.saving # None, q, call[c], "update") /\ HasReason(desk'.deleting, desk.deleting, q, call[c], "delete")
       <2>1. Keeps(q, "detail")
             BY <1>8 DEF Keeps
       <2> QED  BY <1>7, <1>10, <2>1, SentHasReason
<1> QED  BY <1>0, <1>1, <1>7, <1>8, <1>9, <1>10, <1>11, BoundedIsNat, PageStep

LEMMA StatusChangeKeeps == ASSUME OrdersInv, NEW c \in Calls, HandleStatusChange(c) PROVE OrdersInv'
<1>0. desk \in DeskState /\ AreTrue(desk.rows, status) /\ (desk.detail # None => IsTrue(desk.detail, status)) /\ (desk.confirm # None => desk.detail # None)
      BY DeskFacts
<1>1. AtDesk /\ Bounded /\ screen = "desk" /\ desk.detail # None
      BY DEF HandleStatusChange, Operable, AtDesk
<1>2. PICK s \in DetailActions(desk.detail.status) \ {desk.saving} :
        /\ Send(c, [Request("update", desk.detail.id) EXCEPT !.to = s, !.shown = desk.detail])
        /\ desk' = [desk EXCEPT !.saving = s]
      BY DEF HandleStatusChange
<1> DEFINE d == desk.detail
           q == [Request("update", d.id) EXCEPT !.to = s, !.shown = d]
<1>3. d \in Row /\ IsTrue(d, status) /\ d.status \in Statuses /\ d.id \in 1 .. MaxOrders
      BY <1>1, DeskFacts DEF Row
<1>4. d.id \in Ids /\ d.id \in 0 .. MaxOrders /\ "update" \in Kinds
      BY <1>3 DEF IsTrue, Ids, Kinds
<1>5. s \in DetailActions(d.status) /\ s \in Statuses
      BY <1>2, <1>3, OffersAreAccepted
<1>6. IsRequest(q, "update", d.id, s, 1, d, "none")
      <2>1. IsRequest(Request("update", d.id), "update", d.id, None, 1, None, "none")
            BY <1>4, OrderRequestFacts
      <2>2. Request("update", d.id) \in Call
            BY <2>1 DEF IsRequest
      <2> QED  BY <1>3, <1>5, <2>1, <2>2, RequestWith
<1>7. Replaced(c, q) /\ call[c] = Idle
      BY <1>2, SentIs
<1> HIDE DEF q, d
<1>8. q \in Call /\ q # Idle /\ q.kind = "update"
      BY <1>6 DEF IsRequest
<1>9. Asks(q, screen, status) /\ Tells(q, status)
      <2>1. "update" \in AsksOf(screen)
            BY <1>1 DEF AsksOf
      <2> QED  BY <1>3, <1>4, <1>5, <1>6, <2>1, AskedIsFine
<1>10. desk' \in DeskState /\ desk'.rows = desk.rows /\ desk'.detail = desk.detail /\ desk'.confirm = desk.confirm
       /\ desk'.loading = desk.loading /\ desk'.opening = desk.opening /\ desk'.deleting = desk.deleting
       BY <1>0, <1>2, <1>5 DEF DeskState
<1>11. /\ HasReason(desk'.loading, desk.loading, q, call[c], "list") /\ HasReason(desk'.opening, desk.opening, q, call[c], "detail")
       /\ HasReason(desk'.saving # None, desk.saving # None, q, call[c], "update") /\ HasReason(desk'.deleting, desk.deleting, q, call[c], "delete")
       <2>1. Keeps(q, "update")
             BY <1>8 DEF Keeps
       <2> QED  BY <1>7, <1>10, <2>1, SentHasReason
<1> QED  BY <1>0, <1>1, <1>7, <1>8, <1>9, <1>10, <1>11, BoundedIsNat, PageStep

LEMMA ConfirmDeleteKeeps == ASSUME OrdersInv, NEW c \in Calls, ConfirmDelete(c) PROVE OrdersInv'
<1>0. desk \in DeskState /\ AreTrue(desk.rows, status) /\ (desk.detail # None => IsTrue(desk.detail, status)) /\ (desk.confirm # None => desk.confirm \in Row /\ desk.detail # None)
      BY DeskFacts
<1>1. AtDesk /\ Bounded /\ screen = "desk" /\ desk.confirm # None /\ desk' = [desk EXCEPT !.confirm = None, !.deleting = TRUE]
      BY DEF ConfirmDelete, AtDesk
<1>2. Send(c, [Request("delete", desk.detail.id) EXCEPT !.shown = desk.confirm])
      BY DEF ConfirmDelete
<1> DEFINE d == desk.detail
           b == desk.confirm
           q == [Request("delete", d.id) EXCEPT !.shown = b]
<1>3. d \in Row /\ IsTrue(d, status) /\ b \in Row /\ d.id \in 1 .. MaxOrders
      BY <1>0, <1>1, DeskFacts DEF Row
<1>4. d.id \in Ids /\ d.id \in 0 .. MaxOrders /\ "delete" \in Kinds
      BY <1>3 DEF IsTrue, Ids, Kinds
<1>6. IsRequest(q, "delete", d.id, None, 1, b, "none")
      <2>1. IsRequest(Request("delete", d.id), "delete", d.id, None, 1, None, "none")
            BY <1>4, OrderRequestFacts
      <2>2. Request("delete", d.id) \in Call
            BY <2>1 DEF IsRequest
      <2> QED  BY <1>3, <2>1, <2>2, RequestWith
<1>7. Replaced(c, q) /\ call[c] = Idle
      BY <1>2, SentIs
<1> HIDE DEF q, d, b
<1>8. q \in Call /\ q # Idle /\ q.kind = "delete"
      BY <1>6 DEF IsRequest
<1>9. Asks(q, screen, status) /\ Tells(q, status)
      <2>1. "delete" \in AsksOf(screen)
            BY <1>1 DEF AsksOf
      <2> QED  BY <1>4, <1>6, <2>1, AskedIsFine
<1>10. desk' \in DeskState /\ desk'.rows = desk.rows /\ desk'.detail = desk.detail /\ desk'.confirm = None
       /\ desk'.loading = desk.loading /\ desk'.opening = desk.opening /\ desk'.saving = desk.saving
       BY <1>0, <1>1 DEF DeskState
<1>11. /\ HasReason(desk'.loading, desk.loading, q, call[c], "list") /\ HasReason(desk'.opening, desk.opening, q, call[c], "detail")
       /\ HasReason(desk'.saving # None, desk.saving # None, q, call[c], "update") /\ HasReason(desk'.deleting, desk.deleting, q, call[c], "delete")
       <2>1. Keeps(q, "delete")
             BY <1>8 DEF Keeps
       <2> QED  BY <1>7, <1>10, <2>1, SentHasReason
<1> QED  BY <1>0, <1>1, <1>7, <1>8, <1>9, <1>10, <1>11, BoundedIsNat, PageStep

(* An answer that is shown or lost: its request is over, and what it kept spinning stops. *)
LEMMA IsOver ==
    ASSUME NEW up, NEW wasUp, NEW was, NEW kind, up => wasUp /\ was.kind # kind /\ was.after # kind
    PROVE  HasReason(up, wasUp, Idle, was, kind)
BY DEF HasReason, Keeps

LEMMA ShowOrdersKeeps == ASSUME OrdersInv, NEW c \in Calls, ShowOrders(c) PROVE OrdersInv'
<1> DEFINE q == call[c]
           d == [desk EXCEPT !.loading = FALSE, !.rows = q.rows]
<1>0. desk \in DeskState /\ AreTrue(desk.rows, status) /\ (desk.detail # None => IsTrue(desk.detail, status)) /\ (desk.confirm # None => desk.detail # None)
      BY DeskFacts
<1>1. AtDesk /\ UNCHANGED moves /\ screen = "desk" /\ desk' = Finished(d, q.after) /\ Replaced(c, Idle) /\ q # Idle /\ q.kind = "list"
      BY EndedIs DEF ShowOrders, AtDesk, Handled
<1>2. q \in Call /\ Tells(q, status)
      BY <1>1, CallFacts
<1>3. q.rows \in Seq(Row) /\ AreTrue(q.rows, status) /\ q.after \in {"none", "update", "delete"}
      BY <1>2 DEF Call, Tells
<1> HIDE DEF q
<1>4. d \in DeskState /\ d.rows = q.rows /\ d.detail = desk.detail /\ d.confirm = desk.confirm /\ d.loading = FALSE /\ d.opening = desk.opening
      /\ d.saving = desk.saving /\ d.deleting = desk.deleting
      BY <1>0, <1>3 DEF DeskState
<1> HIDE DEF d
<1>5. /\ desk' \in DeskState /\ desk'.rows = d.rows /\ desk'.detail = d.detail /\ desk'.confirm = d.confirm /\ desk'.loading = d.loading /\ desk'.opening = d.opening
      /\ desk'.saving # None => d.saving # None /\ q.after # "update"
      /\ desk'.deleting => d.deleting /\ q.after # "delete"
      BY <1>1, <1>4, FinishedFacts
<1>6. /\ HasReason(desk'.loading, desk.loading, Idle, q, "list") /\ HasReason(desk'.opening, desk.opening, Idle, q, "detail")
      /\ HasReason(desk'.saving # None, desk.saving # None, Idle, q, "update") /\ HasReason(desk'.deleting, desk.deleting, Idle, q, "delete")
      BY <1>1, <1>3, <1>4, <1>5, IsOver
<1> QED  BY <1>0, <1>1, <1>3, <1>4, <1>5, <1>6, BoundedIsNat, PageStep DEF q

LEMMA ShowDetailKeeps == ASSUME OrdersInv, NEW c \in Calls, ShowDetail(c) PROVE OrdersInv'
<1> DEFINE q == call[c]
           row == [id |-> q.order, status |-> q.was]
<1>0. desk \in DeskState /\ AreTrue(desk.rows, status) /\ (desk.detail # None => IsTrue(desk.detail, status)) /\ (desk.confirm # None => desk.detail # None)
      BY DeskFacts
<1>1. AtDesk /\ UNCHANGED moves /\ screen = "desk" /\ desk' = [desk EXCEPT !.opening = FALSE, !.detail = row] /\ Replaced(c, Idle) /\ q # Idle /\ q.kind = "detail"
      /\ q.pc = "handled"
      BY EndedIs DEF ShowDetail, AtDesk, Handled
<1>2. q \in Call /\ Tells(q, status) /\ Asks(q, screen, status)
      BY <1>1, CallFacts
<1>3. IsTrue(row, status) /\ q.was \in Statuses /\ q.after = "none" /\ q.order \in Ids
      BY <1>1, <1>2 DEF Tells, Asks, AboutOne, Ids
<1>4. row \in Row
      <2>1. q.order \in 1 .. MaxOrders
            BY <1>3, DeskFacts
      <2> QED  BY <1>3, <2>1 DEF Row
<1> HIDE DEF q, row
<1>5. desk' \in DeskState /\ desk'.rows = desk.rows /\ desk'.detail = row /\ desk'.confirm = desk.confirm /\ desk'.loading = desk.loading /\ desk'.opening = FALSE
      /\ desk'.saving = desk.saving /\ desk'.deleting = desk.deleting
      BY <1>0, <1>1, <1>4 DEF DeskState
<1>6. /\ HasReason(desk'.loading, desk.loading, Idle, q, "list") /\ HasReason(desk'.opening, desk.opening, Idle, q, "detail")
      /\ HasReason(desk'.saving # None, desk.saving # None, Idle, q, "update") /\ HasReason(desk'.deleting, desk.deleting, Idle, q, "delete")
      BY <1>1, <1>3, <1>5, IsOver
<1>7. desk'.detail # None
      <2>1. None \notin Row
            BY NoneIsNoRow
      <2> QED  BY <1>4, <1>5, <2>1
<1> QED  BY <1>0, <1>1, <1>3, <1>5, <1>6, <1>7, BoundedIsNat, PageStep DEF q

LEMMA ShowChangeKeeps == ASSUME OrdersInv, NEW c \in Calls, ShowChange(c) PROVE OrdersInv'
<1> DEFINE p == call[c]
           row == [id |-> p.order, status |-> IF p.kind = "update" THEN p.to ELSE "DELETED"]
<1>0. desk \in DeskState /\ AreTrue(desk.rows, status) /\ (desk.detail # None => IsTrue(desk.detail, status)) /\ (desk.confirm # None => desk.detail # None)
      BY DeskFacts
<1>1. AtDesk /\ UNCHANGED moves /\ screen = "desk" /\ desk' = [desk EXCEPT !.detail = row, !.loading = TRUE] /\ p # Idle /\ p.kind \in {"update", "delete"}
      /\ p.pc = "handled" /\ p.ok
      BY DEF ShowChange, AtDesk, Handled
<1>2. PICK f \in Filters, k \in {"update", "delete"} : k = p.kind /\ Replaced(c, [Request("list", 0) EXCEPT !.to = f, !.after = k])
      BY <1>1 DEF ShowChange, Replaced
<1> DEFINE q == [Request("list", 0) EXCEPT !.to = f, !.after = k]
<1>3. p \in Call /\ Tells(p, status) /\ Asks(p, screen, status)
      BY <1>1, CallFacts
<1>4. IsTrue(row, status) /\ row.status \in Statuses /\ p.after = "none" /\ p.order \in Ids /\ row.id = p.order
      <2>1. CASE p.kind = "update"
            BY <1>1, <1>3, <2>1 DEF Tells, Asks, AboutOne, Ids
      <2>2. CASE p.kind = "delete"
            BY <1>1, <1>3, <2>2 DEF Tells, Asks, AboutOne, Ids, Statuses
      <2> QED  BY <1>1, <2>1, <2>2
<1>5. row \in Row
      <2>1. p.order \in 1 .. MaxOrders
            BY <1>4, DeskFacts
      <2> QED  BY <1>4, <2>1 DEF Row
<1>6. IsRequest(q, "list", 0, f, 1, None, k)
      <2>1. f \in Statuses \cup {None} /\ 0 \in 0 .. MaxOrders /\ "list" \in Kinds /\ None \in Row \cup {None} /\ 1 \in Nat
            BY OrderViewsAssumption DEF Kinds
      <2>2. IsRequest(Request("list", 0), "list", 0, None, 1, None, "none")
            BY <2>1, OrderRequestFacts
      <2>3. Request("list", 0) \in Call
            BY <2>2 DEF IsRequest
      <2>4. k \in {"none", "update", "delete"}
            OBVIOUS
      <2> HIDE DEF p, row
      <2> QED  BY <2>1, <2>2, <2>3, <2>4, RequestAfter
<1> HIDE DEF q, row, p
<1>7. q \in Call /\ q # Idle /\ q.kind = "list" /\ q.after = p.kind
      BY <1>2, <1>6 DEF IsRequest
<1>8. Asks(q, screen, status) /\ Tells(q, status)
      <2>1. "list" \in AsksOf(screen) /\ "list" \notin AboutOne
            BY <1>1 DEF AsksOf, AboutOne
      <2> QED  BY <1>6, <2>1, AskedIsFine
<1>9. desk' \in DeskState /\ desk'.rows = desk.rows /\ desk'.detail = row /\ desk'.confirm = desk.confirm
      /\ desk'.opening = desk.opening /\ desk'.saving = desk.saving /\ desk'.deleting = desk.deleting
      BY <1>0, <1>1, <1>5 DEF DeskState
<1>10. desk'.detail # None
       BY <1>5, <1>9, NoneIsNoRow
<1>11. /\ HasReason(desk'.loading, desk.loading, q, p, "list") /\ HasReason(desk'.opening, desk.opening, q, p, "detail")
       /\ HasReason(desk'.saving # None, desk.saving # None, q, p, "update") /\ HasReason(desk'.deleting, desk.deleting, q, p, "delete")
       BY <1>1, <1>4, <1>7, <1>9 DEF HasReason, Keeps
<1>12. Replaced(c, q)
       BY <1>2 DEF q
<1> QED  BY <1>0, <1>1, <1>4, <1>7, <1>8, <1>9, <1>10, <1>11, <1>12, BoundedIsNat, PageStep DEF p

LEMMA FailAtDeskKeeps == ASSUME OrdersInv, NEW c \in Calls, FailAtDesk(c) PROVE OrdersInv'
<1> DEFINE q == call[c]
<1>0. desk \in DeskState /\ AreTrue(desk.rows, status) /\ (desk.detail # None => IsTrue(desk.detail, status)) /\ (desk.confirm # None => desk.detail # None)
      BY DeskFacts
<1>1. AtDesk /\ UNCHANGED moves /\ screen = "desk" /\ Replaced(c, Idle) /\ q # Idle
      BY EndedIs DEF FailAtDesk, AtDesk
<1>2. q \in Call /\ Asks(q, screen, status)
      BY <1>1, CallFacts
<1>3. q.kind \in {"list", "detail", "update", "delete"} /\ q.after \in {"none", "update", "delete"} /\ (q.after # "none" => q.kind = "list")
      BY <1>1, <1>2 DEF Call, Asks, AsksOf
<1>4. /\ q.kind = "list" => desk' = Finished([desk EXCEPT !.loading = FALSE], q.after)
      /\ q.kind = "detail" => desk' = [desk EXCEPT !.open = FALSE, !.opening = FALSE]
      /\ q.kind \in {"update", "delete"} => desk' = Finished(desk, q.kind)
      BY <1>3 DEF FailAtDesk, EndAnswered
<1> HIDE DEF q
<1>5. /\ desk' \in DeskState /\ desk'.rows = desk.rows /\ desk'.detail = desk.detail /\ desk'.confirm = desk.confirm
      /\ desk'.loading => desk.loading /\ q.kind # "list"
      /\ desk'.opening => desk.opening /\ q.kind # "detail"
      /\ desk'.saving # None => desk.saving # None /\ q.kind # "update" /\ q.after # "update"
      /\ desk'.deleting => desk.deleting /\ q.kind # "delete" /\ q.after # "delete"
      <2>1. CASE q.kind = "list"
            <3> DEFINE d == [desk EXCEPT !.loading = FALSE]
            <3>1. d \in DeskState /\ d.rows = desk.rows /\ d.detail = desk.detail /\ d.confirm = desk.confirm /\ d.loading = FALSE /\ d.opening = desk.opening
                  /\ d.saving = desk.saving /\ d.deleting = desk.deleting
                  BY <1>0 DEF DeskState
            <3>2. desk' = Finished(d, q.after)
                  BY <1>4, <2>1
            <3> HIDE DEF d
            <3> QED  BY <2>1, <3>1, <3>2, FinishedFacts
      <2>2. CASE q.kind = "detail"
            <3>1. desk' = [desk EXCEPT !.open = FALSE, !.opening = FALSE]
                  BY <1>4, <2>2
            <3>2. desk' \in DeskState /\ desk'.rows = desk.rows /\ desk'.detail = desk.detail /\ desk'.confirm = desk.confirm /\ desk'.loading = desk.loading
                  /\ desk'.opening = FALSE /\ desk'.saving = desk.saving /\ desk'.deleting = desk.deleting
                  BY <1>0, <3>1 DEF DeskState
            <3> QED  BY <1>3, <2>2, <3>2
      <2>3. CASE q.kind \in {"update", "delete"}
            <3>1. desk' = Finished(desk, q.kind)
                  BY <1>4, <2>3
            <3> QED  BY <1>0, <1>3, <2>3, <3>1, FinishedFacts
      <2> QED  BY <1>3, <2>1, <2>2, <2>3
<1>6. /\ HasReason(desk'.loading, desk.loading, Idle, q, "list") /\ HasReason(desk'.opening, desk.opening, Idle, q, "detail")
      /\ HasReason(desk'.saving # None, desk.saving # None, Idle, q, "update") /\ HasReason(desk'.deleting, desk.deleting, Idle, q, "delete")
      BY <1>3, <1>5, IsOver
<1> QED  BY <1>0, <1>1, <1>5, <1>6, BoundedIsNat, PageStep DEF q

-----------------------------------------------------------------------------
(* The service handles a request: what was asked stays, what is told is true. *)
Served(q, p) ==
    /\ q \in Call /\ q # Idle /\ q.pc = "handled" /\ q.kind = p.kind /\ q.order = p.order /\ q.to = p.to /\ q.page = p.page
    /\ q.shown = p.shown /\ q.after = p.after

LEMMA ServedFacts ==
    ASSUME ScreensTypeOK, NEW c \in Calls, call[c] \in Call, NEW q, Served(q, call[c]), call' = [call EXCEPT ![c] = q]
    PROVE  Replaced(c, q) /\ q \in {Idle} \cup Call /\ q # Idle
BY DEF Replaced, Served

LEMMA AnsweredRows ==
    ASSUME NEW p \in Call, NEW rows \in Seq(Row)
    PROVE  LET q == [p EXCEPT !.pc = "handled", !.rows = rows] IN Served(q, p) /\ q.rows = rows /\ q.total = p.total
<1> DEFINE q == [p EXCEPT !.pc = "handled", !.rows = rows]
<1>1. q \in Call
      BY DEF Call
<1>2. q.pc = "handled" /\ q.kind = p.kind /\ q.order = p.order /\ q.to = p.to /\ q.page = p.page /\ q.shown = p.shown /\ q.after = p.after
      /\ q.rows = rows /\ q.total = p.total
      BY DEF Call
<1> HIDE DEF q
<1>3. Served(q, p)
      BY <1>1, <1>2, IdleFacts DEF Served
<1> QED  BY <1>2, <1>3 DEF q

WithPage(p, rows, total) == [p EXCEPT !.pc = "handled", !.rows = rows, !.total = total]
LEMMA AnsweredPage ==
    ASSUME NEW p \in Call, NEW rows \in Seq(Row), NEW total \in Nat
    PROVE  LET q == WithPage(p, rows, total) IN Served(q, p) /\ q.rows = rows /\ q.total = total
<1> DEFINE q == WithPage(p, rows, total)
<1>1. q \in Call
      BY DEF Call, WithPage
<1>2. q.pc = "handled" /\ q.kind = p.kind /\ q.order = p.order /\ q.to = p.to /\ q.page = p.page /\ q.shown = p.shown /\ q.after = p.after
      /\ q.rows = rows /\ q.total = total
      BY DEF Call, WithPage
<1> HIDE DEF q
<1>3. Served(q, p)
      BY <1>1, <1>2, IdleFacts DEF Served
<1> QED  BY <1>2, <1>3 DEF q

LEMMA AnsweredStatus ==
    ASSUME NEW p \in Call, NEW was \in Statuses
    PROVE  LET q == [p EXCEPT !.pc = "handled", !.was = was] IN Served(q, p) /\ q.rows = p.rows /\ q.total = p.total /\ q.was = was
<1> DEFINE q == [p EXCEPT !.pc = "handled", !.was = was]
<1>1. q \in Call
      BY DEF Call
<1>2. q.pc = "handled" /\ q.kind = p.kind /\ q.order = p.order /\ q.to = p.to /\ q.page = p.page /\ q.shown = p.shown /\ q.after = p.after
      /\ q.rows = p.rows /\ q.total = p.total /\ q.was = was
      BY DEF Call
<1> HIDE DEF q
<1>3. Served(q, p)
      BY <1>1, <1>2, IdleFacts DEF Served
<1> QED  BY <1>2, <1>3 DEF q

LEMMA AnsweredWrite ==
    ASSUME NEW p \in Call, NEW was \in Statuses, NEW ok \in BOOLEAN
    PROVE  LET q == [p EXCEPT !.pc = "handled", !.ok = ok, !.was = was] IN Served(q, p) /\ q.rows = p.rows /\ q.total = p.total /\ q.was = was /\ q.ok = ok
<1> DEFINE q == [p EXCEPT !.pc = "handled", !.ok = ok, !.was = was]
<1>1. q \in Call
      BY DEF Call
<1>2. q.pc = "handled" /\ q.kind = p.kind /\ q.order = p.order /\ q.to = p.to /\ q.page = p.page /\ q.shown = p.shown /\ q.after = p.after
      /\ q.rows = p.rows /\ q.total = p.total /\ q.was = was /\ q.ok = ok
      BY DEF Call
<1> HIDE DEF q
<1>3. Served(q, p)
      BY <1>1, <1>2, IdleFacts DEF Served
<1> QED  BY <1>2, <1>3 DEF q

LEMMA ServedAsks ==
    ASSUME NEW q, NEW p, NEW where, NEW orders, Served(q, p), Asks(p, where, orders)
    PROVE  Asks(q, where, orders)
BY DEF Served, Asks

LEMMA ServedSpins ==
    ASSUME NEW q, NEW p, NEW up, NEW kind, Served(q, p)
    PROVE  HasReason(up, up, q, p, kind)
BY DEF Served, HasReason, Keeps

LEMMA DeskServed ==
    ASSUME OrdersInv, screen = "desk", NEW c \in Calls, call[c] # Idle, NEW q, Served(q, call[c]), Replaced(c, q), Tells(q, status'),
           status' \in Seq(Statuses), Len(status') <= MaxOrders, Grows(status, status'), UNCHANGED <<moves, desk, mine, screen>>
    PROVE  OrdersInv'
<1>1. call[c] \in Call /\ Asks(call[c], screen, status)
      BY CallFacts
<1>2. q \in Call /\ q # Idle /\ Asks(q, screen, status')
      BY <1>1, ServedAsks, TruthStays DEF Served
<1>3. CallsAreTrue' /\ call' \in [Calls -> {Idle} \cup Call]
      BY <1>2, CallsStay
<1>4. SpinnersStop'
      <2>1. /\ HasReason(desk'.loading, desk.loading, q, call[c], "list") /\ HasReason(desk'.opening, desk.opening, q, call[c], "detail")
            /\ HasReason(desk'.saving # None, desk.saving # None, q, call[c], "update") /\ HasReason(desk'.deleting, desk.deleting, q, call[c], "delete")
            BY ServedSpins
      <2> QED  BY <1>2, <2>1, FlagsHaveReasons
<1>5. /\ desk' \in DeskState /\ AreTrue(desk'.rows, status') /\ (desk'.detail # None => IsTrue(desk'.detail, status'))
      /\ desk'.confirm # None => desk'.detail # None
      /\ moves' \in Nat
      BY DeskFacts, TruthStays
<1> QED  BY <1>3, <1>4, <1>5, DeskStep

-----------------------------------------------------------------------------
(* The customer's pages. *)
LEMMA CustomerFacts ==
    ASSUME OrdersInv, screen = "customer"
    PROVE  /\ mine \in ListState /\ AreTrue(mine.rows, status) /\ (mine.detail # None => IsTrue(mine.detail, status))
           /\ mine.rows \in Seq(Row) /\ mine.page \in 1 .. MaxPages /\ mine.total \in 0 .. MaxOrders /\ mine.more \in BOOLEAN /\ mine.disturbed \in BOOLEAN
           /\ \A k \in DOMAIN mine.rows : mine.rows[k].id \in Ids
           /\ ~desk.loading /\ ~desk.opening /\ desk.saving = None /\ ~desk.deleting
           /\ \A c \in Calls : call[c] # Idle => call[c].kind \in {"show", "more", "view"} /\ call[c].after = "none"
<1>1. mine \in ListState /\ AreTrue(mine.rows, status) /\ (mine.detail # None => IsTrue(mine.detail, status))
      BY DEF OrdersInv, ScreensTypeOK, ShownIsTrue
<1>2. mine.rows \in Seq(Row) /\ mine.page \in 1 .. MaxPages /\ mine.total \in 0 .. MaxOrders /\ mine.more \in BOOLEAN /\ mine.disturbed \in BOOLEAN
      BY <1>1 DEF ListState
<1>3. \A k \in DOMAIN mine.rows : mine.rows[k].id \in Ids
      BY <1>1 DEF AreTrue, IsTrue, Ids
<1>4. \A c \in Calls : call[c] # Idle => call[c].kind \in {"show", "more", "view"} /\ call[c].after = "none"
      <2> SUFFICES ASSUME NEW c \in Calls, call[c] # Idle PROVE call[c].kind \in {"show", "more", "view"} /\ call[c].after = "none"
          OBVIOUS
      <2>1. Asks(call[c], screen, status)
            BY CallFacts
      <2> QED  BY <2>1 DEF Asks, AsksOf
<1>5. ~desk.loading /\ ~desk.opening /\ desk.saving = None /\ ~desk.deleting
      BY <1>4 DEF OrdersInv, SpinnersStop, Waiting
<1> QED  BY <1>1, <1>2, <1>3, <1>4, <1>5

LEMMA CustomerStep ==
    ASSUME OrdersInv, screen = "customer", screen' = screen, desk' = desk, moves' \in Nat,
           status' \in Seq(Statuses), Len(status') <= MaxOrders, Grows(status, status'),
           call' \in [Calls -> {Idle} \cup Call], CallsAreTrue',
           mine' \in ListState, AreTrue(mine'.rows, status'), mine'.detail # None => IsTrue(mine'.detail, status'),
           NoOrderTwice', OneMore', PagesFit'
    PROVE  OrdersInv'
<1>1. ScreensTypeOK'
      BY DEF OrdersInv, ScreensTypeOK
<1>2. ShownIsTrue'
      <2>1. AreTrue(desk'.rows, status') /\ (desk'.detail # None => IsTrue(desk'.detail, status')) /\ (desk'.confirm # None => desk'.detail # None)
            BY TruthStays DEF OrdersInv, ShownIsTrue
      <2> QED  BY <2>1 DEF ShownIsTrue
<1>3. SpinnersStop'
      BY CustomerFacts DEF SpinnersStop
<1> QED  BY <1>1, <1>2, <1>3 DEF OrdersInv

(* A step of one request while no order moves. *)
LEMMA CustomerCallStep ==
    ASSUME OrdersInv, Customer, NEW c \in Calls, NEW q \in {Idle} \cup Call, Replaced(c, q),
           q # Idle => Asks(q, screen, status) /\ Tells(q, status),
           mine' \in ListState, AreTrue(mine'.rows, status), mine'.detail # None => IsTrue(mine'.detail, status),
           NoOrderTwice', OneMore', PagesFit'
    PROVE  OrdersInv'
<1>1. status' = status /\ desk' = desk /\ screen' = screen /\ screen = "customer" /\ moves' = moves
      BY DEF Customer
<1>2. Grows(status, status')
      BY <1>1, StillGrows
<1>3. CallsAreTrue' /\ call' \in [Calls -> {Idle} \cup Call]
      BY <1>1, <1>2, CallsStay
<1>5. status' \in Seq(Statuses) /\ Len(status') <= MaxOrders /\ moves' \in Nat
      BY <1>1 DEF OrdersInv, ScreensTypeOK
<1> QED  BY <1>1, <1>2, <1>3, <1>5, CustomerStep

(* Only one request loads more, and goes on to do so. *)
LEMMA OneMoreStays ==
    ASSUME OrdersInv, NEW c \in Calls, NEW q \in {Idle} \cup Call, Replaced(c, q), q.kind = "more" => call[c].kind = "more" /\ q.page = call[c].page,
           mine'.page = mine.page, mine'.rows = mine.rows, mine.more => mine'.more \/ (call[c].kind = "more" /\ q.kind # "more")
    PROVE  OneMore'
<1>1. call'[c] = q /\ \A d \in Calls : d # c => call'[d] = call[d]
      BY ReplacedFacts DEF OrdersInv
<1>2. OneMore
      BY DEF OrdersInv
<1>3. \A d \in Calls : call'[d].kind = "more" => call[d].kind = "more" /\ call'[d].page = call[d].page
      BY <1>1
<1>4. ASSUME NEW d \in Calls, call'[d].kind = "more"
      PROVE  mine'.more /\ mine'.page < call'[d].page
      <2>1. call[d].kind = "more" /\ call'[d].page = call[d].page /\ mine.more /\ mine.page < call[d].page
            BY <1>2, <1>3, <1>4 DEF OneMore
      <2>2. call[c].kind = "more" => c = d
            BY <1>2, <2>1 DEF OneMore
      <2> QED  BY <1>1, <1>4, <2>1, <2>2
<1>5. \A d, e \in Calls : call'[d].kind = "more" /\ call'[e].kind = "more" => d = e
      BY <1>2, <1>3 DEF OneMore
<1>6. Len(mine'.rows) <= mine'.page * PageSize
      BY <1>2 DEF OneMore
<1> QED  BY <1>4, <1>5, <1>6 DEF OneMore

(* The pages fit on while the list is left alone. *)
LEMMA PagesFitOn ==
    ASSUME OrdersInv, Customer, NEW c \in Calls, NEW q \in {Idle} \cup Call, Replaced(c, q), q.kind = "more" => call[c].kind = "more" /\ q.page = call[c].page,
           mine'.page = mine.page, mine'.rows = mine.rows, mine'.total = mine.total, mine'.disturbed = mine.disturbed, mine'.more => mine.more,
           mine'.repair = mine.repair \/ \A d \in Calls : d # c => call[d] = Idle,
           q.kind \in {"show", "more"} /\ q.pc = "handled" => q.rows = PageOf(Now, q.page)
    PROVE  PagesFit'
<1>1. call'[c] = q /\ \A d \in Calls : d # c => call'[d] = call[d]
      BY ReplacedFacts DEF OrdersInv
<1>2. Now' = Now /\ screen' = screen /\ screen = "customer"
      BY NowStays DEF Customer
<1>3. PagesFit
      BY DEF OrdersInv
<1>4. ~mine'.disturbed => NotLoaded' \/ mine'.rows = FirstPages(Now', mine'.page)
      BY <1>2, <1>3 DEF PagesFit, NotLoaded
<1>5. ~mine'.disturbed => \A d \in Calls : call'[d].kind = "more" => call'[d].page = mine'.page + 1
      BY <1>1, <1>3 DEF PagesFit
<1>6. ASSUME ~mine'.disturbed \/ mine'.repair # None, NEW d \in Calls, call'[d].kind \in {"show", "more"}, call'[d].pc = "handled"
      PROVE  call'[d].rows = PageOf(Now', call'[d].page)
      <2>1. CASE d = c
            BY <1>1, <1>2, <1>6, <2>1
      <2>2. CASE d # c
            <3>1. call'[d] = call[d] /\ call[d] # Idle
                  BY <1>1, <1>6, <2>2, IdleFacts
            <3>2. mine'.repair = mine.repair
                  BY <2>2, <3>1
            <3> QED  BY <1>2, <1>3, <1>6, <3>1, <3>2 DEF PagesFit
      <2> QED  BY <2>1, <2>2
<1> QED  BY <1>2, <1>4, <1>5, <1>6 DEF PagesFit

LEMMA CustomerServed ==
    ASSUME OrdersInv, screen = "customer", NEW c \in Calls, call[c] # Idle, NEW q, Served(q, call[c]), Replaced(c, q), Tells(q, status),
           q.kind \in {"show", "more"} => q.rows = PageOf(Now, q.page), UNCHANGED <<status, moves, desk, mine, screen>>
    PROVE  OrdersInv'
<1>1. call[c] \in Call /\ Asks(call[c], screen, status)
      BY CallFacts
<1>2. q \in {Idle} \cup Call /\ q # Idle /\ Asks(q, screen, status) /\ q.kind = call[c].kind /\ q.page = call[c].page
      BY <1>1, ServedAsks DEF Served
<1>3. Customer
      BY DEF Customer
<1>4. OneMore'
      <2>1. mine'.page = mine.page /\ mine'.rows = mine.rows /\ (mine.more => mine'.more)
            OBVIOUS
      <2>2. q.kind = "more" => call[c].kind = "more" /\ q.page = call[c].page
            BY <1>2
      <2> QED  BY <1>2, <2>1, <2>2, OneMoreStays
<1>5. PagesFit'
      BY <1>2, <1>3, PagesFitOn
<1>6. NoOrderTwice'
      BY DEF OrdersInv, NoOrderTwice
<1>7. mine' \in ListState /\ AreTrue(mine'.rows, status) /\ (mine'.detail # None => IsTrue(mine'.detail, status))
      BY CustomerFacts
<1> QED  BY <1>2, <1>3, <1>4, <1>5, <1>6, <1>7, CustomerCallStep

LEMMA GetOrdersKeeps == ASSUME OrdersInv, NEW c \in Calls, GetOrders(c) PROVE OrdersInv'
<1> DEFINE p == call[c]
<1>1. UNCHANGED <<status, moves, desk, mine, screen>> /\ p # Idle /\ p.kind \in {"list", "show", "more"} /\ p.pc = "sent"
      BY DEF GetOrders, Sent
<1>2. p \in Call /\ Asks(p, screen, status) /\ Tells(p, status) /\ status \in Seq(Statuses) /\ Len(status) <= MaxOrders
      BY <1>1, CallFacts, DeskFacts
<1>3. /\ \A ids : Newest(ids) \in Seq(Row) /\ Len(Newest(ids)) <= Len(status) /\ Distinct(Newest(ids)) /\ AreTrue(Newest(ids), status)
      /\ Len(status) \in Nat /\ MaxOrders \in Nat /\ Grows(status, status') /\ status' = status
      BY <1>1, <1>2, NewestFacts, LenProperties, OrderViewsAssumption, StillGrows
<1>4. CASE p.kind = "list"
      <2> DEFINE rows == Newest(Matching(p.to))
                 q == [p EXCEPT !.pc = "handled", !.rows = rows]
      <2>1. call' = [call EXCEPT ![c].pc = "handled", ![c].rows = rows]
            BY <1>4 DEF GetOrders, Sent
      <2>2. call' = [call EXCEPT ![c] = q]
            BY <2>1
      <2>3. Served(q, p) /\ q.rows = rows /\ q.total = p.total
            BY <1>2, <1>3, AnsweredRows
      <2>4. screen = "desk"
            BY <1>2, <1>4 DEF Asks, AsksOf
      <2>5. AreTrue(rows, status)
            BY <1>3
      <2> HIDE DEF rows, q
      <2>6. q.kind = "list" /\ p.total <= MaxOrders
            BY <1>2, <1>4, <2>3 DEF Served, Tells
      <2>7. Tells(q, status)
            BY <2>3, <2>5, <2>6 DEF Tells
      <2>8. Replaced(c, q)
            BY <2>2 DEF Replaced
      <2> QED  BY <1>1, <1>2, <1>3, <2>3, <2>4, <2>7, <2>8, DeskServed
<1>5. CASE p.kind \in {"show", "more"}
      <2> DEFINE rows == PageOf(Now, p.page)
                 q == WithPage(p, rows, Len(Now))
      <2>1. call' = [call EXCEPT ![c].pc = "handled", ![c].rows = rows, ![c].total = Len(Now)]
            BY <1>5 DEF GetOrders, Sent, Now
      <2>2. call' = [call EXCEPT ![c] = q]
            BY <2>1 DEF WithPage
      <2>3. Now \in Seq(Row) /\ Len(Now) \in Nat /\ Len(Now) <= MaxOrders /\ Distinct(Now) /\ AreTrue(Now, status)
            <3>1. Now \in Seq(Row) /\ Len(Now) <= Len(status) /\ Distinct(Now) /\ AreTrue(Now, status)
                  BY <1>3 DEF Now
            <3>2. Len(Now) \in Nat
                  BY <3>1, LenProperties
            <3> QED  BY <1>2, <1>3, <3>1, <3>2
      <2>4. p.page \in Nat \ {0} /\ screen = "customer"
            <3>1. p.kind = "show" \/ p.kind = "more"
                  BY <1>5
            <3>2. screen = "customer" /\ (p.kind = "show" => p.page = 1) /\ (p.kind = "more" => p.page \in 2 .. MaxPages)
                  BY <1>2, <3>1 DEF Asks, AsksOf, OrdersInv, ScreensTypeOK
            <3>3. \A n \in 2 .. MaxPages : n \in Nat \ {0}
                  OBVIOUS
            <3> QED  BY <3>1, <3>2, <3>3
      <2>5. rows \in Seq(Row) /\ Len(rows) <= PageSize /\ Distinct(rows) /\ AreTrue(rows, status)
            BY <2>3, <2>4, PageFacts
      <2>6. Served(q, p) /\ q.rows = rows /\ q.total = Len(Now)
            <3> HIDE DEF rows, p
            <3>1. p \in Call /\ rows \in Seq(Row) /\ Len(Now) \in Nat
                  BY <1>2, <2>3, <2>5
            <3> QED  BY <3>1, AnsweredPage
      <2> HIDE DEF q
      <2>7. q.kind = p.kind /\ q.page = p.page
            BY <2>6 DEF Served
      <2>8. Tells(q, status)
            BY <1>5, <2>3, <2>5, <2>6, <2>7 DEF Tells
      <2>9. Replaced(c, q)
            BY <2>2 DEF Replaced
      <2> QED  BY <1>1, <2>4, <2>6, <2>7, <2>8, <2>9, CustomerServed
<1> QED  BY <1>1, <1>4, <1>5

LEMMA GetOrderDetailKeeps == ASSUME OrdersInv, NEW c \in Calls, GetOrderDetail(c) PROVE OrdersInv'
<1> DEFINE p == call[c]
           was == status[p.order]
           q == [p EXCEPT !.pc = "handled", !.was = was]
<1>1. UNCHANGED <<status, moves, desk, mine, screen>> /\ p # Idle /\ p.kind \in {"detail", "view"} /\ call' = [call EXCEPT ![c].pc = "handled", ![c].was = was]
      BY DEF GetOrderDetail, Sent
<1>2. p \in Call /\ Asks(p, screen, status) /\ Tells(p, status) /\ status \in Seq(Statuses) /\ Len(status) <= MaxOrders
      BY <1>1, CallFacts, DeskFacts
<1>3. p.order \in Ids /\ was \in Statuses /\ p.order \in DOMAIN status
      <2>1. p.order \in Ids
            BY <1>1, <1>2 DEF Asks, AboutOne, Ids
      <2>2. ScreensTypeOK
            BY DEF OrdersInv
      <2> QED  BY <2>1, <2>2, StatusTypes DEF Ids
<1>4. Served(q, p) /\ q.rows = p.rows /\ q.total = p.total /\ q.was = was
      BY <1>2, <1>3, AnsweredStatus
<1>5. call' = [call EXCEPT ![c] = q]
      BY <1>1
<1> HIDE DEF q
<1>6. q.kind = p.kind /\ q.order = p.order
      BY <1>4 DEF Served
<1>7. IsTrue([id |-> q.order, status |-> q.was], status)
      BY <1>3, <1>4, <1>6 DEF IsTrue
<1>8. Tells(q, status)
      BY <1>1, <1>2, <1>3, <1>4, <1>6, <1>7 DEF Tells
<1>9. Replaced(c, q)
      BY <1>5 DEF Replaced
<1>10. CASE screen = "desk"
       <2>1. Grows(status, status') /\ status' \in Seq(Statuses) /\ Len(status') <= MaxOrders /\ status' = status
             BY <1>1, <1>2, StillGrows
       <2> QED  BY <1>1, <1>4, <1>8, <1>9, <1>10, <2>1, DeskServed
<1>11. CASE screen = "customer"
       BY <1>1, <1>4, <1>6, <1>8, <1>9, <1>11, CustomerServed
<1> QED  BY <1>10, <1>11 DEF OrdersInv, ScreensTypeOK

LEMMA WriteKeeps ==
    ASSUME OrdersInv, NEW c \in Calls, NEW kind \in {"update", "delete"}, NEW done \in BOOLEAN, NEW allowed \in BOOLEAN, NEW new,
           Write(c, kind, done, allowed, new),
           call[c].kind = kind => new = (IF kind = "update" THEN call[c].to ELSE "DELETED"),
           done => status[call[c].order] = new,
           allowed => new \in EditableTransitions(status[call[c].order]) \/ (new = "DELETED" /\ status[call[c].order] \in DeletableStatuses),
           kind = "update" => allowed = MayBecome(call[c].order, call[c].to)
    PROVE  OrdersInv'
<1> DEFINE p == call[c]
           o == p.order
           was == status[o]
           ok == done \/ allowed
           q == [p EXCEPT !.pc = "handled", !.ok = ok, !.was = was]
<1>1. /\ UNCHANGED <<moves, desk, mine, screen>> /\ p # Idle /\ p.kind = kind
      /\ status' = (IF allowed /\ ~done THEN [status EXCEPT ![o] = new] ELSE status)
      /\ call' = [call EXCEPT ![c].pc = "handled", ![c].ok = ok, ![c].was = was]
      BY DEF Write, Sent
<1>2. p \in Call /\ Asks(p, screen, status) /\ Tells(p, status) /\ status \in Seq(Statuses) /\ Len(status) <= MaxOrders
      BY <1>1, CallFacts, DeskFacts
<1>3. o \in Ids /\ was \in Statuses /\ o \in DOMAIN status
      <2>1. o \in Ids
            BY <1>1, <1>2 DEF Asks, AboutOne, Ids
      <2>2. ScreensTypeOK
            BY DEF OrdersInv
      <2> QED  BY <2>1, <2>2, StatusTypes DEF Ids
<1>4. screen = "desk" /\ (kind = "update" => p.shown \in Row /\ p.to \in DetailActions(p.shown.status))
      BY <1>1, <1>2 DEF Asks, AsksOf
<1>5. status' \in Seq(Statuses) /\ Len(status') <= MaxOrders /\ Grows(status, status')
      <2>1. CASE allowed /\ ~done
            <3>1. status' = [status EXCEPT ![o] = new] /\ ScreensTypeOK
                  BY <1>1, <2>1 DEF OrdersInv
            <3> QED  BY <1>3, <2>1, <3>1, MovedGrows
      <2>2. CASE ~(allowed /\ ~done)
            <3>1. status' = status
                  BY <1>1, <2>2
            <3> QED  BY <1>2, <3>1, StillGrows
      <2> QED  BY <2>1, <2>2
<1>6. ok \in BOOLEAN
      OBVIOUS
<1>7. ok => status'[o] = new
      BY <1>1, <1>3
<1>8. Served(q, p) /\ q.rows = p.rows /\ q.total = p.total /\ q.was = was /\ q.ok = ok
      <2> HIDE DEF p, was, ok
      <2>1. p \in Call /\ was \in Statuses /\ ok \in BOOLEAN
            BY <1>2, <1>3, <1>6
      <2> QED  BY <2>1, AnsweredWrite
<1>9. call' = [call EXCEPT ![c] = q]
      BY <1>1
<1>10. o \in DOMAIN status'
       BY <1>3, <1>5 DEF Grows
<1> HIDE DEF q
<1>11. q.kind = kind /\ q.order = o /\ q.to = p.to /\ q.shown = p.shown
       BY <1>1, <1>8 DEF Served
<1>12. q.ok => IsTrue([id |-> q.order, status |-> IF kind = "update" THEN q.to ELSE "DELETED"], status')
       BY <1>1, <1>7, <1>8, <1>10, <1>11 DEF IsTrue
<1>13. kind = "update" /\ ~q.ok => q.was # q.shown.status \/ (q.to = "PAID" /\ q.order \in Online)
       <2> SUFFICES ASSUME kind = "update", ~q.ok, q.was = q.shown.status PROVE q.to = "PAID" /\ q.order \in Online
           OBVIOUS
       <2>1. ~MayBecome(o, p.to) /\ was = p.shown.status
             BY <1>8, <1>11
       <2>2. p.to \in EditableTransitions(was)
             BY <1>3, <1>4, <2>1, OffersAreAccepted
       <2> QED  BY <1>11, <2>1, <2>2 DEF MayBecome
<1>14. AreTrue(q.rows, status') /\ q.total <= MaxOrders
       BY <1>2, <1>5, <1>8, TruthStays DEF Tells
<1>15. Tells(q, status')
       BY <1>11, <1>12, <1>13, <1>14 DEF Tells
<1>16. Replaced(c, q)
       BY <1>9 DEF Replaced
<1> QED  BY <1>1, <1>4, <1>5, <1>8, <1>15, <1>16, DeskServed

LEMMA ServeKeeps == ASSUME OrdersInv, NEW c \in Calls, Serve(c) PROVE OrdersInv'
<1>1. CASE UpdateOrderStatus(c)
      <2> DEFINE o == call[c].order
                 s == call[c].to
                 done == status[o] = s
                 allowed == MayBecome(o, s)
      <2>1. Write(c, "update", done, allowed, s)
            BY <1>1 DEF UpdateOrderStatus
      <2>2. done \in BOOLEAN /\ allowed \in BOOLEAN
            BY DEF MayBecome
      <2>3. allowed => s \in EditableTransitions(status[o])
            BY DEF MayBecome
      <2>4. done => status[o] = s
            OBVIOUS
      <2>5. allowed = MayBecome(call[c].order, call[c].to)
            OBVIOUS
      <2> HIDE DEF done, allowed
      <2> QED  BY <2>1, <2>2, <2>3, <2>4, <2>5, WriteKeeps
<1>2. CASE DeleteOrder(c)
      <2> DEFINE o == call[c].order
                 done == status[o] = "DELETED"
                 allowed == status[o] \in DeletableStatuses
      <2>1. Write(c, "delete", done, allowed, "DELETED")
            BY <1>2 DEF DeleteOrder
      <2>2. done \in BOOLEAN /\ allowed \in BOOLEAN
            OBVIOUS
      <2>3. allowed => status[o] \in DeletableStatuses
            OBVIOUS
      <2>4. done => status[o] = "DELETED"
            OBVIOUS
      <2> HIDE DEF done, allowed
      <2> QED  BY <2>1, <2>2, <2>3, <2>4, WriteKeeps
<1> QED  BY <1>1, <1>2, GetOrdersKeeps, GetOrderDetailKeeps DEF Serve

-----------------------------------------------------------------------------
(* Orders come and move elsewhere. *)
LEMMA ElsewhereStep ==
    ASSUME OrdersInv, Elsewhere, status' \in Seq(Statuses), Len(status') <= MaxOrders, Grows(status, status')
    PROVE  OrdersInv'
<1>1. desk' = desk /\ call' = call /\ screen' = screen /\ moves' \in Nat /\ mine' = [mine EXCEPT !.disturbed = TRUE, !.repair = None]
      BY DEF Elsewhere, OrdersInv, ScreensTypeOK
<1>2. mine \in ListState /\ AreTrue(mine.rows, status) /\ (mine.detail # None => IsTrue(mine.detail, status)) /\ call \in [Calls -> {Idle} \cup Call]
      BY DEF OrdersInv, ScreensTypeOK, ShownIsTrue
<1>3. mine' \in ListState /\ mine'.rows = mine.rows /\ mine'.page = mine.page /\ mine'.total = mine.total /\ mine'.more = mine.more /\ mine'.detail = mine.detail
      /\ mine'.disturbed = TRUE /\ mine'.repair = None
      BY <1>1, <1>2 DEF ListState
<1>4. CallsAreTrue'
      BY <1>1, CallsAreLeft
<1>5. AreTrue(mine'.rows, status') /\ (mine'.detail # None => IsTrue(mine'.detail, status'))
      BY <1>2, <1>3, TruthStays
<1>6. ScreensTypeOK'
      BY <1>1, <1>3 DEF OrdersInv, ScreensTypeOK
<1>7. ShownIsTrue'
      <2>1. AreTrue(desk'.rows, status') /\ (desk'.detail # None => IsTrue(desk'.detail, status')) /\ (desk'.confirm # None => desk'.detail # None)
            BY <1>1, TruthStays DEF OrdersInv, ShownIsTrue
      <2> QED  BY <1>5, <2>1 DEF ShownIsTrue
<1>8. SpinnersStop' /\ NoOrderTwice' /\ OneMore'
      BY <1>1, <1>3 DEF OrdersInv, SpinnersStop, Waiting, NoOrderTwice, OneMore
<1>9. PagesFit'
      BY <1>1, <1>3 DEF OrdersInv, PagesFit, NotLoaded
<1> QED  BY <1>4, <1>6, <1>7, <1>8, <1>9 DEF OrdersInv

LEMMA PlaceOrderKeeps == ASSUME OrdersInv, PlaceOrder PROVE OrdersInv'
<1>1. status \in Seq(Statuses) /\ Len(status) < MaxOrders /\ status' = Append(status, "PENDING_PAYMENT") /\ "PENDING_PAYMENT" \in Statuses /\ MaxOrders \in Nat /\ Elsewhere
      BY OrderViewsAssumption DEF OrdersInv, ScreensTypeOK, PlaceOrder, Statuses
<1>2. /\ status' \in Seq(Statuses) /\ Len(status') = Len(status) + 1 /\ Len(status) \in Nat
      /\ \A i \in 1 .. Len(status) : status'[i] = status[i]
      BY <1>1, AppendProperties, LenProperties
<1>3. DOMAIN status = 1 .. Len(status) /\ DOMAIN status' = 1 .. Len(status) + 1
      BY <1>1, <1>2, LenProperties
<1>4. Grows(status, status')
      BY <1>2, <1>3 DEF Grows
<1> QED  BY <1>1, <1>2, <1>4, ElsewhereStep

LEMMA MoveOrderKeeps == ASSUME OrdersInv, MoveOrder PROVE OrdersInv'
<1>1. PICK o \in Ids, s \in Statuses :
         /\ s \in EditableTransitions(status[o]) \/ (s = "DELETED" /\ status[o] \in DeletableStatuses)
         /\ status' = [status EXCEPT ![o] = s]
      BY DEF MoveOrder
<1>2. ScreensTypeOK /\ Elsewhere
      BY DEF OrdersInv, MoveOrder
<1>3. status' \in Seq(Statuses) /\ Len(status') <= MaxOrders /\ Grows(status, status')
      BY <1>1, <1>2, MovedGrows
<1> QED  BY <1>2, <1>3, ElsewhereStep

-----------------------------------------------------------------------------
(* The customer asks and is answered. *)
LEMMA AskedByCustomer ==
    ASSUME OrdersInv, screen = "customer", NEW q, NEW kind \in {"show", "more", "view"}, NEW order, NEW page,
           IsRequest(q, kind, order, None, page, None, "none"),
           kind = "view" => order \in Ids, kind = "show" => page = 1, kind = "more" => page \in 2 .. MaxPages
    PROVE  q \in {Idle} \cup Call /\ Asks(q, screen, status) /\ Tells(q, status) /\ q.kind = kind /\ q.page = page /\ q.pc = "sent"
<1>1. kind \in AsksOf(screen) /\ kind # "update" /\ (kind \in AboutOne => kind = "view")
      BY DEF AsksOf, AboutOne
<1>2. Asks(q, screen, status) /\ Tells(q, status)
      BY <1>1, AskedIsFine
<1> QED  BY <1>2 DEF IsRequest

LEMMA ShowPageKeeps == ASSUME OrdersInv, NEW c \in Calls, ShowPage(c) PROVE OrdersInv'
<1> DEFINE q == Request("show", 0)
<1>1. Customer /\ screen = "customer" /\ Replaced(c, q) /\ call[c] = Idle
      /\ mine' = (IF \A d \in Calls : call[d] = Idle THEN [mine EXCEPT !.repair = c] ELSE mine)
      BY SentIs DEF ShowPage, Customer
<1>2. IsRequest(q, "show", 0, None, 1, None, "none")
      BY OrderViewsAssumption, OrderRequestFacts DEF Kinds
<1>3. q \in {Idle} \cup Call /\ Asks(q, screen, status) /\ Tells(q, status) /\ q.kind = "show" /\ q.pc = "sent"
      BY <1>1, <1>2, AskedByCustomer
<1> HIDE DEF q
<1>4. mine \in ListState /\ AreTrue(mine.rows, status) /\ (mine.detail # None => IsTrue(mine.detail, status))
      BY <1>1, CustomerFacts
<1>5. /\ mine' \in ListState /\ mine'.rows = mine.rows /\ mine'.page = mine.page /\ mine'.total = mine.total /\ mine'.more = mine.more /\ mine'.detail = mine.detail
      /\ mine'.disturbed = mine.disturbed /\ (mine'.repair = mine.repair \/ \A d \in Calls : call[d] = Idle)
      <2>1. CASE \A d \in Calls : call[d] = Idle
            <3>1. mine' = [mine EXCEPT !.repair = c]
                  BY <1>1, <2>1
            <3> QED  BY <1>4, <2>1, <3>1 DEF ListState
      <2>2. CASE ~\A d \in Calls : call[d] = Idle
            BY <1>1, <1>4, <2>2
      <2> QED  BY <2>1, <2>2
<1>6. OneMore'
      BY <1>1, <1>3, <1>5, OneMoreStays
<1>7. PagesFit'
      BY <1>1, <1>3, <1>5, PagesFitOn
<1>8. NoOrderTwice'
      BY <1>5 DEF OrdersInv, NoOrderTwice
<1> QED  BY <1>1, <1>3, <1>4, <1>5, <1>6, <1>7, <1>8, CustomerCallStep

LEMMA GoDetailKeeps == ASSUME OrdersInv, NEW c \in Calls, GoDetail(c) PROVE OrdersInv'
<1>1. Customer /\ screen = "customer" /\ mine' = [mine EXCEPT !.detail = None]
      BY DEF GoDetail, Customer
<1>2. PICK k \in DOMAIN mine.rows : Send(c, Request("view", mine.rows[k].id))
      BY DEF GoDetail
<1> DEFINE o == mine.rows[k].id
           q == Request("view", o)
<1>3. o \in Ids /\ o \in 0 .. MaxOrders /\ "view" \in Kinds
      <2>1. o \in Ids /\ Ids \subseteq 1 .. MaxOrders
            BY <1>1, CustomerFacts, DeskFacts
      <2> QED  BY <2>1, OrderViewsAssumption DEF Kinds
<1>4. IsRequest(q, "view", o, None, 1, None, "none")
      BY <1>3, OrderRequestFacts
<1>5. q \in {Idle} \cup Call /\ Asks(q, screen, status) /\ Tells(q, status) /\ q.kind = "view" /\ q.pc = "sent"
      BY <1>1, <1>3, <1>4, AskedByCustomer
<1>6. Replaced(c, q) /\ call[c] = Idle
      BY <1>2, SentIs
<1> HIDE DEF q, o
<1>7. mine \in ListState /\ AreTrue(mine.rows, status)
      BY <1>1, CustomerFacts
<1>8. /\ mine' \in ListState /\ mine'.rows = mine.rows /\ mine'.page = mine.page /\ mine'.total = mine.total /\ mine'.more = mine.more /\ mine'.detail = None
      /\ mine'.disturbed = mine.disturbed /\ mine'.repair = mine.repair
      BY <1>1, <1>7 DEF ListState
<1>9. OneMore'
      BY <1>5, <1>6, <1>8, OneMoreStays
<1>10. PagesFit'
       BY <1>1, <1>5, <1>6, <1>8, PagesFitOn
<1>11. NoOrderTwice'
       BY <1>8 DEF OrdersInv, NoOrderTwice
<1> QED  BY <1>1, <1>5, <1>6, <1>7, <1>8, <1>9, <1>10, <1>11, CustomerCallStep

LEMMA ShowOrderKeeps == ASSUME OrdersInv, NEW c \in Calls, ShowOrder(c) PROVE OrdersInv'
<1> DEFINE p == call[c]
           row == [id |-> p.order, status |-> p.was]
<1>1. Customer /\ screen = "customer" /\ mine' = [mine EXCEPT !.detail = row] /\ p # Idle /\ p.kind = "view" /\ p.pc = "handled" /\ Replaced(c, Idle)
      BY EndedIs DEF ShowOrder, Customer, Handled
<1>2. p \in Call /\ Asks(p, screen, status) /\ Tells(p, status)
      BY <1>1, CallFacts
<1>3. IsTrue(row, status) /\ p.was \in Statuses /\ p.order \in Ids
      BY <1>1, <1>2 DEF Tells, Asks, AboutOne, Ids
<1>4. row \in Row
      <2>1. p.order \in 1 .. MaxOrders
            BY <1>3, DeskFacts
      <2> QED  BY <1>3, <2>1 DEF Row
<1> HIDE DEF row
<1>5. mine \in ListState /\ AreTrue(mine.rows, status)
      BY <1>1, CustomerFacts
<1>6. /\ mine' \in ListState /\ mine'.rows = mine.rows /\ mine'.page = mine.page /\ mine'.total = mine.total /\ mine'.more = mine.more /\ mine'.detail = row
      /\ mine'.disturbed = mine.disturbed /\ mine'.repair = mine.repair
      BY <1>1, <1>4, <1>5 DEF ListState
<1>7. Idle.kind = "none"
      BY IdleFacts
<1>8. OneMore'
      BY <1>1, <1>6, <1>7, OneMoreStays
<1>9. PagesFit'
      BY <1>1, <1>6, <1>7, PagesFitOn
<1>10. NoOrderTwice'
       BY <1>6 DEF OrdersInv, NoOrderTwice
<1> QED  BY <1>1, <1>3, <1>5, <1>6, <1>8, <1>9, <1>10, CustomerCallStep

LEMMA FailAtCustomerKeeps == ASSUME OrdersInv, NEW c \in Calls, FailAtCustomer(c) PROVE OrdersInv'
<1> DEFINE p == call[c]
<1>1. Customer /\ screen = "customer" /\ p # Idle /\ Replaced(c, Idle)
      /\ mine' = (IF p.kind = "more" THEN [mine EXCEPT !.more = FALSE] ELSE mine)
      BY EndedIs DEF FailAtCustomer, Customer
<1>2. mine \in ListState /\ AreTrue(mine.rows, status) /\ (mine.detail # None => IsTrue(mine.detail, status))
      BY <1>1, CustomerFacts
<1>3. /\ mine' \in ListState /\ mine'.rows = mine.rows /\ mine'.page = mine.page /\ mine'.total = mine.total /\ mine'.detail = mine.detail
      /\ mine'.disturbed = mine.disturbed /\ mine'.repair = mine.repair /\ (mine'.more => mine.more) /\ (mine.more => mine'.more \/ p.kind = "more")
      <2>1. CASE p.kind = "more"
            <3>1. mine' = [mine EXCEPT !.more = FALSE] /\ OneMore
                  BY <1>1, <2>1 DEF OrdersInv
            <3>2. mine' \in ListState /\ mine'.rows = mine.rows /\ mine'.page = mine.page /\ mine'.total = mine.total /\ mine'.detail = mine.detail
                  /\ mine'.disturbed = mine.disturbed /\ mine'.repair = mine.repair /\ mine'.more = FALSE
                  BY <1>2, <3>1 DEF ListState
            <3> QED  BY <2>1, <3>2
      <2>2. CASE p.kind # "more"
            BY <1>1, <1>2, <2>2
      <2> QED  BY <2>1, <2>2
<1>4. Idle.kind = "none"
      BY IdleFacts
<1>5. OneMore'
      BY <1>1, <1>3, <1>4, OneMoreStays
<1>6. PagesFit'
      BY <1>1, <1>3, <1>4, PagesFitOn
<1>7. NoOrderTwice'
      BY <1>3 DEF OrdersInv, NoOrderTwice
<1> QED  BY <1>1, <1>2, <1>3, <1>5, <1>6, <1>7, CustomerCallStep

LEMMA LoadMoreKeeps == ASSUME OrdersInv, NEW c \in Calls, LoadMore(c) PROVE OrdersInv'
<1> DEFINE page == mine.page + 1
           q == [Request("more", 0) EXCEPT !.page = page]
<1>1. Customer /\ screen = "customer" /\ Replaced(c, q) /\ call[c] = Idle /\ mine' = [mine EXCEPT !.more = TRUE]
      /\ ~mine.more /\ HasMore /\ mine.page < MaxPages
      BY SentIs DEF LoadMore, Customer
<1>2. mine \in ListState /\ AreTrue(mine.rows, status) /\ (mine.detail # None => IsTrue(mine.detail, status))
      /\ mine.rows \in Seq(Row) /\ mine.page \in 1 .. MaxPages /\ mine.total \in 0 .. MaxOrders
      BY <1>1, CustomerFacts
<1>3. page \in 2 .. MaxPages /\ page \in Nat /\ mine.page < page /\ MaxOrders \in Nat
      <2>1. mine.page \in Nat /\ mine.page >= 1 /\ MaxPages \in Nat /\ MaxOrders \in Nat
            BY <1>2, OrderViewsAssumption
      <2> QED  BY <1>1, <2>1
<1> HIDE DEF page
<1>4. IsRequest(q, "more", 0, None, page, None, "none")
      <2>1. "more" \in Kinds /\ 0 \in 0 .. MaxOrders /\ None \in Statuses \cup {None} /\ None \in Row \cup {None}
            BY <1>3 DEF Kinds
      <2>2. IsRequest(Request("more", 0), "more", 0, None, 1, None, "none")
            BY <2>1, OrderRequestFacts
      <2>3. Request("more", 0) \in Call
            BY <2>2 DEF IsRequest
      <2> QED  BY <1>3, <2>1, <2>2, <2>3, RequestWith
<1> HIDE DEF q
<1>5. q \in {Idle} \cup Call /\ Asks(q, screen, status) /\ Tells(q, status) /\ q.kind = "more" /\ q.pc = "sent" /\ q.page = page
      BY <1>1, <1>3, <1>4, AskedByCustomer
<1>6. /\ mine' \in ListState /\ mine'.rows = mine.rows /\ mine'.page = mine.page /\ mine'.total = mine.total /\ mine'.detail = mine.detail
      /\ mine'.disturbed = mine.disturbed /\ mine'.repair = mine.repair /\ mine'.more = TRUE
      BY <1>1, <1>2 DEF ListState
<1>7. call'[c] = q /\ \A d \in Calls : d # c => call'[d] = call[d]
      BY <1>1, <1>5, ReplacedFacts DEF OrdersInv
<1>8. \A d \in Calls : call[d].kind # "more"
      BY <1>1 DEF OrdersInv, OneMore
<1>9. \A d \in Calls : call'[d].kind = "more" => d = c
      BY <1>7, <1>8
<1>10. OneMore'
       <2>1. Len(mine'.rows) <= mine'.page * PageSize
             BY <1>6 DEF OrdersInv, OneMore
       <2>2. \A d \in Calls : call'[d].kind = "more" => mine'.more /\ mine'.page < call'[d].page
             BY <1>3, <1>5, <1>6, <1>7, <1>9
       <2> QED  BY <1>9, <2>1, <2>2 DEF OneMore
<1>11. PagesFit'
       <2>1. PagesFit /\ Now' = Now /\ screen' = "customer"
             BY <1>1, NowStays DEF OrdersInv, Customer
       <2>2. ~NotLoaded
             <3>1. Len(mine.rows) \in Nat /\ Len(mine.rows) < mine.total
                   BY <1>1, <1>2, LenProperties DEF HasMore
             <3> QED  BY <1>2, <3>1 DEF NotLoaded
       <2>3. ~mine'.disturbed => mine'.rows = FirstPages(Now', mine'.page)
             BY <1>6, <2>1, <2>2 DEF PagesFit
       <2>4. \A d \in Calls : call'[d].kind = "more" => call'[d].page = mine'.page + 1
             BY <1>5, <1>6, <1>7, <1>9 DEF page
       <2>5. ASSUME ~mine'.disturbed \/ mine'.repair # None, NEW d \in Calls, call'[d].kind \in {"show", "more"}, call'[d].pc = "handled"
             PROVE  call'[d].rows = PageOf(Now', call'[d].page)
             <3>1. d # c /\ call'[d] = call[d]
                   BY <1>5, <1>7, <2>5
             <3> QED  BY <1>6, <2>1, <2>5, <3>1 DEF PagesFit
       <2> QED  BY <2>1, <2>3, <2>4, <2>5 DEF PagesFit
<1>12. NoOrderTwice'
       BY <1>6 DEF OrdersInv, NoOrderTwice
<1> QED  BY <1>1, <1>2, <1>5, <1>6, <1>10, <1>11, <1>12, CustomerCallStep

LEMMA ShowFirstPageKeeps == ASSUME OrdersInv, NEW c \in Calls, ShowFirstPage(c) PROVE OrdersInv'
<1> DEFINE p == call[c]
           disturbed == More \/ (mine.disturbed /\ mine.repair # c)
<1>1. Customer /\ screen = "customer" /\ Replaced(c, Idle) /\ p # Idle /\ p.kind = "show" /\ p.pc = "handled"
      /\ mine' = [mine EXCEPT !.rows = p.rows, !.page = 1, !.total = p.total, !.disturbed = disturbed]
      BY EndedIs DEF ShowFirstPage, Customer, Handled
<1>2. p \in Call /\ Asks(p, screen, status) /\ Tells(p, status)
      BY <1>1, CallFacts
<1>3. mine \in ListState /\ (mine.detail # None => IsTrue(mine.detail, status)) /\ mine.disturbed \in BOOLEAN
      BY <1>1, CustomerFacts
<1>4. p.rows \in Seq(Row) /\ p.total \in 0 .. MaxOrders /\ p.page = 1 /\ AreTrue(p.rows, status) /\ Distinct(p.rows) /\ Len(p.rows) <= PageSize
      BY <1>1, <1>2, OrderViewsAssumption DEF Call, Asks, Tells
<1>5. 1 \in 1 .. MaxPages /\ PageSize = 1 * PageSize
      BY OrderViewsAssumption
<1>6. disturbed \in BOOLEAN
      BY <1>3 DEF More
<1>7. ~disturbed => (\A d \in Calls : call[d].kind # "more") /\ (~mine.disturbed \/ mine.repair # None)
      <2> SUFFICES ASSUME ~disturbed PROVE (\A d \in Calls : call[d].kind # "more") /\ (~mine.disturbed \/ mine.repair # None)
          OBVIOUS
      <2>1. \A d \in Calls : call[d].kind # "more"
            BY IdleFacts DEF More
      <2>2. None \notin Calls
            BY OrderViewsAssumption
      <2> QED  BY <2>1, <2>2
<1> HIDE DEF disturbed
<1>8. /\ mine' \in ListState /\ mine'.rows = p.rows /\ mine'.page = 1 /\ mine'.total = p.total /\ mine'.detail = mine.detail
      /\ mine'.disturbed = disturbed /\ mine'.repair = mine.repair /\ mine'.more = mine.more
      BY <1>1, <1>3, <1>4, <1>5, <1>6 DEF ListState
<1>9. call'[c] = Idle /\ (\A d \in Calls : d # c => call'[d] = call[d]) /\ Idle.kind = "none"
      BY <1>1, ReplacedFacts, IdleFacts DEF OrdersInv
<1>10. OneMore'
       <2>1. \A d \in Calls : call'[d].kind = "more" => call[d].kind = "more" /\ call'[d] = call[d]
             BY <1>9
       <2>2. ASSUME NEW d \in Calls, call'[d].kind = "more"
             PROVE  mine'.more /\ mine'.page < call'[d].page
             <3>1. call[d].kind = "more" /\ call'[d] = call[d] /\ call[d] # Idle
                   BY <1>9, <2>1, <2>2
             <3>2. call[d].page \in 2 .. MaxPages
                   BY <3>1, CallFacts DEF Asks
             <3>3. mine.more
                   BY <3>1 DEF OrdersInv, OneMore
             <3> QED  BY <1>8, <3>1, <3>2, <3>3
       <2>3. \A d, e \in Calls : call'[d].kind = "more" /\ call'[e].kind = "more" => d = e
             BY <2>1 DEF OrdersInv, OneMore
       <2>4. Len(mine'.rows) <= mine'.page * PageSize
             BY <1>4, <1>5, <1>8
       <2> QED  BY <2>2, <2>3, <2>4 DEF OneMore
<1>11. PagesFit'
       <2>1. PagesFit /\ Now' = Now /\ screen' = "customer"
             BY <1>1, NowStays DEF OrdersInv, Customer
       <2>2. ~mine'.disturbed => mine'.rows = FirstPages(Now', mine'.page)
             <3> SUFFICES ASSUME ~disturbed PROVE p.rows = FirstPages(Now, 1)
                 BY <1>8, <2>1
             <3>1. p.rows = PageOf(Now, 1)
                   BY <1>1, <1>4, <1>7, <2>1 DEF PagesFit
             <3>2. (1 - 1) * PageSize + 1 = 1
                   BY OrderViewsAssumption
             <3> QED  BY <3>1, <3>2 DEF PageOf, FirstPages
       <2>3. ~mine'.disturbed => \A d \in Calls : call'[d].kind = "more" => call'[d].page = mine'.page + 1
             BY <1>7, <1>8, <1>9
       <2>4. ASSUME ~mine'.disturbed \/ mine'.repair # None, NEW d \in Calls, call'[d].kind \in {"show", "more"}, call'[d].pc = "handled"
             PROVE  call'[d].rows = PageOf(Now', call'[d].page)
             <3>1. d # c /\ call'[d] = call[d]
                   BY <1>9, <2>4
             <3>2. ~mine.disturbed \/ mine.repair # None
                   BY <1>7, <1>8, <2>4
             <3> QED  BY <2>1, <2>4, <3>1, <3>2 DEF PagesFit
       <2> QED  BY <2>1, <2>2, <2>3, <2>4 DEF PagesFit
<1>12. NoOrderTwice'
       BY <1>4, <1>8 DEF Distinct, NoOrderTwice
<1> QED  BY <1>1, <1>3, <1>4, <1>8, <1>10, <1>11, <1>12, CustomerCallStep

LEMMA FirstPagesFacts ==
    ASSUME NEW rows \in Seq(Row), NEW page \in Nat \ {0}
    PROVE  /\ FirstPages(rows, page) \in Seq(Row)
           /\ Len(FirstPages(rows, page)) = (IF page * PageSize < Len(rows) THEN page * PageSize ELSE Len(rows))
           /\ \A k \in 1 .. Len(FirstPages(rows, page)) : k \in DOMAIN rows /\ FirstPages(rows, page)[k] = rows[k]
<1> DEFINE upto == page * PageSize
           n == Len(rows)
           last == IF upto < n THEN upto ELSE n
<1>1. upto \in Nat /\ n \in Nat /\ DOMAIN rows = 1 .. n
      BY PageArithmetic, LenProperties
<1>2. FirstPages(rows, page) = SubSeq(rows, 1, last)
      BY DEF FirstPages
<1> HIDE DEF upto, n
<1>3. last \in Nat /\ last <= n
      BY <1>1
<1>4. \A i \in 1 .. last : i \in DOMAIN rows /\ rows[i] \in Row
      BY <1>1, <1>3, ElementOfSeq DEF n
<1> HIDE DEF last
<1>5. SubSeq(rows, 1, last) \in Seq(Row) /\ Len(SubSeq(rows, 1, last)) = (IF 1 <= last THEN last - 1 + 1 ELSE 0)
      BY <1>3, <1>4, SubSeqProperties
<1>6. \A i \in 1 .. last - 1 + 1 : SubSeq(rows, 1, last)[i] = rows[1 + i - 1]
      BY <1>3, <1>4, SubSeqProperties
<1>7. Len(SubSeq(rows, 1, last)) = last
      BY <1>3, <1>5
<1>8. \A i \in 1 .. last : SubSeq(rows, 1, last)[i] = rows[i]
      BY <1>3, <1>6
<1> QED  BY <1>2, <1>4, <1>5, <1>7, <1>8 DEF last, upto, n

(* The next page of a list is all new, and makes it one page longer. *)
LEMMA NextPageFits ==
    ASSUME Now \in Seq(Row), Distinct(Now), NEW page \in Nat \ {0}, mine.rows = FirstPages(Now, page)
    PROVE  /\ Added(PageOf(Now, page + 1)) = PageOf(Now, page + 1)
           /\ mine.rows \o PageOf(Now, page + 1) = FirstPages(Now, page + 1)
<1> DEFINE first == FirstPages(Now, page)
           next == PageOf(Now, page + 1)
           both == FirstPages(Now, page + 1)
           size == PageSize
           upto == page * PageSize
           n == Len(Now)
<1>1. upto \in Nat /\ size \in Nat \ {0} /\ (page + 1) * PageSize = upto + size /\ n \in Nat /\ page + 1 \in Nat \ {0} /\ (page + 1 - 1) * PageSize = upto
      <2>1. page + 1 - 1 = page /\ page + 1 \in Nat \ {0}
            OBVIOUS
      <2>2. n \in Nat
            BY LenProperties
      <2>3. upto \in Nat /\ size \in Nat \ {0} /\ (page + 1) * PageSize = upto + size
            BY PageArithmetic
      <2> QED  BY <2>1, <2>2, <2>3
<1>2. /\ first \in Seq(Row) /\ Len(first) = (IF upto < n THEN upto ELSE n)
      /\ \A k \in 1 .. Len(first) : k \in DOMAIN Now /\ first[k] = Now[k]
      BY FirstPagesFacts
<1>3. /\ both \in Seq(Row) /\ Len(both) = (IF upto + size < n THEN upto + size ELSE n)
      /\ \A k \in 1 .. Len(both) : k \in DOMAIN Now /\ both[k] = Now[k]
      BY <1>1, FirstPagesFacts
<1>4. /\ next \in Seq(Row) /\ DOMAIN next = 1 .. Len(next)
      /\ \A k \in DOMAIN next : upto + k \in DOMAIN Now /\ next[k] = Now[upto + k]
      /\ Len(next) = IF upto + size <= n THEN size ELSE IF upto <= n THEN n - upto ELSE 0
      BY <1>1, PageFacts
<1>5. DOMAIN first = 1 .. Len(first) /\ Len(first) \in Nat /\ Len(next) \in Nat
      BY <1>2, <1>4, LenProperties
<1>6. mine.rows = first
      OBVIOUS
<1> HIDE DEF first, next, both, size, upto, n
<1>7. \A k \in DOMAIN next : next[k].id \notin Known
      <2> SUFFICES ASSUME NEW k \in DOMAIN next, NEW j \in DOMAIN first, first[j].id = next[k].id PROVE FALSE
          BY <1>6 DEF Known
      <2>1. Now[j].id = Now[upto + k].id /\ j \in DOMAIN Now /\ upto + k \in DOMAIN Now
            BY <1>2, <1>4, <1>5
      <2>2. j = upto + k
            BY <2>1 DEF Distinct
      <2>3. j <= upto /\ j \in Nat /\ k \in 1 .. Len(next)
            BY <1>1, <1>2, <1>4, <1>5
      <2> QED  BY <1>1, <1>5, <2>2, <2>3
<1>8. Added(next) = next
      BY <1>4, <1>7, AddedFacts
<1>9. first \o next = both
      <2>1. first \o next \in Seq(Row) /\ Len(first \o next) = Len(first) + Len(next)
            /\ \A i \in 1 .. Len(first) + Len(next) : (first \o next)[i] = IF i <= Len(first) THEN first[i] ELSE next[i - Len(first)]
            BY <1>2, <1>4, ConcatProperties
      <2>2. Len(first) + Len(next) = Len(both)
            BY <1>1, <1>2, <1>3, <1>4
      <2>3. ASSUME NEW i \in 1 .. Len(both)
            PROVE  (first \o next)[i] = both[i]
            <3>1. CASE i <= Len(first)
                  <4>1. i \in 1 .. Len(first) /\ (first \o next)[i] = first[i]
                        BY <1>5, <2>1, <2>2, <3>1
                  <4> QED  BY <1>2, <1>3, <4>1
            <3>2. CASE ~(i <= Len(first))
                  <4>1. i - Len(first) \in 1 .. Len(next) /\ (first \o next)[i] = next[i - Len(first)]
                        BY <1>5, <2>1, <2>2, <3>2
                  <4>2. Len(first) = upto
                        BY <1>1, <1>2, <1>3, <1>4, <1>5, <4>1
                  <4>3. next[i - Len(first)] = Now[upto + (i - Len(first))] /\ upto + (i - Len(first)) = i
                        BY <1>1, <1>4, <4>1, <4>2
                  <4> QED  BY <1>3, <4>1, <4>3
            <3> QED  BY <3>1, <3>2
      <2> QED  BY <1>3, <2>1, <2>2, <2>3, SeqEqual
<1> QED  BY <1>6, <1>8, <1>9 DEF next, both, first

LEMMA LaterPageIsLarger ==
    ASSUME NEW a \in Nat, NEW b \in Nat, a < b
    PROVE  a * PageSize \in Nat /\ b * PageSize \in Nat /\ a * PageSize + PageSize <= b * PageSize
<1>1. PageSize \in Nat
      BY OrderViewsAssumption
<1>2. b - a - 1 \in Nat /\ b = a + 1 + (b - a - 1)
      OBVIOUS
<1> DEFINE d == b - a - 1
<1>3. d * PageSize \in Nat /\ a * PageSize \in Nat
      BY <1>1, <1>2
<1> HIDE DEF d
<1>4. (a + 1 + d) * PageSize = a * PageSize + PageSize + d * PageSize
      <2>1. d \in Nat
            BY <1>2 DEF d
      <2> QED  BY <1>1, <2>1
<1>5. b * PageSize = a * PageSize + PageSize + d * PageSize
      BY <1>2, <1>4 DEF d
<1> QED  BY <1>1, <1>3, <1>5

LEMMA AddPageKeeps == ASSUME OrdersInv, NEW c \in Calls, AddPage(c) PROVE OrdersInv'
<1> DEFINE p == call[c]
           rows == mine.rows \o Added(p.rows)
<1>1. Customer /\ screen = "customer" /\ Replaced(c, Idle) /\ p # Idle /\ p.kind = "more" /\ p.pc = "handled"
      /\ mine' = [mine EXCEPT !.rows = rows, !.page = p.page, !.total = p.total, !.more = FALSE]
      BY EndedIs DEF AddPage, Customer, Handled
<1>2. p \in Call /\ Asks(p, screen, status) /\ Tells(p, status)
      BY <1>1, CallFacts
<1>3. mine \in ListState /\ mine.rows \in Seq(Row) /\ AreTrue(mine.rows, status) /\ (mine.detail # None => IsTrue(mine.detail, status)) /\ mine.page \in 1 .. MaxPages
      BY <1>1, CustomerFacts
<1>4. p.rows \in Seq(Row) /\ p.total \in 0 .. MaxOrders /\ p.page \in 2 .. MaxPages /\ AreTrue(p.rows, status) /\ Distinct(p.rows) /\ Len(p.rows) <= PageSize
      BY <1>1, <1>2, OrderViewsAssumption DEF Call, Asks, Tells
<1>5. mine.page < p.page /\ Len(mine.rows) <= mine.page * PageSize /\ \A d \in Calls : call[d].kind = "more" => d = c
      BY <1>1 DEF OrdersInv, OneMore
<1> DEFINE added == Added(p.rows)
<1>6. /\ added \in Seq(Row) /\ Len(added) <= Len(p.rows) /\ Distinct(added) /\ AreTrue(added, status)
      /\ \A k \in DOMAIN added : added[k].id \notin Known
      BY <1>4, AddedFacts
<1>7. /\ Len(mine.rows) \in Nat /\ DOMAIN mine.rows = 1 .. Len(mine.rows) /\ Len(added) \in Nat /\ DOMAIN added = 1 .. Len(added) /\ Len(p.rows) \in Nat
      BY <1>3, <1>4, <1>6, LenProperties
<1> HIDE DEF p, added
<1>8. /\ rows \in Seq(Row) /\ Len(rows) = Len(mine.rows) + Len(added)
      /\ \A i \in 1 .. Len(mine.rows) + Len(added) : rows[i] = IF i <= Len(mine.rows) THEN mine.rows[i] ELSE added[i - Len(mine.rows)]
      /\ DOMAIN rows = 1 .. Len(mine.rows) + Len(added)
      <2>1. rows = mine.rows \o added
            BY DEF added
      <2>2. /\ mine.rows \o added \in Seq(Row) /\ Len(mine.rows \o added) = Len(mine.rows) + Len(added)
            /\ \A i \in 1 .. Len(mine.rows) + Len(added) : (mine.rows \o added)[i] = IF i <= Len(mine.rows) THEN mine.rows[i] ELSE added[i - Len(mine.rows)]
            BY <1>3, <1>6, ConcatProperties
      <2>3. DOMAIN (mine.rows \o added) = 1 .. Len(mine.rows \o added)
            BY <2>2, LenProperties
      <2> QED  BY <2>1, <2>2, <2>3
<1> HIDE DEF rows
<1>9. ASSUME NEW i \in DOMAIN rows
      PROVE  \/ i \in DOMAIN mine.rows /\ rows[i] = mine.rows[i]
             \/ i - Len(mine.rows) \in DOMAIN added /\ rows[i] = added[i - Len(mine.rows)] /\ i > Len(mine.rows)
      BY <1>7, <1>8
<1>10. AreTrue(rows, status)
       BY <1>3, <1>6, <1>9 DEF AreTrue
<1>11. Distinct(rows)
       <2> SUFFICES ASSUME NEW i \in DOMAIN rows, NEW j \in DOMAIN rows, rows[i].id = rows[j].id PROVE i = j
           BY DEF Distinct
       <2>1. i \in Int /\ j \in Int
             BY <1>8, <1>7
       <2>2. CASE i \in DOMAIN mine.rows /\ rows[i] = mine.rows[i] /\ j \in DOMAIN mine.rows /\ rows[j] = mine.rows[j]
             BY <2>2 DEF OrdersInv, NoOrderTwice
       <2>3. CASE i - Len(mine.rows) \in DOMAIN added /\ rows[i] = added[i - Len(mine.rows)] /\ j - Len(mine.rows) \in DOMAIN added /\ rows[j] = added[j - Len(mine.rows)]
             <3>1. i - Len(mine.rows) = j - Len(mine.rows)
                   BY <1>6, <2>3 DEF Distinct
             <3> QED  BY <1>7, <2>1, <3>1
       <2>4. CASE i \in DOMAIN mine.rows /\ rows[i] = mine.rows[i] /\ j - Len(mine.rows) \in DOMAIN added /\ rows[j] = added[j - Len(mine.rows)]
             <3>1. rows[i].id \in Known
                   BY <2>4 DEF Known
             <3> QED  BY <1>6, <2>4, <3>1
       <2>5. CASE j \in DOMAIN mine.rows /\ rows[j] = mine.rows[j] /\ i - Len(mine.rows) \in DOMAIN added /\ rows[i] = added[i - Len(mine.rows)]
             <3>1. rows[j].id \in Known
                   BY <2>5 DEF Known
             <3> QED  BY <1>6, <2>5, <3>1
       <2> QED  BY <1>9, <2>2, <2>3, <2>4, <2>5
<1>12. p.page \in 1 .. MaxPages /\ p.page \in Nat /\ mine.page \in Nat \ {0} /\ PageSize \in Nat
       <2>1. MaxPages \in Nat /\ PageSize \in Nat
             BY OrderViewsAssumption
       <2> QED  BY <1>3, <1>4, <2>1
<1>13. /\ mine' \in ListState /\ mine'.rows = rows /\ mine'.page = p.page /\ mine'.total = p.total /\ mine'.detail = mine.detail
       /\ mine'.disturbed = mine.disturbed /\ mine'.repair = mine.repair /\ mine'.more = FALSE
       BY <1>1, <1>3, <1>4, <1>8, <1>12 DEF ListState
<1>14. call'[c] = Idle /\ (\A d \in Calls : d # c => call'[d] = call[d]) /\ Idle.kind = "none"
       BY <1>1, ReplacedFacts, IdleFacts DEF OrdersInv
<1>15. \A d \in Calls : call'[d].kind # "more"
       BY <1>5, <1>14
<1>16. OneMore'
       <2>1. mine.page * PageSize \in Nat /\ p.page * PageSize \in Nat /\ mine.page * PageSize + PageSize <= p.page * PageSize
             BY <1>5, <1>12, LaterPageIsLarger
       <2>2. Len(rows) <= p.page * PageSize
             <3> DEFINE x == mine.page * PageSize
                        y == p.page * PageSize
             <3>1. x \in Nat /\ y \in Nat /\ x + PageSize <= y /\ Len(mine.rows) <= x
                   BY <1>5, <2>1
             <3> HIDE DEF x, y
             <3>2. Len(rows) <= y
                   BY <1>4, <1>6, <1>7, <1>8, <1>12, <3>1
             <3> QED  BY <3>2 DEF y
       <2> QED  BY <1>13, <1>15, <2>2 DEF OneMore
<1>17. PagesFit'
       <2>1. PagesFit /\ Now' = Now /\ screen' = "customer" /\ mine.more
             BY <1>1, NowStays DEF OrdersInv, Customer, OneMore, p
       <2>2. ~mine'.disturbed => mine'.rows = FirstPages(Now', mine'.page)
             <3> SUFFICES ASSUME ~mine.disturbed PROVE rows = FirstPages(Now, p.page)
                 BY <1>13, <2>1
             <3>1. mine.rows = FirstPages(Now, mine.page) /\ p.page = mine.page + 1 /\ p.rows = PageOf(Now, p.page)
                   BY <1>1, <2>1 DEF PagesFit, NotLoaded, p
             <3>2. Now \in Seq(Row) /\ Distinct(Now)
                   BY NewestFacts DEF Now, OrdersInv, ScreensTypeOK
             <3>3. /\ Added(PageOf(Now, mine.page + 1)) = PageOf(Now, mine.page + 1)
                   /\ mine.rows \o PageOf(Now, mine.page + 1) = FirstPages(Now, mine.page + 1)
                   BY <1>12, <3>1, <3>2, NextPageFits
             <3> QED  BY <3>1, <3>3 DEF rows
       <2>3. ASSUME ~mine'.disturbed \/ mine'.repair # None, NEW d \in Calls, call'[d].kind \in {"show", "more"}, call'[d].pc = "handled"
             PROVE  call'[d].rows = PageOf(Now', call'[d].page)
             <3>1. d # c /\ call'[d] = call[d]
                   BY <1>14, <2>3
             <3> QED  BY <1>13, <2>1, <2>3, <3>1 DEF PagesFit
       <2> QED  BY <1>15, <2>1, <2>2, <2>3 DEF PagesFit
<1>18. NoOrderTwice'
       BY <1>11, <1>13 DEF Distinct, NoOrderTwice
<1> QED  BY <1>1, <1>3, <1>10, <1>13, <1>16, <1>17, <1>18, CustomerCallStep

LEMMA OrdersInit == ScreensInit => OrdersInv
<1> SUFFICES ASSUME ScreensInit PROVE OrdersInv
    OBVIOUS
<1>1. PICK s \in Scenes : screen = s.screen /\ status = s.status /\ moves = s.moves
      BY DEF ScreensInit, Init
<1>2. <<>> \in Seq(Row) /\ Len(<<>>) = 0 /\ DOMAIN <<>> = {} /\ 1 \in 1 .. MaxPages /\ 0 \in 0 .. MaxOrders /\ PageSize \in Nat
      BY EmptySeq, OrderViewsAssumption
<1>3. desk \in DeskState /\ desk.rows = <<>> /\ desk.detail = None /\ desk.confirm = None /\ ~desk.loading /\ ~desk.opening /\ desk.saving = None /\ ~desk.deleting
      BY <1>2 DEF ScreensInit, Init, DeskState
<1>4. mine \in ListState /\ mine.rows = <<>> /\ mine.page = 1 /\ mine.total = 0 /\ ~mine.more /\ mine.detail = None
      BY <1>2 DEF ScreensInit, Init, ListState
<1>5. call = [c \in Calls |-> Idle] /\ \A c \in Calls : call[c] = Idle /\ call[c].kind = "none"
      BY IdleFacts DEF ScreensInit, Init
<1>6. ScreensTypeOK
      BY <1>1, <1>3, <1>4, <1>5, OrderViewsAssumption DEF ScreensTypeOK
<1>7. ShownIsTrue
      BY <1>2, <1>3, <1>4 DEF ShownIsTrue, AreTrue
<1>8. CallsAreTrue /\ SpinnersStop
      BY <1>3, <1>5 DEF CallsAreTrue, SpinnersStop
<1>9. NoOrderTwice
      BY <1>2, <1>4 DEF NoOrderTwice
<1>10. OneMore
       <2>1. Len(mine.rows) <= mine.page * PageSize
             BY <1>2, <1>4
       <2> QED  BY <1>5, <2>1 DEF OneMore
<1>11. PagesFit
       BY <1>4, <1>5 DEF PagesFit, NotLoaded
<1> QED  BY <1>6, <1>7, <1>8, <1>9, <1>10, <1>11 DEF OrdersInv

LEMMA OrdersUntouched == OrdersInv /\ UNCHANGED vars => OrdersInv'
<1> SUFFICES ASSUME OrdersInv, UNCHANGED vars PROVE OrdersInv'
    OBVIOUS
<1>1. status' = status /\ moves' = moves /\ desk' = desk /\ mine' = mine /\ call' = call /\ screen' = screen
      BY DEF vars
<1>2. Now' = Now
      BY <1>1, NowStays
<1>3. PagesFit'
      BY <1>1, <1>2 DEF OrdersInv, PagesFit, NotLoaded
<1>4. ScreensTypeOK' /\ ShownIsTrue' /\ SpinnersStop' /\ NoOrderTwice' /\ OneMore'
      BY <1>1 DEF OrdersInv, ScreensTypeOK, ShownIsTrue, SpinnersStop, Waiting, NoOrderTwice, OneMore
<1>5. CallsAreTrue'
      BY <1>1, StillGrows, CallsAreLeft
<1> QED  BY <1>3, <1>4, <1>5 DEF OrdersInv

LEMMA OrdersStep == OrdersInv /\ [ScreensNext]_screenVars => OrdersInv'
<1> SUFFICES ASSUME OrdersInv, [ScreensNext]_screenVars PROVE OrdersInv'
    OBVIOUS
<1>1. CASE UNCHANGED vars
      BY <1>1, OrdersUntouched
<1>2. CASE Next
      <2>1. CASE PlaceOrder \/ MoveOrder \/ CloseDialog \/ HandleDeleteOrder \/ CancelDelete
            BY <2>1, PlaceOrderKeeps, MoveOrderKeeps, DialogKeeps
      <2>2. ASSUME NEW c \in Calls, Use(c)
            PROVE  OrdersInv'
            BY <2>2, FetchKeeps, OpenKeeps, StatusChangeKeeps, ConfirmDeleteKeeps, ShowPageKeeps, LoadMoreKeeps, GoDetailKeeps DEF Use
      <2>3. ASSUME NEW c \in Calls, Receive(c)
            PROVE  OrdersInv'
            BY <2>3, ShowOrdersKeeps, ShowDetailKeeps, ShowChangeKeeps, FailAtDeskKeeps, ShowFirstPageKeeps, AddPageKeeps, ShowOrderKeeps, FailAtCustomerKeeps DEF Receive
      <2> QED  BY <1>2, <2>1, <2>2, <2>3, ServeKeeps DEF Next
<1> QED  BY <1>1, <1>2 DEF ScreensNext, screenVars

LEMMA DeskIsSound == OrdersInv => DeskIsUsable
<1> SUFFICES ASSUME OrdersInv PROVE DeskIsUsable
    OBVIOUS
<1>1. TypeOK
      <2>1. ScreensTypeOK /\ desk \in DeskState /\ mine \in ListState /\ call \in [Calls -> {Idle} \cup Call]
            BY DEF OrdersInv, ScreensTypeOK
      <2>2. desk.rows \in Seq(Row) /\ desk.detail \in Row \cup {None} /\ desk.confirm \in Row \cup {None} /\ desk.saving \in Statuses \cup {None}
            /\ {desk.loading, desk.open, desk.opening, desk.deleting} \subseteq BOOLEAN
            BY <2>1 DEF DeskState
      <2>3. mine.rows \in Seq(Row) /\ mine.page \in 1 .. MaxPages /\ mine.total \in 0 .. MaxOrders /\ mine.detail \in Row \cup {None} /\ mine.repair \in Calls \cup {None}
            BY <2>1 DEF ListState
      <2>4. \A c \in Calls : call[c] = Idle \/ call[c] \in Call
            BY <2>1
      <2>5. Len(mine.rows) <= mine.page * PageSize
            BY DEF OrdersInv, OneMore
      <2> QED  BY <2>1, <2>2, <2>3, <2>4, <2>5 DEF TypeOK, ScreensTypeOK
<1>2. RefusalsHaveAReason
      BY CallFacts DEF RefusalsHaveAReason, Tells
<1> QED  BY <1>1, <1>2 DEF OrdersInv, DeskIsUsable

LEMMA ListIsSound == OrdersInv => ListIsTrue
<1> SUFFICES ASSUME OrdersInv PROVE ListIsTrue
    OBVIOUS
<1>1. ListIsWhole
      <2> SUFFICES ASSUME ~mine.disturbed PROVE mine.rows = SubSeq(Now, 1, Len(mine.rows))
          BY DEF ListIsWhole, Now
      <2>1. Now \in Seq(Row) /\ mine.page \in Nat \ {0}
            BY NewestFacts DEF OrdersInv, ScreensTypeOK, ListState, Now
      <2>2. CASE mine.rows = <<>>
            BY <2>1, <2>2, SubSeqProperties
      <2>3. CASE mine.rows = FirstPages(Now, mine.page)
            <3>1. Len(mine.rows) = (IF mine.page * PageSize < Len(Now) THEN mine.page * PageSize ELSE Len(Now))
                  BY <2>1, <2>3, FirstPagesFacts
            <3> QED  BY <2>3, <3>1 DEF FirstPages
      <2> QED  BY <2>2, <2>3 DEF OrdersInv, PagesFit, NotLoaded
<1>2. HistoryIsOver
      <2> SUFFICES ASSUME NEW row \in {mine.rows[k] : k \in DOMAIN mine.rows} \cup ({mine.detail} \ {None}), StatusMap(row.status) \in HistoryStatuses
                   PROVE  status[row.id] \in OverStatuses
          BY DEF HistoryIsOver, OverStatuses
      <2>1. mine \in ListState /\ mine.rows \in Seq(Row) /\ mine.detail \in Row \cup {None}
            BY DEF OrdersInv, ScreensTypeOK, ListState
      <2>2. IsTrue(row, status)
            BY DEF OrdersInv, ShownIsTrue, AreTrue
      <2>3. row.status \in Statuses
            <3>1. \A k \in DOMAIN mine.rows : mine.rows[k] \in Row
                  BY <2>1, ElementOfSeq, LenProperties
            <3>2. row \in Row
                  BY <2>1, <3>1
            <3> QED  BY <3>2 DEF Row
      <2> QED  BY <2>2, <2>3, HistoryIsOfTheOver DEF IsTrue
<1> QED  BY <1>1, <1>2 DEF OrdersInv, ListIsTrue

(* What the merchant's page offers is possible, and nothing spins for ever on it, however
   late, lost or out of order the answers are. *)
THEOREM DeskHolds == ScreensSpec => []DeskIsUsable
<1>1. OrdersInv => DeskIsUsable
      BY DeskIsSound
<1> QED  BY <1>1, OrdersInit, OrdersStep, PTL DEF ScreensSpec

(* The customer's list shows no order twice, none is missing while nothing happens, and
   what it shows as over is over. *)
THEOREM ListHolds == ScreensSpec => []ListIsTrue
<1>1. OrdersInv => ListIsTrue
      BY ListIsSound
<1> QED  BY <1>1, OrdersInit, OrdersStep, PTL DEF ScreensSpec
=============================================================================
