----------------------------- MODULE ProductDesk -----------------------------
(***************************************************************************)
(* The merchant's product page: the list with its cells that are edited in *)
(* place and confirmed in a box, and the configuration dialog it opens for *)
(* a product. Answers come in any order or get lost; both dialogs may be   *)
(* closed while they are being saved. Every product has one SKU with one   *)
(* number to edit; filters and pages only choose rows and are left out.    *)
(***************************************************************************)
EXTENDS Naturals

CONSTANTS
    Products, Prices,
    Requests,  \* requests that can be on their way
    MaxChanges, \* bound: prices changed, at this page or elsewhere
    Uses       \* bound: what the merchant does on the page in one behaviour

ASSUME ProductDeskAssumption ==
    Requests \subseteq Nat /\ MaxChanges \in Nat /\ Prices \subseteq Nat /\ Prices # {} /\ "none" \notin Products

VARIABLES
    stored,   \* prices in the database
    past,     \* prices that were ever stored
    changes,  \* changes still to come
    cells,    \* the rows on the page
    focused,  \* the cell the merchant is in, and the price that was captured there
    edit,     \* pendingChange, the box that asks (confirmVisible) and savingInline
    dialog,   \* the configuration dialog
    loading,
    request,  \* requests on their way
    closedEarly, \* a box was closed while something was being saved
    crossed,     \* a dialog was opened while another was being saved
    use

productVars == <<stored, past, changes, cells, focused, edit, dialog, loading, request, closedEarly, crossed, use>>

Nothing == [kind |-> "nothing"]
NoOne == [product |-> "none"]
Loaded(price, detailed) == [price |-> price, loose |-> FALSE, detailed |-> detailed]
Nowhere == [cell |-> "none", original |-> 0]

ProductDeskTypeOK ==
    /\ \A p \in Products : cells[p].price \in Prices /\ stored[p] \in past[p]
    /\ edit.change = NoOne \/ (edit.change.product \in Products /\ {edit.change.old, edit.change.new} \subseteq Prices)
    /\ {edit.asks, edit.saving, dialog.open, dialog.saving, loading} \subseteq BOOLEAN
    /\ dialog.open => {dialog.id, dialog.shown} \subseteq Products

ProductDeskInit ==
    /\ stored = [p \in Products |-> CHOOSE price \in Prices : TRUE]
    /\ past = [p \in Products |-> {stored[p]}] /\ changes = MaxChanges
    /\ cells = [p \in Products |-> Loaded(stored[p], FALSE)] /\ focused = Nowhere
    /\ edit = [change |-> NoOne, attached |-> FALSE, asks |-> FALSE, saving |-> FALSE]
    /\ dialog = [open |-> FALSE, id |-> "none", shown |-> "none", saving |-> FALSE]
    /\ loading = FALSE /\ request = [r \in Requests |-> Nothing]
    /\ closedEarly = FALSE /\ crossed = FALSE /\ use \in Uses

-----------------------------------------------------------------------------
OfKind(kinds) == {r \in Requests : request[r].kind \in kinds}
Post(r, kind, p, change) ==
    /\ kind \in use \cup {"save", "config"}
    /\ request[r] = Nothing /\ \A s \in Requests : s < r => request[s] # Nothing
    /\ request' = [request EXCEPT ![r] = [kind |-> kind, product |-> p, change |-> change, seen |-> <<>>, pc |-> "sent"]]
Returned(r, kind) == r \in OfKind({kind}) /\ request[r].pc = "handled"
Forget(r) == request' = [request EXCEPT ![r] = Nothing]
NoModal == ~edit.asks /\ ~dialog.open

(* fetchProducts, of the refresh button, the filters and the pages. *)
FetchProducts(r) ==
    /\ NoModal /\ Post(r, "list", "none", NoOne)
    /\ loading' = TRUE
    /\ UNCHANGED <<stored, past, changes, cells, focused, edit, dialog, closedEarly, crossed, use>>

ExpandRow(r, p) ==
    /\ NoModal /\ ~cells[p].detailed /\ \A s \in OfKind({"expand"}) : request[s].product # p
    /\ Post(r, "expand", p, NoOne)
    /\ UNCHANGED <<stored, past, changes, cells, focused, edit, dialog, loading, closedEarly, crossed, use>>

OpenConfigDialog(r, p) ==
    /\ NoModal /\ Post(r, "open", p, NoOne)
    /\ dialog' = [dialog EXCEPT !.saving = FALSE]
    /\ UNCHANGED <<stored, past, changes, cells, focused, edit, loading, closedEarly, crossed, use>>

CaptureOriginalValue(p) ==
    /\ NoModal /\ "edit" \in use /\ focused' = [cell |-> p, original |-> cells[p].price]
    /\ UNCHANGED <<stored, past, changes, cells, edit, dialog, loading, request, closedEarly, crossed, use>>

(* The cell has the new price at once. Nobody is asked about it when another change is
   pending, or when the row was loaded again under the cursor. *)
QueueSkuChange(p, price) ==
    LET original == focused.original
        ignored == edit.change # NoOne \/ original = 0
        asks == ~ignored /\ original # price
    IN
    /\ NoModal /\ focused.cell = p /\ price # cells[p].price /\ changes > 0 /\ changes' = changes - 1
    /\ cells' = [cells EXCEPT ![p].price = price, ![p].loose = @ \/ ignored]
    /\ edit' = IF asks THEN [edit EXCEPT !.change = [product |-> p, old |-> original, new |-> price],
                                         !.attached = TRUE, !.asks = TRUE]
               ELSE edit
    /\ focused' = IF asks THEN Nowhere ELSE focused
    /\ UNCHANGED <<stored, past, dialog, loading, request, closedEarly, crossed, use>>

ConfirmPendingChange(r) ==
    /\ edit.asks /\ edit.change # NoOne /\ ~edit.saving
    /\ Post(r, "save", edit.change.product, edit.change)
    /\ edit' = [edit EXCEPT !.saving = TRUE]
    /\ UNCHANGED <<stored, past, changes, cells, focused, dialog, loading, closedEarly, crossed, use>>

(* revertPendingChange of the button and of the box: it does nothing while something is
   being saved, and the box is closed all the same. *)
Kept(p, old) == cells   \* mutant: the cell keeps the price nobody confirmed
Reverted(p, old) == [cells EXCEPT ![p].price = old]
CancelPendingChange ==
    /\ edit.asks
    /\ IF edit.saving \/ edit.change = NoOne
         THEN edit' = [edit EXCEPT !.asks = FALSE] /\ UNCHANGED cells
         ELSE /\ edit' = [edit EXCEPT !.asks = FALSE, !.change = NoOne]
              /\ cells' = IF edit.attached THEN Reverted(edit.change.product, edit.change.old) ELSE cells
    /\ closedEarly' = (closedEarly \/ edit.saving)
    /\ UNCHANGED <<stored, past, changes, focused, dialog, loading, request, crossed, use>>

SaveProductConfig(r) ==
    /\ dialog.open /\ ~dialog.saving
    /\ Post(r, "config", dialog.id, [product |-> dialog.shown])
    /\ dialog' = [dialog EXCEPT !.saving = TRUE]
    /\ UNCHANGED <<stored, past, changes, cells, focused, edit, loading, closedEarly, crossed, use>>

CloseConfigDialog ==
    /\ dialog.open /\ dialog' = [dialog EXCEPT !.open = FALSE]
    /\ UNCHANGED <<stored, past, changes, cells, focused, edit, loading, request, closedEarly, crossed, use>>

-----------------------------------------------------------------------------
(* The products service, and others who use it. *)
Store(p, price) == stored' = [stored EXCEPT ![p] = price] /\ past' = [past EXCEPT ![p] = @ \cup {price}]

Answer(r, kinds) ==
    /\ r \in OfKind(kinds) /\ request[r].pc = "sent"
    /\ request' = [request EXCEPT ![r].pc = "handled", ![r].seen = stored]
    /\ UNCHANGED <<changes, cells, focused, edit, dialog, loading, closedEarly, crossed, use>>

GetProducts(r) == Answer(r, {"list", "reload"}) /\ UNCHANGED <<stored, past>>
GetProductDetail(r) == Answer(r, {"expand", "open"}) /\ UNCHANGED <<stored, past>>
UpdateSkuPrice(r) == Answer(r, {"save"}) /\ Store(request[r].product, request[r].change.new)
(* What a configuration does to its product is the subject of Catalog. *)
SyncProductConfiguration(r) == Answer(r, {"config"}) /\ UNCHANGED <<stored, past>>

PriceChangesElsewhere ==
    /\ changes > 0 /\ changes' = changes - 1
    /\ \E p \in Products, price \in Prices : price # stored[p] /\ Store(p, price)
    /\ UNCHANGED <<cells, focused, edit, dialog, loading, request, closedEarly, crossed, use>>

-----------------------------------------------------------------------------
(* A row that is loaded is a new object: a pending change keeps the old one. The list
   comes without selection groups, a detail with them. *)
Replace(rows, seen, detailed) ==
    /\ cells' = [p \in Products |-> IF p \in rows THEN Loaded(seen[p], detailed) ELSE cells[p]]
    /\ focused' = IF focused.cell \in rows THEN [focused EXCEPT !.original = 0] ELSE focused
Detached(rows) == [edit EXCEPT !.attached = @ /\ edit.change.product \notin rows]

ShowProducts(r) ==
    /\ \/ Returned(r, "list") /\ edit' = Detached(Products)
       \/ Returned(r, "reload") /\ edit' = [Detached(Products) EXCEPT !.saving = FALSE]
    /\ Replace(Products, request[r].seen, FALSE)
    /\ loading' = FALSE /\ Forget(r)
    /\ UNCHANGED <<stored, past, changes, dialog, closedEarly, crossed, use>>

ShowExpanded(r) ==
    /\ Returned(r, "expand")
    /\ Replace({request[r].product}, request[r].seen, TRUE) /\ edit' = Detached({request[r].product})
    /\ Forget(r)
    /\ UNCHANGED <<stored, past, changes, dialog, loading, closedEarly, crossed, use>>

(* The dialog that was asked for last need not be the one that comes last. *)
OpenedBehind(p) ==   \* mutant: an open dialog keeps its id
    [dialog EXCEPT !.open = TRUE, !.shown = p, !.id = IF dialog.open THEN @ ELSE p]
Opened(p) == [dialog EXCEPT !.open = TRUE, !.id = p, !.shown = p]
ShowConfigDialog(r) ==
    /\ Returned(r, "open")
    /\ Replace({request[r].product}, request[r].seen, TRUE) /\ edit' = Detached({request[r].product})
    /\ dialog' = Opened(request[r].product)
    /\ crossed' = (crossed \/ OfKind({"config"}) # {})
    /\ Forget(r)
    /\ UNCHANGED <<stored, past, changes, loading, closedEarly, use>>

(* SKU updated: the list is loaded again, and savingInline lasts until it has come. *)
StillPending == [edit EXCEPT !.asks = FALSE]   \* mutant: the change is not cleared
Cleared == [edit EXCEPT !.change = NoOne, !.asks = FALSE]
ShowSaved(r) ==
    /\ Returned(r, "save")
    /\ edit' = Cleared /\ loading' = TRUE
    /\ request' = [request EXCEPT ![r] = [@ EXCEPT !.kind = "reload", !.pc = "sent"]]
    /\ UNCHANGED <<stored, past, changes, cells, focused, dialog, closedEarly, crossed, use>>

(* The saved product is shown until statistics and options have been loaded again. *)
ShowConfig(r) ==
    /\ Returned(r, "config")
    /\ Replace({request[r].product}, request[r].seen, TRUE) /\ edit' = Detached({request[r].product})
    /\ dialog' = [dialog EXCEPT !.shown = request[r].product]
    /\ request' = [request EXCEPT ![r].pc = "settling"]
    /\ UNCHANGED <<stored, past, changes, loading, closedEarly, crossed, use>>

EndConfig(r) ==
    /\ r \in OfKind({"config"}) /\ request[r].pc = "settling"
    /\ dialog' = [dialog EXCEPT !.open = FALSE, !.saving = FALSE]
    /\ Forget(r)
    /\ UNCHANGED <<stored, past, changes, cells, focused, edit, loading, closedEarly, crossed, use>>

(* A refusal, or a request or an answer that is lost. A price that was not saved stays
   in its box: revertPendingChange does nothing because savingInline is still set. *)
SavingAfterRefusal(kind) == edit.saving /\ kind # "reload"   \* mutant: cleared on success alone
SavingAfter(kind) == edit.saving /\ kind \notin {"save", "reload"}
FailAtPage(r) ==
    /\ request[r] # Nothing /\ request[r].pc # "settling"
    /\ LET kind == request[r].kind IN
         /\ loading' = (loading /\ kind \notin {"list", "reload"})
         /\ edit' = [edit EXCEPT !.saving = SavingAfter(kind)]
         /\ dialog' = [dialog EXCEPT !.saving = @ /\ kind # "config"]
    /\ Forget(r)
    /\ UNCHANGED <<stored, past, changes, cells, focused, closedEarly, crossed, use>>

-----------------------------------------------------------------------------
UsePage(r) ==
    \/ FetchProducts(r) \/ ConfirmPendingChange(r) \/ SaveProductConfig(r)
    \/ \E p \in Products : ExpandRow(r, p) \/ OpenConfigDialog(r, p)
AnswerPage(r) ==
    \/ GetProducts(r) \/ GetProductDetail(r) \/ UpdateSkuPrice(r) \/ SyncProductConfiguration(r)
    \/ ShowProducts(r) \/ ShowExpanded(r) \/ ShowConfigDialog(r)
    \/ ShowSaved(r) \/ ShowConfig(r) \/ EndConfig(r) \/ FailAtPage(r)

ProductDeskNext ==
    \/ CancelPendingChange \/ CloseConfigDialog \/ PriceChangesElsewhere
    \/ \E p \in Products : CaptureOriginalValue(p) \/ \E price \in Prices : QueueSkuChange(p, price)
    \/ \E r \in Requests : UsePage(r) \/ AnswerPage(r)

-----------------------------------------------------------------------------
(* A change that is pending can be decided on: its box is open. The one way to block   *)
(* all further editing is to close the box while something is being saved.             *)
EditsCanBeDecided == edit.change # NoOne => edit.asks \/ closedEarly

(* A cell shows a price that was stored, or one the merchant is asked about, whatever  *)
(* is cancelled, fails or is loaded meanwhile; except a change nobody asked about.     *)
CellsAreTrue ==
    \A p \in Products :
        cells[p].price \in past[p] \/ cells[p].loose \/ (edit.change.product = p /\ edit.attached)

(* A configuration is sent to the product it was made for, in whatever order dialogs   *)
(* are asked for and come; unless one opened while another was being saved.            *)
ConfigurationsGoHome ==
    crossed \/ \A r \in OfKind({"config"}) : request[r].product = request[r].change.product

(* No button spins without a request on its way that will stop it. *)
FlagsFall ==
    /\ loading => OfKind({"list", "reload"}) # {}
    /\ edit.saving => OfKind({"save", "reload"}) # {}
    /\ dialog.saving => OfKind({"config"}) # {}

(* The merchant's product page: what is edited there is decided on, shown and saved as
   it was meant. *)
ProductEditsAreSound ==
    ProductDeskTypeOK /\ EditsCanBeDecided /\ CellsAreTrue /\ ConfigurationsGoHome /\ FlagsFall
=============================================================================
