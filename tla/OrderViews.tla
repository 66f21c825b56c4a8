----------------------------- MODULE OrderViews -----------------------------
(***************************************************************************)
(* The two screens that show orders: the merchant's order page with its    *)
(* detail dialog, and the customer's order list with its detail page.      *)
(* Requests are handled and answered in any order, answers get lost, and   *)
(* orders are placed and moved by others meanwhile.                        *)
(***************************************************************************)
EXTENDS OrderStatuses, Naturals, Sequences, FiniteSets

CONSTANTS
    Calls,      \* requests that can be on their way, numbered
    Online,     \* orders paid online
    PageSize,   \* rows of a page of the customer's list
    Filters,    \* status filters tried on the merchant's page
    Scenes,     \* bound: which screen, the orders at the start, how often orders are placed or moved
    MaxOrders,  \* bound: orders in the shop
    MaxPages,   \* bound: pages a customer's list loads
    None

ASSUME OrderViewsAssumption ==
    /\ {MaxOrders} \cup Calls \subseteq Nat /\ {PageSize, MaxPages} \subseteq Nat \ {0} /\ None \notin Calls
    /\ Online \subseteq 1 .. MaxOrders /\ Filters \subseteq Statuses \cup {None} /\ None \notin Statuses \cup [id: 1 .. MaxOrders, status: Statuses]
    /\ \A s \in Scenes : s.screen \in {"desk", "customer"} /\ s.status \in Seq(Statuses) /\ Len(s.status) <= MaxOrders /\ s.moves \in Nat

VARIABLES
    status, \* of every order, in the order of creation
    moves,  \* how often orders are still placed or moved
    desk,   \* the refs of the merchant's page
    mine,   \* the refs of the customer's pages
    call,   \* requests on their way
    screen

vars == <<status, moves, desk, mine, call, screen>>

Ids == DOMAIN status
Row == [id: 1 .. MaxOrders, status: Statuses]
Shown(o) == [id |-> o, status |-> status[o]]

Kinds == {"list", "detail", "update", "delete", "show", "more", "view"}
Idle == [kind |-> "none"]
Call == [kind: Kinds, order: 0 .. MaxOrders, to: Statuses \cup {None}, page: Nat, shown: Row \cup {None},
         after: {"none", "update", "delete"}, pc: {"sent", "handled"}, ok: BOOLEAN, rows: Seq(Row), total: Nat, was: Statuses \cup {None}]
Request(kind, order) ==
    [kind |-> kind, order |-> order, to |-> None, page |-> 1, shown |-> None, after |-> "none",
     pc |-> "sent", ok |-> TRUE, rows |-> <<>>, total |-> 0, was |-> None]

TypeOK ==
    /\ status \in Seq(Statuses) /\ Len(status) <= MaxOrders /\ moves \in Nat
    /\ desk.rows \in Seq(Row) /\ desk.detail \in Row \cup {None} /\ desk.confirm \in Row \cup {None}
    /\ desk.saving \in Statuses \cup {None} /\ {desk.loading, desk.open, desk.opening, desk.deleting} \subseteq BOOLEAN
    /\ mine.rows \in Seq(Row) /\ mine.page \in 1 .. MaxPages /\ mine.total \in 0 .. MaxOrders /\ mine.detail \in Row \cup {None} /\ mine.repair \in Calls \cup {None}
    /\ \A c \in Calls : call[c] = Idle \/ call[c] \in Call
    /\ screen \in {"desk", "customer"} /\ Len(mine.rows) <= mine.page * PageSize

Init ==
    /\ \E s \in Scenes : screen = s.screen /\ status = s.status /\ moves = s.moves
    /\ desk = [rows |-> <<>>, loading |-> FALSE, detail |-> None, open |-> FALSE, opening |-> FALSE,
               confirm |-> None, saving |-> None, deleting |-> FALSE]
    /\ mine = [rows |-> <<>>, page |-> 1, total |-> 0, more |-> FALSE, detail |-> None, disturbed |-> FALSE, repair |-> None]
    /\ call = [c \in Calls |-> Idle]

Send(c, request) ==
    /\ call[c] = Idle /\ \A d \in Calls : d < c => call[d] # Idle
    /\ call' = [call EXCEPT ![c] = request]
Ended(c) == call' = [call EXCEPT ![c] = Idle]
Handled(c, kind) == call[c] # Idle /\ call[c].kind = kind /\ call[c].pc = "handled"

-----------------------------------------------------------------------------
(* What happens to orders elsewhere: other staff, payments, new orders. *)
Elsewhere ==
    /\ moves > 0 /\ moves' = moves - 1
    /\ mine' = [mine EXCEPT !.disturbed = TRUE, !.repair = None]
    /\ UNCHANGED <<desk, call, screen>>

PlaceOrder ==
    /\ Len(status) < MaxOrders /\ status' = Append(status, "PENDING_PAYMENT")
    /\ Elsewhere

MoveOrder ==
    /\ \E o \in Ids, s \in Statuses :
         /\ s \in EditableTransitions(status[o]) \/ (s = "DELETED" /\ status[o] \in DeletableStatuses)
         /\ status' = [status EXCEPT ![o] = s]
    /\ Elsewhere

-----------------------------------------------------------------------------
(* The merchant's page. *)
DetailActions(s) ==
    CASE s = "CREATING"        -> {"PENDING_PAYMENT", "CANCELLED", "FAILED"}
      [] s = "PENDING_PAYMENT" -> {"PAID", "TIMED_OUT", "CANCELLED", "FAILED"}
      [] s = "PAID"            -> {"PREPARING", "READY", "COMPLETED", "REFUNDING", "REFUNDED"}
      [] s = "PREPARING"       -> {"READY", "COMPLETED", "REFUNDING", "REFUNDED"}
      [] s = "READY"           -> {"COMPLETED", "REFUNDING", "REFUNDED"}
      [] s = "COMPLETED"       -> {"REFUNDING", "REFUNDED"}
      [] s = "REFUNDING"       -> {"REFUNDED", "FAILED"}
      [] OTHER                 -> {}
CanDeleteOrder(s) == s \in {"CANCELLED", "TIMED_OUT", "FAILED", "REFUNDED", "COMPLETED"}

AtDesk == screen = "desk" /\ UNCHANGED <<status, mine, screen>>
Bounded == moves > 0 /\ moves' = moves - 1

(* Only one button is disabled while a list is loading; page and filter are not. *)
FetchOrders(c) ==
    /\ AtDesk /\ UNCHANGED moves /\ ~desk.open
    /\ \E f \in Filters : Send(c, [Request("list", 0) EXCEPT !.to = f])
    /\ desk' = [desk EXCEPT !.loading = TRUE]

OpenOrderDetail(c) ==
    /\ AtDesk /\ UNCHANGED moves /\ ~desk.open
    /\ \E k \in DOMAIN desk.rows : Send(c, Request("detail", desk.rows[k].id))
    /\ desk' = [desk EXCEPT !.open = TRUE, !.opening = TRUE]

CloseDialog ==
    /\ AtDesk /\ UNCHANGED moves /\ desk.open /\ desk.confirm = None
    /\ desk' = [desk EXCEPT !.open = FALSE] /\ UNCHANGED call

(* The dialog shows an order and its buttons, and no box asks for anything. *)
Operable == AtDesk /\ desk.open /\ ~desk.opening /\ desk.detail # None /\ desk.confirm = None

HandleStatusChange(c) ==
    /\ Operable /\ Bounded
    /\ \E s \in DetailActions(desk.detail.status) \ {desk.saving} :
         /\ Send(c, [Request("update", desk.detail.id) EXCEPT !.to = s, !.shown = desk.detail])
         /\ desk' = [desk EXCEPT !.saving = s]

HandleDeleteOrder ==
    /\ Operable /\ UNCHANGED moves /\ CanDeleteOrder(desk.detail.status) /\ ~desk.deleting
    /\ desk' = [desk EXCEPT !.confirm = desk.detail] /\ UNCHANGED call

CancelDelete ==
    /\ AtDesk /\ UNCHANGED moves /\ desk.confirm # None
    /\ desk' = [desk EXCEPT !.confirm = None] /\ UNCHANGED call

(* What is deleted is the order on display now, which need not be the one the box asked about. *)
ConfirmDelete(c) ==
    /\ AtDesk /\ Bounded /\ desk.confirm # None
    /\ Send(c, [Request("delete", desk.detail.id) EXCEPT !.shown = desk.confirm])
    /\ desk' = [desk EXCEPT !.confirm = None, !.deleting = TRUE]

-----------------------------------------------------------------------------
(* OrdersService. A status that changes while it is checked is the subject *)
(* of OrderPayments: here a check and its write are one step.              *)
Matching(f) == {o \in Ids : IF f = None THEN status[o] # "DELETED" ELSE status[o] = f}
(* The rows at some positions, in their order. *)
Nth(positions, k) == CHOOSE i \in positions : Cardinality({j \in positions : j <= i}) = k
Only(rows, positions) == [k \in 1 .. Cardinality(positions) |-> rows[Nth(positions, k)]]
Newest(ids) == Only([k \in Ids |-> Shown(Len(status) + 1 - k)], {k \in Ids : Len(status) + 1 - k \in ids})
(* Mutant: pages are counted from zero. *)
PageOfZero(rows, page) == SubSeq(rows, page * PageSize + 1, IF (page + 1) * PageSize < Len(rows) THEN (page + 1) * PageSize ELSE Len(rows))
PageOf(rows, page) == SubSeq(rows, (page - 1) * PageSize + 1, IF page * PageSize < Len(rows) THEN page * PageSize ELSE Len(rows))

(* Mutant: the service's table without refunds. *)
MayBecomeNoRefund(o, s) == s \in EditableTransitions(status[o]) \ {"REFUNDED"} /\ ~(s = "PAID" /\ o \in Online)
MayBecome(o, s) == s \in EditableTransitions(status[o]) /\ ~(s = "PAID" /\ o \in Online)
Sent(c, kind) == call[c] # Idle /\ call[c].kind = kind /\ call[c].pc = "sent"

GetOrders(c) ==
    /\ \/ Sent(c, "list") /\ call' = [call EXCEPT ![c].pc = "handled", ![c].rows = Newest(Matching(call[c].to))]
       \/ /\ Sent(c, "show") \/ Sent(c, "more")
          /\ LET all == Newest(Matching(None))
             IN call' = [call EXCEPT ![c].pc = "handled", ![c].rows = PageOf(all, call[c].page), ![c].total = Len(all)]
    /\ UNCHANGED <<status, moves, desk, mine, screen>>

GetOrderDetail(c) ==
    /\ Sent(c, "detail") \/ Sent(c, "view")
    /\ call' = [call EXCEPT ![c].pc = "handled", ![c].was = status[call[c].order]]
    /\ UNCHANGED <<status, moves, desk, mine, screen>>

(* A status an order has already is answered, what is not allowed is refused. *)
Write(c, kind, done, allowed, new) ==
    LET o == call[c].order IN
    /\ Sent(c, kind)
    /\ status' = IF allowed /\ ~done THEN [status EXCEPT ![o] = new] ELSE status
    /\ call' = [call EXCEPT ![c].pc = "handled", ![c].ok = done \/ allowed, ![c].was = status[o]]
    /\ UNCHANGED <<moves, desk, mine, screen>>

UpdateOrderStatus(c) ==
    LET o == call[c].order  s == call[c].to
    IN Write(c, "update", status[o] = s, MayBecome(o, s), s)

DeleteOrder(c) ==
    LET o == call[c].order
    IN Write(c, "delete", status[o] = "DELETED", status[o] \in DeletableStatuses, "DELETED")

-----------------------------------------------------------------------------
(* Answers at the merchant's page: the one that comes last is shown. *)
Finished(refs, after) ==
    IF after = "update" THEN [refs EXCEPT !.saving = None]
    ELSE IF after = "delete" THEN [refs EXCEPT !.deleting = FALSE] ELSE refs
(* Mutant: the flag is cleared on success alone. *)
KeptOnFailure(refs, after) == refs
EndAnswered(refs, after) == Finished(refs, after)

ShowOrders(c) ==
    /\ AtDesk /\ UNCHANGED moves /\ Handled(c, "list")
    /\ desk' = Finished([desk EXCEPT !.loading = FALSE, !.rows = call[c].rows], call[c].after)
    /\ Ended(c)

ShowDetail(c) ==
    /\ AtDesk /\ UNCHANGED moves /\ Handled(c, "detail")
    /\ desk' = [desk EXCEPT !.opening = FALSE, !.detail = [id |-> call[c].order, status |-> call[c].was]]
    /\ Ended(c)

(* A change that was accepted is shown, then the list is loaded again. *)
ShowChange(c) ==
    /\ AtDesk /\ UNCHANGED moves /\ \E kind \in {"update", "delete"} : Handled(c, kind)
    /\ call[c].ok
    /\ desk' = [desk EXCEPT !.detail = [id |-> call[c].order, status |-> IF call[c].kind = "update" THEN call[c].to ELSE "DELETED"],
                            !.loading = TRUE]
    /\ \E f \in Filters : call' = [call EXCEPT ![c] = [Request("list", 0) EXCEPT !.to = f, !.after = call[c].kind]]

(* A refusal, or a request or an answer that is lost. *)
FailAtDesk(c) ==
    /\ AtDesk /\ UNCHANGED moves /\ call[c] # Idle
    /\ desk' = CASE call[c].kind = "list"   -> Finished([desk EXCEPT !.loading = FALSE], call[c].after)
                 [] call[c].kind = "detail" -> [desk EXCEPT !.open = FALSE, !.opening = FALSE]
                 [] OTHER                   -> EndAnswered(desk, call[c].kind)
    /\ Ended(c)

-----------------------------------------------------------------------------
(* The customer's list, loaded whenever it is shown and page by page after that. *)
Customer == screen = "customer" /\ UNCHANGED <<status, moves, desk, screen>>
More == \E c \in Calls : call[c] # Idle /\ call[c].kind = "more"

(* Loading again repairs a list: while nothing else is on its way or happens. *)
ShowPage(c) ==
    /\ Customer /\ Send(c, Request("show", 0))
    /\ mine' = IF \A d \in Calls : call[d] = Idle THEN [mine EXCEPT !.repair = c] ELSE mine

HasMore == Len(mine.rows) < mine.total
LoadMore(c) ==
    /\ Customer /\ ~mine.more /\ HasMore /\ mine.page < MaxPages
    /\ Send(c, [Request("more", 0) EXCEPT !.page = mine.page + 1])
    /\ mine' = [mine EXCEPT !.more = TRUE]

ShowFirstPage(c) ==
    /\ Customer /\ Handled(c, "show")
    /\ mine' = [mine EXCEPT !.rows = call[c].rows, !.page = 1, !.total = call[c].total,
                            !.disturbed = More \/ (mine.disturbed /\ mine.repair # c)]
    /\ Ended(c)

Known == {mine.rows[k].id : k \in DOMAIN mine.rows}
(* Mutant: a page is appended as it is. *)
AllOf(rows) == rows
Added(rows) == Only(rows, {k \in DOMAIN rows : rows[k].id \notin Known})
(* Mutant: the page that was loaded is not remembered. *)
AddPageUncounted(c) ==
    /\ Customer /\ Handled(c, "more")
    /\ mine' = [mine EXCEPT !.rows = @ \o Added(call[c].rows), !.total = call[c].total, !.more = FALSE]
    /\ Ended(c)

AddPage(c) ==
    /\ Customer /\ Handled(c, "more")
    /\ mine' = [mine EXCEPT !.rows = @ \o Added(call[c].rows), !.page = call[c].page, !.total = call[c].total, !.more = FALSE]
    /\ Ended(c)

GoDetail(c) ==
    /\ Customer /\ \E k \in DOMAIN mine.rows : Send(c, Request("view", mine.rows[k].id))
    /\ mine' = [mine EXCEPT !.detail = None]

ShowOrder(c) ==
    /\ Customer /\ Handled(c, "view")
    /\ mine' = [mine EXCEPT !.detail = [id |-> call[c].order, status |-> call[c].was]]
    /\ Ended(c)

FailAtCustomer(c) ==
    /\ Customer /\ call[c] # Idle
    /\ mine' = IF call[c].kind = "more" THEN [mine EXCEPT !.more = FALSE] ELSE mine
    /\ Ended(c)

-----------------------------------------------------------------------------
Serve(c) == GetOrders(c) \/ GetOrderDetail(c) \/ UpdateOrderStatus(c) \/ DeleteOrder(c)
Receive(c) ==
    \/ ShowOrders(c) \/ ShowDetail(c) \/ ShowChange(c) \/ FailAtDesk(c)
    \/ ShowFirstPage(c) \/ AddPage(c) \/ ShowOrder(c) \/ FailAtCustomer(c)
Use(c) ==
    \/ FetchOrders(c) \/ OpenOrderDetail(c) \/ HandleStatusChange(c) \/ ConfirmDelete(c)
    \/ ShowPage(c) \/ LoadMore(c) \/ GoDetail(c)

Next ==
    \/ PlaceOrder \/ MoveOrder \/ CloseDialog \/ HandleDeleteOrder \/ CancelDelete
    \/ \E c \in Calls : Use(c) \/ Serve(c) \/ Receive(c)

Spec == Init /\ [][Next]_vars

-----------------------------------------------------------------------------
(* What the dialog offers is what the service accepts: a change that is    *)
(* refused was asked of an order that had moved since it was shown, or     *)
(* marks an online order as paid. The two tables are in two programs.      *)
RefusalsHaveAReason ==
    \A c \in Calls : (call[c] # Idle /\ call[c].kind = "update" /\ call[c].pc = "handled" /\ ~call[c].ok) =>
        call[c].was # call[c].shown.status \/ (call[c].to = "PAID" /\ call[c].order \in Online)

(* A button spins only while the request that stops it is on its way:     *)
(* whatever fails, none spins for ever, though two requests share a flag.  *)
Waiting(kind, after) == \E c \in Calls : call[c] # Idle /\ (call[c].kind = kind \/ call[c].after = after)
SpinnersStop ==
    /\ desk.loading => Waiting("list", "list")
    /\ desk.opening => Waiting("detail", "detail")
    /\ desk.saving # None => Waiting("update", "update")
    /\ desk.deleting => Waiting("delete", "delete")

(* The customer's list holds no order twice, however pages and reloads overlap. *)
NoOrderTwice == \A j, k \in DOMAIN mine.rows : mine.rows[j].id = mine.rows[k].id => j = k

(* While nothing is placed or moved and no reload overlaps a load, the     *)
(* list is the newest orders without a gap.                                *)
ListIsWhole == ~mine.disturbed => mine.rows = SubSeq(Newest(Matching(None)), 1, Len(mine.rows))

(* An order shown as history is over, however stale the page: nothing will *)
(* be prepared or handed out any more, at most money given back.           *)
HistoryStatuses == {"finished", "cancelled", "refunded"}
(* Mutant: what waits to be picked up counts as finished. *)
StatusMapReady(s) ==
    CASE s \in {"CREATING", "PENDING_PAYMENT", "DELETED"} -> "pendingPay"
      [] s = "PAID" -> "paid" [] s = "PREPARING" -> "making" [] s \in {"READY", "COMPLETED"} -> "finished"
      [] s \in {"CANCELLED", "FAILED", "TIMED_OUT"} -> "cancelled"
      [] s = "REFUNDING" -> "refunding" [] s = "REFUNDED" -> "refunded"
StatusMap(s) ==
    CASE s \in {"CREATING", "PENDING_PAYMENT", "DELETED"} -> "pendingPay"
      [] s = "PAID" -> "paid" [] s = "PREPARING" -> "making" [] s = "READY" -> "ready" [] s = "COMPLETED" -> "finished"
      [] s \in {"CANCELLED", "FAILED", "TIMED_OUT"} -> "cancelled"
      [] s = "REFUNDING" -> "refunding" [] s = "REFUNDED" -> "refunded"
HistoryIsOver ==
    \A row \in {mine.rows[k] : k \in DOMAIN mine.rows} \cup ({mine.detail} \ {None}) :
        StatusMap(row.status) \in HistoryStatuses =>
            status[row.id] \in {"COMPLETED", "CANCELLED", "FAILED", "TIMED_OUT", "REFUNDING", "REFUNDED", "DELETED"}

(* The merchant's page: what it offers is possible, and no request holds it for ever. *)
DeskIsUsable == TypeOK /\ RefusalsHaveAReason /\ SpinnersStop

(* The customer's page: what it lists is there once, without a gap, and what it lists
   as history is over. *)
ListIsTrue == NoOrderTwice /\ ListIsWhole /\ HistoryIsOver
=============================================================================
