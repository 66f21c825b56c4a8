---------------------------- MODULE OrderLifecycle ----------------------------
(***************************************************************************)
(* What the order domain promises about one table of orders, whoever       *)
(* changes it: an order moves along the status table only, one step at a   *)
(* time, and every step is appended to the order's audit chain in the same *)
(* transaction.  OrderPayments implements this specification.              *)
(***************************************************************************)
EXTENDS OrderStatuses, Sequences

CONSTANT Orders

VARIABLES status,   \* orders.status of each order
          log       \* order_status_logs of each order, oldest first

vars == <<status, log>>

(* A row of order_status_logs; the first row of an order comes from no status. *)
Step(from, to) == [from |-> from, to |-> to]

CreationLog == <<Step("NONE", "CREATING"), Step("CREATING", "PENDING_PAYMENT")>>

Init ==
  /\ status = [o \in Orders |-> "PENDING_PAYMENT"]
  /\ log = [o \in Orders |-> CreationLog]

Allowed(from) ==
  EditableTransitions(from)
    \cup IF from \in DeletableStatuses THEN {"DELETED"} ELSE {}

Move(o, to) ==
  /\ to \in Allowed(status[o])
  /\ status' = [status EXCEPT ![o] = to]
  /\ log' = [log EXCEPT ![o] = Append(@, Step(status[o], to))]

Next == \E o \in Orders, to \in Statuses : Move(o, to)

Spec == Init /\ [][Next]_vars
=============================================================================
