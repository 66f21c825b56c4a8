---------------------------- MODULE OrderStatuses ----------------------------
(***************************************************************************)
(* The status table of an order (orders.service.ts): which transitions     *)
(* the staff may make, and from which statuses an order may be deleted.    *)
(***************************************************************************)

Statuses ==
  {"CREATING", "PENDING_PAYMENT", "PAID", "PREPARING", "READY", "COMPLETED",
   "REFUNDING", "REFUNDED", "FAILED", "TIMED_OUT", "CANCELLED", "DELETED"}

EditableTransitions(s) ==
  CASE s = "CREATING"        -> {"PENDING_PAYMENT", "CANCELLED", "FAILED"}
    [] s = "PENDING_PAYMENT" -> {"PAID", "TIMED_OUT", "CANCELLED", "FAILED"}
    [] s = "PAID"            -> {"PREPARING", "READY", "COMPLETED", "REFUNDING", "REFUNDED"}
    [] s = "PREPARING"       -> {"READY", "COMPLETED", "REFUNDING", "REFUNDED"}
    [] s = "READY"           -> {"COMPLETED", "REFUNDING", "REFUNDED"}
    [] s = "COMPLETED"       -> {"REFUNDING", "REFUNDED"}
    [] s = "REFUNDING"       -> {"REFUNDED", "FAILED"}
    [] OTHER                 -> {}

DeletableStatuses == {"CANCELLED", "TIMED_OUT", "FAILED", "REFUNDED", "COMPLETED"}
=============================================================================
