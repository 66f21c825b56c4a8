--------------------------- MODULE MCClientScreens ---------------------------
EXTENDS ClientScreens

MCScenes ==
    {[screen |-> "desk", status |-> <<s>>, moves |-> 2] : s \in {"COMPLETED", "PENDING_PAYMENT"}}
    \cup {[screen |-> "desk", status |-> <<"COMPLETED", "REFUNDING">>, moves |-> 1]}
    \cup {[screen |-> "customer", status |-> <<"COMPLETED", "READY">>, moves |-> 2],
          [screen |-> "customer", status |-> <<"COMPLETED", "READY", "PENDING_PAYMENT">>, moves |-> 1]}
    \cup {[screen |-> "desk", status |-> <<>>, moves |-> 0]}

(* The product page is left alone, or used for two things at a time. *)
MCUses == {{}, {"edit", "list"}, {"edit", "expand"}, {"open", "list"}, {"open", "expand"}}
=============================================================================
