------------------------------ MODULE DemoSeed ------------------------------
(***************************************************************************)
(* db:seed:demo: one transaction that deletes the business records of the  *)
(* primary store and writes a catalog and eight orders. The store may be   *)
(* open meanwhile: orders and payments arrive between two statements.      *)
(***************************************************************************)
EXTENDS Naturals, Sequences, FiniteSets, OrderStatuses

VARIABLES
    rows,     \* the store's records: <<table, "old" | "new" | "seed">>
    statement,\* of the transaction, 0 when there is none
    gone,     \* the records it has deleted
    arrived,  \* records arrived during the run
    codeTaken,\* another store has the code SWIFTBITE-DEMO
    outcome   \* of the last run

seedVars == <<rows, statement, gone, arrived, codeTaken, outcome>>

(* schema.prisma: child and parent tables, by what a delete of the parent does *)
Restricts == {<<"paymentTransaction", "paymentIntent">>, <<"paymentIntent", "order">>, <<"orderItem", "product">>,
              <<"orderItem", "productSKU">>, <<"product", "category">>}
Cascades == {<<"orderStatusLog", "order">>, <<"orderItem", "order">>, <<"orderItemSelection", "orderItem">>,
             <<"productSKU", "product">>, <<"productSelectionGroup", "product">>, <<"selectionOption", "selectionGroup">>,
             <<"productSelectionGroup", "selectionGroup">>}

(* Mutant: the orders go last, as they were written last. *)
OrdersLast == <<"orderStatusLog", "productSelectionGroup", "selectionOption", "selectionGroup", "productSKU", "product",
                "category", "orderItemSelection", "orderItem", "order", "paymentTransaction", "paymentWebhookEvent",
                "paymentIntent", "integrationOutbox">>
(* Mutant: the events that wait for delivery are forgotten. *)
WithoutOutbox == <<"paymentTransaction", "paymentWebhookEvent", "paymentIntent", "orderStatusLog", "orderItemSelection",
                   "orderItem", "order", "productSelectionGroup", "selectionOption", "selectionGroup", "productSKU",
                   "product", "category">>
clearPrimaryStoreDemoData ==
    <<"paymentTransaction", "paymentWebhookEvent", "paymentIntent", "integrationOutbox",
      "orderStatusLog", "orderItemSelection", "orderItem", "order",
      "productSelectionGroup", "selectionOption", "selectionGroup", "productSKU", "product", "category">>

BusinessTables ==
    {"paymentTransaction", "paymentWebhookEvent", "paymentIntent", "integrationOutbox", "orderStatusLog",
     "orderItemSelection", "orderItem", "order", "productSelectionGroup", "selectionOption", "selectionGroup",
     "productSKU", "product", "category"}
CatalogTables == {"productSelectionGroup", "selectionOption", "selectionGroup", "productSKU", "product", "category"}
OrderTables == {"orderStatusLog", "orderItemSelection", "orderItem", "order"}
PaymentTables == {"paymentTransaction", "paymentWebhookEvent", "paymentIntent"}

SeedTypeOK ==
    /\ rows \subseteq BusinessTables \X {"old", "new", "seed"} /\ gone \subseteq rows
    /\ statement \in 0 .. Len(clearPrimaryStoreDemoData) + 1
    /\ {arrived, codeTaken} \subseteq BOOLEAN /\ outcome \in {"none", "seeded", "refused"}

SeedInit ==
    /\ \E tables \in {{}, CatalogTables, CatalogTables \cup OrderTables \cup {"integrationOutbox"}, BusinessTables} :
         rows = tables \X {"old"}
    /\ statement = 0 /\ gone = {} /\ arrived = FALSE /\ codeTaken \in BOOLEAN /\ outcome = "none"

-----------------------------------------------------------------------------
(* The catalog: the first SKU of a product is its default. *)
SeedSkus ==
    [spicy |-> <<"single", "double">>, grilled |-> <<"single">>, beef |-> <<"single">>, fries |-> <<"medium", "large">>,
     popcorn |-> <<"small", "share">>, cola |-> <<"medium", "large">>, fruit |-> <<"medium">>, combo |-> <<"standard">>]

Modifiers ==
    [spice |-> [min |-> 1, max |-> 1, options |-> {"no", "mild", "hot"}],
     veggie |-> [min |-> 0, max |-> 3, options |-> {"no-lettuce", "no-tomato", "pickles"}],
     addon |-> [min |-> 0, max |-> 2, options |-> {"cheese", "bacon"}],
     ice |-> [min |-> 1, max |-> 1, options |-> {"regular", "less", "no"}]]
(* The options of a component are SKUs of the catalog. *)
Components ==
    [burger |-> [min |-> 1, max |-> 1, options |-> {<<"spicy", "single">>, <<"grilled", "single">>, <<"beef", "single">>}],
     snack |-> [min |-> 1, max |-> 1, options |-> {<<"fries", "medium">>, <<"popcorn", "small">>}],
     drink |-> [min |-> 1, max |-> 1, options |-> {<<"cola", "medium">>, <<"fruit", "medium">>}]]
GroupOf(g) == IF g \in DOMAIN Modifiers THEN Modifiers[g] ELSE Components[g]

SeedBindings ==
    [spicy |-> {"spice", "veggie", "addon"}, grilled |-> {"veggie", "addon"}, beef |-> {}, fries |-> {}, popcorn |-> {},
     cola |-> {"ice"}, fruit |-> {"ice"}, combo |-> {"burger", "snack", "drink"}]

(* What the orders call the options: <<group, option>>. *)
SelectionAliases ==
    ({"spice"} \X {"no", "mild", "hot"}) \cup ({"veggie"} \X {"no-lettuce", "no-tomato", "pickles"})
    \cup ({"addon"} \X {"cheese", "bacon"}) \cup ({"ice"} \X {"regular", "less", "no"})
    \cup ({"burger"} \X Components.burger.options) \cup ({"snack"} \X Components.snack.options)
    \cup ({"drink"} \X Components.drink.options)

Item(product, sku, chosen) == [product |-> product, sku |-> sku, chosen |-> chosen]
Unpaid == <<"CREATING", "PENDING_PAYMENT">>
Paid == Unpaid \o <<"PAID">>

Combo(burger, snack, drink) == {<<"burger", <<burger, "single">>>>, <<"snack", snack>>, <<"drink", <<drink, "medium">>>>}
FirstOrders ==
    <<[status |-> "PAID", logs |-> Paid,
       items |-> <<Item("combo", "standard", Combo("spicy", <<"fries", "medium">>, "cola")), Item("cola", "large", {<<"ice", "less">>})>>],
      [status |-> "PENDING_PAYMENT", logs |-> Unpaid,
       items |-> <<Item("spicy", "double", {<<"spice", "mild">>, <<"addon", "cheese">>}), Item("fries", "large", {})>>],
      [status |-> "COMPLETED", logs |-> Paid \o <<"PREPARING", "READY", "COMPLETED">>,
       items |-> <<Item("grilled", "single", {<<"veggie", "no-tomato">>}), Item("popcorn", "share", {}),
                   Item("fruit", "medium", {<<"ice", "no">>})>>]>>
RefundOrders ==
    <<[status |-> "REFUNDING", logs |-> Paid \o <<"REFUNDING">>,
       items |-> <<Item("beef", "single", {}), Item("cola", "medium", {<<"ice", "regular">>})>>],
      [status |-> "REFUNDED", logs |-> Paid \o <<"REFUNDING", "REFUNDED">>,
       items |-> <<Item("combo", "standard", Combo("grilled", <<"popcorn", "small">>, "fruit"))>>]>>
(* Mutant: an order that is paid and timed out. *)
PaidAndTimedOut ==
    <<[status |-> "TIMED_OUT", logs |-> Paid \o <<"TIMED_OUT">>,
       items |-> <<Item("spicy", "single", {<<"spice", "hot">>})>>]>>
ClosedOrders ==
    <<[status |-> "CANCELLED", logs |-> Unpaid \o <<"CANCELLED">>,
       items |-> <<Item("fries", "medium", {}), Item("cola", "medium", {<<"ice", "regular">>})>>],
      [status |-> "TIMED_OUT", logs |-> Unpaid \o <<"TIMED_OUT">>,
       items |-> <<Item("spicy", "single", {<<"spice", "hot">>, <<"veggie", "pickles">>})>>],
      [status |-> "FAILED", logs |-> Unpaid \o <<"FAILED">>, items |-> <<Item("popcorn", "small", {})>>]>>
DemoOrders == FirstOrders \o RefundOrders \o ClosedOrders
Elements(s) == {s[i] : i \in DOMAIN s}
ItemsOf(orders) == UNION {Elements(o.items) : o \in Elements(orders)}

(* The script stops at an item whose SKU or selection it does not find. *)
Resolvable ==
    /\ \A i \in ItemsOf(DemoOrders) :
         i.product \in DOMAIN SeedSkus /\ i.sku \in Elements(SeedSkus[i.product]) /\ i.chosen \subseteq SelectionAliases
    /\ \A c \in DOMAIN Components : \A o \in Components[c].options : o[2] \in Elements(SeedSkus[o[1]])

-----------------------------------------------------------------------------
StartSeed ==
    /\ statement = 0 /\ statement' = 1
    /\ rows' = {<<r[1], "old">> : r \in rows} /\ arrived' = FALSE /\ gone' = {} /\ outcome' = "none"
    /\ UNCHANGED codeTaken

EndSeed(result) == statement' = 0 /\ gone' = {} /\ outcome' = result /\ UNCHANGED <<arrived, codeTaken>>

(* Records of a table the transaction has not deleted *)
Seen(table) == \E r \in rows \ gone : r[1] = table

(* A foreign key that restricts refuses the delete of a parent whose child the
   statement meets, and with it the transaction; one that cascades deletes the child. *)
DeleteStatement ==
    LET table == clearPrimaryStoreDemoData[statement]
        met == rows \ gone
        children(t) == {c \in BusinessTables : <<c, t>> \in Cascades}
        cascaded == children(table) \cup UNION {children(t) : t \in children(table)}
    IN
    /\ statement \in DOMAIN clearPrimaryStoreDemoData
    /\ IF \E parent \in met, child \in met : parent[1] = table /\ <<child[1], table>> \in Restricts
         THEN EndSeed("refused")
         ELSE /\ gone' = {r \in rows : r \in gone \/ r[1] = table \/ (r[1] \in cascaded /\ Seen(table))}
              /\ statement' = statement + 1
              /\ UNCHANGED <<arrived, codeTaken, outcome>>
    /\ UNCHANGED rows

(* The store, the catalog and the orders are written, and the transaction commits. *)
WriteSeed ==
    /\ statement > Len(clearPrimaryStoreDemoData)
    /\ IF codeTaken \/ ~Resolvable
         THEN EndSeed("refused") /\ UNCHANGED rows
         ELSE EndSeed("seeded") /\ rows' = (rows \ gone) \cup ((CatalogTables \cup OrderTables) \X {"seed"})

SeedDies == statement # 0 /\ EndSeed("none") /\ UNCHANGED rows

(* Writes of the running service; one that needs a record the transaction has
   deleted waits for its end. *)
Arrive(tables) ==
    /\ rows' = rows \cup (tables \X {"new"}) /\ rows' # rows /\ arrived' = (arrived \/ statement # 0)
    /\ UNCHANGED <<statement, gone, codeTaken, outcome>>
OrderArrives == Seen("product") /\ Seen("productSKU") /\ Arrive(OrderTables \cup {"integrationOutbox"})
PaymentStarts == Seen("order") /\ Arrive({"paymentIntent"})
PaymentEnds == Seen("paymentIntent") /\ Arrive({"paymentTransaction", "paymentWebhookEvent", "integrationOutbox"})
ProductArrives == Seen("category") /\ Arrive({"product", "productSKU"})

SeedStep == DeleteStatement \/ WriteSeed \/ SeedDies
StoreStep == OrderArrives \/ PaymentStarts \/ PaymentEnds \/ ProductArrives

-----------------------------------------------------------------------------
(* A seed in an otherwise quiet store is never refused: the order of the   *)
(* deletes respects every foreign key, and every SKU and selection that an *)
(* order names is found.                                                   *)
SeedRefusedForAReason == outcome = "refused" => arrived \/ codeTaken

(* Nothing the store recorded before a seed outlives it.                   *)
SeedReplacesTheStore == outcome = "seeded" => \A r \in rows : r[2] # "old"

(* The orders it writes are ones the service could have brought about: the *)
(* log is a path of legal transitions to the status, and of every group of *)
(* a product as many options are chosen as the group asks for.             *)
LegalHistory(o) ==
    /\ o.logs[1] = "CREATING" /\ o.logs[Len(o.logs)] = o.status
    /\ \A i \in 2 .. Len(o.logs) : o.logs[i] \in EditableTransitions(o.logs[i - 1])
LegalItem(i) ==
    /\ \A c \in i.chosen : c[1] \in SeedBindings[i.product]
    /\ \A g \in SeedBindings[i.product] :
         LET chosen == {c[2] : c \in {x \in i.chosen : x[1] = g}}
         IN chosen \subseteq GroupOf(g).options /\ Cardinality(chosen) \in GroupOf(g).min .. GroupOf(g).max
SeededOrdersAreLegal ==
    outcome = "seeded" => (\A o \in Elements(DemoOrders) : LegalHistory(o)) /\ \A i \in ItemsOf(DemoOrders) : LegalItem(i)

(* A seed comes to its end in a quiet store, leaves nothing behind, and its orders
   are legal ones. *)
SeedIsSound == SeedRefusedForAReason /\ SeedReplacesTheStore /\ SeededOrdersAreLegal
=============================================================================
