------------------------------- MODULE Catalog -------------------------------
(***************************************************************************)
(* One product of the catalog: its SKUs, the summary (price, stock) kept   *)
(* on the product row, the selection groups bound to it, the merchant's    *)
(* configuration dialog that edits a copy of all this, and the cache of    *)
(* product statistics of the API process.                                  *)
(*                                                                         *)
(* A SKU edit is three autocommitted statements; updateProduct and the     *)
(* configuration are transactions that lock the product row first.         *)
(***************************************************************************)
EXTENDS Naturals, Sequences, FiniteSets, SequencesExt

CONSTANTS
    Calls,     \* requests and dialogs that are open at a time
    Prices, Stocks,
    MaxSkus,   \* bound: SKUs ever created
    MaxGroups, \* bound: bindings ever created
    MaxEdits,  \* bound: edits begun
    Mixes      \* bound: kinds of requests that one behaviour mixes

ASSUME CatalogAssumption ==
    /\ Prices \subseteq Nat \ {0} /\ Stocks \subseteq Nat /\ Prices # {} /\ Stocks # {}
    /\ MaxSkus \in Nat \ {0} /\ MaxGroups \in Nat /\ MaxEdits \in Nat

VARIABLES
    skus,     \* product SKUs in creation order, never deleted
    product,  \* the product row
    groups,   \* product_selection_groups: the SKU (0: the product) and isEnabled
    cache,    \* statsCache: None or the counts
    call,     \* what is being handled
    overlap,  \* some refresh of the summary was overtaken or failed
    edits, mix

vars == <<skus, product, groups, cache, call, overlap, edits, mix>>

None == [kind |-> "none"]
(* isActive, and why not: saved as inactive, or left out of a configuration *)
SkuStates == {"on", "off", "dropped"}
Sku == [price: Prices, stock: Stocks, default: BOOLEAN, state: SkuStates]
Group == [target: Nat, enabled: BOOLEAN]
Ops == {"sku", "product", "status", "config", "stats", "none"}
Idle == [op |-> "none", pc |-> "none"]

OfKind(op) == {c \in Calls : call[c].op = op}
Firsts(s) == {k \in DOMAIN s : s[k].state = "on" /\ (s[k].default \/ \A j \in DOMAIN s : s[j].state = "on" => ~s[j].default)}
(* findMany of the active SKUs, the default one first; price 0 when there is none. *)
Summary(s) ==
    [stock |-> FoldSet(LAMBDA k, sum : sum + s[k].stock, 0, {k \in DOMAIN s : s[k].state = "on"}),
     price |-> IF Firsts(s) = {} THEN 0 ELSE s[CHOOSE k \in Firsts(s) : \A j \in Firsts(s) : k <= j].price]
Summarised(p, s) == [p EXCEPT !.price = Summary(s).price, !.stock = Summary(s).stock]

EnabledGroups == {g \in DOMAIN groups : groups[g].enabled}
Counts == [active |-> IF product.status = "ACTIVE" THEN 1 ELSE 0, skus |-> Len(skus),
           groups |-> Cardinality(EnabledGroups)]
CountNames == DOMAIN Counts

IsDraft(d) ==
    /\ \A j \in DOMAIN d.variants : d.variants[j].id \in 0 .. Len(skus) /\ d.variants[j].sku \in Sku
    /\ \A g \in d.groups : g.id \in 0 .. Len(groups) /\ g.target \in 0 .. Len(skus)

TypeOK ==
    /\ skus \in Seq(Sku) /\ Len(skus) \in 1 .. MaxSkus
    /\ product.status \in {"DRAFT", "ACTIVE", "INACTIVE"} /\ {product.price, product.stock} \subseteq Nat
    /\ groups \in Seq(Group) /\ Len(groups) <= MaxGroups
    /\ \A g \in DOMAIN groups : groups[g].target \in 0 .. Len(skus)
    /\ cache = None \/ (DOMAIN cache = CountNames /\ \A n \in CountNames : cache[n] \in Nat)
    /\ \A c \in Calls : call[c].op \in Ops /\ (call[c].op = "config" /\ call[c].pc # "invalidate" => IsDraft(call[c]))
    /\ overlap \in BOOLEAN /\ edits \in 0 .. MaxEdits /\ mix \in Mixes

(* createProduct: a draft with one SKU, active and the default. *)
Init ==
    /\ \E p \in Prices, n \in Stocks :
         /\ skus = <<[price |-> p, stock |-> n, default |-> TRUE, state |-> "on"]>>
         /\ product = [status |-> "DRAFT", price |-> p, stock |-> n]
    /\ groups = <<>> /\ cache = None /\ call = [c \in Calls |-> Idle]
    /\ overlap = FALSE /\ edits = 0 /\ mix \in Mixes

-----------------------------------------------------------------------------
Begin(c, op) == call[c] = Idle /\ op \in mix /\ edits < MaxEdits /\ edits' = edits + 1
At(c, op, pc) == call[c].op = op /\ call[c].pc = pc
Goto(c, pc) == call' = [call EXCEPT ![c].pc = pc]
Answer(c) == call' = [call EXCEPT ![c] = Idle]

(* A summary that was read and is not written yet. *)
Refreshing == {c \in Calls : At(c, "sku", "write") \/ At(c, "product", "commit")}
Overtakes(c) == overlap' = (overlap \/ Refreshing \ {c} # {})
(* The row lock that updateProduct's transaction holds until it commits. *)
Unlocked == ~\E c \in OfKind("product") : call[c].pc = "commit"

(* updateSkuStock and updateSkuPrice: the SKU, then the summary read, then written. *)
WriteSku(c, k, sku) ==
    /\ Begin(c, "sku") /\ k \in DOMAIN skus
    /\ \/ sku = [skus[k] EXCEPT !.price = sku.price]
       \/ sku = [skus[k] EXCEPT !.stock = sku.stock]
    /\ skus' = [skus EXCEPT ![k] = sku]
    /\ call' = [call EXCEPT ![c] = [op |-> "sku", pc |-> "read"]]
    /\ Overtakes(c) /\ UNCHANGED <<product, groups, cache, mix>>

ReadSummary(c) ==
    /\ At(c, "sku", "read")
    /\ call' = [call EXCEPT ![c] = [op |-> "sku", pc |-> "write", seen |-> skus]]
    /\ UNCHANGED <<skus, product, groups, cache, overlap, edits, mix>>

WriteSummary(c) ==
    /\ At(c, "sku", "write") /\ Unlocked
    /\ product' = Summarised(product, call[c].seen)
    /\ Answer(c) /\ UNCHANGED <<skus, groups, cache, overlap, edits, mix>>

(* "SKU does not exist", whatever failed: the SKU has its new value. *)
FailSummary(c) ==
    /\ At(c, "sku", "read") \/ At(c, "sku", "write")
    /\ overlap' = TRUE
    /\ Answer(c) /\ UNCHANGED <<skus, product, groups, cache, edits, mix>>

-----------------------------------------------------------------------------
(* updateProduct: the default SKU is found outside the transaction, whose reads
   are of the moment it began, except for the rows it has written itself. *)
ReadProduct(c, p, n, status) ==
    /\ Begin(c, "product")
    /\ call' = [call EXCEPT ![c] = [op |-> "product", pc |-> "begin", price |-> p, stock |-> n, status |-> status,
                                    sku |-> CHOOSE k \in DOMAIN skus : skus[k].default, seen |-> <<>>]]
    /\ UNCHANGED <<skus, product, groups, cache, overlap, mix>>

BeginUpdate(c) ==
    /\ At(c, "product", "begin") /\ Unlocked
    /\ call' = [call EXCEPT ![c].pc = "commit", ![c].seen = skus]
    /\ UNCHANGED <<skus, product, groups, cache, overlap, edits, mix>>

CommitUpdate(c) ==
    LET k == call[c].sku
        own == [skus[k] EXCEPT !.price = call[c].price, !.stock = call[c].stock]
    IN /\ At(c, "product", "commit")
       /\ skus' = [skus EXCEPT ![k] = own]
       /\ product' = Summarised([product EXCEPT !.status = call[c].status], [call[c].seen EXCEPT ![k] = own])
       /\ Overtakes(c) /\ Goto(c, "invalidate") /\ UNCHANGED <<groups, cache, edits, mix>>

RollBack(c) ==
    /\ At(c, "product", "commit") \/ At(c, "config", "sent")
    /\ Answer(c) /\ UNCHANGED <<skus, product, groups, cache, overlap, edits, mix>>

UpdateStatus(c, status) ==
    /\ Begin(c, "status") /\ Unlocked
    /\ product' = [product EXCEPT !.status = status]
    /\ call' = [call EXCEPT ![c] = [op |-> "status", pc |-> "invalidate"]]
    /\ UNCHANGED <<skus, groups, cache, overlap, mix>>

(* The change is committed; the statistics are dropped when the answer is built. *)
Invalidate(c) ==
    /\ call[c].pc = "invalidate"
    /\ cache' = None
    /\ Answer(c) /\ UNCHANGED <<skus, product, groups, overlap, edits, mix>>

-----------------------------------------------------------------------------
(* The configuration dialog: a draft of the SKUs and of the enabled groups, edited
   and sent whole. id 0 is a row that the server does not know yet. *)
DetailSkus == [k \in DOMAIN skus |-> [id |-> k, sku |-> skus[k]]]
DraftOfProduct ==
    [op |-> "config", pc |-> "editing", valid |-> TRUE, variants |-> DetailSkus,
     groups |-> {[id |-> g, target |-> groups[g].target] : g \in EnabledGroups}]
OpenDialog(c) ==
    /\ Begin(c, "config")
    /\ call' = [call EXCEPT ![c] = DraftOfProduct]
    /\ UNCHANGED <<skus, product, groups, cache, overlap, mix>>

WithDefault(vs, i) == [j \in DOMAIN vs |-> [vs[j] EXCEPT !.sku.default = (j = i)]]
Toggled(vs, i) == [vs EXCEPT ![i].sku.state = IF @ = "on" THEN "off" ELSE "on"]
(* When the default row is removed, the first one takes its place. *)
Without(vs, i) ==
    LET kept == RemoveAt(vs, i)
    IN IF kept = <<>> \/ ~vs[i].sku.default THEN kept ELSE WithDefault(kept, 1)
WithNew(vs, p, n) ==
    Append(vs, [id |-> 0, sku |-> [price |-> p, stock |-> n, default |-> vs = <<>>, state |-> "on"]])

VariantEdits(vs) ==
    (UNION {{WithDefault(vs, i), Toggled(vs, i), Without(vs, i)} : i \in DOMAIN vs})
    \cup {WithNew(vs, p, n) : p \in Prices, n \in Stocks}
GroupEdits(d) ==
    {d.groups \ {g} : g \in d.groups}
    \cup {d.groups \cup {[id |-> 0, target |-> t]} : t \in {0} \cup {d.variants[j].id : j \in DOMAIN d.variants}}
(* One edit; the last one leaves a selection group that can never be satisfied. *)
EditDraft(c) ==
    LET Edited(d) == call' = [call EXCEPT ![c] = [d EXCEPT !.pc = "edited"]] IN
    /\ At(c, "config", "editing")
    /\ \/ \E vs \in VariantEdits(call[c].variants) : Edited([call[c] EXCEPT !.variants = vs])
       \/ \E gs \in GroupEdits(call[c]) : Edited([call[c] EXCEPT !.groups = gs])
       \/ Edited([call[c] EXCEPT !.valid = FALSE])
    /\ UNCHANGED <<skus, product, groups, cache, overlap, edits, mix>>

Cancel(c) ==
    /\ At(c, "config", "editing") \/ At(c, "config", "edited")
    /\ Answer(c) /\ UNCHANGED <<skus, product, groups, cache, overlap, edits, mix>>

(* normalizeDraft: the first variant is sent as the default too. *)
Normalized(variants) == [variants EXCEPT ![1].sku.default = TRUE]
Save(c) ==
    /\ At(c, "config", "editing") \/ At(c, "config", "edited")
    /\ call[c].variants # <<>>
    /\ call' = [call EXCEPT ![c].pc = "sent", ![c].variants = Normalized(@)]
    /\ UNCHANGED <<skus, product, groups, cache, overlap, edits, mix>>

(* syncVariants: where every row of the payload is saved, and the default one: the
   first that says so, by its id, or the first row when that one is new. *)
NewRows(vs) == {j \in DOMAIN vs : vs[j].id = 0}
SavedAs(vs, j) == IF vs[j].id # 0 THEN vs[j].id
                  ELSE Len(skus) + Cardinality({i \in NewRows(vs) : i <= j})
SavedState(state) == IF state = "on" THEN "on" ELSE "off"
DefaultOf(vs) ==
    LET j == CHOOSE j \in DOMAIN vs : vs[j].sku.default /\ \A i \in 1 .. j - 1 : ~vs[i].sku.default
    IN IF vs[j].id # 0 THEN vs[j].id ELSE SavedAs(vs, 1)
SyncedSkuAsSent(vs, k) ==   \* mutant: the other defaults are not reset
    IF \E j \in DOMAIN vs : SavedAs(vs, j) = k
    THEN vs[CHOOSE j \in DOMAIN vs : SavedAs(vs, j) = k].sku
    ELSE [skus[k] EXCEPT !.state = "dropped", !.default = FALSE]
SyncedSku(vs, k) ==
    IF \E j \in DOMAIN vs : SavedAs(vs, j) = k
    THEN LET sku == vs[CHOOSE j \in DOMAIN vs : SavedAs(vs, j) = k].sku
         IN [sku EXCEPT !.state = SavedState(@), !.default = (k = DefaultOf(vs))]
    ELSE [skus[k] EXCEPT !.state = "dropped", !.default = FALSE]
SyncVariants(vs) == [k \in 1 .. Len(skus) + Cardinality(NewRows(vs)) |-> SyncedSku(vs, k)]

(* syncSelectionBindings: a target must be a variant of the payload. *)
Resolves(vs, target) == target = 0 \/ \E j \in DOMAIN vs : vs[j].id = target
CanSyncAny(d) == d.valid   \* mutant: targets are not looked up
CanSync(d) == d.valid /\ \A g \in d.groups : Resolves(d.variants, g.target)
SyncBindings(gs) ==
    LET new == SetToSeq({g \in gs : g.id = 0})
    IN [g \in DOMAIN groups |-> [groups[g] EXCEPT !.enabled = \E d \in gs : d.id = g]]
       \o [i \in DOMAIN new |-> [target |-> new[i].target, enabled |-> TRUE]]

NotRefreshed(s) == product   \* mutant: variants saved, summary forgotten
Refreshed(s) == Summarised(product, s)
SyncProductConfiguration(c) ==
    LET d == call[c] IN
    /\ At(c, "config", "sent") /\ Unlocked /\ CanSync(d)
    /\ Len(skus) + Cardinality(NewRows(d.variants)) <= MaxSkus
    /\ Len(groups) + Cardinality({g \in d.groups : g.id = 0}) <= MaxGroups
    /\ skus' = SyncVariants(d.variants) /\ groups' = SyncBindings(d.groups)
    /\ product' = Refreshed(skus')
    /\ Overtakes(c) /\ Goto(c, "invalidate") /\ UNCHANGED <<cache, edits, mix>>

-----------------------------------------------------------------------------
(* getProductStats: three counts, in any order, kept for fifteen seconds. *)
AskStats(c) ==
    /\ Begin(c, "stats") /\ cache = None
    /\ call' = [call EXCEPT ![c] = [op |-> "stats", pc |-> "count", seen |-> <<>>]]
    /\ UNCHANGED <<skus, product, groups, cache, overlap, mix>>

Count(c, n) ==
    /\ At(c, "stats", "count") /\ n \notin DOMAIN call[c].seen
    /\ call' = [call EXCEPT ![c].seen = [m \in DOMAIN @ \cup {n} |-> IF m = n THEN Counts[n] ELSE @[m]]]
    /\ UNCHANGED <<skus, product, groups, cache, overlap, edits, mix>>

SomeCounted(c) == call[c].seen # <<>>   \* mutant: a count that is not awaited
AllCounted(c) == DOMAIN call[c].seen = CountNames
StoreStats(c) ==
    /\ At(c, "stats", "count") /\ AllCounted(c)
    /\ cache' = call[c].seen
    /\ Answer(c) /\ UNCHANGED <<skus, product, groups, overlap, edits, mix>>

NeverExpired == FALSE   \* mutant: an entry without expiresAt
Expired == cache # None
ExpireStats ==
    /\ Expired /\ cache' = None
    /\ UNCHANGED <<skus, product, groups, call, overlap, edits, mix>>

-----------------------------------------------------------------------------
Handle(c) ==
    \/ ReadSummary(c) \/ WriteSummary(c) \/ FailSummary(c)
    \/ BeginUpdate(c) \/ CommitUpdate(c) \/ RollBack(c) \/ Invalidate(c)
    \/ SyncProductConfiguration(c) \/ StoreStats(c) \/ \E n \in CountNames : Count(c, n)

Ask(c) ==
    \/ \E k \in 1 .. MaxSkus, sku \in Sku : WriteSku(c, k, sku)
    \/ \E p \in Prices, n \in Stocks, s \in {"ACTIVE", "INACTIVE"} : ReadProduct(c, p, n, s)
    \/ \E s \in {"ACTIVE", "INACTIVE"} : UpdateStatus(c, s)
    \/ OpenDialog(c) \/ EditDraft(c) \/ Cancel(c) \/ Save(c) \/ AskStats(c)

(* Every edit has been made and answered. *)
Done == edits = MaxEdits /\ (\A c \in Calls : call[c] = Idle) /\ UNCHANGED vars

Next == (\E c \in Calls : Ask(c) \/ Handle(c)) \/ ExpireStats \/ Done

Spec == Init /\ [][Next]_vars /\ WF_vars(ExpireStats) /\ \A c \in Calls : WF_vars(Handle(c))

-----------------------------------------------------------------------------
(* Whatever drafts cross, exactly one SKU is the default: the summary's price and
   the customer's menu start from it (syncVariants resets all, then sets one). *)
OneDefaultSku == Cardinality({k \in DOMAIN skus : skus[k].default}) = 1

(* Once nobody is writing, the price and the stock on the product row are those of its
   active SKUs, unless a refresh was overtaken by another edit or failed: sequential
   edits never leave the list wrong (refreshProductSummary and its four callers). *)
SummaryFollowsSkus ==
    overlap \/ (\E c \in OfKind("sku") : TRUE) \/ product = Summarised(product, skus)

(* A group bound to a SKU that is still enabled never belongs to a SKU which some
   configuration left out: the group would come back with the SKU and customers
   would have to choose from it (the target check and the stale bindings of
   syncSelectionBindings, with drafts of several merchants). *)
NoGroupOnDroppedSku ==
    \A g \in DOMAIN groups : groups[g].enabled /\ groups[g].target # 0 => skus[groups[g].target].state # "dropped"

(* When the edits have ended, the statistics shown are in the end those of the catalog,
   although a slow count may fill the cache after a change has cleared it. *)
StatsConverge == <>[](cache = None \/ cache = Counts)

(* The invariants of the catalog together: a product has one default SKU, shows the
   price and stock of its SKUs, and asks for nothing a configuration took out. *)
CatalogIsSound == TypeOK /\ OneDefaultSku /\ SummaryFollowsSkus /\ NoGroupOnDroppedSku
=============================================================================
