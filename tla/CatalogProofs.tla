---------------------------- MODULE CatalogProofs ----------------------------
(***************************************************************************)
(* A product and the requests about it, for any number of requests, any    *)
(* prices and stocks and any number of SKUs and bindings.  The argument:   *)
(* SKUs and bindings are only ever added and a binding keeps its SKU, so   *)
(* what a request has copied can be applied to whatever it finds later;    *)
(* and a summary is wrong only while a SKU edit is under way, or after one *)
(* was overtaken or failed.                                                *)
(***************************************************************************)
EXTENDS Catalog, SequenceTheorems, FiniteSetTheorems, WellFoundedInduction, TLAPS

(* The product: one default among its SKUs, no enabled binding to a dropped one. *)
Product == [status: {"DRAFT", "ACTIVE", "INACTIVE"}, price: Nat, stock: Nat]
IsDefault(s, k) == \A j \in DOMAIN s : s[j].default <=> j = k
SkusHold(s) == s \in Seq(Sku) /\ Len(s) \in 1 .. MaxSkus /\ \E k \in DOMAIN s : IsDefault(s, k)
GroupsHold(gs, s) ==
    /\ gs \in Seq(Group) /\ Len(gs) <= MaxGroups
    /\ \A g \in DOMAIN gs : gs[g].target \in 0 .. Len(s) /\ (gs[g].enabled /\ gs[g].target # 0 => s[gs[g].target].state # "dropped")
Numbers == {"active", "skus", "groups"}
CacheHolds(x) == x = None \/ (DOMAIN x = Numbers /\ \A n \in Numbers : x[n] \in Nat)

(* A request in hand: what it has copied is about SKUs and bindings that exist. *)
UpdateHolds(r, s) ==
    /\ {"price", "stock", "status", "sku", "seen"} \subseteq DOMAIN r
    /\ r.pc \in {"begin", "commit"} /\ r.price \in Prices /\ r.stock \in Stocks
    /\ r.status \in {"ACTIVE", "INACTIVE"} /\ r.sku \in DOMAIN s
    /\ r.pc = "commit" => r.seen \in Seq(Sku)
Variant(s) == [id: 0 .. Len(s), sku: Sku]
Binding(s, gs) == [id: 0 .. Len(gs), target: 0 .. Len(s)]
BindingsHold(ds, s, gs) ==
    /\ IsFiniteSet(ds) /\ ds \subseteq Binding(s, gs)
    /\ \A d \in ds : d.id # 0 => d.target = gs[d.id].target
DraftHolds(r, s, gs) ==
    /\ {"valid", "variants", "groups"} \subseteq DOMAIN r
    /\ r.pc \in {"editing", "edited", "sent"} /\ r.valid \in BOOLEAN
    /\ r.variants \in Seq(Variant(s)) /\ BindingsHold(r.groups, s, gs)
    /\ r.pc = "sent" => r.variants # <<>> /\ r.variants[1].sku.default
StatsHold(r) == "seen" \in DOMAIN r /\ r.pc = "count" /\ DOMAIN r.seen \subseteq Numbers /\ \A n \in DOMAIN r.seen : r.seen[n] \in Nat
Holds(r, s, gs) ==
    /\ r.op \in Ops /\ {"op", "pc"} \subseteq DOMAIN r
    /\ r.op = "sku" => r.pc \in {"read", "write"} /\ (r.pc = "write" => r.seen \in Seq(Sku))
    /\ r.op = "product" /\ r.pc # "invalidate" => UpdateHolds(r, s)
    /\ r.op = "config" /\ r.pc # "invalidate" => DraftHolds(r, s, gs)
    /\ r.op = "stats" => StatsHold(r)
CallsHold(k, s, gs) == DOMAIN k = Calls /\ \A c \in Calls : Holds(k[c], s, gs)

(* What a refresh has read is still so, unless one was overtaken. *)
Writing(r) == (r.op = "sku" /\ r.pc = "write") \/ (r.op = "product" /\ r.pc = "commit")
IsFresh(k, s, o) == o \/ \A c \in Calls : Writing(k[c]) => k[c].seen = s
Shows(p, s) == p.price = Summary(s).price /\ p.stock = Summary(s).stock
Follows(k, p, s, o) == o \/ (\E c \in Calls : k[c].op = "sku") \/ Shows(p, s)

(* What holds of the product, of everything copied from it, and between them.  *)
CatalogInv ==
    /\ SkusHold(skus) /\ GroupsHold(groups, skus) /\ product \in Product
    /\ CallsHold(call, skus, groups) /\ IsFresh(call, skus, overlap) /\ Follows(call, product, skus, overlap)
    /\ CacheHolds(cache) /\ overlap \in BOOLEAN /\ edits \in 0 .. MaxEdits /\ mix \in Mixes

-----------------------------------------------------------------------------
(* The stock of a summary is a fold over a set, the value that a function    *)
(* given by a fixpoint takes.  It exists, by a least set for which it would  *)
(* not: no induction theorem of the library can be used for it.              *)

OnSet(s) == {k \in DOMAIN s : s[k].state = "on"}
Adds(s, total, D) ==
   total = [T \in SUBSET D |-> IF T = {} THEN 0 ELSE total[T \ {CHOOSE x \in T : TRUE}] + s[CHOOSE x \in T : TRUE].stock]

LEMMA SumIsFold == ASSUME NEW s PROVE Summary(s).stock = (CHOOSE total : Adds(s, total, OnSet(s)))[OnSet(s)]
BY Zenon DEF Summary, FoldSet, MapThenFoldSet, Adds, OnSet

(* Every set of numbers that is not empty has a least one. *)
Below == {ss \in Nat \X Nat : ss[1] < ss[2]}
LEMMA LeastNat == ASSUME NEW T \in SUBSET Nat, T # {} PROVE \E x \in T : \A y \in T : x <= y
<1>1. IsWellFoundedOn(Below, Nat)
  BY NatLessThanWellFounded DEF OpToRel, Below
<1>2. \A x, y \in Nat : y < x => <<y, x>> \in Below
  BY DEF Below
<1>3. PICK x \in T : \A y \in T : ~(<<y, x>> \in Below)
  BY <1>1, WFMin
<1>4. ASSUME NEW y \in T PROVE x <= y
  <2>1. ~(y < x)
    BY <1>2, <1>3
  <2>2. QED
    BY <2>1
<1>5. QED
  BY <1>4

First(T) == CHOOSE x \in T : TRUE
SumStep(s, h, T) == IF T = {} THEN 0 ELSE h[T \ {First(T)}] + s[First(T)].stock
SumUpTo(s, h, D, n) == \A T \in SUBSET D : Cardinality(T) <= n => h[T] = SumStep(s, h, T)

LEMMA Smaller ==
    ASSUME NEW D, IsFiniteSet(D), NEW T \in SUBSET D, T # {}
    PROVE  /\ First(T) \in T /\ T \ {First(T)} \in SUBSET D
           /\ Cardinality(T) \in Nat /\ Cardinality(T \ {First(T)}) = Cardinality(T) - 1 /\ Cardinality(T) > 0
<1>1. First(T) \in T
  BY DEF First
<1>2. IsFiniteSet(T)
  BY FS_Subset
<1>3. Cardinality(T) \in Nat /\ Cardinality(T) # 0
  BY <1>2, FS_CardinalityType, FS_EmptySet
<1>4. Cardinality(T \ {First(T)}) = Cardinality(T) - 1
  BY <1>1, <1>2, FS_RemoveElement
<1>5. T \ {First(T)} \in SUBSET D
  OBVIOUS
<1>6. QED
  BY <1>1, <1>3, <1>4, <1>5

LEMMA SumStarts == ASSUME NEW s, NEW D, IsFiniteSet(D) PROVE \E h : SumUpTo(s, h, D, 0)
<1> DEFINE h == [T \in SUBSET D |-> 0]
<1>1. ASSUME NEW T \in SUBSET D, Cardinality(T) <= 0 PROVE h[T] = SumStep(s, h, T)
  <2>1. T = {}
    <3>1. T # {} => Cardinality(T) \in Nat /\ Cardinality(T) > 0
      BY Smaller
    <3>2. QED
      BY <1>1, <3>1
  <2>2. QED
    BY <2>1 DEF SumStep
<1>2. SumUpTo(s, h, D, 0)
  BY <1>1 DEF SumUpTo
<1>3. QED
  BY <1>2

LEMMA SumGoesOn ==
    ASSUME NEW s, NEW D, IsFiniteSet(D), NEW n \in Nat, NEW h, SumUpTo(s, h, D, n)
    PROVE  \E g : SumUpTo(s, g, D, n + 1)
<1> DEFINE g == [T \in SUBSET D |-> SumStep(s, h, T)]
<1>1. ASSUME NEW T \in SUBSET D, Cardinality(T) <= n PROVE g[T] = h[T]
  BY <1>1 DEF SumUpTo
<1>2. ASSUME NEW T \in SUBSET D, Cardinality(T) <= n + 1 PROVE g[T] = SumStep(s, g, T)
  <2>1. CASE T = {}
    BY <2>1 DEF SumStep
  <2>2. CASE T # {}
    <3> DEFINE U == T \ {First(T)}
    <3>1. U \in SUBSET D /\ Cardinality(U) <= n
      BY <1>2, <2>2, Smaller
    <3>2. g[U] = h[U]
      BY <1>1, <3>1
    <3>3. QED
      BY <2>2, <3>2 DEF SumStep
  <2>3. QED
    BY <2>1, <2>2
<1>3. SumUpTo(s, g, D, n + 1)
  BY <1>2 DEF SumUpTo
<1>4. QED
  BY <1>3

LEMMA SumReaches == ASSUME NEW s, NEW D, IsFiniteSet(D), NEW n \in Nat PROVE \E h : SumUpTo(s, h, D, n)
<1> DEFINE Missing == {m \in Nat : ~\E h : SumUpTo(s, h, D, m)}
<1>1. SUFFICES ASSUME Missing # {} PROVE FALSE
  OBVIOUS
<1>2. PICK m \in Missing : \A k \in Missing : m <= k
  BY <1>1, LeastNat
<1>3. m \in Nat /\ m # 0
  BY SumStarts
<1>4. m - 1 \in Nat /\ m - 1 \notin Missing
  BY <1>2, <1>3
<1>5. PICK h : SumUpTo(s, h, D, m - 1)
  BY <1>4
<1>6. \E g : SumUpTo(s, g, D, (m - 1) + 1)
  BY <1>4, <1>5, SumGoesOn
<1>7. QED
  BY <1>3, <1>6

LEMMA SumExists == ASSUME NEW s, NEW D, IsFiniteSet(D) PROVE \E total : Adds(s, total, D)
<1>1. Cardinality(D) \in Nat
  BY FS_CardinalityType
<1>2. PICK h : SumUpTo(s, h, D, Cardinality(D))
  BY <1>1, SumReaches
<1> DEFINE g == [T \in SUBSET D |-> h[T]]
<1>3. ASSUME NEW T \in SUBSET D PROVE g[T] = SumStep(s, g, T)
  <2>1. h[T] = SumStep(s, h, T)
    BY <1>2, FS_Subset DEF SumUpTo
  <2>2. CASE T = {}
    BY <2>1, <2>2 DEF SumStep
  <2>3. CASE T # {}
    <3>1. T \ {First(T)} \in SUBSET D
      OBVIOUS
    <3>2. QED
      BY <2>1, <2>3, <3>1 DEF SumStep
  <2>4. QED
    BY <2>2, <2>3
<1>4. g = [T \in SUBSET D |-> SumStep(s, g, T)]
  BY <1>3
<1> HIDE DEF g
<1>5. Adds(s, g, D)
  BY <1>4 DEF Adds, SumStep, First
<1>6. QED
  BY <1>5

LEMMA SumIsNat ==
    ASSUME NEW s, NEW D, IsFiniteSet(D), \A k \in D : s[k].stock \in Nat, NEW total, Adds(s, total, D)
    PROVE  \A T \in SUBSET D : total[T] \in Nat /\ total[T] = SumStep(s, total, T)
<1>1. \A T \in SUBSET D : total[T] = SumStep(s, total, T)
  BY DEF Adds, SumStep, First
<1> DEFINE Wrong == {n \in Nat : \E T \in SUBSET D : Cardinality(T) = n /\ total[T] \notin Nat}
<1>2. ASSUME Wrong # {} PROVE FALSE
  <2>1. PICK m \in Wrong : \A k \in Wrong : m <= k
    BY <1>2, LeastNat
  <2>2. PICK T \in SUBSET D : Cardinality(T) = m /\ total[T] \notin Nat
    BY <2>1
  <2>3. T # {} /\ total[T] = SumStep(s, total, T)
    <3>1. total[T] = SumStep(s, total, T)
      BY <1>1
    <3>2. ASSUME T = {} PROVE total[T] \in Nat
      BY <3>1, <3>2 DEF SumStep
    <3>3. QED
      BY <2>2, <3>1, <3>2
  <2> DEFINE U == T \ {First(T)}
  <2>4. First(T) \in D /\ U \in SUBSET D /\ Cardinality(U) = m - 1 /\ Cardinality(U) \in Nat /\ m \in Nat
    BY <2>2, <2>3, Smaller
  <2>5. total[U] \in Nat
    BY <2>1, <2>4
  <2>6. total[T] = total[U] + s[First(T)].stock
    BY <2>3 DEF SumStep
  <2>7. s[First(T)].stock \in Nat
    BY <2>4
  <2> HIDE DEF U
  <2>8. QED
    BY <2>2, <2>5, <2>6, <2>7
<1>3. ASSUME NEW T \in SUBSET D PROVE total[T] \in Nat
  <2>1. Cardinality(T) \in Nat
    BY FS_Subset, FS_CardinalityType
  <2>2. QED
    BY <1>2, <2>1
<1>4. QED
  BY <1>1, <1>3

LEMMA PositionsAreFinite == ASSUME NEW s \in Seq(Sku), NEW T \in SUBSET DOMAIN s PROVE IsFiniteSet(T) /\ T \subseteq Nat
<1>1. DOMAIN s = 1 .. Len(s) /\ Len(s) \in Nat
  OBVIOUS
<1>2. IsFiniteSet(1 .. Len(s))
  BY <1>1, FS_Interval
<1>3. QED
  BY <1>1, <1>2, FS_Subset

LEMMA StockIsSum ==
    ASSUME NEW s \in Seq(Sku)
    PROVE  \E total : Adds(s, total, OnSet(s)) /\ Summary(s).stock = total[OnSet(s)]
<1>1. IsFiniteSet(OnSet(s))
  BY PositionsAreFinite DEF OnSet
<1> DEFINE total == CHOOSE t : Adds(s, t, OnSet(s))
<1>2. Adds(s, total, OnSet(s))
  BY <1>1, SumExists
<1>3. Summary(s).stock = total[OnSet(s)]
  BY SumIsFold
<1> HIDE DEF total
<1>4. QED
  BY <1>2, <1>3

LEMMA PriceOfSummary ==
    ASSUME NEW s \in Seq(Sku)
    PROVE  Summary(s).price \in Nat /\ (Firsts(s) # {} => \E k \in Firsts(s) : Summary(s).price = s[k].price)
<1>1. Firsts(s) \subseteq DOMAIN s
  BY DEF Firsts
<1>2. CASE Firsts(s) = {}
  BY <1>2 DEF Summary
<1>3. CASE Firsts(s) # {}
  <2> DEFINE first == CHOOSE k \in Firsts(s) : \A j \in Firsts(s) : k <= j
  <2>1. \E k \in Firsts(s) : \A j \in Firsts(s) : k <= j
    BY <1>1, <1>3, PositionsAreFinite, LeastNat
  <2>2. first \in Firsts(s)
    BY <2>1
  <2>3. Summary(s).price = s[first].price
    BY <1>3 DEF Summary
  <2> HIDE DEF first
  <2>4. s[first] \in Sku
    BY <1>1, <2>2
  <2>5. s[first].price \in Nat
    BY <2>4, CatalogAssumption DEF Sku
  <2>6. QED
    BY <2>2, <2>3, <2>5
<1>4. QED
  BY <1>2, <1>3

LEMMA SummaryIsNatural == ASSUME NEW s \in Seq(Sku) PROVE Summary(s).stock \in Nat /\ Summary(s).price \in Nat
<1>1. IsFiniteSet(OnSet(s)) /\ \A k \in OnSet(s) : s[k].stock \in Nat
  <2>1. \A k \in DOMAIN s : s[k] \in Sku
    OBVIOUS
  <2>2. QED
    BY <2>1, PositionsAreFinite, CatalogAssumption DEF OnSet, Sku
<1>2. PICK total : Adds(s, total, OnSet(s)) /\ Summary(s).stock = total[OnSet(s)]
  BY StockIsSum
<1>3. QED
  BY <1>1, <1>2, SumIsNat, PriceOfSummary

(* What createProduct writes beside its only SKU. *)
LEMMA SummaryOfOne ==
    ASSUME NEW sku \in Sku, sku.default, sku.state = "on"
    PROVE  Summary(<<sku>>).stock = sku.stock /\ Summary(<<sku>>).price = sku.price
<1> DEFINE s == <<sku>>
<1>1. s \in Seq(Sku) /\ DOMAIN s = {1} /\ s[1] = sku
  OBVIOUS
<1> HIDE DEF s
<1>2. OnSet(s) = {1} /\ Firsts(s) = {1}
  BY <1>1 DEF OnSet, Firsts
<1>3. Summary(s).price = sku.price
  BY <1>1, <1>2, PriceOfSummary
<1>4. PICK total : Adds(s, total, {1}) /\ Summary(s).stock = total[{1}]
  BY <1>1, <1>2, StockIsSum
<1>5. sku.stock \in Nat
  BY CatalogAssumption DEF Sku
<1>6. \A T \in SUBSET {1} : total[T] = SumStep(s, total, T)
  <2>1. IsFiniteSet({1}) /\ (\A k \in {1} : s[k].stock \in Nat) /\ Adds(s, total, {1})
    BY <1>1, <1>4, <1>5, FS_Singleton
  <2>2. QED
    BY <2>1, SumIsNat, Zenon
<1>7. First({1}) = 1
  BY DEF First
<1>8. {1} \ {First({1})} = {}
  BY <1>7
<1>9. total[{}] = 0 /\ total[{1}] = total[{}] + s[1].stock
  <2>1. total[{}] = SumStep(s, total, {}) /\ total[{1}] = SumStep(s, total, {1})
    BY <1>6
  <2>2. QED
    BY <1>7, <1>8, <2>1 DEF SumStep
<1>10. Summary(s).stock = sku.stock
  BY <1>1, <1>4, <1>5, <1>9
<1>11. QED
  BY <1>3, <1>10 DEF s

-----------------------------------------------------------------------------
(* The invariant says what the run checks, and the initial state has it.     *)

LEMMA SummarisedShows ==
    ASSUME NEW p \in Product, NEW s \in Seq(Sku)
    PROVE  Summarised(p, s) \in Product /\ Shows(Summarised(p, s), s) /\ (p = Summarised(p, s) <=> Shows(p, s))
BY SummaryIsNatural DEF Summarised, Product, Shows

LEMMA OnlyStatus ==
    ASSUME NEW p \in Product, NEW st \in {"ACTIVE", "INACTIVE"}, NEW s
    PROVE  [p EXCEPT !.status = st] \in Product /\ (Shows([p EXCEPT !.status = st], s) <=> Shows(p, s))
BY DEF Product, Shows

LEMMA NamesOfCounts == CountNames = Numbers
BY DEF CountNames, Counts, Numbers

LEMMA CountsAreNatural == ASSUME CatalogInv PROVE \A n \in CountNames : Counts[n] \in Nat
<1>1. groups \in Seq(Group) /\ skus \in Seq(Sku) /\ EnabledGroups \subseteq 1 .. Len(groups)
  BY DEF CatalogInv, GroupsHold, SkusHold, EnabledGroups
<1>2. Cardinality(EnabledGroups) \in Nat /\ Len(skus) \in Nat
  <2>1. Len(groups) \in Nat /\ Len(skus) \in Nat
    BY <1>1
  <2>2. IsFiniteSet(1 .. Len(groups))
    BY <2>1, FS_Interval
  <2>3. IsFiniteSet(EnabledGroups)
    BY <1>1, <2>2, FS_Subset, Zenon
  <2>4. QED
    BY <2>1, <2>3, FS_CardinalityType
<1>3. CountNames = {"active", "skus", "groups"}
  BY NamesOfCounts DEF Numbers
<1>4. Counts.active \in Nat /\ Counts.skus \in Nat /\ Counts.groups \in Nat
  BY <1>2 DEF Counts
<1>5. QED
  BY <1>3, <1>4

LEMMA InvIsSound == CatalogInv => CatalogIsSound
<1> SUFFICES ASSUME CatalogInv PROVE CatalogIsSound
  OBVIOUS
<1>1. /\ SkusHold(skus) /\ GroupsHold(groups, skus) /\ product \in Product
      /\ CallsHold(call, skus, groups) /\ Follows(call, product, skus, overlap)
      /\ CacheHolds(cache) /\ overlap \in BOOLEAN /\ edits \in 0 .. MaxEdits /\ mix \in Mixes
  BY DEF CatalogInv
<1>2. skus \in Seq(Sku) /\ groups \in Seq(Group) /\ DOMAIN skus = 1 .. Len(skus) /\ DOMAIN groups = 1 .. Len(groups)
  BY <1>1 DEF SkusHold, GroupsHold
<1>3. ASSUME NEW c \in Calls, call[c].op = "config", call[c].pc # "invalidate" PROVE IsDraft(call[c])
  <2>1. DraftHolds(call[c], skus, groups)
    BY <1>1, <1>3 DEF CallsHold, Holds
  <2>2. \A j \in DOMAIN call[c].variants : call[c].variants[j] \in Variant(skus)
    BY <2>1 DEF DraftHolds
  <2>3. \A g \in call[c].groups : g \in Binding(skus, groups)
    BY <2>1 DEF DraftHolds, BindingsHold
  <2>4. QED
    BY <2>2, <2>3 DEF IsDraft, Variant, Binding
<1>4. TypeOK
  <2>1. \A c \in Calls : call[c].op \in Ops
    BY <1>1 DEF CallsHold, Holds
  <2>2. product.status \in {"DRAFT", "ACTIVE", "INACTIVE"} /\ {product.price, product.stock} \subseteq Nat
    BY <1>1 DEF Product
  <2>3. cache = None \/ (DOMAIN cache = CountNames /\ \A n \in CountNames : cache[n] \in Nat)
    BY <1>1, NamesOfCounts DEF CacheHolds
  <2>4. Len(skus) \in 1 .. MaxSkus /\ Len(groups) <= MaxGroups /\ \A g \in DOMAIN groups : groups[g].target \in 0 .. Len(skus)
    BY <1>1 DEF SkusHold, GroupsHold
  <2>5. QED
    BY <1>1, <1>2, <1>3, <2>1, <2>2, <2>3, <2>4, Zenon DEF TypeOK
<1>5. OneDefaultSku
  <2>1. PICK k \in DOMAIN skus : IsDefault(skus, k)
    BY <1>1 DEF SkusHold
  <2>2. {j \in DOMAIN skus : skus[j].default} = {k}
    BY <2>1 DEF IsDefault
  <2>3. QED
    BY <2>2, FS_Singleton DEF OneDefaultSku
<1>6. SummaryFollowsSkus
  BY <1>1, <1>2, SummarisedShows DEF Follows, SummaryFollowsSkus, OfKind
<1>7. NoGroupOnDroppedSku
  BY <1>1 DEF GroupsHold, NoGroupOnDroppedSku
<1>8. QED
  BY <1>4, <1>5, <1>6, <1>7 DEF CatalogIsSound

LEMMA CatalogStarts == Init => CatalogInv
<1> SUFFICES ASSUME Init PROVE CatalogInv
  OBVIOUS
<1>1. PICK p \in Prices, n \in Stocks :
         /\ skus = <<[price |-> p, stock |-> n, default |-> TRUE, state |-> "on"]>>
         /\ product = [status |-> "DRAFT", price |-> p, stock |-> n]
  BY DEF Init
<1> DEFINE sku == [price |-> p, stock |-> n, default |-> TRUE, state |-> "on"]
<1>2. sku \in Sku /\ sku.default /\ sku.state = "on" /\ sku.price = p /\ sku.stock = n
  BY DEF Sku, SkuStates
<1>3. product \in Product /\ product.price = p /\ product.stock = n
  BY <1>1, CatalogAssumption DEF Product
<1>4. skus = <<sku>>
  BY <1>1
<1> HIDE DEF sku
<1>5. Shows(product, skus)
  BY <1>2, <1>3, <1>4, SummaryOfOne DEF Shows
<1>6. SkusHold(skus)
  <2>1. skus \in Seq(Sku) /\ Len(skus) = 1 /\ DOMAIN skus = {1} /\ skus[1] = sku
    BY <1>2, <1>4
  <2>2. IsDefault(skus, 1)
    BY <1>2, <2>1 DEF IsDefault
  <2>3. QED
    BY <2>1, <2>2, CatalogAssumption DEF SkusHold
<1>7. GroupsHold(groups, skus)
  <2>1. groups = <<>> /\ groups \in Seq(Group) /\ Len(groups) = 0 /\ DOMAIN groups = {}
    BY DEF Init
  <2>2. QED
    BY <2>1, CatalogAssumption DEF GroupsHold
<1>8. CallsHold(call, skus, groups) /\ IsFresh(call, skus, overlap)
  BY DEF Init, CallsHold, Holds, Idle, Ops, IsFresh, Writing
<1>9. cache = None /\ overlap = FALSE /\ edits = 0 /\ mix \in Mixes
  BY DEF Init
<1>10. CacheHolds(cache) /\ overlap \in BOOLEAN /\ edits \in 0 .. MaxEdits
  <2>1. CacheHolds(cache)
    BY <1>9, Zenon DEF CacheHolds
  <2>2. overlap \in BOOLEAN
    BY <1>9
  <2>3. edits \in 0 .. MaxEdits
    BY <1>9, CatalogAssumption
  <2>4. QED
    BY <2>1, <2>2, <2>3, Zenon
<1>11. Follows(call, product, skus, overlap)
  BY <1>5 DEF Follows
<1>12. QED
  BY <1>3, <1>6, <1>7, <1>8, <1>9, <1>10, <1>11 DEF CatalogInv

-----------------------------------------------------------------------------
(* What a step has to show.                                                   *)

(* SKUs and bindings are only added, and a binding keeps its SKU: whatever a *)
(* request has copied stays usable.                                          *)
Grown(s, s2, gs, gs2) ==
    /\ Len(s) <= Len(s2) /\ Len(gs) <= Len(gs2)
    /\ \A g \in 1 .. Len(gs) : gs2[g].target = gs[g].target

LEMMA RequestsKeep ==
    ASSUME NEW s \in Seq(Sku), NEW s2 \in Seq(Sku), NEW gs \in Seq(Group), NEW gs2 \in Seq(Group),
           Grown(s, s2, gs, gs2), NEW r, Holds(r, s, gs)
    PROVE  Holds(r, s2, gs2)
<1>1. /\ Len(s) \in Nat /\ Len(s2) \in Nat /\ Len(gs) \in Nat /\ Len(gs2) \in Nat
      /\ DOMAIN s = 1 .. Len(s) /\ DOMAIN s2 = 1 .. Len(s2)
      /\ Len(s) <= Len(s2) /\ Len(gs) <= Len(gs2)
  BY DEF Grown
<1>2. UpdateHolds(r, s) => UpdateHolds(r, s2)
  BY <1>1 DEF UpdateHolds
<1>3. DraftHolds(r, s, gs) => DraftHolds(r, s2, gs2)
  <2> SUFFICES ASSUME DraftHolds(r, s, gs) PROVE DraftHolds(r, s2, gs2)
    OBVIOUS
  <2>1. Variant(s) \subseteq Variant(s2)
    BY <1>1 DEF Variant
  <2>2. r.variants \in Seq(Variant(s2))
    BY <2>1 DEF DraftHolds
  <2>3. r.groups \subseteq Binding(s2, gs2)
    BY <1>1 DEF DraftHolds, BindingsHold, Binding
  <2>4. ASSUME NEW d \in r.groups, d.id # 0 PROVE d.target = gs2[d.id].target
    <3>1. d.id \in 1 .. Len(gs) /\ d.target = gs[d.id].target
      BY <1>1, <2>4 DEF DraftHolds, BindingsHold, Binding
    <3>2. QED
      BY <3>1 DEF Grown
  <2>5. BindingsHold(r.groups, s2, gs2)
    BY <2>3, <2>4 DEF DraftHolds, BindingsHold
  <2>6. QED
    BY <2>2, <2>5 DEF DraftHolds
<1>4. QED
  BY <1>2, <1>3 DEF Holds

LEMMA OneRequest ==
    ASSUME CatalogInv, NEW c \in Calls, NEW q, call' = [call EXCEPT ![c] = q],
           skus' \in Seq(Sku), groups' \in Seq(Group), Grown(skus, skus', groups, groups'),
           Holds(q, skus', groups')
    PROVE  CallsHold(call', skus', groups')
<1>1. skus \in Seq(Sku) /\ groups \in Seq(Group) /\ DOMAIN call = Calls /\ \A d \in Calls : Holds(call[d], skus, groups)
  BY DEF CatalogInv, SkusHold, GroupsHold, CallsHold
<1>2. DOMAIN call' = Calls /\ call'[c] = q /\ \A d \in Calls \ {c} : call'[d] = call[d]
  BY <1>1
<1>3. \A d \in Calls \ {c} : Holds(call'[d], skus', groups')
  BY <1>1, <1>2, RequestsKeep
<1>4. QED
  BY <1>2, <1>3 DEF CallsHold

LEMMA NothingGrows == ASSUME CatalogInv PROVE Grown(skus, skus, groups, groups)
BY DEF CatalogInv, SkusHold, GroupsHold, Grown

(* A request goes on, and nothing else happens to the catalog. *)
LEMMA OnlyARequest ==
    ASSUME CatalogInv, NEW c \in Calls, NEW q, call' = [call EXCEPT ![c] = q],
           UNCHANGED <<skus, product, groups, overlap, mix>>,
           Holds(q, skus, groups), Writing(q) => q.seen = skus \/ (Writing(call[c]) /\ q.seen = call[c].seen),
           call[c].op = "sku" => q.op = "sku",
           CacheHolds(cache'), edits' \in 0 .. MaxEdits
    PROVE  CatalogInv'
<1>1. skus' \in Seq(Sku) /\ groups' \in Seq(Group) /\ Grown(skus, skus', groups, groups')
  BY NothingGrows DEF CatalogInv, SkusHold, GroupsHold
<1>2. CallsHold(call', skus', groups')
  BY <1>1, OneRequest
<1>3. DOMAIN call = Calls /\ call'[c] = q /\ \A d \in Calls \ {c} : call'[d] = call[d]
  BY DEF CatalogInv, CallsHold
<1>4. IsFresh(call', skus', overlap')
  BY <1>3 DEF CatalogInv, IsFresh
<1>5. Follows(call', product', skus', overlap')
  BY <1>3 DEF CatalogInv, Follows
<1>6. SkusHold(skus') /\ GroupsHold(groups', skus') /\ product' \in Product /\ overlap' \in BOOLEAN /\ mix' \in Mixes
  BY DEF CatalogInv
<1>7. CacheHolds(cache)'
  BY DEF CacheHolds, None
<1>8. QED
  BY <1>2, <1>4, <1>5, <1>6, <1>7, Zenon DEF CatalogInv

(* A request ends. *)
LEMMA IdleHolds == ASSUME NEW s, NEW gs PROVE Holds(Idle, s, gs) /\ ~Writing(Idle)
BY DEF Holds, Idle, Ops, Writing

LEMMA RequestEnds ==
    ASSUME CatalogInv, NEW c \in Calls, Answer(c), call[c].op # "sku",
           UNCHANGED <<skus, product, groups, overlap, edits, mix>>, CacheHolds(cache')
    PROVE  CatalogInv'
<1>1. call' = [call EXCEPT ![c] = Idle] /\ edits' \in 0 .. MaxEdits
  BY DEF Answer, CatalogInv
<1>2. QED
  BY <1>1, IdleHolds, OnlyARequest

-----------------------------------------------------------------------------
(* What a saved configuration makes of the SKUs and the bindings.             *)

(* The rows of a draft that are new get the numbers that follow, one each. *)
Upto(T, i) == {j \in T : j <= i}

LEMMA UptoGrows ==
    ASSUME NEW T \in SUBSET Nat, IsFiniteSet(T), NEW i \in T, NEW j \in T, i < j
    PROVE  Cardinality(Upto(T, i)) # Cardinality(Upto(T, j))
<1>1. Upto(T, i) \in SUBSET Upto(T, j) /\ Upto(T, j) \in SUBSET T
  <2>1. \A m \in T : m \in Nat /\ (m <= i => m <= j)
    OBVIOUS
  <2>2. QED
    BY <2>1 DEF Upto
<1>2. j \in Upto(T, j) /\ j \notin Upto(T, i)
  <2>1. i \in Nat /\ j \in Nat
    OBVIOUS
  <2>2. QED
    BY <2>1 DEF Upto
<1>3. IsFiniteSet(Upto(T, j))
  BY <1>1, FS_Subset
<1>4. Cardinality(Upto(T, j)) = Cardinality(Upto(T, i)) => Upto(T, j) = Upto(T, i)
  BY <1>1, <1>3, FS_Subset
<1>5. QED
  BY <1>2, <1>4

(* The ranks of the members of a finite set are 1 .. its size. *)
LEMMA RanksAreTaken ==
    ASSUME NEW T \in SUBSET Nat, IsFiniteSet(T)
    PROVE  /\ Cardinality(T) \in Nat
           /\ \A i \in Nat : Cardinality(Upto(T, i)) \in 0 .. Cardinality(T)
           /\ \A i \in T : Cardinality(Upto(T, i)) \in 1 .. Cardinality(T)
           /\ \A m \in 1 .. Cardinality(T) : \E i \in T : Cardinality(Upto(T, i)) = m
<1> DEFINE size == Cardinality(T)
           rank == [i \in T |-> Cardinality(Upto(T, i))]
<1>1. size \in Nat
  BY FS_CardinalityType
<1>2. ASSUME NEW i \in Nat
      PROVE  Cardinality(Upto(T, i)) \in 0 .. size /\ (i \in T => Cardinality(Upto(T, i)) # 0)
  <2>1. Upto(T, i) \in SUBSET T /\ (i \in T => i \in Upto(T, i))
    BY DEF Upto
  <2>2. IsFiniteSet(Upto(T, i)) /\ Cardinality(Upto(T, i)) <= size
    BY <2>1, FS_Subset
  <2>3. Cardinality(Upto(T, i)) \in Nat /\ (i \in T => Cardinality(Upto(T, i)) # 0)
    BY <2>1, <2>2, FS_CardinalityType, FS_EmptySet
  <2>4. QED
    BY <1>1, <2>2, <2>3
<1>3. \A i \in T : Cardinality(Upto(T, i)) \in 1 .. size
  BY <1>1, <1>2
<1>4. rank \in [T -> 1 .. size]
  BY <1>3
<1>5. \A i, j \in T : rank[i] = rank[j] => i = j
  <2> SUFFICES ASSUME NEW i \in T, NEW j \in T, i # j PROVE rank[i] # rank[j]
    OBVIOUS
  <2>1. i < j \/ j < i
    OBVIOUS
  <2>2. QED
    BY <2>1, UptoGrows
<1>6. rank \in Injection(T, 1 .. size)
  BY <1>4, <1>5 DEF Injection, IsInjective
<1>7. IsFiniteSet(1 .. size) /\ Cardinality(1 .. size) = size
  BY <1>1, FS_Interval
<1>8. rank \in Surjection(T, 1 .. size)
  BY <1>6, <1>7, FS_Injection
<1>9. \A m \in 1 .. size : \E i \in T : rank[i] = m
  BY <1>8 DEF Surjection
<1>10. QED
  BY <1>1, <1>2, <1>3, <1>9

LEMMA SetAsSeq ==
    ASSUME NEW S, IsFiniteSet(S)
    PROVE  SetToSeq(S) \in Seq(S) /\ Len(SetToSeq(S)) = Cardinality(S) /\ Cardinality(S) \in Nat
<1>1. Cardinality(S) \in Nat /\ ExistsBijection(1 .. Cardinality(S), S)
  BY FS_CardinalityType
<1>2. \E f \in [1 .. Cardinality(S) -> S] : IsInjective(f)
  BY <1>1 DEF ExistsBijection, Bijection, Injection
<1>3. SetToSeq(S) \in [1 .. Cardinality(S) -> S]
  BY <1>2 DEF SetToSeq
<1>4. QED
  BY <1>1, <1>3

(* Where the rows of a draft are saved. *)
LEMMA NewRowsFinite ==
    ASSUME NEW S, NEW vs \in Seq(S)
    PROVE  NewRows(vs) \in SUBSET Nat /\ IsFiniteSet(NewRows(vs)) /\ NewRows(vs) \subseteq DOMAIN vs
<1>1. Len(vs) \in Nat /\ DOMAIN vs = 1 .. Len(vs) /\ NewRows(vs) \in SUBSET (1 .. Len(vs))
  BY DEF NewRows
<1>2. IsFiniteSet(1 .. Len(vs))
  BY <1>1, FS_Interval
<1>3. QED
  BY <1>1, <1>2, FS_Subset

LEMMA RowsAreSaved ==
    ASSUME skus \in Seq(Sku), NEW vs \in Seq(Variant(skus))
    PROVE  /\ Cardinality(NewRows(vs)) \in Nat
           /\ \A j \in DOMAIN vs : SavedAs(vs, j) \in 1 .. Len(skus) + Cardinality(NewRows(vs))
           /\ \A k \in 1 .. Len(skus) + Cardinality(NewRows(vs)) : k > Len(skus) => \E j \in DOMAIN vs : SavedAs(vs, j) = k
<1> DEFINE new == NewRows(vs)
           size == Cardinality(new)
<1>1. new \in SUBSET Nat /\ IsFiniteSet(new) /\ new \subseteq DOMAIN vs
  BY NewRowsFinite
<1>2. Len(skus) \in Nat /\ \A j \in DOMAIN vs : vs[j] \in Variant(skus)
  OBVIOUS
<1>3. \A j \in new : SavedAs(vs, j) = Len(skus) + Cardinality(Upto(new, j))
  BY <1>1 DEF NewRows, SavedAs, Upto
<1>4. \A j \in DOMAIN vs \ new : SavedAs(vs, j) = vs[j].id /\ vs[j].id \in 1 .. Len(skus)
  BY <1>2 DEF NewRows, SavedAs, Variant
<1> HIDE DEF new
<1>5. /\ size \in Nat
      /\ \A i \in new : Cardinality(Upto(new, i)) \in 1 .. size
      /\ \A m \in 1 .. size : \E i \in new : Cardinality(Upto(new, i)) = m
  BY <1>1, RanksAreTaken
<1> HIDE DEF size
<1>6. ASSUME NEW j \in DOMAIN vs PROVE SavedAs(vs, j) \in 1 .. Len(skus) + size
  <2>1. CASE j \in new
    BY <1>2, <1>3, <1>5, <2>1
  <2>2. CASE j \notin new
    BY <1>2, <1>4, <1>5, <2>2
  <2>3. QED
    BY <2>1, <2>2
<1>7. ASSUME NEW k \in 1 .. Len(skus) + size, k > Len(skus) PROVE \E j \in DOMAIN vs : SavedAs(vs, j) = k
  <2>1. k - Len(skus) \in 1 .. size
    BY <1>2, <1>5, <1>7
  <2>2. PICK j \in new : Cardinality(Upto(new, j)) = k - Len(skus)
    BY <1>5, <2>1
  <2>3. SavedAs(vs, j) = Len(skus) + (k - Len(skus))
    BY <1>3, <2>2
  <2>4. SavedAs(vs, j) = k
    BY <1>2, <1>5, <2>3
  <2>5. QED
    BY <1>1, <2>4
<1>8. QED
  BY <1>5, <1>6, <1>7 DEF size, new

LEMMA DefaultIsSaved ==
    ASSUME skus \in Seq(Sku), NEW vs \in Seq(Variant(skus)), vs # <<>>, vs[1].sku.default
    PROVE  \E j \in DOMAIN vs : SavedAs(vs, j) = DefaultOf(vs)
<1> DEFINE first == CHOOSE j \in DOMAIN vs : vs[j].sku.default /\ \A i \in 1 .. j - 1 : ~vs[i].sku.default
<1>1. 1 \in DOMAIN vs /\ 1 .. 1 - 1 = {}
  OBVIOUS
<1>2. first \in DOMAIN vs
  BY <1>1
<1>3. DefaultOf(vs) = IF vs[first].id # 0 THEN vs[first].id ELSE SavedAs(vs, 1)
  BY DEF DefaultOf
<1> HIDE DEF first
<1>4. vs[first].id # 0 => SavedAs(vs, first) = vs[first].id
  BY DEF SavedAs
<1>5. QED
  BY <1>1, <1>2, <1>3, <1>4

LEMMA SkusAreSynced ==
    ASSUME skus \in Seq(Sku), NEW vs \in Seq(Variant(skus)), vs # <<>>, vs[1].sku.default
    PROVE  /\ SyncVariants(vs) \in Seq(Sku)
           /\ Len(SyncVariants(vs)) = Len(skus) + Cardinality(NewRows(vs)) /\ Cardinality(NewRows(vs)) \in Nat
           /\ \E k \in DOMAIN SyncVariants(vs) : IsDefault(SyncVariants(vs), k)
           /\ \A t \in 1 .. Len(skus) : Resolves(vs, t) => SyncVariants(vs)[t].state # "dropped"
<1> DEFINE n == Len(skus) + Cardinality(NewRows(vs))
           Hit(k) == \E j \in DOMAIN vs : SavedAs(vs, j) = k
           row(k) == vs[CHOOSE j \in DOMAIN vs : SavedAs(vs, j) = k].sku
           after == SyncVariants(vs)
<1>1. Len(skus) \in Nat /\ Cardinality(NewRows(vs)) \in Nat /\ n \in Nat
  BY RowsAreSaved
<1>2. \A j \in DOMAIN vs : vs[j] \in Variant(skus) /\ vs[j].sku \in Sku
  <2>1. \A j \in DOMAIN vs : vs[j] \in Variant(skus)
    OBVIOUS
  <2>2. QED
    BY <2>1 DEF Variant
<1>3. ASSUME NEW k, Hit(k)
      PROVE  /\ SyncedSku(vs, k) \in Sku /\ SyncedSku(vs, k).state \in {"on", "off"}
             /\ SyncedSku(vs, k).default <=> k = DefaultOf(vs)
  <2>1. row(k) \in Sku
    BY <1>2, <1>3
  <2>2. SyncedSku(vs, k) = [row(k) EXCEPT !.state = SavedState(row(k).state), !.default = (k = DefaultOf(vs))]
    BY <1>3 DEF SyncedSku
  <2> HIDE DEF row
  <2>3. SavedState(row(k).state) \in {"on", "off"} /\ (k = DefaultOf(vs)) \in BOOLEAN
    BY DEF SavedState
  <2> DEFINE st == SavedState(row(k).state)
             df == (k = DefaultOf(vs))
             r == row(k)
  <2>4. r \in Sku /\ st \in {"on", "off"} /\ df \in BOOLEAN /\ SyncedSku(vs, k) = [r EXCEPT !.state = st, !.default = df]
    BY <2>1, <2>2, <2>3
  <2> HIDE DEF st, df, r
  <2>5. SyncedSku(vs, k) \in Sku /\ SyncedSku(vs, k).state = st /\ SyncedSku(vs, k).default = df
    BY <2>4 DEF Sku, SkuStates
  <2>6. QED
    BY <2>4, <2>5 DEF df
<1>4. ASSUME NEW k \in 1 .. n, ~Hit(k)
      PROVE  SyncedSku(vs, k) \in Sku /\ SyncedSku(vs, k).default = FALSE
  <2>1. k \in 1 .. Len(skus)
    BY <1>1, <1>4, RowsAreSaved
  <2>2. skus[k] \in Sku
    BY <2>1
  <2>3. SyncedSku(vs, k) = [skus[k] EXCEPT !.state = "dropped", !.default = FALSE]
    BY <1>4 DEF SyncedSku
  <2>4. QED
    BY <2>2, <2>3 DEF Sku, SkuStates
<1>5. PICK j \in DOMAIN vs : SavedAs(vs, j) = DefaultOf(vs)
  BY DefaultIsSaved
<1>6. DefaultOf(vs) \in 1 .. n /\ Hit(DefaultOf(vs))
  BY <1>5, RowsAreSaved
<1>7. after = [k \in 1 .. n |-> SyncedSku(vs, k)]
  BY DEF SyncVariants
<1>8. ASSUME NEW t \in 1 .. Len(skus), Resolves(vs, t) PROVE Hit(t)
  <2>1. PICK i \in DOMAIN vs : vs[i].id = t
    BY <1>8 DEF Resolves
  <2>2. SavedAs(vs, i) = t
    BY <2>1 DEF SavedAs
  <2>3. QED
    BY <2>2
<1>9. \A t \in 1 .. Len(skus) : t \in 1 .. n
  BY <1>1
<1> HIDE DEF after, n, Hit
<1>10. \A k \in 1 .. n : SyncedSku(vs, k) \in Sku
  BY <1>3, <1>4
<1>11. after \in Seq(Sku) /\ Len(after) = n /\ DOMAIN after = 1 .. n
  BY <1>1, <1>7, <1>10
<1>12. IsDefault(after, DefaultOf(vs))
  <2>1. \A k \in 1 .. n : SyncedSku(vs, k).default <=> k = DefaultOf(vs)
    BY <1>3, <1>4, <1>6
  <2>2. QED
    BY <1>7, <1>11, <2>1 DEF IsDefault
<1>13. \A t \in 1 .. Len(skus) : Resolves(vs, t) => after[t].state # "dropped"
  BY <1>3, <1>7, <1>8, <1>9
<1>14. \E k \in DOMAIN after : IsDefault(after, k)
  BY <1>6, <1>11, <1>12
<1>15. QED
  BY <1>1, <1>11, <1>13, <1>14 DEF after, n

LEMMA FunctionIsSeq == ASSUME NEW S, NEW n \in Nat, NEW f \in [1 .. n -> S] PROVE f \in Seq(S) /\ Len(f) = n
OBVIOUS

LEMMA BindingsAreSynced ==
    ASSUME NEW s \in Seq(Sku), groups \in Seq(Group), NEW ds, BindingsHold(ds, s, groups)
    PROVE  LET added == Cardinality({d \in ds : d.id = 0}) IN
           /\ SyncBindings(ds) \in Seq(Group) /\ added \in Nat /\ Len(SyncBindings(ds)) = Len(groups) + added
           /\ \A g \in 1 .. Len(groups) : SyncBindings(ds)[g].target = groups[g].target
           /\ \A g \in 1 .. Len(groups) + added : SyncBindings(ds)[g].enabled => \E d \in ds : d.target = SyncBindings(ds)[g].target
           /\ \A g \in Len(groups) + 1 .. Len(groups) + added : SyncBindings(ds)[g].target \in 0 .. Len(s)
<1> DEFINE unknown == {d \in ds : d.id = 0}
           added == Cardinality(unknown)
           new == SetToSeq(unknown)
           old == [g \in DOMAIN groups |-> [groups[g] EXCEPT !.enabled = \E d \in ds : d.id = g]]
           more == [i \in DOMAIN new |-> [target |-> new[i].target, enabled |-> TRUE]]
<1>1. /\ IsFiniteSet(ds) /\ \A d \in ds : d \in Binding(s, groups)
      /\ \A d \in ds : d.id # 0 => d.target = groups[d.id].target
  BY DEF BindingsHold
<1>2. IsFiniteSet(unknown) /\ unknown \subseteq ds
  BY <1>1, FS_Subset
<1>3. new \in Seq(unknown) /\ Len(new) = added /\ added \in Nat
  BY <1>2, SetAsSeq
<1>4. SyncBindings(ds) = old \o more
  BY DEF SyncBindings
<1>5. Len(groups) \in Nat /\ DOMAIN groups = 1 .. Len(groups) /\ \A g \in 1 .. Len(groups) : groups[g] \in Group
  OBVIOUS
<1>6. ASSUME NEW g \in 1 .. Len(groups)
      PROVE  /\ old[g] \in Group /\ old[g].target = groups[g].target
             /\ old[g].enabled => \E d \in ds : d.target = groups[g].target
  <2> DEFINE b == \E d \in ds : d.id = g
  <2>1. b \in BOOLEAN /\ old[g] = [groups[g] EXCEPT !.enabled = b] /\ groups[g] \in Group
    BY <1>5
  <2>2. b => \E d \in ds : d.target = groups[g].target
    BY <1>1, <1>5
  <2> HIDE DEF b, old
  <2>3. old[g] \in Group /\ old[g].target = groups[g].target /\ old[g].enabled = b
    BY <2>1 DEF Group
  <2>4. QED
    BY <2>2, <2>3
<1>7. old \in Seq(Group) /\ Len(old) = Len(groups)
  <2>1. old \in [1 .. Len(groups) -> Group]
    BY <1>5, <1>6
  <2> HIDE DEF old
  <2>2. QED
    BY <1>5, <2>1
<1>8. ASSUME NEW i \in 1 .. added
      PROVE  /\ more[i] \in Group /\ more[i].target \in 0 .. Len(s)
             /\ \E d \in ds : d.target = more[i].target
  <2>1. DOMAIN new = 1 .. added /\ new[i] \in unknown
    BY <1>3
  <2>2. more[i] = [target |-> new[i].target, enabled |-> TRUE]
    BY <2>1
  <2>3. new[i] \in ds /\ new[i] \in Binding(s, groups)
    BY <1>1, <1>2, <2>1
  <2> HIDE DEF more, new, unknown
  <2>4. new[i].target \in 0 .. Len(s) /\ Len(s) \in Nat
    BY <2>3 DEF Binding
  <2>5. more[i].target = new[i].target
    BY <2>2
  <2>6. more[i] \in Group
    BY <2>2, <2>4 DEF Group
  <2>7. QED
    BY <2>3, <2>4, <2>5, <2>6
<1>9. more \in Seq(Group) /\ Len(more) = added
  <2>1. DOMAIN new = 1 .. added
    BY <1>3
  <2>2. more \in [1 .. added -> Group]
    BY <1>8, <2>1
  <2> HIDE DEF more, added
  <2>3. QED
    BY <1>3, <2>2, FunctionIsSeq
<1> DEFINE n == Len(groups)
<1> HIDE DEF old, more, new, unknown, added, n
<1>10. /\ old \o more \in Seq(Group) /\ Len(old \o more) = n + added
       /\ \A g \in 1 .. n + added : (old \o more)[g] = IF g <= n THEN old[g] ELSE more[g - n]
  <2>1. /\ old \o more \in Seq(Group) /\ Len(old \o more) = Len(old) + Len(more)
        /\ \A g \in 1 .. Len(old) + Len(more) : (old \o more)[g] = IF g <= Len(old) THEN old[g] ELSE more[g - Len(old)]
    BY <1>7, <1>9, ConcatProperties, Zenon
  <2>2. Len(old) = n /\ Len(more) = added
    BY <1>7, <1>9 DEF n
  <2>3. QED
    BY <2>1, <2>2, Zenon
<1>11. \A g \in n + 1 .. n + added : g - n \in 1 .. added /\ ~(g <= n) /\ g \in 1 .. n + added
  BY <1>3, <1>5 DEF n
<1>12. \A g \in 1 .. n : g <= n /\ g \in 1 .. n + added
  BY <1>3, <1>5 DEF n
<1>13. \A g \in 1 .. n + added : g \in 1 .. n \/ g \in n + 1 .. n + added
  BY <1>3, <1>5 DEF n
<1>14. \A g \in 1 .. n : SyncBindings(ds)[g] = old[g]
  BY <1>4, <1>10, <1>12
<1>15. \A g \in n + 1 .. n + added : SyncBindings(ds)[g] = more[g - n] /\ g - n \in 1 .. added
  BY <1>4, <1>10, <1>11
<1>16. \A g \in 1 .. n : SyncBindings(ds)[g].target = groups[g].target
  BY <1>6, <1>14 DEF n
<1>17. \A g \in 1 .. n + added : SyncBindings(ds)[g].enabled => \E d \in ds : d.target = SyncBindings(ds)[g].target
  BY <1>6, <1>8, <1>13, <1>14, <1>15 DEF n
<1>18. \A g \in n + 1 .. n + added : SyncBindings(ds)[g].target \in 0 .. Len(s)
  BY <1>8, <1>15
<1>19. QED
  BY <1>3, <1>4, <1>10, <1>16, <1>17, <1>18 DEF n, added, unknown

-----------------------------------------------------------------------------
(* One operation at a time.                                                   *)

(* The edits of a draft. *)
LEMMA WithoutOne == ASSUME NEW S, NEW q \in Seq(S), NEW i \in DOMAIN q PROVE RemoveAt(q, i) \in Seq(S)
<1> DEFINE front == SubSeq(q, 1, i - 1)
           back == SubSeq(q, i + 1, Len(q))
<1>1. Len(q) \in Nat /\ i \in 1 .. Len(q)
  OBVIOUS
<1>2. front \in Seq(S)
  BY <1>1, SubSeqProperties
<1>3. back \in Seq(S)
  BY <1>1, SubSeqProperties
<1>4. front \o back \in Seq(S)
  BY <1>2, <1>3, ConcatProperties, Zenon
<1>5. QED
  BY <1>4 DEF RemoveAt

LEMMA VariantsStayVariants ==
    ASSUME skus \in Seq(Sku), NEW vs \in Seq(Variant(skus))
    PROVE  /\ \A i \in DOMAIN vs : WithDefault(vs, i) \in Seq(Variant(skus))
           /\ VariantEdits(vs) \subseteq Seq(Variant(skus))
<1>1. Len(skus) \in Nat /\ Len(vs) \in Nat /\ DOMAIN vs = 1 .. Len(vs)
  OBVIOUS
<1>2. ASSUME NEW ws \in Seq(Variant(skus)), NEW i PROVE WithDefault(ws, i) \in Seq(Variant(skus))
  <2>1. ASSUME NEW j \in DOMAIN ws PROVE [ws[j] EXCEPT !.sku.default = (j = i)] \in Variant(skus)
    <3> DEFINE b == (j = i)
    <3>1. ws[j] \in Variant(skus) /\ b \in BOOLEAN
      OBVIOUS
    <3> HIDE DEF b
    <3>2. QED
      BY <3>1 DEF Variant, Sku
  <2>2. WithDefault(ws, i) \in [DOMAIN ws -> Variant(skus)]
    BY <2>1 DEF WithDefault
  <2>3. DOMAIN ws = 1 .. Len(ws) /\ Len(ws) \in Nat
    OBVIOUS
  <2>4. QED
    BY <2>2, <2>3, FunctionIsSeq
<1>3. ASSUME NEW i \in DOMAIN vs PROVE Toggled(vs, i) \in Seq(Variant(skus))
  <2> DEFINE st == IF vs[i].sku.state = "on" THEN "off" ELSE "on"
             v == [vs[i] EXCEPT !.sku.state = st]
  <2>1. vs[i] \in Variant(skus) /\ st \in SkuStates
    BY DEF SkuStates
  <2>2. v \in Variant(skus)
    <3> HIDE DEF st
    <3>1. QED
      BY <2>1 DEF Variant, Sku
  <2>3. Toggled(vs, i) = [vs EXCEPT ![i] = v]
    BY <1>1 DEF Toggled
  <2> HIDE DEF v
  <2>4. QED
    BY <2>2, <2>3
<1>4. ASSUME NEW i \in DOMAIN vs PROVE Without(vs, i) \in Seq(Variant(skus))
  <2>1. RemoveAt(vs, i) \in Seq(Variant(skus))
    BY WithoutOne
  <2>2. QED
    BY <1>2, <2>1 DEF Without
<1>5. ASSUME NEW p \in Prices, NEW n \in Stocks PROVE WithNew(vs, p, n) \in Seq(Variant(skus))
  <2> DEFINE v == [id |-> 0, sku |-> [price |-> p, stock |-> n, default |-> vs = <<>>, state |-> "on"]]
  <2>1. v \in Variant(skus)
    BY <1>1 DEF Variant, Sku, SkuStates
  <2>2. WithNew(vs, p, n) = Append(vs, v)
    BY DEF WithNew
  <2> HIDE DEF v
  <2>3. QED
    BY <2>1, <2>2, AppendProperties
<1>6. VariantEdits(vs) \subseteq Seq(Variant(skus))
  BY <1>2, <1>3, <1>4, <1>5 DEF VariantEdits
<1>7. QED
  BY <1>2, <1>6

LEMMA BindingsStayBindings ==
    ASSUME skus \in Seq(Sku), groups \in Seq(Group), NEW d, DraftHolds(d, skus, groups), NEW gs \in GroupEdits(d)
    PROVE  BindingsHold(gs, skus, groups)
<1>1. /\ IsFiniteSet(d.groups) /\ d.groups \subseteq Binding(skus, groups)
      /\ \A b \in d.groups : b.id # 0 => b.target = groups[b.id].target
      /\ \A j \in DOMAIN d.variants : d.variants[j] \in Variant(skus)
  BY DEF DraftHolds, BindingsHold
<1>2. Len(skus) \in Nat /\ Len(groups) \in Nat
  OBVIOUS
<1>3. CASE \E g \in d.groups : gs = d.groups \ {g}
  BY <1>1, <1>3, FS_RemoveElement DEF BindingsHold
<1>4. CASE \E t \in {0} \cup {d.variants[j].id : j \in DOMAIN d.variants} : gs = d.groups \cup {[id |-> 0, target |-> t]}
  <2>1. PICK t \in {0} \cup {d.variants[j].id : j \in DOMAIN d.variants} : gs = d.groups \cup {[id |-> 0, target |-> t]}
    BY <1>4
  <2>2. t \in 0 .. Len(skus)
    BY <1>1, <1>2, <2>1 DEF Variant
  <2> DEFINE b == [id |-> 0, target |-> t]
  <2>3. b \in Binding(skus, groups) /\ b.id = 0 /\ gs = d.groups \cup {b}
    BY <1>2, <2>1, <2>2 DEF Binding
  <2> HIDE DEF b
  <2>4. IsFiniteSet(gs)
    BY <1>1, <2>3, FS_AddElement
  <2>5. QED
    BY <1>1, <2>3, <2>4 DEF BindingsHold
<1>5. QED
  BY <1>3, <1>4 DEF GroupEdits

(* What a dialog starts from. *)
LEMMA DraftStarts == ASSUME CatalogInv PROVE Holds(DraftOfProduct, skus, groups) /\ ~Writing(DraftOfProduct)
<1>1. /\ skus \in Seq(Sku) /\ groups \in Seq(Group) /\ Len(skus) \in Nat /\ Len(groups) \in Nat
      /\ DOMAIN skus = 1 .. Len(skus) /\ DOMAIN groups = 1 .. Len(groups)
      /\ \A g \in DOMAIN groups : groups[g].target \in 0 .. Len(skus)
  BY DEF CatalogInv, SkusHold, GroupsHold
<1> DEFINE bs == {[id |-> g, target |-> groups[g].target] : g \in EnabledGroups}
<1>2. DetailSkus \in Seq(Variant(skus))
  <2>1. \A k \in DOMAIN skus : [id |-> k, sku |-> skus[k]] \in Variant(skus)
    BY <1>1 DEF Variant
  <2>2. DetailSkus \in [1 .. Len(skus) -> Variant(skus)]
    BY <1>1, <2>1 DEF DetailSkus
  <2>3. QED
    BY <1>1, <2>2, FunctionIsSeq
<1>3. EnabledGroups \subseteq 1 .. Len(groups) /\ IsFiniteSet(EnabledGroups)
  <2>1. EnabledGroups \in SUBSET (1 .. Len(groups))
    BY <1>1 DEF EnabledGroups
  <2>2. IsFiniteSet(1 .. Len(groups))
    BY <1>1, FS_Interval
  <2>3. QED
    BY <2>1, <2>2, FS_Subset
<1>4. IsFiniteSet(bs)
  <2> DEFINE f == [g \in EnabledGroups |-> [id |-> g, target |-> groups[g].target]]
  <2>1. f \in [EnabledGroups -> bs] /\ \A b \in bs : \E g \in EnabledGroups : f[g] = b
    OBVIOUS
  <2>2. f \in Surjection(EnabledGroups, bs)
    BY <2>1 DEF Surjection
  <2> HIDE DEF f, bs
  <2>3. QED
    BY <1>3, <2>2, FS_Surjection
<1>5. \A b \in bs : b \in Binding(skus, groups) /\ (b.id # 0 => b.target = groups[b.id].target)
  BY <1>1, <1>3 DEF Binding
<1>6. BindingsHold(bs, skus, groups)
  BY <1>4, <1>5 DEF BindingsHold
<1>7. DraftOfProduct = [op |-> "config", pc |-> "editing", valid |-> TRUE, variants |-> DetailSkus, groups |-> bs]
  BY DEF DraftOfProduct
<1> HIDE DEF bs
<1>8. DraftHolds(DraftOfProduct, skus, groups)
  BY <1>2, <1>6, <1>7 DEF DraftHolds
<1>9. QED
  BY <1>7, <1>8 DEF Holds, Ops, Writing

(* The steps that only move a request. *)
LEMMA BeginFacts ==
    ASSUME CatalogInv, NEW c \in Calls, NEW op, Begin(c, op)
    PROVE  call[c].op # "sku" /\ edits' \in 0 .. MaxEdits /\ CacheHolds(cache)
BY CatalogAssumption DEF CatalogInv, Begin, Idle

LEMMA CallFacts ==
    ASSUME CatalogInv, NEW c \in Calls
    PROVE  Holds(call[c], skus, groups) /\ {"op", "pc"} \subseteq DOMAIN call[c] /\ edits \in 0 .. MaxEdits /\ CacheHolds(cache)
BY DEF CatalogInv, CallsHold, Holds

LEMMA ReadSummaryKeeps == ASSUME CatalogInv, NEW c \in Calls, ReadSummary(c) PROVE CatalogInv'
<1> DEFINE q == [op |-> "sku", pc |-> "write", seen |-> skus]
<1>1. q.op = "sku" /\ q.pc = "write" /\ q.seen = skus /\ {"op", "pc"} \subseteq DOMAIN q
  OBVIOUS
<1>2. call' = [call EXCEPT ![c] = q] /\ UNCHANGED <<skus, product, groups, overlap, mix>> /\ cache' = cache /\ edits' = edits
  BY DEF ReadSummary
<1> HIDE DEF q
<1>3. Holds(q, skus, groups)
  BY <1>1 DEF CatalogInv, SkusHold, Holds, Ops
<1>4. QED
  BY <1>1, <1>2, <1>3, CallFacts, OnlyARequest

LEMMA ReadProductKeeps ==
    ASSUME CatalogInv, NEW c \in Calls, NEW p \in Prices, NEW n \in Stocks, NEW st \in {"ACTIVE", "INACTIVE"}, ReadProduct(c, p, n, st)
    PROVE  CatalogInv'
<1> DEFINE k == CHOOSE i \in DOMAIN skus : skus[i].default
           q == [op |-> "product", pc |-> "begin", price |-> p, stock |-> n, status |-> st, sku |-> k, seen |-> <<>>]
<1>1. k \in DOMAIN skus
  <2>1. \E i \in DOMAIN skus : skus[i].default
    BY DEF CatalogInv, SkusHold, IsDefault
  <2>2. QED
    BY <2>1
<1> HIDE DEF k
<1>2. /\ q.op = "product" /\ q.pc = "begin" /\ q.price = p /\ q.stock = n /\ q.status = st /\ q.sku = k
      /\ {"op", "pc", "price", "stock", "status", "sku", "seen"} \subseteq DOMAIN q
  OBVIOUS
<1>3. call' = [call EXCEPT ![c] = q] /\ UNCHANGED <<skus, product, groups, overlap, mix>> /\ cache' = cache /\ Begin(c, "product")
  BY DEF ReadProduct, k
<1> HIDE DEF q
<1>4. Holds(q, skus, groups) /\ ~Writing(q)
  BY <1>1, <1>2 DEF Holds, Ops, UpdateHolds, Writing
<1>5. QED
  BY <1>3, <1>4, BeginFacts, OnlyARequest

LEMMA BeginUpdateKeeps == ASSUME CatalogInv, NEW c \in Calls, BeginUpdate(c) PROVE CatalogInv'
<1> DEFINE r == call[c]
           q == [r EXCEPT !.pc = "commit", !.seen = skus]
<1>1. Holds(r, skus, groups) /\ r.op = "product" /\ r.pc = "begin"
  BY CallFacts DEF BeginUpdate, At
<1>2. call' = [call EXCEPT ![c] = q] /\ UNCHANGED <<skus, product, groups, overlap, mix>> /\ cache' = cache /\ edits' = edits
  <2>1. DOMAIN call = Calls
    BY DEF CatalogInv, CallsHold
  <2>2. QED
    BY <2>1 DEF BeginUpdate
<1>3. call[c].op # "sku"
  BY <1>1
<1> HIDE DEF r
<1>4. {"op", "pc"} \subseteq DOMAIN r /\ UpdateHolds(r, skus)
  BY <1>1 DEF Holds
<1>5. /\ q.op = "product" /\ q.pc = "commit" /\ q.seen = skus /\ DOMAIN q = DOMAIN r
      /\ q.price = r.price /\ q.stock = r.stock /\ q.status = r.status /\ q.sku = r.sku
  BY <1>1, <1>4 DEF UpdateHolds
<1> HIDE DEF q
<1>6. Holds(q, skus, groups)
  BY <1>4, <1>5 DEF Holds, Ops, UpdateHolds, CatalogInv, SkusHold
<1>7. QED
  BY <1>2, <1>3, <1>5, <1>6, CallFacts, OnlyARequest

LEMMA OpenDialogKeeps == ASSUME CatalogInv, NEW c \in Calls, OpenDialog(c) PROVE CatalogInv'
<1> DEFINE q == DraftOfProduct
<1>1. call' = [call EXCEPT ![c] = q] /\ UNCHANGED <<skus, product, groups, overlap, mix>> /\ cache' = cache /\ Begin(c, "config")
  BY DEF OpenDialog
<1>2. Holds(q, skus, groups) /\ ~Writing(q)
  BY DraftStarts
<1> HIDE DEF q
<1>3. QED
  BY <1>1, <1>2, BeginFacts, OnlyARequest

(* A draft with some of its fields replaced. *)
LEMMA DraftGoesOn ==
    ASSUME CatalogInv, NEW c \in Calls, call[c].op = "config", call[c].pc \in {"editing", "edited"},
           NEW vs \in Seq(Variant(skus)), NEW gs, BindingsHold(gs, skus, groups), NEW valid \in BOOLEAN,
           NEW pc \in {"edited", "sent"}, pc = "sent" => vs # <<>> /\ vs[1].sku.default,
           NEW q, DOMAIN q = DOMAIN call[c], q.op = "config", q.pc = pc, q.variants = vs, q.groups = gs, q.valid = valid,
           call' = [call EXCEPT ![c] = q], UNCHANGED <<skus, product, groups, cache, overlap, edits, mix>>
    PROVE  CatalogInv'
<1>1. Holds(call[c], skus, groups) /\ edits' \in 0 .. MaxEdits /\ CacheHolds(cache')
  BY CallFacts
<1>2. {"op", "pc"} \subseteq DOMAIN q /\ {"valid", "variants", "groups"} \subseteq DOMAIN q
  BY <1>1 DEF Holds, DraftHolds
<1>3. DraftHolds(q, skus, groups)
  BY <1>2 DEF DraftHolds
<1>4. Holds(q, skus, groups) /\ ~Writing(q)
  BY <1>2, <1>3 DEF Holds, Ops, Writing
<1>5. QED
  BY <1>1, <1>4, OnlyARequest

LEMMA EditDraftKeeps == ASSUME CatalogInv, NEW c \in Calls, EditDraft(c) PROVE CatalogInv'
<1> DEFINE d == call[c]
<1>1. /\ d.op = "config" /\ d.pc = "editing" /\ UNCHANGED <<skus, product, groups, cache, overlap, edits, mix>>
      /\ Holds(d, skus, groups) /\ skus \in Seq(Sku) /\ groups \in Seq(Group)
  BY CallFacts DEF EditDraft, At, CatalogInv, SkusHold, GroupsHold
<1>2. DraftHolds(d, skus, groups) /\ {"op", "pc", "valid", "variants", "groups"} \subseteq DOMAIN d
  BY <1>1 DEF Holds, DraftHolds
<1>3. d.variants \in Seq(Variant(skus)) /\ BindingsHold(d.groups, skus, groups) /\ d.valid \in BOOLEAN
  BY <1>2 DEF DraftHolds
<1>4. CASE \E vs \in VariantEdits(d.variants) : call' = [call EXCEPT ![c] = [[d EXCEPT !.variants = vs] EXCEPT !.pc = "edited"]]
  <2>1. PICK vs \in VariantEdits(d.variants) : call' = [call EXCEPT ![c] = [[d EXCEPT !.variants = vs] EXCEPT !.pc = "edited"]]
    BY <1>4
  <2>2. vs \in Seq(Variant(skus))
    BY <1>1, <1>3, VariantsStayVariants
  <2> DEFINE q == [[d EXCEPT !.variants = vs] EXCEPT !.pc = "edited"]
  <2>3. DOMAIN q = DOMAIN d /\ q.op = "config" /\ q.pc = "edited" /\ q.variants = vs /\ q.groups = d.groups /\ q.valid = d.valid
    BY <1>1, <1>2
  <2> HIDE DEF q
  <2>4. QED
    BY <1>1, <1>3, <2>1, <2>2, <2>3, DraftGoesOn DEF q
<1>5. CASE \E gs \in GroupEdits(d) : call' = [call EXCEPT ![c] = [[d EXCEPT !.groups = gs] EXCEPT !.pc = "edited"]]
  <2>1. PICK gs \in GroupEdits(d) : call' = [call EXCEPT ![c] = [[d EXCEPT !.groups = gs] EXCEPT !.pc = "edited"]]
    BY <1>5
  <2>2. BindingsHold(gs, skus, groups)
    BY <1>1, <1>2, BindingsStayBindings
  <2> DEFINE q == [[d EXCEPT !.groups = gs] EXCEPT !.pc = "edited"]
  <2>3. DOMAIN q = DOMAIN d /\ q.op = "config" /\ q.pc = "edited" /\ q.variants = d.variants /\ q.groups = gs /\ q.valid = d.valid
    BY <1>1, <1>2
  <2> HIDE DEF q
  <2>4. QED
    BY <1>1, <1>3, <2>1, <2>2, <2>3, DraftGoesOn DEF q
<1>6. CASE call' = [call EXCEPT ![c] = [[d EXCEPT !.valid = FALSE] EXCEPT !.pc = "edited"]]
  <2> DEFINE q == [[d EXCEPT !.valid = FALSE] EXCEPT !.pc = "edited"]
  <2>1. DOMAIN q = DOMAIN d /\ q.op = "config" /\ q.pc = "edited" /\ q.variants = d.variants /\ q.groups = d.groups /\ q.valid = FALSE
    BY <1>1, <1>2
  <2> HIDE DEF q
  <2>2. QED
    BY <1>1, <1>3, <1>6, <2>1, DraftGoesOn DEF q
<1>7. QED
  BY <1>4, <1>5, <1>6 DEF EditDraft

LEMMA SaveKeeps == ASSUME CatalogInv, NEW c \in Calls, Save(c) PROVE CatalogInv'
<1> DEFINE d == call[c]
           vs == Normalized(d.variants)
           q == [d EXCEPT !.pc = "sent", !.variants = vs]
<1>1. /\ d.op = "config" /\ d.pc \in {"editing", "edited"} /\ d.variants # <<>> /\ UNCHANGED <<skus, product, groups, cache, overlap, edits, mix>>
      /\ Holds(d, skus, groups)
  BY CallFacts DEF Save, At
<1>2. DraftHolds(d, skus, groups) /\ {"op", "pc", "valid", "variants", "groups"} \subseteq DOMAIN d
  BY <1>1 DEF Holds, DraftHolds
<1>3. d.variants \in Seq(Variant(skus)) /\ BindingsHold(d.groups, skus, groups) /\ d.valid \in BOOLEAN
  BY <1>2 DEF DraftHolds
<1>4. vs \in Seq(Variant(skus)) /\ vs # <<>> /\ vs[1].sku.default
  <2> DEFINE ws == d.variants
             v == [ws[1] EXCEPT !.sku.default = TRUE]
  <2>1. ws \in Seq(Variant(skus)) /\ ws # <<>> /\ 1 \in DOMAIN ws /\ ws[1] \in Variant(skus)
    BY <1>1, <1>3
  <2>2. vs = [ws EXCEPT ![1] = v]
    BY <2>1 DEF Normalized
  <2>3. v \in Variant(skus) /\ v.sku.default
    <3> HIDE DEF ws
    <3>1. QED
      BY <2>1 DEF Variant, Sku
  <2> HIDE DEF v, ws, vs
  <2>4. QED
    BY <2>1, <2>2, <2>3
<1>5. call' = [call EXCEPT ![c] = q]
  <2>1. DOMAIN call = Calls
    BY DEF CatalogInv, CallsHold
  <2>2. QED
    BY <2>1 DEF Save
<1> HIDE DEF vs
<1>6. DOMAIN q = DOMAIN d /\ q.op = "config" /\ q.pc = "sent" /\ q.variants = vs /\ q.groups = d.groups /\ q.valid = d.valid
  BY <1>1, <1>2
<1> HIDE DEF q
<1>7. QED
  BY <1>1, <1>3, <1>4, <1>5, <1>6, DraftGoesOn

LEMMA EndsKeep ==
    ASSUME CatalogInv, NEW c \in Calls, RollBack(c) \/ Invalidate(c) \/ Cancel(c)
    PROVE  CatalogInv'
<1>1. Holds(call[c], skus, groups) /\ CacheHolds(cache)
  BY CallFacts
<1>2. call[c].op # "sku" /\ Answer(c) /\ UNCHANGED <<skus, product, groups, overlap, edits, mix>> /\ cache' \in {cache, None}
  BY <1>1 DEF RollBack, Invalidate, Cancel, At, Holds
<1>3. CacheHolds(cache')
  BY <1>1, <1>2 DEF CacheHolds
<1>4. QED
  BY <1>2, <1>3, RequestEnds

LEMMA StatsKeep ==
    ASSUME CatalogInv, NEW c \in Calls, AskStats(c) \/ StoreStats(c) \/ \E n \in CountNames : Count(c, n)
    PROVE  CatalogInv'
<1>1. CASE AskStats(c)
  <2> DEFINE q == [op |-> "stats", pc |-> "count", seen |-> <<>>]
  <2>1. q.op = "stats" /\ q.pc = "count" /\ DOMAIN q.seen = {} /\ {"op", "pc", "seen"} \subseteq DOMAIN q
    OBVIOUS
  <2>2. call' = [call EXCEPT ![c] = q] /\ UNCHANGED <<skus, product, groups, overlap, mix>> /\ cache' = cache /\ Begin(c, "stats")
    BY <1>1 DEF AskStats
  <2> HIDE DEF q
  <2>3. Holds(q, skus, groups) /\ ~Writing(q)
    BY <2>1 DEF Holds, Ops, StatsHold, Writing
  <2>4. QED
    BY <2>2, <2>3, BeginFacts, OnlyARequest
<1>2. CASE StoreStats(c)
  <2>1. Holds(call[c], skus, groups) /\ call[c].op = "stats" /\ DOMAIN call[c].seen = Numbers
    BY <1>2, CallFacts, NamesOfCounts DEF StoreStats, At, AllCounted
  <2>2. CacheHolds(cache')
    BY <1>2, <2>1 DEF StoreStats, Holds, StatsHold, CacheHolds
  <2>3. QED
    BY <1>2, <2>1, <2>2, RequestEnds DEF StoreStats
<1>3. ASSUME NEW n \in CountNames, Count(c, n) PROVE CatalogInv'
  <2> DEFINE r == call[c]
             f == [m \in DOMAIN r.seen \cup {n} |-> IF m = n THEN Counts[n] ELSE r.seen[m]]
             q == [r EXCEPT !.seen = f]
  <2>1. Holds(r, skus, groups) /\ r.op = "stats" /\ r.pc = "count" /\ Counts[n] \in Nat /\ n \in Numbers
    BY <1>3, CallFacts, CountsAreNatural, NamesOfCounts DEF Count, At
  <2>2. {"op", "pc", "seen"} \subseteq DOMAIN r /\ DOMAIN r.seen \subseteq Numbers /\ \A m \in DOMAIN r.seen : r.seen[m] \in Nat
    BY <2>1 DEF Holds, StatsHold
  <2>3. call' = [call EXCEPT ![c] = q] /\ UNCHANGED <<skus, product, groups, overlap, mix>> /\ cache' = cache /\ edits' = edits
    <3>1. DOMAIN call = Calls
      BY DEF CatalogInv, CallsHold
    <3>2. QED
      BY <1>3, <3>1 DEF Count
  <2>4. DOMAIN f \subseteq Numbers /\ \A m \in DOMAIN f : f[m] \in Nat
    BY <2>1, <2>2
  <2>5. call[c].op # "sku"
    BY <2>1
  <2> HIDE DEF f, r
  <2>6. q.op = "stats" /\ q.pc = "count" /\ q.seen = f /\ {"op", "pc", "seen"} \subseteq DOMAIN q
    BY <2>1, <2>2
  <2> HIDE DEF q
  <2>7. Holds(q, skus, groups) /\ ~Writing(q)
    BY <2>4, <2>6 DEF Holds, Ops, StatsHold, Writing
  <2>8. QED
    BY <2>3, <2>5, <2>7, CallFacts, OnlyARequest
<1>4. QED
  BY <1>1, <1>2, <1>3

(* The steps that write the product row only. *)
LEMMA OnlyTheRow ==
    ASSUME CatalogInv, NEW c \in Calls, NEW q, call' = [call EXCEPT ![c] = q],
           UNCHANGED <<skus, groups, cache, overlap, mix>>, product' \in Product,
           Holds(q, skus, groups), ~Writing(q), edits' \in 0 .. MaxEdits,
           overlap \/ (\E d \in Calls \ {c} : call[d].op = "sku") \/ Shows(product', skus)
    PROVE  CatalogInv'
<1>1. skus' \in Seq(Sku) /\ groups' \in Seq(Group) /\ Grown(skus, skus', groups, groups')
  BY NothingGrows DEF CatalogInv, SkusHold, GroupsHold
<1>2. CallsHold(call', skus', groups')
  BY <1>1, OneRequest
<1>3. DOMAIN call = Calls /\ call'[c] = q /\ \A d \in Calls \ {c} : call'[d] = call[d]
  BY DEF CatalogInv, CallsHold
<1>4. IsFresh(call', skus', overlap')
  BY <1>3 DEF CatalogInv, IsFresh
<1>5. Follows(call', product', skus', overlap')
  BY <1>3 DEF Follows
<1>6. SkusHold(skus') /\ GroupsHold(groups', skus') /\ overlap' \in BOOLEAN /\ mix' \in Mixes
  BY DEF CatalogInv
<1>7. CacheHolds(cache)'
  BY DEF CatalogInv, CacheHolds, None
<1>8. QED
  BY <1>2, <1>4, <1>5, <1>6, <1>7, Zenon DEF CatalogInv

LEMMA WriteSummaryKeeps == ASSUME CatalogInv, NEW c \in Calls, WriteSummary(c) PROVE CatalogInv'
<1>1. /\ Writing(call[c]) /\ call' = [call EXCEPT ![c] = Idle] /\ product' = Summarised(product, call[c].seen)
      /\ UNCHANGED <<skus, groups, cache, overlap, mix>> /\ edits' \in 0 .. MaxEdits
  BY DEF WriteSummary, At, Writing, Answer, CatalogInv
<1>2. call[c].seen \in Seq(Sku)
  BY CallFacts DEF WriteSummary, At, Holds
<1>3. product' \in Product /\ Shows(product', call[c].seen)
  BY <1>1, <1>2, SummarisedShows DEF CatalogInv
<1>4. overlap \/ call[c].seen = skus
  BY <1>1 DEF CatalogInv, IsFresh
<1>5. QED
  BY <1>1, <1>3, <1>4, IdleHolds, OnlyTheRow

LEMMA UpdateStatusKeeps ==
    ASSUME CatalogInv, NEW c \in Calls, NEW st \in {"ACTIVE", "INACTIVE"}, UpdateStatus(c, st)
    PROVE  CatalogInv'
<1> DEFINE q == [op |-> "status", pc |-> "invalidate"]
<1>1. Holds(q, skus, groups) /\ ~Writing(q)
  BY DEF Holds, Ops, Writing
<1>2. call' = [call EXCEPT ![c] = q] /\ UNCHANGED <<skus, groups, cache, overlap, mix>> /\ product' = [product EXCEPT !.status = st]
  BY DEF UpdateStatus
<1>3. edits' \in 0 .. MaxEdits /\ call[c].op # "sku"
  BY BeginFacts DEF UpdateStatus
<1> HIDE DEF q
<1>4. product' \in Product /\ (Shows(product', skus) <=> Shows(product, skus))
  BY <1>2, OnlyStatus DEF CatalogInv
<1>5. overlap \/ (\E d \in Calls \ {c} : call[d].op = "sku") \/ Shows(product', skus)
  BY <1>3, <1>4 DEF CatalogInv, Follows
<1>6. QED
  BY <1>1, <1>2, <1>3, <1>4, <1>5, OnlyTheRow

(* A refresh that fails. *)
LEMMA FailSummaryKeeps == ASSUME CatalogInv, NEW c \in Calls, FailSummary(c) PROVE CatalogInv'
<1>1. /\ call' = [call EXCEPT ![c] = Idle] /\ overlap' = TRUE /\ UNCHANGED <<skus, product, groups, cache, edits, mix>>
  BY DEF FailSummary, Answer
<1>2. skus' \in Seq(Sku) /\ groups' \in Seq(Group) /\ Grown(skus, skus', groups, groups')
  BY <1>1, NothingGrows DEF CatalogInv, SkusHold, GroupsHold
<1>3. CallsHold(call', skus', groups')
  BY <1>1, <1>2, IdleHolds, OneRequest
<1>4. IsFresh(call', skus', overlap') /\ Follows(call', product', skus', overlap') /\ overlap' \in BOOLEAN
  BY <1>1 DEF IsFresh, Follows
<1>5. SkusHold(skus') /\ GroupsHold(groups', skus') /\ product' \in Product /\ mix' \in Mixes /\ edits' \in 0 .. MaxEdits
  BY <1>1 DEF CatalogInv
<1>6. CacheHolds(cache)'
  BY <1>1 DEF CatalogInv, CacheHolds, None
<1>7. QED
  BY <1>3, <1>4, <1>5, <1>6, Zenon DEF CatalogInv

(* Nobody's request moves. *)
LEMMA CacheKeeps == ASSUME CatalogInv, ExpireStats \/ Done \/ UNCHANGED vars PROVE CatalogInv'
<1>1. UNCHANGED <<skus, product, groups, call, overlap, edits, mix>> /\ cache' \in {cache, None}
  BY DEF ExpireStats, Done, vars
<1>2. CacheHolds(cache)'
  BY <1>1 DEF CatalogInv, CacheHolds, None
<1>3. /\ SkusHold(skus') /\ GroupsHold(groups', skus') /\ product' \in Product
      /\ CallsHold(call', skus', groups') /\ IsFresh(call', skus', overlap') /\ Follows(call', product', skus', overlap')
      /\ overlap' \in BOOLEAN /\ edits' \in 0 .. MaxEdits /\ mix' \in Mixes
  BY <1>1 DEF CatalogInv
<1>4. QED
  BY <1>2, <1>3, Zenon DEF CatalogInv

(* The steps that write SKUs: whoever is refreshing the summary is overtaken. *)
LEMMA SkusAreWritten ==
    ASSUME CatalogInv, NEW c \in Calls, NEW q, call' = [call EXCEPT ![c] = q], Overtakes(c),
           SkusHold(skus'), GroupsHold(groups', skus'), Grown(skus, skus', groups, groups'), product' \in Product,
           UNCHANGED <<cache, mix>>, edits' \in 0 .. MaxEdits, Holds(q, skus', groups'), ~Writing(q),
           \/ overlap
           \/ q.op = "sku"
           \/ \E d \in Calls \ {c} : call[d].op = "sku"
           \/ Shows(product', skus')
    PROVE  CatalogInv'
<1>1. CallsHold(call', skus', groups')
  BY OneRequest DEF SkusHold, GroupsHold
<1>2. DOMAIN call = Calls /\ call'[c] = q /\ \A d \in Calls \ {c} : call'[d] = call[d]
  BY DEF CatalogInv, CallsHold
<1>3. overlap' = (overlap \/ Refreshing \ {c} # {}) /\ overlap \in BOOLEAN
  BY DEF Overtakes, CatalogInv
<1>4. IsFresh(call', skus', overlap')
  <2> SUFFICES ASSUME ~overlap', NEW d \in Calls, Writing(call'[d]) PROVE FALSE
    BY DEF IsFresh
  <2>1. d # c /\ Writing(call[d])
    BY <1>2
  <2>2. d \in Refreshing \ {c}
    BY <2>1 DEF Refreshing, Writing, At
  <2>3. QED
    BY <1>3, <2>2
<1>5. Follows(call', product', skus', overlap')
  BY <1>2, <1>3 DEF Follows
<1>6. CacheHolds(cache)' /\ overlap' \in BOOLEAN /\ mix' \in Mixes
  BY <1>3 DEF CatalogInv, CacheHolds, None
<1>7. QED
  BY <1>1, <1>4, <1>5, <1>6, Zenon DEF CatalogInv

LEMMA OneSkuWritten ==
    ASSUME CatalogInv, NEW k \in DOMAIN skus, NEW x \in Sku, x.default = skus[k].default, x.state = skus[k].state,
           skus' = [skus EXCEPT ![k] = x], groups' = groups
    PROVE  SkusHold(skus') /\ GroupsHold(groups', skus') /\ Grown(skus, skus', groups, groups')
<1>1. /\ skus \in Seq(Sku) /\ Len(skus) \in 1 .. MaxSkus /\ Len(skus) \in Nat /\ groups \in Seq(Group) /\ Len(groups) \in Nat
  BY DEF CatalogInv, SkusHold, GroupsHold
<1>2. skus' \in Seq(Sku) /\ Len(skus') = Len(skus) /\ DOMAIN skus' = DOMAIN skus
  BY <1>1
<1>3. \A j \in DOMAIN skus : skus'[j].default = skus[j].default /\ skus'[j].state = skus[j].state
  BY <1>1
<1>4. PICK i \in DOMAIN skus : IsDefault(skus, i)
  BY DEF CatalogInv, SkusHold
<1>5. IsDefault(skus', i)
  BY <1>2, <1>3, <1>4 DEF IsDefault
<1>6. SkusHold(skus')
  BY <1>1, <1>2, <1>4, <1>5 DEF SkusHold
<1>7. GroupsHold(groups', skus')
  <2>1. \A g \in DOMAIN groups : groups[g].target \in 0 .. Len(skus) /\ (groups[g].target # 0 => groups[g].target \in DOMAIN skus)
    BY <1>1 DEF CatalogInv, GroupsHold
  <2>2. QED
    BY <1>2, <1>3, <2>1 DEF CatalogInv, GroupsHold
<1>8. Grown(skus, skus', groups, groups')
  BY <1>1, <1>2 DEF Grown
<1>9. QED
  BY <1>6, <1>7, <1>8

LEMMA WriteSkuKeeps ==
    ASSUME CatalogInv, NEW c \in Calls, NEW k, NEW sku \in Sku, WriteSku(c, k, sku)
    PROVE  CatalogInv'
<1>1. /\ k \in DOMAIN skus /\ skus' = [skus EXCEPT ![k] = sku] /\ Overtakes(c) /\ UNCHANGED <<product, groups, cache, mix>>
      /\ edits' \in 0 .. MaxEdits
  BY BeginFacts DEF WriteSku
<1>2. skus[k] \in Sku
  BY <1>1 DEF CatalogInv, SkusHold
<1>3. sku.default = skus[k].default /\ sku.state = skus[k].state
  BY <1>2 DEF WriteSku, Sku
<1> DEFINE q == [op |-> "sku", pc |-> "read"]
<1>4. Holds(q, skus', groups') /\ ~Writing(q) /\ q.op = "sku"
  BY DEF Holds, Ops, Writing
<1>5. call' = [call EXCEPT ![c] = q]
  BY DEF WriteSku
<1> HIDE DEF q
<1>6. SkusHold(skus') /\ GroupsHold(groups', skus') /\ Grown(skus, skus', groups, groups')
  BY <1>1, <1>3, OneSkuWritten
<1>7. product' \in Product
  BY <1>1 DEF CatalogInv
<1>8. QED
  BY <1>1, <1>4, <1>5, <1>6, <1>7, SkusAreWritten

(* A request that has committed and drops the statistics next. *)
LEMMA Committed ==
    ASSUME CatalogInv, NEW c \in Calls, Goto(c, "invalidate"), call[c].op \in {"product", "config"}, NEW s, NEW gs
    PROVE  \E q : call' = [call EXCEPT ![c] = q] /\ Holds(q, s, gs) /\ ~Writing(q)
<1> DEFINE r == call[c]
           q == [r EXCEPT !.pc = "invalidate"]
<1>1. DOMAIN call = Calls /\ {"op", "pc"} \subseteq DOMAIN r /\ r.op \in {"product", "config"}
  BY CallFacts DEF CatalogInv, CallsHold
<1>2. call' = [call EXCEPT ![c] = q]
  BY <1>1 DEF Goto
<1> HIDE DEF r
<1>3. q.op \in {"product", "config"} /\ q.pc = "invalidate" /\ {"op", "pc"} \subseteq DOMAIN q
  BY <1>1
<1> HIDE DEF q
<1>4. Holds(q, s, gs) /\ ~Writing(q)
  BY <1>3 DEF Holds, Ops, Writing
<1>5. QED
  BY <1>2, <1>4

LEMMA CommitUpdateKeeps == ASSUME CatalogInv, NEW c \in Calls, CommitUpdate(c) PROVE CatalogInv'
<1> DEFINE r == call[c]
           k == r.sku
           own == [skus[k] EXCEPT !.price = r.price, !.stock = r.stock]
           p == [product EXCEPT !.status = r.status]
           s == [r.seen EXCEPT ![k] = own]
<1>1. /\ r.op = "product" /\ r.pc = "commit" /\ skus' = [skus EXCEPT ![k] = own] /\ product' = Summarised(p, s)
      /\ Overtakes(c) /\ Goto(c, "invalidate") /\ UNCHANGED <<groups, cache, edits, mix>>
  BY DEF CommitUpdate, At
<1>2. Holds(r, skus, groups) /\ edits' \in 0 .. MaxEdits
  BY <1>1, CallFacts
<1>3. UpdateHolds(r, skus)
  BY <1>1, <1>2 DEF Holds
<1>4. k \in DOMAIN skus /\ r.seen \in Seq(Sku) /\ r.price \in Prices /\ r.stock \in Stocks /\ r.status \in {"ACTIVE", "INACTIVE"}
  BY <1>1, <1>3 DEF UpdateHolds
<1>5. skus[k] \in Sku
  BY <1>4 DEF CatalogInv, SkusHold
<1>6. own \in Sku /\ own.default = skus[k].default /\ own.state = skus[k].state
  <2> HIDE DEF r, k
  <2>1. QED
    BY <1>4, <1>5 DEF Sku
<1>7. SkusHold(skus') /\ GroupsHold(groups', skus') /\ Grown(skus, skus', groups, groups')
  <2> HIDE DEF own, k
  <2>1. QED
    BY <1>1, <1>4, <1>6, OneSkuWritten
<1>8. s \in Seq(Sku)
  <2> DEFINE seen == r.seen
             n == Len(seen)
  <2>1. seen \in Seq(Sku) /\ s = [seen EXCEPT ![k] = own]
    BY <1>4
  <2> HIDE DEF own, k, s, seen
  <2>2. n \in Nat /\ DOMAIN seen = 1 .. n /\ \A i \in 1 .. n : seen[i] \in Sku
    BY <2>1
  <2> HIDE DEF n
  <2>3. s = [i \in 1 .. n |-> IF i = k THEN own ELSE seen[i]]
    BY <2>1, <2>2
  <2>4. s \in [1 .. n -> Sku]
    BY <1>6, <2>2, <2>3
  <2>5. QED
    BY <2>2, <2>4, FunctionIsSeq
<1>9. p \in Product
  BY <1>4, OnlyStatus DEF CatalogInv
<1>10. product' \in Product /\ Shows(product', s)
  <2> HIDE DEF s, p
  <2>1. QED
    BY <1>1, <1>8, <1>9, SummarisedShows
<1>11. overlap \/ s = skus'
  <2>1. overlap \/ r.seen = skus
    BY <1>1 DEF CatalogInv, IsFresh, Writing
  <2>2. QED
    BY <1>1, <2>1
<1>12. PICK q : call' = [call EXCEPT ![c] = q] /\ Holds(q, skus', groups') /\ ~Writing(q)
  BY <1>1, Committed
<1>13. UNCHANGED <<cache, mix>> /\ (overlap \/ Shows(product', skus'))
  BY <1>1, <1>10, <1>11
<1> HIDE DEF r, s
<1>14. QED
  BY <1>1, <1>2, <1>7, <1>10, <1>12, <1>13, SkusAreWritten

LEMMA SyncKeeps == ASSUME CatalogInv, NEW c \in Calls, SyncProductConfiguration(c) PROVE CatalogInv'
<1> DEFINE d == call[c]
           vs == d.variants
           unknown == Cardinality({g \in d.groups : g.id = 0})
<1>1. /\ d.op = "config" /\ d.pc = "sent" /\ CanSync(d) /\ skus' = SyncVariants(vs) /\ groups' = SyncBindings(d.groups)
      /\ Len(skus) + Cardinality(NewRows(vs)) <= MaxSkus /\ Len(groups) + unknown <= MaxGroups
      /\ product' = Summarised(product, skus')
      /\ Overtakes(c) /\ Goto(c, "invalidate") /\ UNCHANGED <<cache, edits, mix>>
  BY DEF SyncProductConfiguration, At, Refreshed
<1>2. Holds(d, skus, groups) /\ edits' \in 0 .. MaxEdits
  BY <1>1, CallFacts
<1>3. DraftHolds(d, skus, groups)
  BY <1>1, <1>2 DEF Holds
<1>4. vs \in Seq(Variant(skus)) /\ vs # <<>> /\ vs[1].sku.default /\ BindingsHold(d.groups, skus, groups)
  BY <1>1, <1>3 DEF DraftHolds
<1>5. /\ skus \in Seq(Sku) /\ Len(skus) \in 1 .. MaxSkus /\ Len(skus) \in Nat /\ groups \in Seq(Group) /\ Len(groups) \in Nat
      /\ \A g \in DOMAIN groups : groups[g].target \in 0 .. Len(skus)
  BY DEF CatalogInv, SkusHold, GroupsHold
<1>6. \A b \in d.groups : Resolves(vs, b.target)
  BY <1>1 DEF CanSync
<1>7. d.op \in {"product", "config"}
  BY <1>1
<1> DEFINE bs == d.groups
           n == Cardinality(NewRows(vs))
<1> HIDE DEF vs, bs, unknown, d, n
<1>8. /\ skus' \in Seq(Sku) /\ Len(skus') = Len(skus) + n /\ n \in Nat
      /\ \E k \in DOMAIN skus' : IsDefault(skus', k)
      /\ \A t \in 1 .. Len(skus) : Resolves(vs, t) => skus'[t].state # "dropped"
  BY <1>1, <1>4, <1>5, SkusAreSynced DEF n
<1>9. /\ groups' \in Seq(Group) /\ unknown \in Nat /\ Len(groups') = Len(groups) + unknown
      /\ \A g \in 1 .. Len(groups) : groups'[g].target = groups[g].target
      /\ \A g \in 1 .. Len(groups) + unknown : groups'[g].enabled => \E b \in bs : b.target = groups'[g].target
      /\ \A g \in Len(groups) + 1 .. Len(groups) + unknown : groups'[g].target \in 0 .. Len(skus)
  BY <1>1, <1>4, <1>5, BindingsAreSynced DEF unknown, bs
<1>10. SkusHold(skus')
  BY <1>1, <1>5, <1>8 DEF SkusHold, n
<1>11. Grown(skus, skus', groups, groups')
  BY <1>5, <1>8, <1>9 DEF Grown
<1>12. GroupsHold(groups', skus')
  <2>1. ASSUME NEW g \in DOMAIN groups' PROVE groups'[g].target \in 0 .. Len(skus)
    <3>1. g \in 1 .. Len(groups) + unknown
      BY <1>9
    <3>2. CASE g \in 1 .. Len(groups)
      <4>1. groups[g].target \in 0 .. Len(skus)
        BY <1>5, <3>2
      <4>2. QED
        BY <1>9, <3>2, <4>1
    <3>3. CASE g \notin 1 .. Len(groups)
      <4>1. g \in Len(groups) + 1 .. Len(groups) + unknown
        BY <1>5, <1>9, <3>1, <3>3
      <4>2. QED
        BY <1>9, <4>1
    <3>4. QED
      BY <3>2, <3>3
  <2>2. ASSUME NEW g \in DOMAIN groups', groups'[g].enabled, groups'[g].target # 0
        PROVE  skus'[groups'[g].target].state # "dropped"
    <3>1. groups'[g].target \in 1 .. Len(skus)
      BY <1>5, <2>1, <2>2
    <3>2. PICK b \in bs : b.target = groups'[g].target
      BY <1>9, <2>2
    <3>3. Resolves(vs, groups'[g].target)
      BY <1>6, <3>2 DEF bs
    <3>4. QED
      BY <1>8, <3>1, <3>3
  <2>3. \A g \in DOMAIN groups' : groups'[g].target \in 0 .. Len(skus')
    BY <1>5, <1>8, <2>1
  <2>4. Len(groups') <= MaxGroups
    BY <1>1, <1>9 DEF unknown
  <2>5. QED
    BY <1>9, <2>2, <2>3, <2>4 DEF GroupsHold
<1>13. product' \in Product /\ Shows(product', skus')
  BY <1>1, <1>8, SummarisedShows DEF CatalogInv
<1>14. PICK q : call' = [call EXCEPT ![c] = q] /\ Holds(q, skus', groups') /\ ~Writing(q)
  BY <1>1, <1>7, Committed DEF d
<1>15. QED
  BY <1>1, <1>2, <1>10, <1>11, <1>12, <1>13, <1>14, SkusAreWritten

LEMMA CatalogSteps == ASSUME CatalogInv, Next \/ UNCHANGED vars PROVE CatalogInv'
<1>1. ASSUME NEW c \in Calls, Handle(c) PROVE CatalogInv'
  BY <1>1, ReadSummaryKeeps, WriteSummaryKeeps, FailSummaryKeeps, BeginUpdateKeeps, CommitUpdateKeeps, EndsKeep, SyncKeeps, StatsKeep DEF Handle
<1>2. ASSUME NEW c \in Calls, Ask(c) PROVE CatalogInv'
  <2>1. CASE \E k \in 1 .. MaxSkus, sku \in Sku : WriteSku(c, k, sku)
    BY <2>1, WriteSkuKeeps
  <2>2. CASE \E p \in Prices, n \in Stocks, s \in {"ACTIVE", "INACTIVE"} : ReadProduct(c, p, n, s)
    BY <2>2, ReadProductKeeps
  <2>3. CASE \E s \in {"ACTIVE", "INACTIVE"} : UpdateStatus(c, s)
    BY <2>3, UpdateStatusKeeps
  <2>4. CASE OpenDialog(c) \/ EditDraft(c) \/ Cancel(c) \/ Save(c) \/ AskStats(c)
    BY <2>4, OpenDialogKeeps, EditDraftKeeps, EndsKeep, SaveKeeps, StatsKeep
  <2>5. QED
    BY <1>2, <2>1, <2>2, <2>3, <2>4 DEF Ask
<1>3. QED
  BY <1>1, <1>2, CacheKeeps DEF Next

(* The catalog stays usable: its types, one default SKU, no enabled binding to *)
(* a SKU that was dropped, and a product row that shows its SKUs unless a SKU   *)
(* edit is under way or one was overtaken or failed, whatever updates,         *)
(* configurations, edits and statistics interleave.                             *)
THEOREM CatalogHolds == Spec => []CatalogIsSound
<1>1. CatalogInv /\ [Next]_vars => CatalogInv'
  BY CatalogSteps
<1>2. QED
  BY <1>1, CatalogStarts, InvIsSound, PTL DEF Spec
=============================================================================
