-------------------------------- MODULE Catalog --------------------------------
(***************************************************************************)
(* The catalogue in SQLite: categories, canonical products (the parents),  *)
(* their variants with aliases and the retailers' names for them, the      *)
(* full-text index and the price observations; and what the handlers of    *)
(* catalog-management-core.ts, CatalogRepository and CategoryRepository do *)
(* to them.  A handler reads its body and then runs one transaction to the *)
(* end, so an operation is one step.  db is the database: one function     *)
(* from ids to rows per table.  createId never gives an id twice: serial   *)
(* is the last one.  Names that compare equal COLLATE NOCASE are one name. *)
(* An evidence row and its observation are written and deleted together:   *)
(* they are one row.  A row of retailers is its name.                      *)
(***************************************************************************)
EXTENDS Integers, FiniteSets, Sequences

CONSTANTS
  Retailers,
  Titles,          \* names of products, of aliases and of receipt lines
  CategoryNames,   \* names of categories besides "desconocido"
  UNKNOWN_CATEGORY_NAME,
  AliasSets,       \* aliases a product is saved with
  Prices,
  MaxSerial        \* ids that are given

ASSUME CatalogAssumption ==
  /\ Prices \subseteq Nat
  /\ AliasSets \subseteq SUBSET Titles
  /\ MaxSerial \in Nat
  /\ UNKNOWN_CATEGORY_NAME \notin CategoryNames

VARIABLE db

NoId == 0
UNKNOWN_CATEGORY_ID == 1

\* INSERT or UPDATE of the row of id, and DELETE of the rows of ids.
Put(table, id, row) == [k \in DOMAIN table \cup {id} |-> IF k = id THEN row ELSE table[k]]
Drop(table, ids) == [k \in DOMAIN table \ ids |-> table[k]]

EmptyTable == [k \in {} |-> k]

EmptyDatabase ==
  [ categories   |-> [c \in {UNKNOWN_CATEGORY_ID} |-> [name |-> UNKNOWN_CATEGORY_NAME, parent |-> NoId]],
    parents      |-> EmptyTable,   \* canonical_products: label is the text column category
    variants     |-> EmptyTable,
    listings     |-> EmptyTable,
    search       |-> EmptyTable,
    observations |-> EmptyTable,
    stores       |-> EmptyTable,
    receipts     |-> EmptyTable,
    items        |-> EmptyTable,
    linked       |-> {},           \* variants and stores a shopping list refers to
    serial       |-> UNKNOWN_CATEGORY_ID ]

FreshId(d) == d.serial + 1
CanCreate(d) == d.serial < MaxSerial

-------------------------------------------------------------------------------
\* What one transaction does to the tables.

\* refreshSearchIndex of either file.
Refreshed(d, v) ==
  LET words == {d.parents[d.variants[v].parent].name, d.variants[v].name} \cup d.variants[v].aliases
  IN [d EXCEPT !.search = Put(@, v, words)]

WithProduct(d, id, parent, name, aliases) ==
  Refreshed([d EXCEPT !.variants = Put(@, id, [parent |-> parent, name |-> name, aliases |-> aliases])], id)

WithParent(d, id, name, category) ==
  [d EXCEPT !.parents = Put(@, id,
     [ name |-> name, category |-> category,
       label |-> IF category = NoId THEN "" ELSE d.categories[category].name ])]

ListingsOf(d, r, v) == {l \in DOMAIN d.listings : d.listings[l].retailer = r /\ d.listings[l].variant = v}

\* The listing of the variant at the retailer, which is made when it has none.
WithListing(d, id, r, v, title) ==
  IF ListingsOf(d, r, v) # {} THEN d
  ELSE [d EXCEPT !.listings = Put(@, id, [retailer |-> r, variant |-> v, title |-> title])]

FirstOf(S) == CHOOSE x \in S : \A y \in S : x <= y

WithObservation(d, id, r, v, store, price, item) ==
  [d EXCEPT !.observations = Put(@, id,
     [ listing |-> FirstOf(ListingsOf(d, r, v)), retailer |-> r, store |-> store,
       price |-> price, item |-> item ])]

ObservationsOfVariant(d, v) == {o \in DOMAIN d.observations : d.listings[d.observations[o].listing].variant = v}

-------------------------------------------------------------------------------
\* Categories.

Children(d, c) == {k \in DOMAIN d.categories : d.categories[k].parent = c}

\* The category and those above it: what every set that is closed upwards and
\* has c contains.
SelfAndAbove(d, c) ==
  {a \in DOMAIN d.categories :
     \A S \in SUBSET DOMAIN d.categories :
       c \in S /\ (\A x \in S : d.categories[x].parent \in S \cup {NoId}) => a \in S}

Named(d, name) == {c \in DOMAIN d.categories : d.categories[c].name = name}

ParentExists(d, c) == c = NoId \/ c \in DOMAIN d.categories

GetOrCreateCategory(name, parent) ==
  /\ Named(db, name) = {} /\ ParentExists(db, parent)
  /\ CanCreate(db)
  /\ db' = [db EXCEPT !.categories = Put(@, FreshId(db), [name |-> name, parent |-> parent]),
                      !.serial = FreshId(db)]

\* CategoryRepository.update; the name is UNIQUE, and the text of the products follows it.
UpdateCategory(c, name, parent) ==
  /\ c # parent
  /\ c = UNKNOWN_CATEGORY_ID => name = UNKNOWN_CATEGORY_NAME /\ parent = NoId
  /\ ParentExists(db, parent)
  /\ parent # NoId => c \notin SelfAndAbove(db, parent)
  /\ Named(db, name) \subseteq {c}
  /\ db' = [db EXCEPT !.categories[c] = [name |-> name, parent |-> parent],
                      !.parents = [p \in DOMAIN @ |-> IF @[p].category = c THEN [@[p] EXCEPT !.label = name] ELSE @[p]]]

\* categoryDeleteImpactFromDatabase: what the preflight answers.
CategoryCanDelete(d, c) ==
  /\ c # UNKNOWN_CATEGORY_ID
  /\ \A p \in DOMAIN d.parents : d.parents[p].category # c
  /\ Children(d, c) = {}

\* A receipt line of the category is not counted, but its foreign key aborts the DELETE.
DeleteCategory(c) ==
  /\ CategoryCanDelete(db, c)
  /\ \A i \in DOMAIN db.items : db.items[i].category # c
  /\ db' = [db EXCEPT !.categories = Drop(@, {c})]

\* materialize: the categories a provider proposes, [ref, name, parent], whose parent may be
\* another proposal.  Rounds over what is pending, the last first, until nothing is pending;
\* a round that resolves nothing is a cycle.  done maps the references to categories.
Proposed(s, p) ==
  LET same  == Named(s.d, p.name)
      above == IF p.parent \in DOMAIN s.done THEN s.done[p.parent] ELSE p.parent
      id    == FreshId(s.d)
  IN CASE p.ref \in DOMAIN s.done -> s
       [] p.ref \notin DOMAIN s.done /\ same # {} ->
            [s EXCEPT !.done = Put(@, p.ref, CHOOSE c \in same : TRUE)]
       [] p.ref \notin DOMAIN s.done /\ same = {} /\ ~ParentExists(s.d, above) -> s
       [] OTHER ->
            [ d    |-> [s.d EXCEPT !.categories = Put(@, id, [name |-> p.name, parent |-> above]), !.serial = id],
              done |-> Put(s.done, p.ref, id) ]

Round(s, proposals) ==
  LET after[k \in 0..Len(proposals)] ==
        IF k = 0 THEN s ELSE Proposed(after[k - 1], proposals[Len(proposals) + 1 - k])
  IN after[Len(proposals)]

Materialized(d, proposals) ==
  LET after[n \in 0..Len(proposals)] ==
        IF n = 0 THEN [d |-> d, done |-> EmptyTable] ELSE Round(after[n - 1], proposals)
  IN after[Len(proposals)]

MaterializeCategories(proposals) ==
  LET result == Materialized(db, proposals)
  IN /\ DOMAIN result.done = {proposals[n].ref : n \in 1..Len(proposals)}
     /\ result.d.serial <= MaxSerial
     /\ db' = result.d

-------------------------------------------------------------------------------
\* Products.

\* With a parent only the fields of the variant are accepted; without a name it takes the parent's.
CreateProduct(parent, name, category, aliases) ==
  LET id == FreshId(db)
      p  == IF parent = NoId THEN id ELSE parent
      d  == IF parent = NoId THEN WithParent(db, id, name, category) ELSE db
  IN /\ CanCreate(db)
     /\ IF parent = NoId THEN ParentExists(db, category) ELSE parent \in DOMAIN db.parents /\ category = NoId
     /\ db' = [WithProduct(d, id, p, name, aliases) EXCEPT !.serial = id]

\* The canonical product changes for all its variants; only this one is indexed again.
UpdateProduct(v, canonicalName, variantName, category, aliases) ==
  LET p == db.variants[v].parent
  IN /\ ParentExists(db, category)
     /\ db' = WithProduct(WithParent(db, p, canonicalName, category), v, p, variantName, aliases)

\* Neither deletes the parent the variant leaves.
AssignExistingParent(v, p) ==
  db' = WithProduct(db, v, p, db.variants[v].name, db.variants[v].aliases)

CreateParentAndAssign(v, name) ==
  LET current == db.parents[db.variants[v].parent]
      id      == FreshId(db)
      d       == [db EXCEPT !.parents = Put(@, id, [current EXCEPT !.name = name])]
  IN /\ CanCreate(db)
     /\ db' = [WithProduct(d, v, id, db.variants[v].name, db.variants[v].aliases) EXCEPT !.serial = id]

UpsertRetailerName(v, r, title) ==
  LET known == ListingsOf(db, r, v)
  IN IF known # {}
     THEN db' = [db EXCEPT !.listings[FirstOf(known)].title = title]
     ELSE /\ CanCreate(db)
          /\ db' = [WithListing(db, FreshId(db), r, v, title) EXCEPT !.serial = FreshId(db)]

ConfirmPriceObservation(v, r, store, price) ==
  LET id == FreshId(db)
  IN /\ CanCreate(db)
     /\ store # NoId => db.stores[store].retailer = r
     /\ db' = [WithObservation(WithListing(db, id, r, v, db.variants[v].name), id, r, v, store, price, NoId)
                 EXCEPT !.serial = id]

\* productDeleteImpactFromDatabase: lines that were deleted in the editor count.
ProductCanDelete(d, v) ==
  /\ \A i \in DOMAIN d.items : d.items[i].variant # v
  /\ v \notin d.linked
  /\ ObservationsOfVariant(d, v) = {}

\* One product or a selection: all or none.  A parent goes with its last variant.
DeleteProducts(vs) ==
  LET left == Drop(db.variants, vs)
      bare == {p \in {db.variants[v].parent : v \in vs} : \A v \in DOMAIN left : left[v].parent # p}
  IN /\ \A v \in vs : ProductCanDelete(db, v)
     /\ db' = [db EXCEPT !.variants = left,
                         !.search = Drop(@, vs),
                         !.listings = Drop(@, {l \in DOMAIN @ : @[l].variant \in vs}),
                         !.parents = Drop(@, bare)]

-------------------------------------------------------------------------------
\* What the reads answer.

\* searchProducts: the products a word of the index leads to.
SuggestedFor(d, word) == {v \in DOMAIN d.search : word \in d.search[v]}

CatalogNext ==
  \/ \E name \in CategoryNames, parent \in DOMAIN db.categories \cup {NoId} : GetOrCreateCategory(name, parent)
  \/ \E c \in DOMAIN db.categories, name \in CategoryNames \cup {UNKNOWN_CATEGORY_NAME},
        parent \in DOMAIN db.categories \cup {NoId} : UpdateCategory(c, name, parent)
  \/ \E c \in DOMAIN db.categories : DeleteCategory(c)
  \/ \E parent \in DOMAIN db.parents \cup {NoId}, name \in Titles, category \in DOMAIN db.categories \cup {NoId},
        aliases \in AliasSets : CreateProduct(parent, name, category, aliases)
  \/ \E v \in DOMAIN db.variants, canonicalName, variantName \in Titles,
        category \in DOMAIN db.categories \cup {NoId}, aliases \in AliasSets :
        UpdateProduct(v, canonicalName, variantName, category, aliases)
  \/ \E v \in DOMAIN db.variants, p \in DOMAIN db.parents : AssignExistingParent(v, p)
  \/ \E v \in DOMAIN db.variants, name \in Titles : CreateParentAndAssign(v, name)
  \/ \E v \in DOMAIN db.variants, r \in Retailers, title \in Titles : UpsertRetailerName(v, r, title)
  \/ \E v \in DOMAIN db.variants, r \in Retailers, store \in DOMAIN db.stores \cup {NoId}, price \in Prices :
        ConfirmPriceObservation(v, r, store, price)
  \/ \E vs \in SUBSET DOMAIN db.variants \ {{}} : DeleteProducts(vs)
================================================================================
