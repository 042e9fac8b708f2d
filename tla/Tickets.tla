-------------------------------- MODULE Tickets --------------------------------
(***************************************************************************)
(* Stores and receipts over the catalogue: importReceipt of database.ts    *)
(* with the triggers of the schema that project a confirmed line into the  *)
(* catalogue, the handlers of inventory-ticket-management.ts that edit and *)
(* delete receipts, and those of inventory-management-core.ts for stores.  *)
(* Captures, extractions and corrections go with their receipt and nothing *)
(* refers to them: they are left out.                                      *)
(***************************************************************************)
EXTENDS Catalog

CONSTANTS
  ImportKeys,
  MaxReceiptLines,   \* lines of an import
  Proposals,         \* sequences of categories a provider proposes
  MaxTicketActs

ASSUME TicketsAssumption ==
  /\ MaxReceiptLines \in Nat /\ MaxTicketActs \in Nat
  /\ Proposals \subseteq Seq([ref : Int, name : CategoryNames, parent : Int])
  /\ \A proposals \in Proposals : \A n \in DOMAIN proposals : proposals[n].ref < NoId /\ proposals[n].parent <= NoId

VARIABLE ticketActs

ticketVars == <<db, ticketActs>>

\* A line as the client sends it: variant is the product the user chose, if any.
Lines == [title : Titles, variant : DOMAIN db.variants \cup {NoId}, price : Prices,
          category : DOMAIN db.categories, status : {"confirmed", "needs-review"}]

LinesOf(d, r) == {i \in DOMAIN d.items : d.items[i].receipt = r}
ShownLines(d, r) == {i \in LinesOf(d, r) : d.items[i].status # "deleted"}

\* Mutants: of the lines that are shown only; of all lines of the products.
ObservationsOfShown(d, lines) ==
  {o \in DOMAIN d.observations : d.observations[o].item \in {i \in lines : d.items[i].status # "deleted"}}
ObservationsOfProducts(d, lines) ==
  {o \in DOMAIN d.observations : d.listings[d.observations[o].listing].variant \in {d.items[i].variant : i \in lines}}

\* The observations whose evidence is one of the lines.
ObservationsOf(d, lines) == {o \in DOMAIN d.observations : d.observations[o].item \in lines}

-------------------------------------------------------------------------------
\* receipt_items_project_catalog: AFTER INSERT of a confirmed line.

\* Variants the retailer lists under the title, and variants of that name.
ListedAs(d, r, title) ==
  {d.listings[l].variant : l \in {l \in DOMAIN d.listings : d.listings[l].retailer = r /\ d.listings[l].title = title}}
VariantsNamed(d, title) == {v \in DOMAIN d.variants : d.variants[v].name = title}

\* The product the line needs is looked for under its title whether or not one was chosen.
NeedsProduct(d, r, title) ==
  LET listed == Cardinality(ListedAs(d, r, title))
  IN listed # 1 /\ (listed > 1 \/ Cardinality(VariantsNamed(d, title)) # 1)

\* The product of a line without a chosen one; own is the product made for it.
Resolved(d, r, title, own) ==
  LET listed == ListedAs(d, r, title)
      named  == VariantsNamed(d, title) \ {own}
  IN CASE Cardinality(listed) = 1 -> CHOOSE v \in listed : TRUE
       [] Cardinality(listed) = 0 /\ Cardinality(named) = 1 -> CHOOSE v \in named : TRUE
       [] OTHER -> own

\* receipt_price_observation_write_store: an observation comes into its receipt's store.
StoreOfReceipt(d, receipt) == d.receipts[receipt].store

\* The trigger on the row of id, then the one on its observation.
Projected(d, id) ==
  LET line  == d.items[id]
      r     == d.receipts[line.receipt].retailer
      withProduct ==
        IF NeedsProduct(d, r, line.title)
        THEN WithProduct(WithParent(d, id, line.title, NoId), id, id, line.title, {})
        ELSE d
      variant == IF line.variant # NoId THEN line.variant ELSE Resolved(withProduct, r, line.title, id)
      linkedLine == [withProduct EXCEPT !.items[id].variant = variant]
  IN WithObservation(WithListing(linkedLine, id, r, variant, line.title), id, r, variant,
                     StoreOfReceipt(d, line.receipt), line.price, id)

\* INSERT of one line with its trigger.
WithLine(d, receipt, line) ==
  LET id == FreshId(d)
      row == [ receipt |-> receipt, title |-> line.title, variant |-> line.variant, price |-> line.price,
               category |-> line.category, status |-> line.status ]
      e  == [d EXCEPT !.items = Put(@, id, row), !.serial = id]
  IN IF line.status = "confirmed" THEN Projected(e, id) ELSE e

WithLines(d, receipt, lines) ==
  LET after[n \in 0..Len(lines)] == IF n = 0 THEN d ELSE WithLine(after[n - 1], receipt, lines[n])
  IN after[Len(lines)]

\* The category of an imported line is that of its product, or becomes it.
WithSharedCategory(d, id) ==
  LET v == d.items[id].variant
      p == IF v = NoId THEN NoId ELSE d.variants[v].parent
  IN CASE p = NoId -> d
       [] p # NoId /\ d.parents[p].category # NoId -> [d EXCEPT !.items[id].category = d.parents[p].category]
       [] OTHER -> WithParent(d, p, d.parents[p].name, d.items[id].category)

WithImportedLine(d, receipt, line) == LET e == WithLine(d, receipt, line) IN WithSharedCategory(e, e.serial)

Imported(d, receipt, lines) ==
  LET after[n \in 0..Len(lines)] == IF n = 0 THEN d ELSE WithImportedLine(after[n - 1], receipt, lines[n])
  IN after[Len(lines)]

\* The store is one of the database, or a new one of a retailer; the key is idempotent.
\* A chosen product that is gone fails its foreign key, and the whole import with it.
ImportReceipt(key, store, retailer, lines) ==
  LET id      == FreshId(db)
      newShop == store \notin DOMAIN db.stores
      d       == IF newShop THEN [db EXCEPT !.stores = Put(@, id, [retailer |-> retailer])] ELSE db
      s       == IF newShop THEN id ELSE store
      e       == [d EXCEPT !.receipts = Put(@, id, [retailer |-> d.stores[s].retailer, store |-> s, key |-> key]),
                           !.serial = id]
  IN /\ \A r \in DOMAIN db.receipts : db.receipts[r].key # key
     /\ ~newShop => retailer = db.stores[store].retailer
     /\ db.serial + 1 + Len(lines) <= MaxSerial
     /\ db' = Imported(e, id, lines)

-------------------------------------------------------------------------------
\* The ticket editor.

\* kept lines get the price and the category, the other lines are marked as deleted, added
\* lines are inserted, and the observations of all lines get the store.
UpdateReceipt(r, store, kept, price, category, added) ==
  LET edited == [i \in ShownLines(db, r) |->
                   IF i \in kept THEN [db.items[i] EXCEPT !.price = price, !.category = category, !.status = "confirmed"]
                   ELSE [db.items[i] EXCEPT !.status = "deleted"]]
      d == [db EXCEPT !.receipts[r].store = store,
                      !.items = [i \in DOMAIN @ |-> IF i \in DOMAIN edited THEN edited[i] ELSE @[i]]]
      e == WithLines(d, r, added)
  IN /\ kept \subseteq ShownLines(db, r)
     /\ db.stores[store].retailer = db.receipts[r].retailer
     /\ db.serial + Len(added) <= MaxSerial
     /\ db' = [e EXCEPT !.observations =
                 [o \in DOMAIN @ |-> IF o \in ObservationsOf(e, LinesOf(e, r)) THEN [@[o] EXCEPT !.store = store] ELSE @[o]]]

\* One receipt or a selection, with its lines and what they gave evidence of.
DeleteReceipts(rs) ==
  LET lines == UNION {LinesOf(db, r) : r \in rs}
  IN db' = [db EXCEPT !.observations = Drop(@, ObservationsOf(db, lines)),
                      !.items = Drop(@, lines),
                      !.receipts = Drop(@, rs)]

-------------------------------------------------------------------------------
\* Stores, and what a shopping list refers to.

CreateStore(r) ==
  /\ CanCreate(db)
  /\ db' = [db EXCEPT !.stores = Put(@, FreshId(db), [retailer |-> r]), !.serial = FreshId(db)]

\* The retailer of a store may change, with receipts and observations at the store.
UpdateStore(s, r) ==
  /\ db.stores[s].retailer # r
  /\ db' = [db EXCEPT !.stores[s].retailer = r]

StoreCanDelete(d, s) ==
  /\ \A o \in DOMAIN d.observations : d.observations[o].store # s
  /\ \A r \in DOMAIN d.receipts : d.receipts[r].store # s
  /\ s \notin d.linked

DeleteStore(s) ==
  /\ StoreCanDelete(db, s)
  /\ db' = [db EXCEPT !.stores = Drop(@, {s})]

LinkFromList(id) == id \notin db.linked /\ db' = [db EXCEPT !.linked = @ \cup {id}]
UnlinkFromList(id) == db' = [db EXCEPT !.linked = @ \ {id}]

-------------------------------------------------------------------------------
TicketInit == db = EmptyDatabase /\ ticketActs = 0

TicketStep ==
  \/ CatalogNext
  \/ \E key \in ImportKeys, store \in DOMAIN db.stores \cup {NoId}, retailer \in Retailers,
        lines \in UNION {[1..n -> Lines] : n \in 1..MaxReceiptLines} : ImportReceipt(key, store, retailer, lines)
  \/ \E r \in DOMAIN db.receipts, store \in DOMAIN db.stores, price \in Prices, category \in DOMAIN db.categories :
        \E kept \in SUBSET ShownLines(db, r), added \in {<<>>} \cup [{1} -> {line \in Lines :
             line.variant = NoId /\ line.status = "confirmed" /\ line.price = price /\ line.category = category}] :
          UpdateReceipt(r, store, kept, price, category, added)
  \/ \E rs \in SUBSET DOMAIN db.receipts \ {{}} : DeleteReceipts(rs)
  \/ \E r \in Retailers : CreateStore(r)
  \/ \E s \in DOMAIN db.stores, r \in Retailers : UpdateStore(s, r)
  \/ \E s \in DOMAIN db.stores : DeleteStore(s)
  \/ \E id \in DOMAIN db.variants \cup DOMAIN db.stores : LinkFromList(id)
  \/ \E id \in db.linked : UnlinkFromList(id)
  \/ \E proposals \in Proposals : MaterializeCategories(proposals)

TicketNext == ticketActs < MaxTicketActs /\ ticketActs' = ticketActs + 1 /\ TicketStep

TicketSpec == TicketInit /\ [][TicketNext]_ticketVars

-------------------------------------------------------------------------------
\* The tables of the schema; the ids of rows are among those given.
TicketTypeOK ==
  /\ ticketActs \in 0..MaxTicketActs
  /\ db.serial \in Nat
  /\ \A t \in {"categories", "parents", "variants", "listings", "search", "observations", "stores", "receipts", "items"} :
       DOMAIN db[t] \subseteq 1..db.serial
  /\ db.linked \subseteq DOMAIN db.variants \cup DOMAIN db.stores

\* Foreign keys.
ReferencesHold(d) ==
  /\ \A c \in DOMAIN d.categories : ParentExists(d, d.categories[c].parent)
  /\ \A p \in DOMAIN d.parents : ParentExists(d, d.parents[p].category)
  /\ \A v \in DOMAIN d.variants : d.variants[v].parent \in DOMAIN d.parents
  /\ \A l \in DOMAIN d.listings : d.listings[l].variant \in DOMAIN d.variants
  /\ \A r \in DOMAIN d.receipts : d.receipts[r].store \in DOMAIN d.stores \cup {NoId}
  /\ \A i \in DOMAIN d.items :
       /\ d.items[i].receipt \in DOMAIN d.receipts
       /\ d.items[i].variant \in DOMAIN d.variants \cup {NoId}
       /\ d.items[i].category \in DOMAIN d.categories
  /\ \A o \in DOMAIN d.observations :
       /\ d.observations[o].listing \in DOMAIN d.listings
       /\ d.observations[o].store \in DOMAIN d.stores \cup {NoId}
       /\ d.observations[o].item \in DOMAIN d.items \cup {NoId}

\* No category is above itself, the unknown one is a root, and the text of a product names its category.
CategoriesSound(d) ==
  /\ \A c \in DOMAIN d.categories :
       d.categories[c].parent # NoId => c \notin SelfAndAbove(d, d.categories[c].parent)
  /\ \A c, e \in DOMAIN d.categories : d.categories[c].name = d.categories[e].name => c = e
  /\ d.categories[UNKNOWN_CATEGORY_ID] = [name |-> UNKNOWN_CATEGORY_NAME, parent |-> NoId]
  /\ \A p \in DOMAIN d.parents :
       d.parents[p].label = IF d.parents[p].category = NoId THEN "" ELSE d.categories[d.parents[p].category].name

\* Every product is found by its own names and nothing that is gone is found.
SearchSound(d) ==
  /\ DOMAIN d.search = DOMAIN d.variants
  /\ \A v \in DOMAIN d.variants : \A word \in {d.variants[v].name} \cup d.variants[v].aliases : v \in SuggestedFor(d, word)

\* What a line of a receipt is evidence of: the product of the line, at the retailer and in
\* the store of the receipt.
EvidenceSound(d) ==
  /\ \A o \in DOMAIN d.observations :
       LET seen == d.observations[o]
       IN /\ d.listings[seen.listing].retailer = seen.retailer
          /\ seen.item # NoId =>
               /\ d.listings[seen.listing].variant = d.items[seen.item].variant
               /\ seen.retailer = d.receipts[d.items[seen.item].receipt].retailer
               /\ seen.store = d.receipts[d.items[seen.item].receipt].store
  /\ \A r \in Retailers, v \in DOMAIN d.variants : Cardinality(ListingsOf(d, r, v)) <= 1

\* Whatever order products, categories, stores and receipts are written, renamed, linked and
\* deleted in, the tables agree: no reference dangles, categories stay a forest, the index
\* follows the products, and evidence says what its receipt says.
StoreSound == ReferencesHold(db) /\ CategoriesSound(db) /\ SearchSound(db) /\ EvidenceSound(db)

\* A line that is inserted as confirmed leaves one observation of its price, and an observation
\* keeps its price and its product for good: a receipt's moves with the receipt to another
\* store and goes only with its receipt, and a product with observations stays.
PricesAreEvidence ==
  [][ /\ \A i \in DOMAIN db'.items \ DOMAIN db.items : db'.items[i].status = "confirmed" =>
           \E o \in DOMAIN db'.observations :
             /\ ObservationsOf(db', {i}) = {o}
             /\ db'.observations[o].price = db'.items[i].price
      /\ \A o \in DOMAIN db.observations :
           LET seen == db.observations[o]
           IN /\ o \notin DOMAIN db'.observations =>
                   seen.item # NoId /\ db.items[seen.item].receipt \notin DOMAIN db'.receipts
              /\ o \in DOMAIN db'.observations =>
                   /\ [db'.observations[o] EXCEPT !.store = seen.store] = seen
                   /\ db'.listings[seen.listing].variant = db.listings[seen.listing].variant ]_ticketVars
================================================================================
