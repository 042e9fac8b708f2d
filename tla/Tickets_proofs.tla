----------------------------- MODULE Tickets_proofs -----------------------------
(***************************************************************************)
(* Theorems about the catalogue and the receipts: whatever is written,     *)
(* imported, edited and deleted, in any order, the tables agree.  What the *)
(* tables must agree on is a conjunction of small predicates, each of the  *)
(* tables it relates only, so that an operation has to re-establish those  *)
(* of the tables it changes and no other.                                  *)
(***************************************************************************)
EXTENDS Tickets, Induction, FiniteSetTheorems, SequenceTheorems, TLAPS

-------------------------------------------------------------------------------
\* Tables and their rows.

Table(Row) == UNION {[D -> Row] : D \in SUBSET Nat}

Category    == [name : CategoryNames \cup {UNKNOWN_CATEGORY_NAME}, parent : Nat]
Parent      == [name : Titles, category : Nat, label : CategoryNames \cup {UNKNOWN_CATEGORY_NAME, ""}]
Variant     == [parent : Nat, name : Titles, aliases : SUBSET Titles]
Listing     == [retailer : Retailers, variant : Nat, title : Titles]
Observation == [listing : Nat, retailer : Retailers, store : Nat, price : Prices, item : Nat]
Store       == [retailer : Retailers]
Receipt     == [retailer : Retailers, store : Nat, key : ImportKeys]
Item        == [receipt : Nat, title : Titles, variant : Nat, price : Prices, category : Nat,
                status : {"confirmed", "needs-review", "deleted"}]

Database ==
  [ categories : Table(Category), parents : Table(Parent), variants : Table(Variant),
    listings : Table(Listing), search : Table(SUBSET Titles), observations : Table(Observation),
    stores : Table(Store), receipts : Table(Receipt), items : Table(Item),
    linked : SUBSET Nat, serial : Nat ]

LEMMA TableIs ==
  ASSUME NEW Row, NEW T
  PROVE  T \in Table(Row) <=> DOMAIN T \subseteq Nat /\ T \in [DOMAIN T -> Row]
<1>1. ASSUME T \in Table(Row) PROVE DOMAIN T \subseteq Nat /\ T \in [DOMAIN T -> Row]
  <2>1. PICK D \in SUBSET Nat : T \in [D -> Row]
    BY <1>1 DEF Table
  <2>2. DOMAIN T = D
    BY <2>1
  <2> QED
    BY <2>1, <2>2
<1>2. ASSUME DOMAIN T \subseteq Nat, T \in [DOMAIN T -> Row] PROVE T \in Table(Row)
  BY <1>2 DEF Table
<1> QED
  BY <1>1, <1>2

LEMMA PutIs ==
  ASSUME NEW Row, NEW T \in Table(Row), NEW id \in Nat, NEW row \in Row
  PROVE  /\ Put(T, id, row) \in Table(Row)
         /\ DOMAIN Put(T, id, row) = DOMAIN T \cup {id}
         /\ Put(T, id, row)[id] = row
         /\ \A k \in DOMAIN T : k # id => Put(T, id, row)[k] = T[k]
<1>1. DOMAIN T \subseteq Nat /\ T \in [DOMAIN T -> Row]
  BY TableIs
<1>2. Put(T, id, row) \in [DOMAIN T \cup {id} -> Row]
  BY <1>1 DEF Put
<1>3. DOMAIN Put(T, id, row) = DOMAIN T \cup {id}
  BY DEF Put
<1>4. Put(T, id, row) \in Table(Row)
  BY <1>1, <1>2, <1>3, TableIs
<1> QED
  BY <1>3, <1>4 DEF Put

LEMMA DropIs ==
  ASSUME NEW Row, NEW T \in Table(Row), NEW ids
  PROVE  /\ Drop(T, ids) \in Table(Row)
         /\ DOMAIN Drop(T, ids) = DOMAIN T \ ids
         /\ \A k \in DOMAIN T \ ids : Drop(T, ids)[k] = T[k]
<1>1. DOMAIN T \subseteq Nat /\ T \in [DOMAIN T -> Row]
  BY TableIs
<1>2. Drop(T, ids) \in [DOMAIN T \ ids -> Row]
  BY <1>1 DEF Drop
<1>3. DOMAIN Drop(T, ids) = DOMAIN T \ ids
  BY DEF Drop
<1>4. Drop(T, ids) \in Table(Row)
  BY <1>1, <1>2, <1>3, TableIs
<1> QED
  BY <1>3, <1>4 DEF Drop

-------------------------------------------------------------------------------
\* What the tables agree on.

\* Category c is not a or above it: a set that is closed upwards has a and not c.
NotAbove(cats, c, a) ==
  \E S \in SUBSET DOMAIN cats : a \in S /\ c \notin S /\ \A x \in S : cats[x].parent \in S \cup {NoId}

CategoriesAgree(cats) ==
  /\ \A c \in DOMAIN cats : cats[c].parent \in DOMAIN cats \cup {NoId}
  /\ \A c \in DOMAIN cats : cats[c].parent # NoId => NotAbove(cats, c, cats[c].parent)
  /\ \A c, e \in DOMAIN cats : cats[c].name = cats[e].name => c = e
  /\ UNKNOWN_CATEGORY_ID \in DOMAIN cats
  /\ cats[UNKNOWN_CATEGORY_ID] = [name |-> UNKNOWN_CATEGORY_NAME, parent |-> NoId]

LabelOf(cats, c) == IF c = NoId THEN "" ELSE cats[c].name

ParentsAgree(parents, cats) ==
  \A p \in DOMAIN parents :
    /\ parents[p].category \in DOMAIN cats \cup {NoId}
    /\ parents[p].label = LabelOf(cats, parents[p].category)

VariantsAgree(variants, parents) == \A v \in DOMAIN variants : variants[v].parent \in DOMAIN parents

SearchAgrees(search, variants) ==
  /\ DOMAIN search = DOMAIN variants
  /\ \A v \in DOMAIN variants : {variants[v].name} \cup variants[v].aliases \subseteq search[v]

ListingsAgree(listings, variants) ==
  /\ \A l \in DOMAIN listings : listings[l].variant \in DOMAIN variants
  /\ \A l, m \in DOMAIN listings :
       listings[l].retailer = listings[m].retailer /\ listings[l].variant = listings[m].variant => l = m

ReceiptsAgree(receipts, stores) == \A r \in DOMAIN receipts : receipts[r].store \in DOMAIN stores \cup {NoId}

ItemsAgree(items, receipts, variants, cats) ==
  \A i \in DOMAIN items :
    /\ items[i].receipt \in DOMAIN receipts
    /\ items[i].variant \in DOMAIN variants \cup {NoId}
    /\ items[i].category \in DOMAIN cats

\* What an observation says; while receipt moved is edited its evidence is in the store it was in.
Evidenced(seen, listings, stores, items, receipts, moved) ==
  /\ seen.listing \in DOMAIN listings
  /\ seen.store \in DOMAIN stores \cup {NoId}
  /\ seen.item \in DOMAIN items \cup {NoId}
  /\ listings[seen.listing].retailer = seen.retailer
  /\ seen.item # NoId =>
       /\ listings[seen.listing].variant = items[seen.item].variant
       /\ seen.retailer = receipts[items[seen.item].receipt].retailer
       /\ items[seen.item].receipt # moved => seen.store = receipts[items[seen.item].receipt].store

EvidenceAgrees(observations, listings, stores, items, receipts, moved) ==
  \A o \in DOMAIN observations : Evidenced(observations[o], listings, stores, items, receipts, moved)

\* The ids of all rows are among the first n.
Given(d, n) ==
  /\ DOMAIN d.categories \subseteq 1..n /\ DOMAIN d.parents \subseteq 1..n /\ DOMAIN d.variants \subseteq 1..n
  /\ DOMAIN d.listings \subseteq 1..n /\ DOMAIN d.observations \subseteq 1..n /\ DOMAIN d.stores \subseteq 1..n
  /\ DOMAIN d.receipts \subseteq 1..n /\ DOMAIN d.items \subseteq 1..n

LinksAgree(linked, variants, stores) == linked \subseteq DOMAIN variants \cup DOMAIN stores

Agrees(d, moved) ==
  /\ d \in Database
  /\ CategoriesAgree(d.categories)
  /\ ParentsAgree(d.parents, d.categories)
  /\ VariantsAgree(d.variants, d.parents)
  /\ SearchAgrees(d.search, d.variants)
  /\ ListingsAgree(d.listings, d.variants)
  /\ ReceiptsAgree(d.receipts, d.stores)
  /\ ItemsAgree(d.items, d.receipts, d.variants, d.categories)
  /\ EvidenceAgrees(d.observations, d.listings, d.stores, d.items, d.receipts, moved)
  /\ LinksAgree(d.linked, d.variants, d.stores)

\* The inductive invariant.
RecordsInv ==
  /\ ticketActs \in 0..MaxTicketActs
  /\ Agrees(db, NoId)
  /\ Given(db, db.serial)

-------------------------------------------------------------------------------
\* The forest of categories.

LEMMA NotAboveIs ==
  ASSUME NEW d, NEW c \in DOMAIN d.categories, NEW a
  PROVE  c \notin SelfAndAbove(d, a) <=> NotAbove(d.categories, c, a)
BY DEF SelfAndAbove, NotAbove

\* A new category is below categories that were there.
LEMMA NewCategoryAgrees ==
  ASSUME NEW cats \in Table(Category), CategoriesAgree(cats),
         NEW id \in Nat \ {NoId}, id \notin DOMAIN cats,
         NEW row \in Category, row.parent \in DOMAIN cats \cup {NoId},
         \A c \in DOMAIN cats : cats[c].name # row.name
  PROVE  CategoriesAgree(Put(cats, id, row))
<1> DEFINE new == Put(cats, id, row)
<1>1. DOMAIN new = DOMAIN cats \cup {id} /\ new[id] = row /\ \A k \in DOMAIN cats : new[k] = cats[k]
  BY DEF Put
<1> HIDE DEF new
<1>2. ASSUME NEW c \in DOMAIN new, new[c].parent # NoId PROVE NotAbove(new, c, new[c].parent)
  <2>1. CASE c = id
    <3>1. \A x \in DOMAIN cats : new[x].parent \in DOMAIN cats \cup {NoId}
      BY <1>1 DEF CategoriesAgree
    <3>2. new[c].parent \in DOMAIN cats /\ c \notin DOMAIN cats
      BY <1>1, <1>2, <2>1
    <3>3. DOMAIN cats \in SUBSET DOMAIN new
      BY <1>1
    <3> QED
      BY <3>1, <3>2, <3>3 DEF NotAbove
  <2>2. CASE c # id
    <3>1. c \in DOMAIN cats /\ new[c] = cats[c]
      BY <1>1, <2>2
    <3>2. PICK S \in SUBSET DOMAIN cats :
            cats[c].parent \in S /\ c \notin S /\ \A x \in S : cats[x].parent \in S \cup {NoId}
      BY <1>2, <3>1 DEF CategoriesAgree, NotAbove
    <3>3. S \in SUBSET DOMAIN new /\ \A x \in S : new[x].parent \in S \cup {NoId}
      BY <1>1, <3>2
    <3> QED
      BY <3>1, <3>2, <3>3 DEF NotAbove
  <2> QED
    BY <2>1, <2>2
<1>3. \A c \in DOMAIN new : new[c].parent \in DOMAIN new \cup {NoId}
  BY <1>1 DEF CategoriesAgree
<1>4. \A c, e \in DOMAIN new : new[c].name = new[e].name => c = e
  BY <1>1 DEF CategoriesAgree
<1>5. UNKNOWN_CATEGORY_ID \in DOMAIN new
      /\ new[UNKNOWN_CATEGORY_ID] = [name |-> UNKNOWN_CATEGORY_NAME, parent |-> NoId]
  BY <1>1 DEF CategoriesAgree
<1> QED
  BY <1>2, <1>3, <1>4, <1>5 DEF CategoriesAgree, new

\* A category moves below one it is not above: what was not above stays so.
LEMMA MovedCategoryAgrees ==
  ASSUME NEW cats \in Table(Category), CategoriesAgree(cats),
         NEW c \in DOMAIN cats, NEW row \in Category, row.parent \in DOMAIN cats \cup {NoId},
         row.parent # NoId => NotAbove(cats, c, row.parent),
         \A e \in DOMAIN cats : cats[e].name = row.name => e = c,
         c = UNKNOWN_CATEGORY_ID => row = [name |-> UNKNOWN_CATEGORY_NAME, parent |-> NoId]
  PROVE  CategoriesAgree([cats EXCEPT ![c] = row])
<1> DEFINE new == [cats EXCEPT ![c] = row]
<1>1. DOMAIN new = DOMAIN cats /\ new[c] = row /\ \A k \in DOMAIN cats : k # c => new[k] = cats[k]
  BY TableIs
<1> HIDE DEF new
<1>2. PICK P \in SUBSET DOMAIN cats :
        /\ row.parent \in P \cup {NoId} /\ c \notin P
        /\ \A x \in P : cats[x].parent \in P \cup {NoId}
  <2>1. CASE row.parent = NoId
    <3>1. {} \in SUBSET DOMAIN cats
      OBVIOUS
    <3> QED
      BY <2>1, <3>1
  <2>2. CASE row.parent # NoId
    BY <2>2 DEF NotAbove
  <2> QED
    BY <2>1, <2>2
<1>3. ASSUME NEW k \in DOMAIN new, new[k].parent # NoId PROVE NotAbove(new, k, new[k].parent)
  <2>1. CASE k = c
    <3>1. P \in SUBSET DOMAIN new /\ new[k].parent \in P /\ k \notin P
      BY <1>1, <1>2, <1>3, <2>1
    <3>2. \A x \in P : new[x].parent \in P \cup {NoId}
      BY <1>1, <1>2
    <3> QED
      BY <3>1, <3>2 DEF NotAbove
  <2>2. CASE k # c
    <3>1. k \in DOMAIN cats /\ new[k] = cats[k]
      BY <1>1, <2>2
    <3>2. PICK S \in SUBSET DOMAIN cats :
            cats[k].parent \in S /\ k \notin S /\ \A x \in S : cats[x].parent \in S \cup {NoId}
      BY <1>3, <3>1 DEF CategoriesAgree, NotAbove
    <3>3. CASE k \in P
      <4>1. S \cap P \in SUBSET DOMAIN new /\ new[k].parent \in S \cap P /\ k \notin S \cap P
        BY <1>1, <1>2, <1>3, <3>1, <3>2, <3>3
      <4>2. \A x \in S \cap P : new[x].parent \in (S \cap P) \cup {NoId}
        BY <1>1, <1>2, <3>2
      <4> QED
        BY <4>1, <4>2 DEF NotAbove
    <3>4. CASE k \notin P
      <4>1. S \cup P \in SUBSET DOMAIN new /\ new[k].parent \in S \cup P /\ k \notin S \cup P
        BY <1>1, <3>1, <3>2, <3>4
      <4>2. \A x \in S \cup P : new[x].parent \in (S \cup P) \cup {NoId}
        BY <1>1, <1>2, <3>2
      <4> QED
        BY <4>1, <4>2 DEF NotAbove
    <3> QED
      BY <3>3, <3>4
  <2> QED
    BY <2>1, <2>2
<1>4. \A k \in DOMAIN new : new[k].parent \in DOMAIN new \cup {NoId}
  BY <1>1 DEF CategoriesAgree
<1>5. \A k, e \in DOMAIN new : new[k].name = new[e].name => k = e
  BY <1>1 DEF CategoriesAgree
<1>6. UNKNOWN_CATEGORY_ID \in DOMAIN new
      /\ new[UNKNOWN_CATEGORY_ID] = [name |-> UNKNOWN_CATEGORY_NAME, parent |-> NoId]
  BY <1>1 DEF CategoriesAgree
<1> QED
  BY <1>3, <1>4, <1>5, <1>6 DEF CategoriesAgree, new

\* A category without children goes, and is above none that stay.
LEMMA DroppedCategoryAgrees ==
  ASSUME NEW cats \in Table(Category), CategoriesAgree(cats),
         NEW c \in DOMAIN cats, c # UNKNOWN_CATEGORY_ID, \A k \in DOMAIN cats : cats[k].parent # c
  PROVE  CategoriesAgree(Drop(cats, {c}))
<1> DEFINE new == Drop(cats, {c})
<1>1. DOMAIN new = DOMAIN cats \ {c} /\ \A k \in DOMAIN cats \ {c} : new[k] = cats[k]
  BY DEF Drop
<1> HIDE DEF new
<1>2. ASSUME NEW k \in DOMAIN new, new[k].parent # NoId PROVE NotAbove(new, k, new[k].parent)
  <2>1. k \in DOMAIN cats /\ new[k] = cats[k]
    BY <1>1
  <2>2. PICK S \in SUBSET DOMAIN cats :
          cats[k].parent \in S /\ k \notin S /\ \A x \in S : cats[x].parent \in S \cup {NoId}
    BY <1>2, <2>1 DEF CategoriesAgree, NotAbove
  <2>3. S \ {c} \in SUBSET DOMAIN new /\ new[k].parent \in S \ {c} /\ k \notin S \ {c}
    BY <1>1, <2>1, <2>2
  <2>4. \A x \in S \ {c} : new[x].parent \in (S \ {c}) \cup {NoId}
    BY <1>1, <2>2
  <2> QED
    BY <2>3, <2>4 DEF NotAbove
<1>3. \A k \in DOMAIN new : new[k].parent \in DOMAIN new \cup {NoId}
  BY <1>1 DEF CategoriesAgree
<1>4. \A k, e \in DOMAIN new : new[k].name = new[e].name => k = e
  BY <1>1 DEF CategoriesAgree
<1>5. UNKNOWN_CATEGORY_ID \in DOMAIN new
      /\ new[UNKNOWN_CATEGORY_ID] = [name |-> UNKNOWN_CATEGORY_NAME, parent |-> NoId]
  BY <1>1 DEF CategoriesAgree
<1> QED
  BY <1>2, <1>3, <1>4, <1>5 DEF CategoriesAgree, new

-------------------------------------------------------------------------------
\* Operations on categories.

\* The tables a database is made of.
LEMMA FieldsOf ==
  ASSUME NEW d \in Database
  PROVE  /\ d.categories \in Table(Category) /\ d.parents \in Table(Parent) /\ d.variants \in Table(Variant)
         /\ d.listings \in Table(Listing) /\ d.search \in Table(SUBSET Titles)
         /\ d.observations \in Table(Observation) /\ d.stores \in Table(Store)
         /\ d.receipts \in Table(Receipt) /\ d.items \in Table(Item)
         /\ d.linked \in SUBSET Nat /\ d.serial \in Nat
BY DEF Database

\* More categories, and those that were there have kept their names: nothing else notices.
LEMMA CategoryAdded ==
  ASSUME NEW d, Agrees(d, NoId), Given(d, d.serial),
         NEW row \in Category, row.parent \in DOMAIN d.categories \cup {NoId},
         \A c \in DOMAIN d.categories : d.categories[c].name # row.name
  PROVE  LET e == [d EXCEPT !.categories = Put(@, d.serial + 1, row), !.serial = d.serial + 1]
         IN /\ Agrees(e, NoId) /\ Given(e, e.serial) /\ e.serial = d.serial + 1
            /\ DOMAIN e.categories = DOMAIN d.categories \cup {d.serial + 1}
            /\ e.items = d.items /\ e.observations = d.observations /\ e.listings = d.listings
<1> DEFINE id == d.serial + 1
           cats == Put(d.categories, id, row)
           e == [d EXCEPT !.categories = cats, !.serial = id]
<1>1. d \in Database
  BY DEF Agrees
<1>2. id \in Nat \ {NoId} /\ id \notin DOMAIN d.categories /\ d.serial \in Nat
  BY <1>1, FieldsOf DEF Given, NoId
<1>3. d.categories \in Table(Category)
  BY <1>1, FieldsOf
<1> HIDE DEF id
<1>4. cats \in Table(Category) /\ DOMAIN cats = DOMAIN d.categories \cup {id}
      /\ \A k \in DOMAIN d.categories : cats[k] = d.categories[k]
  <2>1. cats \in Table(Category)
    BY <1>2, <1>3, PutIs
  <2> QED
    BY <1>2, <2>1 DEF Put
<1>5. CategoriesAgree(cats)
  BY <1>2, <1>3, NewCategoryAgrees DEF Agrees
<1> HIDE DEF cats
<1>6. e \in Database
  BY <1>1, <1>2, <1>4 DEF Database
<1>7. /\ e.categories = cats /\ e.serial = id /\ e.parents = d.parents /\ e.variants = d.variants
      /\ e.listings = d.listings /\ e.search = d.search /\ e.observations = d.observations
      /\ e.stores = d.stores /\ e.receipts = d.receipts /\ e.items = d.items /\ e.linked = d.linked
  BY <1>1 DEF Database
<1> HIDE DEF e
<1>8. ParentsAgree(e.parents, e.categories)
  <2>1. ParentsAgree(d.parents, d.categories)
    BY DEF Agrees
  <2>2. \A p \in DOMAIN d.parents : d.parents[p].category \in DOMAIN cats \cup {NoId}
    BY <1>4, <2>1 DEF ParentsAgree
  <2>3. \A p \in DOMAIN d.parents : LabelOf(cats, d.parents[p].category) = LabelOf(d.categories, d.parents[p].category)
    BY <1>4, <2>1 DEF LabelOf, ParentsAgree
  <2> QED
    BY <1>7, <2>1, <2>2, <2>3 DEF ParentsAgree
<1>9. ItemsAgree(e.items, e.receipts, e.variants, e.categories)
  BY <1>4, <1>7 DEF Agrees, ItemsAgree
<1>10. Agrees(e, NoId)
  BY <1>5, <1>6, <1>7, <1>8, <1>9 DEF Agrees
<1>11. Given(e, id)
  BY <1>2, <1>4, <1>7 DEF Given, id
<1> QED
  BY <1>4, <1>7, <1>10, <1>11 DEF e, cats, id

LEMMA GetOrCreateCategoryKeeps ==
  ASSUME RecordsInv, NEW name \in CategoryNames, NEW parent \in DOMAIN db.categories \cup {NoId},
         GetOrCreateCategory(name, parent)
  PROVE  Agrees(db', NoId) /\ Given(db', db'.serial)
<1> DEFINE row == [name |-> name, parent |-> parent]
<1>1. db \in Database
  BY DEF RecordsInv, Agrees
<1>2. row \in Category /\ row.parent \in DOMAIN db.categories \cup {NoId}
  <2>1. DOMAIN db.categories \subseteq Nat
    BY <1>1, FieldsOf, TableIs
  <2> QED
    BY <2>1 DEF Category, NoId
<1>3. \A c \in DOMAIN db.categories : db.categories[c].name # row.name
  BY DEF GetOrCreateCategory, Named
<1>4. db' = [db EXCEPT !.categories = Put(@, db.serial + 1, row), !.serial = db.serial + 1]
  BY DEF GetOrCreateCategory, FreshId
<1> HIDE DEF row
<1> QED
  BY <1>2, <1>3, <1>4, CategoryAdded DEF RecordsInv

LEMMA UpdateCategoryKeeps ==
  ASSUME RecordsInv, NEW c \in DOMAIN db.categories,
         NEW name \in CategoryNames \cup {UNKNOWN_CATEGORY_NAME}, NEW parent \in DOMAIN db.categories \cup {NoId},
         UpdateCategory(c, name, parent)
  PROVE  Agrees(db', NoId) /\ Given(db', db'.serial)
<1> DEFINE row == [name |-> name, parent |-> parent]
           cats == [db.categories EXCEPT ![c] = row]
           parents == [p \in DOMAIN db.parents |->
                         IF db.parents[p].category = c THEN [db.parents[p] EXCEPT !.label = name] ELSE db.parents[p]]
<1>1. db \in Database
  BY DEF RecordsInv, Agrees
<1>2. db.categories \in Table(Category) /\ db.parents \in Table(Parent)
      /\ DOMAIN db.categories \subseteq Nat \ {NoId} /\ DOMAIN db.parents \subseteq Nat
  BY <1>1, FieldsOf, TableIs DEF RecordsInv, Given, NoId
<1>3. row \in Category /\ row.parent \in DOMAIN db.categories \cup {NoId} /\ row.name = name /\ row.parent = parent
  BY <1>2 DEF Category, NoId
<1>4. CategoriesAgree(cats)
  <2>1. CategoriesAgree(db.categories)
    BY DEF RecordsInv, Agrees
  <2>2. row.parent # NoId => NotAbove(db.categories, c, row.parent)
    BY NotAboveIs, <1>3 DEF UpdateCategory
  <2>3. \A e \in DOMAIN db.categories : db.categories[e].name = row.name => e = c
    BY <1>3 DEF UpdateCategory, Named
  <2>4. c = UNKNOWN_CATEGORY_ID => row = [name |-> UNKNOWN_CATEGORY_NAME, parent |-> NoId]
    BY DEF UpdateCategory
  <2> HIDE DEF row
  <2> QED
    BY <1>2, <1>3, <2>1, <2>2, <2>3, <2>4, MovedCategoryAgrees
<1>5. /\ cats \in Table(Category) /\ DOMAIN cats = DOMAIN db.categories
      /\ cats[c] = row /\ \A k \in DOMAIN db.categories : k # c => cats[k] = db.categories[k]
  <2>1. db.categories \in [DOMAIN db.categories -> Category]
    BY <1>2, TableIs
  <2>2. cats \in [DOMAIN db.categories -> Category]
    BY <1>3, <2>1
  <2>3. DOMAIN cats = DOMAIN db.categories
    OBVIOUS
  <2> QED
    BY <1>2, <2>2, <2>3, TableIs
<1>6. parents \in Table(Parent)
  <2>1. db.parents \in [DOMAIN db.parents -> Parent]
    BY <1>2, TableIs
  <2>2. \A p \in DOMAIN db.parents : [db.parents[p] EXCEPT !.label = name] \in Parent
    BY <2>1 DEF Parent
  <2>3. parents \in [DOMAIN db.parents -> Parent]
    BY <2>1, <2>2
  <2>4. DOMAIN parents = DOMAIN db.parents
    OBVIOUS
  <2> QED
    BY <1>2, <2>3, <2>4, TableIs
<1>7. ParentsAgree(parents, cats)
  <2>1. db.parents \in [DOMAIN db.parents -> Parent]
    BY <1>2, TableIs
  <2>2. ASSUME NEW p \in DOMAIN db.parents
        PROVE  /\ parents[p].category = db.parents[p].category
               /\ parents[p].label = IF db.parents[p].category = c THEN name ELSE db.parents[p].label
    BY <2>1, <2>2 DEF Parent
  <2>3. ParentsAgree(db.parents, db.categories)
    BY DEF RecordsInv, Agrees
  <2>4. DOMAIN parents = DOMAIN db.parents
    OBVIOUS
  <2> HIDE DEF cats, parents
  <2> QED
    BY <1>2, <1>3, <1>5, <2>2, <2>3, <2>4 DEF ParentsAgree, LabelOf
<1>8. db' = [db EXCEPT !.categories = cats, !.parents = parents]
  BY <1>1 DEF UpdateCategory, Database
<1>9. DOMAIN parents = DOMAIN db.parents
  OBVIOUS
<1> HIDE DEF cats, parents, row
<1>10. db' \in Database
  BY <1>1, <1>5, <1>6, <1>8 DEF Database
<1>11. /\ db'.categories = cats /\ db'.serial = db.serial /\ db'.parents = parents /\ db'.variants = db.variants
       /\ db'.listings = db.listings /\ db'.search = db.search /\ db'.observations = db.observations
       /\ db'.stores = db.stores /\ db'.receipts = db.receipts /\ db'.items = db.items /\ db'.linked = db.linked
  BY <1>1, <1>8 DEF Database
<1>12. VariantsAgree(db'.variants, db'.parents)
  BY <1>9, <1>11 DEF RecordsInv, Agrees, VariantsAgree
<1>13. ItemsAgree(db'.items, db'.receipts, db'.variants, db'.categories)
  BY <1>5, <1>11 DEF RecordsInv, Agrees, ItemsAgree
<1>14. Agrees(db', NoId)
  BY <1>4, <1>7, <1>10, <1>11, <1>12, <1>13 DEF RecordsInv, Agrees
<1> QED
  BY <1>5, <1>9, <1>11, <1>14 DEF RecordsInv, Given

LEMMA DeleteCategoryKeeps ==
  ASSUME RecordsInv, NEW c \in DOMAIN db.categories, DeleteCategory(c)
  PROVE  Agrees(db', NoId) /\ Given(db', db'.serial)
<1> DEFINE cats == Drop(db.categories, {c})
<1>1. db \in Database
  BY DEF RecordsInv, Agrees
<1>2. db.categories \in Table(Category) /\ c # NoId
  BY <1>1, FieldsOf DEF RecordsInv, Given, NoId
<1>3. CategoriesAgree(cats)
  BY <1>2, DroppedCategoryAgrees DEF RecordsInv, Agrees, DeleteCategory, CategoryCanDelete, Children
<1>4. cats \in Table(Category)
  BY <1>2, DropIs
<1>5. DOMAIN cats = DOMAIN db.categories \ {c} /\ \A k \in DOMAIN db.categories \ {c} : cats[k] = db.categories[k]
  BY DEF Drop
<1>6. db' = [db EXCEPT !.categories = cats]
  BY DEF DeleteCategory
<1> HIDE DEF cats
<1>7. db' \in Database
  BY <1>1, <1>4, <1>6 DEF Database
<1>8. /\ db'.categories = cats /\ db'.serial = db.serial /\ db'.parents = db.parents /\ db'.variants = db.variants
      /\ db'.listings = db.listings /\ db'.search = db.search /\ db'.observations = db.observations
      /\ db'.stores = db.stores /\ db'.receipts = db.receipts /\ db'.items = db.items /\ db'.linked = db.linked
  BY <1>1, <1>6 DEF Database
<1>9. ParentsAgree(db'.parents, db'.categories)
  <2>1. \A p \in DOMAIN db.parents : db.parents[p].category # c
    BY DEF DeleteCategory, CategoryCanDelete
  <2>2. ParentsAgree(db.parents, db.categories)
    BY DEF RecordsInv, Agrees
  <2>3. \A p \in DOMAIN db.parents : db.parents[p].category \in DOMAIN cats \cup {NoId}
    BY <1>5, <2>1, <2>2 DEF ParentsAgree
  <2>4. \A p \in DOMAIN db.parents : LabelOf(cats, db.parents[p].category) = LabelOf(db.categories, db.parents[p].category)
    BY <1>5, <2>3 DEF LabelOf
  <2> QED
    BY <1>8, <2>2, <2>3, <2>4 DEF ParentsAgree
<1>10. ItemsAgree(db'.items, db'.receipts, db'.variants, db'.categories)
  BY <1>5, <1>8 DEF RecordsInv, Agrees, ItemsAgree, DeleteCategory
<1>11. Agrees(db', NoId)
  BY <1>3, <1>7, <1>8, <1>9, <1>10 DEF RecordsInv, Agrees
<1> QED
  BY <1>5, <1>8, <1>11 DEF RecordsInv, Given

\* A proposal may be above others of the same answer: what is done so far leads from the
\* references to categories, and touches neither receipts nor prices.
Materializes(s, d) ==
  /\ s = [d |-> s.d, done |-> s.done]
  /\ Agrees(s.d, NoId) /\ Given(s.d, s.d.serial)
  /\ DOMAIN s.done \subseteq Int /\ \A ref \in DOMAIN s.done : s.done[ref] \in DOMAIN s.d.categories
  /\ s.d.items = d.items /\ s.d.observations = d.observations /\ s.d.listings = d.listings

Proposable(p) == p \in [ref : Int, name : CategoryNames, parent : Int] /\ p.parent <= NoId

LEMMA ProposedKeeps ==
  ASSUME NEW s, NEW d, Materializes(s, d), NEW p, Proposable(p)
  PROVE  Materializes(Proposed(s, p), d)
<1> DEFINE same == Named(s.d, p.name)
           above == IF p.parent \in DOMAIN s.done THEN s.done[p.parent] ELSE p.parent
           id == FreshId(s.d)
           row == [name |-> p.name, parent |-> above]
           e == [s.d EXCEPT !.categories = Put(@, s.d.serial + 1, row), !.serial = s.d.serial + 1]
<1>1. CASE p.ref \in DOMAIN s.done
  <2>1. Proposed(s, p) = s
    BY <1>1 DEF Proposed
  <2> QED
    BY <2>1
<1>2. CASE p.ref \notin DOMAIN s.done /\ same # {}
  <2> DEFINE c == CHOOSE k \in same : TRUE
             t == [s EXCEPT !.done = Put(@, p.ref, c)]
  <2>1. Proposed(s, p) = t
    BY <1>2 DEF Proposed
  <2>2. c \in DOMAIN s.d.categories
    BY <1>2 DEF Named
  <2> HIDE DEF c
  <2>3. t = [d |-> s.d, done |-> Put(s.done, p.ref, c)]
    BY DEF Materializes
  <2>4. t.d = s.d /\ t.done = Put(s.done, p.ref, c)
    BY <2>3
  <2>5. DOMAIN t.done \subseteq Int /\ \A ref \in DOMAIN t.done : t.done[ref] \in DOMAIN t.d.categories
    BY <2>2, <2>4 DEF Materializes, Proposable, Put
  <2> HIDE DEF t
  <2>6. Materializes(t, d)
    BY <2>3, <2>4, <2>5 DEF Materializes
  <2> QED
    BY <2>1, <2>6
<1>3. CASE p.ref \notin DOMAIN s.done /\ same = {} /\ ~ParentExists(s.d, above)
  <2>1. Proposed(s, p) = s
    BY <1>3 DEF Proposed
  <2> QED
    BY <2>1
<1>4. CASE p.ref \notin DOMAIN s.done /\ same = {} /\ ParentExists(s.d, above)
  <2> DEFINE t == [d |-> e, done |-> Put(s.done, p.ref, s.d.serial + 1)]
  <2>1. Proposed(s, p) = t
    BY <1>4 DEF Proposed, FreshId
  <2>2. Agrees(s.d, NoId) /\ Given(s.d, s.d.serial) /\ s.d \in Database
    BY DEF Materializes, Agrees
  <2>3. row \in Category /\ row.parent \in DOMAIN s.d.categories \cup {NoId}
    <3>1. DOMAIN s.d.categories \subseteq Nat
      BY <2>2, FieldsOf, TableIs
    <3>2. above \in DOMAIN s.d.categories \cup {NoId}
      BY <1>4 DEF ParentExists
    <3> HIDE DEF above
    <3> QED
      BY <3>1, <3>2 DEF Category, Proposable, NoId
  <2>4. \A c \in DOMAIN s.d.categories : s.d.categories[c].name # row.name
    BY <1>4 DEF Named
  <2> HIDE DEF row, above
  <2>5. /\ Agrees(e, NoId) /\ Given(e, e.serial) /\ e.serial = s.d.serial + 1
        /\ DOMAIN e.categories = DOMAIN s.d.categories \cup {s.d.serial + 1}
        /\ e.items = s.d.items /\ e.observations = s.d.observations /\ e.listings = s.d.listings
    BY <2>2, <2>3, <2>4, CategoryAdded
  <2> HIDE DEF e
  <2>6. t.d = e /\ t.done = Put(s.done, p.ref, s.d.serial + 1) /\ t = [d |-> t.d, done |-> t.done]
    OBVIOUS
  <2>7. DOMAIN t.done \subseteq Int /\ \A ref \in DOMAIN t.done : t.done[ref] \in DOMAIN t.d.categories
    BY <2>5, <2>6 DEF Materializes, Proposable, Put
  <2> HIDE DEF t
  <2>8. Materializes(t, d)
    BY <2>5, <2>6, <2>7 DEF Materializes
  <2> QED
    BY <2>1, <2>8 DEF e
<1> QED
  BY <1>1, <1>2, <1>3, <1>4

\* The states of a round, and those after each of the rounds.
InRound(n, s, proposals, g) ==
  g = [k \in 0..n |-> IF k = 0 THEN s ELSE Proposed(g[k - 1], proposals[Len(proposals) + 1 - k])]
AfterRounds(n, s, proposals, g) == g = [k \in 0..n |-> IF k = 0 THEN s ELSE Round(g[k - 1], proposals)]

LEMMA RoundExists == ASSUME NEW s, NEW proposals PROVE \A n \in Nat : \E g : InRound(n, s, proposals, g)
<1> DEFINE S == {n \in Nat : \E g : InRound(n, s, proposals, g)}
<1>1. 0 \in S
  <2>1. InRound(0, s, proposals, [k \in 0..0 |-> s])
    BY DEF InRound
  <2> QED
    BY <2>1
<1>2. ASSUME NEW n \in Nat, n \in S PROVE n + 1 \in S
  <2>1. PICK g : InRound(n, s, proposals, g)
    BY <1>2
  <2> DEFINE h == [k \in 0..n + 1 |-> IF k = n + 1 THEN Proposed(g[n], proposals[Len(proposals) + 1 - (n + 1)]) ELSE g[k]]
  <2>2. InRound(n + 1, s, proposals, h)
    BY <2>1 DEF InRound
  <2> QED
    BY <2>2
<1> HIDE DEF S
<1>3. \A n \in Nat : n \in S
  BY <1>1, <1>2, SetInduction
<1> QED
  BY <1>3 DEF S

LEMMA RoundsExist == ASSUME NEW s, NEW proposals PROVE \A n \in Nat : \E g : AfterRounds(n, s, proposals, g)
<1> DEFINE S == {n \in Nat : \E g : AfterRounds(n, s, proposals, g)}
<1>1. 0 \in S
  <2>1. AfterRounds(0, s, proposals, [k \in 0..0 |-> s])
    BY DEF AfterRounds
  <2> QED
    BY <2>1
<1>2. ASSUME NEW n \in Nat, n \in S PROVE n + 1 \in S
  <2>1. PICK g : AfterRounds(n, s, proposals, g)
    BY <1>2
  <2> DEFINE h == [k \in 0..n + 1 |-> IF k = n + 1 THEN Round(g[n], proposals) ELSE g[k]]
  <2>2. AfterRounds(n + 1, s, proposals, h)
    BY <2>1 DEF AfterRounds
  <2> QED
    BY <2>2
<1> HIDE DEF S
<1>3. \A n \in Nat : n \in S
  BY <1>1, <1>2, SetInduction
<1> QED
  BY <1>3 DEF S

LEMMA RoundKeeps ==
  ASSUME NEW s, NEW d, Materializes(s, d),
         NEW proposals, Len(proposals) \in Nat, \A n \in 1..Len(proposals) : Proposable(proposals[n])
  PROVE  Materializes(Round(s, proposals), d)
<1> DEFINE m == Len(proposals)
           f == CHOOSE g : g = [k \in 0..m |-> IF k = 0 THEN s ELSE Proposed(g[k - 1], proposals[m + 1 - k])]
<1>1. InRound(m, s, proposals, f)
  <2>1. \E g : InRound(m, s, proposals, g)
    BY RoundExists
  <2> QED
    BY <2>1, Zenon DEF InRound
<1>2. Round(s, proposals) = f[m]
  BY DEF Round
<1> HIDE DEF f
<1>3. f[0] = s
  BY <1>1 DEF InRound
<1>4. ASSUME NEW k \in Nat, k + 1 <= m PROVE f[k + 1] = Proposed(f[k], proposals[m - k]) /\ m - k \in 1..m
  <2>1. k + 1 \in 0..m /\ k + 1 # 0 /\ (k + 1) - 1 = k /\ m + 1 - (k + 1) = m - k /\ m - k \in 1..m
    BY <1>4
  <2> QED
    BY <1>1, <2>1 DEF InRound
<1> DEFINE S == {k \in Nat : k <= m => Materializes(f[k], d)}
<1>5. 0 \in S
  BY <1>3
<1>6. ASSUME NEW k \in Nat, k \in S PROVE k + 1 \in S
  <2>1. ASSUME k + 1 <= m PROVE Materializes(f[k + 1], d)
    <3>1. Materializes(f[k], d)
      BY <1>6, <2>1
    <3>2. f[k + 1] = Proposed(f[k], proposals[m - k]) /\ Proposable(proposals[m - k])
      BY <1>4, <2>1
    <3> QED
      BY <3>1, <3>2, ProposedKeeps
  <2> QED
    BY <2>1
<1> HIDE DEF S
<1>7. \A k \in Nat : k \in S
  BY <1>5, <1>6, SetInduction
<1>8. Materializes(f[m], d)
  BY <1>7 DEF S
<1> QED
  BY <1>2, <1>8

LEMMA MaterializedKeeps ==
  ASSUME NEW d, Agrees(d, NoId), Given(d, d.serial),
         NEW proposals, Len(proposals) \in Nat, \A n \in 1..Len(proposals) : Proposable(proposals[n])
  PROVE  Materializes(Materialized(d, proposals), d)
<1> DEFINE m == Len(proposals)
           s == [d |-> d, done |-> EmptyTable]
           f == CHOOSE g : g = [n \in 0..m |-> IF n = 0 THEN s ELSE Round(g[n - 1], proposals)]
<1>1. AfterRounds(m, s, proposals, f)
  BY RoundsExist DEF AfterRounds
<1>2. Materialized(d, proposals) = f[m]
  BY DEF Materialized
<1>3. Materializes(s, d)
  BY DEF Materializes, EmptyTable
<1> HIDE DEF f, s
<1>4. f[0] = s
  BY <1>1 DEF AfterRounds
<1>5. ASSUME NEW k \in Nat, k + 1 <= m PROVE f[k + 1] = Round(f[k], proposals)
  <2>1. k + 1 \in 0..m /\ k + 1 # 0 /\ (k + 1) - 1 = k
    BY <1>5
  <2> QED
    BY <1>1, <2>1 DEF AfterRounds
<1> DEFINE S == {k \in Nat : k <= m => Materializes(f[k], d)}
<1>6. 0 \in S
  BY <1>3, <1>4
<1>7. ASSUME NEW k \in Nat, k \in S PROVE k + 1 \in S
  <2>1. ASSUME k + 1 <= m PROVE Materializes(f[k + 1], d)
    <3>1. Materializes(f[k], d)
      BY <1>7, <2>1
    <3>2. f[k + 1] = Round(f[k], proposals)
      BY <1>5, <2>1
    <3> QED
      BY <3>1, <3>2, RoundKeeps
  <2> QED
    BY <2>1
<1> HIDE DEF S
<1>8. \A k \in Nat : k \in S
  BY <1>6, <1>7, SetInduction
<1>9. Materializes(f[m], d)
  BY <1>8 DEF S
<1> QED
  BY <1>2, <1>9

LEMMA MaterializeCategoriesKeeps ==
  ASSUME RecordsInv, NEW proposals \in Proposals, MaterializeCategories(proposals)
  PROVE  /\ Agrees(db', NoId) /\ Given(db', db'.serial)
         /\ db'.items = db.items /\ db'.observations = db.observations /\ db'.listings = db.listings
<1>1. proposals \in Seq([ref : Int, name : CategoryNames, parent : Int])
      /\ \A n \in DOMAIN proposals : proposals[n].parent <= NoId
  BY TicketsAssumption
<1>2. Len(proposals) \in Nat /\ \A n \in 1..Len(proposals) : Proposable(proposals[n])
  <2>1. Len(proposals) \in Nat /\ DOMAIN proposals = 1..Len(proposals)
    BY <1>1
  <2> DEFINE R == [ref : Int, name : CategoryNames, parent : Int]
  <2>2. \A n \in 1..Len(proposals) : proposals[n] \in R
    <3>1. proposals \in Seq(R)
      BY <1>1
    <3> HIDE DEF R
    <3> QED
      BY <3>1
  <2> QED
    BY <1>1, <2>1, <2>2 DEF Proposable
<1>3. Materializes(Materialized(db, proposals), db)
  BY <1>2, MaterializedKeeps DEF RecordsInv
<1>4. db' = Materialized(db, proposals).d
  BY DEF MaterializeCategories
<1> QED
  BY <1>3, <1>4 DEF Materializes

-------------------------------------------------------------------------------
\* Operations on products.

\* Products and the index have changed only.
OnlyProducts(d, e) ==
  /\ e.categories = d.categories /\ e.listings = d.listings /\ e.observations = d.observations
  /\ e.stores = d.stores /\ e.receipts = d.receipts /\ e.items = d.items
  /\ e.linked = d.linked /\ e.serial = d.serial

LEMMA PutParentKeeps ==
  ASSUME NEW d, NEW moved, Agrees(d, moved), NEW n \in Nat, Given(d, n),
         NEW id \in 1..n, NEW row \in Parent,
         row.category \in DOMAIN d.categories \cup {NoId}, row.label = LabelOf(d.categories, row.category)
  PROVE  LET e == [d EXCEPT !.parents = Put(@, id, row)]
         IN /\ Agrees(e, moved) /\ Given(e, n) /\ OnlyProducts(d, e) /\ e.variants = d.variants
            /\ DOMAIN e.parents = DOMAIN d.parents \cup {id}
<1> DEFINE parents == Put(d.parents, id, row)
           e == [d EXCEPT !.parents = parents]
<1>1. d \in Database /\ id \in Nat
  BY DEF Agrees
<1>2. parents \in Table(Parent)
  BY <1>1, FieldsOf, PutIs
<1>3. DOMAIN parents = DOMAIN d.parents \cup {id} /\ parents[id] = row
      /\ \A k \in DOMAIN d.parents : k # id => parents[k] = d.parents[k]
  BY DEF Put
<1> HIDE DEF parents
<1>4. e \in Database
  BY <1>1, <1>2 DEF Database
<1>5. OnlyProducts(d, e) /\ e.parents = parents /\ e.variants = d.variants /\ e.search = d.search
  BY <1>1 DEF Database, OnlyProducts
<1> HIDE DEF e
<1>6. ParentsAgree(e.parents, e.categories)
  <2>1. ParentsAgree(d.parents, d.categories)
    BY DEF Agrees
  <2> QED
    BY <1>3, <1>5, <2>1 DEF ParentsAgree, OnlyProducts
<1>7. VariantsAgree(e.variants, e.parents)
  BY <1>3, <1>5 DEF Agrees, VariantsAgree
<1>8. Agrees(e, moved)
  BY <1>4, <1>5, <1>6, <1>7 DEF Agrees, OnlyProducts
<1>9. Given(e, n)
  BY <1>3, <1>5 DEF Given, OnlyProducts
<1> QED
  BY <1>3, <1>5, <1>8, <1>9 DEF e, parents

LEMMA WithParentKeeps ==
  ASSUME NEW d, NEW moved, Agrees(d, moved), NEW n \in Nat, Given(d, n),
         NEW id \in 1..n, NEW name \in Titles, NEW category \in DOMAIN d.categories \cup {NoId}
  PROVE  LET e == WithParent(d, id, name, category)
         IN /\ Agrees(e, moved) /\ Given(e, n) /\ OnlyProducts(d, e) /\ e.variants = d.variants
            /\ DOMAIN e.parents = DOMAIN d.parents \cup {id}
<1> DEFINE row == [name |-> name, category |-> category, label |-> LabelOf(d.categories, category)]
<1>1. WithParent(d, id, name, category) = [d EXCEPT !.parents = Put(@, id, row)]
  BY DEF WithParent, LabelOf
<1>2. category \in Nat /\ LabelOf(d.categories, category) \in CategoryNames \cup {UNKNOWN_CATEGORY_NAME, ""}
  <2>1. d.categories \in Table(Category)
    BY FieldsOf DEF Agrees
  <2>2. DOMAIN d.categories \subseteq Nat /\ d.categories \in [DOMAIN d.categories -> Category]
    BY <2>1, TableIs
  <2>3. CASE category = NoId
    BY <2>3 DEF LabelOf, NoId
  <2>4. CASE category \in DOMAIN d.categories /\ category # NoId
    <3>1. d.categories[category] \in Category
      BY <2>2, <2>4
    <3> QED
      BY <2>2, <2>4, <3>1 DEF LabelOf, Category
  <2> QED
    BY <2>3, <2>4
<1>3. row \in Parent /\ row.category = category /\ row.label = LabelOf(d.categories, category)
  BY <1>2 DEF Parent
<1> HIDE DEF row
<1> QED
  BY <1>1, <1>3, PutParentKeeps

LEMMA WithProductKeeps ==
  ASSUME NEW d, NEW moved, Agrees(d, moved), NEW n \in Nat, Given(d, n),
         NEW id \in 1..n, NEW parent \in DOMAIN d.parents, NEW name \in Titles, NEW aliases \in SUBSET Titles
  PROVE  LET e == WithProduct(d, id, parent, name, aliases)
         IN /\ Agrees(e, moved) /\ Given(e, n) /\ OnlyProducts(d, e) /\ e.parents = d.parents
            /\ DOMAIN e.variants = DOMAIN d.variants \cup {id}
<1> DEFINE row == [parent |-> parent, name |-> name, aliases |-> aliases]
           variants == Put(d.variants, id, row)
           words == {d.parents[parent].name, name} \cup aliases
           search == Put(d.search, id, words)
           e == [d EXCEPT !.variants = variants, !.search = search]
<1>1. d \in Database /\ id \in Nat
  BY DEF Agrees
<1>2. d.parents \in Table(Parent)
  BY <1>1, FieldsOf
<1>3. parent \in Nat /\ d.parents[parent].name \in Titles
  <2>1. parent \in Nat /\ d.parents[parent] \in Parent
    BY <1>2, TableIs
  <2> QED
    BY <2>1 DEF Parent
<1>4. row \in Variant
  BY <1>3 DEF Variant
<1>5. words \in SUBSET Titles
  BY <1>3
<1>6. variants \in Table(Variant) /\ search \in Table(SUBSET Titles)
  <2> HIDE DEF row, words
  <2>1. d.variants \in Table(Variant) /\ d.search \in Table(SUBSET Titles)
    BY <1>1, FieldsOf
  <2> QED
    BY <1>1, <1>4, <1>5, <2>1, PutIs
<1>7. DOMAIN variants = DOMAIN d.variants \cup {id} /\ variants[id] = row
      /\ \A k \in DOMAIN d.variants : k # id => variants[k] = d.variants[k]
  BY DEF Put
<1>8. DOMAIN search = DOMAIN d.search \cup {id} /\ search[id] = words
      /\ \A k \in DOMAIN d.search : k # id => search[k] = d.search[k]
  BY DEF Put
<1>9. WithProduct(d, id, parent, name, aliases) = e
  <2> DEFINE f == [d EXCEPT !.variants = variants]
  <2>1. WithProduct(d, id, parent, name, aliases) = Refreshed(f, id)
    BY DEF WithProduct
  <2>2. f.parents = d.parents /\ f.variants = variants /\ f.search = d.search
    BY <1>1 DEF Database
  <2>3. f.variants[id] = row
    BY <1>7, <2>2
  <2>4. Refreshed(f, id) = [f EXCEPT !.search = search]
    <3>1. f.variants[id].parent = parent /\ f.variants[id].name = name /\ f.variants[id].aliases = aliases
      BY <2>3
    <3> HIDE DEF f, row
    <3>2. {f.parents[f.variants[id].parent].name, f.variants[id].name} \cup f.variants[id].aliases = words
      BY <2>2, <3>1
    <3> HIDE DEF words
    <3>3. Refreshed(f, id) = [f EXCEPT !.search = Put(f.search, id, words)]
      BY <3>2 DEF Refreshed
    <3> QED
      BY <2>2, <3>3
  <2>5. [f EXCEPT !.search = search] = e
    BY <1>1 DEF Database
  <2> QED
    BY <2>1, <2>4, <2>5
<1> HIDE DEF variants, search
<1>10. e \in Database
  BY <1>1, <1>6 DEF Database
<1>11. OnlyProducts(d, e) /\ e.parents = d.parents /\ e.variants = variants /\ e.search = search
  BY <1>1 DEF Database, OnlyProducts
<1> HIDE DEF e
<1>12. VariantsAgree(e.variants, e.parents)
  BY <1>7, <1>11 DEF Agrees, VariantsAgree
<1>13. SearchAgrees(e.search, e.variants)
  BY <1>7, <1>8, <1>11 DEF Agrees, SearchAgrees
<1>14. ListingsAgree(e.listings, e.variants)
  BY <1>7, <1>11 DEF Agrees, ListingsAgree, OnlyProducts
<1>15. ItemsAgree(e.items, e.receipts, e.variants, e.categories)
  BY <1>7, <1>11 DEF Agrees, ItemsAgree, OnlyProducts
<1>16. LinksAgree(e.linked, e.variants, e.stores)
  BY <1>7, <1>11 DEF Agrees, LinksAgree, OnlyProducts
<1>17. Agrees(e, moved)
  BY <1>10, <1>11, <1>12, <1>13, <1>14, <1>15, <1>16 DEF Agrees, OnlyProducts
<1>18. Given(e, n)
  BY <1>7, <1>11 DEF Given, OnlyProducts
<1> QED
  BY <1>7, <1>9, <1>11, <1>17, <1>18

-------------------------------------------------------------------------------
\* Listings and observations.

\* The listing of a variant at a retailer is there, and those that were there are as they were.
LEMMA WithListingKeeps ==
  ASSUME NEW d, NEW moved, Agrees(d, moved), NEW n \in Nat, Given(d, n),
         NEW id \in 1..n, id \notin DOMAIN d.listings,
         NEW r \in Retailers, NEW v \in DOMAIN d.variants, NEW title \in Titles
  PROVE  LET e == WithListing(d, id, r, v, title)
         IN /\ Agrees(e, moved) /\ Given(e, n)
            /\ e = [d EXCEPT !.listings = e.listings]
            /\ ListingsOf(e, r, v) # {}
            /\ \A l \in DOMAIN d.listings : l \in DOMAIN e.listings /\ e.listings[l] = d.listings[l]
<1>1. CASE ListingsOf(d, r, v) # {}
  <2>1. WithListing(d, id, r, v, title) = d
    BY <1>1 DEF WithListing
  <2>2. d = [d EXCEPT !.listings = d.listings]
    BY DEF Agrees, Database
  <2> QED
    BY <1>1, <2>1, <2>2
<1>2. CASE ListingsOf(d, r, v) = {}
  <2> DEFINE row == [retailer |-> r, variant |-> v, title |-> title]
             listings == Put(d.listings, id, row)
             e == [d EXCEPT !.listings = listings]
  <2>1. d \in Database /\ id \in Nat
    BY DEF Agrees
  <2>2. row \in Listing /\ row.retailer = r /\ row.variant = v
    BY <2>1, FieldsOf, TableIs DEF Listing
  <2>3. listings \in Table(Listing)
    <3> HIDE DEF row
    <3> QED
      BY <2>1, <2>2, FieldsOf, PutIs
  <2>4. DOMAIN listings = DOMAIN d.listings \cup {id} /\ listings[id] = row
        /\ \A k \in DOMAIN d.listings : listings[k] = d.listings[k]
    BY DEF Put
  <2>5. WithListing(d, id, r, v, title) = e
    BY <1>2 DEF WithListing
  <2> HIDE DEF listings, row
  <2>6. e \in Database
    BY <2>1, <2>3 DEF Database
  <2>7. /\ e.categories = d.categories /\ e.parents = d.parents /\ e.variants = d.variants /\ e.search = d.search
        /\ e.listings = listings /\ e.observations = d.observations /\ e.stores = d.stores
        /\ e.receipts = d.receipts /\ e.items = d.items /\ e.linked = d.linked /\ e.serial = d.serial
    BY <2>1 DEF Database
  <2>8. e = [d EXCEPT !.listings = e.listings]
    BY <2>7
  <2> HIDE DEF e
  <2>9. ListingsAgree(e.listings, e.variants)
    <3>1. \A l \in DOMAIN d.listings : ~(d.listings[l].retailer = r /\ d.listings[l].variant = v)
      BY <1>2 DEF ListingsOf
    <3> QED
      BY <2>2, <2>4, <2>7, <3>1 DEF Agrees, ListingsAgree
  <2>10. EvidenceAgrees(e.observations, e.listings, e.stores, e.items, e.receipts, moved)
    <3>1. EvidenceAgrees(d.observations, d.listings, d.stores, d.items, d.receipts, moved)
      BY DEF Agrees
    <3>2. ASSUME NEW o \in DOMAIN d.observations
          PROVE  Evidenced(d.observations[o], listings, d.stores, d.items, d.receipts, moved)
      BY <2>4, <3>1 DEF EvidenceAgrees, Evidenced
    <3> QED
      BY <2>7, <3>2 DEF EvidenceAgrees
  <2>11. Agrees(e, moved)
    BY <2>6, <2>7, <2>9, <2>10 DEF Agrees
  <2>12. Given(e, n)
    BY <2>4, <2>7 DEF Given
  <2>13. id \in ListingsOf(e, r, v)
    BY <2>2, <2>4, <2>7 DEF ListingsOf
  <2> QED
    BY <2>4, <2>5, <2>7, <2>8, <2>11, <2>12, <2>13
<1> QED
  BY <1>1, <1>2

\* The first of a set of ids is one of them.
LEMMA FirstOfIs == ASSUME NEW S \in SUBSET Nat, S # {} PROVE FirstOf(S) \in S
<1>1. \E x \in S : \A y \in S : x <= y
  BY NatLeast
<1> QED
  BY <1>1 DEF FirstOf

\* What is observed: a price of a listing, at a store, and the line it stands on.
Observes(d, n, id, r, v, store, price, item) ==
  /\ n \in Nat /\ id \in 1..n /\ id \notin DOMAIN d.observations
  /\ r \in Retailers /\ ListingsOf(d, r, v) # {}
  /\ store \in DOMAIN d.stores \cup {NoId} /\ price \in Prices /\ item \in DOMAIN d.items \cup {NoId}
  /\ item # NoId => /\ d.items[item].variant = v
                    /\ d.receipts[d.items[item].receipt].retailer = r
                    /\ d.receipts[d.items[item].receipt].store = store

LEMMA WithObservationKeeps ==
  ASSUME NEW d, NEW moved, Agrees(d, moved), NEW n, Given(d, n),
         NEW id, NEW r, NEW v, NEW store, NEW price, NEW item, Observes(d, n, id, r, v, store, price, item)
  PROVE  LET e == WithObservation(d, id, r, v, store, price, item)
         IN /\ Agrees(e, moved) /\ Given(e, n)
            /\ e = [d EXCEPT !.observations = e.observations]
            /\ DOMAIN e.observations = DOMAIN d.observations \cup {id}
            /\ e.observations[id].item = item /\ e.observations[id].price = price
            /\ \A o \in DOMAIN d.observations : e.observations[o] = d.observations[o]
<1> DEFINE l == FirstOf(ListingsOf(d, r, v))
           row == [listing |-> l, retailer |-> r, store |-> store, price |-> price, item |-> item]
           observations == Put(d.observations, id, row)
           e == [d EXCEPT !.observations = observations]
<1> USE DEF Observes
<1>1. d \in Database /\ id \in Nat
  BY DEF Agrees
<1>2. /\ DOMAIN d.listings \subseteq Nat /\ DOMAIN d.stores \subseteq Nat /\ DOMAIN d.items \subseteq Nat
  BY <1>1, FieldsOf, TableIs
<1>3. l \in DOMAIN d.listings /\ d.listings[l].retailer = r /\ d.listings[l].variant = v
  <2>1. ListingsOf(d, r, v) \in SUBSET Nat
    BY <1>2 DEF ListingsOf
  <2>2. l \in ListingsOf(d, r, v)
    BY <2>1, FirstOfIs
  <2> QED
    BY <2>2 DEF ListingsOf
<1> HIDE DEF l
<1>4. row \in Observation
  BY <1>2, <1>3 DEF Observation, NoId
<1>5. row.listing = l /\ row.retailer = r /\ row.store = store /\ row.price = price /\ row.item = item
  OBVIOUS
<1>6. WithObservation(d, id, r, v, store, price, item) = e
  BY DEF WithObservation, l
<1> HIDE DEF row
<1>7. observations \in Table(Observation)
  BY <1>1, <1>4, FieldsOf, PutIs
<1>8. DOMAIN observations = DOMAIN d.observations \cup {id} /\ observations[id] = row
      /\ \A k \in DOMAIN d.observations : observations[k] = d.observations[k]
  BY DEF Put
<1> HIDE DEF observations
<1>9. e \in Database
  BY <1>1, <1>7 DEF Database
<1>10. /\ e.categories = d.categories /\ e.parents = d.parents /\ e.variants = d.variants /\ e.search = d.search
       /\ e.listings = d.listings /\ e.observations = observations /\ e.stores = d.stores
       /\ e.receipts = d.receipts /\ e.items = d.items /\ e.linked = d.linked /\ e.serial = d.serial
  BY <1>1 DEF Database
<1>11. e = [d EXCEPT !.observations = e.observations]
  BY <1>10
<1> HIDE DEF e
<1>12. EvidenceAgrees(e.observations, e.listings, e.stores, e.items, e.receipts, moved)
  <2>1. EvidenceAgrees(d.observations, d.listings, d.stores, d.items, d.receipts, moved)
    BY DEF Agrees
  <2> QED
    <3>1. ASSUME NEW o \in DOMAIN d.observations
          PROVE  Evidenced(e.observations[o], e.listings, e.stores, e.items, e.receipts, moved)
      BY <1>8, <1>10, <2>1 DEF EvidenceAgrees
    <3>2. Evidenced(row, d.listings, d.stores, d.items, d.receipts, moved)
      BY <1>3, <1>5 DEF Evidenced
    <3> QED
      BY <1>8, <1>10, <3>1, <3>2 DEF EvidenceAgrees
<1>13. Agrees(e, moved)
  BY <1>9, <1>10, <1>12 DEF Agrees
<1>14. Given(e, n)
  BY <1>8, <1>10 DEF Given
<1> QED
  BY <1>5, <1>6, <1>8, <1>10, <1>11, <1>13, <1>14

-------------------------------------------------------------------------------
\* What a step keeps.

\* The ids that are given are those of the rows, and one more is of none.
LEMMA NextId ==
  ASSUME NEW d, NEW n \in Nat, Given(d, n)
  PROVE  /\ Given(d, n + 1) /\ n + 1 \in 1..n + 1 /\ n + 1 # NoId
         /\ n + 1 \notin DOMAIN d.parents /\ n + 1 \notin DOMAIN d.variants /\ n + 1 \notin DOMAIN d.listings
         /\ n + 1 \notin DOMAIN d.observations /\ n + 1 \notin DOMAIN d.stores
         /\ n + 1 \notin DOMAIN d.receipts /\ n + 1 \notin DOMAIN d.items
BY DEF Given, NoId

\* The same tables, with n as the last id.
SameTables(d, e) ==
  /\ e.categories = d.categories /\ e.parents = d.parents /\ e.variants = d.variants
  /\ e.listings = d.listings /\ e.search = d.search /\ e.observations = d.observations
  /\ e.stores = d.stores /\ e.receipts = d.receipts /\ e.items = d.items /\ e.linked = d.linked

LEMMA SerialKeeps ==
  ASSUME NEW d, NEW moved, Agrees(d, moved), NEW n \in Nat, Given(d, n)
  PROVE  LET e == [d EXCEPT !.serial = n]
         IN Agrees(e, moved) /\ Given(e, e.serial) /\ SameTables(d, e) /\ e.serial = n
<1> DEFINE e == [d EXCEPT !.serial = n]
<1>1. d \in Database
  BY DEF Agrees
<1>2. e \in Database /\ SameTables(d, e) /\ e.serial = n
  BY <1>1 DEF Database, SameTables
<1> HIDE DEF e
<1>3. Agrees(e, moved) /\ Given(e, e.serial)
  BY <1>2 DEF Agrees, Given, SameTables
<1> QED
  BY <1>2, <1>3 DEF e

\* What a step does to lines and prices, from d to e.
PricesKept(d, e) ==
  /\ \A i \in DOMAIN e.items \ DOMAIN d.items : e.items[i].status = "confirmed" =>
       \E o \in DOMAIN e.observations : ObservationsOf(e, {i}) = {o} /\ e.observations[o].price = e.items[i].price
  /\ \A o \in DOMAIN d.observations :
       LET seen == d.observations[o]
       IN /\ o \notin DOMAIN e.observations =>
               seen.item # NoId /\ d.items[seen.item].receipt \notin DOMAIN e.receipts
          /\ o \in DOMAIN e.observations =>
               /\ [e.observations[o] EXCEPT !.store = seen.store] = seen
               /\ e.listings[seen.listing].variant = d.listings[seen.listing].variant

Keeps(d, e) == Agrees(e, NoId) /\ Given(e, e.serial) /\ PricesKept(d, e)

\* Setting the store of an observation to what it is changes nothing.
LEMMA SameStore ==
  ASSUME NEW T \in Table(Observation), NEW o \in DOMAIN T
  PROVE  [T[o] EXCEPT !.store = T[o].store] = T[o]
<1>1. T[o] \in Observation
  BY TableIs
<1> QED
  BY <1>1 DEF Observation

\* A step that touches no line and no observation, and no product of a listing.
LEMMA PricesUntouched ==
  ASSUME NEW d, d \in Database, NEW e, EvidenceAgrees(d.observations, d.listings, d.stores, d.items, d.receipts, NoId),
         e.items = d.items, \A o \in DOMAIN d.observations : o \in DOMAIN e.observations /\ e.observations[o] = d.observations[o],
         \A l \in DOMAIN d.listings : e.listings[l].variant = d.listings[l].variant
  PROVE  PricesKept(d, e)
<1>1. d.observations \in Table(Observation)
  BY FieldsOf
<1>2. \A o \in DOMAIN d.observations : d.observations[o].listing \in DOMAIN d.listings
  BY DEF EvidenceAgrees, Evidenced
<1> QED
  BY <1>1, <1>2, SameStore DEF PricesKept

LEMMA CategoryStepsKeep ==
  ASSUME RecordsInv
  PROVE  /\ \A name \in CategoryNames, parent \in DOMAIN db.categories \cup {NoId} :
              GetOrCreateCategory(name, parent) => Keeps(db, db')
         /\ \A c \in DOMAIN db.categories, name \in CategoryNames \cup {UNKNOWN_CATEGORY_NAME},
               parent \in DOMAIN db.categories \cup {NoId} : UpdateCategory(c, name, parent) => Keeps(db, db')
         /\ \A c \in DOMAIN db.categories : DeleteCategory(c) => Keeps(db, db')
         /\ \A proposals \in Proposals : MaterializeCategories(proposals) => Keeps(db, db')
<1>1. db \in Database /\ EvidenceAgrees(db.observations, db.listings, db.stores, db.items, db.receipts, NoId)
  BY DEF RecordsInv, Agrees
<1>2. ASSUME NEW name \in CategoryNames, NEW parent \in DOMAIN db.categories \cup {NoId},
             GetOrCreateCategory(name, parent)
      PROVE  Keeps(db, db')
  <2>1. db'.items = db.items /\ db'.observations = db.observations /\ db'.listings = db.listings
    BY <1>1, <1>2 DEF GetOrCreateCategory, Database
  <2> QED
    BY <1>1, <1>2, <2>1, PricesUntouched, GetOrCreateCategoryKeeps DEF Keeps
<1>3. ASSUME NEW c \in DOMAIN db.categories, NEW name \in CategoryNames \cup {UNKNOWN_CATEGORY_NAME},
             NEW parent \in DOMAIN db.categories \cup {NoId}, UpdateCategory(c, name, parent)
      PROVE  Keeps(db, db')
  <2>1. db'.items = db.items /\ db'.observations = db.observations /\ db'.listings = db.listings
    BY <1>1, <1>3 DEF UpdateCategory, Database
  <2> QED
    BY <1>1, <1>3, <2>1, PricesUntouched, UpdateCategoryKeeps DEF Keeps
<1>4. ASSUME NEW c \in DOMAIN db.categories, DeleteCategory(c) PROVE Keeps(db, db')
  <2>1. db'.items = db.items /\ db'.observations = db.observations /\ db'.listings = db.listings
    BY <1>1, <1>4 DEF DeleteCategory, Database
  <2> QED
    BY <1>1, <1>4, <2>1, PricesUntouched, DeleteCategoryKeeps DEF Keeps
<1>5. ASSUME NEW proposals \in Proposals, MaterializeCategories(proposals) PROVE Keeps(db, db')
  <2>1. db'.items = db.items /\ db'.observations = db.observations /\ db'.listings = db.listings
    BY <1>5, MaterializeCategoriesKeeps
  <2> QED
    BY <1>1, <1>5, <2>1, PricesUntouched, MaterializeCategoriesKeeps DEF Keeps
<1> QED
  BY <1>2, <1>3, <1>4, <1>5

-------------------------------------------------------------------------------
\* The steps on products.

LEMMA AliasesAreTitles == ASSUME NEW aliases \in AliasSets PROVE aliases \in SUBSET Titles
BY CatalogAssumption

LEMMA CreateProductKeeps ==
  ASSUME RecordsInv, NEW parent \in DOMAIN db.parents \cup {NoId}, NEW name \in Titles,
         NEW category \in DOMAIN db.categories \cup {NoId}, NEW aliases \in AliasSets,
         CreateProduct(parent, name, category, aliases)
  PROVE  Keeps(db, db')
<1> DEFINE n == db.serial
           id == n + 1
           p == IF parent = NoId THEN id ELSE parent
           d == IF parent = NoId THEN WithParent(db, id, name, category) ELSE db
           e == WithProduct(d, id, p, name, aliases)
<1>1. db \in Database /\ Agrees(db, NoId) /\ Given(db, n) /\ n \in Nat
  BY FieldsOf DEF RecordsInv, Agrees
<1>2. id \in Nat /\ id \in 1..id /\ Given(db, id)
  BY <1>1, NextId
<1>3. db' = [e EXCEPT !.serial = id]
  BY DEF CreateProduct, FreshId
<1> HIDE DEF n, id
<1>4. Agrees(d, NoId) /\ Given(d, id) /\ OnlyProducts(db, d) /\ p \in DOMAIN d.parents
  <2>1. CASE parent = NoId
    <3>1. d = WithParent(db, id, name, category) /\ p = id
      BY <2>1
    <3> HIDE DEF d, p
    <3> QED
      BY <1>1, <1>2, <3>1, WithParentKeeps
  <2>2. CASE parent # NoId
    BY <1>1, <1>2, <2>2 DEF OnlyProducts
  <2> QED
    BY <2>1, <2>2
<1> HIDE DEF p, d
<1>5. Agrees(e, NoId) /\ Given(e, id) /\ OnlyProducts(d, e)
  BY <1>2, <1>4, AliasesAreTitles, WithProductKeeps
<1> HIDE DEF e
<1>6. Agrees(db', NoId) /\ Given(db', db'.serial) /\ SameTables(e, db')
  BY <1>2, <1>3, <1>5, SerialKeeps
<1>7. db'.items = db.items /\ db'.observations = db.observations /\ db'.listings = db.listings
  BY <1>4, <1>5, <1>6 DEF OnlyProducts, SameTables
<1> QED
  BY <1>1, <1>6, <1>7, PricesUntouched DEF Keeps, Agrees

LEMMA VariantIs ==
  ASSUME RecordsInv, NEW v \in DOMAIN db.variants
  PROVE  /\ db.variants[v].parent \in DOMAIN db.parents /\ db.variants[v].name \in Titles
         /\ db.variants[v].aliases \in SUBSET Titles /\ v \in 1..db.serial /\ db.serial \in Nat
<1>1. db \in Database
  BY DEF RecordsInv, Agrees
<1>2. db.variants \in Table(Variant) /\ db.serial \in Nat
  BY <1>1, FieldsOf
<1>3. db.variants[v] \in Variant
  BY <1>2, TableIs
<1> QED
  BY <1>2, <1>3 DEF RecordsInv, Agrees, VariantsAgree, Given, Variant

LEMMA UpdateProductKeeps ==
  ASSUME RecordsInv, NEW v \in DOMAIN db.variants, NEW canonicalName \in Titles, NEW variantName \in Titles,
         NEW category \in DOMAIN db.categories \cup {NoId}, NEW aliases \in AliasSets,
         UpdateProduct(v, canonicalName, variantName, category, aliases)
  PROVE  Keeps(db, db')
<1> DEFINE n == db.serial
           p == db.variants[v].parent
           d == WithParent(db, p, canonicalName, category)
<1>1. db \in Database /\ Agrees(db, NoId) /\ Given(db, n) /\ n \in Nat /\ v \in 1..n /\ p \in DOMAIN db.parents
  BY VariantIs DEF RecordsInv, Agrees
<1>2. p \in 1..n
  BY <1>1 DEF Given
<1>3. db' = WithProduct(d, v, p, variantName, aliases)
  BY DEF UpdateProduct
<1> HIDE DEF n, p
<1>4. Agrees(d, NoId) /\ Given(d, n) /\ OnlyProducts(db, d) /\ p \in DOMAIN d.parents
  BY <1>1, <1>2, WithParentKeeps
<1> HIDE DEF d
<1>5. Agrees(db', NoId) /\ Given(db', n) /\ OnlyProducts(d, db')
  BY <1>1, <1>3, <1>4, AliasesAreTitles, WithProductKeeps
<1>6. db'.serial = n
  BY <1>4, <1>5 DEF OnlyProducts, n
<1>7. db'.items = db.items /\ db'.observations = db.observations /\ db'.listings = db.listings
  BY <1>4, <1>5 DEF OnlyProducts
<1> QED
  BY <1>1, <1>5, <1>6, <1>7, PricesUntouched DEF Keeps, Agrees

LEMMA AssignExistingParentKeeps ==
  ASSUME RecordsInv, NEW v \in DOMAIN db.variants, NEW p \in DOMAIN db.parents, AssignExistingParent(v, p)
  PROVE  Keeps(db, db')
<1> DEFINE n == db.serial
<1>1. db \in Database /\ Agrees(db, NoId) /\ Given(db, n)
  BY DEF RecordsInv, Agrees
<1>2. n \in Nat /\ v \in 1..n /\ db.variants[v].name \in Titles /\ db.variants[v].aliases \in SUBSET Titles
  BY VariantIs
<1>3. db' = WithProduct(db, v, p, db.variants[v].name, db.variants[v].aliases)
  BY DEF AssignExistingParent
<1> HIDE DEF n
<1>4. Agrees(db', NoId) /\ Given(db', n) /\ OnlyProducts(db, db')
  BY <1>1, <1>2, <1>3, WithProductKeeps
<1>5. db'.serial = n /\ db'.items = db.items /\ db'.observations = db.observations /\ db'.listings = db.listings
  BY <1>4 DEF OnlyProducts, n
<1> QED
  BY <1>1, <1>4, <1>5, PricesUntouched DEF Keeps, Agrees

LEMMA CreateParentAndAssignKeeps ==
  ASSUME RecordsInv, NEW v \in DOMAIN db.variants, NEW name \in Titles, CreateParentAndAssign(v, name)
  PROVE  Keeps(db, db')
<1> DEFINE n == db.serial
           id == n + 1
           current == db.parents[db.variants[v].parent]
           row == [current EXCEPT !.name = name]
           d == [db EXCEPT !.parents = Put(@, id, row)]
           e == WithProduct(d, v, id, db.variants[v].name, db.variants[v].aliases)
<1>1. db \in Database /\ Agrees(db, NoId) /\ Given(db, n)
  BY DEF RecordsInv, Agrees
<1>2. /\ n \in Nat /\ v \in 1..n /\ db.variants[v].name \in Titles /\ db.variants[v].aliases \in SUBSET Titles
      /\ db.variants[v].parent \in DOMAIN db.parents
  BY VariantIs
<1>3. id \in Nat /\ id \in 1..id /\ Given(db, id) /\ v \in 1..id
  BY <1>1, <1>2, NextId
<1>4. db' = [e EXCEPT !.serial = id]
  BY DEF CreateParentAndAssign, FreshId
<1>5. row \in Parent /\ row.category \in DOMAIN db.categories \cup {NoId} /\ row.label = LabelOf(db.categories, row.category)
  <2>1. current \in Parent
    BY <1>1, <1>2, FieldsOf, TableIs
  <2>2. current.category \in DOMAIN db.categories \cup {NoId} /\ current.label = LabelOf(db.categories, current.category)
    BY <1>1, <1>2 DEF Agrees, ParentsAgree
  <2> HIDE DEF current
  <2> QED
    BY <2>1, <2>2 DEF Parent
<1> HIDE DEF n, id, row
<1>6. Agrees(d, NoId) /\ Given(d, id) /\ OnlyProducts(db, d) /\ id \in DOMAIN d.parents
  <2>1. Agrees(db, NoId) /\ id \in Nat /\ Given(db, id) /\ id \in 1..id
    BY <1>1, <1>3
  <2>2. row \in Parent /\ row.category \in DOMAIN db.categories \cup {NoId}
        /\ row.label = LabelOf(db.categories, row.category)
    BY <1>5
  <2>3. Agrees(d, NoId) /\ Given(d, id) /\ OnlyProducts(db, d) /\ DOMAIN d.parents = DOMAIN db.parents \cup {id}
    BY ONLY <2>1, <2>2, PutParentKeeps DEF d
  <2> QED
    BY <2>3
<1> HIDE DEF d
<1>7. Agrees(e, NoId) /\ Given(e, id) /\ OnlyProducts(d, e)
  BY <1>2, <1>3, <1>6, WithProductKeeps
<1> HIDE DEF e
<1>8. Agrees(db', NoId) /\ Given(db', db'.serial) /\ SameTables(e, db')
  BY <1>3, <1>4, <1>7, SerialKeeps
<1>9. db'.items = db.items /\ db'.observations = db.observations /\ db'.listings = db.listings
  BY <1>6, <1>7, <1>8 DEF OnlyProducts, SameTables
<1> QED
  BY <1>1, <1>8, <1>9, PricesUntouched DEF Keeps, Agrees

LEMMA UpsertRetailerNameKeeps ==
  ASSUME RecordsInv, NEW v \in DOMAIN db.variants, NEW r \in Retailers, NEW title \in Titles,
         UpsertRetailerName(v, r, title)
  PROVE  Keeps(db, db')
<1> DEFINE n == db.serial
           known == ListingsOf(db, r, v)
<1>1. db \in Database /\ Agrees(db, NoId) /\ Given(db, n) /\ n \in Nat /\ db.listings \in Table(Listing)
  BY FieldsOf DEF RecordsInv, Agrees
<1>2. CASE known # {}
  <2> DEFINE l == FirstOf(known)
             row == [db.listings[l] EXCEPT !.title = title]
             listings == [db.listings EXCEPT ![l] = row]
  <2>1. l \in DOMAIN db.listings
    <3>1. known \in SUBSET Nat
      BY <1>1, TableIs DEF ListingsOf
    <3>2. l \in known
      BY <1>2, <3>1, FirstOfIs
    <3> QED
      BY <3>2 DEF ListingsOf
  <2>2. db' = [db EXCEPT !.listings = listings]
    BY <1>1, <1>2 DEF UpsertRetailerName, Database
  <2> HIDE DEF l, known
  <2>3. row \in Listing /\ row.retailer = db.listings[l].retailer /\ row.variant = db.listings[l].variant
    <3>1. db.listings[l] \in Listing
      BY <1>1, <2>1, TableIs
    <3> QED
      BY <3>1 DEF Listing
  <2> HIDE DEF row
  <2>4. listings \in Table(Listing) /\ DOMAIN listings = DOMAIN db.listings
        /\ \A k \in DOMAIN db.listings :
             listings[k].retailer = db.listings[k].retailer /\ listings[k].variant = db.listings[k].variant
    <3>1. DOMAIN db.listings \subseteq Nat /\ db.listings \in [DOMAIN db.listings -> Listing]
      BY <1>1, TableIs
    <3>2. listings \in [DOMAIN db.listings -> Listing] /\ DOMAIN listings = DOMAIN db.listings
      BY <2>3, <3>1
    <3>3. listings \in Table(Listing)
      BY <3>1, <3>2, TableIs
    <3>4. \A k \in DOMAIN db.listings : listings[k] = IF k = l THEN row ELSE db.listings[k]
      BY <3>1
    <3> HIDE DEF listings
    <3> QED
      BY <2>3, <3>2, <3>3, <3>4
  <2> HIDE DEF listings
  <2>5. db' \in Database
    BY <1>1, <2>2, <2>4 DEF Database
  <2>6. /\ db'.categories = db.categories /\ db'.parents = db.parents /\ db'.variants = db.variants
        /\ db'.search = db.search /\ db'.listings = listings /\ db'.observations = db.observations
        /\ db'.stores = db.stores /\ db'.receipts = db.receipts /\ db'.items = db.items
        /\ db'.linked = db.linked /\ db'.serial = db.serial
    BY <1>1, <2>2 DEF Database
  <2>7. ListingsAgree(db'.listings, db'.variants)
    <3>1. ListingsAgree(db.listings, db.variants)
      BY <1>1 DEF Agrees
    <3> QED
      BY <2>4, <2>6, <3>1 DEF ListingsAgree
  <2>8. EvidenceAgrees(db'.observations, db'.listings, db'.stores, db'.items, db'.receipts, NoId)
    <3>1. EvidenceAgrees(db.observations, db.listings, db.stores, db.items, db.receipts, NoId)
      BY <1>1 DEF Agrees
    <3>2. ASSUME NEW o \in DOMAIN db.observations
          PROVE  Evidenced(db.observations[o], listings, db.stores, db.items, db.receipts, NoId)
      BY <2>4, <3>1 DEF EvidenceAgrees, Evidenced
    <3> QED
      BY <2>6, <3>2 DEF EvidenceAgrees
  <2>9. Agrees(db', NoId)
    BY <1>1, <2>5, <2>6, <2>7, <2>8 DEF Agrees
  <2>10. Given(db', db'.serial)
    BY <1>1, <2>4, <2>6 DEF Given
  <2> QED
    BY <1>1, <2>4, <2>6, <2>9, <2>10, PricesUntouched DEF Keeps, Agrees
<1>3. CASE known = {}
  <2> DEFINE id == n + 1
             e == WithListing(db, id, r, v, title)
  <2>1. id \in Nat /\ id \in 1..id /\ Given(db, id) /\ id \notin DOMAIN db.listings
    BY <1>1, NextId
  <2>2. db' = [e EXCEPT !.serial = id]
    BY <1>3 DEF UpsertRetailerName, FreshId
  <2> HIDE DEF id, n
  <2>3. /\ Agrees(e, NoId) /\ Given(e, id) /\ e = [db EXCEPT !.listings = e.listings]
        /\ \A l \in DOMAIN db.listings : l \in DOMAIN e.listings /\ e.listings[l] = db.listings[l]
    BY <1>1, <2>1, WithListingKeeps
  <2> HIDE DEF e
  <2>4. Agrees(db', NoId) /\ Given(db', db'.serial) /\ SameTables(e, db')
    BY <2>1, <2>2, <2>3, SerialKeeps
  <2>5. e.items = db.items /\ e.observations = db.observations
    BY <1>1, <2>3 DEF Database
  <2> QED
    BY <1>1, <2>3, <2>4, <2>5, PricesUntouched DEF Keeps, Agrees, SameTables
<1> QED
  BY <1>2, <1>3

LEMMA ConfirmPriceObservationKeeps ==
  ASSUME RecordsInv, NEW v \in DOMAIN db.variants, NEW r \in Retailers,
         NEW store \in DOMAIN db.stores \cup {NoId}, NEW price \in Prices,
         ConfirmPriceObservation(v, r, store, price)
  PROVE  Keeps(db, db')
<1> DEFINE n == db.serial
           id == n + 1
           d == WithListing(db, id, r, v, db.variants[v].name)
           e == WithObservation(d, id, r, v, store, price, NoId)
<1>1. db \in Database /\ Agrees(db, NoId) /\ Given(db, n)
  BY DEF RecordsInv, Agrees
<1>2. n \in Nat /\ db.variants[v].name \in Titles
  BY VariantIs
<1>3. id \in Nat /\ id \in 1..id /\ Given(db, id) /\ id \notin DOMAIN db.listings /\ id \notin DOMAIN db.observations
  BY <1>1, <1>2, NextId
<1>4. db' = [e EXCEPT !.serial = id]
  BY DEF ConfirmPriceObservation, FreshId
<1> HIDE DEF n, id
<1>5. /\ Agrees(d, NoId) /\ Given(d, id) /\ d = [db EXCEPT !.listings = d.listings] /\ ListingsOf(d, r, v) # {}
      /\ \A l \in DOMAIN db.listings : l \in DOMAIN d.listings /\ d.listings[l] = db.listings[l]
  BY <1>1, <1>2, <1>3, WithListingKeeps
<1> HIDE DEF d
<1>6. d.observations = db.observations /\ d.stores = db.stores /\ d.items = db.items
  BY <1>1, <1>5 DEF Database
<1>7. /\ Agrees(e, NoId) /\ Given(e, id) /\ e = [d EXCEPT !.observations = e.observations]
      /\ DOMAIN e.observations = DOMAIN d.observations \cup {id}
      /\ \A o \in DOMAIN d.observations : e.observations[o] = d.observations[o]
  <2>1. Observes(d, id, id, r, v, store, price, NoId)
    BY <1>3, <1>5, <1>6 DEF Observes
  <2> QED
    BY <1>5, <2>1, WithObservationKeeps
<1> HIDE DEF e
<1>8. e.items = d.items /\ e.listings = d.listings
  <2>1. d \in Database
    BY <1>5 DEF Agrees
  <2> QED
    BY <1>7, <2>1 DEF Database
<1>9. Agrees(db', NoId) /\ Given(db', db'.serial) /\ SameTables(e, db')
  BY <1>3, <1>4, <1>7, SerialKeeps
<1> QED
  BY <1>1, <1>5, <1>6, <1>7, <1>8, <1>9, PricesUntouched DEF Keeps, Agrees, SameTables

\* Products go with their listings, and parents with their last product; none that is
\* evidence, on a line or on a list is among them.
LEMMA DeleteProductsKeeps ==
  ASSUME RecordsInv, NEW vs \in SUBSET DOMAIN db.variants, DeleteProducts(vs)
  PROVE  Keeps(db, db')
<1> DEFINE left == Drop(db.variants, vs)
           bare == {p \in {db.variants[v].parent : v \in vs} : \A v \in DOMAIN left : left[v].parent # p}
           sold == {l \in DOMAIN db.listings : db.listings[l].variant \in vs}
           parents == Drop(db.parents, bare)
           listings == Drop(db.listings, sold)
           search == Drop(db.search, vs)
<1>1. db \in Database /\ Agrees(db, NoId) /\ Given(db, db.serial)
  BY DEF RecordsInv, Agrees
<1>2. left \in Table(Variant) /\ parents \in Table(Parent) /\ listings \in Table(Listing) /\ search \in Table(SUBSET Titles)
  BY <1>1, FieldsOf, DropIs
<1>3. /\ DOMAIN left = DOMAIN db.variants \ vs /\ \A k \in DOMAIN left : left[k] = db.variants[k]
      /\ DOMAIN parents = DOMAIN db.parents \ bare /\ \A k \in DOMAIN parents : parents[k] = db.parents[k]
      /\ DOMAIN listings = DOMAIN db.listings \ sold /\ \A k \in DOMAIN listings : listings[k] = db.listings[k]
      /\ DOMAIN search = DOMAIN db.search \ vs /\ \A k \in DOMAIN search : search[k] = db.search[k]
  BY DEF Drop
<1>4. \A v \in vs : ProductCanDelete(db, v)
  BY DEF DeleteProducts
<1>5. db' = [db EXCEPT !.variants = left, !.search = search, !.listings = listings, !.parents = parents]
  BY <1>1 DEF DeleteProducts, Database
<1>6. \A v \in DOMAIN left : left[v].parent \notin bare
  OBVIOUS
<1>7. \A l \in DOMAIN db.listings : l \in sold <=> db.listings[l].variant \in vs
  OBVIOUS
<1> HIDE DEF left, parents, listings, search, bare, sold
<1>8. db' \in Database
  BY <1>1, <1>2, <1>5 DEF Database
<1>9. /\ db'.categories = db.categories /\ db'.parents = parents /\ db'.variants = left
      /\ db'.search = search /\ db'.listings = listings /\ db'.observations = db.observations
      /\ db'.stores = db.stores /\ db'.receipts = db.receipts /\ db'.items = db.items
      /\ db'.linked = db.linked /\ db'.serial = db.serial
  BY <1>1, <1>5 DEF Database
<1>10. ParentsAgree(db'.parents, db'.categories)
  BY <1>1, <1>3, <1>9 DEF Agrees, ParentsAgree
<1>11. VariantsAgree(db'.variants, db'.parents)
  BY <1>1, <1>3, <1>6, <1>9 DEF Agrees, VariantsAgree
<1>12. SearchAgrees(db'.search, db'.variants)
  BY <1>1, <1>3, <1>9 DEF Agrees, SearchAgrees
<1>13. ListingsAgree(db'.listings, db'.variants)
  BY <1>1, <1>3, <1>7, <1>9 DEF Agrees, ListingsAgree
<1>14. ItemsAgree(db'.items, db'.receipts, db'.variants, db'.categories)
  <2>1. \A i \in DOMAIN db.items : db.items[i].variant \notin vs
    BY <1>4 DEF ProductCanDelete
  <2>2. ItemsAgree(db.items, db.receipts, db.variants, db.categories)
    BY <1>1 DEF Agrees
  <2> QED
    BY <1>3, <1>9, <2>1, <2>2 DEF ItemsAgree
<1>15. \A o \in DOMAIN db.observations : db.observations[o].listing \in DOMAIN listings
  <2>1. ASSUME NEW o \in DOMAIN db.observations PROVE db.listings[db.observations[o].listing].variant \notin vs
    BY <1>4 DEF ProductCanDelete, ObservationsOfVariant
  <2>2. \A o \in DOMAIN db.observations : db.observations[o].listing \in DOMAIN db.listings
    BY <1>1 DEF Agrees, EvidenceAgrees, Evidenced
  <2> QED
    BY <1>3, <1>7, <2>1, <2>2
<1>16. EvidenceAgrees(db'.observations, db'.listings, db'.stores, db'.items, db'.receipts, NoId)
  <2>1. EvidenceAgrees(db.observations, db.listings, db.stores, db.items, db.receipts, NoId)
    BY <1>1 DEF Agrees
  <2>2. ASSUME NEW o \in DOMAIN db.observations
        PROVE  Evidenced(db.observations[o], listings, db.stores, db.items, db.receipts, NoId)
    BY <1>3, <1>15, <2>1 DEF EvidenceAgrees, Evidenced
  <2> QED
    BY <1>9, <2>2 DEF EvidenceAgrees
<1>17. LinksAgree(db'.linked, db'.variants, db'.stores)
  <2>1. \A v \in vs : v \notin db.linked
    BY <1>4 DEF ProductCanDelete
  <2> QED
    BY <1>1, <1>3, <1>9, <2>1 DEF Agrees, LinksAgree
<1>18. Agrees(db', NoId)
  BY <1>1, <1>8, <1>9, <1>10, <1>11, <1>12, <1>13, <1>14, <1>16, <1>17 DEF Agrees
<1>19. Given(db', db'.serial)
  BY <1>1, <1>3, <1>9 DEF Given
<1>20. PricesKept(db, db')
  <2>1. db.observations \in Table(Observation)
    BY <1>1, FieldsOf
  <2>2. \A o \in DOMAIN db.observations :
          listings[db.observations[o].listing].variant = db.listings[db.observations[o].listing].variant
    BY <1>3, <1>15
  <2> QED
    BY <1>9, <2>1, <2>2, SameStore DEF PricesKept
<1> QED
  BY <1>18, <1>19, <1>20 DEF Keeps

-------------------------------------------------------------------------------
\* The lines of receipts.

\* From d to e lines have been inserted, with what they are evidence of, and nothing that
\* was there has changed: a new line that is confirmed has one observation, of its price.
Extends(d, e) ==
  /\ e.categories = d.categories /\ e.stores = d.stores /\ e.receipts = d.receipts
  /\ DOMAIN d.variants \subseteq DOMAIN e.variants
  /\ \A i \in DOMAIN d.items : i \in DOMAIN e.items /\ e.items[i] = d.items[i]
  /\ \A l \in DOMAIN d.listings : l \in DOMAIN e.listings /\ e.listings[l] = d.listings[l]
  /\ \A o \in DOMAIN d.observations : o \in DOMAIN e.observations /\ e.observations[o] = d.observations[o]
  /\ \A o \in DOMAIN e.observations \ DOMAIN d.observations : e.observations[o].item \in DOMAIN e.items \ DOMAIN d.items
  /\ \A i \in DOMAIN e.items \ DOMAIN d.items : e.items[i].status = "confirmed" =>
       \E o \in DOMAIN e.observations :
         /\ e.observations[o].item = i /\ e.observations[o].price = e.items[i].price
         /\ \A k \in DOMAIN e.observations : e.observations[k].item = i => k = o

LEMMA ExtendsSelf == ASSUME NEW d PROVE Extends(d, d)
BY DEF Extends

LEMMA ExtendsOn == ASSUME NEW d, NEW e, NEW f, Extends(d, e), Extends(e, f) PROVE Extends(d, f)
<1>1. ASSUME NEW i \in DOMAIN f.items \ DOMAIN d.items, f.items[i].status = "confirmed"
      PROVE  \E o \in DOMAIN f.observations :
               /\ f.observations[o].item = i /\ f.observations[o].price = f.items[i].price
               /\ \A k \in DOMAIN f.observations : f.observations[k].item = i => k = o
  <2>1. CASE i \in DOMAIN e.items
    <3>1. f.items[i] = e.items[i]
      BY <2>1 DEF Extends
    <3>2. PICK o \in DOMAIN e.observations :
            /\ e.observations[o].item = i /\ e.observations[o].price = e.items[i].price
            /\ \A k \in DOMAIN e.observations : e.observations[k].item = i => k = o
      BY <1>1, <2>1, <3>1 DEF Extends
    <3>3. o \in DOMAIN f.observations /\ f.observations[o] = e.observations[o]
      BY DEF Extends
    <3>4. ASSUME NEW k \in DOMAIN f.observations, f.observations[k].item = i PROVE k = o
      <4>1. k \in DOMAIN e.observations
        BY <2>1, <3>4 DEF Extends
      <4>2. f.observations[k] = e.observations[k]
        BY <4>1 DEF Extends
      <4> QED
        BY <3>2, <3>4, <4>1, <4>2
    <3> QED
      BY <3>1, <3>2, <3>3, <3>4
  <2>2. CASE i \notin DOMAIN e.items
    BY <1>1, <2>2 DEF Extends
  <2> QED
    BY <2>1, <2>2
<1>2. ASSUME NEW o \in DOMAIN f.observations \ DOMAIN d.observations
      PROVE  f.observations[o].item \in DOMAIN f.items \ DOMAIN d.items
  <2>1. CASE o \in DOMAIN e.observations
    <3>1. f.observations[o] = e.observations[o] /\ e.observations[o].item \in DOMAIN e.items \ DOMAIN d.items
      BY <1>2, <2>1 DEF Extends
    <3> QED
      BY <3>1 DEF Extends
  <2>2. CASE o \notin DOMAIN e.observations
    <3>1. f.observations[o].item \in DOMAIN f.items \ DOMAIN e.items
      BY <1>2, <2>2 DEF Extends
    <3> QED
      BY <3>1 DEF Extends
  <2> QED
    BY <2>1, <2>2
<1>3. /\ f.categories = d.categories /\ f.stores = d.stores /\ f.receipts = d.receipts
      /\ DOMAIN d.variants \subseteq DOMAIN f.variants
  BY DEF Extends
<1>4. \A k \in DOMAIN d.items : k \in DOMAIN f.items /\ f.items[k] = d.items[k]
  BY DEF Extends
<1>5. \A l \in DOMAIN d.listings : l \in DOMAIN f.listings /\ f.listings[l] = d.listings[l]
  BY DEF Extends
<1>6. \A o \in DOMAIN d.observations : o \in DOMAIN f.observations /\ f.observations[o] = d.observations[o]
  BY DEF Extends
<1> QED
  BY <1>1, <1>2, <1>3, <1>4, <1>5, <1>6 DEF Extends

\* The product of a line is one of the database, if the one made for it is there when it is needed.
LEMMA ResolvedIs ==
  ASSUME NEW d, NEW moved, Agrees(d, moved), NEW n \in Nat, Given(d, n),
         NEW r, NEW title, NEW own, own \in DOMAIN d.variants \/ ~NeedsProduct(d, r, title)
  PROVE  Resolved(d, r, title, own) \in DOMAIN d.variants
<1> DEFINE listed == ListedAs(d, r, title)
           named == VariantsNamed(d, title) \ {own}
<1>1. listed \subseteq DOMAIN d.variants /\ named \subseteq DOMAIN d.variants
  BY DEF ListedAs, VariantsNamed, Agrees, ListingsAgree
<1>2. IsFiniteSet(listed)
  <2>1. listed \subseteq 1..n
    BY <1>1 DEF Given
  <2>2. IsFiniteSet(1..n)
    BY FS_Interval
  <2> HIDE DEF listed
  <2> QED
    BY <2>1, <2>2, FS_Subset
<1>3. Cardinality(listed) \in Nat
  BY <1>2, FS_CardinalityType
<1>e. Cardinality({}) = 0
  BY FS_EmptySet
<1>4. Cardinality(listed) = 1 => listed # {}
  BY <1>e
<1>5. Cardinality(named) = 1 => named # {}
  BY <1>e
<1>6. Resolved(d, r, title, own) = CASE Cardinality(listed) = 1 -> CHOOSE v \in listed : TRUE
                                     [] Cardinality(listed) = 0 /\ Cardinality(named) = 1 -> CHOOSE v \in named : TRUE
                                     [] OTHER -> own
  BY DEF Resolved
<1>7. own \in DOMAIN d.variants \/ Cardinality(listed) = 1 \/ (~(Cardinality(listed) > 1) /\ Cardinality(VariantsNamed(d, title)) = 1)
  BY DEF NeedsProduct
<1>8. own \notin DOMAIN d.variants => named = VariantsNamed(d, title)
  BY DEF VariantsNamed
<1> HIDE DEF listed, named
<1>9. CASE Cardinality(listed) = 1
  <2>1. (CHOOSE v \in listed : TRUE) \in listed
    BY <1>4, <1>9
  <2> QED
    BY <1>1, <1>6, <1>9, <2>1
<1>10. CASE Cardinality(listed) # 1 /\ Cardinality(listed) = 0 /\ Cardinality(named) = 1
  <2>1. (CHOOSE v \in named : TRUE) \in named
    BY <1>5, <1>10
  <2>2. Resolved(d, r, title, own) = CHOOSE v \in named : TRUE
    BY <1>6, <1>10
  <2> QED
    BY <1>1, <2>1, <2>2
<1>11. CASE Cardinality(listed) # 1 /\ ~(Cardinality(listed) = 0 /\ Cardinality(named) = 1)
  <2>1. Resolved(d, r, title, own) = own
    BY <1>6, <1>11
  <2>2. own \in DOMAIN d.variants
    BY <1>3, <1>7, <1>8, <1>11
  <2> QED
    BY <2>1, <2>2
<1> QED
  BY <1>9, <1>10, <1>11

\* A line changes: without evidence it may get another product.
LEMMA LinkedKeeps ==
  ASSUME NEW d, NEW moved, Agrees(d, moved), NEW n \in Nat, Given(d, n), NEW id \in DOMAIN d.items,
         NEW row \in Item,
         (\A o \in DOMAIN d.observations : d.observations[o].item # id) \/ row.variant = d.items[id].variant, row.receipt = d.items[id].receipt,
         row.variant \in DOMAIN d.variants \cup {NoId}, row.category \in DOMAIN d.categories
  PROVE  LET e == [d EXCEPT !.items = [d.items EXCEPT ![id] = row]]
         IN /\ Agrees(e, moved) /\ Given(e, n)
            /\ DOMAIN e.items = DOMAIN d.items /\ e.items[id] = row
            /\ \A i \in DOMAIN d.items : i # id => e.items[i] = d.items[i]
<1> DEFINE items == [d.items EXCEPT ![id] = row]
           e == [d EXCEPT !.items = items]
<1>1. d \in Database /\ d.items \in Table(Item)
  BY FieldsOf DEF Agrees
<1>2. DOMAIN d.items \subseteq Nat /\ d.items \in [DOMAIN d.items -> Item]
  BY <1>1, TableIs
<1>3. DOMAIN items = DOMAIN d.items /\ items[id] = row /\ \A i \in DOMAIN d.items : i # id => items[i] = d.items[i]
  BY <1>2
<1>4. items \in Table(Item)
  <2>1. items \in [DOMAIN items -> Item]
    BY <1>2, <1>3
  <2> QED
    BY <1>2, <1>3, <2>1, TableIs
<1> HIDE DEF items
<1>5. e \in Database
  BY <1>1, <1>4 DEF Database
<1>6. /\ e.categories = d.categories /\ e.parents = d.parents /\ e.variants = d.variants /\ e.search = d.search
      /\ e.listings = d.listings /\ e.observations = d.observations /\ e.stores = d.stores
      /\ e.receipts = d.receipts /\ e.items = items /\ e.linked = d.linked
  BY <1>1 DEF Database
<1> HIDE DEF e
<1>7. ItemsAgree(e.items, e.receipts, e.variants, e.categories)
  BY <1>3, <1>6 DEF Agrees, ItemsAgree
<1>8. EvidenceAgrees(e.observations, e.listings, e.stores, e.items, e.receipts, moved)
  <2>1. EvidenceAgrees(d.observations, d.listings, d.stores, d.items, d.receipts, moved)
    BY DEF Agrees
  <2>2. ASSUME NEW o \in DOMAIN d.observations
        PROVE  Evidenced(d.observations[o], d.listings, d.stores, items, d.receipts, moved)
    <3> DEFINE seen == d.observations[o]
    <3>1. Evidenced(seen, d.listings, d.stores, d.items, d.receipts, moved)
      BY <2>1 DEF EvidenceAgrees
    <3>2. seen.item \in DOMAIN d.items =>
            items[seen.item].receipt = d.items[seen.item].receipt /\ items[seen.item].variant = d.items[seen.item].variant
      <4>1. CASE seen.item = id
        <5>1. row.variant = d.items[id].variant
          BY <4>1
        <5> QED
          BY <1>3, <4>1, <5>1
      <4>2. CASE seen.item # id
        BY <1>3, <4>2
      <4> QED
        BY <4>1, <4>2
    <3> HIDE DEF seen
    <3>3. Evidenced(seen, d.listings, d.stores, items, d.receipts, moved)
      BY <1>3, <3>1, <3>2 DEF Evidenced
    <3> QED
      BY <3>3 DEF seen
  <2> QED
    BY <1>6, <2>2 DEF EvidenceAgrees
<1>9. Agrees(e, moved)
  BY <1>5, <1>6, <1>7, <1>8 DEF Agrees
<1>10. Given(e, n)
  BY <1>3, <1>6 DEF Given
<1> QED
  BY <1>3, <1>6, <1>9, <1>10 DEF e, items

\* The trigger: a product if one is needed, its listing, and the observation of the price.
LEMMA ProjectedKeeps ==
  ASSUME NEW d, NEW moved, Agrees(d, moved), NEW id \in Nat \ {NoId}, Given(d, id), d.serial = id,
         id \in DOMAIN d.items, id \notin DOMAIN d.variants, id \notin DOMAIN d.listings,
         id \notin DOMAIN d.observations, \A o \in DOMAIN d.observations : d.observations[o].item # id
  PROVE  LET e == Projected(d, id)
         IN /\ Agrees(e, moved) /\ Given(e, id) /\ e.serial = id
            /\ e.categories = d.categories /\ e.stores = d.stores /\ e.receipts = d.receipts
            /\ DOMAIN d.variants \subseteq DOMAIN e.variants
            /\ DOMAIN e.items = DOMAIN d.items /\ \A i \in DOMAIN d.items : i # id => e.items[i] = d.items[i]
            /\ e.items[id].price = d.items[id].price /\ e.items[id].status = d.items[id].status
            /\ \A l \in DOMAIN d.listings : l \in DOMAIN e.listings /\ e.listings[l] = d.listings[l]
            /\ DOMAIN e.observations = DOMAIN d.observations \cup {id}
            /\ \A o \in DOMAIN d.observations : e.observations[o] = d.observations[o]
            /\ e.observations[id].item = id /\ e.observations[id].price = d.items[id].price
<1> DEFINE line == d.items[id]
           r == d.receipts[line.receipt].retailer
           store == d.receipts[line.receipt].store
           w == IF NeedsProduct(d, r, line.title)
                THEN WithProduct(WithParent(d, id, line.title, NoId), id, id, line.title, {})
                ELSE d
           variant == IF line.variant # NoId THEN line.variant ELSE Resolved(w, r, line.title, id)
           row == [line EXCEPT !.variant = variant]
           f == [w EXCEPT !.items = [w.items EXCEPT ![id] = row]]
           g == WithListing(f, id, r, variant, line.title)
           h == WithObservation(g, id, r, variant, store, line.price, id)
<1>1. d \in Database /\ id \in 1..id
  BY DEF Agrees, NoId
<1>2. line \in Item /\ line.receipt \in DOMAIN d.receipts /\ line.variant \in DOMAIN d.variants \cup {NoId}
      /\ line.category \in DOMAIN d.categories
  BY <1>1, FieldsOf, TableIs DEF Agrees, ItemsAgree
<1>3. r \in Retailers /\ store \in DOMAIN d.stores \cup {NoId}
  <2>1. d.receipts[line.receipt] \in Receipt
    BY <1>1, <1>2, FieldsOf, TableIs
  <2> QED
    BY <1>2, <2>1 DEF Receipt, Agrees, ReceiptsAgree
<1>4. line.title \in Titles /\ line.price \in Prices
  BY <1>2 DEF Item
<1>5. /\ Agrees(w, moved) /\ Given(w, id) /\ OnlyProducts(d, w) /\ DOMAIN d.variants \subseteq DOMAIN w.variants
      /\ id \in DOMAIN w.variants \/ ~NeedsProduct(w, r, line.title)
  <2>1. CASE NeedsProduct(d, r, line.title)
    <3> DEFINE c == WithParent(d, id, line.title, NoId)
    <3>1. w = WithProduct(c, id, id, line.title, {})
      BY <2>1
    <3> HIDE DEF w, line
    <3>2. Agrees(c, moved) /\ Given(c, id) /\ OnlyProducts(d, c) /\ c.variants = d.variants /\ id \in DOMAIN c.parents
      BY <1>1, <1>4, WithParentKeeps
    <3> HIDE DEF c
    <3>3. Agrees(w, moved) /\ Given(w, id) /\ OnlyProducts(c, w) /\ DOMAIN w.variants = DOMAIN c.variants \cup {id}
      BY <1>1, <1>4, <3>1, <3>2, WithProductKeeps
    <3> QED
      BY <3>2, <3>3 DEF OnlyProducts
  <2>2. CASE ~NeedsProduct(d, r, line.title)
    <3>1. w = d
      BY <2>2
    <3> HIDE DEF w
    <3> QED
      BY <1>1, <2>2, <3>1 DEF OnlyProducts
  <2> QED
    BY <2>1, <2>2
<1>6. Projected(d, id) = h
  <2>1. w \in Database
    BY <1>5 DEF Agrees
  <2>2. [w EXCEPT !.items[id].variant = variant] = f
    <3>1. line = w.items[id]
      BY <1>5 DEF OnlyProducts
    <3> HIDE DEF w, line, variant
    <3> QED
      BY <2>1, <3>1 DEF Database
  <2>3. Projected(d, id) =
          WithObservation(WithListing([w EXCEPT !.items[id].variant = variant], id, r, variant, line.title),
                          id, r, variant, StoreOfReceipt(d, line.receipt), line.price, id)
    BY DEF Projected
  <2>4. StoreOfReceipt(d, line.receipt) = store
    BY DEF StoreOfReceipt
  <2> HIDE DEF w, variant, r, line, f, store
  <2> QED
    BY <2>2, <2>3, <2>4
<1>7. variant \in DOMAIN w.variants
  <2>1. Resolved(w, r, line.title, id) \in DOMAIN w.variants
    <3> HIDE DEF w, line, r
    <3> QED
      BY <1>1, <1>5, ResolvedIs
  <2> HIDE DEF w, line
  <2> QED
    BY <1>2, <1>5, <2>1
<1> HIDE DEF w, variant, r, store
<1>8. row \in Item /\ row.receipt = line.receipt /\ row.variant = variant /\ row.category = line.category
      /\ row.price = line.price /\ row.status = line.status
  <2>1. variant \in Nat
    BY <1>5, <1>7, FieldsOf, TableIs DEF Agrees
  <2> HIDE DEF line
  <2> QED
    BY <1>2, <2>1 DEF Item
<1> HIDE DEF row
<1>9. /\ w.items = d.items /\ w.receipts = d.receipts /\ w.categories = d.categories /\ w.stores = d.stores
      /\ w.listings = d.listings /\ w.observations = d.observations /\ w.serial = id
  BY <1>5 DEF OnlyProducts
<1>10. /\ Agrees(f, moved) /\ Given(f, id)
       /\ DOMAIN f.items = DOMAIN d.items /\ f.items[id] = row
       /\ \A i \in DOMAIN d.items : i # id => f.items[i] = d.items[i]
  <2>1. row.receipt = w.items[id].receipt /\ row.variant \in DOMAIN w.variants \cup {NoId} /\ row.category \in DOMAIN w.categories
    BY <1>2, <1>7, <1>8, <1>9
  <2>2. id \in DOMAIN w.items /\ \A o \in DOMAIN w.observations : w.observations[o].item # id
    BY <1>9
  <2>3. Agrees(w, moved) /\ Given(w, id) /\ id \in Nat /\ row \in Item
    BY <1>5, <1>8
  <2> HIDE DEF line
  <2>4. /\ Agrees(f, moved) /\ Given(f, id)
        /\ DOMAIN f.items = DOMAIN w.items /\ f.items[id] = row
        /\ \A i \in DOMAIN w.items : i # id => f.items[i] = w.items[i]
    BY ONLY <2>1, <2>2, <2>3, LinkedKeeps DEF f
  <2> QED
    BY <1>9, <2>4
<1>11. /\ f.categories = d.categories /\ f.stores = d.stores /\ f.receipts = d.receipts /\ f.variants = w.variants
       /\ f.listings = d.listings /\ f.observations = d.observations /\ f.serial = id
  <2>1. w \in Database
    BY <1>5 DEF Agrees
  <2> QED
    BY <1>9, <2>1 DEF Database
<1> HIDE DEF f, line
<1>12. /\ Agrees(g, moved) /\ Given(g, id) /\ g = [f EXCEPT !.listings = g.listings] /\ ListingsOf(g, r, variant) # {}
       /\ \A l \in DOMAIN f.listings : l \in DOMAIN g.listings /\ g.listings[l] = f.listings[l]
  BY <1>1, <1>3, <1>4, <1>7, <1>10, <1>11, WithListingKeeps
<1> HIDE DEF g
<1>13. /\ g.categories = d.categories /\ g.stores = d.stores /\ g.receipts = d.receipts /\ g.variants = w.variants
       /\ g.items = f.items /\ g.observations = d.observations /\ g.serial = id
  <2>1. f \in Database
    BY <1>10 DEF Agrees
  <2> QED
    BY <1>11, <1>12, <2>1 DEF Database
<1>14. /\ g.items[id].variant = variant /\ id \in DOMAIN g.items
       /\ g.receipts[g.items[id].receipt].retailer = r /\ g.receipts[g.items[id].receipt].store = store
  BY <1>8, <1>10, <1>13 DEF r, store
<1>15. /\ Agrees(h, moved) /\ Given(h, id) /\ h = [g EXCEPT !.observations = h.observations]
       /\ DOMAIN h.observations = DOMAIN g.observations \cup {id}
       /\ h.observations[id].item = id /\ h.observations[id].price = line.price
       /\ \A o \in DOMAIN g.observations : h.observations[o] = g.observations[o]
  <2>1. store \in DOMAIN g.stores \cup {NoId} /\ id \in DOMAIN g.items \cup {NoId} /\ id \notin DOMAIN g.observations
    BY <1>3, <1>13, <1>14
  <2>2. Observes(g, id, id, r, variant, store, line.price, id)
    BY <1>1, <1>3, <1>4, <1>12, <1>14, <2>1 DEF Observes
  <2> QED
    BY <1>12, <2>2, WithObservationKeeps
<1> HIDE DEF h
<1>16. /\ h.categories = d.categories /\ h.stores = d.stores /\ h.receipts = d.receipts /\ h.variants = w.variants
       /\ h.items = f.items /\ h.listings = g.listings /\ h.serial = id
  <2>1. g \in Database
    BY <1>12 DEF Agrees
  <2> QED
    BY <1>13, <1>15, <2>1 DEF Database
<1>17. h.items[id].price = d.items[id].price /\ h.items[id].status = d.items[id].status
  BY <1>8, <1>10, <1>16 DEF line
<1>18. h.observations[id].price = d.items[id].price
  BY <1>15 DEF line
<1> QED
  BY <1>5, <1>6, <1>10, <1>11, <1>12, <1>13, <1>15, <1>16, <1>17, <1>18

\* A line as a client may send it.
Sent(d, line) ==
  /\ line.title \in Titles /\ line.variant \in DOMAIN d.variants \cup {NoId} /\ line.price \in Prices
  /\ line.category \in DOMAIN d.categories /\ line.status \in {"confirmed", "needs-review"}

LEMMA WithLineKeeps ==
  ASSUME NEW d, NEW moved, Agrees(d, moved), Given(d, d.serial), NEW receipt \in DOMAIN d.receipts,
         NEW line, Sent(d, line)
  PROVE  LET e == WithLine(d, receipt, line)
         IN /\ Agrees(e, moved) /\ Given(e, e.serial) /\ Extends(d, e) /\ e.serial = d.serial + 1
            /\ e.serial \in DOMAIN e.items \ DOMAIN d.items
<1> DEFINE id == d.serial + 1
           row == [ receipt |-> receipt, title |-> line.title, variant |-> line.variant, price |-> line.price,
                    category |-> line.category, status |-> line.status ]
           items == Put(d.items, id, row)
           e == [d EXCEPT !.items = items, !.serial = id]
<1>1. d \in Database /\ d.serial \in Nat
  BY FieldsOf DEF Agrees
<1>2. id \in Nat \ {NoId} /\ id \notin DOMAIN d.items /\ Given(d, id) /\ id \in 1..id
      /\ id \notin DOMAIN d.variants /\ id \notin DOMAIN d.listings /\ id \notin DOMAIN d.observations
  BY <1>1, NextId
<1>3. WithLine(d, receipt, line) = IF line.status = "confirmed" THEN Projected(e, id) ELSE e
  BY DEF WithLine, FreshId
<1>4. row \in Item
  <2>1. receipt \in Nat /\ line.variant \in Nat /\ line.category \in Nat
    BY <1>1, FieldsOf, TableIs DEF Sent, NoId
  <2> QED
    BY <2>1 DEF Item, Sent
<1>5. row.receipt = receipt /\ row.variant = line.variant /\ row.category = line.category
      /\ row.price = line.price /\ row.status = line.status
  OBVIOUS
<1> HIDE DEF row, id
<1>6. items \in Table(Item)
  BY <1>1, <1>2, <1>4, FieldsOf, PutIs
<1>7. DOMAIN items = DOMAIN d.items \cup {id} /\ items[id] = row /\ \A k \in DOMAIN d.items : k # id => items[k] = d.items[k]
  BY DEF Put
<1> HIDE DEF items
<1>8. e \in Database
  <2>1. d \in Database /\ items \in Table(Item) /\ id \in Nat
    BY <1>1, <1>2, <1>6
  <2> QED
    BY ONLY <2>1 DEF Database
<1>9. /\ e.categories = d.categories /\ e.parents = d.parents /\ e.variants = d.variants /\ e.search = d.search
      /\ e.listings = d.listings /\ e.observations = d.observations /\ e.stores = d.stores
      /\ e.receipts = d.receipts /\ e.items = items /\ e.linked = d.linked /\ e.serial = id
  BY <1>1 DEF Database
<1> HIDE DEF e
<1>10. \A o \in DOMAIN d.observations : d.observations[o].item \in DOMAIN d.items \cup {NoId}
  BY DEF Agrees, EvidenceAgrees, Evidenced
<1>11. ItemsAgree(e.items, e.receipts, e.variants, e.categories)
  BY <1>5, <1>7, <1>9 DEF Agrees, ItemsAgree, Sent
<1>12. EvidenceAgrees(e.observations, e.listings, e.stores, e.items, e.receipts, moved)
  <2>1. EvidenceAgrees(d.observations, d.listings, d.stores, d.items, d.receipts, moved)
    BY DEF Agrees
  <2>2. ASSUME NEW o \in DOMAIN d.observations
        PROVE  Evidenced(d.observations[o], d.listings, d.stores, items, d.receipts, moved)
    BY <1>2, <1>7, <1>10, <2>1 DEF EvidenceAgrees, Evidenced
  <2> QED
    BY <1>9, <2>2 DEF EvidenceAgrees
<1>13. Agrees(e, moved)
  BY <1>8, <1>9, <1>11, <1>12 DEF Agrees
<1>14. Given(e, id)
  BY <1>2, <1>7, <1>9 DEF Given
<1>15. CASE line.status # "confirmed"
  <2>1. WithLine(d, receipt, line) = e
    BY <1>3, <1>15
  <2>2. Extends(d, e)
    BY <1>2, <1>5, <1>7, <1>9, <1>15 DEF Extends
  <2> QED
    BY <1>2, <1>7, <1>9, <1>13, <1>14, <2>1, <2>2 DEF id
<1>16. CASE line.status = "confirmed"
  <2> DEFINE f == Projected(e, id)
  <2>1. WithLine(d, receipt, line) = f
    BY <1>3, <1>16
  <2>2. /\ e.serial = id /\ id \in DOMAIN e.items /\ id \notin DOMAIN e.variants /\ id \notin DOMAIN e.listings
        /\ id \notin DOMAIN e.observations /\ \A o \in DOMAIN e.observations : e.observations[o].item # id
    BY <1>2, <1>7, <1>9, <1>10
  <2>3. /\ Agrees(f, moved) /\ Given(f, id) /\ f.serial = id
        /\ f.categories = e.categories /\ f.stores = e.stores /\ f.receipts = e.receipts
        /\ DOMAIN e.variants \subseteq DOMAIN f.variants
        /\ DOMAIN f.items = DOMAIN e.items /\ \A i \in DOMAIN e.items : i # id => f.items[i] = e.items[i]
        /\ f.items[id].price = e.items[id].price /\ f.items[id].status = e.items[id].status
        /\ \A l \in DOMAIN e.listings : l \in DOMAIN f.listings /\ f.listings[l] = e.listings[l]
        /\ DOMAIN f.observations = DOMAIN e.observations \cup {id}
        /\ \A o \in DOMAIN e.observations : f.observations[o] = e.observations[o]
        /\ f.observations[id].item = id /\ f.observations[id].price = e.items[id].price
    BY <1>2, <1>13, <1>14, <2>2, ProjectedKeeps
  <2> HIDE DEF f
  <2>4. \A k \in DOMAIN f.observations : f.observations[k].item = id => k = id
    BY <1>2, <1>9, <1>10, <2>3
  <2>5. Extends(d, f)
    <3>1. DOMAIN f.items \ DOMAIN d.items = {id} /\ DOMAIN f.observations \ DOMAIN d.observations = {id}
      BY <1>2, <1>7, <1>9, <2>3
    <3>2. \A i \in DOMAIN d.items : i \in DOMAIN f.items /\ f.items[i] = d.items[i]
      BY <1>2, <1>7, <1>9, <2>3
    <3>3. \A i \in DOMAIN f.items \ DOMAIN d.items : \E o \in DOMAIN f.observations :
            /\ f.observations[o].item = i /\ f.observations[o].price = f.items[i].price
            /\ \A k \in DOMAIN f.observations : f.observations[k].item = i => k = o
      BY <2>3, <2>4, <3>1
    <3> QED
      BY <1>9, <2>3, <3>1, <3>2, <3>3 DEF Extends
  <2> QED
    BY <1>2, <1>7, <1>9, <2>1, <2>3, <2>5 DEF id
<1> QED
  BY <1>15, <1>16

\* The line takes the category of its product, or the product that of the line.
LEMMA WithSharedCategoryKeeps ==
  ASSUME NEW d, NEW moved, Agrees(d, moved), Given(d, d.serial), NEW id \in DOMAIN d.items
  PROVE  LET e == WithSharedCategory(d, id)
         IN /\ Agrees(e, moved) /\ Given(e, e.serial) /\ e.serial = d.serial
            /\ e.categories = d.categories /\ e.stores = d.stores /\ e.receipts = d.receipts
            /\ e.variants = d.variants /\ e.listings = d.listings /\ e.observations = d.observations
            /\ DOMAIN e.items = DOMAIN d.items /\ \A i \in DOMAIN d.items : i # id => e.items[i] = d.items[i]
            /\ e.items[id].price = d.items[id].price /\ e.items[id].status = d.items[id].status
<1> DEFINE v == d.items[id].variant
           p == IF v = NoId THEN NoId ELSE d.variants[v].parent
           e == WithSharedCategory(d, id)
<1>1. d \in Database /\ d.serial \in Nat
  BY FieldsOf DEF Agrees
<1>2. d.items[id] \in Item /\ v \in DOMAIN d.variants \cup {NoId} /\ d.items[id].category \in DOMAIN d.categories
  BY <1>1, FieldsOf, TableIs DEF Agrees, ItemsAgree
<1>3. p # NoId => p \in DOMAIN d.parents
  BY <1>2 DEF Agrees, VariantsAgree
<1> HIDE DEF p
<1>4. CASE p = NoId
  <2>1. e = d
    BY <1>4 DEF WithSharedCategory, p
  <2> QED
    BY <2>1
<1>5. CASE p # NoId /\ d.parents[p].category # NoId
  <2> DEFINE category == d.parents[p].category
             row == [d.items[id] EXCEPT !.category = category]
  <2>1. category \in DOMAIN d.categories
    BY <1>3, <1>5 DEF Agrees, ParentsAgree
  <2>2. e = [d EXCEPT !.items[id].category = category]
    BY <1>5 DEF WithSharedCategory, p
  <2>3. e = [d EXCEPT !.items = [d.items EXCEPT ![id] = row]]
    BY <1>1, <2>2 DEF Database
  <2> HIDE DEF category
  <2>4. row \in Item /\ row.receipt = d.items[id].receipt /\ row.variant = d.items[id].variant
        /\ row.category = category /\ row.price = d.items[id].price /\ row.status = d.items[id].status
    <3>1. category \in Nat
      BY <1>1, <2>1, FieldsOf, TableIs
    <3> QED
      BY <1>2, <3>1 DEF Item
  <2> HIDE DEF row, e, v
  <2>5. /\ Agrees(e, moved) /\ Given(e, d.serial)
        /\ DOMAIN e.items = DOMAIN d.items /\ e.items[id] = row
        /\ \A i \in DOMAIN d.items : i # id => e.items[i] = d.items[i]
    <3>1. row.variant \in DOMAIN d.variants \cup {NoId} /\ row.category \in DOMAIN d.categories
      BY <1>2, <2>1, <2>4 DEF v
    <3> QED
      BY <1>1, <2>3, <2>4, <3>1, LinkedKeeps
  <2>6. /\ e.serial = d.serial /\ e.categories = d.categories /\ e.stores = d.stores /\ e.receipts = d.receipts
        /\ e.variants = d.variants /\ e.listings = d.listings /\ e.observations = d.observations
    BY <1>1, <2>3 DEF Database
  <2> QED
    BY <2>4, <2>5, <2>6 DEF e
<1>6. CASE p # NoId /\ d.parents[p].category = NoId
  <2> DEFINE name == d.parents[p].name
             category == d.items[id].category
  <2>1. e = WithParent(d, p, name, category)
    BY <1>6 DEF WithSharedCategory, p
  <2>2. name \in Titles /\ p \in 1..d.serial
    <3>1. d.parents[p] \in Parent
      BY <1>1, <1>3, <1>6, FieldsOf, TableIs
    <3> QED
      BY <1>3, <1>6, <3>1 DEF Parent, Given
  <2>3. category \in DOMAIN d.categories \cup {NoId}
    BY <1>2
  <2> HIDE DEF name, category, e
  <2>4. Agrees(e, moved) /\ Given(e, d.serial) /\ OnlyProducts(d, e) /\ e.variants = d.variants
    BY <1>1, <2>1, <2>2, <2>3, WithParentKeeps
  <2> QED
    BY <2>4 DEF OnlyProducts, e
<1> QED
  BY <1>4, <1>5, <1>6

LEMMA WithImportedLineKeeps ==
  ASSUME NEW d, NEW moved, Agrees(d, moved), Given(d, d.serial), NEW receipt \in DOMAIN d.receipts,
         NEW line, Sent(d, line)
  PROVE  LET e == WithImportedLine(d, receipt, line)
         IN Agrees(e, moved) /\ Given(e, e.serial) /\ Extends(d, e)
<1> DEFINE f == WithLine(d, receipt, line)
           e == WithSharedCategory(f, f.serial)
<1>1. /\ Agrees(f, moved) /\ Given(f, f.serial) /\ Extends(d, f) /\ f.serial = d.serial + 1
      /\ f.serial \in DOMAIN f.items \ DOMAIN d.items
  BY WithLineKeeps
<1> DEFINE id == f.serial
<1>2. WithImportedLine(d, receipt, line) = e
  BY DEF WithImportedLine
<1> HIDE DEF f
<1>3. /\ Agrees(e, moved) /\ Given(e, e.serial) /\ e.serial = f.serial
      /\ e.categories = f.categories /\ e.stores = f.stores /\ e.receipts = f.receipts
      /\ e.variants = f.variants /\ e.listings = f.listings /\ e.observations = f.observations
      /\ DOMAIN e.items = DOMAIN f.items /\ \A i \in DOMAIN f.items : i # id => e.items[i] = f.items[i]
      /\ e.items[id].price = f.items[id].price /\ e.items[id].status = f.items[id].status
  BY <1>1, WithSharedCategoryKeeps
<1> HIDE DEF e, id
<1>4. id \in DOMAIN f.items \ DOMAIN d.items
  BY <1>1 DEF id
<1>5. \A i \in DOMAIN f.items : e.items[i].price = f.items[i].price /\ e.items[i].status = f.items[i].status
  BY <1>3
<1>6. \A i \in DOMAIN d.items : i \in DOMAIN e.items /\ e.items[i] = d.items[i]
  BY <1>1, <1>3, <1>4 DEF Extends
<1>7. ASSUME NEW i \in DOMAIN e.items \ DOMAIN d.items, e.items[i].status = "confirmed"
      PROVE  \E o \in DOMAIN e.observations :
               /\ e.observations[o].item = i /\ e.observations[o].price = e.items[i].price
               /\ \A k \in DOMAIN e.observations : e.observations[k].item = i => k = o
  <2>1. i \in DOMAIN f.items \ DOMAIN d.items /\ f.items[i].status = "confirmed" /\ f.items[i].price = e.items[i].price
    BY <1>3, <1>5, <1>7
  <2> QED
    BY <1>1, <1>3, <2>1 DEF Extends
<1>8. Extends(d, e)
  BY <1>1, <1>3, <1>6, <1>7 DEF Extends
<1> QED
  BY <1>2, <1>3, <1>8

\* The database after each of the lines, as they are edited in and as they are imported.
AfterLines(n, d, receipt, lines, g) ==
  g = [k \in 0..n |-> IF k = 0 THEN d ELSE WithLine(g[k - 1], receipt, lines[k])]
AfterImport(n, d, receipt, lines, g) ==
  g = [k \in 0..n |-> IF k = 0 THEN d ELSE WithImportedLine(g[k - 1], receipt, lines[k])]

LEMMA AfterLinesExist ==
  ASSUME NEW d, NEW receipt, NEW lines PROVE \A n \in Nat : \E g : AfterLines(n, d, receipt, lines, g)
<1> DEFINE S == {n \in Nat : \E g : AfterLines(n, d, receipt, lines, g)}
<1>1. 0 \in S
  <2>1. AfterLines(0, d, receipt, lines, [k \in 0..0 |-> d])
    BY DEF AfterLines
  <2> QED
    BY <2>1
<1>2. ASSUME NEW n \in Nat, n \in S PROVE n + 1 \in S
  <2>1. PICK g : AfterLines(n, d, receipt, lines, g)
    BY <1>2
  <2> DEFINE h == [k \in 0..n + 1 |-> IF k = n + 1 THEN WithLine(g[n], receipt, lines[n + 1]) ELSE g[k]]
  <2>2. AfterLines(n + 1, d, receipt, lines, h)
    BY <2>1 DEF AfterLines
  <2> QED
    BY <2>2
<1> HIDE DEF S
<1>3. \A n \in Nat : n \in S
  BY <1>1, <1>2, SetInduction
<1> QED
  BY <1>3 DEF S

LEMMA AfterImportExist ==
  ASSUME NEW d, NEW receipt, NEW lines PROVE \A n \in Nat : \E g : AfterImport(n, d, receipt, lines, g)
<1> DEFINE S == {n \in Nat : \E g : AfterImport(n, d, receipt, lines, g)}
<1>1. 0 \in S
  <2>1. AfterImport(0, d, receipt, lines, [k \in 0..0 |-> d])
    BY DEF AfterImport
  <2> QED
    BY <2>1
<1>2. ASSUME NEW n \in Nat, n \in S PROVE n + 1 \in S
  <2>1. PICK g : AfterImport(n, d, receipt, lines, g)
    BY <1>2
  <2> DEFINE h == [k \in 0..n + 1 |-> IF k = n + 1 THEN WithImportedLine(g[n], receipt, lines[n + 1]) ELSE g[k]]
  <2>2. AfterImport(n + 1, d, receipt, lines, h)
    BY <2>1 DEF AfterImport
  <2> QED
    BY <2>2
<1> HIDE DEF S
<1>3. \A n \in Nat : n \in S
  BY <1>1, <1>2, SetInduction
<1> QED
  BY <1>3 DEF S

\* What is sent for one database may be sent for one that extends it.
LEMMA SentOn == ASSUME NEW d, NEW e, Extends(d, e), NEW line, Sent(d, line) PROVE Sent(e, line)
BY DEF Extends, Sent

LEMMA WithLinesKeeps ==
  ASSUME NEW d, NEW moved, Agrees(d, moved), Given(d, d.serial), NEW receipt \in DOMAIN d.receipts,
         NEW lines, Len(lines) \in Nat, \A k \in 1..Len(lines) : Sent(d, lines[k])
  PROVE  LET e == WithLines(d, receipt, lines)
         IN Agrees(e, moved) /\ Given(e, e.serial) /\ Extends(d, e)
<1> DEFINE m == Len(lines)
           f == CHOOSE g : g = [k \in 0..m |-> IF k = 0 THEN d ELSE WithLine(g[k - 1], receipt, lines[k])]
<1>1. AfterLines(m, d, receipt, lines, f)
  <2>1. \E g : AfterLines(m, d, receipt, lines, g)
    BY AfterLinesExist
  <2> QED
    BY <2>1, Zenon DEF AfterLines
<1>2. WithLines(d, receipt, lines) = f[m]
  BY DEF WithLines
<1> HIDE DEF f
<1>3. f[0] = d
  BY <1>1 DEF AfterLines
<1>4. ASSUME NEW k \in Nat, k + 1 <= m PROVE f[k + 1] = WithLine(f[k], receipt, lines[k + 1]) /\ k + 1 \in 1..m
  <2>1. k + 1 \in 0..m /\ k + 1 # 0 /\ (k + 1) - 1 = k /\ k + 1 \in 1..m
    BY <1>4
  <2> QED
    BY <1>1, <2>1 DEF AfterLines
<1> DEFINE S == {k \in Nat : k <= m => Agrees(f[k], moved) /\ Given(f[k], f[k].serial) /\ Extends(d, f[k])}
<1>5. 0 \in S
  BY <1>3, ExtendsSelf
<1>6. ASSUME NEW k \in Nat, k \in S PROVE k + 1 \in S
  <2> SUFFICES ASSUME k + 1 <= m
               PROVE  Agrees(f[k + 1], moved) /\ Given(f[k + 1], f[k + 1].serial) /\ Extends(d, f[k + 1])
    OBVIOUS
  <2>1. Agrees(f[k], moved) /\ Given(f[k], f[k].serial) /\ Extends(d, f[k])
    BY <1>6
  <2>2. f[k + 1] = WithLine(f[k], receipt, lines[k + 1]) /\ Sent(f[k], lines[k + 1]) /\ receipt \in DOMAIN f[k].receipts
    <3>1. f[k + 1] = WithLine(f[k], receipt, lines[k + 1]) /\ Sent(d, lines[k + 1])
      BY <1>4
    <3> QED
      <4>1. Sent(f[k], lines[k + 1])
        BY ONLY <2>1, <3>1, SentOn
      <4>2. receipt \in DOMAIN f[k].receipts
        BY <2>1 DEF Extends
      <4> QED
        BY <3>1, <4>1, <4>2
  <2>3. Agrees(f[k + 1], moved) /\ Given(f[k + 1], f[k + 1].serial) /\ Extends(f[k], f[k + 1])
    BY <2>1, <2>2, WithLineKeeps
  <2> QED
    BY <2>1, <2>3, ExtendsOn
<1> HIDE DEF S
<1>7. \A k \in Nat : k \in S
  BY <1>5, <1>6, SetInduction
<1>8. Agrees(f[m], moved) /\ Given(f[m], f[m].serial) /\ Extends(d, f[m])
  BY <1>7 DEF S
<1> QED
  BY <1>2, <1>8

LEMMA ImportedKeeps ==
  ASSUME NEW d, NEW moved, Agrees(d, moved), Given(d, d.serial), NEW receipt \in DOMAIN d.receipts,
         NEW lines, Len(lines) \in Nat, \A k \in 1..Len(lines) : Sent(d, lines[k])
  PROVE  LET e == Imported(d, receipt, lines)
         IN Agrees(e, moved) /\ Given(e, e.serial) /\ Extends(d, e)
<1> DEFINE m == Len(lines)
           f == CHOOSE g : g = [k \in 0..m |-> IF k = 0 THEN d ELSE WithImportedLine(g[k - 1], receipt, lines[k])]
<1>1. AfterImport(m, d, receipt, lines, f)
  <2>1. \E g : AfterImport(m, d, receipt, lines, g)
    BY AfterImportExist
  <2> QED
    BY <2>1, Zenon DEF AfterImport
<1>2. Imported(d, receipt, lines) = f[m]
  BY DEF Imported
<1> HIDE DEF f
<1>3. f[0] = d
  BY <1>1 DEF AfterImport
<1>4. ASSUME NEW k \in Nat, k + 1 <= m PROVE f[k + 1] = WithImportedLine(f[k], receipt, lines[k + 1]) /\ k + 1 \in 1..m
  <2>1. k + 1 \in 0..m /\ k + 1 # 0 /\ (k + 1) - 1 = k /\ k + 1 \in 1..m
    BY <1>4
  <2> QED
    BY <1>1, <2>1 DEF AfterImport
<1> DEFINE S == {k \in Nat : k <= m => Agrees(f[k], moved) /\ Given(f[k], f[k].serial) /\ Extends(d, f[k])}
<1>5. 0 \in S
  BY <1>3, ExtendsSelf
<1>6. ASSUME NEW k \in Nat, k \in S PROVE k + 1 \in S
  <2> SUFFICES ASSUME k + 1 <= m
               PROVE  Agrees(f[k + 1], moved) /\ Given(f[k + 1], f[k + 1].serial) /\ Extends(d, f[k + 1])
    OBVIOUS
  <2>1. Agrees(f[k], moved) /\ Given(f[k], f[k].serial) /\ Extends(d, f[k])
    BY <1>6
  <2>2. f[k + 1] = WithImportedLine(f[k], receipt, lines[k + 1]) /\ Sent(f[k], lines[k + 1])
        /\ receipt \in DOMAIN f[k].receipts
    <3>1. f[k + 1] = WithImportedLine(f[k], receipt, lines[k + 1]) /\ Sent(d, lines[k + 1])
      BY <1>4
    <3> QED
      <4>1. Sent(f[k], lines[k + 1])
        BY ONLY <2>1, <3>1, SentOn
      <4>2. receipt \in DOMAIN f[k].receipts
        BY <2>1 DEF Extends
      <4> QED
        BY <3>1, <4>1, <4>2
  <2>3. Agrees(f[k + 1], moved) /\ Given(f[k + 1], f[k + 1].serial) /\ Extends(f[k], f[k + 1])
    BY <2>1, <2>2, WithImportedLineKeeps
  <2> QED
    BY <2>1, <2>3, ExtendsOn
<1> HIDE DEF S
<1>7. \A k \in Nat : k \in S
  BY <1>5, <1>6, SetInduction
<1>8. Agrees(f[m], moved) /\ Given(f[m], f[m].serial) /\ Extends(d, f[m])
  BY <1>7 DEF S
<1> QED
  BY <1>2, <1>8

-------------------------------------------------------------------------------
\* The steps on receipts.

\* The same evidence of the same lines; and evidence that is in other stores.
SameEvidence(d, e) ==
  DOMAIN e.items = DOMAIN d.items /\ e.listings = d.listings /\ e.observations = d.observations

Elsewhere(d, e) ==
  /\ e.items = d.items /\ e.listings = d.listings /\ DOMAIN e.observations = DOMAIN d.observations
  /\ \A o \in DOMAIN d.observations :
       /\ e.observations[o].item = d.observations[o].item
       /\ e.observations[o].price = d.observations[o].price
       /\ \E store : e.observations[o] = [d.observations[o] EXCEPT !.store = store]

\* What has been extended keeps its prices, before the stores of evidence are brought in line too.
LEMMA ExtendedPrices ==
  ASSUME NEW d, Agrees(d, NoId), NEW c, SameEvidence(d, c), NEW f, Extends(c, f), NEW e, Elsewhere(f, e)
  PROVE  PricesKept(d, e)
<1> USE DEF SameEvidence, Elsewhere
<1>1. d.observations \in Table(Observation)
  BY FieldsOf DEF Agrees
<1>2. ASSUME NEW i \in DOMAIN e.items \ DOMAIN d.items, e.items[i].status = "confirmed"
      PROVE  \E o \in DOMAIN e.observations : ObservationsOf(e, {i}) = {o} /\ e.observations[o].price = e.items[i].price
  <2>1. PICK o \in DOMAIN f.observations :
          /\ f.observations[o].item = i /\ f.observations[o].price = f.items[i].price
          /\ \A k \in DOMAIN f.observations : f.observations[k].item = i => k = o
    BY <1>2 DEF Extends
  <2>2. ObservationsOf(e, {i}) = {o}
    BY <2>1 DEF ObservationsOf
  <2> QED
    BY <2>1, <2>2
<1>3. ASSUME NEW o \in DOMAIN d.observations
      PROVE  /\ o \in DOMAIN e.observations
             /\ [e.observations[o] EXCEPT !.store = d.observations[o].store] = d.observations[o]
             /\ e.listings[d.observations[o].listing].variant = d.listings[d.observations[o].listing].variant
  <2>1. o \in DOMAIN f.observations /\ f.observations[o] = d.observations[o]
    BY DEF Extends
  <2>2. PICK store : e.observations[o] = [d.observations[o] EXCEPT !.store = store]
    <3>1. \E store : e.observations[o] = [f.observations[o] EXCEPT !.store = store]
      BY <2>1
    <3> QED
      BY ONLY <2>1, <3>1
  <2>3. d.observations[o] \in Observation
    BY <1>1, TableIs
  <2>4. [e.observations[o] EXCEPT !.store = d.observations[o].store] = d.observations[o]
    BY <2>2, <2>3, Zenon DEF Observation
  <2>5. d.observations[o].listing \in DOMAIN d.listings
    BY DEF Agrees, EvidenceAgrees, Evidenced
  <2> QED
    BY <2>1, <2>4, <2>5 DEF Extends
<1> QED
  BY <1>2, <1>3 DEF PricesKept

LEMMA LinesAreSent ==
  ASSUME RecordsInv, NEW n \in Nat, NEW lines \in [1..n -> Lines]
  PROVE  Len(lines) \in Nat /\ \A k \in 1..Len(lines) : Sent(db, lines[k])
<1>1. lines \in Seq(Lines) /\ Len(lines) = n
  BY SeqDef
<1>2. ASSUME NEW k \in 1..n PROVE Sent(db, lines[k])
  <2>1. lines[k] \in Lines
    OBVIOUS
  <2> QED
    BY <2>1 DEF Lines, Sent
<1> QED
  BY <1>1, <1>2

LEMMA ImportReceiptKeeps ==
  ASSUME RecordsInv, NEW key \in ImportKeys, NEW store \in DOMAIN db.stores \cup {NoId}, NEW retailer \in Retailers,
         NEW n \in Nat, NEW lines \in [1..n -> Lines], ImportReceipt(key, store, retailer, lines)
  PROVE  Keeps(db, db')
<1> DEFINE id == db.serial + 1
           newShop == store \notin DOMAIN db.stores
           stores == IF newShop THEN Put(db.stores, id, [retailer |-> retailer]) ELSE db.stores
           d == IF newShop THEN [db EXCEPT !.stores = Put(@, id, [retailer |-> retailer])] ELSE db
           s == IF newShop THEN id ELSE store
           row == [retailer |-> stores[s].retailer, store |-> s, key |-> key]
           receipts == Put(db.receipts, id, row)
           e == [db EXCEPT !.stores = stores, !.receipts = receipts, !.serial = id]
<1>1. db \in Database /\ db.serial \in Nat /\ Agrees(db, NoId) /\ Given(db, db.serial)
  BY FieldsOf DEF RecordsInv, Agrees
<1>2. id \in Nat \ {NoId} /\ Given(db, id) /\ id \in 1..id /\ id \notin DOMAIN db.stores /\ id \notin DOMAIN db.receipts
  BY <1>1, NextId
<1>3. db' = Imported(e, id, lines)
  <2>1. d.stores = stores
    BY <1>1 DEF Database
  <2>2. [d EXCEPT !.receipts = Put(@, id, [retailer |-> d.stores[s].retailer, store |-> s, key |-> key]), !.serial = id] = e
    <3>1. CASE newShop
      BY <1>1, <2>1, <3>1 DEF Database
    <3>2. CASE ~newShop
      BY <1>1, <2>1, <3>2 DEF Database
    <3> QED
      BY <3>1, <3>2
  <2>3. db' = Imported([d EXCEPT !.receipts = Put(@, id, [retailer |-> d.stores[s].retailer, store |-> s, key |-> key]),
                                 !.serial = id], id, lines)
    BY DEF ImportReceipt, FreshId
  <2> QED
    BY <2>2, <2>3
<1> HIDE DEF id, d
<1>4. /\ stores \in Table(Store) /\ s \in DOMAIN stores /\ s \in 1..id
      /\ DOMAIN db.stores \subseteq DOMAIN stores /\ DOMAIN stores \subseteq 1..id
  <2>1. CASE newShop
    <3> DEFINE shop == [retailer |-> retailer]
    <3>1. shop \in Store
      BY DEF Store
    <3>2. stores = Put(db.stores, id, shop) /\ s = id
      BY <2>1
    <3> HIDE DEF shop, stores, s
    <3>3. stores \in Table(Store)
      BY <1>1, <1>2, <3>1, <3>2, FieldsOf, PutIs
    <3>4. DOMAIN stores = DOMAIN db.stores \cup {id}
      BY <3>2 DEF Put
    <3> QED
      BY <1>2, <3>2, <3>3, <3>4 DEF Given
  <2>2. CASE ~newShop
    BY <1>1, <1>2, <2>2, FieldsOf DEF Given
  <2> QED
    BY <2>1, <2>2
<1> HIDE DEF stores, s, newShop
<1>5. row \in Receipt /\ row.store = s
  <2>1. stores[s] \in Store
    BY <1>4, TableIs
  <2> QED
    BY <1>4, <2>1 DEF Store, Receipt
<1> HIDE DEF row
<1>6. receipts \in Table(Receipt)
  BY <1>1, <1>2, <1>5, FieldsOf, PutIs
<1>7. DOMAIN receipts = DOMAIN db.receipts \cup {id} /\ receipts[id] = row
      /\ \A k \in DOMAIN db.receipts : k # id => receipts[k] = db.receipts[k]
  BY DEF Put
<1> HIDE DEF receipts
<1>8. e \in Database
  BY <1>1, <1>2, <1>4, <1>6 DEF Database
<1>9. /\ e.categories = db.categories /\ e.parents = db.parents /\ e.variants = db.variants
      /\ e.search = db.search /\ e.listings = db.listings /\ e.observations = db.observations
      /\ e.stores = stores /\ e.receipts = receipts /\ e.items = db.items
      /\ e.linked = db.linked /\ e.serial = id
  BY <1>1 DEF Database
<1> HIDE DEF e
<1>10. ReceiptsAgree(e.receipts, e.stores)
  BY <1>1, <1>2, <1>4, <1>5, <1>7, <1>9 DEF Agrees, ReceiptsAgree
<1>11. ItemsAgree(e.items, e.receipts, e.variants, e.categories)
  BY <1>1, <1>7, <1>9 DEF Agrees, ItemsAgree
<1>12. EvidenceAgrees(e.observations, e.listings, e.stores, e.items, e.receipts, NoId)
  <2>1. EvidenceAgrees(db.observations, db.listings, db.stores, db.items, db.receipts, NoId)
    BY <1>1 DEF Agrees
  <2>2. \A i \in DOMAIN db.items : receipts[db.items[i].receipt] = db.receipts[db.items[i].receipt]
    BY <1>1, <1>2, <1>7 DEF Agrees, ItemsAgree
  <2>3. ASSUME NEW o \in DOMAIN db.observations
        PROVE  Evidenced(db.observations[o], db.listings, stores, db.items, receipts, NoId)
    BY <1>4, <2>1, <2>2 DEF EvidenceAgrees, Evidenced
  <2> QED
    BY <1>9, <2>3 DEF EvidenceAgrees
<1>13. LinksAgree(e.linked, e.variants, e.stores)
  BY <1>1, <1>4, <1>9 DEF Agrees, LinksAgree
<1>14. Agrees(e, NoId)
  BY <1>1, <1>8, <1>9, <1>10, <1>11, <1>12, <1>13 DEF Agrees
<1>15. Given(e, e.serial) /\ id \in DOMAIN e.receipts
  BY <1>2, <1>4, <1>7, <1>9 DEF Given
<1>16. Len(lines) \in Nat /\ \A k \in 1..Len(lines) : Sent(e, lines[k])
  BY <1>9, LinesAreSent DEF Sent
<1>17. Agrees(db', NoId) /\ Given(db', db'.serial) /\ Extends(e, db')
  BY <1>3, <1>14, <1>15, <1>16, ImportedKeeps
<1>18. PricesKept(db, db')
  <2>1. db'.observations \in Table(Observation)
    BY <1>17, FieldsOf DEF Agrees
  <2>2. Elsewhere(db', db')
    <3>1. ASSUME NEW o \in DOMAIN db'.observations
          PROVE  db'.observations[o] = [db'.observations[o] EXCEPT !.store = db'.observations[o].store]
      BY <2>1, SameStore
    <3> QED
      BY <3>1 DEF Elsewhere
  <2>3. SameEvidence(db, e)
    BY <1>9 DEF SameEvidence
  <2> QED
    BY <1>1, <1>17, <2>2, <2>3, ExtendedPrices
<1> QED
  BY <1>17, <1>18 DEF Keeps

LEMMA ChosenLines ==
  ASSUME RecordsInv, NEW price, NEW category,
         NEW added \in {<<>>} \cup [{1} -> {line \in Lines :
           line.variant = NoId /\ line.status = "confirmed" /\ line.price = price /\ line.category = category}]
  PROVE  Len(added) \in Nat /\ \A k \in 1..Len(added) : Sent(db, added[k])
<1>1. CASE added = <<>>
  BY <1>1
<1>2. CASE added # <<>>
  <2>1. added \in [1..1 -> Lines]
    BY <1>2
  <2> QED
    BY <2>1, LinesAreSent
<1> QED
  BY <1>1, <1>2

LEMMA UpdateReceiptKeeps ==
  ASSUME RecordsInv, NEW r \in DOMAIN db.receipts, NEW store \in DOMAIN db.stores, NEW price \in Prices,
         NEW category \in DOMAIN db.categories, NEW kept,
         NEW added, Len(added) \in Nat, \A k \in 1..Len(added) : Sent(db, added[k]),
         UpdateReceipt(r, store, kept, price, category, added)
  PROVE  Keeps(db, db')
<1> DEFINE edited == [i \in ShownLines(db, r) |->
                        IF i \in kept THEN [db.items[i] EXCEPT !.price = price, !.category = category, !.status = "confirmed"]
                        ELSE [db.items[i] EXCEPT !.status = "deleted"]]
           items == [i \in DOMAIN db.items |-> IF i \in DOMAIN edited THEN edited[i] ELSE db.items[i]]
           receipts == [db.receipts EXCEPT ![r].store = store]
           d == [db EXCEPT !.receipts[r].store = store,
                           !.items = [i \in DOMAIN @ |-> IF i \in DOMAIN edited THEN edited[i] ELSE @[i]]]
           e == WithLines(d, r, added)
           Of == ObservationsOf(e, LinesOf(e, r))
           observations == [o \in DOMAIN e.observations |->
                              IF o \in Of THEN [e.observations[o] EXCEPT !.store = store] ELSE e.observations[o]]
<1>1. db \in Database /\ Agrees(db, NoId) /\ Given(db, db.serial)
  BY DEF RecordsInv, Agrees
<1>2. /\ db.items \in Table(Item) /\ db.receipts \in Table(Receipt) /\ db.stores \in Table(Store)
      /\ DOMAIN db.categories \subseteq Nat
  BY <1>1, FieldsOf, TableIs
<1>3. ASSUME NEW i \in DOMAIN db.items
      PROVE  items[i] \in Item /\ items[i].receipt = db.items[i].receipt /\ items[i].variant = db.items[i].variant
             /\ items[i].category \in DOMAIN db.categories
  <2>1. db.items[i] \in Item /\ category \in Nat /\ db.items[i].category \in DOMAIN db.categories
    BY <1>1, <1>2, TableIs DEF Agrees, ItemsAgree
  <2>2. CASE i \in ShownLines(db, r) /\ i \in kept
    <3>1. items[i] = [db.items[i] EXCEPT !.price = price, !.category = category, !.status = "confirmed"]
      BY <2>2
    <3> HIDE DEF items
    <3> QED
      BY <2>1, <3>1 DEF Item
  <2>3. CASE i \in ShownLines(db, r) /\ i \notin kept
    <3>1. items[i] = [db.items[i] EXCEPT !.status = "deleted"]
      BY <2>3
    <3> HIDE DEF items
    <3> QED
      BY <2>1, <3>1 DEF Item
  <2>4. CASE i \notin ShownLines(db, r)
    <3>1. items[i] = db.items[i]
      BY <2>4
    <3> HIDE DEF items
    <3> QED
      BY <2>1, <3>1
  <2> QED
    BY <2>2, <2>3, <2>4
<1>4. DOMAIN items = DOMAIN db.items
  OBVIOUS
<1>5. items \in Table(Item)
  <2>1. items \in [DOMAIN db.items -> Item] /\ DOMAIN db.items \subseteq Nat
    <3>1. items = [i \in DOMAIN db.items |-> items[i]]
      OBVIOUS
    <3> HIDE DEF items
    <3> QED
      <4>1. DOMAIN db.items \subseteq Nat /\ \A i \in DOMAIN db.items : items[i] \in Item
        BY <1>2, <1>3, TableIs
      <4> QED
        BY ONLY <3>1, <4>1
  <2> HIDE DEF items
  <2> QED
    BY <2>1 DEF Table
<1>6. d = [db EXCEPT !.receipts = receipts, !.items = items]
  BY <1>1 DEF Database
<1>7. db' = [e EXCEPT !.observations = observations]
  BY DEF UpdateReceipt
<1> HIDE DEF items, edited
<1>8. receipts \in Table(Receipt) /\ DOMAIN receipts = DOMAIN db.receipts
      /\ receipts[r] = [db.receipts[r] EXCEPT !.store = store] /\ receipts[r].store = store
      /\ receipts[r].retailer = db.receipts[r].retailer
      /\ \A k \in DOMAIN db.receipts : k # r => receipts[k] = db.receipts[k]
  <2>1. db.receipts[r] \in Receipt /\ store \in Nat /\ DOMAIN db.receipts \subseteq Nat
        /\ db.receipts \in [DOMAIN db.receipts -> Receipt]
    BY <1>2, TableIs
  <2> DEFINE row == [db.receipts[r] EXCEPT !.store = store]
  <2>2. row \in Receipt /\ row.store = store /\ row.retailer = db.receipts[r].retailer
    BY <2>1 DEF Receipt
  <2>3. receipts = [db.receipts EXCEPT ![r] = row]
    BY <2>1
  <2> HIDE DEF row, receipts
  <2>4. receipts \in [DOMAIN db.receipts -> Receipt] /\ DOMAIN receipts = DOMAIN db.receipts /\ receipts[r] = row
        /\ \A k \in DOMAIN db.receipts : k # r => receipts[k] = db.receipts[k]
    BY <2>1, <2>2, <2>3
  <2>5. receipts \in Table(Receipt)
    BY <2>1, <2>4, TableIs
  <2> QED
    BY <2>2, <2>4, <2>5 DEF row
<1> HIDE DEF receipts
<1>9. d \in Database
  BY <1>1, <1>5, <1>6, <1>8 DEF Database
<1>10. /\ d.categories = db.categories /\ d.parents = db.parents /\ d.variants = db.variants
       /\ d.search = db.search /\ d.listings = db.listings /\ d.observations = db.observations
       /\ d.stores = db.stores /\ d.receipts = receipts /\ d.items = items
       /\ d.linked = db.linked /\ d.serial = db.serial
  BY <1>1, <1>6 DEF Database
<1> HIDE DEF d
<1>11. ReceiptsAgree(d.receipts, d.stores)
  BY <1>1, <1>8, <1>10 DEF Agrees, ReceiptsAgree
<1>12. ItemsAgree(d.items, d.receipts, d.variants, d.categories)
  BY <1>1, <1>3, <1>4, <1>8, <1>10 DEF Agrees, ItemsAgree
<1>13. EvidenceAgrees(d.observations, d.listings, d.stores, d.items, d.receipts, r)
  <2>1. EvidenceAgrees(db.observations, db.listings, db.stores, db.items, db.receipts, NoId)
    BY <1>1 DEF Agrees
  <2>2. \A i \in DOMAIN db.items : db.items[i].receipt \in DOMAIN db.receipts /\ db.items[i].receipt # NoId
    <3>1. \A k \in DOMAIN db.receipts : k # NoId
      BY <1>1, FieldsOf DEF Given, NoId
    <3> QED
      BY <1>1, <3>1 DEF Agrees, ItemsAgree
  <2>3. ASSUME NEW o \in DOMAIN db.observations
        PROVE  Evidenced(db.observations[o], db.listings, db.stores, items, receipts, r)
    <3> DEFINE seen == db.observations[o]
    <3>1. Evidenced(seen, db.listings, db.stores, db.items, db.receipts, NoId)
      BY <2>1 DEF EvidenceAgrees
    <3> HIDE DEF seen
    <3>2. ASSUME seen.item = NoId PROVE Evidenced(seen, db.listings, db.stores, items, receipts, r)
      BY <1>4, <3>1, <3>2 DEF Evidenced
    <3>3. ASSUME seen.item # NoId PROVE Evidenced(seen, db.listings, db.stores, items, receipts, r)
      <4>1. seen.item \in DOMAIN db.items
        BY <3>1, <3>3 DEF Evidenced
      <4>2. items[seen.item].receipt = db.items[seen.item].receipt /\ items[seen.item].variant = db.items[seen.item].variant
        BY <1>3, <4>1
      <4>3. receipts[items[seen.item].receipt].retailer = db.receipts[db.items[seen.item].receipt].retailer
            /\ (items[seen.item].receipt # r =>
                  receipts[items[seen.item].receipt].store = db.receipts[db.items[seen.item].receipt].store)
        BY <1>8, <2>2, <4>1, <4>2
      <4> QED
        BY <1>4, <2>2, <3>1, <3>3, <4>1, <4>2, <4>3 DEF Evidenced
    <3> QED
      BY <3>2, <3>3 DEF seen
  <2> QED
    BY <1>10, <2>3 DEF EvidenceAgrees
<1>14. Agrees(d, r)
  BY <1>1, <1>9, <1>10, <1>11, <1>12, <1>13 DEF Agrees
<1>15. Given(d, d.serial) /\ r \in DOMAIN d.receipts /\ \A k \in 1..Len(added) : Sent(d, added[k])
  BY <1>1, <1>4, <1>8, <1>10 DEF Given, Sent
<1>16. Agrees(e, r) /\ Given(e, e.serial) /\ Extends(d, e)
  BY <1>14, <1>15, WithLinesKeeps
<1> HIDE DEF e
<1>17. e.receipts = receipts /\ e.stores = db.stores /\ e \in Database /\ e.observations \in Table(Observation)
       /\ store \in Nat
  BY <1>2, <1>10, <1>16, FieldsOf, TableIs DEF Extends, Agrees
<1>18. ASSUME NEW o \in DOMAIN e.observations
       PROVE  LET seen == observations[o]
              IN /\ seen \in Observation
                 /\ \E at : seen = [e.observations[o] EXCEPT !.store = at]
                 /\ seen.listing = e.observations[o].listing /\ seen.retailer = e.observations[o].retailer
                 /\ seen.price = e.observations[o].price /\ seen.item = e.observations[o].item
                 /\ seen.store = IF o \in Of THEN store ELSE e.observations[o].store
  <2>1. e.observations[o] \in Observation
    BY <1>17, TableIs
  <2>2. CASE o \in Of
    <3>1. observations[o] = [e.observations[o] EXCEPT !.store = store]
      BY <2>2
    <3> HIDE DEF observations, Of
    <3> QED
      BY <1>17, <2>1, <2>2, <3>1 DEF Observation
  <2>3. CASE o \notin Of
    <3>1. observations[o] = e.observations[o]
      BY <2>3
    <3>2. e.observations[o] = [e.observations[o] EXCEPT !.store = e.observations[o].store]
      BY <1>17, SameStore
    <3> HIDE DEF observations, Of
    <3> QED
      BY <2>1, <2>3, <3>1, <3>2
  <2> QED
    BY <2>2, <2>3
<1>19. DOMAIN observations = DOMAIN e.observations
  OBVIOUS
<1>20. observations \in Table(Observation)
  <2>1. observations = [o \in DOMAIN e.observations |-> observations[o]]
    OBVIOUS
  <2> HIDE DEF observations
  <2>2. observations \in [DOMAIN e.observations -> Observation]
    BY <1>18, <2>1
  <2>3. DOMAIN e.observations \subseteq Nat
    BY <1>17, TableIs
  <2> QED
    BY <2>2, <2>3 DEF Table
<1>21. \A o \in DOMAIN e.observations : o \in Of <=> e.observations[o].item \in DOMAIN e.items
                                                    /\ e.items[e.observations[o].item].receipt = r
  BY DEF ObservationsOf, LinesOf
<1> HIDE DEF observations, Of
<1>22. /\ db' \in Database
       /\ db'.categories = e.categories /\ db'.parents = e.parents /\ db'.variants = e.variants
       /\ db'.search = e.search /\ db'.listings = e.listings /\ db'.observations = observations
       /\ db'.stores = e.stores /\ db'.receipts = e.receipts /\ db'.items = e.items
       /\ db'.linked = e.linked /\ db'.serial = e.serial
  BY <1>7, <1>17, <1>20 DEF Database
<1>23. EvidenceAgrees(db'.observations, db'.listings, db'.stores, db'.items, db'.receipts, NoId)
  <2>1. EvidenceAgrees(e.observations, e.listings, e.stores, e.items, e.receipts, r)
    BY <1>16 DEF Agrees
  <2>2. NoId \notin DOMAIN e.items
    BY <1>16, <1>17, FieldsOf DEF Given, NoId
  <2>3. ASSUME NEW o \in DOMAIN e.observations
        PROVE  Evidenced(observations[o], e.listings, e.stores, e.items, e.receipts, NoId)
    <3> DEFINE seen == observations[o]
               was == e.observations[o]
    <3>1. Evidenced(was, e.listings, e.stores, e.items, e.receipts, r)
      BY <2>1 DEF EvidenceAgrees
    <3>2. seen.listing = was.listing /\ seen.retailer = was.retailer /\ seen.item = was.item
          /\ seen.store = IF o \in Of THEN store ELSE was.store
      BY <1>18
    <3>3. o \in Of <=> was.item \in DOMAIN e.items /\ e.items[was.item].receipt = r
      BY <1>21
    <3> HIDE DEF seen, was
    <3>4. seen.store \in DOMAIN e.stores \cup {NoId}
      <4>1. was.store \in DOMAIN e.stores \cup {NoId} /\ store \in DOMAIN e.stores
        BY <1>17, <3>1 DEF Evidenced
      <4> QED
        BY <3>2, <4>1
    <3>5. ASSUME seen.item # NoId PROVE seen.store = e.receipts[e.items[seen.item].receipt].store
      <4>1. seen.item = was.item /\ was.item \in DOMAIN e.items
        BY <3>1, <3>2, <3>5 DEF Evidenced
      <4>2. CASE o \in Of
        BY <1>8, <1>17, <3>2, <3>3, <4>1, <4>2
      <4>3. CASE o \notin Of
        BY <3>1, <3>2, <3>3, <3>5, <4>1, <4>3 DEF Evidenced
      <4> QED
        BY <4>2, <4>3
    <3>6. Evidenced(seen, e.listings, e.stores, e.items, e.receipts, NoId)
      BY <3>1, <3>2, <3>4, <3>5 DEF Evidenced
    <3> QED
      BY <3>6 DEF seen
  <2> QED
    BY <1>19, <1>22, <2>3 DEF EvidenceAgrees
<1>24. Agrees(db', NoId)
  BY <1>16, <1>22, <1>23 DEF Agrees
<1>25. Given(db', db'.serial)
  BY <1>16, <1>19, <1>22 DEF Given
<1>26. PricesKept(db, db')
  <2>1. Elsewhere(e, db')
    BY <1>18, <1>19, <1>22 DEF Elsewhere
  <2>2. SameEvidence(db, d)
    BY <1>4, <1>10 DEF SameEvidence
  <2> QED
    BY <1>1, <1>16, <2>1, <2>2, ExtendedPrices
<1> QED
  BY <1>24, <1>25, <1>26 DEF Keeps

LEMMA DeleteReceiptsKeeps ==
  ASSUME RecordsInv, NEW rs \in SUBSET DOMAIN db.receipts, DeleteReceipts(rs)
  PROVE  Keeps(db, db')
<1> DEFINE lines == UNION {LinesOf(db, r) : r \in rs}
           gone == ObservationsOf(db, lines)
           observations == Drop(db.observations, gone)
           items == Drop(db.items, lines)
           receipts == Drop(db.receipts, rs)
<1>1. db \in Database /\ Agrees(db, NoId) /\ Given(db, db.serial) /\ db.observations \in Table(Observation)
  BY FieldsOf DEF RecordsInv, Agrees
<1>2. observations \in Table(Observation) /\ items \in Table(Item) /\ receipts \in Table(Receipt)
  BY <1>1, FieldsOf, DropIs
<1>3. /\ DOMAIN observations = DOMAIN db.observations \ gone
      /\ \A k \in DOMAIN observations : observations[k] = db.observations[k]
      /\ DOMAIN items = DOMAIN db.items \ lines /\ \A k \in DOMAIN items : items[k] = db.items[k]
      /\ DOMAIN receipts = DOMAIN db.receipts \ rs /\ \A k \in DOMAIN receipts : receipts[k] = db.receipts[k]
  BY DEF Drop
<1>4. \A i : i \in lines <=> i \in DOMAIN db.items /\ db.items[i].receipt \in rs
  BY DEF LinesOf
<1>5. \A o : o \in gone <=> o \in DOMAIN db.observations /\ db.observations[o].item \in lines
  BY DEF ObservationsOf
<1>6. db' = [db EXCEPT !.observations = observations, !.items = items, !.receipts = receipts]
  BY DEF DeleteReceipts
<1> HIDE DEF observations, items, receipts, gone, lines
<1>7. db' \in Database
  BY <1>1, <1>2, <1>6 DEF Database
<1>8. /\ db'.categories = db.categories /\ db'.parents = db.parents /\ db'.variants = db.variants
      /\ db'.search = db.search /\ db'.listings = db.listings /\ db'.observations = observations
      /\ db'.stores = db.stores /\ db'.receipts = receipts /\ db'.items = items
      /\ db'.linked = db.linked /\ db'.serial = db.serial
  BY <1>1, <1>6 DEF Database
<1>9. ReceiptsAgree(db'.receipts, db'.stores)
  BY <1>1, <1>3, <1>8 DEF Agrees, ReceiptsAgree
<1>10. ItemsAgree(db'.items, db'.receipts, db'.variants, db'.categories)
  BY <1>1, <1>3, <1>4, <1>8 DEF Agrees, ItemsAgree
<1>11. EvidenceAgrees(db'.observations, db'.listings, db'.stores, db'.items, db'.receipts, NoId)
  <2>1. EvidenceAgrees(db.observations, db.listings, db.stores, db.items, db.receipts, NoId)
        /\ ItemsAgree(db.items, db.receipts, db.variants, db.categories)
    BY <1>1 DEF Agrees
  <2>2. ASSUME NEW o \in DOMAIN observations
        PROVE  Evidenced(observations[o], db.listings, db.stores, items, receipts, NoId)
    <3> DEFINE seen == db.observations[o]
    <3>1. observations[o] = seen /\ seen.item \notin lines /\ Evidenced(seen, db.listings, db.stores, db.items, db.receipts, NoId)
      BY <1>3, <1>5, <2>1 DEF EvidenceAgrees
    <3> HIDE DEF seen
    <3>2. seen.item \in DOMAIN items \cup {NoId}
      BY <1>3, <3>1 DEF Evidenced
    <3>3. ASSUME seen.item # NoId
          PROVE  items[seen.item] = db.items[seen.item]
                 /\ receipts[db.items[seen.item].receipt] = db.receipts[db.items[seen.item].receipt]
      BY <1>3, <1>4, <2>1, <3>1, <3>2, <3>3 DEF ItemsAgree
    <3> QED
      BY <3>1, <3>2, <3>3 DEF Evidenced
  <2> QED
    BY <1>8, <2>2 DEF EvidenceAgrees
<1>12. Agrees(db', NoId)
  BY <1>1, <1>7, <1>8, <1>9, <1>10, <1>11 DEF Agrees
<1>13. Given(db', db'.serial)
  BY <1>1, <1>3, <1>8 DEF Given
<1>14. PricesKept(db, db')
  <2>1. NoId \notin DOMAIN db.items
    BY <1>1, FieldsOf DEF Given, NoId
  <2>2. ASSUME NEW o \in DOMAIN db.observations, o \notin DOMAIN observations
        PROVE  db.observations[o].item # NoId /\ db.items[db.observations[o].item].receipt \notin DOMAIN receipts
    BY <1>3, <1>4, <1>5, <2>1, <2>2
  <2>3. ASSUME NEW o \in DOMAIN observations
        PROVE  [observations[o] EXCEPT !.store = db.observations[o].store] = db.observations[o]
    BY <1>1, <1>3, SameStore
  <2> QED
    BY <1>3, <1>8, <2>2, <2>3 DEF PricesKept
<1> QED
  BY <1>12, <1>13, <1>14 DEF Keeps

-------------------------------------------------------------------------------
\* The steps on stores and on what lists refer to.

\* Other stores, of which none that is referred to is missing.
Serve(stores) ==
  /\ \A o \in DOMAIN db.observations :
       db.observations[o].store \in DOMAIN db.stores => db.observations[o].store \in DOMAIN stores
  /\ \A r \in DOMAIN db.receipts : db.receipts[r].store \in DOMAIN db.stores => db.receipts[r].store \in DOMAIN stores
  /\ \A s \in db.linked : s \in DOMAIN db.stores => s \in DOMAIN stores

LEMMA StoresKeep ==
  ASSUME RecordsInv, NEW stores \in Table(Store), Serve(stores),
         NEW n \in Nat, db.serial <= n, DOMAIN stores \subseteq 1..n,
         db' = [db EXCEPT !.stores = stores, !.serial = n]
  PROVE  Keeps(db, db')
<1> USE DEF Serve
<1>1. db \in Database /\ Agrees(db, NoId) /\ Given(db, db.serial) /\ db.serial \in Nat
  BY FieldsOf DEF RecordsInv, Agrees
<1>2. db' \in Database
  BY <1>1 DEF Database
<1>3. /\ db'.categories = db.categories /\ db'.parents = db.parents /\ db'.variants = db.variants
      /\ db'.search = db.search /\ db'.listings = db.listings /\ db'.observations = db.observations
      /\ db'.stores = stores /\ db'.receipts = db.receipts /\ db'.items = db.items
      /\ db'.linked = db.linked /\ db'.serial = n
  BY <1>1 DEF Database
<1>4. ReceiptsAgree(db'.receipts, db'.stores)
  BY <1>1, <1>3 DEF Agrees, ReceiptsAgree
<1>5. EvidenceAgrees(db'.observations, db'.listings, db'.stores, db'.items, db'.receipts, NoId)
  <2>1. EvidenceAgrees(db.observations, db.listings, db.stores, db.items, db.receipts, NoId)
    BY <1>1 DEF Agrees
  <2>2. ASSUME NEW o \in DOMAIN db.observations
        PROVE  Evidenced(db.observations[o], db.listings, stores, db.items, db.receipts, NoId)
    BY <2>1 DEF EvidenceAgrees, Evidenced
  <2> QED
    BY <1>3, <2>2 DEF EvidenceAgrees
<1>6. LinksAgree(db'.linked, db'.variants, db'.stores)
  BY <1>1, <1>3 DEF Agrees, LinksAgree
<1>7. Agrees(db', NoId)
  BY <1>1, <1>2, <1>3, <1>4, <1>5, <1>6 DEF Agrees
<1>8. Given(db', db'.serial)
  BY <1>1, <1>3 DEF Given
<1>9. PricesKept(db, db')
  <2>1. EvidenceAgrees(db.observations, db.listings, db.stores, db.items, db.receipts, NoId)
    BY <1>1 DEF Agrees
  <2> QED
    BY <1>1, <1>3, <2>1, PricesUntouched
<1> QED
  BY <1>7, <1>8, <1>9 DEF Keeps

LEMMA StoreStepsKeep ==
  ASSUME RecordsInv
  PROVE  /\ \A r \in Retailers : CreateStore(r) => Keeps(db, db')
         /\ \A s \in DOMAIN db.stores, r \in Retailers : UpdateStore(s, r) => Keeps(db, db')
         /\ \A s \in DOMAIN db.stores : DeleteStore(s) => Keeps(db, db')
<1>1. db \in Database /\ Given(db, db.serial) /\ db.serial \in Nat /\ db.stores \in Table(Store)
      /\ DOMAIN db.stores \subseteq 1..db.serial
  BY FieldsOf DEF RecordsInv, Agrees, Given
<1>2. ASSUME NEW r \in Retailers, CreateStore(r) PROVE Keeps(db, db')
  <2> DEFINE id == db.serial + 1
             row == [retailer |-> r]
             stores == Put(db.stores, id, row)
  <2>1. row \in Store /\ id \in Nat
    BY <1>1 DEF Store
  <2>2. db' = [db EXCEPT !.stores = stores, !.serial = id]
    BY <1>2 DEF CreateStore, FreshId
  <2> HIDE DEF row
  <2>3. stores \in Table(Store)
    <3> HIDE DEF id
    <3> QED
      BY <1>1, <2>1, PutIs
  <2>4. DOMAIN stores = DOMAIN db.stores \cup {id}
    BY DEF Put
  <2> HIDE DEF stores
  <2>5. DOMAIN stores \subseteq 1..id /\ Serve(stores) /\ db.serial <= id
    BY <1>1, <2>4 DEF Serve
  <2> HIDE DEF id
  <2> QED
    BY <2>1, <2>2, <2>3, <2>5, StoresKeep
<1>3. ASSUME NEW s \in DOMAIN db.stores, NEW r \in Retailers, UpdateStore(s, r) PROVE Keeps(db, db')
  <2> DEFINE row == [db.stores[s] EXCEPT !.retailer = r]
             stores == [db.stores EXCEPT ![s] = row]
  <2>1. db.stores[s] \in Store /\ DOMAIN db.stores \subseteq Nat /\ db.stores \in [DOMAIN db.stores -> Store]
    BY <1>1, TableIs
  <2>2. row \in Store
    BY <2>1 DEF Store
  <2>3. db' = [db EXCEPT !.stores = stores, !.serial = db.serial]
    <3>1. db' = [db EXCEPT !.stores = stores]
      BY <1>1, <1>3, <2>1 DEF UpdateStore, Database
    <3> HIDE DEF stores
    <3> QED
      BY <1>1, <3>1 DEF Database
  <2> HIDE DEF row
  <2>4. stores \in [DOMAIN db.stores -> Store] /\ DOMAIN stores = DOMAIN db.stores
    BY <2>1, <2>2
  <2> HIDE DEF stores
  <2>5. stores \in Table(Store)
    BY <2>1, <2>4, TableIs
  <2>6. Serve(stores) /\ db.serial <= db.serial /\ DOMAIN stores \subseteq 1..db.serial
    BY <1>1, <2>4 DEF Serve
  <2> QED
    BY <1>1, <2>3, <2>5, <2>6, StoresKeep
<1>4. ASSUME NEW s \in DOMAIN db.stores, DeleteStore(s) PROVE Keeps(db, db')
  <2> DEFINE stores == Drop(db.stores, {s})
  <2>1. db' = [db EXCEPT !.stores = stores, !.serial = db.serial]
    <3>1. db' = [db EXCEPT !.stores = stores]
      BY <1>4 DEF DeleteStore
    <3> HIDE DEF stores
    <3> QED
      BY <1>1, <3>1 DEF Database
  <2>2. stores \in Table(Store) /\ DOMAIN stores = DOMAIN db.stores \ {s}
    BY <1>1, DropIs
  <2> HIDE DEF stores
  <2>3. StoreCanDelete(db, s)
    BY <1>4 DEF DeleteStore
  <2>4. Serve(stores) /\ db.serial <= db.serial /\ DOMAIN stores \subseteq 1..db.serial
    BY <1>1, <2>2, <2>3 DEF StoreCanDelete, Serve
  <2> QED
    BY <1>1, <2>1, <2>2, <2>4, StoresKeep
<1> QED
  BY <1>2, <1>3, <1>4

LEMMA LinkStepsKeep ==
  ASSUME RecordsInv
  PROVE  /\ \A id \in DOMAIN db.variants \cup DOMAIN db.stores : LinkFromList(id) => Keeps(db, db')
         /\ \A id \in db.linked : UnlinkFromList(id) => Keeps(db, db')
<1>1. db \in Database /\ Agrees(db, NoId) /\ Given(db, db.serial)
      /\ EvidenceAgrees(db.observations, db.listings, db.stores, db.items, db.receipts, NoId)
      /\ db.linked \subseteq DOMAIN db.variants \cup DOMAIN db.stores
  BY DEF RecordsInv, Agrees, LinksAgree
<1>2. DOMAIN db.variants \subseteq Nat /\ DOMAIN db.stores \subseteq Nat
  BY <1>1, FieldsOf, TableIs
<1>3. ASSUME NEW linked \in SUBSET (DOMAIN db.variants \cup DOMAIN db.stores), db' = [db EXCEPT !.linked = linked]
      PROVE  Keeps(db, db')
  <2>1. db' \in Database
    BY <1>1, <1>2, <1>3 DEF Database
  <2>2. /\ db'.categories = db.categories /\ db'.parents = db.parents /\ db'.variants = db.variants
        /\ db'.search = db.search /\ db'.listings = db.listings /\ db'.observations = db.observations
        /\ db'.stores = db.stores /\ db'.receipts = db.receipts /\ db'.items = db.items
        /\ db'.linked = linked /\ db'.serial = db.serial
    BY <1>1, <1>3 DEF Database
  <2>3. Agrees(db', NoId)
    BY <1>1, <2>1, <2>2 DEF Agrees, LinksAgree
  <2>4. Given(db', db'.serial)
    BY <1>1, <2>2 DEF Given
  <2>5. PricesKept(db, db')
    BY <1>1, <2>2, PricesUntouched
  <2> QED
    BY <2>3, <2>4, <2>5 DEF Keeps
<1>4. ASSUME NEW id \in DOMAIN db.variants \cup DOMAIN db.stores, LinkFromList(id) PROVE Keeps(db, db')
  <2>1. db' = [db EXCEPT !.linked = db.linked \cup {id}]
    BY <1>4 DEF LinkFromList
  <2>2. db.linked \cup {id} \in SUBSET (DOMAIN db.variants \cup DOMAIN db.stores)
    BY <1>1
  <2> QED
    BY <1>3, <2>1, <2>2
<1>5. ASSUME NEW id \in db.linked, UnlinkFromList(id) PROVE Keeps(db, db')
  <2>1. db' = [db EXCEPT !.linked = db.linked \ {id}]
    BY <1>5 DEF UnlinkFromList
  <2>2. db.linked \ {id} \in SUBSET (DOMAIN db.variants \cup DOMAIN db.stores)
    BY <1>1
  <2> QED
    BY <1>3, <2>1, <2>2
<1> QED
  BY <1>4, <1>5

-------------------------------------------------------------------------------
\* The theorems.

LEMMA CatalogStepKeeps == ASSUME RecordsInv, CatalogNext PROVE Keeps(db, db')
<1>1. ASSUME NEW name \in CategoryNames, NEW parent \in DOMAIN db.categories \cup {NoId},
             GetOrCreateCategory(name, parent)
      PROVE  Keeps(db, db')
  BY <1>1, CategoryStepsKeep
<1>2. ASSUME NEW c \in DOMAIN db.categories, NEW name \in CategoryNames \cup {UNKNOWN_CATEGORY_NAME},
             NEW parent \in DOMAIN db.categories \cup {NoId}, UpdateCategory(c, name, parent)
      PROVE  Keeps(db, db')
  BY <1>2, CategoryStepsKeep
<1>3. ASSUME NEW c \in DOMAIN db.categories, DeleteCategory(c) PROVE Keeps(db, db')
  BY <1>3, CategoryStepsKeep
<1>4. ASSUME NEW parent \in DOMAIN db.parents \cup {NoId}, NEW name \in Titles,
             NEW category \in DOMAIN db.categories \cup {NoId}, NEW aliases \in AliasSets,
             CreateProduct(parent, name, category, aliases)
      PROVE  Keeps(db, db')
  BY <1>4, CreateProductKeeps
<1>5. ASSUME NEW v \in DOMAIN db.variants, NEW canonicalName \in Titles, NEW variantName \in Titles,
             NEW category \in DOMAIN db.categories \cup {NoId}, NEW aliases \in AliasSets,
             UpdateProduct(v, canonicalName, variantName, category, aliases)
      PROVE  Keeps(db, db')
  BY <1>5, UpdateProductKeeps
<1>6. ASSUME NEW v \in DOMAIN db.variants, NEW p \in DOMAIN db.parents, AssignExistingParent(v, p) PROVE Keeps(db, db')
  BY <1>6, AssignExistingParentKeeps
<1>7. ASSUME NEW v \in DOMAIN db.variants, NEW name \in Titles, CreateParentAndAssign(v, name) PROVE Keeps(db, db')
  BY <1>7, CreateParentAndAssignKeeps
<1>8. ASSUME NEW v \in DOMAIN db.variants, NEW r \in Retailers, NEW title \in Titles, UpsertRetailerName(v, r, title)
      PROVE  Keeps(db, db')
  BY <1>8, UpsertRetailerNameKeeps
<1>9. ASSUME NEW v \in DOMAIN db.variants, NEW r \in Retailers, NEW store \in DOMAIN db.stores \cup {NoId},
             NEW price \in Prices, ConfirmPriceObservation(v, r, store, price)
      PROVE  Keeps(db, db')
  BY <1>9, ConfirmPriceObservationKeeps
<1>10. ASSUME NEW vs \in SUBSET DOMAIN db.variants \ {{}}, DeleteProducts(vs) PROVE Keeps(db, db')
  BY <1>10, DeleteProductsKeeps
<1> QED
  BY ONLY CatalogNext, <1>1, <1>2, <1>3, <1>4, <1>5, <1>6, <1>7, <1>8, <1>9, <1>10, Zenon DEF CatalogNext

LEMMA TicketStepKeeps == ASSUME RecordsInv, TicketStep PROVE Keeps(db, db')
<1>1. ASSUME CatalogNext PROVE Keeps(db, db')
  BY <1>1, CatalogStepKeeps
<1>2. ASSUME NEW key \in ImportKeys, NEW store \in DOMAIN db.stores \cup {NoId}, NEW retailer \in Retailers,
             NEW lines \in UNION {[1..n -> Lines] : n \in 1..MaxReceiptLines}, ImportReceipt(key, store, retailer, lines)
      PROVE  Keeps(db, db')
  <2>1. PICK n \in 1..MaxReceiptLines : lines \in [1..n -> Lines]
    OBVIOUS
  <2>2. n \in Nat
    BY TicketsAssumption
  <2> QED
    BY <1>2, <2>1, <2>2, ImportReceiptKeeps
<1>3. ASSUME NEW r \in DOMAIN db.receipts, NEW store \in DOMAIN db.stores, NEW price \in Prices,
             NEW category \in DOMAIN db.categories, NEW kept \in SUBSET ShownLines(db, r),
             NEW added \in {<<>>} \cup [{1} -> {line \in Lines :
               line.variant = NoId /\ line.status = "confirmed" /\ line.price = price /\ line.category = category}],
             UpdateReceipt(r, store, kept, price, category, added)
      PROVE  Keeps(db, db')
  <2>1. Len(added) \in Nat /\ \A k \in 1..Len(added) : Sent(db, added[k])
    BY ChosenLines
  <2> QED
    BY <1>3, <2>1, UpdateReceiptKeeps
<1>4. ASSUME NEW rs \in SUBSET DOMAIN db.receipts \ {{}}, DeleteReceipts(rs) PROVE Keeps(db, db')
  BY <1>4, DeleteReceiptsKeeps
<1>5. ASSUME NEW r \in Retailers, CreateStore(r) PROVE Keeps(db, db')
  BY <1>5, StoreStepsKeep
<1>6. ASSUME NEW s \in DOMAIN db.stores, NEW r \in Retailers, UpdateStore(s, r) PROVE Keeps(db, db')
  BY <1>6, StoreStepsKeep
<1>7. ASSUME NEW s \in DOMAIN db.stores, DeleteStore(s) PROVE Keeps(db, db')
  BY <1>7, StoreStepsKeep
<1>8. ASSUME NEW id \in DOMAIN db.variants \cup DOMAIN db.stores, LinkFromList(id) PROVE Keeps(db, db')
  BY <1>8, LinkStepsKeep
<1>9. ASSUME NEW id \in db.linked, UnlinkFromList(id) PROVE Keeps(db, db')
  BY <1>9, LinkStepsKeep
<1>10. ASSUME NEW proposals \in Proposals, MaterializeCategories(proposals) PROVE Keeps(db, db')
  BY <1>10, CategoryStepsKeep
<1> QED
  BY ONLY TicketStep, <1>1, <1>2, <1>3, <1>4, <1>5, <1>6, <1>7, <1>8, <1>9, <1>10, Zenon DEF TicketStep

LEMMA TicketNextKeeps == ASSUME RecordsInv, TicketNext PROVE RecordsInv' /\ PricesKept(db, db')
<1>1. Keeps(db, db')
  BY TicketStepKeeps DEF TicketNext
<1>2. ticketActs' \in 0..MaxTicketActs
  BY TicketsAssumption DEF RecordsInv, TicketNext
<1> QED
  BY <1>1, <1>2 DEF Keeps, RecordsInv

LEMMA InitAgrees == TicketInit => RecordsInv
<1> SUFFICES ASSUME TicketInit PROVE RecordsInv
  OBVIOUS
<1> DEFINE unknown == [name |-> UNKNOWN_CATEGORY_NAME, parent |-> NoId]
           categories == [c \in {UNKNOWN_CATEGORY_ID} |-> unknown]
<1>1. unknown \in Category /\ unknown.parent = NoId
  BY DEF Category, NoId
<1>2. /\ db = [categories |-> categories, parents |-> EmptyTable, variants |-> EmptyTable, listings |-> EmptyTable,
               search |-> EmptyTable, observations |-> EmptyTable, stores |-> EmptyTable, receipts |-> EmptyTable,
               items |-> EmptyTable, linked |-> {}, serial |-> UNKNOWN_CATEGORY_ID]
      /\ ticketActs = 0
  BY DEF TicketInit, EmptyDatabase
<1>3. DOMAIN EmptyTable = {} /\ \A Row : EmptyTable \in Table(Row)
  <2>1. ASSUME NEW Row PROVE EmptyTable \in Table(Row)
    <3>1. EmptyTable \in [{} -> Row] /\ {} \in SUBSET Nat
      BY DEF EmptyTable
    <3> QED
      BY <3>1 DEF Table
  <2> QED
    BY <2>1 DEF EmptyTable
<1>4. categories \in Table(Category)
  <2>1. categories \in [{UNKNOWN_CATEGORY_ID} -> Category] /\ {UNKNOWN_CATEGORY_ID} \in SUBSET Nat
    BY <1>1 DEF UNKNOWN_CATEGORY_ID
  <2> QED
    BY <2>1 DEF Table
<1>5. DOMAIN categories = {UNKNOWN_CATEGORY_ID} /\ categories[UNKNOWN_CATEGORY_ID] = unknown
  OBVIOUS
<1> HIDE DEF categories
<1>6. db \in Database
  BY <1>2, <1>3, <1>4 DEF Database, UNKNOWN_CATEGORY_ID
<1>7. CategoriesAgree(db.categories)
  BY <1>1, <1>2, <1>5 DEF CategoriesAgree
<1>8. Agrees(db, NoId)
  BY <1>2, <1>3, <1>6, <1>7
     DEF Agrees, ParentsAgree, VariantsAgree, SearchAgrees, ListingsAgree, ReceiptsAgree, ItemsAgree, EvidenceAgrees, LinksAgree
<1>9. Given(db, db.serial)
  BY <1>2, <1>3, <1>5 DEF Given, UNKNOWN_CATEGORY_ID
<1>10. ticketActs \in 0..MaxTicketActs
  BY <1>2, TicketsAssumption
<1> QED
  BY <1>8, <1>9, <1>10 DEF RecordsInv

\* Nothing but the database and the bound is in the invariant.
LEMMA StutterKeeps == ASSUME RecordsInv, UNCHANGED ticketVars PROVE RecordsInv'
<1>1. db' = db /\ ticketActs' = ticketActs
  BY DEF ticketVars
<1> QED
  BY <1>1 DEF RecordsInv

LEMMA RecordsStay == TicketSpec => []RecordsInv
<1>1. TicketInit => RecordsInv
  BY InitAgrees
<1>2. RecordsInv /\ [TicketNext]_ticketVars => RecordsInv'
  BY TicketNextKeeps, StutterKeeps
<1> QED
  BY <1>1, <1>2, PTL DEF TicketSpec

LEMMA FewListings ==
  ASSUME NEW d, d.listings \in Table(Listing), ListingsAgree(d.listings, d.variants), NEW r, NEW v
  PROVE  Cardinality(ListingsOf(d, r, v)) <= 1
<1>1. \A l, m \in ListingsOf(d, r, v) : l = m
  BY DEF ListingsOf, ListingsAgree
<1>2. CASE ListingsOf(d, r, v) = {}
  <2>1. Cardinality({}) = 0
    BY FS_EmptySet
  <2> QED
    BY <1>2, <2>1
<1>3. CASE ListingsOf(d, r, v) # {}
  <2>1. PICK l : ListingsOf(d, r, v) = {l}
    BY <1>1, <1>3
  <2>2. Cardinality({l}) = 1
    BY FS_Singleton
  <2> QED
    BY <2>1, <2>2
<1> QED
  BY <1>2, <1>3

LEMMA AgreeingIsSound == ASSUME RecordsInv PROVE StoreSound
<1>1. db \in Database /\ Agrees(db, NoId)
  BY DEF RecordsInv, Agrees
<1>2. ReferencesHold(db)
  <2>1. \A c \in DOMAIN db.categories : ParentExists(db, db.categories[c].parent)
    BY <1>1 DEF Agrees, CategoriesAgree, ParentExists
  <2>2. \A p \in DOMAIN db.parents : ParentExists(db, db.parents[p].category)
    BY <1>1 DEF Agrees, ParentsAgree, ParentExists
  <2>3. \A v \in DOMAIN db.variants : db.variants[v].parent \in DOMAIN db.parents
    BY <1>1 DEF Agrees, VariantsAgree
  <2>4. \A l \in DOMAIN db.listings : db.listings[l].variant \in DOMAIN db.variants
    BY <1>1 DEF Agrees, ListingsAgree
  <2>5. \A r \in DOMAIN db.receipts : db.receipts[r].store \in DOMAIN db.stores \cup {NoId}
    BY <1>1 DEF Agrees, ReceiptsAgree
  <2>6. \A i \in DOMAIN db.items :
          /\ db.items[i].receipt \in DOMAIN db.receipts
          /\ db.items[i].variant \in DOMAIN db.variants \cup {NoId}
          /\ db.items[i].category \in DOMAIN db.categories
    BY <1>1 DEF Agrees, ItemsAgree
  <2>7. \A o \in DOMAIN db.observations :
          /\ db.observations[o].listing \in DOMAIN db.listings
          /\ db.observations[o].store \in DOMAIN db.stores \cup {NoId}
          /\ db.observations[o].item \in DOMAIN db.items \cup {NoId}
    BY <1>1 DEF Agrees, EvidenceAgrees, Evidenced
  <2> QED
    BY <2>1, <2>2, <2>3, <2>4, <2>5, <2>6, <2>7 DEF ReferencesHold
<1>3. CategoriesSound(db)
  <2>1. CategoriesAgree(db.categories) /\ ParentsAgree(db.parents, db.categories)
    BY <1>1 DEF Agrees
  <2>2. ASSUME NEW c \in DOMAIN db.categories, db.categories[c].parent # NoId
        PROVE  c \notin SelfAndAbove(db, db.categories[c].parent)
    BY <2>1, <2>2, NotAboveIs DEF CategoriesAgree
  <2> QED
    BY <2>1, <2>2 DEF CategoriesSound, CategoriesAgree, ParentsAgree, LabelOf
<1>4. SearchSound(db)
  BY <1>1 DEF Agrees, SearchAgrees, SearchSound, SuggestedFor
<1>5. EvidenceSound(db)
  <2>1. ASSUME NEW r \in Retailers, NEW v \in DOMAIN db.variants PROVE Cardinality(ListingsOf(db, r, v)) <= 1
    BY <1>1, FieldsOf, FewListings DEF Agrees
  <2>2. EvidenceAgrees(db.observations, db.listings, db.stores, db.items, db.receipts, NoId)
        /\ ItemsAgree(db.items, db.receipts, db.variants, db.categories)
    BY <1>1 DEF Agrees
  <2>3. NoId \notin DOMAIN db.receipts
    BY FieldsOf, <1>1 DEF RecordsInv, Given, NoId
  <2>4. ASSUME NEW o \in DOMAIN db.observations
        PROVE  LET seen == db.observations[o]
               IN /\ db.listings[seen.listing].retailer = seen.retailer
                  /\ seen.item # NoId =>
                       /\ db.listings[seen.listing].variant = db.items[seen.item].variant
                       /\ seen.retailer = db.receipts[db.items[seen.item].receipt].retailer
                       /\ seen.store = db.receipts[db.items[seen.item].receipt].store
    BY <2>2, <2>3 DEF EvidenceAgrees, Evidenced, ItemsAgree
  <2> QED
    BY <2>1, <2>4 DEF EvidenceSound
<1> QED
  BY <1>2, <1>3, <1>4, <1>5 DEF StoreSound

LEMMA AgreeingIsTyped == ASSUME RecordsInv PROVE TicketTypeOK
<1>1. db \in Database /\ Given(db, db.serial) /\ DOMAIN db.search = DOMAIN db.variants
      /\ db.linked \subseteq DOMAIN db.variants \cup DOMAIN db.stores /\ db.serial \in Nat
  BY FieldsOf DEF RecordsInv, Agrees, SearchAgrees, LinksAgree
<1>2. ASSUME NEW t \in {"categories", "parents", "variants", "listings", "search", "observations", "stores", "receipts", "items"}
      PROVE  DOMAIN db[t] \subseteq 1..db.serial
  BY <1>1 DEF Given
<1> QED
  BY <1>1, <1>2 DEF TicketTypeOK, RecordsInv

\* The tables of db are typed, whatever requests are handled and in whatever order: rows
\* have ids that were given, and lists refer to products and stores there are.
THEOREM TablesAreTyped == TicketSpec => []TicketTypeOK
<1>1. RecordsInv => TicketTypeOK
  BY AgreeingIsTyped
<1> QED
  BY <1>1, RecordsStay, PTL

\* Imports with the triggers of the schema, edits and deletions of receipts, and the writes of
\* the catalogue, in any order: foreign keys hold, categories are a forest with unique names,
\* the search index follows the products, and evidence says what its receipt says.
THEOREM StoreIsSound == TicketSpec => []StoreSound
<1>1. RecordsInv => StoreSound
  BY AgreeingIsSound
<1> QED
  BY <1>1, RecordsStay, PTL

\* A confirmed line that is inserted leaves one observation of its price, and no step changes
\* the price or the product of an observation or removes one whose receipt stays.
THEOREM PricesStayEvidence == TicketSpec => PricesAreEvidence
<1> DEFINE Kept ==
      /\ \A i \in DOMAIN db'.items \ DOMAIN db.items : db'.items[i].status = "confirmed" =>
           \E o \in DOMAIN db'.observations :
             /\ ObservationsOf(db', {i}) = {o}
             /\ db'.observations[o].price = db'.items[i].price
      /\ \A o \in DOMAIN db.observations :
           LET seen == db.observations[o]
           IN /\ o \notin DOMAIN db'.observations =>
                   seen.item # NoId /\ db.items[seen.item].receipt \notin DOMAIN db'.receipts
              /\ o \in DOMAIN db'.observations =>
                   /\ [db'.observations[o] EXCEPT !.store = seen.store] = seen
                   /\ db'.listings[seen.listing].variant = db.listings[seen.listing].variant
<1>1. ASSUME RecordsInv, [TicketNext]_ticketVars PROVE [Kept]_ticketVars
  <2>1. CASE TicketNext
    <3>1. PricesKept(db, db')
      BY <1>1, <2>1, TicketNextKeeps
    <3> QED
      BY <3>1 DEF PricesKept
  <2>2. CASE UNCHANGED ticketVars
    BY <2>2
  <2> QED
    BY <1>1, <2>1, <2>2
<1>2. RecordsInv /\ [TicketNext]_ticketVars => [Kept]_ticketVars
  BY <1>1
<1> QED
  BY <1>2, RecordsStay, PTL DEF TicketSpec, PricesAreEvidence

================================================================================
