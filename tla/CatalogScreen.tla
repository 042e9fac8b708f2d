----------------------------- MODULE CatalogScreen -----------------------------
(***************************************************************************)
(* The catalogue screen of the web client: a list that is read again for   *)
(* every change of its filters, the sheet of a product over it, and the    *)
(* dialogs that delete products and add prices.  Every answer comes late,  *)
(* and only the reads of the list know whether they were superseded.       *)
(***************************************************************************)
EXTENDS Integers, FiniteSets

CONSTANTS
  Products,        \* the products of the catalogue
  FilterSets,      \* the filters and pages the user chooses
  Selections,      \* what is selected when the user begins
  Patience,        \* whether the user waits for a sheet before going on
  MaxBrowseCalls,  \* calls under way
  MaxBrowseActs    \* acts of a user who waits, and of one who does not

VARIABLE browse

NoProduct == "no product"
Idle      == "nothing"
Nothing   == [kind |-> Idle]
PlainList == "catalog"
NewSheet  == "catalog:new"
Elsewhere == "other"

\* An identifier is none of these marks and addresses, and there are filters to begin with.
ASSUME BrowseAssumption ==
  /\ FilterSets # {} /\ Selections \subseteq SUBSET Products /\ Patience \subseteq BOOLEAN
  /\ Products \cap {NoProduct, PlainList, NewSheet, Elsewhere} = {}

\* The part of a read of the list that is still under way: its metadata, then its products.
ListRead(b, then) ==
  [kind |-> "list", stage |-> "metadata", generation |-> b.loadGeneration + 1,
   filters |-> b.filters, aborted |-> FALSE, then |-> then]

Aborted(calls) == {IF c.kind = "list" THEN [c EXCEPT !.aborted = TRUE] ELSE c : c \in calls}

LoadProducts(b, then) ==
  [b EXCEPT !.loadGeneration = @ + 1, !.calls = Aborted(@) \cup {ListRead(b, then)}, !.status = "loading", !.latest = "loading"]

ShowProductListScreen(b) == [b EXCEPT !.screen = "list", !.shown = NoProduct]

\* The sheet and the form are filled together.
RenderProductDetail(b, p) == [b EXCEPT !.shown = p, !.form = p]

FetchProductDetail(b, p, goal) == [b EXCEPT !.calls = @ \cup {[kind |-> "detail", product |-> p, for |-> goal]}]

OpenProductDetail(b, p) == FetchProductDetail([b EXCEPT !.screen = "detail"], p, "sheet")

StartCreateProduct(b) == RenderProductDetail([b EXCEPT !.screen = "detail"], NoProduct)

OpenRequestedProduct(b, route) ==
  CASE route = PlainList -> b
    [] route = NewSheet  -> StartCreateProduct(b)
    [] OTHER             -> OpenProductDetail(b, route)

\* What follows a read of the list, however it ended.
AfterList(b, then) ==
  CASE then = Nothing -> b
    [] then.kind = "deleted" -> [b EXCEPT !.status = "deleted", !.bar = b.selection]
    [] then.kind = "activation" ->
         IF then.generation = b.activations /\ b.route = then.route
           THEN OpenRequestedProduct(b, then.route) ELSE b

\* The catalogue has been opened and its first list found.
BrowseInit ==
  /\ browse \in [view : {"catalog"}, screen : {"list"}, route : {PlainList},
                 filters : {CHOOSE f \in FilterSets : TRUE}, status : {"found"}, latest : {"found"}, listed : FilterSets, loadGeneration : {1}, activations : {1}, shown : {NoProduct}, form : {NoProduct},
                 selection : Selections, bar : Selections, bulk : {{}}, dialog : {Idle}, named : {{}}, priced : {NoProduct},
                 confirm : {FALSE}, checked : {{}}, busy : {{}}, calls : {{}}, acts : {0}, patient : Patience,
                 misplaced : {FALSE}, unnamed : {FALSE}]
  /\ browse.listed = browse.filters /\ browse.bar = browse.selection

--------------------------------------------------------------------------------

OnPage(b)   == b.view = "catalog" /\ b.dialog = Idle
OnSheet(b)  == OnPage(b) /\ b.screen = "detail"
MayLeave(b) == b.patient => \A c \in b.calls : c.kind = "list" /\ c.then = Nothing

\* An act of the user, while the network is not full.
BrowseAct(Guard, b) ==
  /\ Guard /\ browse.acts < MaxBrowseActs[browse.patient] /\ Cardinality(b.calls) <= MaxBrowseCalls
  /\ browse' = [b EXCEPT !.acts = @ + 1]

ChangeFilters(f) ==
  BrowseAct(OnPage(browse) /\ browse.screen = "list" /\ f # browse.filters /\ MayLeave(browse),
       LoadProducts([browse EXCEPT !.filters = f, !.route = PlainList], Nothing))

ActivateCatalog(route, f) ==
  BrowseAct(browse.dialog = Idle /\ MayLeave(browse),
       LoadProducts(ShowProductListScreen([browse EXCEPT !.view = "catalog", !.route = route, !.filters = f, !.activations = @ + 1]),
                    [kind |-> "activation", generation |-> browse.activations + 1, route |-> route]))

LeaveView ==
  BrowseAct(OnPage(browse) /\ MayLeave(browse), [browse EXCEPT !.view = "other", !.route = Elsewhere, !.calls = Aborted(@)])

ClickProduct(p) ==
  BrowseAct(OnPage(browse) /\ browse.screen = "list" /\ MayLeave(browse),
       OpenProductDetail([browse EXCEPT !.route = p], p))

ClickNew ==
  BrowseAct(OnPage(browse) /\ browse.screen = "list" /\ MayLeave(browse),
       StartCreateProduct([browse EXCEPT !.route = NewSheet]))

CloseProductDetail ==
  BrowseAct(OnSheet(browse) /\ MayLeave(browse),
       LoadProducts([ShowProductListScreen(browse) EXCEPT !.route = PlainList], Nothing))

SelectProduct(p) ==
  BrowseAct(OnPage(browse) /\ browse.screen = "list" /\ p \notin browse.selection,
       [browse EXCEPT !.selection = @ \cup {p}, !.bar = browse.selection \cup {p}])

\* The form is sent to the product of the sheet, or makes a product.
SaveProduct ==
  BrowseAct(OnSheet(browse) /\ "save" \notin browse.busy /\ MayLeave(browse),
       [browse EXCEPT !.busy = @ \cup {"save"},
                      !.calls = @ \cup {[kind |-> "save", product |-> browse.shown, form |-> browse.form]},
                      !.misplaced = @ \/ (browse.shown # NoProduct /\ browse.form # browse.shown)])

\* linkSelectedParent, createParentForSelected and saveRetailerName.
SaveRelation ==
  BrowseAct(OnSheet(browse) /\ browse.shown # NoProduct /\ "relation" \notin browse.busy /\ MayLeave(browse),
       [browse EXCEPT !.busy = @ \cup {"relation"}, !.calls = @ \cup {[kind |-> "relation", product |-> browse.shown]}])

OpenPriceDialog ==
  BrowseAct(OnSheet(browse) /\ browse.shown # NoProduct /\ MayLeave(browse),
       [browse EXCEPT !.dialog = "price", !.priced = browse.shown])

SavePrice ==
  BrowseAct(browse.dialog = "price" /\ "price" \notin browse.busy /\ browse.shown # NoProduct,
       [browse EXCEPT !.busy = @ \cup {"price"}, !.calls = @ \cup {[kind |-> "price", product |-> browse.shown]},
                      !.unnamed = @ \/ browse.shown # browse.priced])

\* The dialog opens with its button off, and asks what would be lost.
AskImpact(b, doomed) ==
  [b EXCEPT !.dialog = "delete", !.named = doomed, !.confirm = FALSE,
            !.calls = @ \cup {[kind |-> "impact", of |-> doomed, bulk |-> b.bulk # {}]}]

\* Mutant: the products of the last deletion of many are not forgotten.
KeepBulk ==
  BrowseAct(OnSheet(browse) /\ browse.shown # NoProduct /\ MayLeave(browse), AskImpact(browse, {browse.shown}))

OpenProductDeleteDialog ==
  BrowseAct(OnSheet(browse) /\ browse.shown # NoProduct /\ MayLeave(browse),
       AskImpact([browse EXCEPT !.bulk = {}], {browse.shown}))

OpenProductBulkDeleteDialog ==
  BrowseAct(OnPage(browse) /\ browse.screen = "list" /\ browse.selection # {} /\ MayLeave(browse),
       AskImpact([browse EXCEPT !.bulk = browse.selection], browse.selection))

CloseDialog == BrowseAct(browse.dialog # Idle, [browse EXCEPT !.dialog = Idle])

\* What the server is asked to delete when the user confirms.
Doomed(b) == IF b.bulk # {} THEN b.bulk ELSE {b.shown} \ {NoProduct}

ConfirmProductDelete ==
  BrowseAct(browse.dialog = "delete" /\ browse.confirm /\ Doomed(browse) # {},
       [browse EXCEPT !.confirm = FALSE,
                      !.calls = @ \cup {[kind |-> "delete", of |-> Doomed(browse), bulk |-> browse.bulk # {}]},
                      !.unnamed = @ \/ Doomed(browse) # browse.named])

--------------------------------------------------------------------------------

MetadataAnswered(c) ==
  /\ c.kind = "list" /\ c.stage = "metadata"
  /\ browse' = [browse EXCEPT !.calls = (@ \ {c}) \cup {[c EXCEPT !.stage = "products", !.filters = browse.filters]}]

IsLatest(c) == c.generation = browse.loadGeneration

ListAnswered(c) ==
  /\ c.kind = "list" /\ c.stage = "products" /\ ~c.aborted
  /\ LET b == [browse EXCEPT !.calls = @ \ {c}] IN
     browse' = AfterList(IF IsLatest(c) THEN [b EXCEPT !.listed = c.filters, !.status = "found", !.latest = "found",
                                                      !.bar = b.selection] ELSE b, c.then)

\* A read that was given up says nothing; one whose metadata fails speaks only for the latest.
ListFails(c) ==
  /\ c.kind = "list"
  /\ LET b == [browse EXCEPT !.calls = @ \ {c}]
         silent == (c.aborted /\ c.stage = "products") \/ ~IsLatest(c) IN
     browse' = AfterList([b EXCEPT !.status = IF silent THEN @ ELSE "failed",
                                   !.latest = IF c.generation = browse.loadGeneration THEN "failed" ELSE @], c.then)

DetailAnswered(c) ==
  /\ c.kind = "detail"
  /\ LET b == RenderProductDetail([browse EXCEPT !.calls = @ \ {c}], c.product) IN
     browse' = IF c.for = "sheet" THEN b
               ELSE LoadProducts([b EXCEPT !.dialog = IF @ = "price" THEN Idle ELSE @, !.busy = @ \ {"price"}], Nothing)

DetailFails(c) ==
  /\ c.kind = "detail"
  /\ browse' = IF c.for = "sheet" THEN [browse EXCEPT !.calls = @ \ {c}, !.shown = NoProduct]
               ELSE [browse EXCEPT !.calls = @ \ {c}, !.busy = @ \ {"price"}]

PriceSaved(c) ==
  /\ c.kind = "price"
  /\ browse' = FetchProductDetail([browse EXCEPT !.calls = @ \ {c}], c.product, "price")

\* A product made here gets its identifier; the sheet shows it and its address is written.
ProductSaved(c) ==
  /\ c.kind = "save"
  /\ \E p \in IF c.product = NoProduct THEN Products ELSE {c.product} :
       browse' = LoadProducts([RenderProductDetail([browse EXCEPT !.calls = @ \ {c}], p)
                                 EXCEPT !.busy = @ \ {"save"}, !.route = p], Nothing)

RelationSaved(c) ==
  /\ c.kind = "relation"
  /\ browse' = LoadProducts([RenderProductDetail([browse EXCEPT !.calls = @ \ {c}], c.product) EXCEPT !.busy = @ \ {"relation"}], Nothing)

Button == [save |-> "save", relation |-> "relation", price |-> "price", delete |-> "confirm", impact |-> "none"]

CallFails(c) ==
  /\ c.kind \in DOMAIN Button
  /\ browse' = [browse EXCEPT !.calls = @ \ {c}, !.busy = @ \ {Button[c.kind]}, !.confirm = @ \/ c.kind = "delete"]

ImpactAnswered(c, canDelete) ==
  /\ c.kind = "impact"
  /\ browse' = [browse EXCEPT !.calls = @ \ {c},
                              !.checked = IF canDelete THEN c.of ELSE @,
                              !.confirm = canDelete \/ (c.bulk /\ @)]

ProductsDeleted(c) ==
  /\ c.kind = "delete"
  /\ LET b    == [browse EXCEPT !.calls = @ \ {c}, !.dialog = IF @ = "delete" THEN Idle ELSE @, !.confirm = TRUE]
         then == [kind |-> "deleted"] IN
     browse' = IF c.bulk THEN LoadProducts([b EXCEPT !.selection = @ \ c.of, !.bulk = {}], then)
               ELSE LoadProducts([ShowProductListScreen(b) EXCEPT !.route = PlainList], then)

Answer(c) ==
  \/ MetadataAnswered(c) \/ ListAnswered(c) \/ ListFails(c) \/ DetailAnswered(c) \/ DetailFails(c)
  \/ PriceSaved(c) \/ ProductSaved(c) \/ RelationSaved(c) \/ CallFails(c) \/ ProductsDeleted(c)
  \/ \E can \in BOOLEAN : ImpactAnswered(c, can)

BrowseNext ==
  \/ \E f \in FilterSets : ChangeFilters(f)
  \/ \E r \in Products \cup {PlainList, NewSheet} : (\E f \in FilterSets : ActivateCatalog(r, f))
  \/ \E p \in Products : ClickProduct(p) \/ SelectProduct(p)
  \/ LeaveView \/ ClickNew \/ CloseProductDetail \/ SaveProduct \/ SaveRelation
  \/ OpenPriceDialog \/ SavePrice \/ OpenProductDeleteDialog \/ OpenProductBulkDeleteDialog
  \/ CloseDialog \/ ConfirmProductDelete
  \/ \E c \in browse.calls : Answer(c)

BrowseSpec == BrowseInit /\ [][BrowseNext]_browse

--------------------------------------------------------------------------------

BrowseTypeOK ==
  /\ browse.view \in {"catalog", "other"} /\ browse.screen \in {"list", "detail"}
  /\ browse.route \in Products \cup {PlainList, NewSheet, Elsewhere}
  /\ {browse.filters, browse.listed} \subseteq FilterSets
  /\ browse.status \in {"loading", "found", "failed", "deleted"}
  /\ {browse.shown, browse.form, browse.priced} \subseteq Products \cup {NoProduct}
  /\ browse.selection \cup browse.bar \cup browse.bulk \cup browse.named \cup browse.checked \subseteq Products
  /\ browse.dialog \in {Idle, "delete", "price"} /\ browse.busy \subseteq {"save", "relation", "price"}

\* The list says it has found products only when they are those of the filters on the
\* page, and that it failed only when its latest read did, whatever reads were
\* superseded, given up or failed meanwhile (loadProducts).
ListIsOfItsFilters ==
  /\ browse.status = "found" => browse.listed = browse.filters
  /\ browse.status = "failed" => browse.latest = "failed"

\* A form is sent only to the product it was filled from: late answers move both.
FormIsOfItsProduct == ~browse.misplaced

\* The bar counts the selection, except while the list is read after a deletion of many.
BarTellsSelection ==
  (\A c \in browse.calls : c.kind = "list" => c.then.kind # "deleted")
    => browse.bar = browse.selection

\* A user who waits for each answer deletes what the dialog named and was checked for,
\* prices the product the dialog was opened for, and sees the product of the address.
WaitingUserIsServed ==
  browse.patient =>
    /\ ~browse.unnamed
    /\ browse.dialog = "delete" /\ browse.confirm => browse.checked = browse.named
    /\ browse.calls = {} /\ browse.view = "catalog" =>
         IF browse.screen = "list" THEN browse.route = PlainList
         ELSE browse.route \in Products => browse.shown \in {browse.route, NoProduct}

BrowseSound == ListIsOfItsFilters /\ FormIsOfItsProduct /\ BarTellsSelection /\ WaitingUserIsServed
================================================================================
