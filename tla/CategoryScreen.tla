----------------------------- MODULE CategoryScreen ----------------------------
(***************************************************************************)
(* The screen of the categories: a list, and over it the sheet of the      *)
(* selected category with the counts of what hangs from it.  Saving a      *)
(* category reads the whole tree and the list again before the sheet is    *)
(* shown anew; meanwhile the user may have gone elsewhere.                 *)
(***************************************************************************)
EXTENDS Integers, FiniteSets

CONSTANTS
  Categories,        \* the categories there may be
  Planted,           \* those there are when the user begins
  Views,             \* the filters and pages of the list
  MaxCategoryCalls,  \* calls under way
  MaxCategoryActs    \* acts of the user

VARIABLE tree

NoCategory == "no category"
NewCategory == "categories:new"
CategoryList == "categories"
NoFollowUp == [kind |-> "nothing"]
Unread == "unread"        \* the counts of the sheet are not known
NoSheet == "no sheet"

\* An identifier is none of these marks and addresses, and there is a view to begin with.
ASSUME CategoryAssumption ==
  /\ Views # {} /\ Planted \subseteq Categories
  /\ Categories \cap {NoCategory, NewCategory, CategoryList, Unread, NoSheet} = {}

\* A read of the list, and the one before it, whose controller is aborted.
InventoryCall(t, then) ==
  [kind |-> "list", generation |-> t.generation + 1, view |-> t.view, aborted |-> FALSE, then |-> then]

GivenUp(c) == IF c.kind = "list" THEN [c EXCEPT !.aborted = TRUE] ELSE c

LoadCategoryInventory(t, then) ==
  [t EXCEPT !.generation = @ + 1, !.status = "loading",
            !.calls = {GivenUp(c) : c \in @} \cup {InventoryCall(t, then)}]

ShowCategoryListScreen(t) == [t EXCEPT !.screen = "list", !.selected = NoCategory]

ReadImpact(t, id, goal) == [t EXCEPT !.calls = @ \cup {[kind |-> "impact", of |-> id, for |-> goal]}]

\* A category that the tree does not hold is selected, but no sheet opens for it.
OpenCategoryDetail(t, id) ==
  IF id \notin t.known THEN [t EXCEPT !.selected = id]
  ELSE ReadImpact([t EXCEPT !.selected = id, !.screen = "detail", !.shown = id, !.counts = Unread], id, "sheet")

StartCreateCategory(t) ==
  [t EXCEPT !.selected = NoCategory, !.screen = "detail", !.shown = NoCategory, !.counts = NoCategory]

OpenRequestedCategory(t, route) ==
  CASE route = CategoryList -> t
    [] route = NewCategory  -> StartCreateCategory(t)
    [] OTHER                -> OpenCategoryDetail(t, route)

SelectedCategory(t) == IF t.selected \in t.known THEN t.selected ELSE NoCategory

\* The sheet the user sees.
Sheet(t) == IF t.screen = "list" THEN NoSheet ELSE t.shown

\* Mutant: the address is not looked at.
AnywhereThere(t, route) == t.screen = "detail"

\* The sheet of what was saved is shown again only where it was saved from.
StillThere(t, route) == t.route = route /\ t.screen = "detail"

AfterSaving(t, then) ==
  LET u == [t EXCEPT !.saving = FALSE]
      o == OpenCategoryDetail(u, then.id) IN
  IF ~StillThere(u, then.route) THEN u
  ELSE IF then.id \in t.known THEN [o EXCEPT !.route = then.id, !.went = IF then.made THEN then.id ELSE @]
  ELSE o

\* What follows a read of the list.
AfterInventory(t, then) ==
  CASE then.kind = "nothing"    -> t
    [] then.kind = "saved"      -> AfterSaving(t, then)
    [] then.kind = "deleted"    -> [t EXCEPT !.status = "deleted", !.confirm = TRUE]
    [] then.kind = "activation" ->
         IF then.generation = t.activations /\ t.route = then.route
           THEN LET o == OpenRequestedCategory(t, then.route) IN [o EXCEPT !.went = Sheet(o)]
           ELSE t

CategoryInit ==
  tree \in [screen : {"list"}, route : {CategoryList}, selected : {NoCategory}, shown : {NoCategory},
            counts : {NoCategory}, known : {Planted}, existing : {Planted}, given : {Planted}, view : {CHOOSE v \in Views : TRUE},
            listed : {CHOOSE v \in Views : TRUE}, status : {"found"}, generation : {0}, activations : {0},
            dialog : {NoCategory}, confirm : {FALSE}, saving : {FALSE}, calls : {{}}, acts : {0}, went : {NoSheet}]

--------------------------------------------------------------------------------

TreeAct(Guard, t) ==
  /\ Guard /\ tree.acts < MaxCategoryActs /\ Cardinality(t.calls) <= MaxCategoryCalls
  /\ tree' = [t EXCEPT !.acts = @ + 1]

OnTree   == tree.dialog = NoCategory
OnTheSheet == OnTree /\ tree.screen = "detail"

ChangeView(v) ==
  TreeAct(OnTree /\ tree.screen = "list" /\ v # tree.view,
          LoadCategoryInventory([tree EXCEPT !.view = v, !.route = CategoryList], NoFollowUp))

\* activateCategories: a change of the address by a link or by the history.
GoTo(route) ==
  TreeAct(OnTree,
          LoadCategoryInventory([ShowCategoryListScreen(tree) EXCEPT !.route = route, !.activations = @ + 1, !.went = NoSheet],
                                [kind |-> "activation", generation |-> tree.activations + 1, route |-> route]))

ClickCategory(id) ==
  TreeAct(OnTree /\ tree.screen = "list" /\ id \in tree.known,
          [OpenCategoryDetail(tree, id) EXCEPT !.route = id, !.went = id])

ClickNewCategory ==
  TreeAct(OnTree, [StartCreateCategory(tree) EXCEPT !.route = NewCategory, !.went = NoCategory])

CloseCategoryDetail(t) ==
  LoadCategoryInventory([ShowCategoryListScreen(t) EXCEPT !.route = CategoryList, !.went = NoSheet], NoFollowUp)

BackToList == TreeAct(OnTheSheet, CloseCategoryDetail(tree))

SaveCategory ==
  TreeAct(OnTheSheet /\ ~tree.saving,
          [tree EXCEPT !.saving = TRUE,
                       !.calls = @ \cup {[kind |-> "save", of |-> SelectedCategory(tree), route |-> tree.route]}])

OpenCategoryDeleteDialog ==
  TreeAct(OnTheSheet /\ SelectedCategory(tree) # NoCategory,
          ReadImpact([tree EXCEPT !.dialog = tree.selected, !.confirm = FALSE], tree.selected, "dialog"))

CancelDelete == TreeAct(tree.dialog # NoCategory, [tree EXCEPT !.dialog = NoCategory])

ConfirmCategoryDelete ==
  TreeAct(tree.dialog # NoCategory /\ tree.confirm /\ SelectedCategory(tree) # NoCategory,
          [tree EXCEPT !.confirm = FALSE, !.calls = @ \cup {[kind |-> "delete", of |-> tree.selected]}])

--------------------------------------------------------------------------------

\* The counts are shown only on the sheet they were read for.
RefreshCategoryImpact(c) ==
  /\ c.kind = "impact" /\ c.for = "sheet"
  /\ tree' = [tree EXCEPT !.calls = @ \ {c}, !.counts = IF tree.selected = c.of THEN c.of ELSE @]

DialogImpact(c, canDelete) ==
  /\ c.kind = "impact" /\ c.for = "dialog"
  /\ tree' = [tree EXCEPT !.calls = @ \ {c}, !.confirm = canDelete]

\* A read that fails blanks the counts of whatever sheet is open.
ImpactFails(c) ==
  /\ c.kind = "impact"
  /\ tree' = [tree EXCEPT !.calls = @ \ {c}, !.counts = IF c.for = "sheet" THEN Unread ELSE @]

InventoryAnswered(c) ==
  /\ c.kind = "list" /\ ~c.aborted
  /\ LET t == [tree EXCEPT !.calls = @ \ {c}] IN
     tree' = AfterInventory(IF c.generation = t.generation THEN [t EXCEPT !.listed = c.view, !.status = "found"] ELSE t, c.then)

InventoryFails(c) ==
  /\ c.kind = "list"
  /\ LET t == [tree EXCEPT !.calls = @ \ {c}] IN
     tree' = AfterInventory(IF c.aborted \/ c.generation # t.generation THEN t ELSE [t EXCEPT !.status = "failed"], c.then)

\* A new category gets an identifier that none has had.
CategorySaved(c) ==
  /\ c.kind = "save"
  /\ \E id \in IF c.of = NoCategory THEN Categories \ tree.given ELSE {c.of} \cap tree.existing :
       LET then == [kind |-> "saved", id |-> id, route |-> c.route, made |-> c.of = NoCategory] IN
       tree' = [tree EXCEPT !.calls = (@ \ {c}) \cup {[kind |-> "metadata", then |-> then]}, !.existing = @ \cup {id},
                                 !.given = @ \cup {id}]

CategoryDeleted(c) ==
  /\ c.kind = "delete"
  /\ LET t == CloseCategoryDetail([tree EXCEPT !.calls = @ \ {c}, !.existing = @ \ {c.of}, !.dialog = NoCategory]) IN
     tree' = [t EXCEPT !.calls = @ \cup {[kind |-> "metadata", then |-> [kind |-> "deleted"]]}]

\* The tree is read again, then the list.
MetadataRead(c) ==
  /\ c.kind = "metadata"
  /\ tree' = LoadCategoryInventory([tree EXCEPT !.calls = @ \ {c}, !.known = tree.existing], c.then)

TreeCallFails(c) ==
  /\ c.kind \in {"save", "metadata", "delete"}
  /\ LET saves == c.kind = "save" \/ (c.kind = "metadata" /\ c.then.kind = "saved") IN
     tree' = [tree EXCEPT !.calls = @ \ {c}, !.confirm = @ \/ ~saves, !.saving = @ /\ ~saves]

\* Another device deletes a category.
OthersDelete(id) ==
  TreeAct(id \in tree.existing, [tree EXCEPT !.existing = @ \ {id}])

TreeAnswer(c) ==
  \/ RefreshCategoryImpact(c) \/ ImpactFails(c) \/ InventoryAnswered(c) \/ InventoryFails(c)
  \/ CategorySaved(c) \/ CategoryDeleted(c) \/ MetadataRead(c) \/ TreeCallFails(c)
  \/ \E can \in BOOLEAN : DialogImpact(c, can)

TreeNext ==
  \/ \E v \in Views : ChangeView(v)
  \/ \E r \in Planted \cup {CategoryList, NewCategory} : GoTo(r)
  \/ \E id \in Categories : ClickCategory(id) \/ OthersDelete(id)
  \/ ClickNewCategory \/ BackToList \/ SaveCategory
  \/ OpenCategoryDeleteDialog \/ CancelDelete \/ ConfirmCategoryDelete
  \/ \E c \in tree.calls : TreeAnswer(c)

TreeSpec == CategoryInit /\ [][TreeNext]_tree

--------------------------------------------------------------------------------

TreeTypeOK ==
  /\ tree.screen \in {"list", "detail"} /\ tree.status \in {"loading", "found", "failed", "deleted"}
  /\ tree.route \in Categories \cup {CategoryList, NewCategory}
  /\ {tree.selected, tree.shown, tree.dialog} \subseteq Categories \cup {NoCategory}
  /\ tree.counts \in Categories \cup {NoCategory, Unread}
  /\ tree.known \cup tree.existing \subseteq tree.given /\ tree.given \subseteq Categories /\ {tree.view, tree.listed} \subseteq Views
  /\ tree.went \in Categories \cup {NoCategory, NoSheet}

\* A late answer never moves the user: the sheet on the screen is the one the user went to
\* last, although saving a category reads the tree and the list before it shows the sheet
\* again (the address compared in saveCategory, the generations of the activations). The
\* answer of a deletion is what the user waits for, and goes to the list.
SheetIsWhereUserWent == Sheet(tree) = tree.went

\* The counts on the sheet of a category are never those of another (refreshCategoryImpact).
CountsAreOfTheSheet ==
  tree.screen = "detail" /\ SelectedCategory(tree) # NoCategory => tree.counts \in {tree.shown, Unread}

\* What the buttons of a sheet work on is the category it shows, or none; and what a dialog
\* deletes is the category it was opened for.
ButtonsActOnTheSheet ==
  /\ tree.screen = "detail" => SelectedCategory(tree) \in {tree.shown, NoCategory}
  /\ tree.dialog # NoCategory => tree.selected = tree.dialog

\* The list shown is that of the filters on the page.
ListIsOfItsView == tree.status = "found" => tree.listed = tree.view

\* The button of a save comes back, however its three calls end.
SaveButtonComesBack ==
  tree.saving => \E c \in tree.calls : c.kind = "save" \/ (c.kind \in {"metadata", "list"} /\ c.then.kind = "saved")

TreeSound ==
  SheetIsWhereUserWent /\ CountsAreOfTheSheet /\ ButtonsActOnTheSheet /\ ListIsOfItsView /\ SaveButtonComesBack
================================================================================
