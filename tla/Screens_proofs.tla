--------------------------- MODULE Screens_proofs ---------------------------
(***************************************************************************)
(* What the screens with a list and a sheet show and send, proved for any  *)
(* number of categories, products, tickets, filters, calls and actions:    *)
(* first the category screen (catalog.js), then the product list           *)
(* (catalog.js), then the history of tickets (ticket-history.js), and last *)
(* the client that shows one of them.  Each part gives the types of the    *)
(* screen's record, the calls that may be under way and what they keep,    *)
(* the invariant (TreeInv, BrowseInv, HistoryInv), one lemma for each      *)
(* action, and the theorem.                                                *)
(***************************************************************************)
EXTENDS MCScreens, WebClient_proofs, Induction, FiniteSetTheorems, SequenceTheorems, TLAPS

\* Addresses, what follows a read of the list, and the calls of the screen.
TreeRoutes  == Categories \cup {CategoryList, NewCategory}
SavedThens  == [kind : {"saved"}, id : Categories, route : TreeRoutes, made : BOOLEAN]
DeletedThen == [kind : {"deleted"}]
GoneThens   == [kind : {"activation"}, generation : Nat, route : Planted \cup {CategoryList, NewCategory}]
FollowUps   == {NoFollowUp} \cup SavedThens \cup DeletedThen \cup GoneThens
TreeCalls   ==
  [kind : {"list"}, generation : Nat, view : Views, aborted : BOOLEAN, then : FollowUps]
    \cup [kind : {"impact"}, of : Categories, for : {"sheet", "dialog"}]
    \cup [kind : {"save"}, of : Categories \cup {NoCategory}, route : TreeRoutes]
    \cup [kind : {"metadata"}, then : SavedThens \cup DeletedThen]
    \cup [kind : {"delete"}, of : Categories]

TreeRecord ==
  [screen : {"list", "detail"}, route : TreeRoutes, selected : Categories \cup {NoCategory},
   shown : Categories \cup {NoCategory}, counts : Categories \cup {NoCategory, Unread},
   known : SUBSET Categories, existing : SUBSET Categories, given : SUBSET Categories,
   view : Views, listed : Views, status : {"loading", "found", "failed", "deleted"},
   generation : Nat, activations : Nat, dialog : Categories \cup {NoCategory},
   confirm : BOOLEAN, saving : BOOLEAN, calls : SUBSET TreeCalls, acts : Nat,
   went : Categories \cup {NoCategory, NoSheet}]

LEMMA GivenUpIs ==
  ASSUME NEW c \in TreeCalls
  PROVE  /\ GivenUp(c) \in TreeCalls /\ GivenUp(c).kind = c.kind
         /\ c.kind # "list" => GivenUp(c) = c
         /\ c.kind = "list" => /\ GivenUp(c).generation = c.generation /\ GivenUp(c).view = c.view
                              /\ GivenUp(c).then = c.then
<1>1. CASE c.kind = "list"
  BY <1>1 DEF TreeCalls, GivenUp
<1>2. CASE c.kind # "list"
  BY <1>2 DEF GivenUp
<1> QED
  BY <1>1, <1>2

LEMMA LoadTyped ==
  ASSUME NEW t \in TreeRecord, NEW then \in FollowUps
  PROVE  LoadCategoryInventory(t, then) \in TreeRecord
<1>1. InventoryCall(t, then) \in TreeCalls
  BY DEF InventoryCall, TreeCalls, TreeRecord
<1>2. \A c \in t.calls : GivenUp(c) \in TreeCalls
  BY GivenUpIs DEF TreeRecord
<1>3. PICK calls \in SUBSET TreeCalls : calls = {GivenUp(c) : c \in t.calls} \cup {InventoryCall(t, then)}
  BY <1>1, <1>2
<1>4. LoadCategoryInventory(t, then) = [t EXCEPT !.generation = @ + 1, !.status = "loading", !.calls = calls]
  BY <1>3 DEF LoadCategoryInventory, TreeRecord
<1>5. t.generation + 1 \in Nat
  BY DEF TreeRecord
<1>6. [t EXCEPT !.generation = @ + 1, !.status = "loading", !.calls = calls] \in TreeRecord
  BY <1>5 DEF TreeRecord
<1> QED
  BY <1>4, <1>6

ImpactCall(id, goal) == [kind |-> "impact", of |-> id, for |-> goal]

LEMMA OpenTyped ==
  ASSUME NEW t \in TreeRecord, NEW id \in Categories
  PROVE  OpenCategoryDetail(t, id) \in TreeRecord
<1>1. ImpactCall(id, "sheet") \in TreeCalls
  BY DEF ImpactCall, TreeCalls
<1>2. t.calls \cup {ImpactCall(id, "sheet")} \in SUBSET TreeCalls
  BY <1>1 DEF TreeRecord
<1> DEFINE Pending == t.calls \cup {ImpactCall(id, "sheet")}
<1>3. CASE id \in t.known
  <2>1. OpenCategoryDetail(t, id) = [t EXCEPT !.selected = id, !.screen = "detail", !.shown = id, !.counts = Unread, !.calls = Pending]
    BY <1>3 DEF OpenCategoryDetail, ReadImpact, ImpactCall, TreeRecord
  <2> HIDE DEF Pending
  <2>2. [t EXCEPT !.selected = id, !.screen = "detail", !.shown = id, !.counts = Unread, !.calls = Pending] \in TreeRecord
    BY <1>2 DEF TreeRecord, Pending
  <2> QED
    BY <2>1, <2>2
<1>4. CASE id \notin t.known
  BY <1>4 DEF OpenCategoryDetail, TreeRecord
<1> QED
  BY <1>3, <1>4

LEMMA FieldTypes ==
  ASSUME NEW t \in TreeRecord
  PROVE  /\ t.screen \in {"list", "detail"} /\ t.route \in TreeRoutes
         /\ t.selected \in Categories \cup {NoCategory} /\ t.shown \in Categories \cup {NoCategory}
         /\ t.counts \in Categories \cup {NoCategory, Unread}
         /\ t.known \in SUBSET Categories /\ t.existing \in SUBSET Categories /\ t.given \in SUBSET Categories
         /\ t.view \in Views /\ t.listed \in Views /\ t.status \in {"loading", "found", "failed", "deleted"}
         /\ t.generation \in Nat /\ t.activations \in Nat /\ t.dialog \in Categories \cup {NoCategory}
         /\ t.confirm \in BOOLEAN /\ t.saving \in BOOLEAN /\ t.calls \in SUBSET TreeCalls /\ t.acts \in Nat
         /\ t.went \in Categories \cup {NoCategory, NoSheet}
BY DEF TreeRecord

LEMMA CallTypes ==
  ASSUME NEW c \in TreeCalls
  PROVE  /\ c.kind \in {"list", "impact", "save", "metadata", "delete"}
         /\ c.kind = "list" => c.generation \in Nat /\ c.view \in Views /\ c.aborted \in BOOLEAN /\ c.then \in FollowUps
         /\ c.kind = "impact" => c.of \in Categories /\ c.for \in {"sheet", "dialog"}
         /\ c.kind = "save" => c.of \in Categories \cup {NoCategory} /\ c.route \in TreeRoutes
         /\ c.kind = "metadata" => c.then \in SavedThens \cup DeletedThen
         /\ c.kind = "delete" => c.of \in Categories
BY DEF TreeCalls

LEMMA ThenTypes ==
  ASSUME NEW then \in FollowUps
  PROVE  /\ then.kind \in {"nothing", "saved", "deleted", "activation"}
         /\ then.kind = "saved" => then.id \in Categories /\ then.route \in TreeRoutes /\ then.made \in BOOLEAN
         /\ then.kind = "activation" => then.generation \in Nat /\ then.route \in Planted \cup {CategoryList, NewCategory}
BY DEF FollowUps, NoFollowUp, SavedThens, DeletedThen, GoneThens

--------------------------------------------------------------------------------

\* What has an identifier, and that what the tree lost does not come back.
IdsFit(t) ==
  /\ t.existing \subseteq t.given /\ t.known \subseteq t.given /\ Planted \subseteq t.given
  /\ {t.selected, t.shown} \subseteq t.given \cup {NoCategory}
  /\ Planted \cap t.existing \subseteq t.known
  /\ t.selected \in t.existing => t.selected \in t.known

\* The sheet is the one of the address, where the user went.
SheetFits(t) ==
  /\ Sheet(t) = t.went
  /\ t.screen = "detail" => \/ t.shown \in Categories /\ t.route = t.shown
                            \/ t.shown = NoCategory /\ t.route = NewCategory

\* What is selected is what the sheet shows, unless the tree does not hold it.
SelectionFits(t) ==
  /\ t.screen = "detail" /\ t.selected \in t.known => t.shown = t.selected /\ t.counts \in {t.shown, Unread}
  /\ t.screen = "detail" /\ t.shown \in t.known \cup t.existing => t.selected = t.shown
  /\ t.dialog # NoCategory => t.screen = "detail" /\ t.selected = t.dialog /\ t.shown = t.dialog

\* A category is made from the sheet of one that is gone, or from an empty one.
MadeFrom(t, route) ==
  route \in Categories => route \in t.given /\ route \notin t.known \cup t.existing /\ route # t.dialog

SavedFits(t, then) ==
  /\ then.id \in t.given
  /\ IF then.made THEN MadeFrom(t, then.route) ELSE then.route = then.id

\* The new category has been read with the tree, or is gone.
WasRead(t, then) == then.id \in t.existing => then.id \in t.known

CallsFit(t) ==
  \A c \in t.calls :
    /\ c.kind = "save" => IF c.of = NoCategory THEN MadeFrom(t, c.route) ELSE c.of \in t.given /\ c.route = c.of
    /\ c.kind = "metadata" /\ c.then.kind = "saved" => SavedFits(t, c.then)
    /\ c.kind = "list" /\ c.then.kind = "saved" => SavedFits(t, c.then) /\ WasRead(t, c.then)

ListsFit(t) ==
  /\ t.status = "found" => t.listed = t.view
  /\ \A c \in t.calls : c.kind = "list" /\ c.generation = t.generation => c.view = t.view

ListsBounded(t) == \A c \in t.calls : c.kind = "list" => c.generation <= t.generation

SavesOn(t) == \E c \in t.calls : c.kind = "save" \/ (c.kind \in {"metadata", "list"} /\ c.then.kind = "saved")

TreeBase(t) == t \in TreeRecord /\ IdsFit(t) /\ SheetFits(t) /\ SelectionFits(t) /\ CallsFit(t) /\ ListsBounded(t)

TreeInv(t) == TreeBase(t) /\ ListsFit(t) /\ (t.saving => SavesOn(t))

\* Two calls that are one, given up or not.
Alike(c, d) ==
  /\ c.kind = d.kind
  /\ d.kind # "list" => c = d
  /\ d.kind = "list" => c.generation = d.generation /\ c.view = d.view /\ c.then = d.then

LEMMA LoadKeeps ==
  ASSUME NEW t, TreeBase(t), NEW then \in FollowUps,
         t.saving => SavesOn(t) \/ then.kind = "saved",
         then.kind = "saved" => SavedFits(t, then) /\ WasRead(t, then)
  PROVE  TreeInv(LoadCategoryInventory(t, then))
<1> DEFINE u == LoadCategoryInventory(t, then)
<1>1. t \in TreeRecord /\ u \in TreeRecord
  BY LoadTyped DEF TreeBase
<1>2. /\ u.screen = t.screen /\ u.route = t.route /\ u.selected = t.selected /\ u.shown = t.shown
      /\ u.counts = t.counts /\ u.known = t.known /\ u.existing = t.existing /\ u.given = t.given
      /\ u.view = t.view /\ u.status = "loading" /\ u.generation = t.generation + 1
      /\ u.dialog = t.dialog /\ u.saving = t.saving /\ u.went = t.went
      /\ u.calls = {GivenUp(c) : c \in t.calls} \cup {InventoryCall(t, then)}
  BY <1>1 DEF LoadCategoryInventory, TreeRecord
<1>3. \A c \in t.calls : c \in TreeCalls
  BY <1>1, FieldTypes
<1>4. t.generation \in Nat
  BY <1>1, FieldTypes
<1>5. /\ InventoryCall(t, then).kind = "list" /\ InventoryCall(t, then).generation = t.generation + 1
      /\ InventoryCall(t, then).view = t.view /\ InventoryCall(t, then).then = then
  BY DEF InventoryCall
<1> HIDE DEF u
<1>6. IdsFit(u) /\ SheetFits(u) /\ SelectionFits(u)
  BY <1>2 DEF TreeBase, IdsFit, SheetFits, SelectionFits, Sheet
<1>7. ASSUME NEW c \in u.calls
      PROVE  \/ c = InventoryCall(t, then)
             \/ \E d \in t.calls : Alike(c, d)
  BY <1>2, <1>3, GivenUpIs DEF Alike
<1>8. CallsFit(u)
  <2> SUFFICES ASSUME NEW c \in u.calls
               PROVE  /\ c.kind = "save" => IF c.of = NoCategory THEN MadeFrom(u, c.route) ELSE c.of \in u.given /\ c.route = c.of
                      /\ c.kind = "metadata" /\ c.then.kind = "saved" => SavedFits(u, c.then)
                      /\ c.kind = "list" /\ c.then.kind = "saved" => SavedFits(u, c.then) /\ WasRead(u, c.then)
    BY DEF CallsFit
  <2>1. /\ \A x : SavedFits(t, x) => SavedFits(u, x)
        /\ \A x : WasRead(t, x) => WasRead(u, x)
        /\ \A x : MadeFrom(t, x) => MadeFrom(u, x)
    BY <1>2 DEF SavedFits, WasRead, MadeFrom
  <2>2. CASE c = InventoryCall(t, then)
    BY <1>5, <2>1, <2>2
  <2>3. ASSUME NEW d \in t.calls, Alike(c, d)
        PROVE  /\ c.kind = "save" => IF c.of = NoCategory THEN MadeFrom(u, c.route) ELSE c.of \in u.given /\ c.route = c.of
               /\ c.kind = "metadata" /\ c.then.kind = "saved" => SavedFits(u, c.then)
               /\ c.kind = "list" /\ c.then.kind = "saved" => SavedFits(u, c.then) /\ WasRead(u, c.then)
    BY <1>2, <2>1, <2>3 DEF TreeBase, CallsFit, Alike
  <2> QED
    BY <1>7, <2>2, <2>3
<1>9. ListsBounded(u) /\ ListsFit(u)
  <2>1. ASSUME NEW c \in u.calls, c.kind = "list"
        PROVE  c.generation <= t.generation + 1 /\ (c.generation = t.generation + 1 => c.view = t.view)
    <3>1. ASSUME NEW d \in t.calls, Alike(c, d) PROVE c.generation <= t.generation /\ c.generation \in Nat
      <4>1. d.kind = "list" /\ c.generation = d.generation /\ d \in TreeCalls
        BY <1>3, <2>1, <3>1 DEF Alike
      <4>2. d.generation <= t.generation
        BY <4>1 DEF TreeBase, ListsBounded
      <4> QED
        BY <4>1, <4>2, CallTypes
    <3>2. CASE c = InventoryCall(t, then)
      BY <1>4, <1>5, <3>2
    <3>3. CASE \E d \in t.calls : Alike(c, d)
      BY <1>4, <3>1, <3>3
    <3> QED
      BY <1>7, <3>2, <3>3
  <2> QED
    BY <1>2, <2>1 DEF ListsBounded, ListsFit
<1>10. ASSUME u.saving PROVE SavesOn(u)
  <2>1. CASE then.kind = "saved"
    BY <1>2, <1>5, <2>1 DEF SavesOn
  <2>2. CASE SavesOn(t)
    <3>1. PICK c \in t.calls : c.kind = "save" \/ (c.kind \in {"metadata", "list"} /\ c.then.kind = "saved")
      BY <2>2 DEF SavesOn
    <3>2. GivenUp(c) \in u.calls /\ GivenUp(c).kind = c.kind
          /\ (c.kind \in {"metadata", "list"} => GivenUp(c).then = c.then)
      BY <1>2, <1>3, GivenUpIs
    <3> QED
      BY <3>1, <3>2 DEF SavesOn
  <2> QED
    BY <1>2, <1>10, <2>1, <2>2
<1>11. TreeInv(u)
  BY <1>1, <1>6, <1>8, <1>9, <1>10 DEF TreeInv, TreeBase
<1> QED
  BY <1>11 DEF u

\* Two states that differ in nothing the invariant reads, but that one may save no more, or
\* show another status.
Resembles(u, t) ==
  /\ u \in TreeRecord
  /\ u.screen = t.screen /\ u.route = t.route /\ u.selected = t.selected /\ u.shown = t.shown
  /\ u.counts = t.counts /\ u.known = t.known /\ u.existing = t.existing /\ u.given = t.given
  /\ u.view = t.view /\ u.listed = t.listed /\ u.generation = t.generation
  /\ u.dialog = t.dialog /\ u.went = t.went /\ u.calls = t.calls
  /\ u.status \in {t.status, "failed", "deleted"} /\ (u.saving => t.saving)

LEMMA ResemblesKeeps == ASSUME NEW t, NEW u, TreeInv(t), Resembles(u, t) PROVE TreeInv(u)
<1>1. IdsFit(u) /\ SheetFits(u) /\ SelectionFits(u)
  BY DEF TreeInv, TreeBase, Resembles, IdsFit, SheetFits, SelectionFits, Sheet
<1>2. CallsFit(u)
  BY DEF TreeInv, TreeBase, Resembles, CallsFit, SavedFits, MadeFrom, WasRead
<1>3. ListsBounded(u) /\ ListsFit(u)
  BY DEF TreeInv, TreeBase, Resembles, ListsBounded, ListsFit
<1>4. u.saving => SavesOn(u)
  BY DEF TreeInv, Resembles, SavesOn
<1> QED
  BY <1>1, <1>2, <1>3, <1>4 DEF TreeInv, TreeBase, Resembles

LEMMA ActKeeps == ASSUME NEW t, TreeInv(t) PROVE TreeInv([t EXCEPT !.acts = @ + 1])
<1>1. t \in TreeRecord /\ t.acts + 1 \in Nat
  BY FieldTypes DEF TreeInv, TreeBase
<1>2. Resembles([t EXCEPT !.acts = @ + 1], t)
  BY <1>1 DEF Resembles, TreeRecord
<1> QED
  BY <1>2, ResemblesKeeps

\* The sheet of a category of the tree is opened, and its address is the one written.
OpenedAt(u, t, id) ==
  /\ u \in TreeRecord
  /\ u.screen = "detail" /\ u.route = id /\ u.selected = id /\ u.shown = id /\ u.counts = Unread /\ u.went = id
  /\ u.known = t.known /\ u.existing = t.existing /\ u.given = t.given
  /\ u.view = t.view /\ u.listed = t.listed /\ u.generation = t.generation /\ u.status = t.status
  /\ u.dialog = t.dialog /\ u.calls = t.calls \cup {ImpactCall(id, "sheet")}

LEMMA OpenedKeeps ==
  ASSUME NEW t, TreeBase(t), ListsFit(t), NEW id \in t.known, t.dialog \in {NoCategory, id}, NEW u, OpenedAt(u, t, id),
         u.saving => SavesOn(t)
  PROVE  TreeInv(u)
<1>1. /\ t \in TreeRecord /\ id \in Categories /\ NoCategory \notin Categories /\ id \in t.given
      /\ ImpactCall(id, "sheet").kind = "impact"
  BY FieldTypes, CategoryAssumption DEF TreeBase, IdsFit, ImpactCall
<1>2. IdsFit(u)
  BY <1>1 DEF TreeBase, IdsFit, OpenedAt
<1>3. SheetFits(u)
  BY <1>1 DEF SheetFits, OpenedAt, Sheet
<1>4. SelectionFits(u)
  BY <1>1 DEF SelectionFits, OpenedAt
<1>5. CallsFit(u)
  BY <1>1 DEF TreeBase, CallsFit, SavedFits, MadeFrom, WasRead, OpenedAt
<1>6. ListsBounded(u) /\ ListsFit(u)
  BY <1>1 DEF TreeBase, ListsBounded, ListsFit, OpenedAt
<1>7. u.saving => SavesOn(u)
  BY DEF SavesOn, OpenedAt
<1> QED
  BY <1>2, <1>3, <1>4, <1>5, <1>6, <1>7 DEF TreeInv, TreeBase, OpenedAt

\* An empty sheet is opened.
EmptyAt(u, t) ==
  /\ u \in TreeRecord
  /\ u.screen = "detail" /\ u.route = NewCategory /\ u.selected = NoCategory /\ u.shown = NoCategory
  /\ u.counts = NoCategory /\ u.went = NoCategory
  /\ u.known = t.known /\ u.existing = t.existing /\ u.given = t.given
  /\ u.view = t.view /\ u.listed = t.listed /\ u.generation = t.generation /\ u.status = t.status
  /\ u.dialog = t.dialog /\ u.calls = t.calls /\ u.saving = t.saving

LEMMA EmptyKeeps == ASSUME NEW t, TreeInv(t), t.dialog = NoCategory, NEW u, EmptyAt(u, t) PROVE TreeInv(u)
<1>1. t \in TreeRecord /\ NoCategory \notin Categories /\ t.known \subseteq Categories /\ t.existing \subseteq Categories
  BY FieldTypes, CategoryAssumption DEF TreeInv, TreeBase
<1>2. IdsFit(u)
  BY <1>1 DEF TreeInv, TreeBase, IdsFit, EmptyAt
<1>3. SheetFits(u)
  BY <1>1 DEF SheetFits, EmptyAt, Sheet
<1>4. SelectionFits(u)
  BY <1>1 DEF SelectionFits, EmptyAt
<1>5. CallsFit(u)
  BY <1>1 DEF TreeInv, TreeBase, CallsFit, SavedFits, MadeFrom, WasRead, EmptyAt
<1>6. ListsBounded(u) /\ ListsFit(u)
  BY <1>1 DEF TreeInv, TreeBase, ListsBounded, ListsFit, EmptyAt
<1>7. u.saving => SavesOn(u)
  BY DEF TreeInv, SavesOn, EmptyAt
<1> QED
  BY <1>2, <1>3, <1>4, <1>5, <1>6, <1>7 DEF TreeInv, TreeBase, EmptyAt

\* A category that the tree does not hold, and that is gone, is selected.
LEMMA MissingKeeps ==
  ASSUME NEW t, TreeInv(t), NEW id \in t.given, id \notin t.known \cup t.existing, t.dialog \in {NoCategory, id},
         t.screen = "detail" /\ t.shown \in t.known \cup t.existing => FALSE
  PROVE  TreeInv([t EXCEPT !.selected = id])
<1> DEFINE u == [t EXCEPT !.selected = id]
<1>1. /\ t \in TreeRecord /\ id \in Categories
  BY FieldTypes DEF TreeInv, TreeBase
<1>2. u \in TreeRecord
  BY <1>1 DEF TreeRecord
<1>3. /\ u.screen = t.screen /\ u.route = t.route /\ u.selected = id /\ u.shown = t.shown
      /\ u.counts = t.counts /\ u.known = t.known /\ u.existing = t.existing /\ u.given = t.given
      /\ u.view = t.view /\ u.listed = t.listed /\ u.generation = t.generation /\ u.status = t.status
      /\ u.dialog = t.dialog /\ u.went = t.went /\ u.calls = t.calls /\ u.saving = t.saving
  BY <1>1 DEF TreeRecord
<1> HIDE DEF u
<1>4. IdsFit(u)
  BY <1>3 DEF TreeInv, TreeBase, IdsFit
<1>5. SheetFits(u)
  BY <1>3 DEF TreeInv, TreeBase, SheetFits, Sheet
<1>6. SelectionFits(u)
  BY <1>3 DEF TreeInv, TreeBase, SelectionFits
<1>7. CallsFit(u)
  BY <1>3 DEF TreeInv, TreeBase, CallsFit, SavedFits, MadeFrom, WasRead
<1>8. ListsBounded(u) /\ ListsFit(u)
  BY <1>3 DEF TreeInv, TreeBase, ListsBounded, ListsFit
<1>9. u.saving => SavesOn(u)
  BY <1>3 DEF TreeInv, SavesOn
<1>10. TreeInv(u)
  BY <1>2, <1>4, <1>5, <1>6, <1>7, <1>8, <1>9 DEF TreeInv, TreeBase
<1> QED
  BY <1>10 DEF u

--------------------------------------------------------------------------------

\* A call under way fits when the sheet it comes from does.
CallFits(t, c) ==
  /\ c.kind # "list"
  /\ c.kind = "save" => IF c.of = NoCategory THEN MadeFrom(t, c.route) ELSE c.of \in t.given /\ c.route = c.of
  /\ c.kind = "metadata" /\ c.then.kind = "saved" => SavedFits(t, c.then)

\* The same sheet, with other calls, counts or dialog, and fewer categories elsewhere.
Moved(u, t) ==
  /\ u \in TreeRecord
  /\ u.screen = t.screen /\ u.route = t.route /\ u.selected = t.selected /\ u.shown = t.shown
  /\ u.known = t.known /\ u.existing \subseteq t.existing /\ u.given = t.given
  /\ u.view = t.view /\ u.listed = t.listed /\ u.generation = t.generation /\ u.went = t.went
  /\ u.status \in {t.status, "failed", "deleted"}
  /\ u.dialog \in {NoCategory, t.dialog} \cup t.known
  /\ \A c \in u.calls : c \in t.calls \/ CallFits(t, c)

LEMMA MovedKeeps ==
  ASSUME NEW t, TreeBase(t), ListsFit(t), NEW u, Moved(u, t), SelectionFits(u), u.saving => SavesOn(u)
  PROVE  TreeInv(u)
<1>1. t \in TreeRecord /\ NoCategory \notin Categories
  BY CategoryAssumption DEF TreeBase
<1>2. IdsFit(u)
  BY DEF TreeBase, IdsFit, Moved
<1>3. SheetFits(u)
  BY DEF TreeBase, SheetFits, Sheet, Moved
<1>4. CallsFit(u)
  <2>1. \A r : MadeFrom(t, r) => MadeFrom(u, r)
    BY <1>1 DEF MadeFrom, Moved
  <2>2. \A x : (SavedFits(t, x) => SavedFits(u, x)) /\ (WasRead(t, x) => WasRead(u, x))
    BY <2>1 DEF SavedFits, WasRead, Moved
  <2>3. u.given = t.given /\ \A c \in u.calls : c \in t.calls \/ CallFits(t, c)
    BY DEF Moved
  <2>4. ASSUME NEW c \in u.calls
        PROVE  /\ c.kind = "save" => IF c.of = NoCategory THEN MadeFrom(u, c.route) ELSE c.of \in u.given /\ c.route = c.of
               /\ c.kind = "metadata" /\ c.then.kind = "saved" => SavedFits(u, c.then)
               /\ c.kind = "list" /\ c.then.kind = "saved" => SavedFits(u, c.then) /\ WasRead(u, c.then)
    <3>1. CASE c \in t.calls
      BY <2>1, <2>2, <2>3, <3>1 DEF TreeBase, CallsFit
    <3>2. CASE CallFits(t, c)
      BY <2>1, <2>2, <2>3, <3>2 DEF CallFits
    <3> QED
      BY <2>3, <3>1, <3>2
  <2> QED
    BY <2>4 DEF CallsFit
<1>5. ListsBounded(u)
  BY DEF TreeBase, ListsBounded, Moved, CallFits
<1>6. ListsFit(u)
  BY DEF ListsFit, Moved, CallFits
<1> QED
  BY <1>2, <1>3, <1>4, <1>5, <1>6 DEF TreeInv, TreeBase, Moved

\* The list is shown.
ListAt(u, t) ==
  /\ u \in TreeRecord
  /\ u.screen = "list" /\ u.selected \in {NoCategory, t.selected} /\ u.shown = t.shown /\ u.went = NoSheet
  /\ u.dialog = NoCategory /\ u.generation = t.generation
  /\ u.known = t.known /\ u.existing \subseteq t.existing /\ u.given = t.given /\ u.calls \subseteq t.calls

LEMMA ListBase == ASSUME NEW t, TreeBase(t), NEW u, ListAt(u, t) PROVE TreeBase(u)
<1>1. t \in TreeRecord /\ NoCategory \notin Categories /\ t.existing \subseteq Categories
  BY FieldTypes, CategoryAssumption DEF TreeBase
<1>2. IdsFit(u)
  BY <1>1 DEF TreeBase, IdsFit, ListAt
<1>3. SheetFits(u)
  BY DEF SheetFits, Sheet, ListAt
<1>4. SelectionFits(u)
  BY DEF SelectionFits, ListAt
<1>5. CallsFit(u)
  <2>1. \A r : MadeFrom(t, r) => MadeFrom(u, r)
    BY <1>1 DEF MadeFrom, ListAt
  <2>2. \A x : (SavedFits(t, x) => SavedFits(u, x)) /\ (WasRead(t, x) => WasRead(u, x))
    BY <2>1 DEF SavedFits, WasRead, ListAt
  <2>3. u.given = t.given /\ \A c \in u.calls : c \in t.calls
    BY DEF ListAt
  <2> QED
    BY <2>1, <2>2, <2>3 DEF TreeBase, CallsFit
<1>6. ListsBounded(u)
  BY DEF TreeBase, ListsBounded, ListAt
<1> QED
  BY <1>2, <1>3, <1>4, <1>5, <1>6 DEF TreeBase, ListAt

\* What the opening of a category of the tree does.
Opens(o, t, id) ==
  /\ o \in TreeRecord
  /\ o.screen = "detail" /\ o.selected = id /\ o.shown = id /\ o.counts = Unread /\ o.route = t.route /\ o.went = t.went
  /\ o.known = t.known /\ o.existing = t.existing /\ o.given = t.given
  /\ o.view = t.view /\ o.listed = t.listed /\ o.generation = t.generation /\ o.status = t.status
  /\ o.dialog = t.dialog /\ o.saving = t.saving /\ o.calls = t.calls \cup {ImpactCall(id, "sheet")}

LEMMA OpenIs == ASSUME NEW t \in TreeRecord, NEW id \in t.known PROVE Opens(OpenCategoryDetail(t, id), t, id)
<1>1. OpenCategoryDetail(t, id) \in TreeRecord
  BY FieldTypes, OpenTyped
<1> DEFINE Pending == t.calls \cup {ImpactCall(id, "sheet")}
<1>2. OpenCategoryDetail(t, id) = [t EXCEPT !.selected = id, !.screen = "detail", !.shown = id, !.counts = Unread, !.calls = Pending]
  BY DEF OpenCategoryDetail, ReadImpact, ImpactCall, TreeRecord
<1> HIDE DEF Pending
<1>3. DEFINE o == [t EXCEPT !.selected = id, !.screen = "detail", !.shown = id, !.counts = Unread, !.calls = Pending]
<1>4. /\ o.screen = "detail" /\ o.selected = id /\ o.shown = id /\ o.counts = Unread /\ o.route = t.route /\ o.went = t.went
      /\ o.known = t.known /\ o.existing = t.existing /\ o.given = t.given
      /\ o.view = t.view /\ o.listed = t.listed /\ o.generation = t.generation /\ o.status = t.status
      /\ o.dialog = t.dialog /\ o.saving = t.saving /\ o.calls = Pending
  BY DEF TreeRecord
<1> QED
  BY <1>1, <1>2, <1>4 DEF Opens, Pending

LEMMA OpenedIs ==
  ASSUME NEW t \in TreeRecord, NEW id \in t.known, NEW o, Opens(o, t, id)
  PROVE  /\ OpenedAt([o EXCEPT !.route = id, !.went = id], t, id)
         /\ [o EXCEPT !.route = id, !.went = id].saving = t.saving
<1> DEFINE u == [o EXCEPT !.route = id, !.went = id]
<1>1. o \in TreeRecord /\ id \in TreeRoutes /\ id \in Categories
  BY FieldTypes DEF Opens, TreeRoutes
<1>2. u \in TreeRecord
  BY <1>1, ZenonT(60) DEF TreeRecord
<1>3. /\ u.screen = o.screen /\ u.route = id /\ u.selected = o.selected /\ u.shown = o.shown /\ u.counts = o.counts /\ u.went = id
      /\ u.known = o.known /\ u.existing = o.existing /\ u.given = o.given
      /\ u.view = o.view /\ u.listed = o.listed /\ u.generation = o.generation /\ u.status = o.status
      /\ u.dialog = o.dialog /\ u.calls = o.calls /\ u.saving = o.saving
  BY <1>1 DEF TreeRecord
<1> HIDE DEF u
<1>4. OpenedAt(u, t, id) /\ u.saving = t.saving
  BY <1>2, <1>3 DEF Opens, OpenedAt
<1> QED
  BY <1>4 DEF u

--------------------------------------------------------------------------------
(* What keeps the invariant of the category screen when it goes on.          *)

LEMMA StillKeeps ==
  ASSUME NEW t, TreeBase(t), ListsFit(t), NEW u, Resembles(u, t), u.saving => SavesOn(t)
  PROVE  TreeInv(u)
<1>1. t.dialog \in {NoCategory, t.dialog} /\ t.existing \subseteq t.existing
  OBVIOUS
<1>2. Moved(u, t)
  BY DEF Resembles, Moved
<1>3. SelectionFits(u)
  BY DEF TreeBase, SelectionFits, Resembles
<1>4. u.saving => SavesOn(u)
  BY DEF SavesOn, Resembles
<1> QED
  BY <1>2, <1>3, <1>4, MovedKeeps

\* Under a dialog the address is the category of the dialog.
LEMMA DialogAddress ==
  ASSUME NEW t, TreeBase(t), t.dialog # NoCategory
  PROVE  t.dialog \in Categories /\ t.route = t.dialog /\ t.shown = t.dialog
<1>1. t \in TreeRecord
  BY DEF TreeBase
<1> QED
  BY <1>1, FieldTypes DEF TreeBase, SheetFits, SelectionFits

LEMMA SavingKeeps ==
  ASSUME NEW t, TreeBase(t), ListsFit(t), NEW then \in FollowUps, then.kind = "saved",
         SavedFits(t, then), WasRead(t, then)
  PROVE  TreeInv(AfterSaving(t, then))
<1> DEFINE u == [t EXCEPT !.saving = FALSE]
           o == OpenCategoryDetail(u, then.id)
<1>1. t \in TreeRecord
  BY DEF TreeBase
<1>2. u \in TreeRecord
  BY <1>1 DEF TreeRecord
<1>3. /\ u.screen = t.screen /\ u.route = t.route /\ u.selected = t.selected /\ u.shown = t.shown
      /\ u.counts = t.counts /\ u.known = t.known /\ u.existing = t.existing /\ u.given = t.given
      /\ u.view = t.view /\ u.listed = t.listed /\ u.generation = t.generation
      /\ u.dialog = t.dialog /\ u.went = t.went /\ u.calls = t.calls
      /\ u.status = t.status /\ u.saving = FALSE
  BY <1>1 DEF TreeRecord
<1>4. AfterSaving(t, then) = IF ~StillThere(u, then.route) THEN u
         ELSE IF then.id \in t.known THEN [o EXCEPT !.route = then.id, !.went = IF then.made THEN then.id ELSE @]
         ELSE o
  BY DEF AfterSaving
<1> HIDE DEF u
<1>5. TreeInv(u)
  <2>1. Resembles(u, t)
    BY <1>2, <1>3 DEF Resembles
  <2> QED
    BY <1>3, <2>1, StillKeeps
<1>6. /\ then.id \in Categories /\ then.made \in BOOLEAN /\ then.route \in TreeRoutes /\ then.id \in t.given
      /\ NewCategory \notin Categories /\ NoCategory \notin Categories
  BY ThenTypes, CategoryAssumption DEF SavedFits
\* Where the sheet still is, the dialog is closed or is of the category saved.
<1>7. ASSUME StillThere(u, then.route)
      PROVE  t.dialog \in {NoCategory, then.id} /\ t.screen = "detail" /\ t.route = then.route
  BY <1>3, <1>7, DialogAddress DEF StillThere, SavedFits, MadeFrom
<1>8. ASSUME StillThere(u, then.route), then.id \in t.known
      PROVE  TreeInv([o EXCEPT !.route = then.id, !.went = IF then.made THEN then.id ELSE @])
  <2>1. Opens(o, u, then.id)
    BY <1>2, <1>3, <1>8, OpenIs
  <2>2. ~then.made => o.went = then.id
    BY <1>3, <1>6, <1>7, <1>8, <2>1 DEF Opens, SavedFits, TreeBase, SheetFits, Sheet
  <2> HIDE DEF o
  <2>3. [o EXCEPT !.route = then.id, !.went = IF then.made THEN then.id ELSE @] = [o EXCEPT !.route = then.id, !.went = then.id]
    BY <1>6, <2>1, <2>2 DEF Opens, TreeRecord
  <2>4. OpenedAt([o EXCEPT !.route = then.id, !.went = then.id], u, then.id)
        /\ [o EXCEPT !.route = then.id, !.went = then.id].saving = u.saving
    BY <1>2, <1>3, <1>8, <2>1, OpenedIs
  <2>5. TreeInv([o EXCEPT !.route = then.id, !.went = then.id])
    BY <1>3, <1>5, <1>7, <1>8, <2>4, OpenedKeeps DEF TreeInv
  <2> QED
    BY <2>3, <2>5
<1>9. ASSUME StillThere(u, then.route), then.id \notin t.known PROVE TreeInv(o)
  <2>1. then.id \notin u.known \cup u.existing
    BY <1>3, <1>9 DEF WasRead
  <2>2. u.shown \notin u.known \cup u.existing
    <3>1. /\ (t.shown \in Categories /\ t.route = t.shown) \/ (t.shown = NoCategory /\ t.route = NewCategory)
          /\ t.known \cup t.existing \subseteq Categories
      BY <1>1, <1>7, <1>9, FieldTypes DEF TreeBase, SheetFits
    <3> QED
      BY <1>3, <1>6, <1>7, <1>9, <2>1, <3>1 DEF SavedFits, MadeFrom
  <2>3. TreeInv([u EXCEPT !.selected = then.id])
    BY <1>3, <1>5, <1>6, <1>7, <1>9, <2>1, <2>2, MissingKeeps
  <2>4. o = [u EXCEPT !.selected = then.id]
    BY <2>1 DEF OpenCategoryDetail
  <2> QED
    BY <2>3, <2>4
<1> HIDE DEF o
<1> QED
  BY <1>4, <1>5, <1>8, <1>9

LEMMA ActivationKeeps ==
  ASSUME NEW t, TreeInv(t), t.route \in Planted \cup {CategoryList, NewCategory}
  PROVE  TreeInv([OpenRequestedCategory(t, t.route) EXCEPT !.went = Sheet(OpenRequestedCategory(t, t.route))])
<1> DEFINE o == OpenRequestedCategory(t, t.route)
           u == [o EXCEPT !.went = Sheet(o)]
<1>1. t \in TreeRecord /\ TreeBase(t) /\ ListsFit(t) /\ (t.saving => SavesOn(t))
  BY DEF TreeInv, TreeBase
<1>2. /\ CategoryList \notin Categories /\ NewCategory \notin Categories /\ CategoryList # NewCategory
      /\ Planted \subseteq Categories /\ NoCategory \notin Categories
  BY CategoryAssumption DEF CategoryList, NewCategory
<1>3. CASE t.route = CategoryList
  <2>1. o = t /\ Sheet(t) = t.went
    BY <1>1, <1>2, <1>3 DEF OpenRequestedCategory, TreeBase, SheetFits
  <2>2. u = t
    BY <1>1, <2>1 DEF TreeRecord
  <2> QED
    BY <2>2
<1>4. CASE t.route = NewCategory
  <2>1. o = [t EXCEPT !.selected = NoCategory, !.screen = "detail", !.shown = NoCategory, !.counts = NoCategory]
    BY <1>2, <1>4 DEF OpenRequestedCategory, StartCreateCategory
  <2>2. /\ o \in TreeRecord
        /\ o.screen = "detail" /\ o.route = NewCategory /\ o.selected = NoCategory /\ o.shown = NoCategory
        /\ o.counts = NoCategory
        /\ o.known = t.known /\ o.existing = t.existing /\ o.given = t.given
        /\ o.view = t.view /\ o.listed = t.listed /\ o.generation = t.generation /\ o.status = t.status
        /\ o.dialog = t.dialog /\ o.calls = t.calls /\ o.saving = t.saving
    BY <1>1, <1>4, <2>1, ZenonT(60) DEF TreeRecord
  <2> HIDE DEF o
  <2>3. Sheet(o) = NoCategory
    BY <2>2 DEF Sheet
  <2>4. u = [o EXCEPT !.went = NoCategory]
    BY <2>3
  <2>5. /\ u \in TreeRecord /\ u.went = NoCategory
        /\ u.screen = o.screen /\ u.route = o.route /\ u.selected = o.selected /\ u.shown = o.shown /\ u.counts = o.counts
        /\ u.known = o.known /\ u.existing = o.existing /\ u.given = o.given
        /\ u.view = o.view /\ u.listed = o.listed /\ u.generation = o.generation /\ u.status = o.status
        /\ u.dialog = o.dialog /\ u.calls = o.calls /\ u.saving = o.saving
    BY <2>2, <2>4 DEF TreeRecord
  <2> HIDE DEF u
  <2>6. EmptyAt(u, t)
    BY <2>2, <2>5 DEF EmptyAt
  <2>7. t.dialog = NoCategory
    BY <1>1, <1>2, <1>4, DialogAddress
  <2>8. TreeInv(u)
    BY <2>6, <2>7, EmptyKeeps
  <2> QED
    BY <2>8 DEF u, o
<1>5. CASE t.route \in Planted
  <2>1. o = OpenCategoryDetail(t, t.route) /\ t.route \in Categories /\ t.dialog \in {NoCategory, t.route} /\ t.route \in t.given
    BY <1>1, <1>2, <1>5, DialogAddress DEF OpenRequestedCategory, TreeBase, IdsFit
  <2>2. CASE t.route \in t.known
    <3>1. Opens(o, t, t.route)
      BY <1>1, <2>1, <2>2, OpenIs
    <3> HIDE DEF o
    <3>2. Sheet(o) = t.route /\ o.route = t.route /\ o \in TreeRecord
      BY <3>1 DEF Sheet, Opens
    <3>3. u = [o EXCEPT !.route = t.route, !.went = t.route]
      BY <3>2 DEF TreeRecord
    <3> HIDE DEF u
    <3>4. OpenedAt(u, t, t.route) /\ u.saving = t.saving
      BY <1>1, <2>2, <3>1, <3>3, OpenedIs
    <3>5. TreeInv(u)
      BY <1>1, <2>1, <2>2, <3>4, OpenedKeeps
    <3> QED
      BY <3>5 DEF u, o
  <2>3. CASE t.route \notin t.known
    <3>1. t.route \notin t.known \cup t.existing /\ o = [t EXCEPT !.selected = t.route]
      BY <1>1, <1>5, <2>1, <2>3 DEF TreeBase, IdsFit, OpenCategoryDetail
    <3>2. t.screen = "detail" => t.shown \notin t.known \cup t.existing
      BY <1>1, <1>2, <2>1, <3>1 DEF TreeBase, SheetFits
    <3>3. TreeInv(o)
      BY <2>1, <3>1, <3>2, MissingKeeps
    <3> HIDE DEF o
    <3>4. o \in TreeRecord /\ Sheet(o) = o.went
      BY <3>3 DEF TreeInv, TreeBase, SheetFits
    <3>5. u = o
      BY <3>4 DEF TreeRecord
    <3> QED
      BY <3>3, <3>5 DEF o, u
  <2> QED
    BY <2>2, <2>3
<1> QED
  BY <1>3, <1>4, <1>5

LEMMA AfterKeeps ==
  ASSUME NEW t, TreeBase(t), ListsFit(t), NEW then \in FollowUps,
         t.saving => SavesOn(t) \/ then.kind = "saved",
         then.kind = "saved" => SavedFits(t, then) /\ WasRead(t, then)
  PROVE  TreeInv(AfterInventory(t, then))
<1>1. t \in TreeRecord
  BY DEF TreeBase
<1>2. CASE then.kind = "saved"
  BY <1>2, SavingKeeps DEF AfterInventory
<1>3. ASSUME then.kind # "saved" PROVE TreeInv(t)
  BY <1>3 DEF TreeInv
<1>4. CASE then.kind = "nothing"
  BY <1>3, <1>4 DEF AfterInventory
<1>5. CASE then.kind = "deleted"
  <2> DEFINE u == [t EXCEPT !.status = "deleted", !.confirm = TRUE]
  <2>1. Resembles(u, t)
    BY <1>1, ZenonT(60) DEF Resembles, TreeRecord
  <2>2. u.saving = t.saving
    BY <1>1 DEF TreeRecord
  <2>3. AfterInventory(t, then) = u
    BY <1>5 DEF AfterInventory
  <2> HIDE DEF u
  <2> QED
    BY <1>5, <2>1, <2>2, <2>3, StillKeeps
<1>6. CASE then.kind = "activation"
  <2>1. CASE then.generation = t.activations /\ t.route = then.route
    <3>1. t.route \in Planted \cup {CategoryList, NewCategory}
      BY <1>6, <2>1, ThenTypes
    <3>2. AfterInventory(t, then) = [OpenRequestedCategory(t, t.route) EXCEPT !.went = Sheet(OpenRequestedCategory(t, t.route))]
      BY <1>6, <2>1 DEF AfterInventory
    <3> QED
      BY <1>3, <1>6, <3>1, <3>2, ActivationKeeps
  <2>2. CASE ~(then.generation = t.activations /\ t.route = then.route)
    BY <1>3, <1>6, <2>2 DEF AfterInventory
  <2> QED
    BY <2>1, <2>2
<1> QED
  BY <1>2, <1>4, <1>5, <1>6, ThenTypes

--------------------------------------------------------------------------------
(* The invariant of the category screen holds at the start, and its actions keep it.*)

LEMMA TreeInitially == CategoryInit => TreeInv(tree)
<1> SUFFICES ASSUME CategoryInit PROVE TreeInv(tree)
  OBVIOUS
<1>1. (CHOOSE v \in Views : TRUE) \in Views /\ Planted \subseteq Categories
  BY CategoryAssumption
<1>2. CategoryList \in TreeRoutes
  BY DEF TreeRoutes
<1>3. /\ tree.screen = "list" /\ tree.selected = NoCategory /\ tree.shown = NoCategory /\ tree.went = NoSheet
      /\ tree.known = Planted /\ tree.existing = Planted /\ tree.given = Planted /\ tree.view = tree.listed
      /\ tree.dialog = NoCategory /\ tree.saving = FALSE /\ tree.calls = {}
  BY DEF CategoryInit
<1>4. tree \in TreeRecord
  <2> DEFINE First == CHOOSE v \in Views : TRUE
  <2> HIDE DEF First
  <2>1. First \in Views
    BY <1>1 DEF First
  <2>2. tree \in [screen : {"list"}, route : {CategoryList}, selected : {NoCategory}, shown : {NoCategory},
            counts : {NoCategory}, known : {Planted}, existing : {Planted}, given : {Planted}, view : {First},
            listed : {First}, status : {"found"}, generation : {0}, activations : {0},
            dialog : {NoCategory}, confirm : {FALSE}, saving : {FALSE}, calls : {{}}, acts : {0}, went : {NoSheet}]
    BY DEF CategoryInit, First
  <2>3. {} \in SUBSET TreeCalls /\ 0 \in Nat
    OBVIOUS
  <2> DEFINE Nought == {}
             Start == [screen |-> "list", route |-> CategoryList, selected |-> NoCategory, shown |-> NoCategory,
                       counts |-> NoCategory, known |-> Planted, existing |-> Planted, given |-> Planted, view |-> First,
                       listed |-> First, status |-> "found", generation |-> 0, activations |-> 0,
                       dialog |-> NoCategory, confirm |-> FALSE, saving |-> FALSE, calls |-> Nought, acts |-> 0, went |-> NoSheet]
  <2> HIDE DEF Nought
  <2>4. tree = Start
    BY <2>2 DEF Nought
  <2>5. Start \in TreeRecord
    BY <1>1, <1>2, <2>1, <2>3 DEF TreeRecord, Nought
  <2> QED
    BY <2>4, <2>5
<1>5. NoCategory \notin Categories
  BY CategoryAssumption
<1> QED
  BY <1>3, <1>4, <1>5 DEF TreeInv, TreeBase, IdsFit, SheetFits, Sheet, SelectionFits, CallsFit, ListsBounded, ListsFit

LEMMA ListShown ==
  ASSUME TreeInv(tree), NEW u, ListAt(u, tree), u.saving = tree.saving,
         \A c \in tree.calls : c \in u.calls \/ c.kind = "delete", NEW then \in FollowUps \ SavedThens
  PROVE  TreeInv(LoadCategoryInventory(u, then))
<1>1. TreeBase(u)
  BY ListBase DEF TreeInv
<1>2. u.saving => SavesOn(u)
  BY DEF TreeInv, SavesOn
<1>3. then.kind # "saved"
  BY DEF FollowUps, NoFollowUp, DeletedThen, GoneThens
<1> QED
  BY <1>1, <1>2, <1>3, LoadKeeps

LEMMA ChangingView == ASSUME TreeInv(tree), NEW v \in Views, ChangeView(v) PROVE TreeInv(tree')
<1> DEFINE u == [tree EXCEPT !.view = v, !.route = CategoryList]
<1>1. tree \in TreeRecord /\ SheetFits(tree)
  BY DEF TreeInv, TreeBase
<1>2. tree.screen = "list" /\ tree.dialog = NoCategory
  BY DEF ChangeView, TreeAct, OnTree
<1>3. tree' = [LoadCategoryInventory(u, NoFollowUp) EXCEPT !.acts = @ + 1]
  BY DEF ChangeView, TreeAct
<1>4. tree.went = NoSheet
  BY <1>1, <1>2 DEF SheetFits, Sheet
<1>5. ListAt(u, tree) /\ u.saving = tree.saving /\ u.calls = tree.calls
  BY <1>1, <1>2, <1>4, ZenonT(60) DEF ListAt, TreeRecord, TreeRoutes
<1>6. NoFollowUp \in FollowUps \ SavedThens
  BY DEF FollowUps, SavedThens, NoFollowUp
<1> HIDE DEF u
<1>7. TreeInv(LoadCategoryInventory(u, NoFollowUp))
  BY <1>5, <1>6, ListShown
<1> QED
  BY <1>3, <1>7, ActKeeps

LEMMA GoingTo == ASSUME TreeInv(tree), NEW route \in Planted \cup {CategoryList, NewCategory}, GoTo(route) PROVE TreeInv(tree')
<1> DEFINE u == [ShowCategoryListScreen(tree) EXCEPT !.route = route, !.activations = @ + 1, !.went = NoSheet]
           then == [kind |-> "activation", generation |-> tree.activations + 1, route |-> route]
<1>1. tree \in TreeRecord /\ tree.activations \in Nat /\ Planted \subseteq Categories
  BY FieldTypes, CategoryAssumption DEF TreeInv, TreeBase
<1>2. tree.dialog = NoCategory
  BY DEF GoTo, TreeAct, OnTree
<1>3. tree' = [LoadCategoryInventory(u, then) EXCEPT !.acts = @ + 1]
  BY DEF GoTo, TreeAct
<1>4. tree.activations + 1 \in Nat /\ route \in TreeRoutes
  BY <1>1 DEF TreeRoutes
<1>5. u = [tree EXCEPT !.screen = "list", !.selected = NoCategory, !.route = route, !.activations = @ + 1, !.went = NoSheet]
  BY <1>1 DEF ShowCategoryListScreen, TreeRecord
<1>6. ListAt(u, tree) /\ u.saving = tree.saving /\ u.calls = tree.calls
  <2> HIDE DEF u
  <2>1. u \in TreeRecord
    BY <1>1, <1>4, <1>5 DEF TreeRecord
  <2> QED
    BY <1>1, <1>2, <1>5, <2>1 DEF ListAt, TreeRecord
<1>7. then \in FollowUps \ SavedThens
  BY <1>4 DEF FollowUps, SavedThens, GoneThens
<1> HIDE DEF u, then
<1>8. TreeInv(LoadCategoryInventory(u, then))
  BY <1>6, <1>7, ListShown
<1> QED
  BY <1>3, <1>8, ActKeeps

LEMMA ClosedIs ==
  ASSUME NEW t \in TreeRecord, NEW u, u = [ShowCategoryListScreen(t) EXCEPT !.route = CategoryList, !.went = NoSheet]
  PROVE  u = [t EXCEPT !.screen = "list", !.selected = NoCategory, !.route = CategoryList, !.went = NoSheet] /\ u \in TreeRecord
<1>1. u = [t EXCEPT !.screen = "list", !.selected = NoCategory, !.route = CategoryList, !.went = NoSheet]
  BY DEF ShowCategoryListScreen, TreeRecord
<1>2. u \in TreeRecord
  BY <1>1, ZenonT(60) DEF TreeRecord, TreeRoutes
<1> QED
  BY <1>1, <1>2

\* The sheet closes, as the user goes back or as the category is deleted.
LEMMA ClosingKeeps ==
  ASSUME TreeInv(tree), NEW t \in TreeRecord, t.selected = tree.selected, t.shown = tree.shown, t.dialog = NoCategory,
         t.generation = tree.generation, t.known = tree.known, t.existing \subseteq tree.existing, t.given = tree.given,
         t.saving = tree.saving, t.calls \subseteq tree.calls, \A c \in tree.calls : c \in t.calls \/ c.kind = "delete"
  PROVE  TreeInv(CloseCategoryDetail(t))
<1> DEFINE u == [ShowCategoryListScreen(t) EXCEPT !.route = CategoryList, !.went = NoSheet]
<1>1. u = [t EXCEPT !.screen = "list", !.selected = NoCategory, !.route = CategoryList, !.went = NoSheet]
  BY ClosedIs
<1>2. u \in TreeRecord
  BY ClosedIs
<1>3. ListAt(u, tree) /\ u.saving = tree.saving /\ u.calls = t.calls
  <2> HIDE DEF u
  <2> QED
    BY <1>1, <1>2 DEF ListAt, TreeRecord
<1>4. NoFollowUp \in FollowUps \ SavedThens
  BY DEF FollowUps, SavedThens, NoFollowUp
<1>5. CloseCategoryDetail(t) = LoadCategoryInventory(u, NoFollowUp)
  BY DEF CloseCategoryDetail
<1> HIDE DEF u
<1> QED
  BY <1>3, <1>4, <1>5, ListShown

LEMMA GoingBack == ASSUME TreeInv(tree), BackToList PROVE TreeInv(tree')
<1>1. tree \in TreeRecord
  BY DEF TreeInv, TreeBase
<1>2. tree.dialog = NoCategory /\ tree' = [CloseCategoryDetail(tree) EXCEPT !.acts = @ + 1]
  BY DEF BackToList, TreeAct, OnTheSheet, OnTree
<1>3. TreeInv(CloseCategoryDetail(tree))
  BY <1>1, <1>2, ClosingKeeps
<1> QED
  BY <1>2, <1>3, ActKeeps

LEMMA ClickingCategory == ASSUME TreeInv(tree), NEW id \in Categories, ClickCategory(id) PROVE TreeInv(tree')
<1> DEFINE o == OpenCategoryDetail(tree, id)
           u == [o EXCEPT !.route = id, !.went = id]
<1>1. tree \in TreeRecord /\ TreeBase(tree) /\ ListsFit(tree) /\ (tree.saving => SavesOn(tree))
  BY DEF TreeInv, TreeBase
<1>2. tree.dialog = NoCategory /\ id \in tree.known /\ tree' = [u EXCEPT !.acts = @ + 1]
  BY DEF ClickCategory, TreeAct, OnTree
<1>3. Opens(o, tree, id)
  BY <1>1, <1>2, OpenIs
<1>4. OpenedAt(u, tree, id) /\ u.saving = tree.saving
  BY <1>1, <1>2, <1>3, OpenedIs
<1> HIDE DEF u
<1>5. TreeInv(u)
  BY <1>1, <1>2, <1>4, OpenedKeeps
<1> QED
  BY <1>2, <1>5, ActKeeps

LEMMA ClickingNew == ASSUME TreeInv(tree), ClickNewCategory PROVE TreeInv(tree')
<1> DEFINE u == [StartCreateCategory(tree) EXCEPT !.route = NewCategory, !.went = NoCategory]
<1>1. tree \in TreeRecord
  BY DEF TreeInv, TreeBase
<1>2. tree.dialog = NoCategory /\ tree' = [u EXCEPT !.acts = @ + 1]
  BY DEF ClickNewCategory, TreeAct, OnTree
<1>3. u = [tree EXCEPT !.selected = NoCategory, !.screen = "detail", !.shown = NoCategory, !.counts = NoCategory,
                       !.route = NewCategory, !.went = NoCategory]
  BY <1>1 DEF StartCreateCategory, TreeRecord
<1> HIDE DEF u
<1>4. EmptyAt(u, tree)
  <2>1. u \in TreeRecord
    BY <1>1, <1>3, ZenonT(60) DEF TreeRecord, TreeRoutes
  <2> QED
    BY <1>1, <1>3, <2>1 DEF EmptyAt, TreeRecord
<1>5. TreeInv(u)
  BY <1>2, <1>4, EmptyKeeps
<1> QED
  BY <1>2, <1>5, ActKeeps

SaveCall(t) == [kind |-> "save", of |-> SelectedCategory(t), route |-> t.route]

LEMMA Saving == ASSUME TreeInv(tree), SaveCategory PROVE TreeInv(tree')
<1> DEFINE Pending == tree.calls \cup {SaveCall(tree)}
           u == [tree EXCEPT !.saving = TRUE, !.calls = Pending]
<1>1. tree \in TreeRecord /\ TreeBase(tree) /\ ListsFit(tree) /\ NoCategory \notin Categories /\ tree.known \subseteq Categories
  BY CategoryAssumption, FieldTypes DEF TreeInv, TreeBase
<1>2. tree.dialog = NoCategory /\ tree.screen = "detail" /\ tree' = [u EXCEPT !.acts = @ + 1]
  BY DEF SaveCategory, TreeAct, OnTheSheet, OnTree, SaveCall
<1>3. /\ SaveCall(tree).kind = "save" /\ SaveCall(tree).of = SelectedCategory(tree) /\ SaveCall(tree).route = tree.route
      /\ SaveCall(tree).of \in Categories \cup {NoCategory} /\ SaveCall(tree).route \in TreeRoutes
  BY <1>1, FieldTypes DEF SaveCall, SelectedCategory
<1>4. SaveCall(tree) \in TreeCalls
  BY <1>3 DEF TreeCalls, SaveCall
\* What is saved is what the sheet shows; or the sheet is of nothing, or of what is gone.
<1>5. CallFits(tree, SaveCall(tree))
  <2>1. CASE tree.selected \in tree.known
    <3>1. SaveCall(tree).of = tree.shown /\ tree.shown \in Categories /\ tree.shown \in tree.given /\ tree.route = tree.shown
      BY <1>1, <1>2, <1>3, <2>1 DEF SelectedCategory, TreeBase, SelectionFits, SheetFits, IdsFit
    <3> QED
      BY <1>1, <1>3, <3>1 DEF CallFits
  <2>2. CASE tree.selected \notin tree.known
    <3>1. SaveCall(tree).of = NoCategory
      BY <1>3, <2>2 DEF SelectedCategory
    <3>2. tree.shown \notin tree.known \cup tree.existing
      BY <1>1, <1>2, <2>2 DEF TreeBase, SelectionFits, IdsFit
    <3>3. tree.route \in Categories => tree.route = tree.shown /\ tree.shown \in tree.given
      BY <1>1, <1>2, CategoryAssumption DEF TreeBase, SheetFits, IdsFit
    <3>4. MadeFrom(tree, tree.route)
      BY <1>1, <1>2, <3>2, <3>3 DEF MadeFrom
    <3> QED
      BY <1>3, <3>1, <3>4 DEF CallFits
  <2> QED
    BY <2>1, <2>2
<1>6. Pending \in SUBSET TreeCalls
  BY <1>1, <1>4, FieldTypes
<1>7. SaveCall(tree) \in Pending /\ \A c \in Pending : c \in tree.calls \/ CallFits(tree, c)
  BY <1>5
<1> HIDE DEF Pending
<1>8. Moved(u, tree) /\ u.calls = Pending
  BY <1>1, <1>6, <1>7, ZenonT(60) DEF Moved, TreeRecord
<1>9. SelectionFits(u)
  BY <1>1 DEF TreeBase, SelectionFits, TreeRecord
<1> HIDE DEF u
<1>10. SavesOn(u)
  BY <1>3, <1>7, <1>8 DEF SavesOn
<1>11. TreeInv(u)
  BY <1>1, <1>8, <1>9, <1>10, MovedKeeps
<1> QED
  BY <1>2, <1>11, ActKeeps

LEMMA OpeningDialog == ASSUME TreeInv(tree), OpenCategoryDeleteDialog PROVE TreeInv(tree')
<1> DEFINE Pending == tree.calls \cup {ImpactCall(tree.selected, "dialog")}
           u == [tree EXCEPT !.dialog = tree.selected, !.confirm = FALSE, !.calls = Pending]
<1>1. /\ tree \in TreeRecord /\ TreeBase(tree) /\ ListsFit(tree) /\ NoCategory \notin Categories /\ tree.known \subseteq Categories
      /\ (tree.saving => SavesOn(tree))
  BY CategoryAssumption, FieldTypes DEF TreeInv, TreeBase
<1>2. /\ tree.screen = "detail" /\ tree.selected \in tree.known
      /\ tree' = [ReadImpact([tree EXCEPT !.dialog = tree.selected, !.confirm = FALSE], tree.selected, "dialog") EXCEPT !.acts = @ + 1]
  BY DEF OpenCategoryDeleteDialog, TreeAct, OnTheSheet, SelectedCategory
<1>3. ReadImpact([tree EXCEPT !.dialog = tree.selected, !.confirm = FALSE], tree.selected, "dialog") = u
  BY <1>1 DEF ReadImpact, ImpactCall, TreeRecord
<1>4. ImpactCall(tree.selected, "dialog") \in TreeCalls /\ CallFits(tree, ImpactCall(tree.selected, "dialog"))
  BY <1>1, <1>2 DEF ImpactCall, TreeCalls, CallFits
<1>5. Pending \in SUBSET TreeCalls /\ (\A c \in Pending : c \in tree.calls \/ CallFits(tree, c)) /\ tree.calls \subseteq Pending
  BY <1>1, <1>4, FieldTypes
<1>6. tree.shown = tree.selected
  BY <1>1, <1>2 DEF TreeBase, SelectionFits
<1> HIDE DEF Pending
<1>7. Moved(u, tree) /\ u.calls = Pending /\ u.saving = tree.saving
  BY <1>1, <1>2, <1>5, ZenonT(60) DEF Moved, TreeRecord
<1>8. SelectionFits(u)
  BY <1>1, <1>2, <1>6 DEF TreeBase, SelectionFits, TreeRecord
<1> HIDE DEF u
<1>9. u.saving => SavesOn(u)
  BY <1>1, <1>5, <1>7 DEF SavesOn
<1>10. TreeInv(u)
  BY <1>1, <1>7, <1>8, <1>9, MovedKeeps
<1> QED
  BY <1>2, <1>3, <1>10, ActKeeps

LEMMA Cancelling == ASSUME TreeInv(tree), CancelDelete PROVE TreeInv(tree')
<1> DEFINE u == [tree EXCEPT !.dialog = NoCategory]
<1>1. tree \in TreeRecord /\ TreeBase(tree) /\ ListsFit(tree) /\ (tree.saving => SavesOn(tree))
  BY DEF TreeInv, TreeBase
<1>2. tree' = [u EXCEPT !.acts = @ + 1]
  BY DEF CancelDelete, TreeAct
<1>3. Moved(u, tree) /\ u.calls = tree.calls /\ u.saving = tree.saving
  BY <1>1 DEF Moved, TreeRecord
<1>4. SelectionFits(u)
  BY <1>1 DEF TreeBase, SelectionFits, TreeRecord
<1> HIDE DEF u
<1>5. TreeInv(u)
  BY <1>1, <1>3, <1>4, MovedKeeps DEF SavesOn
<1> QED
  BY <1>2, <1>5, ActKeeps

DeleteCall(id) == [kind |-> "delete", of |-> id]

LEMMA Confirming == ASSUME TreeInv(tree), ConfirmCategoryDelete PROVE TreeInv(tree')
<1> DEFINE Pending == tree.calls \cup {DeleteCall(tree.selected)}
           u == [tree EXCEPT !.confirm = FALSE, !.calls = Pending]
<1>1. /\ tree \in TreeRecord /\ TreeBase(tree) /\ ListsFit(tree) /\ tree.known \subseteq Categories /\ NoCategory \notin Categories
      /\ (tree.saving => SavesOn(tree))
  BY CategoryAssumption, FieldTypes DEF TreeInv, TreeBase
<1>2. tree.selected \in tree.known /\ tree' = [u EXCEPT !.acts = @ + 1]
  BY DEF ConfirmCategoryDelete, TreeAct, DeleteCall, SelectedCategory
<1>3. DeleteCall(tree.selected) \in TreeCalls /\ CallFits(tree, DeleteCall(tree.selected))
  BY <1>1, <1>2 DEF DeleteCall, TreeCalls, CallFits
<1>4. Pending \in SUBSET TreeCalls /\ (\A c \in Pending : c \in tree.calls \/ CallFits(tree, c)) /\ tree.calls \subseteq Pending
  BY <1>1, <1>3, FieldTypes
<1> HIDE DEF Pending
<1>5. Moved(u, tree) /\ u.calls = Pending /\ u.saving = tree.saving
  BY <1>1, <1>4, ZenonT(60) DEF Moved, TreeRecord
<1>6. SelectionFits(u)
  BY <1>1 DEF TreeBase, SelectionFits, TreeRecord
<1> HIDE DEF u
<1>7. u.saving => SavesOn(u)
  BY <1>1, <1>4, <1>5 DEF SavesOn
<1>8. TreeInv(u)
  BY <1>1, <1>5, <1>6, <1>7, MovedKeeps
<1> QED
  BY <1>2, <1>8, ActKeeps

LEMMA OthersDeleting == ASSUME TreeInv(tree), NEW id \in Categories, OthersDelete(id) PROVE TreeInv(tree')
<1> DEFINE Left == tree.existing \ {id}
           u == [tree EXCEPT !.existing = Left]
<1>1. tree \in TreeRecord /\ TreeBase(tree) /\ ListsFit(tree) /\ (tree.saving => SavesOn(tree))
  BY DEF TreeInv, TreeBase
<1>2. tree' = [u EXCEPT !.acts = @ + 1] /\ Left \subseteq tree.existing /\ Left \in SUBSET Categories
  BY <1>1, FieldTypes DEF OthersDelete, TreeAct
<1> HIDE DEF Left
<1>3. Moved(u, tree) /\ u.calls = tree.calls /\ u.saving = tree.saving
  BY <1>1, <1>2 DEF Moved, TreeRecord
<1>4. SelectionFits(u)
  BY <1>1, <1>2 DEF TreeBase, SelectionFits, TreeRecord
<1> HIDE DEF u
<1>5. TreeInv(u)
  BY <1>1, <1>3, <1>4, MovedKeeps DEF SavesOn
<1> QED
  BY <1>2, <1>5, ActKeeps

--------------------------------------------------------------------------------

\* A call of the counts is answered.
LEMMA ImpactKeeps ==
  ASSUME TreeInv(tree), NEW c \in tree.calls, c.kind = "impact",
         NEW counts \in Categories \cup {NoCategory, Unread},
         counts \in {tree.counts, Unread} \/ (tree.selected \in Categories /\ counts = tree.selected),
         NEW confirm \in BOOLEAN
  PROVE  TreeInv([tree EXCEPT !.calls = @ \ {c}, !.counts = counts, !.confirm = confirm])
<1> DEFINE Pending == tree.calls \ {c}
           u == [tree EXCEPT !.calls = Pending, !.counts = counts, !.confirm = confirm]
<1>1. tree \in TreeRecord /\ TreeBase(tree) /\ ListsFit(tree) /\ (tree.saving => SavesOn(tree))
  BY DEF TreeInv, TreeBase
<1>2. Pending \subseteq tree.calls /\ Pending \in SUBSET TreeCalls /\ \A d \in tree.calls : d.kind # "impact" => d \in Pending
  BY <1>1, FieldTypes
<1>3. u = [tree EXCEPT !.calls = @ \ {c}, !.counts = counts, !.confirm = confirm]
  BY <1>1 DEF TreeRecord
<1> HIDE DEF Pending
<1>4. u \in TreeRecord
  BY <1>1, <1>2, ZenonT(60) DEF TreeRecord
<1>5. Moved(u, tree) /\ u.calls = Pending /\ u.saving = tree.saving
  BY <1>1, <1>2, <1>4 DEF Moved, TreeRecord
<1>6. SelectionFits(u)
  BY <1>1 DEF TreeBase, SelectionFits, TreeRecord
<1> HIDE DEF u
<1>7. u.saving => SavesOn(u)
  BY <1>1, <1>2, <1>5 DEF SavesOn
<1>8. TreeInv(u)
  BY <1>1, <1>5, <1>6, <1>7, MovedKeeps
<1> QED
  BY <1>3, <1>8

LEMMA CountsAnswered ==
  ASSUME TreeInv(tree), NEW c \in tree.calls, RefreshCategoryImpact(c) \/ ImpactFails(c) \/ \E can \in BOOLEAN : DialogImpact(c, can)
  PROVE  TreeInv(tree')
<1>1. tree \in TreeRecord /\ c \in TreeCalls /\ tree.counts \in Categories \cup {NoCategory, Unread} /\ tree.confirm \in BOOLEAN
  BY FieldTypes DEF TreeInv, TreeBase
<1>2. CASE RefreshCategoryImpact(c)
  <2> DEFINE counts == IF tree.selected = c.of THEN c.of ELSE tree.counts
  <2>1. c.kind = "impact" /\ c.of \in Categories /\ tree' = [tree EXCEPT !.calls = @ \ {c}, !.counts = counts]
    BY <1>1, <1>2, CallTypes DEF RefreshCategoryImpact
  <2>2. /\ counts \in Categories \cup {NoCategory, Unread}
        /\ counts \in {tree.counts, Unread} \/ (tree.selected \in Categories /\ counts = tree.selected)
    BY <1>1, <2>1
  <2> HIDE DEF counts
  <2>3. tree' = [tree EXCEPT !.calls = @ \ {c}, !.counts = counts, !.confirm = tree.confirm]
    BY <1>1, <2>1 DEF TreeRecord
  <2>4. TreeInv([tree EXCEPT !.calls = @ \ {c}, !.counts = counts, !.confirm = tree.confirm])
    BY <1>1, <2>1, <2>2, ImpactKeeps
  <2> QED
    BY <2>3, <2>4
<1>3. CASE ImpactFails(c)
  <2> DEFINE counts == IF c.for = "sheet" THEN Unread ELSE tree.counts
  <2>1. c.kind = "impact" /\ tree' = [tree EXCEPT !.calls = @ \ {c}, !.counts = counts]
    BY <1>1, <1>3 DEF ImpactFails
  <2>2. counts \in Categories \cup {NoCategory, Unread} /\ counts \in {tree.counts, Unread}
    BY <1>1
  <2> HIDE DEF counts
  <2>3. tree' = [tree EXCEPT !.calls = @ \ {c}, !.counts = counts, !.confirm = tree.confirm]
    BY <1>1, <2>1 DEF TreeRecord
  <2>4. TreeInv([tree EXCEPT !.calls = @ \ {c}, !.counts = counts, !.confirm = tree.confirm])
    BY <1>1, <2>1, <2>2, ImpactKeeps
  <2> QED
    BY <2>3, <2>4
<1>4. ASSUME NEW can \in BOOLEAN, DialogImpact(c, can) PROVE TreeInv(tree')
  <2>1. c.kind = "impact" /\ tree' = [tree EXCEPT !.calls = @ \ {c}, !.counts = tree.counts, !.confirm = can]
    BY <1>1, <1>4 DEF DialogImpact, TreeRecord
  <2>2. TreeInv([tree EXCEPT !.calls = @ \ {c}, !.counts = tree.counts, !.confirm = can])
    BY <1>1, <2>1, ImpactKeeps
  <2> QED
    BY <2>1, <2>2
<1> QED
  BY <1>2, <1>3, <1>4

\* The list is answered, or is not, and what was to follow does.
LEMMA ListKeeps ==
  ASSUME TreeInv(tree), NEW c \in tree.calls, c.kind = "list", NEW t,
         t = [tree EXCEPT !.calls = @ \ {c}], NEW status \in {"found", "failed", tree.status}, NEW listed \in Views,
         status = "found" => listed = tree.view
  PROVE  TreeInv(AfterInventory([t EXCEPT !.listed = listed, !.status = status], c.then))
<1> DEFINE Pending == tree.calls \ {c}
           u == [t EXCEPT !.listed = listed, !.status = status]
<1>1. tree \in TreeRecord /\ c \in TreeCalls
  BY FieldTypes DEF TreeInv, TreeBase
<1>2. Pending \in SUBSET TreeCalls /\ \A d \in tree.calls : d \in Pending \/ d = c
  BY <1>1, FieldTypes
<1>3. u = [tree EXCEPT !.calls = Pending, !.listed = listed, !.status = status] /\ Pending \subseteq tree.calls
  BY <1>1 DEF TreeRecord
<1> HIDE DEF Pending, u
<1>4. u \in TreeRecord
  BY <1>1, <1>2, <1>3 DEF TreeRecord
<1>5. /\ u.screen = tree.screen /\ u.route = tree.route /\ u.selected = tree.selected /\ u.shown = tree.shown
      /\ u.counts = tree.counts /\ u.known = tree.known /\ u.existing = tree.existing /\ u.given = tree.given
      /\ u.view = tree.view /\ u.listed = listed /\ u.status = status /\ u.generation = tree.generation
      /\ u.dialog = tree.dialog /\ u.went = tree.went /\ u.calls = Pending /\ u.saving = tree.saving
  BY <1>1, <1>3 DEF TreeRecord
<1>6. IdsFit(u) /\ SheetFits(u) /\ SelectionFits(u)
  BY <1>5 DEF TreeInv, TreeBase, IdsFit, SheetFits, Sheet, SelectionFits
<1>7. /\ \A r : MadeFrom(tree, r) => MadeFrom(u, r)
      /\ \A x : SavedFits(tree, x) => SavedFits(u, x)
      /\ \A x : WasRead(tree, x) => WasRead(u, x)
  BY <1>5 DEF MadeFrom, SavedFits, WasRead
<1>8. CallsFit(u)
  BY <1>3, <1>5, <1>7 DEF TreeInv, TreeBase, CallsFit
<1>9. ListsBounded(u) /\ ListsFit(u)
  BY <1>3, <1>5 DEF TreeInv, TreeBase, ListsBounded, ListsFit
<1>10. TreeBase(u)
  BY <1>4, <1>6, <1>8, <1>9 DEF TreeBase
<1>11. c.then \in FollowUps
  BY <1>1, CallTypes
<1>12. u.saving => SavesOn(u) \/ c.then.kind = "saved"
  BY <1>2, <1>5 DEF TreeInv, SavesOn
<1>13. c.then.kind = "saved" => SavedFits(u, c.then) /\ WasRead(u, c.then)
  BY <1>7 DEF TreeInv, TreeBase, CallsFit
<1>14. TreeInv(AfterInventory(u, c.then))
  BY <1>9, <1>10, <1>11, <1>12, <1>13, AfterKeeps
<1> QED
  BY <1>14 DEF u

LEMMA CategoriesListed ==
  ASSUME TreeInv(tree), NEW c \in tree.calls, InventoryAnswered(c) \/ InventoryFails(c)
  PROVE  TreeInv(tree')
<1> DEFINE t == [tree EXCEPT !.calls = @ \ {c}]
<1>1. /\ tree \in TreeRecord /\ c \in TreeCalls /\ tree.listed \in Views
      /\ t.generation = tree.generation /\ t.listed = tree.listed /\ t.status = tree.status /\ t \in TreeRecord
  <2>1. tree \in TreeRecord /\ c \in TreeCalls /\ tree.listed \in Views /\ tree.calls \ {c} \in SUBSET TreeCalls
    BY FieldTypes DEF TreeInv, TreeBase
  <2> QED
    BY <2>1 DEF TreeRecord
<1>2. c.kind = "list"
  BY DEF InventoryAnswered, InventoryFails
<1>3. [t EXCEPT !.listed = tree.listed, !.status = tree.status] = t
  BY <1>1 DEF TreeRecord
<1>4. TreeInv(AfterInventory(t, c.then))
  <2>1. tree.status = "found" => tree.listed = tree.view
    BY DEF TreeInv, ListsFit
  <2>2. TreeInv(AfterInventory([t EXCEPT !.listed = tree.listed, !.status = tree.status], c.then))
    BY <1>1, <1>2, <2>1, ListKeeps
  <2> QED
    BY <1>3, <2>2
<1>5. ASSUME c.generation = t.generation
      PROVE  TreeInv(AfterInventory([t EXCEPT !.listed = c.view, !.status = "found"], c.then))
  <2>1. c.view = tree.view /\ c.view \in Views
    BY <1>1, <1>2, <1>5, CallTypes DEF TreeInv, ListsFit
  <2> QED
    BY <1>2, <2>1, ListKeeps
<1>6. TreeInv(AfterInventory([t EXCEPT !.status = "failed"], c.then))
  <2>1. TreeInv(AfterInventory([t EXCEPT !.listed = tree.listed, !.status = "failed"], c.then))
    BY <1>1, <1>2, ListKeeps
  <2>2. [t EXCEPT !.listed = tree.listed, !.status = "failed"] = [t EXCEPT !.status = "failed"]
    BY <1>1 DEF TreeRecord
  <2> QED
    BY <2>1, <2>2
<1>7. CASE InventoryAnswered(c)
  <2>1. tree' = AfterInventory(IF c.generation = t.generation THEN [t EXCEPT !.listed = c.view, !.status = "found"] ELSE t, c.then)
    BY <1>7 DEF InventoryAnswered
  <2> HIDE DEF t
  <2> QED
    BY <1>4, <1>5, <2>1
<1>8. CASE InventoryFails(c)
  <2>1. tree' = AfterInventory(IF c.aborted \/ c.generation # t.generation THEN t ELSE [t EXCEPT !.status = "failed"], c.then)
    BY <1>8 DEF InventoryFails
  <2> HIDE DEF t
  <2> QED
    BY <1>4, <1>6, <2>1
<1> QED
  BY <1>7, <1>8

LEMMA Read == ASSUME TreeInv(tree), NEW c \in tree.calls, MetadataRead(c) PROVE TreeInv(tree')
<1> DEFINE Pending == tree.calls \ {c}
           u == [tree EXCEPT !.calls = Pending, !.known = tree.existing]
<1>1. tree \in TreeRecord /\ c \in TreeCalls /\ tree.existing \in SUBSET Categories
  BY FieldTypes DEF TreeInv, TreeBase
<1>2. Pending \in SUBSET TreeCalls /\ Pending \subseteq tree.calls /\ \A d \in tree.calls : d \in Pending \/ d = c
  BY <1>1, FieldTypes
<1>3. [tree EXCEPT !.calls = @ \ {c}, !.known = tree.existing] = u
  BY <1>1 DEF TreeRecord
<1>4. c.kind = "metadata" /\ tree' = LoadCategoryInventory(u, c.then)
  BY <1>3 DEF MetadataRead
<1> HIDE DEF Pending
<1>5. u \in TreeRecord
  BY <1>1, <1>2 DEF TreeRecord
<1>6. /\ u.screen = tree.screen /\ u.route = tree.route /\ u.selected = tree.selected /\ u.shown = tree.shown
      /\ u.counts = tree.counts /\ u.known = tree.existing /\ u.existing = tree.existing /\ u.given = tree.given
      /\ u.generation = tree.generation
      /\ u.dialog = tree.dialog /\ u.went = tree.went /\ u.calls = Pending /\ u.saving = tree.saving
  BY <1>1 DEF TreeRecord
<1> HIDE DEF u
<1>7. IdsFit(u) /\ SheetFits(u)
  BY <1>6 DEF TreeInv, TreeBase, IdsFit, SheetFits, Sheet
<1>8. SelectionFits(u)
  BY <1>6 DEF TreeInv, TreeBase, IdsFit, SelectionFits
<1>9. /\ \A r : MadeFrom(tree, r) => MadeFrom(u, r)
      /\ \A x : SavedFits(tree, x) => SavedFits(u, x)
      /\ \A x : WasRead(u, x)
  BY <1>6 DEF MadeFrom, SavedFits, WasRead
<1>10. CallsFit(u)
  BY <1>2, <1>6, <1>9 DEF TreeInv, TreeBase, CallsFit
<1>11. ListsBounded(u)
  BY <1>2, <1>6 DEF TreeInv, TreeBase, ListsBounded
<1>12. TreeBase(u)
  BY <1>5, <1>7, <1>8, <1>10, <1>11 DEF TreeBase
<1>13. c.then \in FollowUps
  BY <1>1, <1>4, CallTypes DEF FollowUps
<1>14. u.saving => SavesOn(u) \/ c.then.kind = "saved"
  BY <1>2, <1>4, <1>6 DEF TreeInv, SavesOn
<1>15. c.then.kind = "saved" => SavedFits(u, c.then) /\ WasRead(u, c.then)
  BY <1>4, <1>9 DEF TreeInv, TreeBase, CallsFit
<1> QED
  BY <1>4, <1>12, <1>13, <1>14, <1>15, LoadKeeps

DeletedCall == [kind |-> "metadata", then |-> [kind |-> "deleted"]]

LEMMA Deleted == ASSUME TreeInv(tree), NEW c \in tree.calls, CategoryDeleted(c) PROVE TreeInv(tree')
<1> DEFINE Pending == tree.calls \ {c}
           Left == tree.existing \ {c.of}
           t == [tree EXCEPT !.calls = Pending, !.existing = Left, !.dialog = NoCategory]
           u == CloseCategoryDetail(t)
<1>1. tree \in TreeRecord /\ c \in TreeCalls /\ tree.existing \in SUBSET Categories /\ c.kind = "delete"
  BY FieldTypes DEF TreeInv, TreeBase, CategoryDeleted
<1>2. Pending \in SUBSET TreeCalls /\ Pending \subseteq tree.calls /\ \A d \in tree.calls : d \in Pending \/ d.kind = "delete"
  BY <1>1, FieldTypes
<1>3. Left \in SUBSET Categories /\ Left \subseteq tree.existing
  BY <1>1
<1>4. [tree EXCEPT !.calls = @ \ {c}, !.existing = @ \ {c.of}, !.dialog = NoCategory] = t
  BY <1>1 DEF TreeRecord
<1>5. tree' = [u EXCEPT !.calls = @ \cup {DeletedCall}]
  BY <1>4 DEF CategoryDeleted, DeletedCall
<1> HIDE DEF Pending, Left
<1>6. t \in TreeRecord
  BY <1>1, <1>2, <1>3 DEF TreeRecord
<1>7. /\ t.selected = tree.selected /\ t.shown = tree.shown /\ t.dialog = NoCategory
      /\ t.generation = tree.generation /\ t.known = tree.known /\ t.existing = Left /\ t.given = tree.given
      /\ t.saving = tree.saving /\ t.calls = Pending
  BY <1>1 DEF TreeRecord
<1> HIDE DEF t
<1>8. TreeInv(u)
  BY <1>2, <1>3, <1>6, <1>7, ClosingKeeps
<1> HIDE DEF u
<1> DEFINE More == u.calls \cup {DeletedCall}
           w == [u EXCEPT !.calls = More]
<1>9. u \in TreeRecord /\ TreeBase(u) /\ ListsFit(u) /\ (u.saving => SavesOn(u))
  BY <1>8 DEF TreeInv, TreeBase
<1>10. DeletedCall \in TreeCalls /\ CallFits(u, DeletedCall)
  BY DEF DeletedCall, TreeCalls, DeletedThen, CallFits
<1>11. More \in SUBSET TreeCalls /\ u.calls \subseteq More /\ \A d \in More : d \in u.calls \/ CallFits(u, d)
  BY <1>9, <1>10, FieldTypes
<1>12. tree' = w
  BY <1>5
<1> HIDE DEF More
<1>13. Moved(w, u) /\ w.calls = More /\ w.saving = u.saving
  BY <1>9, <1>11 DEF Moved, TreeRecord
<1>14. SelectionFits(w)
  BY <1>9 DEF TreeBase, SelectionFits, TreeRecord
<1> HIDE DEF w
<1>15. w.saving => SavesOn(w)
  BY <1>9, <1>11, <1>13 DEF SavesOn
<1> QED
  BY <1>9, <1>12, <1>13, <1>14, <1>15, MovedKeeps

SavedCall(c, id) ==
  [kind |-> "metadata", then |-> [kind |-> "saved", id |-> id, route |-> c.route, made |-> c.of = NoCategory]]

\* A category is there with an identifier that was not given before, or with its own.
LEMMA CategoryKept == ASSUME TreeInv(tree), NEW c \in tree.calls, CategorySaved(c) PROVE TreeInv(tree')
<1>1. /\ tree \in TreeRecord /\ c \in TreeCalls /\ tree.existing \in SUBSET Categories /\ tree.given \in SUBSET Categories
      /\ tree.known \in SUBSET Categories /\ c.kind = "save" /\ c.of \in Categories \cup {NoCategory} /\ c.route \in TreeRoutes
  BY FieldTypes, CallTypes DEF TreeInv, TreeBase, CategorySaved
<1>2. PICK id \in IF c.of = NoCategory THEN Categories \ tree.given ELSE {c.of} \cap tree.existing :
        tree' = [tree EXCEPT !.calls = (@ \ {c}) \cup {SavedCall(c, id)}, !.existing = @ \cup {id}, !.given = @ \cup {id}]
  BY DEF CategorySaved, SavedCall
<1> DEFINE Pending == (tree.calls \ {c}) \cup {SavedCall(c, id)}
           There == tree.existing \cup {id}
           Given == tree.given \cup {id}
           u == [tree EXCEPT !.calls = Pending, !.existing = There, !.given = Given]
<1>3. tree' = u
  BY <1>1, <1>2 DEF TreeRecord
<1>4. /\ IF c.of = NoCategory THEN id \notin tree.given ELSE c.of = id /\ id \in tree.existing
      /\ id \in Categories
  BY <1>1, <1>2
<1>5. /\ SavedCall(c, id) \in TreeCalls /\ SavedCall(c, id).kind = "metadata" /\ SavedCall(c, id).then.kind = "saved"
      /\ SavedCall(c, id).then.id = id /\ SavedCall(c, id).then.route = c.route
      /\ SavedCall(c, id).then.made = (c.of = NoCategory)
  BY <1>1, <1>4 DEF SavedCall, TreeCalls, SavedThens
<1>6. /\ Pending \in SUBSET TreeCalls /\ There \in SUBSET Categories /\ Given \in SUBSET Categories
      /\ SavedCall(c, id) \in Pending /\ \A d \in Pending : d \in tree.calls \/ d = SavedCall(c, id)
  BY <1>1, <1>4, <1>5, FieldTypes
<1> HIDE DEF Pending
<1>7. u \in TreeRecord
  <2> HIDE DEF There, Given
  <2> QED
    BY <1>1, <1>6 DEF TreeRecord
<1>8. /\ u.screen = tree.screen /\ u.route = tree.route /\ u.selected = tree.selected /\ u.shown = tree.shown
      /\ u.counts = tree.counts /\ u.known = tree.known /\ u.existing = There /\ u.given = Given
      /\ u.view = tree.view /\ u.listed = tree.listed /\ u.status = tree.status /\ u.generation = tree.generation
      /\ u.dialog = tree.dialog /\ u.went = tree.went /\ u.calls = Pending /\ u.saving = tree.saving
  BY <1>1 DEF TreeRecord
<1> HIDE DEF u
\* Nothing that was given an identifier before appears anew.
<1>9. \A x \in tree.given : x \in There <=> x \in tree.existing
  BY <1>4 DEF TreeInv, TreeBase, IdsFit
<1>10. tree.existing \subseteq tree.given /\ tree.known \subseteq tree.given /\ NoCategory \notin Categories
  BY CategoryAssumption DEF TreeInv, TreeBase, IdsFit
<1>11. id \in There /\ id \in Given /\ tree.given \subseteq Given /\ There \subseteq Given /\ NoCategory \notin There
  BY <1>4, <1>6, <1>10
<1>12. c.kind = "save" /\ (IF c.of = NoCategory THEN MadeFrom(tree, c.route) ELSE c.of \in tree.given /\ c.route = c.of)
  BY <1>1 DEF TreeInv, TreeBase, CallsFit
<1> HIDE DEF There, Given
<1>13. IdsFit(u)
  BY <1>8, <1>9, <1>10, <1>11 DEF TreeInv, TreeBase, IdsFit
<1>14. SheetFits(u)
  BY <1>8 DEF TreeInv, TreeBase, SheetFits, Sheet
<1>15. SelectionFits(u)
  BY <1>8, <1>9, <1>10, <1>11 DEF TreeInv, TreeBase, IdsFit, SelectionFits
<1>16. /\ \A r : MadeFrom(tree, r) => MadeFrom(u, r)
  BY <1>8, <1>9, <1>10, <1>11 DEF MadeFrom
<1>17. \A x : SavedFits(tree, x) => SavedFits(u, x)
  BY <1>8, <1>11, <1>16 DEF SavedFits
<1>18. \A x : SavedFits(tree, x) /\ WasRead(tree, x) => WasRead(u, x)
  BY <1>8, <1>9 DEF SavedFits, WasRead
<1>19. SavedFits(u, SavedCall(c, id).then)
  <2>1. CASE c.of = NoCategory
    BY <1>5, <1>8, <1>11, <1>12, <1>16, <2>1 DEF SavedFits
  <2>2. CASE c.of # NoCategory
    BY <1>4, <1>5, <1>8, <1>11, <1>12, <2>2 DEF SavedFits
  <2> QED
    BY <2>1, <2>2
<1>20. CallsFit(u)
  <2>1. ASSUME NEW d \in Pending
        PROVE  /\ d.kind = "save" => IF d.of = NoCategory THEN MadeFrom(u, d.route) ELSE d.of \in u.given /\ d.route = d.of
               /\ d.kind = "metadata" /\ d.then.kind = "saved" => SavedFits(u, d.then)
               /\ d.kind = "list" /\ d.then.kind = "saved" => SavedFits(u, d.then) /\ WasRead(u, d.then)
    <3>1. CASE d \in tree.calls
      BY <1>8, <1>11, <1>16, <1>17, <1>18, <3>1 DEF TreeInv, TreeBase, CallsFit
    <3>2. CASE d = SavedCall(c, id)
      BY <1>5, <1>19, <3>2
    <3> QED
      BY <1>6, <3>1, <3>2
  <2> QED
    BY <1>8, <2>1 DEF CallsFit
<1>21. ListsBounded(u) /\ ListsFit(u)
  BY <1>5, <1>6, <1>8 DEF TreeInv, TreeBase, ListsBounded, ListsFit
<1>22. SavesOn(u)
  BY <1>5, <1>6, <1>8 DEF SavesOn
<1> QED
  BY <1>3, <1>7, <1>13, <1>14, <1>15, <1>20, <1>21, <1>22 DEF TreeInv, TreeBase

LEMMA CallFailed == ASSUME TreeInv(tree), NEW c \in tree.calls, TreeCallFails(c) PROVE TreeInv(tree')
<1> DEFINE saves == c.kind = "save" \/ (c.kind = "metadata" /\ c.then.kind = "saved")
           Pending == tree.calls \ {c}
           u == [tree EXCEPT !.calls = Pending, !.confirm = tree.confirm \/ ~saves, !.saving = tree.saving /\ ~saves]
<1>1. /\ tree \in TreeRecord /\ TreeBase(tree) /\ ListsFit(tree) /\ (tree.saving => SavesOn(tree))
      /\ c.kind \in {"save", "metadata", "delete"} /\ tree.confirm \in BOOLEAN /\ tree.saving \in BOOLEAN
  BY FieldTypes DEF TreeInv, TreeBase, TreeCallFails
<1>2. Pending \in SUBSET TreeCalls /\ Pending \subseteq tree.calls /\ \A d \in tree.calls : d \in Pending \/ d = c
  BY <1>1, FieldTypes
<1>3. tree' = u
  BY <1>1 DEF TreeCallFails, TreeRecord
<1>4. (tree.confirm \/ ~saves) \in BOOLEAN /\ (tree.saving /\ ~saves) \in BOOLEAN
  OBVIOUS
<1>5. tree.saving /\ ~saves => \E d \in Pending : d.kind = "save" \/ (d.kind \in {"metadata", "list"} /\ d.then.kind = "saved")
  BY <1>1, <1>2 DEF SavesOn
<1> DEFINE confirm == tree.confirm \/ ~saves
           saving  == tree.saving /\ ~saves
<1> HIDE DEF Pending, confirm, saving
<1>6. u = [tree EXCEPT !.calls = Pending, !.confirm = confirm, !.saving = saving] /\ confirm \in BOOLEAN /\ saving \in BOOLEAN
  BY DEF confirm, saving
<1>7. saving => \E d \in Pending : d.kind = "save" \/ (d.kind \in {"metadata", "list"} /\ d.then.kind = "saved")
  BY <1>5 DEF saving
<1> HIDE DEF saves, u
<1>8. u \in TreeRecord
  BY <1>1, <1>2, <1>6, ZenonT(60) DEF TreeRecord
<1>9. Moved(u, tree) /\ u.calls = Pending /\ u.saving = saving
  BY <1>1, <1>2, <1>6, <1>8 DEF Moved, TreeRecord
<1>10. SelectionFits(u)
  BY <1>1, <1>6 DEF TreeBase, SelectionFits, TreeRecord
<1>11. u.saving => SavesOn(u)
  BY <1>7, <1>9 DEF SavesOn
<1> QED
  BY <1>1, <1>3, <1>9, <1>10, <1>11, MovedKeeps

LEMMA TreeSteps == ASSUME TreeInv(tree), [TreeNext]_tree PROVE TreeInv(tree')
<1>1. CASE UNCHANGED tree
  BY <1>1
<1>2. ASSUME NEW c \in tree.calls, TreeAnswer(c) PROVE TreeInv(tree')
  BY <1>2, CountsAnswered, CategoriesListed, CategoryKept, Deleted, Read, CallFailed DEF TreeAnswer
<1>3. CASE TreeNext
  BY <1>2, <1>3, ChangingView, GoingTo, ClickingCategory, OthersDeleting, ClickingNew, GoingBack, Saving,
     OpeningDialog, Cancelling, Confirming DEF TreeNext
<1> QED
  BY <1>1, <1>3

LEMMA TreeInvIsSound == TreeInv(tree) => TreeSound
<1> SUFFICES ASSUME TreeInv(tree) PROVE TreeSound
  OBVIOUS
<1>1. SheetIsWhereUserWent
  BY DEF SheetIsWhereUserWent, TreeInv, TreeBase, SheetFits
<1>2. NoCategory \notin Categories /\ tree.known \subseteq Categories
  BY CategoryAssumption, FieldTypes DEF TreeInv, TreeBase
<1>3. CountsAreOfTheSheet /\ ButtonsActOnTheSheet
  BY <1>2 DEF CountsAreOfTheSheet, ButtonsActOnTheSheet, SelectedCategory, TreeInv, TreeBase, SelectionFits
<1>4. ListIsOfItsView
  BY DEF ListIsOfItsView, TreeInv, ListsFit
<1>5. SaveButtonComesBack
  BY DEF SaveButtonComesBack, TreeInv, SavesOn
<1> QED
  BY <1>1, <1>3, <1>4, <1>5 DEF TreeSound

\* The sheet of the categories is where the user went last, its counts, its buttons and its
\* dialog are of the category it shows, the list is of its view, and the button of a save
\* comes back (saveCategory, activateCategories, refreshCategoryImpact, loadCategoryInventory).
THEOREM CategorySheetIsSound == TreeSpec => []TreeSound
<1> DEFINE Inv == TreeInv(tree)
<1>1. CategoryInit => Inv
  BY TreeInitially
<1>2. Inv /\ [TreeNext]_tree => Inv'
  BY TreeSteps
<1>3. Inv => TreeSound
  BY TreeInvIsSound
<1> HIDE DEF Inv
<1> QED
  BY <1>1, <1>2, <1>3, PTL DEF TreeSpec

\* What follows a read of the list, and the calls of the screen.
BrowseRoutes == Products \cup {PlainList, NewSheet, Elsewhere}
Thens        ==
  {Nothing} \cup [kind : {"deleted"}] \cup [kind : {"activation"}, generation : Nat, route : Products \cup {PlainList, NewSheet}]
BrowseCalls  ==
  [kind : {"list"}, stage : {"metadata", "products"}, generation : Nat, filters : FilterSets, aborted : BOOLEAN, then : Thens]
    \cup [kind : {"detail"}, product : Products, for : {"sheet", "price"}]
    \cup [kind : {"save"}, product : Products \cup {NoProduct}, form : Products \cup {NoProduct}]
    \cup [kind : {"relation", "price"}, product : Products]
    \cup [kind : {"impact", "delete"}, of : SUBSET Products, bulk : BOOLEAN]

BrowseRecord ==
  [view : {"catalog", "other"}, screen : {"list", "detail"}, route : BrowseRoutes, filters : FilterSets,
   status : {"loading", "found", "failed", "deleted"}, latest : {"loading", "found", "failed"}, listed : FilterSets,
   loadGeneration : Nat, activations : Nat, shown : Products \cup {NoProduct}, form : Products \cup {NoProduct},
   selection : SUBSET Products, bar : SUBSET Products, bulk : SUBSET Products, dialog : {Idle, "delete", "price"},
   named : SUBSET Products, priced : Products \cup {NoProduct}, confirm : BOOLEAN, checked : SUBSET Products,
   busy : SUBSET {"save", "relation", "price"}, calls : SUBSET BrowseCalls, acts : Nat, patient : BOOLEAN,
   misplaced : BOOLEAN, unnamed : BOOLEAN]

\* The read of the list that counts is that of the filters on the page.
ReadsFit(b) ==
  /\ \A c \in b.calls : c.kind = "list" =>
       /\ c.generation <= b.loadGeneration
       /\ c.stage = "products" /\ c.generation = b.loadGeneration => c.filters = b.filters
  /\ b.status = "found" => b.listed = b.filters
  /\ b.status = "failed" => b.latest = "failed"

\* The form is that of the product on the sheet.
FormFits(b) == ~b.misplaced /\ (b.shown # NoProduct => b.form = b.shown)

BarFits(b) == b.bar = b.selection \/ \E c \in b.calls : c.kind = "list" /\ c.then.kind = "deleted"

\* A read of the list that nothing waits for.
Plain(c) == c.kind = "list" /\ c.then = Nothing

Awaited(b) == {c \in b.calls : ~Plain(c)}

\* The sheet is that of the address.
Settled(b) ==
  b.view = "catalog" =>
    /\ b.screen = "list" => b.route = PlainList
    /\ b.screen = "detail" /\ b.route \in Products => b.shown \in {b.route, NoProduct}

\* What the dialog says is what its button does.
DialogFits(b) ==
  /\ b.dialog = "price" => b.shown = b.priced
  /\ b.dialog = "delete" => Doomed(b) = b.named /\ (b.confirm => b.checked = b.named)

\* The answer a patient user waits for belongs to the page it comes to.
Expected(b, c) ==
  /\ c.kind = "list" /\ c.then.kind = "activation" =>
       c.then.generation = b.activations /\ c.then.route = b.route /\ b.screen = "list" /\ b.dialog = Idle
  /\ c.kind = "list" /\ c.then.kind # "activation" => Settled(b) /\ b.dialog = Idle
  /\ c.kind = "detail" /\ c.for = "sheet" => b.screen = "detail" /\ b.route = c.product /\ b.dialog = Idle
  /\ c.kind = "price" \/ (c.kind = "detail" /\ c.for = "price") =>
       Settled(b) /\ c.product = b.shown /\ "price" \in b.busy /\ b.dialog \in {Idle, "price"}
  /\ c.kind = "save" => Settled(b) /\ b.screen = "detail" /\ b.dialog = Idle
  /\ c.kind = "relation" => Settled(b) /\ c.product = b.shown /\ b.dialog = Idle
  /\ c.kind = "impact" =>
       Settled(b) /\ b.dialog \in {Idle, "delete"} /\ (b.dialog = "delete" => c.of = b.named /\ ~b.confirm)
  /\ c.kind = "delete" =>
       Settled(b) /\ b.dialog \in {Idle, "delete"} /\ (b.dialog = "delete" => b.checked = b.named /\ ~b.confirm)

\* A patient user waits for one answer at most.
AtRest(b)  == Awaited(b) = {} /\ Settled(b)
Waiting(b) == \E c \in b.calls : Awaited(b) = {c} /\ Expected(b, c)

PatientFits(b) == b.patient => ~b.unnamed /\ DialogFits(b) /\ (AtRest(b) \/ Waiting(b))

BrowseInv(b) == b \in BrowseRecord /\ ReadsFit(b) /\ FormFits(b) /\ BarFits(b) /\ PatientFits(b)

LEMMA BrowseFields ==
  ASSUME NEW b \in BrowseRecord
  PROVE  /\ b.view \in {"catalog", "other"} /\ b.screen \in {"list", "detail"} /\ b.route \in BrowseRoutes
         /\ b.filters \in FilterSets /\ b.listed \in FilterSets
         /\ b.status \in {"loading", "found", "failed", "deleted"} /\ b.latest \in {"loading", "found", "failed"}
         /\ b.loadGeneration \in Nat /\ b.activations \in Nat
         /\ b.shown \in Products \cup {NoProduct} /\ b.form \in Products \cup {NoProduct}
         /\ b.priced \in Products \cup {NoProduct}
         /\ b.selection \in SUBSET Products /\ b.bar \in SUBSET Products /\ b.bulk \in SUBSET Products
         /\ b.named \in SUBSET Products /\ b.checked \in SUBSET Products
         /\ b.dialog \in {Idle, "delete", "price"} /\ b.confirm \in BOOLEAN
         /\ b.busy \in SUBSET {"save", "relation", "price"} /\ b.calls \in SUBSET BrowseCalls /\ b.acts \in Nat
         /\ b.patient \in BOOLEAN /\ b.misplaced \in BOOLEAN /\ b.unnamed \in BOOLEAN
BY DEF BrowseRecord

LEMMA BrowseCallTypes ==
  ASSUME NEW c \in BrowseCalls
  PROVE  /\ c.kind \in {"list", "detail", "save", "relation", "price", "impact", "delete"}
         /\ c.kind = "list" => /\ c.stage \in {"metadata", "products"} /\ c.generation \in Nat /\ c.filters \in FilterSets
                              /\ c.aborted \in BOOLEAN /\ c.then \in Thens
         /\ c.kind = "detail" => c.product \in Products /\ c.for \in {"sheet", "price"}
         /\ c.kind = "save" => c.product \in Products \cup {NoProduct} /\ c.form \in Products \cup {NoProduct}
         /\ c.kind \in {"relation", "price"} => c.product \in Products
         /\ c.kind \in {"impact", "delete"} => c.of \in SUBSET Products /\ c.bulk \in BOOLEAN
BY DEF BrowseCalls

LEMMA ThenKinds ==
  ASSUME NEW then \in Thens
  PROVE  /\ then.kind \in {Idle, "deleted", "activation"} /\ (then.kind = Idle <=> then = Nothing)
         /\ then.kind = "activation" => then.generation \in Nat /\ then.route \in Products \cup {PlainList, NewSheet}
BY DEF Thens, Nothing, Idle

Stopped(c) == IF c.kind = "list" THEN [c EXCEPT !.aborted = TRUE] ELSE c

LEMMA StoppedIs ==
  ASSUME NEW c \in BrowseCalls
  PROVE  /\ Stopped(c) \in BrowseCalls /\ Stopped(c).kind = c.kind
         /\ c.kind # "list" => Stopped(c) = c
         /\ c.kind = "list" => /\ Stopped(c).generation = c.generation /\ Stopped(c).filters = c.filters
                              /\ Stopped(c).stage = c.stage /\ Stopped(c).then = c.then
         /\ Plain(Stopped(c)) <=> Plain(c)
<1>1. CASE c.kind = "list"
  BY <1>1 DEF BrowseCalls, Stopped, Plain
<1>2. CASE c.kind # "list"
  BY <1>2 DEF Stopped, Plain
<1> QED
  BY <1>1, <1>2

LEMMA AbortedIs ==
  ASSUME NEW calls \in SUBSET BrowseCalls
  PROVE  /\ Aborted(calls) \in SUBSET BrowseCalls
         /\ \A d \in Aborted(calls) : \E c \in calls : d = Stopped(c)
         /\ \A c \in calls : Stopped(c) \in Aborted(calls)
<1>1. Aborted(calls) = {Stopped(c) : c \in calls}
  BY DEF Aborted, Stopped
<1>2. \A c \in calls : Stopped(c) \in BrowseCalls
  BY StoppedIs
<1> QED
  BY <1>1, <1>2

\* The list is read again.
Loaded(u, b, then) ==
  /\ u \in BrowseRecord
  /\ u.calls = Aborted(b.calls) \cup {ListRead(b, then)}
  /\ u.loadGeneration = b.loadGeneration + 1 /\ u.status = "loading" /\ u.latest = "loading"
  /\ u.view = b.view /\ u.screen = b.screen /\ u.route = b.route /\ u.filters = b.filters /\ u.listed = b.listed
  /\ u.activations = b.activations /\ u.shown = b.shown /\ u.form = b.form /\ u.selection = b.selection /\ u.bar = b.bar
  /\ u.bulk = b.bulk /\ u.dialog = b.dialog /\ u.named = b.named /\ u.priced = b.priced /\ u.confirm = b.confirm
  /\ u.checked = b.checked /\ u.busy = b.busy /\ u.patient = b.patient /\ u.misplaced = b.misplaced /\ u.unnamed = b.unnamed

LEMMA ListReadIs ==
  ASSUME NEW b \in BrowseRecord, NEW then \in Thens
  PROVE  /\ ListRead(b, then) \in BrowseCalls /\ ListRead(b, then).kind = "list" /\ ListRead(b, then).then = then
         /\ ListRead(b, then).stage = "metadata" /\ ListRead(b, then).generation = b.loadGeneration + 1
<1>1. b.loadGeneration + 1 \in Nat /\ b.filters \in FilterSets
  BY BrowseFields
<1> QED
  BY <1>1 DEF ListRead, BrowseCalls

LEMMA LoadedIs == ASSUME NEW b \in BrowseRecord, NEW then \in Thens PROVE Loaded(LoadProducts(b, then), b, then)
<1> DEFINE Pending == Aborted(b.calls) \cup {ListRead(b, then)}
           More  == b.loadGeneration + 1
           u == [b EXCEPT !.loadGeneration = More, !.calls = Pending, !.status = "loading", !.latest = "loading"]
<1>1. Pending \in SUBSET BrowseCalls /\ More \in Nat
  BY BrowseFields, AbortedIs, ListReadIs
<1>2. LoadProducts(b, then) = u
  BY DEF LoadProducts, BrowseRecord
<1> HIDE DEF Pending, More
<1>3. u \in BrowseRecord
  BY <1>1, ZenonT(60) DEF BrowseRecord
<1>4. /\ u.calls = Pending /\ u.loadGeneration = More /\ u.status = "loading" /\ u.latest = "loading"
      /\ u.view = b.view /\ u.screen = b.screen /\ u.route = b.route /\ u.filters = b.filters /\ u.listed = b.listed
      /\ u.activations = b.activations /\ u.shown = b.shown /\ u.form = b.form /\ u.selection = b.selection /\ u.bar = b.bar
      /\ u.bulk = b.bulk /\ u.dialog = b.dialog /\ u.named = b.named /\ u.priced = b.priced /\ u.confirm = b.confirm
      /\ u.checked = b.checked /\ u.busy = b.busy /\ u.patient = b.patient /\ u.misplaced = b.misplaced /\ u.unnamed = b.unnamed
  BY DEF BrowseRecord
<1> HIDE DEF u
<1> QED
  BY <1>2, <1>3, <1>4 DEF Loaded, Pending, More

ReadsBounded(b) == \A c \in b.calls : c.kind = "list" => c.generation <= b.loadGeneration

LEMMA LoadedKeeps ==
  ASSUME NEW b \in BrowseRecord, NEW then \in Thens, ReadsBounded(b), FormFits(b), BarFits(b) \/ then.kind = "deleted",
         b.patient => /\ ~b.unnamed /\ DialogFits(b) /\ Awaited(b) = {}
                      /\ IF then = Nothing THEN Settled(b) ELSE Expected(b, ListRead(b, then)),
         NEW u, Loaded(u, b, then)
  PROVE  BrowseInv(u)
<1>1. b.calls \in SUBSET BrowseCalls /\ b.loadGeneration \in Nat
  BY BrowseFields
<1> DEFINE r == ListRead(b, then)
<1>2. r \in BrowseCalls /\ r.kind = "list" /\ r.then = then /\ r.stage = "metadata" /\ r.generation = b.loadGeneration + 1
  BY ListReadIs
<1> HIDE DEF r
<1>3. u.calls = Aborted(b.calls) \cup {r} /\ u.loadGeneration = b.loadGeneration + 1 /\ u.status = "loading"
  BY DEF Loaded, r
<1>4. \A d \in u.calls : d = r \/ \E c \in b.calls : d = Stopped(c)
  BY <1>1, <1>3, AbortedIs
<1>5. ReadsFit(u)
  <2>1. ASSUME NEW d \in u.calls, d.kind = "list"
        PROVE  d.generation <= u.loadGeneration /\ ~(d.stage = "products" /\ d.generation = u.loadGeneration)
    <3>1. CASE d = r
      BY <1>1, <1>2, <1>3, <3>1
    <3>2. ASSUME NEW c \in b.calls, d = Stopped(c)
          PROVE  d.generation <= u.loadGeneration /\ ~(d.stage = "products" /\ d.generation = u.loadGeneration)
      <4>1. c \in BrowseCalls /\ c.kind = "list" /\ d.generation = c.generation /\ c.generation \in Nat
        BY <1>1, <2>1, <3>2, StoppedIs, BrowseCallTypes
      <4>2. c.generation <= b.loadGeneration
        BY <4>1 DEF ReadsBounded
      <4> QED
        BY <1>1, <1>3, <4>1, <4>2
    <3> QED
      BY <1>4, <3>1, <3>2
  <2> QED
    BY <1>3, <2>1 DEF ReadsFit
<1>6. FormFits(u)
  BY DEF FormFits, Loaded
<1>7. BarFits(u)
  <2>1. CASE then.kind = "deleted"
    BY <1>2, <1>3, <2>1 DEF BarFits
  <2>2. CASE b.bar = b.selection
    BY <2>2 DEF BarFits, Loaded
  <2>3. ASSUME NEW c \in b.calls, c.kind = "list", c.then.kind = "deleted" PROVE BarFits(u)
    <3>1. Stopped(c) \in u.calls /\ Stopped(c).kind = "list" /\ Stopped(c).then.kind = "deleted"
      BY <1>1, <1>3, <2>3, AbortedIs, StoppedIs
    <3> QED
      BY <3>1 DEF BarFits
  <2> QED
    BY <2>1, <2>2, <2>3 DEF BarFits
<1>8. ASSUME b.patient PROVE ~u.unnamed /\ DialogFits(u) /\ (AtRest(u) \/ Waiting(u))
  <2>1. ~u.unnamed /\ DialogFits(u)
    BY <1>8 DEF DialogFits, Doomed, Loaded
  <2>2. \A d \in u.calls : d = r \/ Plain(d)
    BY <1>1, <1>4, <1>8, StoppedIs DEF Awaited
  <2>3. CASE then = Nothing
    <3>1. Awaited(u) = {}
      BY <1>2, <2>2, <2>3 DEF Awaited, Plain
    <3>2. Settled(u)
      BY <1>8, <2>3 DEF Settled, Loaded
    <3> QED
      BY <2>1, <3>1, <3>2 DEF AtRest
  <2>4. CASE then # Nothing
    <3>1. Awaited(u) = {r} /\ r \in u.calls
      BY <1>2, <1>3, <2>2, <2>4 DEF Awaited, Plain
    <3>2. Expected(b, r)
      BY <1>8, <2>4 DEF r
    <3>3. Expected(u, r)
      BY <1>2, <3>2 DEF Expected, Settled, Loaded
    <3> QED
      BY <2>1, <3>1, <3>3 DEF Waiting
  <2> QED
    BY <2>3, <2>4
<1>9. u \in BrowseRecord /\ u.patient = b.patient
  BY DEF Loaded
<1> QED
  BY <1>5, <1>6, <1>7, <1>8, <1>9 DEF BrowseInv, PatientFits

\* Nothing of the list changes.
SameList(u, b) ==
  /\ u.filters = b.filters /\ u.listed = b.listed /\ u.status = b.status /\ u.latest = b.latest
  /\ u.loadGeneration = b.loadGeneration /\ u.selection = b.selection /\ u.bar = b.bar
  /\ \A c : c.kind = "list" => (c \in u.calls <=> c \in b.calls)

LEMMA SameListKeeps ==
  ASSUME NEW b, NEW u, SameList(u, b)
  PROVE  /\ ReadsFit(b) => ReadsFit(u)
         /\ BarFits(b) => BarFits(u)
         /\ ReadsBounded(b) => ReadsBounded(u)
BY DEF SameList, ReadsFit, BarFits, ReadsBounded

\* One more call, or one less.
LEMMA AwaitedIs ==
  ASSUME NEW b, NEW u, NEW c
  PROVE  /\ u.calls = b.calls \cup {c} /\ ~Plain(c) => Awaited(u) = Awaited(b) \cup {c}
         /\ u.calls = b.calls \ {c} => Awaited(u) = Awaited(b) \ {c}
         /\ u.calls = b.calls => Awaited(u) = Awaited(b)
BY DEF Awaited

\* The answer that a patient user waits for.
LEMMA Turn ==
  ASSUME NEW b, BrowseInv(b), b.patient, NEW c \in b.calls
  PROVE  /\ ~b.unnamed /\ DialogFits(b)
         /\ ~Plain(c) => Awaited(b) = {c} /\ Expected(b, c)
BY DEF BrowseInv, PatientFits, AtRest, Waiting, Awaited

LEMMA BrowseActKeeps == ASSUME NEW b, BrowseInv(b) PROVE BrowseInv([b EXCEPT !.acts = @ + 1])
<1> DEFINE u == [b EXCEPT !.acts = @ + 1]
<1>1. b \in BrowseRecord /\ b.acts + 1 \in Nat
  BY BrowseFields DEF BrowseInv
<1>2. u \in BrowseRecord
  BY <1>1 DEF BrowseRecord
<1>3. /\ u.view = b.view /\ u.screen = b.screen /\ u.route = b.route /\ u.filters = b.filters /\ u.listed = b.listed
      /\ u.status = b.status /\ u.latest = b.latest /\ u.loadGeneration = b.loadGeneration /\ u.calls = b.calls
      /\ u.activations = b.activations /\ u.shown = b.shown /\ u.form = b.form /\ u.selection = b.selection /\ u.bar = b.bar
      /\ u.bulk = b.bulk /\ u.dialog = b.dialog /\ u.named = b.named /\ u.priced = b.priced /\ u.confirm = b.confirm
      /\ u.checked = b.checked /\ u.busy = b.busy /\ u.patient = b.patient /\ u.misplaced = b.misplaced /\ u.unnamed = b.unnamed
  BY <1>1 DEF BrowseRecord
<1> HIDE DEF u
<1>4. ReadsFit(u) /\ FormFits(u) /\ BarFits(u)
  BY <1>3 DEF BrowseInv, ReadsFit, FormFits, BarFits
<1>5. PatientFits(u)
  BY <1>3 DEF BrowseInv, PatientFits, DialogFits, Doomed, AtRest, Waiting, Awaited, Settled, Expected
<1>6. BrowseInv(u)
  BY <1>2, <1>4, <1>5 DEF BrowseInv
<1> QED
  BY <1>6 DEF u

--------------------------------------------------------------------------------
(* The invariant of the product list holds at the start, and what moves the list keeps it.*)

LEMMA BrowseInitially == BrowseInit => BrowseInv(browse)
<1> SUFFICES ASSUME BrowseInit PROVE BrowseInv(browse)
  OBVIOUS
<1> DEFINE First == CHOOSE f \in FilterSets : TRUE
<1>1. First \in FilterSets /\ Selections \subseteq SUBSET Products /\ Patience \subseteq BOOLEAN
  BY BrowseAssumption
<1> HIDE DEF First
<1>2. PICK listed \in FilterSets, selection \in Selections, bar \in Selections, patient \in Patience :
        browse = [view |-> "catalog", screen |-> "list", route |-> PlainList,
                  filters |-> First, status |-> "found", latest |-> "found", listed |-> listed, loadGeneration |-> 1,
                  activations |-> 1, shown |-> NoProduct, form |-> NoProduct, selection |-> selection, bar |-> bar,
                  bulk |-> {}, dialog |-> Idle, named |-> {}, priced |-> NoProduct,
                  confirm |-> FALSE, checked |-> {}, busy |-> {}, calls |-> {}, acts |-> 0, patient |-> patient,
                  misplaced |-> FALSE, unnamed |-> FALSE]
  BY DEF BrowseInit, First
<1>3. /\ browse.status = "found" /\ browse.calls = {} /\ browse.shown = NoProduct /\ browse.misplaced = FALSE
      /\ browse.unnamed = FALSE /\ browse.dialog = Idle /\ browse.screen = "list" /\ browse.route = PlainList
      /\ browse.listed = browse.filters /\ browse.bar = browse.selection
  BY <1>2 DEF BrowseInit
<1>4. browse \in BrowseRecord
  <2>1. selection \in SUBSET Products /\ bar \in SUBSET Products /\ patient \in BOOLEAN /\ PlainList \in BrowseRoutes
    BY <1>1 DEF BrowseRoutes
  <2> DEFINE Nought == {}
  <2>2. Nought \in SUBSET BrowseCalls /\ Nought \in SUBSET Products /\ Nought \in SUBSET {"save", "relation", "price"}
    OBVIOUS
  <2>3. browse = [view |-> "catalog", screen |-> "list", route |-> PlainList,
                  filters |-> First, status |-> "found", latest |-> "found", listed |-> listed, loadGeneration |-> 1,
                  activations |-> 1, shown |-> NoProduct, form |-> NoProduct, selection |-> selection, bar |-> bar,
                  bulk |-> Nought, dialog |-> Idle, named |-> Nought, priced |-> NoProduct,
                  confirm |-> FALSE, checked |-> Nought, busy |-> Nought, calls |-> Nought, acts |-> 0, patient |-> patient,
                  misplaced |-> FALSE, unnamed |-> FALSE]
    BY <1>2
  <2> HIDE DEF Nought
  <2> QED
    BY <1>1, <2>1, <2>2, <2>3 DEF BrowseRecord
<1>5. ReadsFit(browse) /\ FormFits(browse) /\ BarFits(browse)
  BY <1>3 DEF ReadsFit, FormFits, BarFits
<1>6. DialogFits(browse) /\ AtRest(browse)
  BY <1>3 DEF DialogFits, AtRest, Awaited, Settled, Idle
<1> QED
  BY <1>3, <1>4, <1>5, <1>6 DEF BrowseInv, PatientFits

\* A patient user acts when nothing is awaited.
LEMMA MayLeaveIs == ASSUME NEW b, BrowseInv(b), MayLeave(b), b.patient PROVE Awaited(b) = {} /\ Settled(b) /\ ~b.unnamed /\ DialogFits(b)
BY DEF BrowseInv, PatientFits, MayLeave, Awaited, Plain, AtRest, Waiting

LEMMA BoundedNow == ASSUME NEW b, BrowseInv(b) PROVE b \in BrowseRecord /\ ReadsBounded(b)
BY DEF BrowseInv, ReadsFit, ReadsBounded

\* The sheet is left, or another list asked for.
LEMMA ReadAgain ==
  ASSUME BrowseInv(browse), MayLeave(browse), browse.dialog = Idle, NEW u \in BrowseRecord, NEW then \in Thens,
         u.calls = browse.calls, u.loadGeneration = browse.loadGeneration, u.selection = browse.selection, u.bar = browse.bar,
         u.misplaced = browse.misplaced, u.unnamed = browse.unnamed, u.patient = browse.patient, u.dialog = browse.dialog,
         u.shown = NoProduct \/ (u.shown = browse.shown /\ u.form = browse.form), u.screen = "list",
         IF then = Nothing THEN u.route = PlainList
         ELSE then.kind = "activation" /\ then.generation = u.activations /\ then.route = u.route
  PROVE  BrowseInv(LoadProducts(u, then))
<1>1. ReadsBounded(u)
  BY BoundedNow DEF ReadsBounded
<1>2. FormFits(u) /\ BarFits(u)
  BY DEF BrowseInv, FormFits, BarFits
<1>3. ASSUME u.patient
      PROVE  /\ ~u.unnamed /\ DialogFits(u) /\ Awaited(u) = {}
             /\ IF then = Nothing THEN Settled(u) ELSE Expected(u, ListRead(u, then))
  <2>1. Awaited(browse) = {} /\ ~browse.unnamed
    BY <1>3, MayLeaveIs
  <2>2. ~u.unnamed /\ DialogFits(u) /\ Awaited(u) = {}
    BY <2>1 DEF DialogFits, Idle, Awaited
  <2>3. CASE then = Nothing
    BY <2>2, <2>3 DEF Settled
  <2>4. CASE then # Nothing
    <3>1. ListRead(u, then).kind = "list" /\ ListRead(u, then).then = then
      BY ListReadIs
    <3> QED
      BY <2>2, <2>4, <3>1 DEF Expected
  <2> QED
    BY <2>3, <2>4
<1> QED
  BY <1>1, <1>2, <1>3, LoadedIs, LoadedKeeps

LEMMA ChangingFilters == ASSUME BrowseInv(browse), NEW f \in FilterSets, ChangeFilters(f) PROVE BrowseInv(browse')
<1> DEFINE u == [browse EXCEPT !.filters = f, !.route = PlainList]
<1>1. browse \in BrowseRecord
  BY BoundedNow
<1>2. /\ browse.dialog = Idle /\ browse.screen = "list" /\ MayLeave(browse)
      /\ browse' = [LoadProducts(u, Nothing) EXCEPT !.acts = @ + 1]
  BY DEF ChangeFilters, BrowseAct, OnPage
<1>3. /\ u \in BrowseRecord /\ u.calls = browse.calls /\ u.loadGeneration = browse.loadGeneration
      /\ u.selection = browse.selection /\ u.bar = browse.bar
      /\ u.misplaced = browse.misplaced /\ u.unnamed = browse.unnamed /\ u.patient = browse.patient /\ u.dialog = browse.dialog
      /\ u.shown = browse.shown /\ u.form = browse.form /\ u.screen = browse.screen /\ u.route = PlainList
  BY <1>1, ZenonT(60) DEF BrowseRecord, BrowseRoutes
<1>4. Nothing \in Thens
  BY DEF Thens
<1> HIDE DEF u
<1>5. BrowseInv(LoadProducts(u, Nothing))
  BY <1>2, <1>3, <1>4, ReadAgain
<1> QED
  BY <1>2, <1>5, BrowseActKeeps

LEMMA Activating ==
  ASSUME BrowseInv(browse), NEW route \in Products \cup {PlainList, NewSheet}, NEW f \in FilterSets, ActivateCatalog(route, f)
  PROVE  BrowseInv(browse')
<1> DEFINE o == [browse EXCEPT !.view = "catalog", !.route = route, !.filters = f, !.activations = @ + 1]
           u == ShowProductListScreen(o)
           then == [kind |-> "activation", generation |-> browse.activations + 1, route |-> route]
<1>1. browse \in BrowseRecord /\ browse.activations + 1 \in Nat /\ route \in BrowseRoutes
  BY BoundedNow, BrowseFields DEF BrowseRoutes
<1>2. browse.dialog = Idle /\ MayLeave(browse) /\ browse' = [LoadProducts(u, then) EXCEPT !.acts = @ + 1]
  BY DEF ActivateCatalog, BrowseAct
<1>3. u = [browse EXCEPT !.view = "catalog", !.route = route, !.filters = f, !.activations = browse.activations + 1,
                         !.screen = "list", !.shown = NoProduct]
  BY <1>1 DEF ShowProductListScreen, BrowseRecord
<1> HIDE DEF u
<1>4. /\ u \in BrowseRecord /\ u.calls = browse.calls /\ u.loadGeneration = browse.loadGeneration
      /\ u.selection = browse.selection /\ u.bar = browse.bar
      /\ u.misplaced = browse.misplaced /\ u.unnamed = browse.unnamed /\ u.patient = browse.patient /\ u.dialog = browse.dialog
      /\ u.shown = NoProduct /\ u.screen = "list" /\ u.route = route /\ u.activations = browse.activations + 1
  BY <1>1, <1>3, ZenonT(60) DEF BrowseRecord
<1>5. then \in Thens /\ then # Nothing /\ then.kind = "activation" /\ then.generation = u.activations /\ then.route = u.route
  BY <1>1, <1>4 DEF Thens, Nothing, Idle
<1> HIDE DEF then
<1>6. BrowseInv(LoadProducts(u, then))
  BY <1>2, <1>4, <1>5, ReadAgain
<1> QED
  BY <1>2, <1>6, BrowseActKeeps

LEMMA ClosingDetail == ASSUME BrowseInv(browse), CloseProductDetail PROVE BrowseInv(browse')
<1> DEFINE u == [ShowProductListScreen(browse) EXCEPT !.route = PlainList]
<1>1. browse \in BrowseRecord
  BY BoundedNow
<1>2. browse.dialog = Idle /\ MayLeave(browse) /\ browse' = [LoadProducts(u, Nothing) EXCEPT !.acts = @ + 1]
  BY DEF CloseProductDetail, BrowseAct, OnSheet, OnPage
<1>3. u = [browse EXCEPT !.screen = "list", !.shown = NoProduct, !.route = PlainList]
  BY <1>1 DEF ShowProductListScreen, BrowseRecord
<1> HIDE DEF u
<1>4. /\ u \in BrowseRecord /\ u.calls = browse.calls /\ u.loadGeneration = browse.loadGeneration
      /\ u.selection = browse.selection /\ u.bar = browse.bar
      /\ u.misplaced = browse.misplaced /\ u.unnamed = browse.unnamed /\ u.patient = browse.patient /\ u.dialog = browse.dialog
      /\ u.shown = NoProduct /\ u.screen = "list" /\ u.route = PlainList
  BY <1>1, <1>3, ZenonT(60) DEF BrowseRecord, BrowseRoutes
<1>5. Nothing \in Thens
  BY DEF Thens
<1>6. BrowseInv(LoadProducts(u, Nothing))
  BY <1>2, <1>4, <1>5, ReadAgain
<1> QED
  BY <1>2, <1>6, BrowseActKeeps

LEMMA Leaving == ASSUME BrowseInv(browse), LeaveView PROVE BrowseInv(browse')
<1> DEFINE Pending == Aborted(browse.calls)
           u == [browse EXCEPT !.view = "other", !.route = Elsewhere, !.calls = Pending]
<1>1. browse \in BrowseRecord /\ browse.calls \in SUBSET BrowseCalls
  BY BoundedNow, BrowseFields
<1>2. browse.dialog = Idle /\ MayLeave(browse) /\ browse' = [u EXCEPT !.acts = @ + 1]
  BY <1>1 DEF LeaveView, BrowseAct, OnPage, BrowseRecord
<1>3. /\ Pending \in SUBSET BrowseCalls /\ (\A d \in Pending : \E c \in browse.calls : d = Stopped(c))
      /\ \A c \in browse.calls : Stopped(c) \in Pending
  BY <1>1, AbortedIs
<1> HIDE DEF Pending
<1>4. /\ u \in BrowseRecord /\ u.calls = Pending /\ u.loadGeneration = browse.loadGeneration /\ u.view = "other"
      /\ u.selection = browse.selection /\ u.bar = browse.bar /\ u.filters = browse.filters /\ u.listed = browse.listed
      /\ u.status = browse.status /\ u.latest = browse.latest
      /\ u.misplaced = browse.misplaced /\ u.unnamed = browse.unnamed /\ u.patient = browse.patient /\ u.dialog = browse.dialog
      /\ u.shown = browse.shown /\ u.form = browse.form
  BY <1>1, <1>3, ZenonT(60) DEF BrowseRecord, BrowseRoutes
<1> HIDE DEF u
<1>5. \A c \in browse.calls : c \in BrowseCalls
  BY <1>1
<1>6. ReadsFit(u)
  <2>1. ASSUME NEW d \in Pending, d.kind = "list"
        PROVE  /\ d.generation <= browse.loadGeneration
               /\ d.stage = "products" /\ d.generation = browse.loadGeneration => d.filters = browse.filters
    <3>1. PICK c \in browse.calls : d = Stopped(c)
      BY <1>3
    <3>2. c.kind = "list" /\ d.generation = c.generation /\ d.stage = c.stage /\ d.filters = c.filters
      BY <1>5, <2>1, <3>1, StoppedIs
    <3> QED
      BY <3>2 DEF BrowseInv, ReadsFit
  <2> QED
    BY <1>4, <2>1 DEF BrowseInv, ReadsFit
<1>7. FormFits(u)
  BY <1>4 DEF BrowseInv, FormFits
<1>8. BarFits(u)
  <2>1. ASSUME NEW c \in browse.calls, c.kind = "list", c.then.kind = "deleted" PROVE BarFits(u)
    <3>1. Stopped(c) \in u.calls /\ Stopped(c).kind = "list" /\ Stopped(c).then.kind = "deleted"
      BY <1>3, <1>4, <1>5, <2>1, StoppedIs
    <3> QED
      BY <3>1 DEF BarFits
  <2> QED
    BY <1>4, <2>1 DEF BrowseInv, BarFits
<1>9. PatientFits(u)
  <2> SUFFICES ASSUME u.patient PROVE ~u.unnamed /\ DialogFits(u) /\ AtRest(u)
    BY DEF PatientFits
  <2>1. Awaited(browse) = {} /\ ~browse.unnamed
    BY <1>2, <1>4, MayLeaveIs
  <2>2. Awaited(u) = {}
    BY <1>3, <1>4, <1>5, <2>1, StoppedIs DEF Awaited
  <2> QED
    BY <1>2, <1>4, <2>1, <2>2 DEF DialogFits, Idle, AtRest, Settled
<1>10. BrowseInv(u)
  BY <1>4, <1>6, <1>7, <1>8, <1>9 DEF BrowseInv
<1> QED
  BY <1>2, <1>10, BrowseActKeeps

--------------------------------------------------------------------------------
(* What the buttons of the product list do.                                  *)

LEMMA QuietKeeps ==
  ASSUME NEW b, BrowseInv(b), NEW u \in BrowseRecord, SameList(u, b), FormFits(u), PatientFits(u)
  PROVE  BrowseInv(u)
BY SameListKeeps DEF BrowseInv

\* A patient user who waited asks for one thing.
LEMMA OneMore ==
  ASSUME NEW b, BrowseInv(b), b.patient => Awaited(b) = {}, NEW u, NEW c, ~Plain(c), u.calls = b.calls \cup {c},
         u.patient = b.patient, u.patient => ~u.unnamed /\ DialogFits(u) /\ Expected(u, c)
  PROVE  PatientFits(u)
<1>1. Awaited(u) = Awaited(b) \cup {c} /\ c \in u.calls
  BY AwaitedIs
<1> QED
  BY <1>1 DEF PatientFits, Waiting

DetailCall(p, goal) == [kind |-> "detail", product |-> p, for |-> goal]

LEMMA ClickingProduct == ASSUME BrowseInv(browse), NEW p \in Products, ClickProduct(p) PROVE BrowseInv(browse')
<1> DEFINE Pending == browse.calls \cup {DetailCall(p, "sheet")}
           u == [browse EXCEPT !.route = p, !.screen = "detail", !.calls = Pending]
<1>1. browse \in BrowseRecord /\ browse.calls \in SUBSET BrowseCalls
  BY BoundedNow, BrowseFields
<1>2. /\ browse.dialog = Idle /\ MayLeave(browse)
      /\ browse' = [OpenProductDetail([browse EXCEPT !.route = p], p) EXCEPT !.acts = @ + 1]
  BY DEF ClickProduct, BrowseAct, OnPage
<1>3. OpenProductDetail([browse EXCEPT !.route = p], p) = u
  BY <1>1 DEF OpenProductDetail, FetchProductDetail, DetailCall, BrowseRecord
<1>4. /\ DetailCall(p, "sheet") \in BrowseCalls /\ DetailCall(p, "sheet").kind = "detail" /\ DetailCall(p, "sheet").product = p
      /\ DetailCall(p, "sheet").for = "sheet" /\ ~Plain(DetailCall(p, "sheet"))
  BY DEF DetailCall, BrowseCalls, Plain
<1>5. Pending \in SUBSET BrowseCalls /\ (\A c : c.kind = "list" => (c \in Pending <=> c \in browse.calls)) /\ p \in BrowseRoutes
  BY <1>1, <1>4 DEF BrowseRoutes
<1>6. Pending = browse.calls \cup {DetailCall(p, "sheet")}
  OBVIOUS
<1> HIDE DEF Pending
<1>7. u \in BrowseRecord /\ SameList(u, browse)
  BY <1>1, <1>5, ZenonT(60) DEF SameList, BrowseRecord
<1>8. /\ u.shown = browse.shown /\ u.form = browse.form /\ u.misplaced = browse.misplaced /\ u.screen = "detail" /\ u.route = p
      /\ u.dialog = Idle /\ u.patient = browse.patient /\ u.unnamed = browse.unnamed /\ u.calls = Pending
  BY <1>1, <1>2 DEF BrowseRecord
<1> HIDE DEF u
<1>9. FormFits(u)
  BY <1>8 DEF BrowseInv, FormFits
<1>10. browse.patient => Awaited(browse) = {} /\ ~browse.unnamed
  BY <1>2, MayLeaveIs
<1>11. DialogFits(u) /\ Expected(u, DetailCall(p, "sheet"))
  BY <1>4, <1>8 DEF DialogFits, Expected, Idle
<1>12. PatientFits(u)
  BY <1>4, <1>6, <1>8, <1>10, <1>11, OneMore
<1>13. BrowseInv(u)
  BY <1>7, <1>9, <1>12, QuietKeeps
<1> QED
  BY <1>2, <1>3, <1>13, BrowseActKeeps

LEMMA ClickingNewProduct == ASSUME BrowseInv(browse), ClickNew PROVE BrowseInv(browse')
<1> DEFINE u == [browse EXCEPT !.route = NewSheet, !.screen = "detail", !.shown = NoProduct, !.form = NoProduct]
<1>1. browse \in BrowseRecord
  BY BoundedNow
<1>2. /\ browse.dialog = Idle /\ MayLeave(browse)
      /\ browse' = [StartCreateProduct([browse EXCEPT !.route = NewSheet]) EXCEPT !.acts = @ + 1]
  BY DEF ClickNew, BrowseAct, OnPage
<1>3. StartCreateProduct([browse EXCEPT !.route = NewSheet]) = u
  BY <1>1 DEF StartCreateProduct, RenderProductDetail, BrowseRecord
<1>4. u \in BrowseRecord /\ SameList(u, browse)
  BY <1>1, ZenonT(60) DEF SameList, BrowseRecord, BrowseRoutes
<1>5. /\ u.shown = NoProduct /\ u.misplaced = browse.misplaced /\ u.screen = "detail" /\ u.route = NewSheet
      /\ u.dialog = Idle /\ u.patient = browse.patient /\ u.unnamed = browse.unnamed /\ u.calls = browse.calls
  BY <1>1, <1>2 DEF BrowseRecord
<1> HIDE DEF u
<1>6. FormFits(u)
  BY <1>5 DEF BrowseInv, FormFits
<1>7. browse.patient => Awaited(u) = {} /\ ~browse.unnamed
  BY <1>2, <1>5, MayLeaveIs, AwaitedIs
<1>8. DialogFits(u) /\ Settled(u)
  BY <1>5 DEF DialogFits, Settled, Idle
<1>9. PatientFits(u)
  BY <1>5, <1>7, <1>8 DEF PatientFits, AtRest
<1>10. BrowseInv(u)
  BY <1>4, <1>6, <1>9, QuietKeeps
<1> QED
  BY <1>2, <1>3, <1>10, BrowseActKeeps

\* Nothing that the user waits for, or sees beside the list, depends on the selection.
SameSheet(u, b) ==
  /\ u.view = b.view /\ u.screen = b.screen /\ u.route = b.route /\ u.activations = b.activations
  /\ u.shown = b.shown /\ u.form = b.form /\ u.bulk = b.bulk /\ u.dialog = b.dialog /\ u.named = b.named
  /\ u.priced = b.priced /\ u.confirm = b.confirm /\ u.checked = b.checked /\ u.busy = b.busy
  /\ u.patient = b.patient /\ u.misplaced = b.misplaced /\ u.unnamed = b.unnamed

LEMMA SameSheetKeeps ==
  ASSUME NEW b, NEW u, SameSheet(u, b)
  PROVE  /\ FormFits(b) => FormFits(u)
         /\ DialogFits(b) => DialogFits(u)
         /\ Settled(b) => Settled(u)
         /\ \A c : Expected(b, c) => Expected(u, c)
BY DEF SameSheet, FormFits, DialogFits, Doomed, Settled, Expected

LEMMA Selecting == ASSUME BrowseInv(browse), NEW p \in Products, SelectProduct(p) PROVE BrowseInv(browse')
<1> DEFINE More == browse.selection \cup {p}
           u == [browse EXCEPT !.selection = More, !.bar = More]
<1>1. browse \in BrowseRecord /\ More \in SUBSET Products
  BY BoundedNow, BrowseFields
<1>2. browse' = [u EXCEPT !.acts = @ + 1]
  BY <1>1 DEF SelectProduct, BrowseAct, BrowseRecord
<1> HIDE DEF More
<1>3. u \in BrowseRecord /\ SameSheet(u, browse)
  BY <1>1, ZenonT(60) DEF SameSheet, BrowseRecord
<1>4. /\ u.selection = u.bar /\ u.calls = browse.calls /\ u.status = browse.status /\ u.latest = browse.latest
      /\ u.listed = browse.listed /\ u.filters = browse.filters /\ u.loadGeneration = browse.loadGeneration
  BY <1>1 DEF BrowseRecord
<1> HIDE DEF u
<1>5. ReadsFit(u) /\ BarFits(u)
  BY <1>4 DEF BrowseInv, ReadsFit, BarFits
<1>6. FormFits(u)
  BY <1>3, SameSheetKeeps DEF BrowseInv
<1>7. PatientFits(u)
  <2> SUFFICES ASSUME u.patient PROVE ~u.unnamed /\ DialogFits(u) /\ (AtRest(u) \/ Waiting(u))
    BY DEF PatientFits
  <2>1. browse.patient /\ ~u.unnamed /\ DialogFits(u) /\ Awaited(u) = Awaited(browse)
    BY <1>3, <1>4, SameSheetKeeps, AwaitedIs DEF SameSheet, BrowseInv, PatientFits
  <2>2. AtRest(browse) \/ Waiting(browse)
    BY <2>1 DEF BrowseInv, PatientFits
  <2> QED
    BY <1>3, <1>4, <2>1, <2>2, SameSheetKeeps DEF AtRest, Waiting
<1>8. BrowseInv(u)
  BY <1>3, <1>5, <1>6, <1>7 DEF BrowseInv
<1> QED
  BY <1>2, <1>8, BrowseActKeeps

\* A call that the page asks for, with its button off.
LEMMA Asking ==
  ASSUME BrowseInv(browse), NEW c \in BrowseCalls, c.kind \in {"save", "relation"}, NEW pressed \in {"save", "relation"},
         NEW misplaced \in BOOLEAN, misplaced => browse.shown # NoProduct /\ browse.form # browse.shown,
         browse.dialog = Idle, browse.screen = "detail", MayLeave(browse), c.kind = "relation" => c.product = browse.shown
  PROVE  BrowseInv([browse EXCEPT !.busy = @ \cup {pressed}, !.calls = @ \cup {c}, !.misplaced = @ \/ misplaced])
<1> DEFINE Pending == browse.calls \cup {c}
           Busy  == browse.busy \cup {pressed}
           u == [browse EXCEPT !.busy = Busy, !.calls = Pending]
<1>1. browse \in BrowseRecord /\ Pending \in SUBSET BrowseCalls /\ Busy \in SUBSET {"save", "relation", "price"}
  BY BoundedNow, BrowseFields
<1>2. ~misplaced /\ browse.misplaced = FALSE
  BY <1>1, BrowseFields DEF BrowseInv, FormFits
<1>3. [browse EXCEPT !.busy = @ \cup {pressed}, !.calls = @ \cup {c}, !.misplaced = @ \/ misplaced] = u
  BY <1>1, <1>2, ZenonT(60) DEF BrowseRecord
<1>4. ~Plain(c) /\ \A d : d.kind = "list" => (d \in Pending <=> d \in browse.calls)
  BY DEF Plain
<1>5. Pending = browse.calls \cup {c}
  OBVIOUS
<1> HIDE DEF Pending, Busy
<1>6. u \in BrowseRecord /\ SameList(u, browse)
  BY <1>1, <1>4, ZenonT(60) DEF SameList, BrowseRecord
<1>7. /\ u.view = browse.view /\ u.shown = browse.shown /\ u.form = browse.form /\ u.misplaced = browse.misplaced
      /\ u.screen = browse.screen /\ u.route = browse.route
      /\ u.dialog = browse.dialog /\ u.patient = browse.patient /\ u.unnamed = browse.unnamed /\ u.calls = Pending
  BY <1>1 DEF BrowseRecord
<1> HIDE DEF u
<1>8. FormFits(u)
  BY <1>7 DEF BrowseInv, FormFits
<1>9. browse.patient => Awaited(browse) = {} /\ Settled(browse) /\ ~browse.unnamed
  BY MayLeaveIs
<1>10. u.patient => ~u.unnamed /\ DialogFits(u) /\ Expected(u, c)
  BY <1>7, <1>9 DEF DialogFits, Expected, Settled, Idle
<1>11. PatientFits(u)
  BY <1>4, <1>5, <1>7, <1>9, <1>10, OneMore
<1>12. BrowseInv(u)
  BY <1>6, <1>8, <1>11, QuietKeeps
<1> QED
  BY <1>3, <1>12

LEMMA SavingProduct == ASSUME BrowseInv(browse), SaveProduct PROVE BrowseInv(browse')
<1> DEFINE c == [kind |-> "save", product |-> browse.shown, form |-> browse.form]
           misplaced == browse.shown # NoProduct /\ browse.form # browse.shown
           u == [browse EXCEPT !.busy = @ \cup {"save"}, !.calls = @ \cup {c}, !.misplaced = @ \/ misplaced]
<1>1. browse \in BrowseRecord
  BY BoundedNow
<1>2. browse.dialog = Idle /\ browse.screen = "detail" /\ MayLeave(browse) /\ browse' = [u EXCEPT !.acts = @ + 1]
  BY DEF SaveProduct, BrowseAct, OnSheet, OnPage
<1>3. c \in BrowseCalls /\ c.kind = "save"
  BY <1>1, BrowseFields DEF BrowseCalls
<1>4. misplaced \in BOOLEAN
  OBVIOUS
<1> HIDE DEF c
<1>5. BrowseInv(u)
  BY <1>2, <1>3, <1>4, Asking
<1> HIDE DEF u
<1> QED
  BY <1>2, <1>5, BrowseActKeeps

LEMMA SavingRelation == ASSUME BrowseInv(browse), SaveRelation PROVE BrowseInv(browse')
<1> DEFINE c == [kind |-> "relation", product |-> browse.shown]
           u == [browse EXCEPT !.busy = @ \cup {"relation"}, !.calls = @ \cup {c}, !.misplaced = @ \/ FALSE]
<1>1. browse \in BrowseRecord /\ browse.misplaced \in BOOLEAN
  BY BoundedNow, BrowseFields
<1>2. /\ browse.dialog = Idle /\ browse.screen = "detail" /\ browse.shown # NoProduct /\ MayLeave(browse)
      /\ browse' = [[browse EXCEPT !.busy = @ \cup {"relation"}, !.calls = @ \cup {c}] EXCEPT !.acts = @ + 1]
  BY DEF SaveRelation, BrowseAct, OnSheet, OnPage
<1>3. c \in BrowseCalls /\ c.kind = "relation" /\ c.product = browse.shown
  BY <1>1, <1>2, BrowseFields DEF BrowseCalls
<1> HIDE DEF c
<1>4. [browse EXCEPT !.busy = @ \cup {"relation"}, !.calls = @ \cup {c}] = u
  BY <1>1, ZenonT(60) DEF BrowseRecord
<1>5. BrowseInv(u)
  BY <1>2, <1>3, Asking
<1> HIDE DEF u
<1> QED
  BY <1>2, <1>4, <1>5, BrowseActKeeps

LEMMA OpeningPrice == ASSUME BrowseInv(browse), OpenPriceDialog PROVE BrowseInv(browse')
<1> DEFINE u == [browse EXCEPT !.dialog = "price", !.priced = browse.shown]
<1>1. browse \in BrowseRecord
  BY BoundedNow
<1>2. MayLeave(browse) /\ browse' = [u EXCEPT !.acts = @ + 1]
  BY DEF OpenPriceDialog, BrowseAct
<1>3. u \in BrowseRecord /\ SameList(u, browse)
  BY <1>1, ZenonT(60) DEF SameList, BrowseRecord
<1>4. /\ u.view = browse.view /\ u.shown = browse.shown /\ u.form = browse.form /\ u.misplaced = browse.misplaced
      /\ u.screen = browse.screen /\ u.route = browse.route /\ u.priced = browse.shown
      /\ u.dialog = "price" /\ u.patient = browse.patient /\ u.unnamed = browse.unnamed /\ u.calls = browse.calls
  BY <1>1 DEF BrowseRecord
<1> HIDE DEF u
<1>5. FormFits(u)
  BY <1>4 DEF BrowseInv, FormFits
<1>6. browse.patient => Awaited(u) = {} /\ Settled(browse) /\ ~browse.unnamed
  BY <1>2, <1>4, MayLeaveIs, AwaitedIs
<1>7. PatientFits(u)
  BY <1>4, <1>6 DEF PatientFits, AtRest, Settled, DialogFits
<1>8. BrowseInv(u)
  BY <1>3, <1>5, <1>7, QuietKeeps
<1> QED
  BY <1>2, <1>8, BrowseActKeeps

\* The button of a dialog is on only when nothing is awaited.
LEMMA ButtonOn ==
  ASSUME NEW b, BrowseInv(b), b.patient,
         (b.dialog = "price" /\ "price" \notin b.busy) \/ (b.dialog = "delete" /\ b.confirm)
  PROVE  Awaited(b) = {} /\ Settled(b) /\ ~b.unnamed /\ DialogFits(b)
<1>1. ASSUME Waiting(b) PROVE FALSE
  <2>1. PICK c \in b.calls : Awaited(b) = {c} /\ Expected(b, c)
    BY <1>1 DEF Waiting
  <2>2. c \in BrowseCalls
    BY BrowseFields DEF BrowseInv
  <2> QED
    BY <2>1, <2>2, BrowseCallTypes DEF Expected, Idle
<1> QED
  BY <1>1 DEF BrowseInv, PatientFits, AtRest

LEMMA SavingPrice == ASSUME BrowseInv(browse), SavePrice PROVE BrowseInv(browse')
<1> DEFINE c == [kind |-> "price", product |-> browse.shown]
           Pending == browse.calls \cup {c}
           Busy == browse.busy \cup {"price"}
           unnamed == browse.unnamed \/ browse.shown # browse.priced
           u == [browse EXCEPT !.busy = Busy, !.calls = Pending, !.unnamed = unnamed]
<1>1. browse \in BrowseRecord
  BY BoundedNow
<1>2. /\ browse.dialog = "price" /\ "price" \notin browse.busy /\ browse.shown # NoProduct
      /\ browse' = [u EXCEPT !.acts = @ + 1]
  BY <1>1 DEF SavePrice, BrowseAct, BrowseRecord
<1>3. c \in BrowseCalls /\ c.kind = "price" /\ c.product = browse.shown /\ ~Plain(c)
  BY <1>1, <1>2, BrowseFields DEF BrowseCalls, Plain
<1> HIDE DEF c
<1>4. /\ Pending \in SUBSET BrowseCalls /\ Busy \in SUBSET {"save", "relation", "price"} /\ "price" \in Busy /\ unnamed \in BOOLEAN
      /\ \A d : d.kind = "list" => (d \in Pending <=> d \in browse.calls)
  BY <1>1, <1>3, BrowseFields
<1>5. Pending = browse.calls \cup {c}
  OBVIOUS
<1>6. browse.patient => Awaited(browse) = {} /\ Settled(browse) /\ ~unnamed
  BY <1>2, ButtonOn DEF DialogFits
<1> HIDE DEF Pending, Busy, unnamed
<1>7. u \in BrowseRecord /\ SameList(u, browse)
  BY <1>1, <1>4, ZenonT(60) DEF SameList, BrowseRecord
<1>8. /\ u.view = browse.view /\ u.shown = browse.shown /\ u.form = browse.form /\ u.misplaced = browse.misplaced
      /\ u.screen = browse.screen /\ u.route = browse.route /\ u.priced = browse.priced /\ u.busy = Busy
      /\ u.dialog = browse.dialog /\ u.patient = browse.patient /\ u.unnamed = unnamed /\ u.calls = Pending
  BY <1>1 DEF BrowseRecord
<1> HIDE DEF u
<1>9. FormFits(u)
  BY <1>8 DEF BrowseInv, FormFits
<1>10. ASSUME u.patient PROVE ~u.unnamed /\ DialogFits(u) /\ Expected(u, c)
  <2>1. browse.shown = browse.priced
    BY <1>2, <1>8, <1>10, ButtonOn DEF DialogFits
  <2> QED
    BY <1>2, <1>3, <1>4, <1>6, <1>8, <1>10, <2>1 DEF DialogFits, Expected, Settled, Idle
<1>11. PatientFits(u)
  BY <1>3, <1>5, <1>6, <1>8, <1>10, OneMore
<1>12. BrowseInv(u)
  BY <1>7, <1>9, <1>11, QuietKeeps
<1> QED
  BY <1>2, <1>12, BrowseActKeeps

LEMMA AskingImpact ==
  ASSUME BrowseInv(browse), MayLeave(browse), NEW bulk \in SUBSET Products, NEW doomed \in SUBSET Products,
         IF bulk = {} THEN doomed = {browse.shown} \ {NoProduct} ELSE doomed = bulk
  PROVE  BrowseInv(AskImpact([browse EXCEPT !.bulk = bulk], doomed))
<1> DEFINE c == [kind |-> "impact", of |-> doomed, bulk |-> bulk # {}]
           Pending == browse.calls \cup {c}
           u == [browse EXCEPT !.bulk = bulk, !.dialog = "delete", !.named = doomed, !.confirm = FALSE, !.calls = Pending]
<1>1. browse \in BrowseRecord
  BY BoundedNow
<1>2. AskImpact([browse EXCEPT !.bulk = bulk], doomed) = u
  BY <1>1 DEF AskImpact, BrowseRecord
<1>3. c \in BrowseCalls /\ c.kind = "impact" /\ c.of = doomed /\ ~Plain(c)
  BY DEF BrowseCalls, Plain
<1> HIDE DEF c
<1>4. /\ Pending \in SUBSET BrowseCalls /\ \A d : d.kind = "list" => (d \in Pending <=> d \in browse.calls)
  BY <1>1, <1>3, BrowseFields
<1>5. Pending = browse.calls \cup {c}
  OBVIOUS
<1> HIDE DEF Pending
<1>6. u \in BrowseRecord /\ SameList(u, browse)
  BY <1>1, <1>4, ZenonT(60) DEF SameList, BrowseRecord
<1>7. /\ u.view = browse.view /\ u.shown = browse.shown /\ u.form = browse.form /\ u.misplaced = browse.misplaced
      /\ u.screen = browse.screen /\ u.route = browse.route /\ u.bulk = bulk /\ u.named = doomed /\ u.confirm = FALSE
      /\ u.dialog = "delete" /\ u.patient = browse.patient /\ u.unnamed = browse.unnamed /\ u.calls = Pending
  BY <1>1 DEF BrowseRecord
<1> HIDE DEF u
<1>8. FormFits(u)
  BY <1>7 DEF BrowseInv, FormFits
<1>9. browse.patient => Awaited(browse) = {} /\ Settled(browse) /\ ~browse.unnamed
  BY MayLeaveIs
<1>10. u.patient => ~u.unnamed /\ DialogFits(u) /\ Expected(u, c)
  BY <1>3, <1>7, <1>9 DEF DialogFits, Doomed, Expected, Settled, Idle
<1>11. PatientFits(u)
  BY <1>3, <1>5, <1>7, <1>9, <1>10, OneMore
<1>12. BrowseInv(u)
  BY <1>6, <1>8, <1>11, QuietKeeps
<1> QED
  BY <1>2, <1>12

LEMMA AskingForProducts ==
  ASSUME BrowseInv(browse), OpenProductDeleteDialog \/ OpenProductBulkDeleteDialog
  PROVE  BrowseInv(browse')
<1>1. browse \in BrowseRecord /\ browse.shown \in Products \cup {NoProduct} /\ browse.selection \in SUBSET Products
  BY BoundedNow, BrowseFields
<1>2. CASE OpenProductDeleteDialog
  <2> DEFINE u == AskImpact([browse EXCEPT !.bulk = {}], {browse.shown})
  <2>1. browse.shown # NoProduct /\ MayLeave(browse) /\ browse' = [u EXCEPT !.acts = @ + 1]
    BY <1>2 DEF OpenProductDeleteDialog, BrowseAct
  <2>2. {browse.shown} \in SUBSET Products /\ {browse.shown} = {browse.shown} \ {NoProduct}
    BY <1>1, <2>1
  <2>3. BrowseInv(u)
    BY <2>1, <2>2, AskingImpact
  <2> HIDE DEF u
  <2> QED
    BY <2>1, <2>3, BrowseActKeeps
<1>3. CASE OpenProductBulkDeleteDialog
  <2> DEFINE u == AskImpact([browse EXCEPT !.bulk = browse.selection], browse.selection)
  <2>1. browse.selection # {} /\ MayLeave(browse) /\ browse' = [u EXCEPT !.acts = @ + 1]
    BY <1>3 DEF OpenProductBulkDeleteDialog, BrowseAct
  <2>2. BrowseInv(u)
    BY <1>1, <2>1, AskingImpact
  <2> HIDE DEF u
  <2> QED
    BY <2>1, <2>2, BrowseActKeeps
<1> QED
  BY <1>2, <1>3

LEMMA ClosingDialog == ASSUME BrowseInv(browse), CloseDialog PROVE BrowseInv(browse')
<1> DEFINE u == [browse EXCEPT !.dialog = Idle]
<1>1. browse \in BrowseRecord
  BY BoundedNow
<1>2. browse' = [u EXCEPT !.acts = @ + 1]
  BY DEF CloseDialog, BrowseAct
<1>3. u \in BrowseRecord /\ SameList(u, browse)
  BY <1>1 DEF SameList, BrowseRecord
<1>4. /\ u.view = browse.view /\ u.shown = browse.shown /\ u.form = browse.form /\ u.misplaced = browse.misplaced
      /\ u.screen = browse.screen /\ u.route = browse.route /\ u.activations = browse.activations /\ u.busy = browse.busy
      /\ u.dialog = Idle /\ u.patient = browse.patient /\ u.unnamed = browse.unnamed /\ u.calls = browse.calls
  BY <1>1 DEF BrowseRecord
<1> HIDE DEF u
<1>5. FormFits(u)
  BY <1>4 DEF BrowseInv, FormFits
<1>6. PatientFits(u)
  <2> SUFFICES ASSUME u.patient PROVE ~u.unnamed /\ DialogFits(u) /\ (AtRest(u) \/ Waiting(u))
    BY DEF PatientFits
  <2>1. ~u.unnamed /\ DialogFits(u) /\ Awaited(u) = Awaited(browse)
    BY <1>4, AwaitedIs DEF BrowseInv, PatientFits, DialogFits, Idle
  <2>2. AtRest(browse) \/ Waiting(browse)
    BY <1>4 DEF BrowseInv, PatientFits
  <2>3. Settled(browse) => Settled(u)
    BY <1>4 DEF Settled
  <2>4. \A c : Expected(browse, c) => Expected(u, c)
    BY <1>4, <2>3 DEF Expected, Idle
  <2> QED
    BY <1>4, <2>1, <2>2, <2>3, <2>4 DEF AtRest, Waiting
<1>7. BrowseInv(u)
  BY <1>3, <1>5, <1>6, QuietKeeps
<1> QED
  BY <1>2, <1>7, BrowseActKeeps

LEMMA ConfirmingProducts == ASSUME BrowseInv(browse), ConfirmProductDelete PROVE BrowseInv(browse')
<1> DEFINE c == [kind |-> "delete", of |-> Doomed(browse), bulk |-> browse.bulk # {}]
           Pending == browse.calls \cup {c}
           unnamed == browse.unnamed \/ Doomed(browse) # browse.named
           u == [browse EXCEPT !.confirm = FALSE, !.calls = Pending, !.unnamed = unnamed]
<1>1. browse \in BrowseRecord /\ Doomed(browse) \in SUBSET Products
  BY BoundedNow, BrowseFields DEF Doomed
<1>2. browse.dialog = "delete" /\ browse.confirm /\ browse' = [u EXCEPT !.acts = @ + 1]
  BY <1>1 DEF ConfirmProductDelete, BrowseAct, BrowseRecord
<1>3. c \in BrowseCalls /\ c.kind = "delete" /\ ~Plain(c)
  BY <1>1 DEF BrowseCalls, Plain
<1> HIDE DEF c
<1>4. /\ Pending \in SUBSET BrowseCalls /\ unnamed \in BOOLEAN
      /\ \A d : d.kind = "list" => (d \in Pending <=> d \in browse.calls)
  BY <1>1, <1>3, BrowseFields
<1>5. Pending = browse.calls \cup {c}
  OBVIOUS
<1>6. browse.patient => Awaited(browse) = {} /\ Settled(browse) /\ ~unnamed /\ DialogFits(browse)
  BY <1>2, ButtonOn DEF DialogFits
<1> HIDE DEF Pending, unnamed
<1>7. u \in BrowseRecord /\ SameList(u, browse)
  BY <1>1, <1>4, ZenonT(60) DEF SameList, BrowseRecord
<1>8. /\ u.view = browse.view /\ u.shown = browse.shown /\ u.form = browse.form /\ u.misplaced = browse.misplaced
      /\ u.screen = browse.screen /\ u.route = browse.route /\ u.named = browse.named /\ u.bulk = browse.bulk
      /\ u.checked = browse.checked /\ u.confirm = FALSE
      /\ u.dialog = browse.dialog /\ u.patient = browse.patient /\ u.unnamed = unnamed /\ u.calls = Pending
  BY <1>1 DEF BrowseRecord
<1> HIDE DEF u
<1>9. FormFits(u)
  BY <1>8 DEF BrowseInv, FormFits
<1>10. u.patient => ~u.unnamed /\ DialogFits(u) /\ Expected(u, c)
  BY <1>2, <1>3, <1>6, <1>8 DEF DialogFits, Doomed, Expected, Settled, Idle
<1>11. PatientFits(u)
  BY <1>3, <1>5, <1>6, <1>8, <1>10, OneMore
<1>12. BrowseInv(u)
  BY <1>7, <1>9, <1>11, QuietKeeps
<1> QED
  BY <1>2, <1>12, BrowseActKeeps

--------------------------------------------------------------------------------

\* Once it is answered, nothing is awaited.
LEMMA AnswerTaken ==
  ASSUME BrowseInv(browse), NEW c \in browse.calls, ~Plain(c), NEW u, u.calls = browse.calls \ {c}, browse.patient
  PROVE  /\ Awaited(u) = {} /\ Awaited(browse) = {c} /\ Expected(browse, c) /\ c \in BrowseCalls
         /\ ~browse.unnamed /\ DialogFits(browse)
<1>1. c \in BrowseCalls
  BY BrowseFields DEF BrowseInv
<1>2. Awaited(browse) = {c} /\ Expected(browse, c) /\ ~browse.unnamed /\ DialogFits(browse)
  BY Turn
<1>3. Awaited(u) = Awaited(browse) \ {c}
  BY AwaitedIs
<1> QED
  BY <1>1, <1>2, <1>3

LEMMA MetadataComes == ASSUME BrowseInv(browse), NEW c \in browse.calls, MetadataAnswered(c) PROVE BrowseInv(browse')
<1> DEFINE d == [c EXCEPT !.stage = "products", !.filters = browse.filters]
           Pending == (browse.calls \ {c}) \cup {d}
           u == [browse EXCEPT !.calls = Pending]
<1>1. /\ browse \in BrowseRecord /\ browse.calls \in SUBSET BrowseCalls /\ c \in BrowseCalls /\ c.kind = "list"
      /\ browse.filters \in FilterSets
  BY BoundedNow, BrowseFields DEF MetadataAnswered
<1>2. browse' = u
  BY <1>1 DEF MetadataAnswered, BrowseRecord
<1>3. /\ d \in BrowseCalls /\ d.kind = "list" /\ d.stage = "products" /\ d.filters = browse.filters /\ d.then = c.then
      /\ d.generation = c.generation
  BY <1>1 DEF BrowseCalls
<1> HIDE DEF d
<1>4. /\ Pending \in SUBSET BrowseCalls /\ d \in Pending /\ (\A e \in Pending : e = d \/ e \in browse.calls)
      /\ \A e \in browse.calls : e = c \/ e \in Pending
  BY <1>1, <1>3
<1>5. Plain(d) <=> Plain(c)
  BY <1>1, <1>3 DEF Plain
<1>6. IF Plain(c) THEN {e \in Pending : ~Plain(e)} = Awaited(browse)
      ELSE Awaited(browse) = {c} => {e \in Pending : ~Plain(e)} = {d}
  BY <1>5 DEF Awaited
<1> HIDE DEF Pending
<1>7. u \in BrowseRecord /\ SameSheet(u, browse)
  BY <1>1, <1>4 DEF SameSheet, BrowseRecord
<1>8. /\ u.calls = Pending /\ u.filters = browse.filters /\ u.listed = browse.listed /\ u.status = browse.status
      /\ u.latest = browse.latest /\ u.loadGeneration = browse.loadGeneration /\ u.selection = browse.selection /\ u.bar = browse.bar
  BY <1>1 DEF BrowseRecord
<1> HIDE DEF u
<1>9. ReadsFit(u)
  <2>1. ASSUME NEW e \in Pending, e.kind = "list"
        PROVE  /\ e.generation <= browse.loadGeneration
               /\ e.stage = "products" /\ e.generation = browse.loadGeneration => e.filters = browse.filters
    <3>1. CASE e = d
      BY <1>1, <1>3, <3>1 DEF BrowseInv, ReadsFit
    <3>2. CASE e \in browse.calls
      BY <2>1, <3>2 DEF BrowseInv, ReadsFit
    <3> QED
      BY <1>4, <3>1, <3>2
  <2> QED
    BY <1>8, <2>1 DEF BrowseInv, ReadsFit
<1>10. BarFits(u)
  BY <1>3, <1>4, <1>8 DEF BrowseInv, BarFits
<1>11. FormFits(u)
  BY <1>7, SameSheetKeeps DEF BrowseInv
<1>12. PatientFits(u)
  <2> SUFFICES ASSUME u.patient PROVE ~u.unnamed /\ DialogFits(u) /\ (AtRest(u) \/ Waiting(u))
    BY DEF PatientFits
  <2>1. browse.patient /\ ~u.unnamed /\ DialogFits(u) /\ (AtRest(browse) \/ Waiting(browse))
    BY <1>7, SameSheetKeeps DEF SameSheet, BrowseInv, PatientFits
  <2>2. Awaited(u) = {e \in Pending : ~Plain(e)}
    BY <1>8 DEF Awaited
  <2>3. CASE Plain(c)
    <3>1. Awaited(u) = Awaited(browse)
      BY <1>6, <2>2, <2>3
    <3>2. AtRest(browse) => AtRest(u)
      BY <1>7, <3>1, SameSheetKeeps DEF AtRest
    <3>3. ASSUME Waiting(browse) PROVE Waiting(u)
      <4>1. PICK e \in browse.calls : Awaited(browse) = {e} /\ Expected(browse, e)
        BY <3>3 DEF Waiting
      <4>2. e \in u.calls
        BY <3>1, <4>1 DEF Awaited
      <4> QED
        BY <1>7, <3>1, <4>1, <4>2, SameSheetKeeps DEF Waiting
    <3> QED
      BY <2>1, <3>2, <3>3
  <2>4. CASE ~Plain(c)
    <3>1. Awaited(browse) = {c} /\ Expected(browse, c)
      BY <2>1, <2>4, Turn
    <3>2. Awaited(u) = {d}
      BY <1>6, <2>2, <2>4, <3>1
    <3>3. Expected(browse, d)
      BY <1>1, <1>3, <3>1 DEF Expected
    <3> QED
      BY <1>4, <1>7, <1>8, <2>1, <3>2, <3>3, SameSheetKeeps DEF Waiting
  <2> QED
    BY <2>3, <2>4
<1>13. BrowseInv(u)
  BY <1>7, <1>9, <1>10, <1>11, <1>12 DEF BrowseInv
<1> QED
  BY <1>2, <1>13

\* What follows a read of the list: nothing, the tidying after a deletion, or the sheet that
\* the address asks for.
LEMMA AfterListKeeps ==
  ASSUME BrowseInv(browse), NEW c \in browse.calls, c.kind = "list", NEW b \in BrowseRecord, b.calls = browse.calls \ {c},
         SameSheet(b, browse), b.selection = browse.selection, b.bar \in {browse.bar, browse.selection}, ReadsFit(b)
  PROVE  BrowseInv(AfterList(b, c.then))
<1>1. c \in BrowseCalls /\ c.then \in Thens
  BY BrowseFields, BrowseCallTypes DEF BrowseInv
<1>2. FormFits(b)
  BY SameSheetKeeps DEF BrowseInv
<1>3. c.then.kind # "deleted" => BarFits(b)
  BY DEF BrowseInv, BarFits
<1>4. b.patient = browse.patient /\ b.unnamed = browse.unnamed
  BY DEF SameSheet
<1>5. CASE c.then = Nothing
  <2>1. Plain(c) /\ c.then.kind # "deleted" /\ AfterList(b, c.then) = b
    BY <1>5 DEF Plain, Nothing, Idle, AfterList
  <2>2. Awaited(b) = Awaited(browse)
    BY <2>1 DEF Awaited
  <2>3. PatientFits(b)
    <3> SUFFICES ASSUME b.patient PROVE ~b.unnamed /\ DialogFits(b) /\ (AtRest(b) \/ Waiting(b))
      BY DEF PatientFits
    <3>1. ~b.unnamed /\ DialogFits(b) /\ (AtRest(browse) \/ Waiting(browse))
      BY <1>4, SameSheetKeeps DEF BrowseInv, PatientFits
    <3>2. \A e \in browse.calls : Awaited(browse) = {e} => e \in b.calls
      BY <2>2 DEF Awaited
    <3> QED
      BY <2>2, <3>1, <3>2, SameSheetKeeps DEF AtRest, Waiting
  <2> QED
    BY <1>2, <1>3, <2>1, <2>3 DEF BrowseInv
<1>6. ASSUME c.then # Nothing, b.patient
      PROVE  Awaited(b) = {} /\ Expected(b, c) /\ ~b.unnamed /\ DialogFits(b)
  <2>1. ~Plain(c)
    BY <1>6 DEF Plain
  <2>2. Awaited(b) = {} /\ Expected(browse, c) /\ ~browse.unnamed /\ DialogFits(browse)
    BY <1>4, <1>6, <2>1, AnswerTaken
  <2> QED
    BY <1>4, <2>2, SameSheetKeeps
<1>7. CASE c.then.kind = "deleted"
  <2> DEFINE u == [b EXCEPT !.status = "deleted", !.bar = b.selection]
  <2>1. c.then # Nothing
    BY <1>7 DEF Nothing, Idle
  <2>2. AfterList(b, c.then) = u
    BY <1>7, <2>1 DEF AfterList
  <2>3. u \in BrowseRecord /\ SameSheet(u, b)
    BY BrowseFields, ZenonT(60) DEF SameSheet, BrowseRecord
  <2>4. /\ u.status = "deleted" /\ u.calls = b.calls /\ u.bar = u.selection /\ u.filters = b.filters
        /\ u.loadGeneration = b.loadGeneration
    BY DEF BrowseRecord
  <2> HIDE DEF u
  <2>5. ReadsFit(u) /\ BarFits(u)
    BY <2>4 DEF ReadsFit, BarFits
  <2>6. FormFits(u)
    BY <1>2, <2>3, SameSheetKeeps
  <2>7. PatientFits(u)
    <3> SUFFICES ASSUME u.patient PROVE ~u.unnamed /\ DialogFits(u) /\ AtRest(u)
      BY DEF PatientFits
    <3>1. Awaited(b) = {} /\ Settled(b) /\ ~b.unnamed /\ DialogFits(b)
      BY <1>6, <1>7, <2>1, <2>3 DEF SameSheet, Expected
    <3> QED
      BY <2>3, <2>4, <3>1, SameSheetKeeps, AwaitedIs, ZenonT(60) DEF SameSheet, AtRest
  <2>8. BrowseInv(u)
    BY <2>3, <2>5, <2>6, <2>7 DEF BrowseInv
  <2> QED
    BY <2>2, <2>8
<1>8. CASE c.then.kind = "activation"
  <2> DEFINE route == c.then.route
             called == c.then.generation = b.activations /\ b.route = route
  <2>1. c.then # Nothing /\ route \in Products \cup {PlainList, NewSheet} /\ BarFits(b)
    BY <1>1, <1>3, <1>8, ThenKinds DEF Nothing, Idle
  <2>2. AfterList(b, c.then) = IF called THEN OpenRequestedProduct(b, route) ELSE b
    BY <1>8, <2>1 DEF AfterList
  <2>3. b.patient => /\ Awaited(b) = {} /\ ~b.unnamed /\ DialogFits(b) /\ called
                     /\ b.screen = "list" /\ b.dialog = Idle
    BY <1>6, <1>8, <2>1 DEF Expected
  <2>4. PlainList \notin Products /\ NewSheet \notin Products /\ PlainList # NewSheet
    BY BrowseAssumption DEF PlainList, NewSheet
  <2> HIDE DEF route, called
  <2>5. CASE ~called
    BY <1>2, <2>1, <2>2, <2>3, <2>5 DEF BrowseInv, PatientFits
  <2>6. CASE called /\ route = PlainList
    <3>1. OpenRequestedProduct(b, route) = b
      BY <2>4, <2>6 DEF OpenRequestedProduct
    <3>2. b.patient => Settled(b)
      BY <2>3, <2>6 DEF Settled, called
    <3> QED
      BY <1>2, <2>1, <2>2, <2>3, <2>6, <3>1, <3>2 DEF BrowseInv, PatientFits, AtRest
  <2>7. CASE called /\ route = NewSheet
    <3> DEFINE u == [b EXCEPT !.screen = "detail", !.shown = NoProduct, !.form = NoProduct]
    <3>1. OpenRequestedProduct(b, route) = u
      BY <2>4, <2>7 DEF OpenRequestedProduct, StartCreateProduct, RenderProductDetail, BrowseRecord
    <3>2. u \in BrowseRecord /\ SameList(u, b)
      BY ZenonT(60) DEF SameList, BrowseRecord
    <3>3. /\ u.shown = NoProduct /\ u.misplaced = b.misplaced /\ u.screen = "detail" /\ u.route = b.route
          /\ u.dialog = b.dialog /\ u.patient = b.patient /\ u.unnamed = b.unnamed /\ u.calls = b.calls
      BY DEF BrowseRecord
    <3> HIDE DEF u
    <3>4. FormFits(u) /\ ReadsFit(u) /\ BarFits(u)
      BY <1>2, <2>1, <3>2, <3>3, SameListKeeps DEF FormFits
    <3>5. PatientFits(u)
      <4>1. u.patient => Awaited(u) = {}
        BY <2>3, <3>3, AwaitedIs
      <4> QED
        BY <2>3, <2>4, <2>7, <3>3, <4>1 DEF PatientFits, AtRest, Settled, DialogFits, Idle, called
    <3>6. BrowseInv(u)
      BY <3>2, <3>4, <3>5 DEF BrowseInv
    <3> QED
      BY <2>2, <2>7, <3>1, <3>6
  <2>8. CASE called /\ route \in Products
    <3> DEFINE Pending == b.calls \cup {DetailCall(route, "sheet")}
               u == [b EXCEPT !.screen = "detail", !.calls = Pending]
    <3>1. OpenRequestedProduct(b, route) = u
      BY <2>4, <2>8 DEF OpenRequestedProduct, OpenProductDetail, FetchProductDetail, DetailCall, BrowseRecord
    <3>2. /\ DetailCall(route, "sheet") \in BrowseCalls /\ DetailCall(route, "sheet").kind = "detail"
          /\ DetailCall(route, "sheet").product = route
          /\ DetailCall(route, "sheet").for = "sheet" /\ ~Plain(DetailCall(route, "sheet"))
      BY <2>8 DEF DetailCall, BrowseCalls, Plain
    <3>3. Pending \in SUBSET BrowseCalls /\ (\A e : e.kind = "list" => (e \in Pending <=> e \in b.calls))
      BY <3>2, BrowseFields
    <3>4. Pending = b.calls \cup {DetailCall(route, "sheet")}
      OBVIOUS
    <3> HIDE DEF Pending
    <3>5. u \in BrowseRecord /\ SameList(u, b)
      BY <3>3, ZenonT(60) DEF SameList, BrowseRecord
    <3>6. /\ u.shown = b.shown /\ u.form = b.form /\ u.misplaced = b.misplaced /\ u.screen = "detail" /\ u.route = b.route
          /\ u.dialog = b.dialog /\ u.patient = b.patient /\ u.unnamed = b.unnamed /\ u.calls = Pending
      BY DEF BrowseRecord
    <3> HIDE DEF u
    <3>7. FormFits(u) /\ ReadsFit(u) /\ BarFits(u)
      BY <1>2, <2>1, <3>5, <3>6, SameListKeeps DEF FormFits
    <3>8. PatientFits(u)
      <4> SUFFICES ASSUME u.patient PROVE ~u.unnamed /\ DialogFits(u) /\ Waiting(u)
        BY DEF PatientFits
      <4>1. Awaited(u) = {DetailCall(route, "sheet")} /\ DetailCall(route, "sheet") \in u.calls
        BY <2>3, <3>2, <3>4, <3>6, AwaitedIs
      <4>2. Expected(u, DetailCall(route, "sheet"))
        BY <2>3, <2>8, <3>2, <3>6 DEF Expected, called
      <4> QED
        BY <2>3, <3>6, <4>1, <4>2 DEF Waiting, DialogFits, Idle
    <3>9. BrowseInv(u)
      BY <3>5, <3>7, <3>8 DEF BrowseInv
    <3> QED
      BY <2>2, <2>8, <3>1, <3>9
  <2> QED
    BY <2>1, <2>5, <2>6, <2>7, <2>8
<1> QED
  BY <1>1, <1>5, <1>7, <1>8, ThenKinds

LEMMA Refreshed ==
  ASSUME NEW b \in BrowseRecord, NEW filters \in FilterSets, NEW bar \in SUBSET Products
  PROVE  /\ [b EXCEPT !.listed = filters, !.status = "found", !.latest = "found", !.bar = bar] \in BrowseRecord
         /\ SameSheet([b EXCEPT !.listed = filters, !.status = "found", !.latest = "found", !.bar = bar], b)
BY ZenonT(60) DEF SameSheet, BrowseRecord

LEMMA Remarked ==
  ASSUME NEW b \in BrowseRecord, NEW status \in {"loading", "found", "failed", "deleted"},
         NEW latest \in {"loading", "found", "failed"}
  PROVE  /\ [b EXCEPT !.status = status, !.latest = latest] \in BrowseRecord
         /\ SameSheet([b EXCEPT !.status = status, !.latest = latest], b)
<1> DEFINE u == [b EXCEPT !.status = status, !.latest = latest]
<1>1. u \in BrowseRecord
  BY ZenonT(60) DEF BrowseRecord
<1>2. SameSheet(u, b)
  BY DEF SameSheet, BrowseRecord
<1> QED
  BY <1>1, <1>2

LEMMA ListComes == ASSUME BrowseInv(browse), NEW c \in browse.calls, ListAnswered(c) \/ ListFails(c) PROVE BrowseInv(browse')
<1> DEFINE Pending == browse.calls \ {c}
           b == [browse EXCEPT !.calls = Pending]
<1>1. /\ browse \in BrowseRecord /\ browse.calls \in SUBSET BrowseCalls /\ c \in BrowseCalls /\ c.kind = "list"
      /\ browse.selection \in SUBSET Products /\ c.filters \in FilterSets
  BY BoundedNow, BrowseFields, BrowseCallTypes DEF ListAnswered, ListFails
<1>2. Pending \in SUBSET BrowseCalls /\ Pending \subseteq browse.calls
  BY <1>1
<1>3. [browse EXCEPT !.calls = @ \ {c}] = b
  BY <1>1 DEF BrowseRecord
<1>4. Pending = browse.calls \ {c}
  OBVIOUS
<1> HIDE DEF Pending
<1>5. /\ b \in BrowseRecord /\ SameSheet(b, browse) /\ b.calls = Pending /\ b.filters = browse.filters /\ b.listed = browse.listed
      /\ b.status = browse.status /\ b.latest = browse.latest /\ b.loadGeneration = browse.loadGeneration
      /\ b.selection = browse.selection /\ b.bar = browse.bar
  BY <1>1, <1>2 DEF SameSheet, BrowseRecord
<1> HIDE DEF b
<1>6. ReadsFit(b) /\ b \in BrowseRecord
  BY <1>2, <1>5 DEF BrowseInv, ReadsFit
<1>7. CASE ListAnswered(c)
  <2> DEFINE u == [b EXCEPT !.listed = c.filters, !.status = "found", !.latest = "found", !.bar = b.selection]
  <2>1. /\ c.stage = "products"
        /\ IsLatest(c) => browse' = AfterList(u, c.then)
        /\ ~IsLatest(c) => browse' = AfterList(b, c.then)
    <3> DEFINE d == [browse EXCEPT !.calls = @ \ {c}]
               Found(x) == [x EXCEPT !.listed = c.filters, !.status = "found", !.latest = "found", !.bar = x.selection]
    <3>1. c.stage = "products" /\ browse' = AfterList(IF IsLatest(c) THEN Found(d) ELSE d, c.then)
      BY <1>7 DEF ListAnswered
    <3>2. d = b /\ Found(b) = u
      BY <1>3
    <3> HIDE DEF Found, d
    <3> QED
      BY <3>1, <3>2
  <2>2. CASE IsLatest(c)
    <3>1. u \in BrowseRecord /\ SameSheet(u, b)
      <4>1. b \in BrowseRecord /\ c.filters \in FilterSets /\ b.selection \in SUBSET Products
        BY <1>1, <1>5
      <4> QED
        BY <4>1, Refreshed
    <3>2. /\ u.calls = Pending /\ u.listed = c.filters /\ u.filters = browse.filters /\ u.status = "found" /\ u.bar = browse.selection
          /\ u.selection = browse.selection /\ u.loadGeneration = browse.loadGeneration
      BY <1>5 DEF BrowseRecord
    <3> HIDE DEF u
    <3>3. c.filters = browse.filters
      BY <1>1, <2>1, <2>2 DEF IsLatest, BrowseInv, ReadsFit
    <3>4. ReadsFit(u)
      BY <1>2, <3>2, <3>3 DEF BrowseInv, ReadsFit
    <3>5. SameSheet(u, browse)
      BY <1>5, <3>1 DEF SameSheet
    <3>6. BrowseInv(AfterList(u, c.then))
      BY <1>1, <1>4, <3>1, <3>2, <3>4, <3>5, AfterListKeeps
    <3> QED
      BY <2>1, <2>2, <3>6
  <2>3. CASE ~IsLatest(c)
    BY <1>1, <1>4, <1>5, <1>6, <2>1, <2>3, AfterListKeeps
  <2> QED
    BY <2>2, <2>3
<1>8. CASE ListFails(c)
  <2> DEFINE silent == (c.aborted /\ c.stage = "products") \/ ~IsLatest(c)
             status == IF silent THEN b.status ELSE "failed"
             latest == IF IsLatest(c) THEN "failed" ELSE b.latest
             u == [b EXCEPT !.status = status, !.latest = latest]
  <2>1. browse' = AfterList(u, c.then)
    BY <1>3, <1>5, <1>8, ZenonT(60) DEF ListFails, IsLatest, BrowseRecord
  <2>2. /\ status \in {"loading", "found", "failed", "deleted"} /\ latest \in {"loading", "found", "failed"}
        /\ (status = "found" => b.status = "found") /\ (status = "failed" => latest = "failed" \/ (b.status = "failed" /\ latest = b.latest))
    BY <1>5, BrowseFields
  <2> HIDE DEF silent, status, latest
  <2>3. u \in BrowseRecord /\ SameSheet(u, b)
    BY <1>5, <2>2, Remarked
  <2>4. /\ u.calls = Pending /\ u.listed = b.listed /\ u.filters = b.filters /\ u.status = status /\ u.latest = latest
        /\ u.bar = browse.bar /\ u.selection = browse.selection /\ u.loadGeneration = b.loadGeneration
    BY <1>5 DEF BrowseRecord
  <2> HIDE DEF u
  <2>5. ReadsFit(u)
    BY <1>5, <1>6, <2>2, <2>4 DEF ReadsFit
  <2>6. SameSheet(u, browse)
    BY <1>5, <2>3 DEF SameSheet
  <2>7. BrowseInv(AfterList(u, c.then))
    BY <1>1, <1>4, <2>3, <2>4, <2>5, <2>6, AfterListKeeps
  <2> QED
    BY <2>1, <2>7
<1> QED
  BY <1>7, <1>8

--------------------------------------------------------------------------------
(* The answers other than those of the list.                                 *)

LEMMA TakenKeeps ==
  ASSUME BrowseInv(browse), NEW c \in browse.calls, c.kind # "list", NEW u \in BrowseRecord, u.calls = browse.calls \ {c},
         u.filters = browse.filters, u.listed = browse.listed, u.status = browse.status, u.latest = browse.latest,
         u.loadGeneration = browse.loadGeneration, u.selection = browse.selection, u.bar = browse.bar,
         FormFits(u), u.patient = browse.patient, u.unnamed = browse.unnamed, u.patient => DialogFits(u) /\ Settled(u)
  PROVE  BrowseInv(u)
<1>1. SameList(u, browse)
  BY DEF SameList
<1>2. u.patient => Awaited(u) = {} /\ ~browse.unnamed
  BY AnswerTaken DEF Plain
<1>3. PatientFits(u)
  BY <1>2 DEF PatientFits, AtRest
<1> QED
  BY <1>1, <1>3, QuietKeeps

LEMMA TakenReads ==
  ASSUME BrowseInv(browse), NEW c \in browse.calls, c.kind # "list", NEW u \in BrowseRecord, u.calls = browse.calls \ {c},
         u.loadGeneration = browse.loadGeneration, NEW then \in Thens, then \in {Nothing, [kind |-> "deleted"]},
         then = Nothing => u.selection = browse.selection /\ u.bar = browse.bar,
         FormFits(u), u.patient = browse.patient, u.unnamed = browse.unnamed,
         u.patient => DialogFits(u) /\ Settled(u) /\ u.dialog = Idle
  PROVE  BrowseInv(LoadProducts(u, then))
<1>1. ReadsBounded(u)
  BY BoundedNow DEF ReadsBounded
<1>2. BarFits(u) \/ then.kind = "deleted"
  BY DEF BrowseInv, BarFits
<1>3. u.patient => Awaited(u) = {} /\ ~browse.unnamed
  BY AnswerTaken DEF Plain
<1>4. ListRead(u, then).kind = "list" /\ ListRead(u, then).then = then
  BY ListReadIs
<1>5. u.patient => (then # Nothing => Expected(u, ListRead(u, then)))
  BY <1>4 DEF Expected
<1> QED
  BY <1>1, <1>2, <1>3, <1>5, LoadedIs, LoadedKeeps

LEMMA LessCalls ==
  ASSUME BrowseInv(browse), NEW c \in browse.calls
  PROVE  /\ browse \in BrowseRecord /\ browse.calls \ {c} \in SUBSET BrowseCalls /\ c \in BrowseCalls
         /\ FormFits(browse)
BY BrowseFields DEF BrowseInv

NothingIs == Nothing \in Thens /\ [kind |-> "deleted"] \in Thens

LEMMA NothingFollows == NothingIs
BY DEF NothingIs, Thens

LEMMA DetailComes == ASSUME BrowseInv(browse), NEW c \in browse.calls, DetailAnswered(c) PROVE BrowseInv(browse')
<1> DEFINE Pending == browse.calls \ {c}
           b == [browse EXCEPT !.calls = Pending, !.shown = c.product, !.form = c.product]
<1>1. browse \in BrowseRecord /\ Pending \in SUBSET BrowseCalls /\ c \in BrowseCalls
  BY LessCalls
<1>2. c.kind = "detail" /\ c.product \in Products /\ c.for \in {"sheet", "price"}
  BY <1>1, BrowseCallTypes DEF DetailAnswered
<1>3. RenderProductDetail([browse EXCEPT !.calls = @ \ {c}], c.product) = b
  BY <1>1 DEF RenderProductDetail, BrowseRecord
<1>4. Pending = browse.calls \ {c}
  OBVIOUS
<1>5. browse.patient => Expected(browse, c)
  BY <1>2, Turn DEF Plain
<1> HIDE DEF Pending
<1>6. b \in BrowseRecord
  BY <1>1, <1>2 DEF BrowseRecord
<1>7. /\ b.calls = Pending /\ b.shown = c.product /\ b.form = c.product /\ b.misplaced = browse.misplaced
      /\ b.filters = browse.filters /\ b.listed = browse.listed /\ b.status = browse.status /\ b.latest = browse.latest
      /\ b.loadGeneration = browse.loadGeneration /\ b.selection = browse.selection /\ b.bar = browse.bar
      /\ b.patient = browse.patient /\ b.unnamed = browse.unnamed /\ b.dialog = browse.dialog
      /\ b.view = browse.view /\ b.screen = browse.screen /\ b.route = browse.route
  BY <1>1 DEF BrowseRecord
<1> HIDE DEF b
<1>8. CASE c.for = "sheet"
  <2>1. browse' = b
    BY <1>3, <1>8 DEF DetailAnswered
  <2>2. FormFits(b)
    BY <1>7 DEF BrowseInv, FormFits
  <2>3. b.patient => DialogFits(b) /\ Settled(b)
    BY <1>2, <1>5, <1>7, <1>8 DEF Expected, DialogFits, Settled, Idle
  <2> QED
    BY <1>2, <1>4, <1>6, <1>7, <2>1, <2>2, <2>3, TakenKeeps
<1>9. CASE c.for # "sheet"
  <2> DEFINE Dialog == IF b.dialog = "price" THEN Idle ELSE b.dialog
             Busy == b.busy \ {"price"}
             u == [b EXCEPT !.dialog = Dialog, !.busy = Busy]
  <2>1. browse' = LoadProducts(u, Nothing)
    BY <1>3, <1>6, <1>9 DEF DetailAnswered, BrowseRecord
  <2>2. Dialog \in {Idle, "delete", "price"} /\ Busy \in SUBSET {"save", "relation", "price"}
    BY <1>6, BrowseFields
  <2>3. browse.patient => Dialog = Idle
    BY <1>2, <1>5, <1>7, <1>9 DEF Expected
  <2> HIDE DEF Dialog, Busy
  <2>4. u \in BrowseRecord
    BY <1>6, <2>2, ZenonT(60) DEF BrowseRecord
  <2>5. /\ u.calls = b.calls /\ u.shown = b.shown /\ u.form = b.form /\ u.misplaced = b.misplaced
        /\ u.loadGeneration = b.loadGeneration /\ u.selection = b.selection /\ u.bar = b.bar
        /\ u.patient = b.patient /\ u.unnamed = b.unnamed /\ u.dialog = Dialog
        /\ u.view = b.view /\ u.screen = b.screen /\ u.route = b.route
    BY <1>6 DEF BrowseRecord
  <2> HIDE DEF u
  <2>6. FormFits(u)
    BY <1>7, <2>5 DEF BrowseInv, FormFits
  <2>7. u.patient => DialogFits(u) /\ Settled(u) /\ u.dialog = Idle
    BY <1>2, <1>5, <1>7, <1>9, <2>3, <2>5 DEF Expected, DialogFits, Settled, Idle
  <2>8. BrowseInv(LoadProducts(u, Nothing))
    BY <1>2, <1>4, <1>7, <2>4, <2>5, <2>6, <2>7, TakenReads, NothingFollows DEF NothingIs
  <2> QED
    BY <2>1, <2>8
<1> QED
  BY <1>8, <1>9

LEMMA DetailLost == ASSUME BrowseInv(browse), NEW c \in browse.calls, DetailFails(c) PROVE BrowseInv(browse')
<1> DEFINE Pending == browse.calls \ {c}
           Busy == browse.busy \ {"price"}
           u == [browse EXCEPT !.calls = Pending, !.shown = NoProduct]
           v == [browse EXCEPT !.calls = Pending, !.busy = Busy]
<1>1. browse \in BrowseRecord /\ Pending \in SUBSET BrowseCalls /\ c \in BrowseCalls /\ Busy \in SUBSET {"save", "relation", "price"}
  BY LessCalls, BrowseFields
<1>2. c.kind = "detail" /\ c.for \in {"sheet", "price"}
  BY <1>1, BrowseCallTypes DEF DetailFails
<1>3. browse' = IF c.for = "sheet" THEN u ELSE v
  BY <1>1 DEF DetailFails, BrowseRecord
<1>4. Pending = browse.calls \ {c}
  OBVIOUS
<1>5. browse.patient => Expected(browse, c) /\ DialogFits(browse)
  BY <1>2, Turn DEF Plain
<1> HIDE DEF Pending, Busy
<1>6. u \in BrowseRecord /\ v \in BrowseRecord
  BY <1>1, ZenonT(60) DEF BrowseRecord
<1>7. CASE c.for = "sheet"
  <2>1. /\ u.calls = Pending /\ u.shown = NoProduct /\ u.misplaced = browse.misplaced
        /\ u.filters = browse.filters /\ u.listed = browse.listed /\ u.status = browse.status /\ u.latest = browse.latest
        /\ u.loadGeneration = browse.loadGeneration /\ u.selection = browse.selection /\ u.bar = browse.bar
        /\ u.patient = browse.patient /\ u.unnamed = browse.unnamed /\ u.dialog = browse.dialog
        /\ u.view = browse.view /\ u.screen = browse.screen /\ u.route = browse.route
    BY <1>1 DEF BrowseRecord
  <2> HIDE DEF u
  <2>2. FormFits(u)
    BY <2>1 DEF BrowseInv, FormFits
  <2>3. u.patient => DialogFits(u) /\ Settled(u)
    BY <1>2, <1>5, <1>7, <2>1 DEF Expected, DialogFits, Settled, Idle
  <2>4. BrowseInv(u)
    BY <1>2, <1>4, <1>6, <2>1, <2>2, <2>3, TakenKeeps
  <2> QED
    BY <1>3, <1>7, <2>4
<1>8. CASE c.for # "sheet"
  <2>1. /\ v.calls = Pending /\ v.shown = browse.shown /\ v.form = browse.form /\ v.misplaced = browse.misplaced
        /\ v.filters = browse.filters /\ v.listed = browse.listed /\ v.status = browse.status /\ v.latest = browse.latest
        /\ v.loadGeneration = browse.loadGeneration /\ v.selection = browse.selection /\ v.bar = browse.bar
        /\ v.patient = browse.patient /\ v.unnamed = browse.unnamed /\ v.dialog = browse.dialog
        /\ v.view = browse.view /\ v.screen = browse.screen /\ v.route = browse.route
        /\ v.priced = browse.priced /\ v.bulk = browse.bulk /\ v.named = browse.named /\ v.confirm = browse.confirm
        /\ v.checked = browse.checked
    BY <1>1 DEF BrowseRecord
  <2> HIDE DEF v
  <2>2. FormFits(v)
    BY <2>1 DEF BrowseInv, FormFits
  <2>3. v.patient => DialogFits(v) /\ Settled(v)
    BY <1>2, <1>5, <1>8, <2>1 DEF Expected, DialogFits, Doomed, Settled
  <2>4. BrowseInv(v)
    BY <1>2, <1>4, <1>6, <2>1, <2>2, <2>3, TakenKeeps
  <2> QED
    BY <1>3, <1>8, <2>4
<1> QED
  BY <1>7, <1>8

LEMMA PriceKept == ASSUME BrowseInv(browse), NEW c \in browse.calls, PriceSaved(c) PROVE BrowseInv(browse')
<1> DEFINE d == DetailCall(c.product, "price")
           Pending == (browse.calls \ {c}) \cup {d}
           u == [browse EXCEPT !.calls = Pending]
<1>1. browse \in BrowseRecord /\ browse.calls \ {c} \in SUBSET BrowseCalls /\ c \in BrowseCalls
  BY LessCalls
<1>2. c.kind = "price" /\ c.product \in Products
  BY <1>1, BrowseCallTypes DEF PriceSaved
<1>3. browse' = u
  BY <1>1 DEF PriceSaved, FetchProductDetail, DetailCall, BrowseRecord
<1>4. d \in BrowseCalls /\ d.kind = "detail" /\ d.product = c.product /\ d.for = "price" /\ ~Plain(d)
  BY <1>2 DEF DetailCall, BrowseCalls, Plain
<1> HIDE DEF d
<1>5. Pending \in SUBSET BrowseCalls /\ d \in Pending /\ \A e : e.kind = "list" => (e \in Pending <=> e \in browse.calls)
  BY <1>1, <1>2, <1>4
<1>6. {e \in Pending : ~Plain(e)} = (Awaited(browse) \ {c}) \cup {d}
  BY <1>4 DEF Awaited
<1>7. browse.patient => Awaited(browse) = {c} /\ Expected(browse, c) /\ DialogFits(browse) /\ ~browse.unnamed
  BY <1>2, Turn DEF Plain
<1> HIDE DEF Pending
<1>8. u \in BrowseRecord /\ SameSheet(u, browse) /\ SameList(u, browse) /\ u.calls = Pending
  BY <1>1, <1>5 DEF SameSheet, SameList, BrowseRecord
<1> HIDE DEF u
<1>9. FormFits(u)
  BY <1>8, SameSheetKeeps DEF BrowseInv
<1>10. PatientFits(u)
  <2> SUFFICES ASSUME u.patient PROVE ~u.unnamed /\ DialogFits(u) /\ Waiting(u)
    BY DEF PatientFits
  <2>1. browse.patient /\ ~u.unnamed /\ DialogFits(u)
    BY <1>7, <1>8, SameSheetKeeps DEF SameSheet
  <2>2. Awaited(u) = {d}
    BY <1>6, <1>7, <1>8, <2>1 DEF Awaited
  <2>3. Expected(browse, d)
    BY <1>2, <1>4, <1>7, <2>1 DEF Expected
  <2> QED
    BY <1>5, <1>8, <2>1, <2>2, <2>3, SameSheetKeeps DEF Waiting
<1> QED
  BY <1>3, <1>8, <1>9, <1>10, QuietKeeps

\* The sheet shows what was saved, and the list is read again.
LEMMA SheetSaved ==
  ASSUME BrowseInv(browse), NEW c \in browse.calls, c.kind \in {"save", "relation"}, NEW p \in Products,
         NEW route \in BrowseRoutes, NEW pressed \in {"save", "relation"},
         IF c.kind = "save" THEN route = p ELSE route = browse.route /\ p = c.product,
         NEW u, u = [browse EXCEPT !.calls = @ \ {c}, !.shown = p, !.form = p, !.busy = @ \ {pressed}, !.route = route]
  PROVE  BrowseInv(LoadProducts(u, Nothing))
<1> DEFINE Pending == browse.calls \ {c}
           Busy == browse.busy \ {pressed}
           v == [browse EXCEPT !.calls = Pending, !.shown = p, !.form = p, !.busy = Busy, !.route = route]
<1>1. browse \in BrowseRecord /\ Pending \in SUBSET BrowseCalls /\ c \in BrowseCalls /\ Busy \in SUBSET {"save", "relation", "price"}
  BY LessCalls, BrowseFields
<1>2. u = v
  BY <1>1 DEF BrowseRecord
<1>3. browse.patient => Expected(browse, c)
  BY Turn DEF Plain
<1>4. Pending = browse.calls \ {c}
  OBVIOUS
<1> HIDE DEF Pending, Busy
<1>5. v \in BrowseRecord
  BY <1>1 DEF BrowseRecord
<1>6. /\ v.calls = Pending /\ v.shown = p /\ v.form = p /\ v.misplaced = browse.misplaced
      /\ v.loadGeneration = browse.loadGeneration /\ v.selection = browse.selection /\ v.bar = browse.bar
      /\ v.patient = browse.patient /\ v.unnamed = browse.unnamed /\ v.dialog = browse.dialog
      /\ v.view = browse.view /\ v.screen = browse.screen /\ v.route = route
  BY <1>1 DEF BrowseRecord
<1> HIDE DEF v
<1>7. FormFits(v)
  BY <1>6 DEF BrowseInv, FormFits
<1>8. v.patient => DialogFits(v) /\ Settled(v) /\ v.dialog = Idle
  <2>1. CASE c.kind = "save"
    BY <1>3, <1>6, <2>1 DEF Expected, DialogFits, Settled, Idle
  <2>2. CASE c.kind = "relation"
    BY <1>3, <1>6, <2>2 DEF Expected, DialogFits, Settled, Idle
  <2> QED
    BY <2>1, <2>2
<1>9. BrowseInv(LoadProducts(v, Nothing))
  BY <1>4, <1>5, <1>6, <1>7, <1>8, TakenReads, NothingFollows DEF NothingIs
<1> QED
  BY <1>2, <1>9

LEMMA ProductKept == ASSUME BrowseInv(browse), NEW c \in browse.calls, ProductSaved(c) \/ RelationSaved(c) PROVE BrowseInv(browse')
<1>1. browse \in BrowseRecord /\ c \in BrowseCalls /\ browse.route \in BrowseRoutes
  BY LessCalls, BrowseFields
<1>2. CASE ProductSaved(c)
  <2>1. c.kind = "save" /\ c.product \in Products \cup {NoProduct}
    BY <1>1, <1>2, BrowseCallTypes DEF ProductSaved
  <2>2. PICK p \in IF c.product = NoProduct THEN Products ELSE {c.product} :
          browse' = LoadProducts([RenderProductDetail([browse EXCEPT !.calls = @ \ {c}], p)
                                    EXCEPT !.busy = @ \ {"save"}, !.route = p], Nothing)
    BY <1>2 DEF ProductSaved
  <2> DEFINE u == [browse EXCEPT !.calls = @ \ {c}, !.shown = p, !.form = p, !.busy = @ \ {"save"}, !.route = p]
  <2>3. p \in Products /\ p \in BrowseRoutes
    BY <2>1, <2>2 DEF BrowseRoutes
  <2>4. [RenderProductDetail([browse EXCEPT !.calls = @ \ {c}], p) EXCEPT !.busy = @ \ {"save"}, !.route = p] = u
    BY <1>1 DEF RenderProductDetail, BrowseRecord
  <2>5. BrowseInv(LoadProducts(u, Nothing))
    BY <2>1, <2>3, SheetSaved
  <2> QED
    BY <2>2, <2>4, <2>5
<1>3. CASE RelationSaved(c)
  <2>1. c.kind = "relation" /\ c.product \in Products
    BY <1>1, <1>3, BrowseCallTypes DEF RelationSaved
  <2>2. browse' = LoadProducts([RenderProductDetail([browse EXCEPT !.calls = @ \ {c}], c.product) EXCEPT !.busy = @ \ {"relation"}], Nothing)
    BY <1>3 DEF RelationSaved
  <2> DEFINE u == [browse EXCEPT !.calls = @ \ {c}, !.shown = c.product, !.form = c.product, !.busy = @ \ {"relation"}, !.route = browse.route]
  <2>3. [RenderProductDetail([browse EXCEPT !.calls = @ \ {c}], c.product) EXCEPT !.busy = @ \ {"relation"}] = u
    BY <1>1, ZenonT(60) DEF RenderProductDetail, BrowseRecord
  <2>4. BrowseInv(LoadProducts(u, Nothing))
    BY <1>1, <2>1, SheetSaved
  <2> QED
    BY <2>2, <2>3, <2>4
<1> QED
  BY <1>2, <1>3

LEMMA BrowseCallFailed == ASSUME BrowseInv(browse), NEW c \in browse.calls, CallFails(c) PROVE BrowseInv(browse')
<1> DEFINE Pending == browse.calls \ {c}
           Busy == browse.busy \ {Button[c.kind]}
           on == browse.confirm \/ c.kind = "delete"
           u == [browse EXCEPT !.calls = Pending, !.busy = Busy, !.confirm = on]
<1>1. /\ browse \in BrowseRecord /\ Pending \in SUBSET BrowseCalls /\ c \in BrowseCalls
      /\ Busy \in SUBSET {"save", "relation", "price"} /\ on \in BOOLEAN
  BY LessCalls, BrowseFields
<1>2. c.kind \in {"save", "relation", "price", "delete", "impact"}
  BY DEF CallFails, Button
<1>3. browse' = u
  BY <1>1 DEF CallFails, BrowseRecord
<1>4. Pending = browse.calls \ {c} /\ (on <=> browse.confirm \/ c.kind = "delete")
  OBVIOUS
<1>5. browse.patient => Expected(browse, c) /\ DialogFits(browse)
  BY <1>2, Turn DEF Plain
<1> HIDE DEF Pending, Busy, on
<1>6. u \in BrowseRecord
  BY <1>1, ZenonT(60) DEF BrowseRecord
<1>7. /\ u.calls = Pending /\ u.shown = browse.shown /\ u.form = browse.form /\ u.misplaced = browse.misplaced
      /\ u.filters = browse.filters /\ u.listed = browse.listed /\ u.status = browse.status /\ u.latest = browse.latest
      /\ u.loadGeneration = browse.loadGeneration /\ u.selection = browse.selection /\ u.bar = browse.bar
      /\ u.patient = browse.patient /\ u.unnamed = browse.unnamed /\ u.dialog = browse.dialog
      /\ u.view = browse.view /\ u.screen = browse.screen /\ u.route = browse.route
      /\ u.priced = browse.priced /\ u.bulk = browse.bulk /\ u.named = browse.named /\ u.confirm = on
      /\ u.checked = browse.checked
  BY <1>1 DEF BrowseRecord
<1> HIDE DEF u
<1>8. FormFits(u)
  BY <1>7 DEF BrowseInv, FormFits
<1>9. u.patient => DialogFits(u) /\ Settled(u)
  <2> SUFFICES ASSUME u.patient PROVE DialogFits(u) /\ Settled(u)
    OBVIOUS
  <2>1. Expected(browse, c) /\ DialogFits(browse)
    BY <1>5, <1>7
  <2>2. Settled(u)
    BY <1>2, <1>7, <2>1 DEF Expected, Settled
  <2>3. c.kind = "delete" /\ browse.dialog = "delete" => browse.checked = browse.named
    BY <2>1 DEF Expected
  <2> QED
    BY <1>4, <1>7, <2>1, <2>2, <2>3 DEF DialogFits, Doomed
<1>10. BrowseInv(u)
  BY <1>2, <1>4, <1>6, <1>7, <1>8, <1>9, TakenKeeps
<1> QED
  BY <1>3, <1>10

LEMMA ImpactComes ==
  ASSUME BrowseInv(browse), NEW c \in browse.calls, NEW can \in BOOLEAN, ImpactAnswered(c, can)
  PROVE  BrowseInv(browse')
<1> DEFINE Pending == browse.calls \ {c}
           Checked == IF can THEN c.of ELSE browse.checked
           on == can \/ (c.bulk /\ browse.confirm)
           u == [browse EXCEPT !.calls = Pending, !.checked = Checked, !.confirm = on]
<1>1. browse \in BrowseRecord /\ Pending \in SUBSET BrowseCalls /\ c \in BrowseCalls
  BY LessCalls
<1>2. c.kind = "impact" /\ c.of \in SUBSET Products /\ c.bulk \in BOOLEAN
  BY <1>1, BrowseCallTypes DEF ImpactAnswered
<1>3. Checked \in SUBSET Products /\ on \in BOOLEAN
  BY <1>1, <1>2, BrowseFields
<1>4. browse' = u
  BY <1>1 DEF ImpactAnswered, BrowseRecord
<1>5. /\ Pending = browse.calls \ {c} /\ (on <=> can \/ (c.bulk /\ browse.confirm))
      /\ Checked = IF can THEN c.of ELSE browse.checked
  OBVIOUS
<1>6. browse.patient => Expected(browse, c) /\ DialogFits(browse)
  BY <1>2, Turn DEF Plain
<1> HIDE DEF Pending, Checked, on
<1>7. u \in BrowseRecord
  BY <1>1, <1>3 DEF BrowseRecord
<1>8. /\ u.calls = Pending /\ u.shown = browse.shown /\ u.form = browse.form /\ u.misplaced = browse.misplaced
      /\ u.filters = browse.filters /\ u.listed = browse.listed /\ u.status = browse.status /\ u.latest = browse.latest
      /\ u.loadGeneration = browse.loadGeneration /\ u.selection = browse.selection /\ u.bar = browse.bar
      /\ u.patient = browse.patient /\ u.unnamed = browse.unnamed /\ u.dialog = browse.dialog
      /\ u.view = browse.view /\ u.screen = browse.screen /\ u.route = browse.route
      /\ u.priced = browse.priced /\ u.bulk = browse.bulk /\ u.named = browse.named /\ u.confirm = on
      /\ u.checked = Checked
  BY <1>1 DEF BrowseRecord
<1> HIDE DEF u
<1>9. FormFits(u)
  BY <1>8 DEF BrowseInv, FormFits
<1>10. u.patient => DialogFits(u) /\ Settled(u)
  <2> SUFFICES ASSUME u.patient PROVE DialogFits(u) /\ Settled(u)
    OBVIOUS
  <2>1. Expected(browse, c) /\ DialogFits(browse)
    BY <1>6, <1>8
  <2>2. Settled(u)
    BY <1>2, <1>8, <2>1 DEF Expected, Settled
  <2>3. browse.dialog = "delete" => c.of = browse.named /\ ~browse.confirm
    BY <1>2, <2>1 DEF Expected
  <2> QED
    BY <1>5, <1>8, <2>1, <2>2, <2>3 DEF DialogFits, Doomed
<1>11. BrowseInv(u)
  BY <1>2, <1>5, <1>7, <1>8, <1>9, <1>10, TakenKeeps
<1> QED
  BY <1>4, <1>11

LEMMA ProductsGone == ASSUME BrowseInv(browse), NEW c \in browse.calls, ProductsDeleted(c) PROVE BrowseInv(browse')
<1> DEFINE Pending == browse.calls \ {c}
           Dialog == IF browse.dialog = "delete" THEN Idle ELSE browse.dialog
           Left == browse.selection \ c.of
           Nobody == {}
           then == [kind |-> "deleted"]
           b == [browse EXCEPT !.calls = Pending, !.dialog = Dialog, !.confirm = TRUE]
           u == [browse EXCEPT !.calls = Pending, !.dialog = Dialog, !.confirm = TRUE, !.selection = Left, !.bulk = Nobody]
           v == [browse EXCEPT !.calls = Pending, !.dialog = Dialog, !.confirm = TRUE, !.screen = "list", !.shown = NoProduct,
                               !.route = PlainList]
<1>1. browse \in BrowseRecord /\ Pending \in SUBSET BrowseCalls /\ c \in BrowseCalls
  BY LessCalls
<1>2. c.kind = "delete" /\ c.of \in SUBSET Products /\ c.bulk \in BOOLEAN
  BY <1>1, BrowseCallTypes DEF ProductsDeleted
<1>3. /\ Dialog \in {Idle, "delete", "price"} /\ Left \in SUBSET Products /\ Nobody \in SUBSET Products
      /\ PlainList \in BrowseRoutes
  BY <1>1, BrowseFields DEF BrowseRoutes
<1>4. browse' = IF c.bulk THEN LoadProducts(u, then) ELSE LoadProducts(v, then)
  <2>1. browse' = IF c.bulk THEN LoadProducts([b EXCEPT !.selection = @ \ c.of, !.bulk = {}], then)
                  ELSE LoadProducts([ShowProductListScreen(b) EXCEPT !.route = PlainList], then)
    BY DEF ProductsDeleted
  <2>2. [b EXCEPT !.selection = @ \ c.of, !.bulk = {}] = u
    BY <1>1 DEF BrowseRecord
  <2>3. [ShowProductListScreen(b) EXCEPT !.route = PlainList] = v
    BY <1>1 DEF ShowProductListScreen, BrowseRecord
  <2> HIDE DEF b, u, v, then
  <2> QED
    BY <2>1, <2>2, <2>3
<1>5. Pending = browse.calls \ {c} /\ Dialog = (IF browse.dialog = "delete" THEN Idle ELSE browse.dialog)
  OBVIOUS
<1>6. browse.patient => Settled(browse) /\ Dialog = Idle
  BY <1>2, Turn DEF Plain, Expected
<1>7. then \in Thens /\ then \in {Nothing, [kind |-> "deleted"]} /\ then # Nothing
  BY NothingFollows DEF NothingIs, Nothing, Idle
<1> HIDE DEF Pending, Dialog, Left, Nobody, then
<1>8. u \in BrowseRecord /\ v \in BrowseRecord
  BY <1>1, <1>3, ZenonT(60) DEF BrowseRecord
<1>9. CASE c.bulk
  <2>1. /\ u.calls = Pending /\ u.shown = browse.shown /\ u.form = browse.form /\ u.misplaced = browse.misplaced
        /\ u.loadGeneration = browse.loadGeneration
        /\ u.patient = browse.patient /\ u.unnamed = browse.unnamed /\ u.dialog = Dialog
        /\ u.view = browse.view /\ u.screen = browse.screen /\ u.route = browse.route
    BY <1>1 DEF BrowseRecord
  <2> HIDE DEF u
  <2>2. FormFits(u)
    BY <2>1 DEF BrowseInv, FormFits
  <2>3. u.patient => DialogFits(u) /\ Settled(u) /\ u.dialog = Idle
    BY <1>6, <2>1 DEF DialogFits, Settled, Idle
  <2>4. BrowseInv(LoadProducts(u, then))
    BY <1>2, <1>5, <1>7, <1>8, <2>1, <2>2, <2>3, TakenReads
  <2> QED
    BY <1>4, <1>9, <2>4
<1>10. CASE ~c.bulk
  <2>1. /\ v.calls = Pending /\ v.shown = NoProduct /\ v.misplaced = browse.misplaced
        /\ v.loadGeneration = browse.loadGeneration
        /\ v.patient = browse.patient /\ v.unnamed = browse.unnamed /\ v.dialog = Dialog
        /\ v.screen = "list" /\ v.route = PlainList
    BY <1>1 DEF BrowseRecord
  <2> HIDE DEF v
  <2>2. FormFits(v)
    BY <2>1 DEF BrowseInv, FormFits
  <2>3. v.patient => DialogFits(v) /\ Settled(v) /\ v.dialog = Idle
    BY <1>6, <2>1 DEF DialogFits, Settled, Idle
  <2>4. BrowseInv(LoadProducts(v, then))
    BY <1>2, <1>5, <1>7, <1>8, <2>1, <2>2, <2>3, TakenReads
  <2> QED
    BY <1>4, <1>10, <2>4
<1> QED
  BY <1>9, <1>10

LEMMA BrowseSteps == ASSUME BrowseInv(browse), [BrowseNext]_browse PROVE BrowseInv(browse')
<1>1. CASE UNCHANGED browse
  BY <1>1
<1>2. ASSUME NEW c \in browse.calls, Answer(c) PROVE BrowseInv(browse')
  BY <1>2, MetadataComes, ListComes, DetailComes, DetailLost, PriceKept, ProductKept, BrowseCallFailed, ImpactComes,
     ProductsGone DEF Answer
<1>3. CASE BrowseNext
  BY <1>2, <1>3, ChangingFilters, Activating, ClosingDetail, Leaving, ClickingProduct, ClickingNewProduct, Selecting,
     SavingProduct, SavingRelation, OpeningPrice, SavingPrice, AskingForProducts, ClosingDialog, ConfirmingProducts
     DEF BrowseNext
<1> QED
  BY <1>1, <1>3

LEMMA BrowseInvIsSound == BrowseInv(browse) => BrowseSound
<1> SUFFICES ASSUME BrowseInv(browse) PROVE BrowseSound
  OBVIOUS
<1>1. ListIsOfItsFilters
  BY DEF ListIsOfItsFilters, BrowseInv, ReadsFit
<1>2. FormIsOfItsProduct
  BY DEF FormIsOfItsProduct, BrowseInv, FormFits
<1>3. BarTellsSelection
  BY DEF BarTellsSelection, BrowseInv, BarFits
<1>4. WaitingUserIsServed
  <2> SUFFICES ASSUME browse.patient PROVE WaitingUserIsServed
    BY DEF WaitingUserIsServed
  <2>1. ~browse.unnamed /\ DialogFits(browse) /\ (AtRest(browse) \/ Waiting(browse)) /\ browse.screen \in {"list", "detail"}
    BY BrowseFields DEF BrowseInv, PatientFits
  <2>2. browse.calls = {} => Settled(browse)
    BY <2>1 DEF AtRest, Waiting
  <2> QED
    BY <2>1, <2>2 DEF WaitingUserIsServed, DialogFits, Settled
<1> QED
  BY <1>1, <1>2, <1>3, <1>4 DEF BrowseSound

\* The list of the catalogue is that of its filters, a form goes to the product it was filled
\* from, the bar counts the selection, and a user who waits for the answers deletes and prices
\* what the dialog named (loadProducts, renderProductDetail, openProductDeleteDialog).
THEOREM CatalogListIsSound == BrowseSpec => []BrowseSound
<1> DEFINE Inv == BrowseInv(browse)
<1>1. BrowseInit => Inv
  BY BrowseInitially
<1>2. Inv /\ [BrowseNext]_browse => Inv'
  BY BrowseSteps
<1>3. Inv => BrowseSound
  BY BrowseInvIsSound
<1> HIDE DEF Inv
<1> QED
  BY <1>1, <1>2, <1>3, PTL DEF BrowseSpec

\* The lines of a ticket and the calls of the screen.
TextsOfLines == (Tickets \cup {NoTicket}) \X Nat
LineTotals   == LinePrices \cup {"stored"}
TicketLines  ==
  [of : Tickets \cup {NoTicket}, line : Nat, text : TextsOfLines, price : LineTotals, total : LineTotals]
HistoryCalls ==
  [kind : {"list"}, stage : {"metadata", "tickets"}, generation : Nat, filters : TicketFilters, aborted : BOOLEAN,
   opens : Tickets \cup {OpenNone}]
    \cup [kind : {"open"}, ticket : Tickets, writes : BOOLEAN]
    \cup [kind : {"save"}, ticket : Tickets, items : Seq(TicketLines)]
    \cup [kind : {"line"}, generation : Nat, price : LineTotals, saves : BOOLEAN, text : TextsOfLines]
    \cup [kind : {"impact"}, of : SUBSET Tickets]
    \cup [kind : {"delete"}, of : SUBSET Tickets, bulk : BOOLEAN]

HistoryRoutes  == Tickets \cup {TicketList, Away}
EditorStates   == {"idle", "loading", "saved", "saving", "unsaved", "review", "error"}
HistoryRecord  ==
  [view : {"tickets", "other"}, screen : {"list", "detail"}, route : HistoryRoutes, filters : TicketFilters,
   listed : TicketFilters, status : {"loading", "found", "failed"}, latest : {"loading", "found", "failed"},
   loadGeneration : Nat, ticket : Tickets \cup {NoTicket}, editorItems : Seq(TicketLines), editor : EditorStates,
   stored : [Tickets -> Seq(TicketLines)], existing : SUBSET Tickets, selection : SUBSET Tickets,
   dialog : {"none", "line", "delete"}, named : SUBSET Tickets, ticketId : Tickets \cup {NoTicket},
   bulkDeleteIds : SUBSET Tickets, confirm : BOOLEAN, known : SUBSET Tickets, lineIndex : Nat, text : TextsOfLines,
   price : LineTotals, total : LineTotals \cup {"unknown"}, timer : BOOLEAN, calculation : Nat,
   busy : SUBSET {"ticket", "line"}, calls : SUBSET HistoryCalls, acts : Nat, waits : BOOLEAN, opened : BOOLEAN,
   unnamed : BOOLEAN, unseen : BOOLEAN]

\* The load that counts is that of the filters over the rows.
LoadsFit(h) ==
  /\ \A c \in h.calls : c.kind = "list" =>
       /\ c.generation <= h.loadGeneration
       /\ c.stage = "tickets" /\ c.generation = h.loadGeneration => c.filters = h.filters
  /\ h.status = "found" => h.listed = h.filters
  /\ h.status = "failed" => h.latest = "failed"

\* What the button of the dialog deletes is what the dialog names.
NamesFit(h) == ~h.unnamed /\ (h.dialog = "delete" => DoomedTickets(h) = h.named)

Priced(items) == \A i \in DOMAIN items : items[i].price = items[i].total

PricesFit(h) ==
  /\ Priced(h.editorItems)
  /\ \A t \in Tickets : Priced(h.stored[t])
  /\ \A c \in h.calls : c.kind = "save" => Priced(c.items)

Own(items, t) == \A i \in DOMAIN items : items[i].of = t /\ items[i].text = <<t, items[i].line>>

LinesFit(h) == Own(h.editorItems, h.ticket) /\ \A t \in Tickets : Own(h.stored[t], t)

\* The calculation that counts is that of the dialog, and of the price in it.
Counts(h, c) == c.kind = "line" /\ c.generation = h.calculation

CalculationFits(h) ==
  /\ \A c \in h.calls : c.kind = "line" =>
       c.generation <= h.calculation /\ (h.timer => c.generation < h.calculation) /\ h.dialog # "delete"
  /\ \A c \in h.calls : Counts(h, c) =>
       h.dialog = "line" /\ c.price = h.price /\ c.text = h.text /\ \A d \in h.calls : Counts(h, d) => d = c
  /\ h.timer => h.dialog = "line"
  /\ h.dialog = "line" =>
       /\ h.timer \/ h.total \in {h.price, "unknown"} \/ \E c \in h.calls : Counts(h, c)
       /\ IF h.lineIndex \in DOMAIN h.editorItems THEN h.text = h.editorItems[h.lineIndex].text
          ELSE h.text = <<h.ticket, NewLine>>

\* The dialog of a deletion knows the impact of what it names, and is over the list or the ticket.
DeletionFits(h) ==
  h.dialog = "delete" =>
    /\ h.confirm => h.known = h.named
    /\ h.screen = "list" \/ (h.bulkDeleteIds = {} /\ h.ticketId = h.ticket)

\* The sheet is the ticket of the address, and says it is saved when it is.
Placed(h) ==
  h.view = "tickets" /\ h.screen = "detail" =>
    /\ h.opened => h.ticket = h.route /\ h.ticket \in h.existing
    /\ h.editor = "saved" => h.ticket \in Tickets /\ h.editorItems = h.stored[h.ticket]

\* The answer a waiting user waits for belongs to the sheet it comes to.
TicketDue(h, c) ==
  /\ c.kind # "line"
  /\ c.kind = "list" => h.route = c.opens /\ h.screen = "list" /\ h.dialog = "none"
  /\ c.kind = "open" => h.screen = "detail" /\ h.editor = "loading" /\ h.dialog = "none" /\ (c.writes \/ h.route = c.ticket)
  /\ c.kind = "save" => Placed(h) /\ h.dialog = "none" /\ c.ticket = h.ticket /\ Own(c.items, c.ticket)
  /\ c.kind = "impact" => Placed(h) /\ h.dialog = "delete" /\ ~h.confirm /\ c.of = h.named
  /\ c.kind = "delete" => /\ Placed(h) /\ h.dialog = "delete" /\ ~h.confirm /\ c.of = h.named /\ h.known = h.named
                          /\ (c.bulk <=> h.bulkDeleteIds # {})

\* A load of the list that nothing waits for.
PlainLoad(c) == c.kind = "list" /\ c.opens = OpenNone

Due(h) == {c \in h.calls : ~PlainLoad(c)}

NothingDue(h) == Placed(h) /\ \A c \in Due(h) : c.kind = "line"
OneDue(h)     == \E c \in h.calls : Due(h) = {c} /\ TicketDue(h, c)

WaitsFit(h) ==
  h.waits => ~h.unseen /\ LinesFit(h) /\ CalculationFits(h) /\ DeletionFits(h) /\ (NothingDue(h) \/ OneDue(h))

HistoryInv(h) == h \in HistoryRecord /\ LoadsFit(h) /\ NamesFit(h) /\ PricesFit(h) /\ WaitsFit(h)

LEMMA HistoryFields ==
  ASSUME NEW h \in HistoryRecord
  PROVE  /\ h.view \in {"tickets", "other"} /\ h.screen \in {"list", "detail"} /\ h.route \in HistoryRoutes
         /\ h.filters \in TicketFilters /\ h.listed \in TicketFilters
         /\ h.status \in {"loading", "found", "failed"} /\ h.latest \in {"loading", "found", "failed"}
         /\ h.loadGeneration \in Nat /\ h.ticket \in Tickets \cup {NoTicket} /\ h.editorItems \in Seq(TicketLines)
         /\ h.editor \in EditorStates /\ h.stored \in [Tickets -> Seq(TicketLines)] /\ h.existing \in SUBSET Tickets
         /\ h.selection \in SUBSET Tickets /\ h.dialog \in {"none", "line", "delete"} /\ h.named \in SUBSET Tickets
         /\ h.ticketId \in Tickets \cup {NoTicket} /\ h.bulkDeleteIds \in SUBSET Tickets /\ h.confirm \in BOOLEAN
         /\ h.known \in SUBSET Tickets /\ h.lineIndex \in Nat /\ h.text \in TextsOfLines /\ h.price \in LineTotals
         /\ h.total \in LineTotals \cup {"unknown"} /\ h.timer \in BOOLEAN /\ h.calculation \in Nat
         /\ h.busy \in SUBSET {"ticket", "line"} /\ h.calls \in SUBSET HistoryCalls /\ h.acts \in Nat
         /\ h.waits \in BOOLEAN /\ h.opened \in BOOLEAN /\ h.unnamed \in BOOLEAN /\ h.unseen \in BOOLEAN
BY DEF HistoryRecord

LEMMA HistoryCallTypes ==
  ASSUME NEW c \in HistoryCalls
  PROVE  /\ c.kind \in {"list", "open", "save", "line", "impact", "delete"}
         /\ c.kind = "list" => /\ c.stage \in {"metadata", "tickets"} /\ c.generation \in Nat /\ c.filters \in TicketFilters
                              /\ c.aborted \in BOOLEAN /\ c.opens \in Tickets \cup {OpenNone}
         /\ c.kind = "open" => c.ticket \in Tickets /\ c.writes \in BOOLEAN
         /\ c.kind = "save" => c.ticket \in Tickets /\ c.items \in Seq(TicketLines)
         /\ c.kind = "line" => /\ c.generation \in Nat /\ c.price \in LineTotals /\ c.saves \in BOOLEAN
                              /\ c.text \in TextsOfLines
         /\ c.kind = "impact" => c.of \in SUBSET Tickets
         /\ c.kind = "delete" => c.of \in SUBSET Tickets /\ c.bulk \in BOOLEAN
BY DEF HistoryCalls

LEMMA LineFields ==
  ASSUME NEW l \in TicketLines
  PROVE  /\ l.of \in Tickets \cup {NoTicket} /\ l.line \in Nat /\ l.text \in TextsOfLines
         /\ l.price \in LineTotals /\ l.total \in LineTotals
BY DEF TicketLines

\* The parts of a screen that a step leaves alone.
SameRows(u, b)        ==
  /\ u.filters = b.filters /\ u.listed = b.listed /\ u.status = b.status /\ u.latest = b.latest
  /\ u.loadGeneration = b.loadGeneration
SameLoads(u, b)       == \A c : c.kind = "list" => (c \in u.calls <=> c \in b.calls)
SameStore(u, b)       == u.stored = b.stored /\ u.existing = b.existing
SamePlace(u, b)       == u.view = b.view /\ u.screen = b.screen /\ u.route = b.route
SameEditor(u, b)      == u.ticket = b.ticket /\ u.editorItems = b.editorItems /\ u.editor = b.editor /\ u.opened = b.opened
SameQuestion(u, b)    ==
  /\ u.dialog = b.dialog /\ u.named = b.named /\ u.ticketId = b.ticketId /\ u.bulkDeleteIds = b.bulkDeleteIds
  /\ u.confirm = b.confirm /\ u.known = b.known
SameCalculation(u, b) ==
  /\ u.lineIndex = b.lineIndex /\ u.text = b.text /\ u.price = b.price /\ u.total = b.total
  /\ u.timer = b.timer /\ u.calculation = b.calculation
SameUser(u, b)        == u.waits = b.waits /\ u.unnamed = b.unnamed /\ u.unseen = b.unseen

LEMMA LoadsKeep == ASSUME NEW b, NEW u, LoadsFit(b), SameRows(u, b), SameLoads(u, b) PROVE LoadsFit(u)
BY DEF LoadsFit, SameRows, SameLoads

LEMMA NamesKeep == ASSUME NEW b, NEW u, NamesFit(b), SameQuestion(u, b), SameUser(u, b) PROVE NamesFit(u)
BY DEF NamesFit, SameQuestion, SameUser, DoomedTickets

LEMMA PricesKeep ==
  ASSUME NEW b, NEW u, PricesFit(b), u.editorItems = b.editorItems, u.stored = b.stored,
         \A c \in u.calls : c.kind = "save" => c \in b.calls \/ Priced(c.items)
  PROVE  PricesFit(u)
BY DEF PricesFit

LEMMA DeletionKeeps == ASSUME NEW b, NEW u, DeletionFits(b), SameQuestion(u, b), u.screen = b.screen, u.ticket = b.ticket PROVE DeletionFits(u)
BY DEF DeletionFits, SameQuestion

LEMMA PlacedKeeps == ASSUME NEW b, NEW u, Placed(b), SamePlace(u, b), SameEditor(u, b), SameStore(u, b) PROVE Placed(u)
BY DEF Placed, SamePlace, SameEditor, SameStore

\* The screen of a user who waits, when no line is edited.
LEMMA CalmIs ==
  ASSUME NEW u \in HistoryRecord, LoadsFit(u), NamesFit(u), PricesFit(u),
         u.waits => /\ ~u.unseen /\ LinesFit(u) /\ DeletionFits(u) /\ ~u.timer /\ u.dialog # "line"
                    /\ (Placed(u) /\ Due(u) = {}) \/ OneDue(u)
  PROVE  HistoryInv(u)
<1>1. ASSUME u.waits PROVE \A c \in u.calls : c.kind # "line"
  <2>1. \A c \in Due(u) : c.kind # "line"
    BY <1>1 DEF OneDue, TicketDue
  <2> QED
    BY <2>1 DEF Due, PlainLoad
<1>2. WaitsFit(u)
  <2> SUFFICES ASSUME u.waits PROVE ~u.unseen /\ LinesFit(u) /\ CalculationFits(u) /\ DeletionFits(u) /\ (NothingDue(u) \/ OneDue(u))
    BY DEF WaitsFit
  <2>1. CalculationFits(u)
    BY <1>1 DEF CalculationFits, Counts
  <2> QED
    BY <2>1 DEF NothingDue
<1> QED
  BY <1>2 DEF HistoryInv

\* A user who waits goes on when nothing is under way.
LEMMA MayGoOnIs ==
  ASSUME NEW h, HistoryInv(h), MayGoOn(h), h.waits
  PROVE  Due(h) = {} /\ ~h.timer /\ Placed(h) /\ LinesFit(h) /\ DeletionFits(h) /\ ~h.unseen /\ CalculationFits(h)
BY DEF HistoryInv, WaitsFit, MayGoOn, Due, PlainLoad, NothingDue, OneDue

LEMMA SameScreen ==
  ASSUME NEW b, HistoryInv(b), NEW u \in HistoryRecord, u.calls = b.calls, SameRows(u, b), SameStore(u, b), SamePlace(u, b),
         SameEditor(u, b), SameQuestion(u, b), SameCalculation(u, b), SameUser(u, b)
  PROVE  HistoryInv(u)
<1>1. LoadsFit(u) /\ NamesFit(u) /\ PricesFit(u)
  BY LoadsKeep, NamesKeep, PricesKeep DEF HistoryInv, SameLoads, SameEditor, SameStore
<1>2. WaitsFit(u)
  <2> SUFFICES ASSUME u.waits PROVE ~u.unseen /\ LinesFit(u) /\ CalculationFits(u) /\ DeletionFits(u) /\ (NothingDue(u) \/ OneDue(u))
    BY DEF WaitsFit
  <2>1. b.waits /\ ~b.unseen /\ LinesFit(b) /\ CalculationFits(b) /\ DeletionFits(b) /\ (NothingDue(b) \/ OneDue(b))
    BY DEF HistoryInv, WaitsFit, SameUser
  <2>2. LinesFit(u) /\ DeletionFits(u) /\ ~u.unseen
    BY <2>1 DEF LinesFit, DeletionFits, SamePlace, SameEditor, SameStore, SameQuestion, SameUser
  <2>3. CalculationFits(u)
    BY <2>1 DEF CalculationFits, Counts, SameEditor, SameQuestion, SameCalculation
  <2>4. Due(u) = Due(b) /\ (Placed(b) => Placed(u))
    BY PlacedKeeps DEF Due
  <2>5. ASSUME NEW c, TicketDue(b, c) PROVE TicketDue(u, c)
    BY <2>4, <2>5 DEF TicketDue, SamePlace, SameEditor, SameQuestion
  <2> QED
    BY <2>1, <2>2, <2>3, <2>4, <2>5 DEF NothingDue, OneDue
<1> QED
  BY <1>1, <1>2 DEF HistoryInv

LEMMA HistoryActKeeps == ASSUME NEW b, HistoryInv(b) PROVE HistoryInv([b EXCEPT !.acts = @ + 1])
<1> DEFINE u == [b EXCEPT !.acts = @ + 1]
<1>1. b \in HistoryRecord /\ b.acts + 1 \in Nat
  BY HistoryFields DEF HistoryInv
<1>2. u \in HistoryRecord
  BY <1>1, ZenonT(60) DEF HistoryRecord
<1>3. /\ u.calls = b.calls /\ SameRows(u, b) /\ SameStore(u, b) /\ SamePlace(u, b) /\ SameEditor(u, b) /\ SameQuestion(u, b)
      /\ SameCalculation(u, b) /\ SameUser(u, b)
  BY <1>1 DEF HistoryRecord, SameRows, SameStore, SamePlace, SameEditor, SameQuestion, SameCalculation, SameUser
<1> HIDE DEF u
<1>4. HistoryInv(u)
  BY <1>2, <1>3, SameScreen
<1> QED
  BY <1>4 DEF u

--------------------------------------------------------------------------------
(* The invariant of the history holds at the start, and its parts that actions leave alone.*)

LEMMA HistoryInitially == HistoryInit => HistoryInv(history)
<1> SUFFICES ASSUME HistoryInit PROVE HistoryInv(history)
  OBVIOUS
<1> DEFINE Nought == {}
           Blank == << >>
           Lines(t) == [n \in 1..2 |-> LineOf(t, n)]
           Kept == [t \in Tickets |-> Lines(t)]
           Text == <<NoTicket, NewLine>>
<1>1. PICK w \in MayWait, f \in TicketFilters : history =
       [view |-> "tickets", screen |-> "list", route |-> TicketList, filters |-> f, listed |-> f,
        status |-> "found", latest |-> "found", loadGeneration |-> 0, ticket |-> NoTicket, editorItems |-> Blank,
        editor |-> "idle", stored |-> Kept, existing |-> Tickets,
        selection |-> Nought, dialog |-> "none", named |-> Nought, ticketId |-> NoTicket, bulkDeleteIds |-> Nought,
        confirm |-> FALSE, known |-> Nought, lineIndex |-> NewLine, text |-> Text, price |-> "stored",
        total |-> "stored", timer |-> FALSE, calculation |-> 0, busy |-> Nought, calls |-> Nought, acts |-> 0,
        waits |-> w, opened |-> FALSE, unnamed |-> FALSE, unseen |-> FALSE]
  BY DEF HistoryInit
<1>2. w \in BOOLEAN
  BY HistoryAssumption
<1>3. /\ Nought \in SUBSET Tickets /\ Nought \in SUBSET HistoryCalls /\ Nought \in SUBSET {"ticket", "line"}
      /\ Blank \in Seq(TicketLines) /\ NewLine \in Nat /\ Text \in TextsOfLines /\ TicketList \in HistoryRoutes
      /\ "idle" \in EditorStates
  BY DEF NewLine, TextsOfLines, HistoryRoutes, EditorStates
<1>4. ASSUME NEW t \in Tickets, NEW n \in 1..2
      PROVE  /\ LineOf(t, n) \in TicketLines /\ LineOf(t, n).of = t /\ LineOf(t, n).text = <<t, LineOf(t, n).line>>
             /\ LineOf(t, n).price = LineOf(t, n).total
  BY DEF LineOf, TicketLines, TextsOfLines, LineTotals
<1>5. ASSUME NEW t \in Tickets PROVE Lines(t) \in Seq(TicketLines) /\ Priced(Lines(t)) /\ Own(Lines(t), t)
  <2>1. DOMAIN Lines(t) = 1..2 /\ \A n \in 1..2 : Lines(t)[n] = LineOf(t, n)
    OBVIOUS
  <2>2. Lines(t) \in [1..2 -> TicketLines]
    BY <1>4
  <2>3. Lines(t) \in Seq(TicketLines)
    BY <2>2, SeqDef
  <2> HIDE DEF Lines
  <2>4. Priced(Lines(t)) /\ Own(Lines(t), t)
    BY <1>4, <2>1 DEF Priced, Own
  <2> QED
    BY <2>3, <2>4
<1> HIDE DEF Lines
<1>6. Kept \in [Tickets -> Seq(TicketLines)] /\ \A t \in Tickets : Kept[t] = Lines(t)
  BY <1>5
<1>7. Nought = {} /\ Blank = << >>
  OBVIOUS
<1> HIDE DEF Nought, Blank, Kept, Text
<1>8. history \in HistoryRecord
  <2>1. "stored" \in LineTotals
    BY DEF LineTotals
  <2> QED
    BY <1>1, <1>2, <1>3, <1>6, <2>1 DEF HistoryRecord
<1>9. /\ history.calls = {} /\ history.status = "found" /\ history.listed = history.filters /\ history.editorItems = << >>
      /\ history.stored = Kept /\ history.dialog = "none" /\ ~history.unnamed /\ ~history.unseen /\ ~history.timer
      /\ history.screen = "list"
  BY <1>1, <1>7
<1>10. LoadsFit(history) /\ NamesFit(history) /\ DeletionFits(history) /\ Placed(history) /\ Due(history) = {}
  BY <1>9 DEF LoadsFit, NamesFit, DeletionFits, Placed, Due
<1>11. PricesFit(history) /\ LinesFit(history)
  BY <1>5, <1>6, <1>9 DEF PricesFit, LinesFit, Priced, Own
<1> QED
  BY <1>8, <1>9, <1>10, <1>11, CalmIs

\* The reads of the list are given up.
Halted(c) == IF c.kind = "list" THEN [c EXCEPT !.aborted = TRUE] ELSE c

AllHalted(calls) == {IF c.kind = "list" THEN [c EXCEPT !.aborted = TRUE] ELSE c : c \in calls}

LEMMA HaltedIs ==
  ASSUME NEW c \in HistoryCalls
  PROVE  /\ Halted(c) \in HistoryCalls /\ Halted(c).kind = c.kind
         /\ c.kind # "list" => Halted(c) = c
         /\ c.kind = "list" => /\ Halted(c).generation = c.generation /\ Halted(c).filters = c.filters
                              /\ Halted(c).stage = c.stage /\ Halted(c).opens = c.opens
         /\ PlainLoad(Halted(c)) <=> PlainLoad(c)
<1>1. CASE c.kind = "list"
  BY <1>1 DEF HistoryCalls, Halted, PlainLoad
<1>2. CASE c.kind # "list"
  BY <1>2 DEF Halted, PlainLoad
<1> QED
  BY <1>1, <1>2

LEMMA AllHaltedIs ==
  ASSUME NEW calls \in SUBSET HistoryCalls
  PROVE  /\ AllHalted(calls) \in SUBSET HistoryCalls
         /\ \A d \in AllHalted(calls) : \E c \in calls : d = Halted(c)
         /\ \A d : d.kind # "list" => (d \in AllHalted(calls) <=> d \in calls)
         /\ (\A c \in calls : PlainLoad(c)) => \A d \in AllHalted(calls) : PlainLoad(d)
<1>1. AllHalted(calls) = {Halted(c) : c \in calls}
  BY DEF AllHalted, Halted
<1>2. \A c \in calls : Halted(c) \in HistoryCalls
  BY HaltedIs
<1>3. ASSUME NEW d, d.kind # "list" PROVE d \in AllHalted(calls) <=> d \in calls
  <2>1. ASSUME d \in calls PROVE d \in AllHalted(calls)
    <3>1. Halted(d) = d
      BY <1>3 DEF Halted
    <3> QED
      BY <1>1, <2>1, <3>1
  <2>2. ASSUME NEW c \in calls, d = Halted(c) PROVE d \in calls
    BY <1>3, <2>2, HaltedIs
  <2> QED
    BY <1>1, <2>1, <2>2
<1>4. ASSUME \A c \in calls : PlainLoad(c), NEW c \in calls PROVE PlainLoad(Halted(c))
  BY <1>4, HaltedIs
<1> QED
  BY <1>1, <1>2, <1>3, <1>4

LoadCall(b, opens) ==
  [kind |-> "list", stage |-> "metadata", generation |-> b.loadGeneration + 1,
   filters |-> b.filters, aborted |-> FALSE, opens |-> opens]

LEMMA LoadCallIs ==
  ASSUME NEW b \in HistoryRecord, NEW opens \in Tickets \cup {OpenNone}
  PROVE  /\ LoadCall(b, opens) \in HistoryCalls /\ LoadCall(b, opens).kind = "list" /\ LoadCall(b, opens).opens = opens
         /\ LoadCall(b, opens).stage = "metadata" /\ LoadCall(b, opens).generation = b.loadGeneration + 1
<1>1. b.loadGeneration + 1 \in Nat /\ b.filters \in TicketFilters
  BY HistoryFields
<1> QED
  BY <1>1 DEF LoadCall, HistoryCalls

\* The list is read again.
Reloaded(u, b, opens) ==
  /\ u \in HistoryRecord
  /\ u.calls = AllHalted(b.calls) \cup {LoadCall(b, opens)}
  /\ u.loadGeneration = b.loadGeneration + 1 /\ u.status = "loading" /\ u.latest = "loading" /\ u.filters = b.filters
  /\ SameStore(u, b) /\ SamePlace(u, b) /\ SameEditor(u, b) /\ SameQuestion(u, b) /\ SameCalculation(u, b) /\ SameUser(u, b)

LEMMA ReloadedIs == ASSUME NEW b \in HistoryRecord, NEW opens \in Tickets \cup {OpenNone} PROVE Reloaded(LoadHistory(b, opens), b, opens)
<1> DEFINE Pending == AllHalted(b.calls) \cup {LoadCall(b, opens)}
           More  == b.loadGeneration + 1
           u == [b EXCEPT !.loadGeneration = More, !.calls = Pending, !.status = "loading", !.latest = "loading"]
<1>1. Pending \in SUBSET HistoryCalls /\ More \in Nat
  BY HistoryFields, AllHaltedIs, LoadCallIs
<1>2. LoadHistory(b, opens) = u
  BY ZenonT(60) DEF LoadHistory, LoadCall, AllHalted, HistoryRecord
<1> HIDE DEF Pending, More
<1>3. u \in HistoryRecord
  BY <1>1, ZenonT(60) DEF HistoryRecord
<1>4. /\ u.calls = Pending /\ u.loadGeneration = More /\ u.status = "loading" /\ u.latest = "loading" /\ u.filters = b.filters
      /\ SameStore(u, b) /\ SamePlace(u, b) /\ SameEditor(u, b) /\ SameQuestion(u, b) /\ SameCalculation(u, b) /\ SameUser(u, b)
  BY DEF HistoryRecord, SameStore, SamePlace, SameEditor, SameQuestion, SameCalculation, SameUser
<1> HIDE DEF u
<1> QED
  BY <1>2, <1>3, <1>4 DEF Reloaded, Pending, More

LoadsBounded(b) == \A c \in b.calls : c.kind = "list" => c.generation <= b.loadGeneration

LEMMA LoadsBoundedNow == ASSUME NEW b, HistoryInv(b) PROVE b \in HistoryRecord /\ LoadsBounded(b)
BY DEF HistoryInv, LoadsFit, LoadsBounded

LEMMA ReloadedKeeps ==
  ASSUME NEW b \in HistoryRecord, NEW opens \in Tickets \cup {OpenNone}, LoadsBounded(b), NamesFit(b), PricesFit(b),
         b.waits => /\ ~b.unseen /\ LinesFit(b) /\ Due(b) = {} /\ ~b.timer /\ b.dialog = "none"
                    /\ IF opens = OpenNone THEN Placed(b) ELSE b.route = opens /\ b.screen = "list"
  PROVE  HistoryInv(LoadHistory(b, opens))
<1> DEFINE u == LoadHistory(b, opens)
           r == LoadCall(b, opens)
<1>1. b.calls \in SUBSET HistoryCalls /\ b.loadGeneration \in Nat
  BY HistoryFields
<1>2. r \in HistoryCalls /\ r.kind = "list" /\ r.opens = opens /\ r.stage = "metadata" /\ r.generation = b.loadGeneration + 1
  BY LoadCallIs
<1>3. Reloaded(u, b, opens)
  BY ReloadedIs
<1> HIDE DEF u, r
<1>4. u.calls = AllHalted(b.calls) \cup {r} /\ u.loadGeneration = b.loadGeneration + 1 /\ u.status = "loading"
  BY <1>3 DEF Reloaded, r
<1>5. /\ SameStore(u, b) /\ SamePlace(u, b) /\ SameEditor(u, b) /\ SameQuestion(u, b) /\ SameCalculation(u, b)
      /\ SameUser(u, b) /\ u \in HistoryRecord
  BY <1>3 DEF Reloaded
<1>6. \A d \in u.calls : d = r \/ \E c \in b.calls : d = Halted(c)
  BY <1>1, <1>4, AllHaltedIs
<1>7. LoadsFit(u)
  <2>1. ASSUME NEW d \in u.calls, d.kind = "list"
        PROVE  d.generation <= u.loadGeneration /\ ~(d.stage = "tickets" /\ d.generation = u.loadGeneration)
    <3>1. CASE d = r
      BY <1>1, <1>2, <1>4, <3>1
    <3>2. ASSUME NEW c \in b.calls, d = Halted(c)
          PROVE  d.generation <= u.loadGeneration /\ ~(d.stage = "tickets" /\ d.generation = u.loadGeneration)
      <4>1. c \in HistoryCalls /\ c.kind = "list" /\ d.generation = c.generation /\ c.generation \in Nat
        BY <1>1, <2>1, <3>2, HaltedIs, HistoryCallTypes
      <4>2. c.generation <= b.loadGeneration
        BY <4>1 DEF LoadsBounded
      <4> QED
        BY <1>1, <1>4, <4>1, <4>2
    <3> QED
      BY <1>6, <3>1, <3>2
  <2> QED
    BY <1>4, <2>1 DEF LoadsFit
<1>8. NamesFit(u)
  BY <1>5, NamesKeep
<1>9. PricesFit(u)
  <2>1. \A c \in u.calls : c.kind = "save" => c \in b.calls
    BY <1>1, <1>2, <1>4, AllHaltedIs
  <2> QED
    BY <1>5, <2>1, PricesKeep DEF SameEditor, SameStore
<1>10. ASSUME u.waits
       PROVE  ~u.unseen /\ LinesFit(u) /\ DeletionFits(u) /\ ~u.timer /\ u.dialog # "line" /\ ((Placed(u) /\ Due(u) = {}) \/ OneDue(u))
  <2>1. b.waits /\ ~b.unseen /\ LinesFit(b) /\ Due(b) = {} /\ ~b.timer /\ b.dialog = "none"
    BY <1>5, <1>10 DEF SameUser
  <2>2. ~u.unseen /\ LinesFit(u) /\ DeletionFits(u) /\ ~u.timer /\ u.dialog = "none"
    BY <1>5, <2>1 DEF LinesFit, DeletionFits, SameUser, SameEditor, SameStore, SameQuestion, SameCalculation
  <2>3. \A d \in u.calls : d = r \/ PlainLoad(d)
    BY <1>1, <1>4, <2>1, AllHaltedIs DEF Due
  <2>4. CASE opens = OpenNone
    <3>1. Due(u) = {}
      BY <1>2, <2>3, <2>4 DEF Due, PlainLoad
    <3>2. Placed(u)
      BY <1>5, <2>1, <2>4, PlacedKeeps
    <3> QED
      BY <2>2, <3>1, <3>2
  <2>5. CASE opens # OpenNone
    <3>1. Due(u) = {r} /\ r \in u.calls
      BY <1>2, <1>4, <2>3, <2>5 DEF Due, PlainLoad
    <3>2. b.route = opens /\ b.screen = "list"
      BY <2>1, <2>5
    <3>3. TicketDue(u, r)
      BY <1>2, <1>5, <2>1, <3>2 DEF TicketDue, SamePlace, SameQuestion
    <3> QED
      BY <2>2, <3>1, <3>3 DEF OneDue
  <2> QED
    BY <2>4, <2>5
<1>11. HistoryInv(u)
  BY <1>5, <1>7, <1>8, <1>9, <1>10, CalmIs
<1> QED
  BY <1>11 DEF u

--------------------------------------------------------------------------------

\* The user asks for another list.
LEMMA ReloadAgain ==
  ASSUME HistoryInv(history), MayGoOn(history), history.dialog = "none", NEW u \in HistoryRecord,
         NEW opens \in Tickets \cup {OpenNone}, u.calls = history.calls, u.loadGeneration = history.loadGeneration,
         SameStore(u, history), SameQuestion(u, history), SameCalculation(u, history), SameUser(u, history),
         (u.ticket = history.ticket /\ u.editorItems = history.editorItems) \/ (u.ticket = NoTicket /\ u.editorItems = << >>),
         u.screen = "list", opens = OpenNone \/ u.route = opens
  PROVE  HistoryInv(LoadHistory(u, opens))
<1>1. LoadsBounded(u)
  BY LoadsBoundedNow DEF LoadsBounded
<1>2. NamesFit(u)
  BY NamesKeep DEF HistoryInv
<1>3. PricesFit(u)
  BY DEF HistoryInv, PricesFit, Priced, SameStore
<1>4. ASSUME u.waits
      PROVE  /\ ~u.unseen /\ LinesFit(u) /\ Due(u) = {} /\ ~u.timer /\ u.dialog = "none"
             /\ IF opens = OpenNone THEN Placed(u) ELSE u.route = opens /\ u.screen = "list"
  <2>1. Due(history) = {} /\ ~history.timer /\ LinesFit(history) /\ ~history.unseen
    BY <1>4, MayGoOnIs DEF SameUser
  <2>2. LinesFit(u)
    BY <2>1 DEF LinesFit, Own, SameStore
  <2>3. Due(u) = {} /\ ~u.timer /\ u.dialog = "none" /\ ~u.unseen /\ Placed(u)
    BY <2>1 DEF Due, Placed, SameCalculation, SameQuestion, SameUser
  <2> QED
    BY <2>2, <2>3
<1> QED
  BY <1>1, <1>2, <1>3, <1>4, ReloadedKeeps

LEMMA SyncingFilters == ASSUME HistoryInv(history), NEW f \in TicketFilters, SyncFilterRoute(f) PROVE HistoryInv(history')
<1> DEFINE u == [history EXCEPT !.filters = f, !.route = TicketList]
<1>1. history \in HistoryRecord
  BY LoadsBoundedNow
<1>2. /\ history.dialog = "none" /\ history.screen = "list" /\ MayGoOn(history)
      /\ history' = [LoadHistory(u, OpenNone) EXCEPT !.acts = @ + 1]
  BY DEF SyncFilterRoute, HistoryAct, OnList, OnHistory
<1>3. /\ u \in HistoryRecord /\ u.calls = history.calls /\ u.loadGeneration = history.loadGeneration
      /\ SameStore(u, history) /\ SameQuestion(u, history) /\ SameCalculation(u, history) /\ SameUser(u, history)
      /\ u.ticket = history.ticket /\ u.editorItems = history.editorItems /\ u.screen = history.screen
  BY <1>1, ZenonT(60) DEF HistoryRecord, HistoryRoutes, SameStore, SameQuestion, SameCalculation, SameUser
<1> HIDE DEF u
<1>4. HistoryInv(LoadHistory(u, OpenNone))
  BY <1>2, <1>3, ReloadAgain
<1> QED
  BY <1>2, <1>4, HistoryActKeeps

LEMMA ActivatingHistory ==
  ASSUME HistoryInv(history), NEW route \in Tickets \cup {TicketList}, ActivateTicketHistory(route) PROVE HistoryInv(history')
<1> DEFINE u == [history EXCEPT !.view = "tickets", !.screen = "list", !.route = route]
           opens == IF route = TicketList THEN OpenNone ELSE route
<1>1. history \in HistoryRecord /\ opens \in Tickets \cup {OpenNone} /\ route \in HistoryRoutes
  BY LoadsBoundedNow DEF HistoryRoutes
<1>2. history.dialog = "none" /\ MayGoOn(history) /\ history' = [LoadHistory(u, opens) EXCEPT !.acts = @ + 1]
  BY DEF ActivateTicketHistory, HistoryAct
<1>3. /\ u \in HistoryRecord /\ u.calls = history.calls /\ u.loadGeneration = history.loadGeneration
      /\ SameStore(u, history) /\ SameQuestion(u, history) /\ SameCalculation(u, history) /\ SameUser(u, history)
      /\ u.ticket = history.ticket /\ u.editorItems = history.editorItems /\ u.screen = "list" /\ u.route = route
  BY <1>1, ZenonT(60) DEF HistoryRecord, SameStore, SameQuestion, SameCalculation, SameUser
<1>4. opens = OpenNone \/ u.route = opens
  BY <1>3
<1> HIDE DEF u, opens
<1>5. HistoryInv(LoadHistory(u, opens))
  BY <1>1, <1>2, <1>3, <1>4, ReloadAgain
<1> QED
  BY <1>2, <1>5, HistoryActKeeps

\* A history stays typed when only these fields change.
LEMMA CallsTyped ==
  ASSUME NEW b \in HistoryRecord, NEW Pending \in SUBSET HistoryCalls
  PROVE  [b EXCEPT !.calls = Pending] \in HistoryRecord
BY ZenonT(60) DEF HistoryRecord

LEMMA ScreenTyped ==
  ASSUME NEW b \in HistoryRecord, NEW view \in {"tickets", "other"}, NEW screen \in {"list", "detail"}
  PROVE  [b EXCEPT !.view = view, !.screen = screen] \in HistoryRecord
BY ZenonT(60) DEF HistoryRecord

LEMMA TicketTyped ==
  ASSUME NEW b \in HistoryRecord, NEW Items \in Seq(TicketLines), NEW t \in Tickets \cup {NoTicket}
  PROVE  [b EXCEPT !.ticket = t, !.editorItems = Items] \in HistoryRecord
BY ZenonT(60) DEF HistoryRecord

LEMMA RouteTyped ==
  ASSUME NEW b \in HistoryRecord, NEW route \in HistoryRoutes
  PROVE  [b EXCEPT !.route = route] \in HistoryRecord
BY ZenonT(60) DEF HistoryRecord

LEMMA DialogTyped ==
  ASSUME NEW b \in HistoryRecord, NEW dialog \in {"none", "line", "delete"}, NEW n \in Nat
  PROVE  [b EXCEPT !.dialog = dialog, !.lineIndex = n] \in HistoryRecord
BY ZenonT(60) DEF HistoryRecord

LEMMA TextTyped ==
  ASSUME NEW b \in HistoryRecord, NEW text \in TextsOfLines, NEW price \in LineTotals
  PROVE  [b EXCEPT !.text = text, !.price = price] \in HistoryRecord
BY ZenonT(60) DEF HistoryRecord

LEMMA SumTyped ==
  ASSUME NEW b \in HistoryRecord, NEW sum \in LineTotals
  PROVE  [b EXCEPT !.total = sum] \in HistoryRecord
BY ZenonT(60) DEF HistoryRecord

\* The list without its ticket.
LEMMA TicketsShown ==
  ASSUME NEW h \in HistoryRecord
  PROVE  \E u \in HistoryRecord :
           /\ ShowHistoryList(h) = LoadHistory(u, OpenNone) /\ u.calls = h.calls /\ u.loadGeneration = h.loadGeneration
           /\ SameStore(u, h) /\ SameQuestion(u, h) /\ SameCalculation(u, h) /\ SameUser(u, h)
           /\ u.ticket = NoTicket /\ u.editorItems = << >> /\ u.screen = "list"
<1> DEFINE Blank == << >>
           u == [h EXCEPT !.view = "tickets", !.screen = "list", !.ticket = NoTicket, !.editorItems = Blank, !.route = TicketList]
<1>1. ShowHistoryList(h) = LoadHistory(u, OpenNone)
  BY DEF ShowHistoryList
<1>2. Blank \in Seq(TicketLines) /\ TicketList \in HistoryRoutes /\ Blank = << >>
  BY DEF HistoryRoutes
<1> HIDE DEF Blank
<1>3. u \in HistoryRecord
  <2> DEFINE v == [h EXCEPT !.view = "tickets", !.screen = "list"]
             w == [v EXCEPT !.ticket = NoTicket, !.editorItems = Blank]
  <2>1. v \in HistoryRecord
    BY ScreenTyped
  <2>2. w \in HistoryRecord
    <3> HIDE DEF v
    <3> QED
      BY <1>2, <2>1, TicketTyped
  <2>3. [w EXCEPT !.route = TicketList] \in HistoryRecord
    <3> HIDE DEF w
    <3> QED
      BY <1>2, <2>2, RouteTyped
  <2> QED
    BY <2>3
<1>4. /\ u.calls = h.calls /\ u.loadGeneration = h.loadGeneration
      /\ SameStore(u, h) /\ SameQuestion(u, h) /\ SameCalculation(u, h) /\ SameUser(u, h)
      /\ u.ticket = NoTicket /\ u.editorItems = Blank /\ u.screen = "list"
  BY DEF HistoryRecord, SameStore, SameQuestion, SameCalculation, SameUser
<1> HIDE DEF u
<1> QED
  BY <1>1, <1>2, <1>3, <1>4

LEMMA BackToTheHistory == ASSUME HistoryInv(history), BackToHistory PROVE HistoryInv(history')
<1>1. history \in HistoryRecord
  BY LoadsBoundedNow
<1>2. history.dialog = "none" /\ MayGoOn(history) /\ history' = [ShowHistoryList(history) EXCEPT !.acts = @ + 1]
  BY DEF BackToHistory, HistoryAct, OnEditor, OnHistory
<1>3. PICK u \in HistoryRecord :
           /\ ShowHistoryList(history) = LoadHistory(u, OpenNone) /\ u.calls = history.calls
           /\ u.loadGeneration = history.loadGeneration
           /\ SameStore(u, history) /\ SameQuestion(u, history) /\ SameCalculation(u, history) /\ SameUser(u, history)
           /\ u.ticket = NoTicket /\ u.editorItems = << >> /\ u.screen = "list"
  BY <1>1, TicketsShown
<1>4. HistoryInv(LoadHistory(u, OpenNone))
  BY <1>2, <1>3, ReloadAgain
<1> QED
  BY <1>2, <1>3, <1>4, HistoryActKeeps

LEMMA LeavingHistory == ASSUME HistoryInv(history), LeaveHistory PROVE HistoryInv(history')
<1> DEFINE Pending == AllHalted(history.calls)
           u == [history EXCEPT !.view = "other", !.route = Away, !.calls = Pending]
<1>1. history \in HistoryRecord /\ history.calls \in SUBSET HistoryCalls
  BY LoadsBoundedNow, HistoryFields
<1>2. history.dialog = "none" /\ MayGoOn(history) /\ history' = [u EXCEPT !.acts = @ + 1]
  BY <1>1 DEF LeaveHistory, HistoryAct, OnHistory, AllHalted, HistoryRecord
<1>3. /\ Pending \in SUBSET HistoryCalls /\ (\A d \in Pending : \E c \in history.calls : d = Halted(c))
      /\ (\A d : d.kind # "list" => (d \in Pending <=> d \in history.calls))
      /\ ((\A c \in history.calls : PlainLoad(c)) => \A d \in Pending : PlainLoad(d))
  BY <1>1, AllHaltedIs
<1> HIDE DEF Pending
<1>4. u \in HistoryRecord
  BY <1>1, <1>3, ZenonT(60) DEF HistoryRecord, HistoryRoutes
<1>5. /\ u.calls = Pending /\ SameRows(u, history) /\ SameStore(u, history) /\ SameEditor(u, history) /\ SameQuestion(u, history)
      /\ SameCalculation(u, history) /\ SameUser(u, history) /\ u.view = "other"
  BY <1>1 DEF HistoryRecord, SameRows, SameStore, SameEditor, SameQuestion, SameCalculation, SameUser
<1> HIDE DEF u
<1>6. LoadsFit(u)
  <2>1. ASSUME NEW d \in Pending, d.kind = "list"
        PROVE  /\ d.generation <= history.loadGeneration
               /\ d.stage = "tickets" /\ d.generation = history.loadGeneration => d.filters = history.filters
    <3>1. PICK c \in history.calls : d = Halted(c)
      BY <1>3
    <3>2. c.kind = "list" /\ d.generation = c.generation /\ d.stage = c.stage /\ d.filters = c.filters
      BY <1>1, <2>1, <3>1, HaltedIs
    <3> QED
      BY <3>2 DEF HistoryInv, LoadsFit
  <2> QED
    BY <1>5, <2>1 DEF HistoryInv, LoadsFit, SameRows
<1>7. NamesFit(u)
  BY <1>5, NamesKeep DEF HistoryInv
<1>8. PricesFit(u)
  BY <1>3, <1>5, PricesKeep DEF HistoryInv, SameEditor, SameStore
<1>9. ASSUME u.waits
      PROVE  ~u.unseen /\ LinesFit(u) /\ DeletionFits(u) /\ ~u.timer /\ u.dialog # "line" /\ Placed(u) /\ Due(u) = {}
  <2>1. Due(history) = {} /\ ~history.timer /\ LinesFit(history) /\ ~history.unseen
    BY <1>2, <1>5, <1>9, MayGoOnIs DEF SameUser
  <2>2. Due(u) = {}
    BY <1>3, <1>5, <2>1 DEF Due
  <2>3. LinesFit(u) /\ DeletionFits(u) /\ Placed(u)
    BY <1>2, <1>5, <2>1 DEF LinesFit, DeletionFits, Placed, SameEditor, SameStore, SameQuestion
  <2> QED
    BY <1>2, <1>5, <2>1, <2>2, <2>3 DEF SameQuestion, SameCalculation, SameUser
<1>10. HistoryInv(u)
  BY <1>4, <1>6, <1>7, <1>8, <1>9, CalmIs
<1> QED
  BY <1>2, <1>10, HistoryActKeeps

OpenCall(t, writes) == [kind |-> "open", ticket |-> t, writes |-> writes]

LEMMA OpeningTyped ==
  ASSUME NEW b \in HistoryRecord, NEW Pending \in SUBSET HistoryCalls, NEW Editor \in EditorStates
  PROVE  [b EXCEPT !.view = "tickets", !.screen = "detail", !.editor = Editor, !.calls = Pending] \in HistoryRecord
BY ZenonT(60) DEF HistoryRecord

\* A ticket is asked for: by the user, or by the address once the list has come.
LEMMA TicketAsked ==
  ASSUME NEW b \in HistoryRecord, NEW t \in Tickets, NEW writes \in BOOLEAN, LoadsFit(b), NamesFit(b), PricesFit(b),
         b.waits => ~b.unseen /\ LinesFit(b) /\ Due(b) = {} /\ ~b.timer /\ b.dialog = "none" /\ (writes \/ b.route = t)
  PROVE  HistoryInv(OpenTicket(b, t, writes))
<1> DEFINE d == OpenCall(t, writes)
           Pending == b.calls \cup {d}
           u == [b EXCEPT !.view = "tickets", !.screen = "detail", !.editor = "loading", !.calls = Pending]
<1>1. OpenTicket(b, t, writes) = u
  BY DEF OpenTicket, OpenCall
<1>2. /\ d \in HistoryCalls /\ d.kind = "open" /\ d.ticket = t /\ d.writes = writes /\ ~PlainLoad(d)
      /\ b.calls \in SUBSET HistoryCalls
  BY HistoryFields DEF OpenCall, HistoryCalls, PlainLoad
<1> HIDE DEF d
<1>3. Pending \in SUBSET HistoryCalls /\ Pending = b.calls \cup {d} /\ "loading" \in EditorStates
  BY <1>2 DEF EditorStates
<1> HIDE DEF Pending
<1>4. u \in HistoryRecord
  BY <1>3, OpeningTyped
<1>5. /\ u.calls = Pending /\ SameRows(u, b) /\ SameStore(u, b) /\ SameQuestion(u, b)
      /\ SameCalculation(u, b) /\ SameUser(u, b) /\ u.editor = "loading" /\ u.screen = "detail" /\ u.route = b.route
      /\ u.ticket = b.ticket /\ u.editorItems = b.editorItems
  BY DEF HistoryRecord, SameRows, SameStore, SameQuestion, SameCalculation, SameUser
<1> HIDE DEF u
<1>6. LoadsFit(u) /\ NamesFit(u) /\ PricesFit(u)
  BY <1>2, <1>3, <1>5, LoadsKeep, NamesKeep, PricesKeep DEF SameLoads, SameStore
<1>7. ASSUME u.waits
      PROVE  ~u.unseen /\ LinesFit(u) /\ DeletionFits(u) /\ ~u.timer /\ u.dialog # "line" /\ OneDue(u)
  <2>1. ~b.unseen /\ LinesFit(b) /\ Due(b) = {} /\ ~b.timer /\ b.dialog = "none" /\ (writes \/ b.route = t)
    BY <1>5, <1>7 DEF SameUser
  <2>2. Due(u) = {d} /\ d \in u.calls
    BY <1>2, <1>3, <1>5, <2>1 DEF Due
  <2>3. TicketDue(u, d)
    BY <1>2, <1>5, <2>1 DEF TicketDue, SameQuestion
  <2>4. LinesFit(u) /\ DeletionFits(u)
    BY <1>5, <2>1 DEF LinesFit, DeletionFits, SameStore, SameQuestion
  <2> QED
    BY <1>5, <2>1, <2>2, <2>3, <2>4 DEF OneDue, SameQuestion, SameCalculation, SameUser
<1>8. HistoryInv(u)
  BY <1>4, <1>6, <1>7, CalmIs
<1> QED
  BY <1>1, <1>8

LEMMA ClickingTicket == ASSUME HistoryInv(history), NEW t \in Tickets, ClickTicket(t) PROVE HistoryInv(history')
<1>1. /\ history.dialog = "none" /\ MayGoOn(history) /\ history' = [OpenTicket(history, t, TRUE) EXCEPT !.acts = @ + 1]
      /\ history \in HistoryRecord
  BY LoadsBoundedNow DEF ClickTicket, HistoryAct, OnList, OnHistory
<1>2. HistoryInv(OpenTicket(history, t, TRUE))
  BY <1>1, MayGoOnIs, TicketAsked DEF HistoryInv
<1> QED
  BY <1>1, <1>2, HistoryActKeeps

--------------------------------------------------------------------------------

\* The ticket, its lines and the form change together.
Populated(u, h, t) ==
  /\ u \in HistoryRecord /\ u.calls = h.calls /\ SameRows(u, h) /\ SameStore(u, h) /\ SamePlace(u, h) /\ SameQuestion(u, h)
  /\ SameCalculation(u, h) /\ SameUser(u, h) /\ u.opened = h.opened
  /\ u.ticket = t /\ u.editorItems = h.stored[t] /\ u.editor = "saved"

LEMMA PopulatedIs == ASSUME NEW h \in HistoryRecord, NEW t \in Tickets PROVE Populated(PopulateTicketEditor(h, t), h, t)
<1> DEFINE Items == h.stored[t]
           u == [h EXCEPT !.ticket = t, !.editorItems = Items, !.editor = "saved"]
<1>1. Items \in Seq(TicketLines) /\ "saved" \in EditorStates
  BY HistoryFields DEF EditorStates
<1>2. PopulateTicketEditor(h, t) = u
  BY DEF PopulateTicketEditor
<1> HIDE DEF Items
<1>3. u \in HistoryRecord
  BY <1>1, ZenonT(60) DEF HistoryRecord
<1>4. /\ u.calls = h.calls /\ SameRows(u, h) /\ SameStore(u, h) /\ SamePlace(u, h) /\ SameQuestion(u, h)
      /\ SameCalculation(u, h) /\ SameUser(u, h) /\ u.opened = h.opened
      /\ u.ticket = t /\ u.editorItems = Items /\ u.editor = "saved"
  BY DEF HistoryRecord, SameRows, SameStore, SamePlace, SameQuestion, SameCalculation, SameUser
<1> HIDE DEF u
<1> QED
  BY <1>2, <1>3, <1>4 DEF Populated, Items

\* Its lines are its own, and priced.
LEMMA PopulatedFits ==
  ASSUME NEW h, NEW t \in Tickets, NEW u, Populated(u, h, t)
  PROVE  /\ (\A i \in Tickets : Priced(h.stored[i])) => Priced(u.editorItems)
         /\ (\A i \in Tickets : Own(h.stored[i], i)) => LinesFit(u)
         /\ (h.opened => t = h.route /\ t \in h.existing) => Placed(u)
BY DEF Populated, LinesFit, Placed, SameStore, SamePlace

LEMMA CancellingEdits == ASSUME HistoryInv(history), CancelEdits PROVE HistoryInv(history')
<1> DEFINE t == history.ticket
           u == PopulateTicketEditor(history, t)
<1>1. history \in HistoryRecord
  BY LoadsBoundedNow
<1>2. /\ history.dialog = "none" /\ history.screen = "detail" /\ history.view = "tickets" /\ MayGoOn(history)
      /\ history' = [u EXCEPT !.acts = @ + 1] /\ t \in Tickets
  BY <1>1, HistoryFields DEF CancelEdits, HistoryAct, OnEditor, OnHistory
<1>3. Populated(u, history, t)
  BY <1>1, <1>2, PopulatedIs
<1> HIDE DEF u
<1>4. u.calls = history.calls /\ SameUser(u, history) /\ SameQuestion(u, history) /\ SameCalculation(u, history) /\ u.stored = history.stored
  BY <1>3 DEF Populated, SameStore
<1>5. LoadsFit(u) /\ NamesFit(u)
  BY <1>3, LoadsKeep, NamesKeep DEF HistoryInv, Populated, SameLoads
<1>6. PricesFit(u)
  <2>1. Priced(u.editorItems)
    BY <1>2, <1>3, PopulatedFits DEF HistoryInv, PricesFit
  <2> QED
    BY <1>4, <2>1 DEF HistoryInv, PricesFit
<1>7. ASSUME u.waits
      PROVE  ~u.unseen /\ LinesFit(u) /\ DeletionFits(u) /\ ~u.timer /\ u.dialog # "line" /\ Placed(u) /\ Due(u) = {}
  <2>1. Due(history) = {} /\ ~history.timer /\ LinesFit(history) /\ ~history.unseen /\ Placed(history)
    BY <1>2, <1>4, <1>7, MayGoOnIs DEF SameUser
  <2>2. LinesFit(u) /\ Placed(u)
    BY <1>2, <1>3, <2>1, PopulatedFits DEF LinesFit, Placed
  <2> QED
    BY <1>2, <1>4, <2>1, <2>2 DEF Due, DeletionFits, SameUser, SameQuestion, SameCalculation
<1>8. HistoryInv(u)
  BY <1>3, <1>5, <1>6, <1>7, CalmIs DEF Populated
<1> QED
  BY <1>2, <1>8, HistoryActKeeps

LEMMA SelectingTicket == ASSUME HistoryInv(history), NEW t \in Tickets, SelectTicket(t) PROVE HistoryInv(history')
<1> DEFINE More == history.selection \cup {t}
           u == [history EXCEPT !.selection = More]
<1>1. history \in HistoryRecord /\ More \in SUBSET Tickets
  BY LoadsBoundedNow, HistoryFields
<1>2. history' = [u EXCEPT !.acts = @ + 1]
  BY <1>1 DEF SelectTicket, HistoryAct, HistoryRecord
<1> HIDE DEF More
<1>3. u \in HistoryRecord
  BY <1>1, ZenonT(60) DEF HistoryRecord
<1>4. /\ u.calls = history.calls /\ SameRows(u, history) /\ SameStore(u, history) /\ SamePlace(u, history)
      /\ SameEditor(u, history) /\ SameQuestion(u, history) /\ SameCalculation(u, history) /\ SameUser(u, history)
  BY <1>1 DEF HistoryRecord, SameRows, SameStore, SamePlace, SameEditor, SameQuestion, SameCalculation, SameUser
<1> HIDE DEF u
<1>5. HistoryInv(u)
  BY <1>3, <1>4, SameScreen
<1> QED
  BY <1>2, <1>5, HistoryActKeeps

TicketSave(t, items) == [kind |-> "save", ticket |-> t, items |-> items]

LEMMA SavingTicket == ASSUME HistoryInv(history), SaveTicket PROVE HistoryInv(history')
<1> DEFINE d == TicketSave(history.ticket, history.editorItems)
           Busy == history.busy \cup {"ticket"}
           Pending == history.calls \cup {d}
           u == [history EXCEPT !.busy = Busy, !.editor = "saving", !.calls = Pending]
<1>1. history \in HistoryRecord
  BY LoadsBoundedNow
<1>2. /\ history.dialog = "none" /\ history.screen = "detail" /\ history.view = "tickets" /\ MayGoOn(history)
      /\ history' = [u EXCEPT !.acts = @ + 1] /\ history.ticket \in Tickets
  BY <1>1, HistoryFields DEF SaveTicket, HistoryAct, OnEditor, OnHistory, TicketSave
<1>3. /\ d \in HistoryCalls /\ d.kind = "save" /\ d.ticket = history.ticket /\ d.items = history.editorItems /\ ~PlainLoad(d)
      /\ history.calls \in SUBSET HistoryCalls
  BY <1>1, <1>2, HistoryFields DEF TicketSave, HistoryCalls, PlainLoad
<1> HIDE DEF d
<1>4. /\ Pending \in SUBSET HistoryCalls /\ Pending = history.calls \cup {d} /\ "saving" \in EditorStates
      /\ Busy \in SUBSET {"ticket", "line"}
  BY <1>1, <1>3, HistoryFields DEF EditorStates
<1> HIDE DEF Pending, Busy
<1>5. u \in HistoryRecord
  BY <1>1, <1>4, ZenonT(60) DEF HistoryRecord
<1>6. /\ u.calls = Pending /\ SameRows(u, history) /\ SameStore(u, history) /\ SamePlace(u, history) /\ SameQuestion(u, history)
      /\ SameCalculation(u, history) /\ SameUser(u, history) /\ u.opened = history.opened /\ u.editor = "saving"
      /\ u.ticket = history.ticket /\ u.editorItems = history.editorItems
  BY <1>1 DEF HistoryRecord, SameRows, SameStore, SamePlace, SameQuestion, SameCalculation, SameUser
<1> HIDE DEF u
<1>7. LoadsFit(u) /\ NamesFit(u)
  BY <1>3, <1>4, <1>6, LoadsKeep, NamesKeep DEF HistoryInv, SameLoads
<1>8. PricesFit(u)
  BY <1>3, <1>4, <1>6 DEF HistoryInv, PricesFit, SameStore
<1>9. ASSUME u.waits
      PROVE  ~u.unseen /\ LinesFit(u) /\ DeletionFits(u) /\ ~u.timer /\ u.dialog # "line" /\ OneDue(u)
  <2>1. Due(history) = {} /\ ~history.timer /\ LinesFit(history) /\ ~history.unseen /\ Placed(history)
    BY <1>2, <1>6, <1>9, MayGoOnIs DEF SameUser
  <2>2. LinesFit(u) /\ Placed(u)
    BY <1>6, <2>1 DEF LinesFit, Placed, SameStore, SamePlace
  <2>3. Due(u) = {d} /\ d \in u.calls
    BY <1>3, <1>4, <1>6, <2>1 DEF Due
  <2>4. TicketDue(u, d)
    BY <1>2, <1>3, <1>6, <2>1, <2>2 DEF TicketDue, LinesFit, SameQuestion
  <2> QED
    BY <1>2, <1>6, <2>1, <2>2, <2>3, <2>4 DEF OneDue, DeletionFits, SameUser, SameQuestion, SameCalculation
<1>10. HistoryInv(u)
  BY <1>5, <1>7, <1>8, <1>9, CalmIs
<1> QED
  BY <1>2, <1>10, HistoryActKeeps

LEMMA TailFits ==
  ASSUME NEW items \in Seq(TicketLines), items # << >>, NEW t
  PROVE  /\ Tail(items) \in Seq(TicketLines)
         /\ Priced(items) => Priced(Tail(items))
         /\ Own(items, t) => Own(Tail(items), t)
<1>1. Tail(items) \in Seq(TicketLines) /\ Len(Tail(items)) = Len(items) - 1 /\ Len(items) \in Nat
  OBVIOUS
<1>2. \A i \in DOMAIN Tail(items) : i + 1 \in DOMAIN items /\ Tail(items)[i] = items[i + 1]
  BY <1>1
<1> QED
  BY <1>1, <1>2 DEF Priced, Own

LEMMA DeletingLine == ASSUME HistoryInv(history), DeleteLine PROVE HistoryInv(history')
<1> DEFINE Items == Tail(history.editorItems)
           u == [history EXCEPT !.editorItems = Items, !.editor = "unsaved"]
<1>1. history \in HistoryRecord
  BY LoadsBoundedNow
<1>2. /\ history.dialog = "none" /\ MayGoOn(history) /\ history' = [u EXCEPT !.acts = @ + 1]
      /\ history.editorItems \in Seq(TicketLines) /\ history.editorItems # << >>
  BY <1>1, HistoryFields DEF DeleteLine, HistoryAct, OnEditor, OnHistory, HistoryRecord
<1>3. /\ Items \in Seq(TicketLines) /\ Priced(Items) /\ "unsaved" \in EditorStates
      /\ (Own(history.editorItems, history.ticket) => Own(Items, history.ticket))
  BY <1>2, TailFits DEF HistoryInv, PricesFit, EditorStates
<1> HIDE DEF Items
<1>4. u \in HistoryRecord
  BY <1>1, <1>3, ZenonT(60) DEF HistoryRecord
<1>5. /\ u.calls = history.calls /\ SameRows(u, history) /\ SameStore(u, history) /\ SamePlace(u, history)
      /\ SameQuestion(u, history) /\ SameCalculation(u, history) /\ SameUser(u, history) /\ u.opened = history.opened
      /\ u.editor = "unsaved" /\ u.ticket = history.ticket /\ u.editorItems = Items
  BY <1>1 DEF HistoryRecord, SameRows, SameStore, SamePlace, SameQuestion, SameCalculation, SameUser
<1> HIDE DEF u
<1>6. LoadsFit(u) /\ NamesFit(u)
  BY <1>5, LoadsKeep, NamesKeep DEF HistoryInv, SameLoads
<1>7. PricesFit(u)
  BY <1>3, <1>5 DEF HistoryInv, PricesFit, SameStore
<1>8. ASSUME u.waits
      PROVE  ~u.unseen /\ LinesFit(u) /\ DeletionFits(u) /\ ~u.timer /\ u.dialog # "line" /\ Placed(u) /\ Due(u) = {}
  <2>1. Due(history) = {} /\ ~history.timer /\ LinesFit(history) /\ ~history.unseen /\ Placed(history)
    BY <1>2, <1>5, <1>8, MayGoOnIs DEF SameUser
  <2>2. LinesFit(u) /\ Placed(u) /\ DeletionFits(u)
    BY <1>2, <1>3, <1>5, <2>1 DEF LinesFit, Placed, SameStore, SamePlace, DeletionFits, SameQuestion
  <2> QED
    BY <1>2, <1>5, <2>1, <2>2 DEF Due, SameUser, SameQuestion, SameCalculation
<1>9. HistoryInv(u)
  BY <1>4, <1>6, <1>7, <1>8, CalmIs
<1> QED
  BY <1>2, <1>9, HistoryActKeeps

--------------------------------------------------------------------------------
(* The lines of the sheet and their calculation.                             *)

LEMMA OpeningLine == ASSUME HistoryInv(history), NEW n \in 0..3, OpenLineEditor(n) PROVE HistoryInv(history')
<1> DEFINE Text  == IF n = NewLine THEN <<history.ticket, NewLine>> ELSE history.editorItems[n].text
           Price == IF n = NewLine THEN "stored" ELSE history.editorItems[n].price
           Total == IF n = NewLine THEN "stored" ELSE history.editorItems[n].total
           u == [history EXCEPT !.dialog = "line", !.lineIndex = n, !.text = Text, !.price = Price, !.total = Total]
<1>1. history \in HistoryRecord /\ n \in Nat
  BY LoadsBoundedNow
<1>2. /\ MayGoOn(history) /\ history' = [u EXCEPT !.acts = @ + 1]
      /\ n \in {NewLine} \cup DOMAIN history.editorItems
  BY DEF OpenLineEditor, HistoryAct
<1>3. Text \in TextsOfLines /\ Price \in LineTotals /\ Total \in LineTotals /\ Price = Total
  <2>1. CASE n = NewLine
    <3>1. history.ticket \in Tickets \cup {NoTicket} /\ NewLine \in Nat
      BY <1>1, HistoryFields DEF NewLine
    <3> QED
      BY <2>1, <3>1 DEF TextsOfLines, LineTotals
  <2>2. CASE n # NewLine
    <3>1. n \in DOMAIN history.editorItems /\ history.editorItems \in Seq(TicketLines)
      BY <1>1, <1>2, <2>2, HistoryFields
    <3>2. history.editorItems[n] \in TicketLines
      BY <3>1
    <3>3. history.editorItems[n].price = history.editorItems[n].total
      BY <3>1 DEF HistoryInv, PricesFit, Priced
    <3> QED
      BY <2>2, <3>2, <3>3, LineFields
  <2> QED
    BY <2>1, <2>2
<1>4. IF n \in DOMAIN history.editorItems THEN Text = history.editorItems[n].text ELSE Text = <<history.ticket, NewLine>>
  <2>1. history.editorItems \in Seq(TicketLines)
    BY <1>1, HistoryFields
  <2>2. NewLine \notin DOMAIN history.editorItems
    BY <2>1 DEF NewLine
  <2> QED
    BY <1>2, <2>2
<1> HIDE DEF Text, Price, Total
<1>5. u \in HistoryRecord
  <2> DEFINE v == [history EXCEPT !.dialog = "line", !.lineIndex = n]
             w == [v EXCEPT !.text = Text, !.price = Price]
  <2>1. v \in HistoryRecord
    BY <1>1, DialogTyped
  <2>2. w \in HistoryRecord
    <3> HIDE DEF v
    <3> QED
      BY <1>3, <2>1, TextTyped
  <2>3. [w EXCEPT !.total = Total] \in HistoryRecord
    <3> HIDE DEF w
    <3> QED
      BY <1>3, <2>2, SumTyped
  <2> QED
    BY <2>3
<1>6. /\ u.calls = history.calls /\ SameRows(u, history) /\ SameStore(u, history) /\ SamePlace(u, history)
      /\ SameEditor(u, history) /\ SameUser(u, history) /\ u.dialog = "line" /\ u.lineIndex = n /\ u.text = Text
      /\ u.price = Price /\ u.total = Total /\ u.timer = history.timer /\ u.calculation = history.calculation
  BY <1>1 DEF HistoryRecord, SameRows, SameStore, SamePlace, SameEditor, SameUser
<1> HIDE DEF u
<1>7. LoadsFit(u) /\ NamesFit(u) /\ PricesFit(u)
  BY <1>6, LoadsKeep, PricesKeep DEF HistoryInv, SameLoads, NamesFit, SameUser, SameEditor, SameStore
<1>8. WaitsFit(u)
  <2> SUFFICES ASSUME u.waits PROVE ~u.unseen /\ LinesFit(u) /\ CalculationFits(u) /\ DeletionFits(u) /\ NothingDue(u)
    BY DEF WaitsFit
  <2>1. Due(history) = {} /\ ~history.timer /\ LinesFit(history) /\ ~history.unseen /\ Placed(history)
    BY <1>2, <1>6, MayGoOnIs DEF SameUser
  <2>2. LinesFit(u) /\ Placed(u) /\ DeletionFits(u) /\ Due(u) = {}
    BY <1>6, <2>1, PlacedKeeps DEF LinesFit, SameEditor, SameStore, DeletionFits, Due
  <2>3. \A c \in u.calls : c.kind # "line"
    BY <2>2 DEF Due, PlainLoad
  <2>4. CalculationFits(u)
    BY <1>3, <1>4, <1>6, <2>1, <2>3 DEF CalculationFits, Counts, SameEditor
  <2> QED
    BY <1>6, <2>1, <2>2, <2>4 DEF NothingDue, SameUser
<1>9. HistoryInv(u)
  BY <1>5, <1>7, <1>8 DEF HistoryInv
<1> QED
  BY <1>2, <1>9, HistoryActKeeps

\* While a line is edited, nothing but its calculations is under way.
LEMMA LineWaits == ASSUME NEW h, HistoryInv(h), h.waits, h.dialog = "line" PROVE NothingDue(h)
<1>1. \A c \in h.calls : c \in HistoryCalls
  BY HistoryFields DEF HistoryInv
<1>2. ASSUME NEW c \in h.calls, TicketDue(h, c) PROVE FALSE
  BY <1>1, <1>2, HistoryCallTypes DEF TicketDue
<1> QED
  BY <1>2 DEF HistoryInv, WaitsFit, OneDue

LEMMA TypingPrice == ASSUME HistoryInv(history), NEW p \in LinePrices, TypePrice(p) PROVE HistoryInv(history')
<1> DEFINE More == history.calculation + 1
           u == [history EXCEPT !.price = p, !.calculation = More, !.timer = TRUE]
<1>1. history \in HistoryRecord /\ More \in Nat /\ p \in LineTotals /\ history.calculation \in Nat /\ More = history.calculation + 1
  BY LoadsBoundedNow, HistoryFields DEF LineTotals
<1>2. history.dialog = "line" /\ history' = [u EXCEPT !.acts = @ + 1]
  BY <1>1 DEF TypePrice, HistoryAct, HistoryRecord
<1> HIDE DEF More
<1>3. u \in HistoryRecord
  BY <1>1, ZenonT(60) DEF HistoryRecord
<1>4. /\ u.calls = history.calls /\ SameRows(u, history) /\ SameStore(u, history) /\ SamePlace(u, history)
      /\ SameEditor(u, history) /\ SameQuestion(u, history) /\ SameUser(u, history) /\ u.lineIndex = history.lineIndex
      /\ u.text = history.text /\ u.timer /\ u.calculation = More
  BY <1>1 DEF HistoryRecord, SameRows, SameStore, SamePlace, SameEditor, SameQuestion, SameUser
<1> HIDE DEF u
<1>5. LoadsFit(u) /\ NamesFit(u) /\ PricesFit(u)
  BY <1>4, LoadsKeep, NamesKeep, PricesKeep DEF HistoryInv, SameLoads, SameEditor, SameStore
<1>6. WaitsFit(u)
  <2> SUFFICES ASSUME u.waits PROVE ~u.unseen /\ LinesFit(u) /\ CalculationFits(u) /\ DeletionFits(u) /\ NothingDue(u)
    BY DEF WaitsFit
  <2>1. NothingDue(history) /\ LinesFit(history) /\ CalculationFits(history) /\ ~history.unseen
    BY <1>2, <1>4, LineWaits DEF HistoryInv, WaitsFit, SameUser
  <2>2. LinesFit(u) /\ DeletionFits(u) /\ NothingDue(u)
    BY <1>2, <1>4, <2>1, PlacedKeeps DEF LinesFit, SameEditor, SameStore, DeletionFits, SameQuestion, NothingDue, Due
  <2>3. ASSUME NEW c \in u.calls, c.kind = "line" PROVE c.generation <= u.calculation /\ c.generation < u.calculation /\ c.generation # u.calculation
    <3>1. c.generation <= history.calculation
      BY <1>4, <2>1, <2>3 DEF CalculationFits
    <3>2. c.generation \in Nat
      BY <1>1, <1>4, <2>3, HistoryFields, HistoryCallTypes
    <3> QED
      BY <1>1, <1>4, <3>1, <3>2
  <2>4. CalculationFits(u)
    BY <1>2, <1>4, <2>1, <2>3 DEF CalculationFits, Counts, SameEditor, SameQuestion
  <2> QED
    BY <1>4, <2>1, <2>2, <2>4 DEF SameUser
<1>7. HistoryInv(u)
  BY <1>3, <1>5, <1>6 DEF HistoryInv
<1> QED
  BY <1>2, <1>7, HistoryActKeeps

LEMMA CalculationTyped ==
  ASSUME NEW b \in HistoryRecord, NEW Pending \in SUBSET HistoryCalls, NEW Busy \in SUBSET {"ticket", "line"}, NEW More \in Nat
  PROVE  /\ [b EXCEPT !.timer = FALSE, !.calls = Pending] \in HistoryRecord
         /\ [b EXCEPT !.busy = Busy, !.calculation = More] \in HistoryRecord
<1>1. [b EXCEPT !.timer = FALSE, !.calls = Pending] \in HistoryRecord
  BY ZenonT(60) DEF HistoryRecord
<1>2. [b EXCEPT !.busy = Busy, !.calculation = More] \in HistoryRecord
  BY ZenonT(60) DEF HistoryRecord
<1> QED
  BY <1>1, <1>2

CalculationCall(h, saves) ==
  [kind |-> "line", generation |-> h.calculation, price |-> h.price, saves |-> saves, text |-> h.text]

\* The total is asked for, and no older call counts.
LEMMA Calculating ==
  ASSUME NEW b \in HistoryRecord, NEW saves \in BOOLEAN, LoadsFit(b), NamesFit(b), PricesFit(b),
         b.waits => /\ ~b.unseen /\ LinesFit(b) /\ DeletionFits(b) /\ NothingDue(b) /\ b.dialog = "line"
                    /\ \A c \in b.calls : c.kind = "line" => c.generation < b.calculation
                    /\ IF b.lineIndex \in DOMAIN b.editorItems THEN b.text = b.editorItems[b.lineIndex].text
                       ELSE b.text = <<b.ticket, NewLine>>
  PROVE  HistoryInv(CalculateLine(b, saves))
<1> DEFINE d == CalculationCall(b, saves)
           Pending == b.calls \cup {d}
           u == [b EXCEPT !.timer = FALSE, !.calls = Pending]
<1>1. CalculateLine(b, saves) = u
  BY DEF CalculateLine, CalculationCall
<1>2. b.calls \in SUBSET HistoryCalls /\ b.calculation \in Nat /\ b.price \in LineTotals /\ b.text \in TextsOfLines
  BY HistoryFields
<1>3. d \in HistoryCalls /\ d.kind = "line" /\ d.generation = b.calculation /\ d.price = b.price /\ d.text = b.text
  BY <1>2 DEF CalculationCall, HistoryCalls
<1> HIDE DEF d
<1>4. Pending \in SUBSET HistoryCalls /\ Pending = b.calls \cup {d}
  BY <1>2, <1>3
<1> HIDE DEF Pending
<1>5. u \in HistoryRecord
  BY <1>2, <1>4, CalculationTyped
<1>6. /\ u.calls = Pending /\ SameRows(u, b) /\ SameStore(u, b) /\ SamePlace(u, b) /\ SameEditor(u, b) /\ SameQuestion(u, b)
      /\ SameUser(u, b) /\ ~u.timer /\ u.calculation = b.calculation /\ u.price = b.price /\ u.text = b.text
      /\ u.lineIndex = b.lineIndex
  BY DEF HistoryRecord, SameRows, SameStore, SamePlace, SameEditor, SameQuestion, SameUser
<1> HIDE DEF u
<1>7. LoadsFit(u) /\ NamesFit(u) /\ PricesFit(u)
  BY <1>3, <1>4, <1>6, LoadsKeep, NamesKeep, PricesKeep DEF SameLoads, SameEditor, SameStore
<1>8. WaitsFit(u)
  <2> SUFFICES ASSUME u.waits PROVE ~u.unseen /\ LinesFit(u) /\ CalculationFits(u) /\ DeletionFits(u) /\ NothingDue(u)
    BY DEF WaitsFit
  <2>1. /\ NothingDue(b) /\ LinesFit(b) /\ ~b.unseen /\ b.dialog = "line"
        /\ \A c \in b.calls : c.kind = "line" => c.generation < b.calculation
        /\ IF b.lineIndex \in DOMAIN b.editorItems THEN b.text = b.editorItems[b.lineIndex].text
           ELSE b.text = <<b.ticket, NewLine>>
    BY <1>6 DEF SameUser
  <2>2. LinesFit(u) /\ DeletionFits(u)
    BY <1>6, <2>1 DEF LinesFit, SameEditor, SameStore, DeletionFits, SameQuestion
  <2>3. NothingDue(u)
    BY <1>3, <1>4, <1>6, <2>1, PlacedKeeps DEF NothingDue, Due
  <2>4. ASSUME NEW c \in u.calls, c.kind = "line"
        PROVE  c.generation <= u.calculation /\ (c.generation = u.calculation <=> c = d)
    <3>1. c.generation \in Nat
      BY <1>4, <1>6, <2>4, HistoryCallTypes
    <3> QED
      BY <1>2, <1>3, <1>4, <1>6, <2>1, <2>4, <3>1
  <2>5. u.dialog = "line" /\ d \in u.calls /\ Counts(u, d)
    BY <1>3, <1>4, <1>6, <2>1 DEF Counts, SameQuestion
  <2>6. CalculationFits(u)
    BY <1>3, <1>6, <2>1, <2>4, <2>5 DEF CalculationFits, Counts, SameEditor
  <2> QED
    BY <1>6, <2>1, <2>2, <2>3, <2>6 DEF SameUser
<1>9. HistoryInv(u)
  BY <1>5, <1>7, <1>8 DEF HistoryInv
<1> QED
  BY <1>1, <1>9

LEMMA TimerFiring == ASSUME HistoryInv(history), LineTimerFires PROVE HistoryInv(history')
<1>1. history \in HistoryRecord /\ history.timer /\ history' = CalculateLine(history, FALSE)
  BY LoadsBoundedNow DEF LineTimerFires
<1>2. ASSUME history.waits
      PROVE  /\ ~history.unseen /\ LinesFit(history) /\ DeletionFits(history) /\ NothingDue(history) /\ history.dialog = "line"
             /\ \A c \in history.calls : c.kind = "line" => c.generation < history.calculation
             /\ IF history.lineIndex \in DOMAIN history.editorItems
                THEN history.text = history.editorItems[history.lineIndex].text ELSE history.text = <<history.ticket, NewLine>>
  <2>1. CalculationFits(history)
    BY <1>2 DEF HistoryInv, WaitsFit
  <2>2. history.dialog = "line"
    BY <1>1, <2>1 DEF CalculationFits
  <2> QED
    BY <1>1, <1>2, <2>1, <2>2, LineWaits DEF HistoryInv, WaitsFit, CalculationFits
<1> QED
  BY <1>1, <1>2, Calculating DEF HistoryInv

LEMMA SavingLine == ASSUME HistoryInv(history), SaveLine PROVE HistoryInv(history')
<1> DEFINE More == history.calculation + 1
           Busy == history.busy \cup {"line"}
           u == [history EXCEPT !.busy = Busy, !.calculation = More]
<1>1. /\ history \in HistoryRecord /\ More \in Nat /\ history.calculation \in Nat /\ More = history.calculation + 1
      /\ Busy \in SUBSET {"ticket", "line"}
  BY LoadsBoundedNow, HistoryFields
<1>2. history.dialog = "line" /\ history' = [CalculateLine(u, TRUE) EXCEPT !.acts = @ + 1]
  BY <1>1 DEF SaveLine, HistoryAct
<1> HIDE DEF More, Busy
<1>3. u \in HistoryRecord
  BY <1>1, HistoryFields, CalculationTyped
<1>4. /\ u.calls = history.calls /\ SameRows(u, history) /\ SameStore(u, history) /\ SamePlace(u, history)
      /\ SameEditor(u, history) /\ SameQuestion(u, history) /\ SameUser(u, history) /\ u.lineIndex = history.lineIndex
      /\ u.text = history.text /\ u.calculation = More
  BY <1>1 DEF HistoryRecord, SameRows, SameStore, SamePlace, SameEditor, SameQuestion, SameUser
<1> HIDE DEF u
<1>5. LoadsFit(u) /\ NamesFit(u) /\ PricesFit(u)
  BY <1>4, LoadsKeep, NamesKeep, PricesKeep DEF HistoryInv, SameLoads, SameEditor, SameStore
<1>6. ASSUME u.waits
      PROVE  /\ ~u.unseen /\ LinesFit(u) /\ DeletionFits(u) /\ NothingDue(u) /\ u.dialog = "line"
             /\ \A c \in u.calls : c.kind = "line" => c.generation < u.calculation
             /\ IF u.lineIndex \in DOMAIN u.editorItems THEN u.text = u.editorItems[u.lineIndex].text
                ELSE u.text = <<u.ticket, NewLine>>
  <2>1. NothingDue(history) /\ LinesFit(history) /\ CalculationFits(history) /\ ~history.unseen
    BY <1>2, <1>4, <1>6, LineWaits DEF HistoryInv, WaitsFit, SameUser
  <2>2. LinesFit(u) /\ DeletionFits(u) /\ NothingDue(u)
    BY <1>2, <1>4, <2>1, PlacedKeeps DEF LinesFit, SameEditor, SameStore, DeletionFits, SameQuestion, NothingDue, Due
  <2>3. ASSUME NEW c \in u.calls, c.kind = "line" PROVE c.generation < u.calculation
    <3>1. c.generation <= history.calculation
      BY <1>4, <2>1, <2>3 DEF CalculationFits
    <3>2. c.generation \in Nat
      BY <1>1, <1>4, <2>3, HistoryFields, HistoryCallTypes
    <3> QED
      BY <1>1, <1>4, <3>1, <3>2
  <2>4. IF u.lineIndex \in DOMAIN u.editorItems THEN u.text = u.editorItems[u.lineIndex].text
        ELSE u.text = <<u.ticket, NewLine>>
    BY <1>2, <1>4, <2>1 DEF CalculationFits, SameEditor
  <2> QED
    BY <1>2, <1>4, <2>1, <2>2, <2>3, <2>4 DEF SameUser, SameQuestion
<1>7. HistoryInv(CalculateLine(u, TRUE))
  BY <1>3, <1>5, <1>6, Calculating
<1> QED
  BY <1>2, <1>7, HistoryActKeeps

--------------------------------------------------------------------------------
(* The dialogs of the history and what they delete.                          *)

LEMMA ClosingHistoryDialog == ASSUME HistoryInv(history), CloseLineDialog \/ CloseDeleteDialog PROVE HistoryInv(history')
<1> DEFINE u == [history EXCEPT !.dialog = "none"]
<1>1. history \in HistoryRecord
  BY LoadsBoundedNow
<1>2. MayGoOn(history) /\ history' = [u EXCEPT !.acts = @ + 1]
  BY DEF CloseLineDialog, CloseDeleteDialog, HistoryAct
<1>3. u \in HistoryRecord
  BY <1>1, ZenonT(60) DEF HistoryRecord
<1>4. /\ u.calls = history.calls /\ SameRows(u, history) /\ SameStore(u, history) /\ SamePlace(u, history)
      /\ SameEditor(u, history) /\ SameCalculation(u, history) /\ SameUser(u, history) /\ u.dialog = "none"
  BY <1>1 DEF HistoryRecord, SameRows, SameStore, SamePlace, SameEditor, SameCalculation, SameUser
<1> HIDE DEF u
<1>5. LoadsFit(u) /\ NamesFit(u) /\ PricesFit(u)
  BY <1>4, LoadsKeep, PricesKeep DEF HistoryInv, NamesFit, SameLoads, SameEditor, SameStore, SameUser
<1>6. ASSUME u.waits
      PROVE  ~u.unseen /\ LinesFit(u) /\ DeletionFits(u) /\ ~u.timer /\ u.dialog # "line" /\ Placed(u) /\ Due(u) = {}
  <2>1. Due(history) = {} /\ ~history.timer /\ LinesFit(history) /\ ~history.unseen /\ Placed(history)
    BY <1>2, <1>4, <1>6, MayGoOnIs DEF SameUser
  <2>2. LinesFit(u) /\ Placed(u) /\ DeletionFits(u)
    BY <1>4, <2>1, PlacedKeeps DEF LinesFit, SameEditor, SameStore, DeletionFits
  <2> QED
    BY <1>4, <2>1, <2>2 DEF Due, SameUser, SameCalculation
<1>7. HistoryInv(u)
  BY <1>3, <1>5, <1>6, CalmIs
<1> QED
  BY <1>2, <1>7, HistoryActKeeps

DeletionTyped(b, Named, Bulk, t, Pending) ==
  [b EXCEPT !.dialog = "delete", !.named = Named, !.confirm = FALSE, !.known = {}, !.bulkDeleteIds = Bulk, !.ticketId = t,
            !.calls = Pending]

LEMMA DeletionIsTyped ==
  ASSUME NEW b \in HistoryRecord, NEW Named \in SUBSET Tickets, NEW Bulk \in SUBSET Tickets,
         NEW t \in Tickets \cup {NoTicket}, NEW Pending \in SUBSET HistoryCalls
  PROVE  DeletionTyped(b, Named, Bulk, t, Pending) \in HistoryRecord
<1> DEFINE Nought == {}
           u == [b EXCEPT !.dialog = "delete", !.named = Named, !.confirm = FALSE, !.known = Nought, !.bulkDeleteIds = Bulk,
                          !.ticketId = t, !.calls = Pending]
<1>1. Nought \in SUBSET Tickets
  OBVIOUS
<1>2. DeletionTyped(b, Named, Bulk, t, Pending) = u
  BY DEF DeletionTyped
<1> HIDE DEF Nought
<1>3. u \in HistoryRecord
  BY <1>1, ZenonT(60) DEF HistoryRecord
<1> QED
  BY <1>2, <1>3

\* The dialog of a deletion opens, and asks what would be lost.
LEMMA AskingDeletion ==
  ASSUME HistoryInv(history), NEW doomed \in SUBSET Tickets, NEW Bulk \in SUBSET Tickets, NEW t \in Tickets \cup {NoTicket},
         doomed = IF Bulk # {} THEN Bulk ELSE {t} \ {NoTicket}, MayGoOn(history),
         history.screen = "list" \/ (Bulk = {} /\ t = history.ticket)
  PROVE  HistoryInv(DeletionTyped(history, doomed, Bulk, t, history.calls \cup {[kind |-> "impact", of |-> doomed]}))
<1> DEFINE d == [kind |-> "impact", of |-> doomed]
           Pending == history.calls \cup {d}
           u == DeletionTyped(history, doomed, Bulk, t, Pending)
<1>1. history \in HistoryRecord /\ history.calls \in SUBSET HistoryCalls
  BY LoadsBoundedNow, HistoryFields
<1>2. d \in HistoryCalls /\ d.kind = "impact" /\ d.of = doomed /\ ~PlainLoad(d)
  BY DEF HistoryCalls, PlainLoad
<1> HIDE DEF d
<1>3. Pending \in SUBSET HistoryCalls /\ Pending = history.calls \cup {d}
  BY <1>1, <1>2
<1> HIDE DEF Pending
<1>4. u \in HistoryRecord
  BY <1>1, <1>3, DeletionIsTyped
<1>5. /\ u.calls = Pending /\ SameRows(u, history) /\ SameStore(u, history) /\ SamePlace(u, history)
      /\ SameEditor(u, history) /\ SameCalculation(u, history) /\ SameUser(u, history) /\ u.dialog = "delete"
      /\ u.named = doomed /\ ~u.confirm /\ u.bulkDeleteIds = Bulk /\ u.ticketId = t
  BY <1>1 DEF DeletionTyped, HistoryRecord, SameRows, SameStore, SamePlace, SameEditor, SameCalculation, SameUser
<1> HIDE DEF u
<1>6. LoadsFit(u) /\ PricesFit(u)
  BY <1>2, <1>3, <1>5, LoadsKeep, PricesKeep DEF HistoryInv, SameLoads, SameEditor, SameStore
<1>7. NamesFit(u)
  BY <1>5 DEF HistoryInv, NamesFit, DoomedTickets, SameUser
<1>8. ASSUME u.waits
      PROVE  ~u.unseen /\ LinesFit(u) /\ DeletionFits(u) /\ ~u.timer /\ u.dialog # "line" /\ OneDue(u)
  <2>1. Due(history) = {} /\ ~history.timer /\ LinesFit(history) /\ ~history.unseen /\ Placed(history)
    BY <1>5, <1>8, MayGoOnIs DEF SameUser
  <2>2. LinesFit(u) /\ Placed(u) /\ DeletionFits(u)
    BY <1>5, <2>1, PlacedKeeps DEF LinesFit, SameEditor, SamePlace, SameStore, DeletionFits
  <2>3. Due(u) = {d} /\ d \in u.calls
    BY <1>2, <1>3, <1>5, <2>1 DEF Due
  <2>4. TicketDue(u, d)
    BY <1>2, <1>5, <2>2 DEF TicketDue
  <2> QED
    BY <1>5, <2>1, <2>2, <2>3, <2>4 DEF OneDue, SameUser, SameCalculation
<1>9. HistoryInv(u)
  BY <1>4, <1>6, <1>7, <1>8, CalmIs
<1> QED
  BY <1>9 DEF u, Pending, d

LEMMA OpeningDeletion == ASSUME HistoryInv(history), NEW t \in Tickets, OpenDeleteDialog(t) PROVE HistoryInv(history')
<1> DEFINE Pending == history.calls \cup {[kind |-> "impact", of |-> {t}]}
           u == DeletionTyped(history, {t}, {}, t, Pending)
<1>1. history \in HistoryRecord
  BY LoadsBoundedNow
<1>2. /\ MayGoOn(history) /\ (history.screen = "list" \/ t = history.ticket)
      /\ history' = [[AskDeletion(history, {t}, FALSE) EXCEPT !.ticketId = t] EXCEPT !.acts = @ + 1]
  BY DEF OpenDeleteDialog, HistoryAct
<1>3. [AskDeletion(history, {t}, FALSE) EXCEPT !.ticketId = t] = u
  BY <1>1, ZenonT(60) DEF AskDeletion, DeletionTyped, HistoryRecord
<1>4. t # NoTicket
  BY HistoryAssumption
<1> HIDE DEF u
<1>5. HistoryInv(u)
  <2>1. {t} \in SUBSET Tickets /\ {} \in SUBSET Tickets /\ {t} = {t} \ {NoTicket}
    BY <1>4
  <2> QED
    BY <1>2, <2>1, AskingDeletion DEF u
<1> QED
  BY <1>2, <1>3, <1>5, HistoryActKeeps

LEMMA OpeningBulkDeletion == ASSUME HistoryInv(history), OpenBulkDeleteDialog PROVE HistoryInv(history')
<1> DEFINE Bulk == history.selection
           Pending == history.calls \cup {[kind |-> "impact", of |-> Bulk]}
           u == DeletionTyped(history, Bulk, Bulk, NoTicket, Pending)
<1>1. history \in HistoryRecord /\ Bulk \in SUBSET Tickets
  BY LoadsBoundedNow, HistoryFields
<1>2. /\ MayGoOn(history) /\ history.screen = "list" /\ Bulk # {}
      /\ history' = [[AskDeletion(history, history.selection, TRUE) EXCEPT !.ticketId = NoTicket] EXCEPT !.acts = @ + 1]
  BY DEF OpenBulkDeleteDialog, HistoryAct, OnList
<1>3. [AskDeletion(history, history.selection, TRUE) EXCEPT !.ticketId = NoTicket] = u
  BY <1>1, ZenonT(60) DEF AskDeletion, DeletionTyped, HistoryRecord
<1> HIDE DEF u, Bulk
<1>4. HistoryInv(u)
  BY <1>1, <1>2, AskingDeletion DEF u
<1> QED
  BY <1>2, <1>3, <1>4, HistoryActKeeps

LEMMA ConfirmTyped ==
  ASSUME NEW b \in HistoryRecord, NEW Pending \in SUBSET HistoryCalls, NEW unnamed \in BOOLEAN, NEW unseen \in BOOLEAN
  PROVE  [b EXCEPT !.confirm = FALSE, !.unnamed = unnamed, !.unseen = unseen, !.calls = Pending] \in HistoryRecord
BY ZenonT(60) DEF HistoryRecord

LEMMA ConfirmingDeletion == ASSUME HistoryInv(history), ConfirmDelete PROVE HistoryInv(history')
<1> DEFINE doomed == DoomedTickets(history)
           bulk == history.bulkDeleteIds # {}
           d == [kind |-> "delete", of |-> doomed, bulk |-> bulk]
           Pending == history.calls \cup {d}
           unnamed == history.unnamed \/ doomed # history.named
           unseen == history.unseen \/ history.known # doomed
           u == [history EXCEPT !.confirm = FALSE, !.unnamed = unnamed, !.unseen = unseen, !.calls = Pending]
<1>1. history \in HistoryRecord /\ history.calls \in SUBSET HistoryCalls
  BY LoadsBoundedNow, HistoryFields
<1>2. history.dialog = "delete" /\ history.confirm /\ history' = [u EXCEPT !.acts = @ + 1]
  BY <1>1 DEF ConfirmDelete, HistoryAct, HistoryRecord
<1>3. doomed \in SUBSET Tickets /\ doomed = history.named /\ bulk \in BOOLEAN
  BY <1>1, <1>2, HistoryFields DEF HistoryInv, NamesFit
<1>4. d \in HistoryCalls /\ d.kind = "delete" /\ d.of = history.named /\ (d.bulk <=> bulk) /\ ~PlainLoad(d)
  <2> HIDE DEF doomed, bulk
  <2> QED
    BY <1>3 DEF HistoryCalls, PlainLoad
<1>5. unnamed \in BOOLEAN /\ unseen \in BOOLEAN /\ ~unnamed /\ (unseen <=> history.unseen \/ history.known # history.named)
  BY <1>1, <1>3, HistoryFields DEF HistoryInv, NamesFit
<1> HIDE DEF d
<1>6. Pending \in SUBSET HistoryCalls /\ Pending = history.calls \cup {d} /\ (bulk <=> history.bulkDeleteIds # {})
  BY <1>1, <1>4
<1> HIDE DEF Pending, doomed, bulk, unnamed, unseen
<1>7. u \in HistoryRecord
  BY <1>1, <1>5, <1>6, ConfirmTyped
<1>8. /\ u.calls = Pending /\ SameRows(u, history) /\ SameStore(u, history) /\ SamePlace(u, history)
      /\ SameEditor(u, history) /\ SameCalculation(u, history) /\ u.dialog = history.dialog /\ u.named = history.named
      /\ u.known = history.known /\ u.ticketId = history.ticketId /\ u.bulkDeleteIds = history.bulkDeleteIds
      /\ ~u.confirm /\ u.waits = history.waits /\ u.unnamed = unnamed /\ u.unseen = unseen
  BY <1>1 DEF HistoryRecord, SameRows, SameStore, SamePlace, SameEditor, SameCalculation
<1> HIDE DEF u
<1>9. LoadsFit(u) /\ PricesFit(u)
  BY <1>4, <1>6, <1>8, LoadsKeep, PricesKeep DEF HistoryInv, SameLoads, SameEditor, SameStore
<1>10. NamesFit(u)
  BY <1>5, <1>8 DEF HistoryInv, NamesFit, DoomedTickets
<1>11. ASSUME u.waits
       PROVE  ~u.unseen /\ LinesFit(u) /\ DeletionFits(u) /\ ~u.timer /\ u.dialog # "line" /\ OneDue(u)
  <2>1. /\ LinesFit(history) /\ ~history.unseen /\ CalculationFits(history) /\ DeletionFits(history)
        /\ (NothingDue(history) \/ OneDue(history))
    BY <1>8, <1>11 DEF HistoryInv, WaitsFit
  <2>2. history.known = history.named /\ ~history.timer
    BY <1>2, <2>1 DEF DeletionFits, CalculationFits
  <2>3. \A c \in history.calls : c.kind # "line"
    BY <1>2, <2>1 DEF CalculationFits
  <2>4. ASSUME NEW c \in history.calls, TicketDue(history, c) PROVE FALSE
    <3>1. c.kind \in {"list", "open", "save", "line", "impact", "delete"}
      BY <1>1, HistoryCallTypes
    <3> QED
      BY <1>2, <2>4, <3>1 DEF TicketDue
  <2>5. Due(history) = {} /\ Placed(history)
    BY <2>1, <2>3, <2>4 DEF NothingDue, OneDue, Due
  <2>6. LinesFit(u) /\ Placed(u) /\ DeletionFits(u)
    BY <1>8, <2>1, <2>5, PlacedKeeps DEF LinesFit, SameEditor, SamePlace, SameStore, DeletionFits
  <2>7. Due(u) = {d} /\ d \in u.calls
    BY <1>4, <1>6, <1>8, <2>5 DEF Due
  <2>8. TicketDue(u, d)
    BY <1>2, <1>4, <1>6, <1>8, <2>2, <2>6 DEF TicketDue
  <2> QED
    BY <1>2, <1>5, <1>8, <2>1, <2>2, <2>6, <2>7, <2>8 DEF OneDue, SameCalculation
<1>12. HistoryInv(u)
  BY <1>7, <1>9, <1>10, <1>11, CalmIs
<1> QED
  BY <1>2, <1>12, HistoryActKeeps

--------------------------------------------------------------------------------

\* The answer that a user who waits is waiting for.
LEMMA AnswerIs ==
  ASSUME HistoryInv(history), NEW c \in history.calls, ~PlainLoad(c), c.kind # "line", history.waits
  PROVE  /\ Due(history) = {c} /\ TicketDue(history, c) /\ ~history.timer /\ history.dialog # "line"
         /\ ~history.unseen /\ LinesFit(history) /\ DeletionFits(history)
<1>1. c \in Due(history)
  BY DEF Due
<1>2. ~NothingDue(history)
  BY <1>1 DEF NothingDue
<1>3. OneDue(history) /\ ~history.unseen /\ LinesFit(history) /\ DeletionFits(history) /\ CalculationFits(history)
  BY <1>2 DEF HistoryInv, WaitsFit
<1>4. Due(history) = {c} /\ TicketDue(history, c)
  BY <1>1, <1>3 DEF OneDue
<1>5. history.dialog # "line"
  BY <1>2, LineWaits
<1> QED
  BY <1>3, <1>4, <1>5 DEF CalculationFits

LEMMA OneLess ==
  ASSUME HistoryInv(history), NEW c \in history.calls
  PROVE  /\ history \in HistoryRecord /\ c \in HistoryCalls /\ history.calls \ {c} \in SUBSET HistoryCalls
         /\ history.calls \in SUBSET HistoryCalls
BY HistoryFields DEF HistoryInv

LEMMA DoneIs ==
  ASSUME HistoryInv(history), NEW c \in history.calls
  PROVE  /\ Done(c) \in HistoryRecord /\ Done(c).calls = history.calls \ {c}
         /\ SameRows(Done(c), history) /\ SameStore(Done(c), history) /\ SamePlace(Done(c), history)
         /\ SameEditor(Done(c), history) /\ SameQuestion(Done(c), history) /\ SameCalculation(Done(c), history)
         /\ SameUser(Done(c), history) /\ Done(c).busy = history.busy
         /\ LoadsFit(Done(c)) /\ NamesFit(Done(c)) /\ PricesFit(Done(c))
<1> DEFINE Pending == history.calls \ {c}
           u == [history EXCEPT !.calls = Pending]
<1>1. history \in HistoryRecord /\ Pending \in SUBSET HistoryCalls
  BY OneLess
<1>2. Done(c) = u
  BY DEF Done
<1> HIDE DEF Pending
<1>3. u \in HistoryRecord
  BY <1>1, ZenonT(60) DEF HistoryRecord
<1>4. /\ u.calls = Pending /\ SameRows(u, history) /\ SameStore(u, history) /\ SamePlace(u, history)
      /\ SameEditor(u, history) /\ SameQuestion(u, history) /\ SameCalculation(u, history) /\ SameUser(u, history)
      /\ u.busy = history.busy
  BY <1>1 DEF HistoryRecord, SameRows, SameStore, SamePlace, SameEditor, SameQuestion, SameCalculation, SameUser
<1> HIDE DEF u
<1>5. Pending = history.calls \ {c}
  BY DEF Pending
<1>6. NamesFit(u) /\ PricesFit(u) /\ LoadsFit(u)
  BY <1>4, <1>5, NamesKeep, PricesKeep DEF HistoryInv, SameEditor, SameStore, LoadsFit, SameRows
<1> QED
  BY <1>2, <1>3, <1>4, <1>5, <1>6

\* A load of the list comes or goes.
LEMMA LoadMoves ==
  ASSUME HistoryInv(history), NEW u \in HistoryRecord, LoadsFit(u), SameStore(u, history), SamePlace(u, history),
         SameEditor(u, history), SameQuestion(u, history), SameCalculation(u, history), SameUser(u, history),
         \A c : c.kind # "list" => (c \in u.calls <=> c \in history.calls),
         u.waits => Due(u) = Due(history) \/ OneDue(u)
  PROVE  HistoryInv(u)
<1>1. NamesFit(u) /\ PricesFit(u)
  BY NamesKeep, PricesKeep DEF HistoryInv, SameEditor, SameStore
<1>2. WaitsFit(u)
  <2> SUFFICES ASSUME u.waits PROVE ~u.unseen /\ LinesFit(u) /\ CalculationFits(u) /\ DeletionFits(u) /\ (NothingDue(u) \/ OneDue(u))
    BY DEF WaitsFit
  <2>1. /\ history.waits /\ ~history.unseen /\ LinesFit(history) /\ CalculationFits(history) /\ DeletionFits(history)
        /\ (NothingDue(history) \/ OneDue(history))
    BY DEF HistoryInv, WaitsFit, SameUser
  <2>2. LinesFit(u) /\ DeletionFits(u) /\ ~u.unseen
    BY <2>1, DeletionKeeps DEF LinesFit, SamePlace, SameEditor, SameStore, SameUser
  <2>3. CalculationFits(u)
    BY <2>1 DEF CalculationFits, Counts, SameEditor, SameQuestion, SameCalculation
  <2>4. Placed(history) => Placed(u)
    BY PlacedKeeps
  <2>5. ASSUME NEW c, TicketDue(history, c) PROVE TicketDue(u, c)
    BY <2>4, <2>5 DEF TicketDue, SamePlace, SameEditor, SameQuestion
  <2>6. Due(u) = Due(history) => NothingDue(u) \/ OneDue(u)
    <3> SUFFICES ASSUME Due(u) = Due(history) PROVE NothingDue(u) \/ OneDue(u)
      OBVIOUS
    <3>1. CASE NothingDue(history)
      BY <2>4, <3>1 DEF NothingDue
    <3>2. CASE OneDue(history)
      <4>1. PICK c \in history.calls : Due(history) = {c} /\ TicketDue(history, c)
        BY <3>2 DEF OneDue
      <4>2. c \in u.calls
        BY <4>1 DEF Due
      <4> QED
        BY <2>5, <4>1, <4>2 DEF OneDue
    <3> QED
      BY <2>1, <3>1, <3>2
  <2> QED
    BY <2>2, <2>3, <2>6
<1> QED
  BY <1>1, <1>2 DEF HistoryInv

\* A load has ended, and the ticket of the address is asked for if it was waited for.
LEMMA AfterLoadKeeps ==
  ASSUME HistoryInv(history), NEW c \in history.calls, c.kind = "list", NEW b \in HistoryRecord,
         b.calls = history.calls \ {c}, SameStore(b, history), SamePlace(b, history), SameEditor(b, history),
         SameQuestion(b, history), SameCalculation(b, history), SameUser(b, history), LoadsFit(b)
  PROVE  HistoryInv(AfterLoad(b, c))
<1>1. c \in HistoryCalls /\ c.opens \in Tickets \cup {OpenNone}
  BY OneLess, HistoryCallTypes
<1>2. CASE c.opens = OpenNone
  <2>1. PlainLoad(c)
    BY <1>2 DEF PlainLoad
  <2>2. Due(b) = Due(history)
    BY <2>1 DEF Due
  <2>3. HistoryInv(b)
    BY <2>2, LoadMoves
  <2> QED
    BY <1>2, <2>3 DEF AfterLoad
<1>3. CASE c.opens # OpenNone
  <2>1. ~PlainLoad(c) /\ c.opens \in Tickets
    BY <1>1, <1>3 DEF PlainLoad
  <2>2. NamesFit(b) /\ PricesFit(b)
    BY NamesKeep, PricesKeep DEF HistoryInv, SameEditor, SameStore
  <2>3. ASSUME b.waits
        PROVE  ~b.unseen /\ LinesFit(b) /\ Due(b) = {} /\ ~b.timer /\ b.dialog = "none" /\ b.route = c.opens
    <3>1. /\ Due(history) = {c} /\ TicketDue(history, c) /\ ~history.timer /\ ~history.unseen /\ LinesFit(history)
      BY <2>1, <2>3, AnswerIs DEF SameUser
    <3>2. Due(b) = {}
      BY <3>1 DEF Due
    <3> QED
      BY <3>1, <3>2 DEF TicketDue, LinesFit, SameUser, SameEditor, SameStore, SameCalculation, SameQuestion, SamePlace
  <2>4. HistoryInv(OpenTicket(b, c.opens, FALSE))
    BY <2>1, <2>2, <2>3, TicketAsked
  <2> QED
    BY <1>3, <2>4 DEF AfterLoad
<1> QED
  BY <1>2, <1>3

LEMMA MetadataOfHistory ==
  ASSUME HistoryInv(history), NEW c \in history.calls, HistoryMetadata(c) PROVE HistoryInv(history')
<1>1. c.kind = "list" /\ c.stage = "metadata" /\ history \in HistoryRecord /\ c \in HistoryCalls
  BY OneLess DEF HistoryMetadata
<1>2. CASE ~LatestLoad(c)
  <2>1. HistoryInv(AfterLoad(Done(c), c))
    BY <1>1, AfterLoadKeeps, DoneIs
  <2> QED
    BY <1>2, <2>1 DEF HistoryMetadata
<1>3. CASE LatestLoad(c)
  <2> DEFINE e == [c EXCEPT !.stage = "tickets", !.filters = history.filters]
             Pending == (history.calls \ {c}) \cup {e}
             u == [history EXCEPT !.calls = Pending]
  <2>1. history.filters \in TicketFilters /\ history.calls \in SUBSET HistoryCalls
    BY <1>1, HistoryFields
  <2>2. /\ e \in HistoryCalls /\ e.kind = "list" /\ e.opens = c.opens /\ e.generation = c.generation /\ e.stage = "tickets"
        /\ e.filters = history.filters
    BY <1>1, <2>1 DEF HistoryCalls
  <2> HIDE DEF e
  <2>3. Pending \in SUBSET HistoryCalls /\ Pending = (history.calls \ {c}) \cup {e}
    BY <2>1, <2>2
  <2>4. history' = u
    BY <1>1, <1>3 DEF HistoryMetadata, Done, HistoryRecord, e
  <2> HIDE DEF Pending
  <2>5. u \in HistoryRecord
    BY <1>1, <2>3, CallsTyped
  <2>6. /\ u.calls = Pending /\ SameRows(u, history) /\ SameStore(u, history) /\ SamePlace(u, history)
        /\ SameEditor(u, history) /\ SameQuestion(u, history) /\ SameCalculation(u, history) /\ SameUser(u, history)
    BY <1>1 DEF HistoryRecord, SameRows, SameStore, SamePlace, SameEditor, SameQuestion, SameCalculation, SameUser
  <2> HIDE DEF u
  <2>7. LoadsFit(u)
    <3>1. c.generation <= history.loadGeneration
      BY <1>1 DEF HistoryInv, LoadsFit
    <3> QED
      BY <2>2, <2>3, <2>6, <3>1 DEF HistoryInv, LoadsFit, SameRows
  <2>8. \A d : d.kind # "list" => (d \in u.calls <=> d \in history.calls)
    BY <1>1, <2>2, <2>3, <2>6
  <2>9. u.waits => Due(u) = Due(history) \/ OneDue(u)
    <3>1. CASE c.opens = OpenNone
      <4>1. Due(u) = Due(history)
        BY <1>1, <2>2, <2>3, <2>6, <3>1 DEF Due, PlainLoad
      <4> QED
        BY <4>1
    <3>2. ASSUME c.opens # OpenNone, u.waits PROVE OneDue(u)
      <4>1. ~PlainLoad(c) /\ ~PlainLoad(e)
        BY <2>2, <3>2 DEF PlainLoad
      <4>2. Due(history) = {c} /\ TicketDue(history, c)
        BY <1>1, <2>6, <3>2, <4>1, AnswerIs DEF SameUser
      <4>3. Due(u) = {e} /\ e \in u.calls
        BY <2>3, <2>6, <4>1, <4>2 DEF Due
      <4>4. TicketDue(u, e)
        BY <1>1, <2>2, <2>6, <4>2 DEF TicketDue, SamePlace, SameQuestion
      <4> QED
        BY <4>3, <4>4 DEF OneDue
    <3> QED
      BY <3>1, <3>2
  <2>10. HistoryInv(u)
    BY <2>5, <2>6, <2>7, <2>8, <2>9, LoadMoves
  <2> QED
    BY <2>4, <2>10
<1> QED
  BY <1>2, <1>3

LEMMA RowsTyped ==
  ASSUME NEW b \in HistoryRecord, NEW listed \in TicketFilters, NEW status \in {"loading", "found", "failed"},
         NEW latest \in {"loading", "found", "failed"}
  PROVE  [b EXCEPT !.listed = listed, !.status = status, !.latest = latest] \in HistoryRecord
BY ZenonT(60) DEF HistoryRecord

LEMMA RowsWritten ==
  ASSUME HistoryInv(history), NEW c \in history.calls, c.kind = "list", NEW listed \in TicketFilters,
         NEW status \in {"loading", "found", "failed"}, NEW latest \in {"loading", "found", "failed"},
         status = "found" => listed = history.filters, status = "failed" => latest = "failed"
  PROVE  HistoryInv(AfterLoad([Done(c) EXCEPT !.listed = listed, !.status = status, !.latest = latest], c))
<1> DEFINE b == Done(c)
           u == [b EXCEPT !.listed = listed, !.status = status, !.latest = latest]
<1>1. /\ b \in HistoryRecord /\ b.calls = history.calls \ {c}
      /\ SameRows(b, history) /\ SameStore(b, history) /\ SamePlace(b, history)
      /\ SameEditor(b, history) /\ SameQuestion(b, history) /\ SameCalculation(b, history)
      /\ SameUser(b, history) /\ LoadsFit(b)
  BY DoneIs
<1> HIDE DEF b
<1>2. u \in HistoryRecord
  BY <1>1, RowsTyped
<1>3. /\ u.calls = b.calls /\ SameStore(u, b) /\ SamePlace(u, b)
      /\ SameEditor(u, b) /\ SameQuestion(u, b) /\ SameCalculation(u, b) /\ SameUser(u, b)
      /\ u.listed = listed /\ u.status = status /\ u.latest = latest /\ u.filters = b.filters
      /\ u.loadGeneration = b.loadGeneration
  BY <1>1 DEF HistoryRecord, SameStore, SamePlace, SameEditor, SameQuestion, SameCalculation, SameUser
<1> HIDE DEF u
<1>4. /\ u.calls = history.calls \ {c} /\ SameStore(u, history) /\ SamePlace(u, history)
      /\ SameEditor(u, history) /\ SameQuestion(u, history) /\ SameCalculation(u, history) /\ SameUser(u, history)
  BY <1>1, <1>3 DEF SameStore, SamePlace, SameEditor, SameQuestion, SameCalculation, SameUser
<1>5. LoadsFit(u)
  BY <1>1, <1>3 DEF LoadsFit, SameRows
<1>6. HistoryInv(AfterLoad(u, c))
  BY <1>2, <1>4, <1>5, AfterLoadKeeps
<1> QED
  BY <1>6 DEF u, b

LEMMA HistoryComes ==
  ASSUME HistoryInv(history), NEW c \in history.calls, HistoryAnswered(c) \/ HistoryFails(c) PROVE HistoryInv(history')
<1>1. /\ c.kind = "list" /\ history \in HistoryRecord /\ c \in HistoryCalls /\ c.filters \in TicketFilters
      /\ history.listed \in TicketFilters /\ history.status \in {"loading", "found", "failed"}
      /\ history.latest \in {"loading", "found", "failed"}
      /\ (history.status = "found" => history.listed = history.filters)
      /\ (history.status = "failed" => history.latest = "failed")
  BY OneLess, HistoryFields, HistoryCallTypes DEF HistoryAnswered, HistoryFails, HistoryInv, LoadsFit
<1>2. /\ Done(c) \in HistoryRecord /\ Done(c).listed = history.listed /\ Done(c).status = history.status
      /\ Done(c).latest = history.latest
  BY DoneIs DEF SameRows
<1>3. CASE HistoryAnswered(c)
  <2>1. CASE LatestLoad(c)
    <3>1. history' = AfterLoad([Done(c) EXCEPT !.listed = c.filters, !.status = "found", !.latest = "found"], c)
      BY <1>3, <2>1 DEF HistoryAnswered
    <3>2. c.filters = history.filters
      BY <1>1, <1>3, <2>1 DEF HistoryAnswered, LatestLoad, HistoryInv, LoadsFit
    <3>3. HistoryInv(AfterLoad([Done(c) EXCEPT !.listed = c.filters, !.status = "found", !.latest = "found"], c))
      BY <1>1, <3>2, RowsWritten
    <3> QED
      BY <3>1, <3>3
  <2>2. CASE ~LatestLoad(c)
    <3>1. history' = AfterLoad(Done(c), c)
      BY <1>3, <2>2 DEF HistoryAnswered
    <3>2. HistoryInv(AfterLoad(Done(c), c))
      BY <1>1, AfterLoadKeeps, DoneIs
    <3> QED
      BY <3>1, <3>2
  <2> QED
    BY <2>1, <2>2
<1>4. CASE HistoryFails(c)
  <2> DEFINE silent == (c.aborted /\ c.stage = "tickets") \/ ~LatestLoad(c)
             status == IF silent THEN history.status ELSE "failed"
             latest == IF LatestLoad(c) THEN "failed" ELSE history.latest
             u == [Done(c) EXCEPT !.listed = history.listed, !.status = status, !.latest = latest]
  <2>1. history' = AfterLoad(u, c)
    <3>1. [Done(c) EXCEPT !.status = IF silent THEN @ ELSE "failed", !.latest = IF LatestLoad(c) THEN "failed" ELSE @] = u
      BY <1>2, ZenonT(60) DEF HistoryRecord
    <3> QED
      BY <1>4, <3>1 DEF HistoryFails
  <2>2. /\ status \in {"loading", "found", "failed"} /\ latest \in {"loading", "found", "failed"}
        /\ (status = "found" => history.listed = history.filters) /\ (status = "failed" => latest = "failed")
    BY <1>1
  <2> HIDE DEF status, latest
  <2>3. HistoryInv(AfterLoad(u, c))
    BY <1>1, <2>2, RowsWritten
  <2> QED
    BY <2>1, <2>3
<1> QED
  BY <1>3, <1>4

--------------------------------------------------------------------------------
(* A ticket is opened, or read again after an edit.                          *)

LEMMA OpenedTyped ==
  ASSUME NEW b \in HistoryRecord, NEW route \in HistoryRoutes
  PROVE  [b EXCEPT !.route = route, !.opened = TRUE] \in HistoryRecord
BY ZenonT(60) DEF HistoryRecord

LEMMA TicketComes == ASSUME HistoryInv(history), NEW c \in history.calls, TicketOpened(c) PROVE HistoryInv(history')
<1> DEFINE b == Done(c)
           p == PopulateTicketEditor(b, c.ticket)
           route == IF c.writes THEN c.ticket ELSE p.route
           u == [p EXCEPT !.route = route, !.opened = TRUE]
<1>1. /\ b \in HistoryRecord /\ b.calls = history.calls \ {c}
      /\ SameRows(b, history) /\ SameStore(b, history) /\ SamePlace(b, history)
      /\ SameEditor(b, history) /\ SameQuestion(b, history) /\ SameCalculation(b, history)
      /\ SameUser(b, history) /\ LoadsFit(b) /\ NamesFit(b) /\ PricesFit(b)
  BY DoneIs
<1>2. c.kind = "open" /\ c.ticket \in history.existing /\ c.ticket \in Tickets /\ ~PlainLoad(c)
  BY OneLess, HistoryCallTypes DEF TicketOpened, PlainLoad
<1>3. history' = u
  BY DEF TicketOpened
<1> HIDE DEF b
<1>4. Populated(p, b, c.ticket)
  BY <1>1, <1>2, PopulatedIs
<1> HIDE DEF p
<1>5. p \in HistoryRecord /\ route \in HistoryRoutes /\ route = IF c.writes THEN c.ticket ELSE history.route
  BY <1>1, <1>2, <1>4, HistoryFields DEF Populated, HistoryRoutes, SamePlace
<1> HIDE DEF route
<1>6. u \in HistoryRecord
  BY <1>5, OpenedTyped
<1>7. /\ u.calls = p.calls /\ SameRows(u, p) /\ SameStore(u, p) /\ SameQuestion(u, p) /\ SameCalculation(u, p)
      /\ SameUser(u, p) /\ u.ticket = p.ticket /\ u.editorItems = p.editorItems /\ u.editor = p.editor
      /\ u.screen = p.screen /\ u.route = route
  BY <1>5 DEF HistoryRecord, SameRows, SameStore, SameQuestion, SameCalculation, SameUser
<1> HIDE DEF u
<1>8. /\ u.calls = history.calls \ {c} /\ SameRows(u, b) /\ SameStore(u, history) /\ SameQuestion(u, history)
      /\ SameCalculation(u, history) /\ SameUser(u, history) /\ u.ticket = c.ticket
      /\ u.editorItems = history.stored[c.ticket] /\ u.screen = history.screen
  BY <1>1, <1>4, <1>7 DEF Populated, SameRows, SameStore, SameQuestion, SameCalculation, SameUser, SamePlace
<1>9. LoadsFit(u) /\ NamesFit(u)
  BY <1>1, <1>8, LoadsKeep, NamesKeep DEF HistoryInv, SameLoads
<1>10. PricesFit(u)
  BY <1>2, <1>8 DEF HistoryInv, PricesFit, SameStore
<1>11. ASSUME u.waits
       PROVE  ~u.unseen /\ LinesFit(u) /\ DeletionFits(u) /\ ~u.timer /\ u.dialog # "line" /\ Placed(u) /\ Due(u) = {}
  <2>1. /\ Due(history) = {c} /\ TicketDue(history, c) /\ ~history.timer /\ ~history.unseen /\ LinesFit(history)
    BY <1>2, <1>8, <1>11, AnswerIs DEF SameUser
  <2>2. history.dialog = "none" /\ (c.writes \/ history.route = c.ticket)
    BY <1>2, <2>1 DEF TicketDue
  <2>3. Due(u) = {}
    BY <1>8, <2>1 DEF Due
  <2>4. LinesFit(u)
    BY <1>2, <1>8, <2>1 DEF LinesFit, SameStore
  <2>5. Placed(u)
    BY <1>2, <1>5, <1>7, <1>8, <2>2 DEF Placed, SameStore
  <2> QED
    BY <1>8, <2>1, <2>2, <2>3, <2>4, <2>5 DEF DeletionFits, SameUser, SameQuestion, SameCalculation
<1>12. HistoryInv(u)
  BY <1>6, <1>9, <1>10, <1>11, CalmIs
<1> QED
  BY <1>3, <1>12

LEMMA EditorTyped ==
  ASSUME NEW b \in HistoryRecord, NEW editor \in EditorStates, NEW Busy \in SUBSET {"ticket", "line"}, NEW opened \in BOOLEAN
  PROVE  [b EXCEPT !.editor = editor, !.busy = Busy, !.opened = opened] \in HistoryRecord
BY ZenonT(60) DEF HistoryRecord

\* An answer that changes no more than what the editor says of itself.
LEMMA EditorTold ==
  ASSUME HistoryInv(history), NEW c \in history.calls, c.kind \in {"open", "save"},
         NEW editor \in {"error", "review"}, NEW Busy \in SUBSET {"ticket", "line"}, NEW opened \in BOOLEAN,
         c.kind = "open" => opened = FALSE, c.kind = "save" => opened = history.opened
  PROVE  HistoryInv([Done(c) EXCEPT !.editor = editor, !.busy = Busy, !.opened = opened])
<1> DEFINE b == Done(c)
           u == [b EXCEPT !.editor = editor, !.busy = Busy, !.opened = opened]
<1>1. /\ b \in HistoryRecord /\ b.calls = history.calls \ {c}
      /\ SameRows(b, history) /\ SameStore(b, history) /\ SamePlace(b, history)
      /\ SameEditor(b, history) /\ SameQuestion(b, history) /\ SameCalculation(b, history)
      /\ SameUser(b, history) /\ LoadsFit(b) /\ NamesFit(b) /\ PricesFit(b)
  BY DoneIs
<1> HIDE DEF b
<1>2. u \in HistoryRecord
  BY <1>1, EditorTyped DEF EditorStates
<1>3. /\ u.calls = b.calls /\ SameRows(u, b) /\ SameStore(u, b) /\ SamePlace(u, b) /\ SameQuestion(u, b)
      /\ SameCalculation(u, b) /\ SameUser(u, b) /\ u.ticket = b.ticket /\ u.editorItems = b.editorItems
      /\ u.editor = editor /\ u.opened = opened
  BY <1>1 DEF HistoryRecord, SameRows, SameStore, SamePlace, SameQuestion, SameCalculation, SameUser
<1> HIDE DEF u
<1>4. /\ u.calls = history.calls \ {c} /\ SameStore(u, history) /\ SamePlace(u, history) /\ SameQuestion(u, history)
      /\ SameCalculation(u, history) /\ SameUser(u, history) /\ u.ticket = history.ticket
      /\ u.editorItems = history.editorItems
  BY <1>1, <1>3 DEF SameStore, SamePlace, SameQuestion, SameCalculation, SameUser, SameEditor
<1>5. LoadsFit(u) /\ NamesFit(u) /\ PricesFit(u)
  BY <1>1, <1>3, LoadsKeep, NamesKeep, PricesKeep DEF SameLoads, SameStore
<1>6. ASSUME u.waits
      PROVE  ~u.unseen /\ LinesFit(u) /\ DeletionFits(u) /\ ~u.timer /\ u.dialog # "line" /\ Placed(u) /\ Due(u) = {}
  <2>1. /\ Due(history) = {c} /\ TicketDue(history, c) /\ ~history.timer /\ ~history.unseen /\ LinesFit(history)
    BY <1>4, <1>6, AnswerIs DEF SameUser, PlainLoad
  <2>2. history.dialog = "none" /\ (c.kind = "save" => Placed(history))
    BY <2>1 DEF TicketDue
  <2>3. Due(u) = {}
    BY <1>4, <2>1 DEF Due
  <2>4. Placed(u)
    BY <1>3, <1>4, <2>2 DEF Placed, SamePlace, SameStore
  <2> QED
    BY <1>4, <2>1, <2>2, <2>3, <2>4 DEF LinesFit, DeletionFits, SameUser, SameQuestion, SameCalculation, SameStore
<1>7. HistoryInv(u)
  BY <1>2, <1>5, <1>6, CalmIs
<1> QED
  BY <1>7 DEF u, b

LEMMA EditorFails ==
  ASSUME HistoryInv(history), NEW c \in history.calls, TicketOpenFails(c) \/ TicketSaveFails(c) PROVE HistoryInv(history')
<1>1. Done(c) \in HistoryRecord /\ Done(c).busy = history.busy /\ Done(c).opened = history.opened
      /\ history.busy \in SUBSET {"ticket", "line"} /\ history.opened \in BOOLEAN
  BY DoneIs, OneLess, HistoryFields DEF SameEditor
<1>2. CASE TicketOpenFails(c)
  <2> DEFINE u == [Done(c) EXCEPT !.editor = "error", !.busy = history.busy, !.opened = FALSE]
  <2>1. [Done(c) EXCEPT !.editor = "error", !.opened = FALSE] = u
    BY <1>1, ZenonT(60) DEF HistoryRecord
  <2>2. history' = u /\ c.kind = "open"
    BY <1>2, <2>1 DEF TicketOpenFails
  <2>3. HistoryInv(u)
    BY <1>1, <2>2, EditorTold
  <2> QED
    BY <2>2, <2>3
<1>3. CASE TicketSaveFails(c)
  <2> DEFINE Busy == history.busy \ {"ticket"}
             u == [Done(c) EXCEPT !.editor = "review", !.busy = Busy, !.opened = history.opened]
  <2>1. [Done(c) EXCEPT !.editor = "review", !.busy = @ \ {"ticket"}] = u
    BY <1>1, ZenonT(60) DEF HistoryRecord
  <2>2. history' = u /\ c.kind = "save" /\ Busy \in SUBSET {"ticket", "line"}
    BY <1>1, <1>3, <2>1 DEF TicketSaveFails
  <2> HIDE DEF Busy
  <2>3. HistoryInv(u)
    BY <1>1, <2>2, EditorTold
  <2> QED
    BY <2>2, <2>3
<1> QED
  BY <1>2, <1>3

LEMMA StoredTyped ==
  ASSUME NEW b \in HistoryRecord, NEW Kept \in [Tickets -> Seq(TicketLines)], NEW Busy \in SUBSET {"ticket", "line"}
  PROVE  [b EXCEPT !.stored = Kept, !.busy = Busy] \in HistoryRecord
BY ZenonT(60) DEF HistoryRecord

LEMMA TicketIsSaved == ASSUME HistoryInv(history), NEW c \in history.calls, TicketSaved(c) PROVE HistoryInv(history')
<1> DEFINE b == Done(c)
           Kept == [history.stored EXCEPT ![c.ticket] = c.items]
           Busy == history.busy \ {"ticket"}
           h == [b EXCEPT !.stored = Kept, !.busy = Busy]
           p == PopulateTicketEditor(h, c.ticket)
<1>1. /\ b \in HistoryRecord /\ b.calls = history.calls \ {c}
      /\ SameRows(b, history) /\ SameStore(b, history) /\ SamePlace(b, history)
      /\ SameEditor(b, history) /\ SameQuestion(b, history) /\ SameCalculation(b, history)
      /\ SameUser(b, history) /\ b.busy = history.busy /\ LoadsFit(b) /\ NamesFit(b) /\ PricesFit(b)
  BY DoneIs
<1>2. /\ c.kind = "save" /\ c.ticket \in history.existing /\ c.ticket \in Tickets /\ c.items \in Seq(TicketLines)
      /\ ~PlainLoad(c)
  BY OneLess, HistoryCallTypes DEF TicketSaved, PlainLoad
<1>3. history' = LoadHistory(p, OpenNone)
  <2>1. [b EXCEPT !.stored[c.ticket] = c.items, !.busy = @ \ {"ticket"}] = h
    BY <1>1 DEF HistoryRecord, SameStore
  <2> QED
    BY <2>1 DEF TicketSaved
<1> HIDE DEF b
<1>4. Kept \in [Tickets -> Seq(TicketLines)] /\ Busy \in SUBSET {"ticket", "line"}
      /\ \A t \in Tickets : Kept[t] = IF t = c.ticket THEN c.items ELSE history.stored[t]
  BY <1>2, OneLess, HistoryFields
<1> HIDE DEF Kept, Busy
<1>5. h \in HistoryRecord
  BY <1>1, <1>4, StoredTyped
<1>6. /\ h.calls = b.calls /\ SameRows(h, b) /\ h.stored = Kept /\ h.existing = b.existing /\ SamePlace(h, b)
      /\ SameQuestion(h, b) /\ SameCalculation(h, b) /\ SameUser(h, b) /\ h.opened = b.opened
  BY <1>1 DEF HistoryRecord, SameRows, SamePlace, SameQuestion, SameCalculation, SameUser
<1> HIDE DEF h
<1>7. Populated(p, h, c.ticket)
  BY <1>2, <1>5, PopulatedIs
<1> HIDE DEF p
<1>8. /\ p \in HistoryRecord /\ p.calls = history.calls \ {c} /\ SameRows(p, b) /\ p.stored = Kept
      /\ p.existing = history.existing /\ SamePlace(p, history) /\ SameQuestion(p, history) /\ SameCalculation(p, history)
      /\ SameUser(p, history) /\ p.opened = history.opened /\ p.ticket = c.ticket /\ p.editorItems = c.items
  BY <1>1, <1>2, <1>4, <1>6, <1>7 DEF Populated, SameRows, SameStore, SamePlace, SameQuestion, SameCalculation, SameUser, SameEditor
<1>9. LoadsBounded(p)
  BY <1>1, <1>8 DEF LoadsFit, LoadsBounded, SameRows
<1>10. NamesFit(p)
  BY <1>8, NamesKeep DEF HistoryInv
<1>11. PricesFit(p)
  <2>1. Priced(c.items) /\ \A t \in Tickets : Priced(Kept[t])
    BY <1>2, <1>4 DEF HistoryInv, PricesFit
  <2> QED
    BY <1>8, <2>1 DEF HistoryInv, PricesFit
<1>12. ASSUME p.waits PROVE ~p.unseen /\ LinesFit(p) /\ Due(p) = {} /\ ~p.timer /\ p.dialog = "none" /\ Placed(p)
  <2>1. /\ Due(history) = {c} /\ TicketDue(history, c) /\ ~history.timer /\ ~history.unseen /\ LinesFit(history)
    BY <1>2, <1>8, <1>12, AnswerIs DEF SameUser
  <2>2. history.dialog = "none" /\ Placed(history) /\ c.ticket = history.ticket /\ Own(c.items, c.ticket)
    BY <1>2, <2>1 DEF TicketDue
  <2>3. Due(p) = {}
    BY <1>8, <2>1 DEF Due
  <2>4. LinesFit(p)
    BY <1>4, <1>8, <2>1, <2>2 DEF LinesFit
  <2>5. Placed(p)
    BY <1>2, <1>4, <1>8, <2>2 DEF Placed, SamePlace
  <2> QED
    BY <1>8, <2>1, <2>2, <2>3, <2>4, <2>5 DEF SameUser, SameQuestion, SameCalculation
<1>13. HistoryInv(LoadHistory(p, OpenNone))
  BY <1>8, <1>9, <1>10, <1>11, <1>12, ReloadedKeeps
<1> QED
  BY <1>3, <1>13

LEMMA KnownTyped ==
  ASSUME NEW b \in HistoryRecord, NEW confirm \in BOOLEAN, NEW Known \in SUBSET Tickets
  PROVE  [b EXCEPT !.confirm = confirm, !.known = Known] \in HistoryRecord
BY ZenonT(60) DEF HistoryRecord

LEMMA KnownAsItIs ==
  ASSUME NEW b \in HistoryRecord, NEW confirm, NEW Known, b.confirm = confirm, b.known = Known
  PROVE  /\ [b EXCEPT !.confirm = confirm, !.known = Known] = b
         /\ [b EXCEPT !.confirm = TRUE, !.known = Known] = [b EXCEPT !.confirm = TRUE]
BY ZenonT(60) DEF HistoryRecord

\* The dialog of a deletion is answered, and stays.
LEMMA DialogTold ==
  ASSUME HistoryInv(history), NEW c \in history.calls, c.kind \in {"impact", "delete"},
         NEW confirm \in BOOLEAN, NEW Known \in SUBSET Tickets,
         IF c.kind = "impact" THEN confirm => Known = c.of ELSE Known = history.known
  PROVE  HistoryInv([Done(c) EXCEPT !.confirm = confirm, !.known = Known])
<1> DEFINE b == Done(c)
           u == [b EXCEPT !.confirm = confirm, !.known = Known]
<1>1. /\ b \in HistoryRecord /\ b.calls = history.calls \ {c}
      /\ SameRows(b, history) /\ SameStore(b, history) /\ SamePlace(b, history)
      /\ SameEditor(b, history) /\ SameQuestion(b, history) /\ SameCalculation(b, history)
      /\ SameUser(b, history) /\ LoadsFit(b) /\ NamesFit(b) /\ PricesFit(b)
  BY DoneIs
<1> HIDE DEF b
<1>2. u \in HistoryRecord
  BY <1>1, KnownTyped
<1>3. /\ u.calls = b.calls /\ SameRows(u, b) /\ SameStore(u, b) /\ SamePlace(u, b) /\ SameEditor(u, b)
      /\ SameCalculation(u, b) /\ SameUser(u, b) /\ u.dialog = b.dialog /\ u.named = b.named /\ u.ticketId = b.ticketId
      /\ u.bulkDeleteIds = b.bulkDeleteIds /\ u.confirm = confirm /\ u.known = Known
  BY <1>1 DEF HistoryRecord, SameRows, SameStore, SamePlace, SameEditor, SameCalculation, SameUser
<1> HIDE DEF u
<1>4. LoadsFit(u) /\ NamesFit(u) /\ PricesFit(u)
  BY <1>1, <1>3, LoadsKeep, PricesKeep DEF SameLoads, SameStore, SameEditor, NamesFit, SameUser, DoomedTickets
<1>5. ASSUME u.waits
      PROVE  ~u.unseen /\ LinesFit(u) /\ DeletionFits(u) /\ ~u.timer /\ u.dialog # "line" /\ Placed(u) /\ Due(u) = {}
  <2>1. /\ Due(history) = {c} /\ TicketDue(history, c) /\ ~history.timer /\ ~history.unseen /\ LinesFit(history)
        /\ DeletionFits(history)
    BY <1>1, <1>3, <1>5, AnswerIs DEF SameUser, PlainLoad
  <2>2. history.dialog = "delete" /\ Placed(history) /\ c.of = history.named /\ (c.kind = "delete" => history.known = history.named)
    BY <2>1 DEF TicketDue
  <2>3. Due(u) = {}
    BY <1>1, <1>3, <2>1 DEF Due
  <2>4. LinesFit(u) /\ Placed(u)
    BY <1>1, <1>3, <2>1, <2>2, PlacedKeeps DEF LinesFit, SameEditor, SameStore
  <2>5. DeletionFits(u)
    BY <1>1, <1>3, <2>1, <2>2 DEF DeletionFits, SamePlace, SameEditor, SameQuestion
  <2> QED
    BY <1>1, <1>3, <2>1, <2>2, <2>3, <2>4, <2>5 DEF SameUser, SameQuestion, SameCalculation
<1>6. HistoryInv(u)
  BY <1>2, <1>4, <1>5, CalmIs
<1> QED
  BY <1>6 DEF u, b

LEMMA ImpactOfTickets ==
  ASSUME HistoryInv(history), NEW c \in history.calls, TicketImpact(c) \/ TicketImpactFails(c) \/ DeletionFails(c)
  PROVE  HistoryInv(history')
<1>1. /\ Done(c) \in HistoryRecord /\ Done(c).confirm = history.confirm /\ Done(c).known = history.known
      /\ history.confirm \in BOOLEAN /\ history.known \in SUBSET Tickets /\ c.kind \in {"impact", "delete"}
      /\ (c.kind = "impact" => c.of \in SUBSET Tickets)
  BY DoneIs, OneLess, HistoryFields, HistoryCallTypes DEF SameQuestion, TicketImpact, TicketImpactFails, DeletionFails
<1>2. CASE TicketImpact(c)
  <2>1. history' = [Done(c) EXCEPT !.confirm = TRUE, !.known = c.of] /\ c.kind = "impact"
    BY <1>2 DEF TicketImpact
  <2>2. HistoryInv([Done(c) EXCEPT !.confirm = TRUE, !.known = c.of])
    BY <1>1, <2>1, DialogTold
  <2> QED
    BY <2>1, <2>2
<1>3. CASE TicketImpactFails(c)
  <2> DEFINE u == [Done(c) EXCEPT !.confirm = history.confirm, !.known = history.known]
  <2>1. history' = u /\ c.kind = "impact"
    BY <1>1, <1>3, KnownAsItIs DEF TicketImpactFails
  <2>2. history.confirm => history.known = c.of \/ ~history.waits
    <3>1. CASE history.waits
      BY <2>1, <3>1, AnswerIs DEF TicketDue, PlainLoad
    <3> QED
      BY <3>1
  <2>3. HistoryInv(u)
    <3>1. CASE history.waits
      BY <1>1, <2>1, <2>2, <3>1, DialogTold
    <3>2. CASE ~history.waits
      <4>1. /\ Done(c).waits = history.waits /\ LoadsFit(Done(c)) /\ NamesFit(Done(c)) /\ PricesFit(Done(c))
            /\ u = Done(c)
        BY <1>1, DoneIs, KnownAsItIs DEF SameUser
      <4> QED
        BY <1>1, <3>2, <4>1, CalmIs
    <3> QED
      BY <3>1, <3>2
  <2> QED
    BY <2>1, <2>3
<1>4. CASE DeletionFails(c)
  <2> DEFINE u == [Done(c) EXCEPT !.confirm = TRUE, !.known = history.known]
  <2>1. history' = u /\ c.kind = "delete"
    BY <1>1, <1>4, KnownAsItIs DEF DeletionFails
  <2>2. HistoryInv(u)
    BY <1>1, <2>1, DialogTold
  <2> QED
    BY <2>1, <2>2
<1> QED
  BY <1>2, <1>3, <1>4

--------------------------------------------------------------------------------
(* Tickets are deleted.                                                      *)

LEMMA LeftTyped ==
  ASSUME NEW b \in HistoryRecord, NEW dialog \in {"none", "line", "delete"}, NEW Left \in SUBSET Tickets
  PROVE  [b EXCEPT !.dialog = dialog, !.existing = Left, !.confirm = TRUE] \in HistoryRecord
BY ZenonT(60) DEF HistoryRecord

LEMMA SelectionTyped ==
  ASSUME NEW b \in HistoryRecord, NEW Selection \in SUBSET Tickets, NEW Ids \in SUBSET Tickets
  PROVE  [b EXCEPT !.selection = Selection, !.bulkDeleteIds = Ids] \in HistoryRecord
BY ZenonT(60) DEF HistoryRecord

LEMMA TicketsGone == ASSUME HistoryInv(history), NEW c \in history.calls, TicketsDeleted(c) PROVE HistoryInv(history')
<1> DEFINE b == Done(c)
           Left == history.existing \ c.of
           dialog == IF history.dialog = "delete" THEN "none" ELSE history.dialog
           h == [b EXCEPT !.dialog = dialog, !.existing = Left, !.confirm = TRUE]
           Selection == history.selection \ c.of
           Nought == {}
           g == [h EXCEPT !.selection = Selection, !.bulkDeleteIds = Nought]
<1>1. /\ b \in HistoryRecord /\ b.calls = history.calls \ {c}
      /\ SameRows(b, history) /\ SameStore(b, history) /\ SamePlace(b, history)
      /\ SameEditor(b, history) /\ SameQuestion(b, history) /\ SameCalculation(b, history)
      /\ SameUser(b, history) /\ LoadsFit(b) /\ NamesFit(b) /\ PricesFit(b)
  BY DoneIs
<1>2. c.kind = "delete" /\ c.of \in SUBSET Tickets /\ c.bulk \in BOOLEAN /\ ~PlainLoad(c) /\ history \in HistoryRecord
  BY OneLess, HistoryCallTypes DEF TicketsDeleted, PlainLoad
<1>3. history' = CASE c.bulk -> LoadHistory(g, OpenNone)
                       [] ~c.bulk /\ h.ticket \in c.of -> ShowHistoryList(h) [] OTHER -> LoadHistory(h, OpenNone)
  <2>1. [b EXCEPT !.dialog = IF @ = "delete" THEN "none" ELSE @, !.existing = @ \ c.of, !.confirm = TRUE] = h
    BY <1>1 DEF HistoryRecord, SameStore, SameQuestion
  <2>2. h.selection = history.selection
    BY DEF Done, HistoryRecord
  <2>3. [h EXCEPT !.selection = @ \ c.of, !.bulkDeleteIds = {}] = g
    BY <2>2
  <2> HIDE DEF g, h
  <2> QED
    BY <2>1, <2>3 DEF TicketsDeleted
<1>4. Left \in SUBSET Tickets /\ Selection \in SUBSET Tickets /\ Nought \in SUBSET Tickets
      /\ dialog \in {"none", "line", "delete"} /\ dialog # "delete"
  BY <1>2, HistoryFields
<1> HIDE DEF b
<1>5. h \in HistoryRecord
  BY <1>1, <1>4, LeftTyped
<1>6. /\ h.calls = b.calls /\ SameRows(h, b) /\ h.stored = b.stored /\ h.existing = Left /\ SamePlace(h, b)
      /\ SameEditor(h, b) /\ SameCalculation(h, b) /\ SameUser(h, b) /\ h.dialog = dialog
      /\ h.loadGeneration = b.loadGeneration
  BY <1>1 DEF HistoryRecord, SameRows, SamePlace, SameEditor, SameCalculation, SameUser
<1>7. g \in HistoryRecord
  <2> HIDE DEF h, Selection, Nought
  <2> QED
    BY <1>4, <1>5, SelectionTyped
<1>8. /\ g.calls = h.calls /\ SameRows(g, h) /\ SameStore(g, h) /\ SamePlace(g, h)
      /\ SameEditor(g, h) /\ SameCalculation(g, h) /\ SameUser(g, h) /\ g.dialog = h.dialog
  <2> HIDE DEF h, Selection, Nought
  <2> QED
    BY <1>5 DEF HistoryRecord, SameRows, SameStore, SamePlace, SameEditor, SameCalculation, SameUser
<1>9. Left = history.existing \ c.of /\ (history.dialog = "delete" => dialog = "none")
  OBVIOUS
<1> HIDE DEF h, g, Left, Selection, Nought, dialog
<1>10. LoadsBounded(h) /\ LoadsBounded(g)
  BY <1>1, <1>6, <1>8 DEF LoadsFit, LoadsBounded, SameRows
<1>11. NamesFit(h) /\ NamesFit(g)
  BY <1>1, <1>4, <1>6, <1>8 DEF NamesFit, SameUser
<1>12. PricesFit(h) /\ PricesFit(g)
  BY <1>1, <1>6, <1>8, PricesKeep DEF SameStore, SameEditor
<1>13. ASSUME h.waits
       PROVE  /\ ~h.unseen /\ LinesFit(h) /\ Due(h) = {} /\ ~h.timer /\ h.dialog = "none"
              /\ (c.bulk => h.screen = "list") /\ (h.ticket \notin c.of => Placed(h))
  <2>1. /\ Due(history) = {c} /\ TicketDue(history, c) /\ ~history.timer /\ ~history.unseen /\ LinesFit(history)
        /\ DeletionFits(history)
    BY <1>1, <1>2, <1>6, <1>13, AnswerIs DEF SameUser
  <2>2. history.dialog = "delete" /\ Placed(history) /\ (c.bulk <=> history.bulkDeleteIds # {})
    BY <1>2, <2>1 DEF TicketDue
  <2>3. Due(h) = {}
    BY <1>1, <1>6, <2>1 DEF Due
  <2>4. LinesFit(h) /\ ~h.unseen /\ ~h.timer /\ h.dialog = "none"
    BY <1>1, <1>6, <1>9, <2>1, <2>2 DEF LinesFit, SameEditor, SameStore, SameUser, SameCalculation
  <2>5. c.bulk => h.screen = "list"
    BY <1>1, <1>6, <2>1, <2>2 DEF DeletionFits, SamePlace
  <2>6. h.ticket \notin c.of => Placed(h)
    BY <1>1, <1>6, <1>9, <2>2 DEF Placed, SamePlace, SameEditor, SameStore
  <2> QED
    BY <2>3, <2>4, <2>5, <2>6
<1>14. CASE c.bulk
  <2>1. ASSUME g.waits PROVE ~g.unseen /\ LinesFit(g) /\ Due(g) = {} /\ ~g.timer /\ g.dialog = "none" /\ Placed(g)
    <3>1. h.waits
      BY <1>8, <2>1 DEF SameUser
    <3> QED
      BY <1>8, <1>13, <1>14, <3>1 DEF LinesFit, Due, Placed, SameEditor, SameStore, SamePlace, SameUser, SameCalculation
  <2>2. HistoryInv(LoadHistory(g, OpenNone))
    BY <1>7, <1>10, <1>11, <1>12, <2>1, ReloadedKeeps
  <2> QED
    BY <1>3, <1>14, <2>2
<1>15. CASE ~c.bulk /\ h.ticket \in c.of
  <2>1. PICK u \in HistoryRecord :
           /\ ShowHistoryList(h) = LoadHistory(u, OpenNone) /\ u.calls = h.calls /\ u.loadGeneration = h.loadGeneration
           /\ SameStore(u, h) /\ SameQuestion(u, h) /\ SameCalculation(u, h) /\ SameUser(u, h)
           /\ u.ticket = NoTicket /\ u.editorItems = << >> /\ u.screen = "list"
    BY <1>5, TicketsShown
  <2>2. LoadsBounded(u) /\ NamesFit(u) /\ PricesFit(u)
    BY <1>10, <1>11, <1>12, <2>1, NamesKeep DEF LoadsBounded, PricesFit, Priced, SameStore
  <2>3. ASSUME u.waits PROVE ~u.unseen /\ LinesFit(u) /\ Due(u) = {} /\ ~u.timer /\ u.dialog = "none" /\ Placed(u)
    <3>1. h.waits
      BY <2>1, <2>3 DEF SameUser
    <3>2. LinesFit(u)
      BY <1>13, <2>1, <3>1 DEF LinesFit, Own, SameStore
    <3> QED
      BY <1>13, <2>1, <3>1, <3>2 DEF Due, Placed, SameQuestion, SameUser, SameCalculation
  <2>4. HistoryInv(LoadHistory(u, OpenNone))
    BY <2>2, <2>3, ReloadedKeeps
  <2> QED
    BY <1>3, <1>15, <2>1, <2>4
<1>16. CASE ~c.bulk /\ h.ticket \notin c.of
  <2>1. HistoryInv(LoadHistory(h, OpenNone))
    BY <1>5, <1>10, <1>11, <1>12, <1>13, <1>16, ReloadedKeeps
  <2> QED
    BY <1>3, <1>16, <2>1
<1> QED
  BY <1>14, <1>15, <1>16

--------------------------------------------------------------------------------
(* A line is calculated, or fails to be.                                     *)

LEMMA TotalAloneTyped ==
  ASSUME NEW b \in HistoryRecord, NEW sum \in LineTotals \cup {"unknown"}
  PROVE  [b EXCEPT !.total = sum] \in HistoryRecord
BY ZenonT(60) DEF HistoryRecord

LEMMA TotalTyped ==
  ASSUME NEW b \in HistoryRecord, NEW Busy \in SUBSET {"ticket", "line"}, NEW sum \in LineTotals \cup {"unknown"}
  PROVE  [b EXCEPT !.busy = Busy, !.total = sum] \in HistoryRecord
<1> DEFINE d == [b EXCEPT !.busy = Busy]
<1>1. d \in HistoryRecord
  BY ZenonT(60) DEF HistoryRecord
<1> HIDE DEF d
<1>2. [d EXCEPT !.total = sum] \in HistoryRecord
  BY <1>1, TotalAloneTyped
<1> QED
  BY <1>2 DEF d

Told(v, c) ==
  /\ HistoryInv(v) /\ v.calls = history.calls \ {c} /\ SameQuestion(v, history) /\ SameUser(v, history)
  /\ v.text = history.text /\ v.timer = history.timer /\ v.calculation = history.calculation

\* A calculation has ended: the total is what it says, when it counts.
LEMMA TotalTold ==
  ASSUME HistoryInv(history), NEW c \in history.calls, c.kind = "line",
         NEW Busy \in SUBSET {"ticket", "line"}, NEW sum \in LineTotals \cup {"unknown"},
         IF LatestCalculation(c) THEN sum \in {c.price, "unknown"} ELSE sum = history.total,
         NEW v, v = [Done(c) EXCEPT !.busy = Busy, !.total = sum]
  PROVE  Told(v, c)
<1> DEFINE b == Done(c)
           u == [b EXCEPT !.busy = Busy, !.total = sum]
<1>1. /\ b \in HistoryRecord /\ b.calls = history.calls \ {c}
      /\ SameRows(b, history) /\ SameStore(b, history) /\ SamePlace(b, history)
      /\ SameEditor(b, history) /\ SameQuestion(b, history) /\ SameCalculation(b, history)
      /\ SameUser(b, history) /\ LoadsFit(b) /\ NamesFit(b) /\ PricesFit(b)
  BY DoneIs
<1> HIDE DEF b
<1>2. u \in HistoryRecord
  BY <1>1, TotalTyped
<1>3. /\ u.calls = b.calls /\ SameRows(u, b) /\ SameStore(u, b) /\ SamePlace(u, b) /\ SameEditor(u, b) /\ SameQuestion(u, b)
      /\ SameUser(u, b) /\ u.lineIndex = b.lineIndex /\ u.text = b.text /\ u.price = b.price /\ u.total = sum
      /\ u.timer = b.timer /\ u.calculation = b.calculation
  BY <1>1 DEF HistoryRecord, SameRows, SameStore, SamePlace, SameEditor, SameQuestion, SameUser
<1> HIDE DEF u
<1>4. /\ u.calls = history.calls \ {c} /\ SameRows(u, history) /\ SameStore(u, history) /\ SamePlace(u, history)
      /\ SameEditor(u, history) /\ SameQuestion(u, history) /\ SameUser(u, history)
      /\ u.lineIndex = history.lineIndex /\ u.text = history.text /\ u.price = history.price /\ u.timer = history.timer
      /\ u.calculation = history.calculation
  BY <1>1, <1>3 DEF SameRows, SameStore, SamePlace, SameEditor, SameQuestion, SameUser, SameCalculation
<1>5. LoadsFit(u) /\ NamesFit(u) /\ PricesFit(u)
  BY <1>1, <1>3, LoadsKeep, NamesKeep, PricesKeep DEF SameLoads, SameStore, SameEditor
<1>6. WaitsFit(u)
  <2> SUFFICES ASSUME u.waits PROVE ~u.unseen /\ LinesFit(u) /\ CalculationFits(u) /\ DeletionFits(u) /\ (NothingDue(u) \/ OneDue(u))
    BY DEF WaitsFit
  <2>1. /\ LinesFit(history) /\ ~history.unseen /\ CalculationFits(history) /\ DeletionFits(history)
        /\ (NothingDue(history) \/ OneDue(history))
    BY <1>4 DEF HistoryInv, WaitsFit, SameUser
  <2>2. LinesFit(u) /\ DeletionFits(u) /\ ~u.unseen
    BY <1>4, <2>1, DeletionKeeps DEF LinesFit, SamePlace, SameEditor, SameStore, SameUser
  <2>3. CalculationFits(u)
    <3>1. /\ \A e \in u.calls : e.kind = "line" =>
               e.generation <= u.calculation /\ (u.timer => e.generation < u.calculation) /\ u.dialog # "delete"
          /\ \A e \in u.calls : Counts(u, e) =>
               u.dialog = "line" /\ e.price = u.price /\ e.text = u.text /\ \A d \in u.calls : Counts(u, d) => d = e
          /\ u.timer => u.dialog = "line"
      BY <1>4, <2>1 DEF CalculationFits, Counts, SameQuestion
    <3>2. ASSUME u.dialog = "line" PROVE u.timer \/ u.total \in {u.price, "unknown"} \/ \E e \in u.calls : Counts(u, e)
      <4>1. CASE LatestCalculation(c)
        <5>1. c.price = history.price
          BY <2>1, <4>1 DEF CalculationFits, Counts, LatestCalculation
        <5> QED
          BY <1>3, <1>4, <4>1, <5>1
      <4>2. CASE ~LatestCalculation(c)
        <5>1. ~Counts(history, c) /\ u.total = history.total
          BY <1>3, <4>2 DEF Counts, LatestCalculation
        <5> QED
          BY <1>4, <2>1, <3>2, <5>1 DEF CalculationFits, Counts, SameQuestion
      <4> QED
        BY <4>1, <4>2
    <3>3. u.dialog = "line" => IF u.lineIndex \in DOMAIN u.editorItems THEN u.text = u.editorItems[u.lineIndex].text
                               ELSE u.text = <<u.ticket, NewLine>>
      BY <1>4, <2>1 DEF CalculationFits, SameQuestion, SameEditor
    <3> QED
      BY <3>1, <3>2, <3>3 DEF CalculationFits
  <2>4. Placed(history) => Placed(u)
    BY <1>4, PlacedKeeps
  <2>5. ASSUME NEW d, TicketDue(history, d) PROVE TicketDue(u, d) /\ d # c
    BY <1>4, <2>4, <2>5 DEF TicketDue, SamePlace, SameEditor, SameQuestion
  <2>6. CASE NothingDue(history)
    BY <1>4, <2>2, <2>3, <2>4, <2>6 DEF NothingDue, Due
  <2>7. CASE OneDue(history)
    <3>1. PICK d \in history.calls : Due(history) = {d} /\ TicketDue(history, d)
      BY <2>7 DEF OneDue
    <3>2. c \in Due(history)
      BY DEF Due, PlainLoad
    <3> QED
      BY <2>5, <3>1, <3>2
  <2> QED
    BY <2>1, <2>2, <2>3, <2>6, <2>7
<1>7. HistoryInv(u)
  BY <1>2, <1>5, <1>6 DEF HistoryInv
<1>8. v = u
  BY DEF u, b
<1> QED
  BY <1>4, <1>7, <1>8 DEF Told

--------------------------------------------------------------------------------
(* The line takes its place in the ticket.                                   *)

LEMMA TotalAsItIs ==
  ASSUME NEW b \in HistoryRecord, NEW Busy, NEW sum, b.total = sum
  PROVE  [b EXCEPT !.busy = Busy] = [b EXCEPT !.busy = Busy, !.total = sum]
BY DEF HistoryRecord

LEMMA LineHasFailed == ASSUME HistoryInv(history), NEW c \in history.calls, LineFails(c) PROVE HistoryInv(history')
<1> DEFINE Busy == IF c.saves THEN history.busy \ {"line"} ELSE history.busy
           sum == IF LatestCalculation(c) THEN "unknown" ELSE history.total
           u == [Done(c) EXCEPT !.busy = Busy, !.total = sum]
<1>1. Done(c) \in HistoryRecord /\ Done(c).busy = history.busy /\ Done(c).total = history.total
      /\ history.busy \in SUBSET {"ticket", "line"} /\ history.total \in LineTotals \cup {"unknown"}
  BY DoneIs, OneLess, HistoryFields DEF SameCalculation
<1>2. history' = u /\ c.kind = "line"
  BY <1>1 DEF LineFails, HistoryRecord
<1>3. /\ Busy \in SUBSET {"ticket", "line"} /\ sum \in LineTotals \cup {"unknown"}
      /\ IF LatestCalculation(c) THEN sum \in {c.price, "unknown"} ELSE sum = history.total
  BY <1>1
<1> HIDE DEF Busy, sum
<1> DEFINE v == u
<1>4. v = u
  OBVIOUS
<1> HIDE DEF v
<1>5. Told(v, c)
  BY <1>2, <1>3, <1>4, TotalTold
<1> QED
  BY <1>2, <1>4, <1>5 DEF Told

\* A line goes to its place, or to the end.
LEMMA ItemsPut ==
  ASSUME NEW items \in Seq(TicketLines), NEW place \in Nat, NEW line \in TicketLines, NEW t
  PROVE  LET put == IF place \in DOMAIN items THEN ReplaceAt(items, place, line) ELSE Append(items, line) IN
         /\ put \in Seq(TicketLines)
         /\ Priced(items) /\ line.price = line.total => Priced(put)
         /\ Own(items, t) /\ line.of = t /\ line.text = <<t, line.line>> => Own(put, t)
<1>1. CASE place \in DOMAIN items
  <2> DEFINE put == ReplaceAt(items, place, line)
  <2>1. put \in Seq(TicketLines) /\ DOMAIN put = DOMAIN items /\ \A i \in DOMAIN put : put[i] = IF i = place THEN line ELSE items[i]
    BY <1>1 DEF ReplaceAt
  <2> HIDE DEF put
  <2>2. /\ Priced(items) /\ line.price = line.total => Priced(put)
        /\ Own(items, t) /\ line.of = t /\ line.text = <<t, line.line>> => Own(put, t)
    BY <2>1 DEF Priced, Own
  <2> QED
    BY <1>1, <2>1, <2>2 DEF put
<1>2. CASE place \notin DOMAIN items
  <2> DEFINE put == Append(items, line)
  <2>1. /\ put \in Seq(TicketLines) /\ DOMAIN put = 1..(Len(items) + 1) /\ put[Len(items) + 1] = line
        /\ \A i \in DOMAIN items : put[i] = items[i]
    OBVIOUS
  <2>2. \A i \in DOMAIN put : (i \in DOMAIN items /\ put[i] = items[i]) \/ put[i] = line
    BY <2>1
  <2> HIDE DEF put
  <2>3. /\ Priced(items) /\ line.price = line.total => Priced(put)
        /\ Own(items, t) /\ line.of = t /\ line.text = <<t, line.line>> => Own(put, t)
    BY <2>2 DEF Priced, Own
  <2> QED
    BY <1>2, <2>1, <2>3 DEF put
<1> QED
  BY <1>1, <1>2

LEMMA ItemsAloneTyped ==
  ASSUME NEW b \in HistoryRecord, NEW Items \in Seq(TicketLines)
  PROVE  [b EXCEPT !.editorItems = Items] \in HistoryRecord
BY ZenonT(60) DEF HistoryRecord

LEMMA SheetTyped ==
  ASSUME NEW b \in HistoryRecord, NEW dialog \in {"none", "line", "delete"}, NEW editor \in EditorStates
  PROVE  [b EXCEPT !.dialog = dialog, !.editor = editor] \in HistoryRecord
BY ZenonT(60) DEF HistoryRecord

LEMMA PutTyped ==
  ASSUME NEW b \in HistoryRecord, NEW Items \in Seq(TicketLines), NEW dialog \in {"none", "line", "delete"},
         NEW editor \in EditorStates
  PROVE  [b EXCEPT !.editorItems = Items, !.dialog = dialog, !.editor = editor] \in HistoryRecord
<1> DEFINE d == [b EXCEPT !.editorItems = Items]
<1>1. d \in HistoryRecord
  BY ItemsAloneTyped
<1> HIDE DEF d
<1>2. [d EXCEPT !.dialog = dialog, !.editor = editor] \in HistoryRecord
  BY <1>1, SheetTyped
<1> QED
  BY <1>2 DEF d

\* The line as it is put, when it has a place and when it is new.
LEMMA OldLineTyped ==
  ASSUME NEW l \in TicketLines, NEW text \in TextsOfLines, NEW price \in LineTotals
  PROVE  [l EXCEPT !.text = text, !.price = price, !.total = price] \in TicketLines
BY DEF TicketLines

LEMMA NewLineTyped ==
  ASSUME NEW text \in TextsOfLines, NEW price \in LineTotals, NEW of \in Tickets \cup {NoTicket}
  PROVE  [of |-> of, line |-> NewLine, text |-> text, price |-> price, total |-> price] \in TicketLines
BY DEF TicketLines, NewLine

LEMMA PuttingLine ==
  ASSUME NEW h, HistoryInv(h), NEW c \in HistoryCalls, c.kind = "line",
         h.waits => h.dialog = "line" /\ c.text = h.text /\ ~h.timer /\ \A d \in h.calls : ~Counts(h, d)
  PROVE  HistoryInv(LinePut(h, c))
<1> DEFINE place == IF h.lineIndex \in DOMAIN h.editorItems THEN h.lineIndex ELSE Len(h.editorItems) + 1
           line == IF place \in DOMAIN h.editorItems THEN [h.editorItems[place] EXCEPT !.text = c.text, !.price = c.price, !.total = c.price]
                   ELSE [of |-> h.ticket, line |-> NewLine, text |-> c.text, price |-> c.price, total |-> c.price]
           Items == IF place \in DOMAIN h.editorItems THEN ReplaceAt(h.editorItems, place, line) ELSE Append(h.editorItems, line)
           dialog == IF h.dialog = "line" THEN "none" ELSE h.dialog
           u == [h EXCEPT !.editorItems = Items, !.dialog = dialog, !.editor = "unsaved"]
<1>1. /\ h \in HistoryRecord /\ h.editorItems \in Seq(TicketLines) /\ h.lineIndex \in Nat /\ h.ticket \in Tickets \cup {NoTicket}
      /\ h.dialog \in {"none", "line", "delete"} /\ c.text \in TextsOfLines /\ c.price \in LineTotals
  BY HistoryFields, HistoryCallTypes DEF HistoryInv
<1>2. LinePut(h, c) = u
  BY <1>1 DEF LinePut, HistoryRecord
<1>3. place \in Nat /\ (place \in DOMAIN h.editorItems <=> h.lineIndex \in DOMAIN h.editorItems)
      /\ (place \in DOMAIN h.editorItems => place = h.lineIndex)
  BY <1>1
<1> HIDE DEF place
<1>4. /\ line \in TicketLines /\ line.price = line.total /\ line.text = c.text
      /\ place \in DOMAIN h.editorItems => line.of = h.editorItems[place].of /\ line.line = h.editorItems[place].line
      /\ place \notin DOMAIN h.editorItems => line.of = h.ticket /\ line.line = NewLine
  <2>1. CASE place \in DOMAIN h.editorItems
    <3> DEFINE l == h.editorItems[place]
    <3>1. l \in TicketLines /\ line = [l EXCEPT !.text = c.text, !.price = c.price, !.total = c.price]
      BY <1>1, <2>1
    <3>2. [l EXCEPT !.text = c.text, !.price = c.price, !.total = c.price] \in TicketLines
      <4> HIDE DEF l, line
      <4> QED
        BY <1>1, <3>1, OldLineTyped
    <3> HIDE DEF l, line
    <3>3. line \in TicketLines /\ line.of = l.of /\ line.line = l.line /\ line.text = c.text /\ line.price = c.price
          /\ line.total = c.price
      BY <3>1, <3>2 DEF TicketLines
    <3> QED
      BY <2>1, <3>3 DEF l
  <2>2. CASE place \notin DOMAIN h.editorItems
    BY <1>1, <2>2, NewLineTyped
  <2> QED
    BY <2>1, <2>2
<1>5. ASSUME h.waits PROVE line.of = h.ticket /\ line.text = <<h.ticket, line.line>> /\ Own(h.editorItems, h.ticket)
  <2>1. Own(h.editorItems, h.ticket) /\ c.text = h.text
        /\ IF h.lineIndex \in DOMAIN h.editorItems THEN h.text = h.editorItems[h.lineIndex].text
           ELSE h.text = <<h.ticket, NewLine>>
    BY <1>5 DEF HistoryInv, WaitsFit, LinesFit, CalculationFits
  <2>2. CASE place \in DOMAIN h.editorItems
    <3>1. /\ h.editorItems[place] \in TicketLines /\ h.editorItems[place].of = h.ticket
          /\ h.editorItems[place].text = <<h.ticket, h.editorItems[place].line>> /\ c.text = h.editorItems[place].text
      BY <1>1, <1>3, <2>1, <2>2 DEF Own
    <3> HIDE DEF line
    <3> QED
      BY <1>4, <2>1, <2>2, <3>1
  <2>3. CASE place \notin DOMAIN h.editorItems
    <3> HIDE DEF line
    <3> QED
      BY <1>3, <1>4, <2>1, <2>3
  <2> QED
    BY <2>2, <2>3
<1> HIDE DEF line
<1>6. /\ Items \in Seq(TicketLines) /\ Priced(Items) /\ (h.waits => Own(Items, h.ticket))
  BY <1>1, <1>3, <1>4, <1>5, ItemsPut DEF HistoryInv, PricesFit
<1>7. dialog \in {"none", "line", "delete"} /\ (h.dialog = "line" => dialog = "none") /\ (dialog = "delete" => h.dialog = "delete")
  BY <1>1
<1> HIDE DEF Items, dialog
<1>8. u \in HistoryRecord
  BY <1>1, <1>6, <1>7, PutTyped DEF EditorStates
<1>9. /\ u.calls = h.calls /\ SameRows(u, h) /\ SameStore(u, h) /\ SamePlace(u, h) /\ SameCalculation(u, h) /\ SameUser(u, h)
      /\ u.editorItems = Items /\ u.editor = "unsaved" /\ u.opened = h.opened /\ u.ticket = h.ticket
      /\ u.dialog = dialog /\ u.named = h.named /\ u.ticketId = h.ticketId /\ u.bulkDeleteIds = h.bulkDeleteIds
  BY <1>1 DEF HistoryRecord, SameRows, SameStore, SamePlace, SameCalculation, SameUser
<1> HIDE DEF u
<1>10. LoadsFit(u)
  BY <1>9, LoadsKeep DEF HistoryInv, SameLoads
<1>11. NamesFit(u)
  BY <1>7, <1>9 DEF HistoryInv, NamesFit, SameUser, DoomedTickets
<1>12. PricesFit(u)
  BY <1>6, <1>9 DEF HistoryInv, PricesFit, SameStore
<1>13. WaitsFit(u)
  <2> SUFFICES ASSUME u.waits PROVE ~u.unseen /\ LinesFit(u) /\ CalculationFits(u) /\ DeletionFits(u) /\ NothingDue(u)
    BY DEF WaitsFit
  <2>1. /\ h.waits /\ ~h.unseen /\ LinesFit(h) /\ CalculationFits(h) /\ h.dialog = "line" /\ ~h.timer
        /\ \A d \in h.calls : ~Counts(h, d)
    BY <1>9 DEF SameUser, HistoryInv, WaitsFit
  <2>2. NothingDue(h) /\ u.dialog = "none"
    BY <1>7, <1>9, <2>1, LineWaits
  <2>3. LinesFit(u)
    BY <1>6, <1>9, <2>1 DEF LinesFit, SameStore
  <2>4. CalculationFits(u)
    BY <1>9, <2>1, <2>2 DEF CalculationFits, Counts, SameCalculation
  <2>5. NothingDue(u)
    BY <1>9, <2>2 DEF NothingDue, Due, Placed, SamePlace, SameStore
  <2> QED
    BY <1>9, <2>1, <2>2, <2>3, <2>4, <2>5 DEF DeletionFits, SameUser
<1>14. HistoryInv(u)
  BY <1>8, <1>10, <1>11, <1>12, <1>13 DEF HistoryInv
<1> QED
  BY <1>2, <1>14

LEMMA LineComes == ASSUME HistoryInv(history), NEW c \in history.calls, LineCalculated(c) PROVE HistoryInv(history')
<1> DEFINE Busy == IF c.saves THEN history.busy \ {"line"} ELSE history.busy
           h == [Done(c) EXCEPT !.busy = IF c.saves THEN @ \ {"line"} ELSE @]
           sum == IF LatestCalculation(c) THEN c.price ELSE history.total
           u == [Done(c) EXCEPT !.busy = Busy, !.total = sum]
<1>1. Done(c) \in HistoryRecord /\ Done(c).busy = history.busy /\ Done(c).total = history.total
      /\ history.busy \in SUBSET {"ticket", "line"} /\ history.total \in LineTotals \cup {"unknown"}
      /\ c \in HistoryCalls /\ c.kind = "line" /\ c.price \in LineTotals
  BY DoneIs, OneLess, HistoryFields, HistoryCallTypes DEF SameCalculation, LineCalculated
<1>2. h = [Done(c) EXCEPT !.busy = Busy]
  BY <1>1 DEF HistoryRecord
<1>3. /\ history' = CASE ~LatestCalculation(c) -> h
                      [] LatestCalculation(c) /\ c.saves -> LinePut([h EXCEPT !.total = c.price], c)
                      [] OTHER -> [h EXCEPT !.total = c.price]
  BY DEF LineCalculated
<1>4. /\ ~LatestCalculation(c) => h = u
      /\ LatestCalculation(c) => [h EXCEPT !.total = c.price] = u
  BY <1>1, <1>2, TotalAsItIs
<1> HIDE DEF h
<1>5. /\ Busy \in SUBSET {"ticket", "line"} /\ sum \in LineTotals \cup {"unknown"}
      /\ IF LatestCalculation(c) THEN sum \in {c.price, "unknown"} ELSE sum = history.total
  BY <1>1
<1>6. u = [Done(c) EXCEPT !.busy = Busy, !.total = sum]
  OBVIOUS
<1> HIDE DEF Busy, sum, u
<1>7. /\ HistoryInv(u) /\ u.calls = history.calls \ {c}
      /\ SameQuestion(u, history) /\ SameUser(u, history) /\ u.text = history.text /\ u.timer = history.timer
      /\ u.calculation = history.calculation
  <2>1. c.kind = "line"
    BY <1>1
  <2>2. Told(u, c)
    BY <1>5, <1>6, <2>1, TotalTold
  <2> QED
    BY <2>2 DEF Told
<1>8. ASSUME LatestCalculation(c), u.waits
      PROVE  u.dialog = "line" /\ c.text = u.text /\ ~u.timer /\ \A d \in u.calls : ~Counts(u, d)
  <2>1. CalculationFits(history) /\ Counts(history, c)
    BY <1>1, <1>7, <1>8 DEF HistoryInv, WaitsFit, SameUser, Counts, LatestCalculation
  <2>2. history.dialog = "line" /\ c.text = history.text /\ \A d \in history.calls : Counts(history, d) => d = c
    BY <2>1 DEF CalculationFits
  <2>3. ~history.timer
    <3>1. history.calculation \in Nat
      BY OneLess, HistoryFields
    <3> QED
      BY <1>1, <2>1, <3>1 DEF CalculationFits, Counts
  <2> QED
    BY <1>7, <2>2, <2>3 DEF SameQuestion, Counts
<1>9. LatestCalculation(c) => HistoryInv(LinePut(u, c))
  BY <1>1, <1>7, <1>8, PuttingLine
<1> QED
  BY <1>3, <1>4, <1>7, <1>9

--------------------------------------------------------------------------------
(* Every step of the history.                                                *)

LEMMA HistorySteps == ASSUME HistoryInv(history), [HistoryNext]_history PROVE HistoryInv(history')
<1>1. CASE UNCHANGED history
  BY <1>1
<1>2. ASSUME NEW c \in history.calls, \/ HistoryMetadata(c) \/ HistoryAnswered(c) \/ HistoryFails(c) \/ TicketOpened(c)
             \/ TicketOpenFails(c) \/ TicketSaved(c) \/ TicketSaveFails(c) \/ LineCalculated(c) \/ LineFails(c)
             \/ TicketImpact(c) \/ TicketImpactFails(c) \/ TicketsDeleted(c) \/ DeletionFails(c)
      PROVE HistoryInv(history')
  BY <1>2, MetadataOfHistory, HistoryComes, TicketComes, EditorFails, TicketIsSaved, LineComes, LineHasFailed,
     ImpactOfTickets, TicketsGone
<1>3. CASE HistoryNext
  BY <1>2, <1>3, SyncingFilters, ActivatingHistory, ClickingTicket, SelectingTicket, OpeningDeletion, OpeningLine, TypingPrice,
     LeavingHistory, BackToTheHistory, CancellingEdits, SavingTicket, DeletingLine, TimerFiring, SavingLine,
     ClosingHistoryDialog, OpeningBulkDeletion, ConfirmingDeletion DEF HistoryNext
<1> QED
  BY <1>1, <1>3

LEMMA HistoryInvIsSound == HistoryInv(history) => HistorySound
<1> SUFFICES ASSUME HistoryInv(history) PROVE HistorySound
  OBVIOUS
<1>1. RowsAreOfTheFilters /\ DeletesWhatItNamed
  BY DEF RowsAreOfTheFilters, DeletesWhatItNamed, HistoryInv, LoadsFit, NamesFit
<1>2. TotalsAreOfTheirPrices
  BY DEF TotalsAreOfTheirPrices, HistoryInv, PricesFit, Priced
<1>3. ASSUME history.waits
      PROVE  /\ \A i \in DOMAIN history.editorItems :
                  /\ history.editorItems[i].of = history.ticket
                  /\ history.editorItems[i].text = <<history.ticket, history.editorItems[i].line>>
             /\ history.dialog = "line" /\ MayGoOn(history) => history.total \in {history.price, "unknown"}
             /\ ~history.unseen
             /\ history.view = "tickets" /\ history.screen = "detail" /\ history.editor = "saved" =>
                  /\ history.opened => history.ticket = history.route /\ history.ticket \in history.existing
                  /\ history.editorItems = history.stored[history.ticket]
  <2>1. /\ ~history.unseen /\ LinesFit(history) /\ CalculationFits(history) /\ (NothingDue(history) \/ OneDue(history))
    BY <1>3 DEF HistoryInv, WaitsFit
  <2>2. \A i \in DOMAIN history.editorItems :
                  /\ history.editorItems[i].of = history.ticket
                  /\ history.editorItems[i].text = <<history.ticket, history.editorItems[i].line>>
    BY <2>1 DEF LinesFit, Own
  <2>3. ASSUME history.dialog = "line", MayGoOn(history) PROVE history.total \in {history.price, "unknown"}
    <3>1. ~history.timer /\ \A c \in history.calls : c.kind = "list"
      BY <1>3, <2>3 DEF MayGoOn
    <3> QED
      BY <2>1, <2>3, <3>1 DEF CalculationFits, Counts
  <2>4. ASSUME history.view = "tickets", history.screen = "detail", history.editor = "saved" PROVE Placed(history)
    <3>1. CASE NothingDue(history)
      BY <3>1 DEF NothingDue
    <3>2. CASE OneDue(history)
      <4>1. PICK c \in history.calls : TicketDue(history, c)
        BY <3>2 DEF OneDue
      <4>2. c.kind \in {"list", "open", "save", "line", "impact", "delete"}
        BY OneLess, HistoryCallTypes
      <4> QED
        BY <2>4, <4>1, <4>2 DEF TicketDue
    <3> QED
      BY <2>1, <3>1, <3>2
  <2>5. ASSUME history.view = "tickets", history.screen = "detail", history.editor = "saved"
        PROVE  /\ history.opened => history.ticket = history.route /\ history.ticket \in history.existing
               /\ history.editorItems = history.stored[history.ticket]
    BY <2>4, <2>5 DEF Placed
  <2> QED
    BY <2>1, <2>2, <2>3, <2>5
<1>4. EditorIsTrue
  BY <1>3 DEF EditorIsTrue
<1> QED
  BY <1>1, <1>2, <1>4 DEF HistorySound

\* The rows of the history are those of its filters, the button of the dialog deletes what the
\* dialog named, a total is kept with the price it was calculated for, and what a user who
\* waits sees in the editor, in the dialog of a line and in that of a deletion is true
\* (loadHistory, openTicket, calculateLine, confirmDelete).
THEOREM TicketHistoryIsSound == HistorySpec => []HistorySound
<1> DEFINE Inv == HistoryInv(history)
<1>1. HistoryInit => Inv
  BY HistoryInitially
<1>2. Inv /\ [HistoryNext]_history => Inv'
  BY HistorySteps
<1>3. Inv => HistorySound
  BY HistoryInvIsSound
<1> HIDE DEF Inv
<1> QED
  BY <1>1, <1>2, <1>3, PTL DEF HistorySpec


--------------------------------------------------------------------------------
(* The screens of the client side by side.                                 *)

\* The invariant of the screen that runs.
ScreenInv ==
  /\ part = "products" => BrowseInv(browse)
  /\ part = "categories" => TreeInv(tree)
  /\ part = "tickets" => HistoryInv(history)

\* The part that runs stays the same, and its screen takes steps of its own.
LEMMA OnePartSteps ==
  ASSUME [ScreensNext]_screensVars
  PROVE  /\ part' = part
         /\ part = "products" => [BrowseNext]_browse
         /\ part = "categories" => [TreeNext]_tree
         /\ part = "tickets" => [HistoryNext]_history
<1>1. CASE UNCHANGED screensVars
  BY <1>1 DEF screensVars
<1>2. CASE ScreensNext
  <2>1. part' = part
    BY <1>2 DEF ScreensNext, Runs
  <2>2. part = "products" => BrowseNext \/ UNCHANGED browse
    BY <1>2 DEF ScreensNext, Runs
  <2>3. part = "categories" => TreeNext \/ UNCHANGED tree
    BY <1>2 DEF ScreensNext, Runs
  <2>4. part = "tickets" => HistoryNext \/ UNCHANGED history
    BY <1>2 DEF ScreensNext, Runs
  <2> QED
    BY <2>1, <2>2, <2>3, <2>4
<1> QED
  BY <1>1, <1>2

LEMMA ScreenSteps == ScreenInv /\ [ScreensNext]_screensVars => ScreenInv'
<1> SUFFICES ASSUME ScreenInv, [ScreensNext]_screensVars PROVE ScreenInv'
  OBVIOUS
<1>1. CASE part = "products"
  <2>1. BrowseInv(browse) /\ [BrowseNext]_browse /\ part' = part
    BY <1>1, OnePartSteps DEF ScreenInv
  <2> QED
    BY <1>1, <2>1, BrowseSteps DEF ScreenInv
<1>2. CASE part = "categories"
  <2>1. TreeInv(tree) /\ [TreeNext]_tree /\ part' = part
    BY <1>2, OnePartSteps DEF ScreenInv
  <2> QED
    BY <1>2, <2>1, TreeSteps DEF ScreenInv
<1>3. CASE part = "tickets"
  <2>1. HistoryInv(history) /\ [HistoryNext]_history /\ part' = part
    BY <1>3, OnePartSteps DEF ScreenInv
  <2> QED
    BY <1>3, <2>1, HistorySteps DEF ScreenInv
<1>4. CASE part \notin {"products", "categories", "tickets"}
  BY <1>4, OnePartSteps DEF ScreenInv
<1> QED
  BY <1>1, <1>2, <1>3, <1>4

\* Whichever screen is open, what it shows, sends and deletes is what it said, for any number
\* of products, categories, tickets, filters and reads under way.
THEOREM ScreensAreSound == ScreensSpec => []ScreensSound
<1>1. ScreensInit => ScreenInv
  BY BrowseInitially, TreeInitially, HistoryInitially DEF ScreensInit, ScreenInv
<1>2. ScreenInv /\ [ScreensNext]_screensVars => ScreenInv'
  BY ScreenSteps
<1>3. ScreenInv => ScreensSound
  BY BrowseInvIsSound, TreeInvIsSound, HistoryInvIsSound DEF ScreenInv, ScreensSound
<1> QED
  BY <1>1, <1>2, <1>3, PTL DEF ScreensSpec

--------------------------------------------------------------------------------
(* The types of every part of the client: those of the parts that take     *)
(* photographs, send requests, total lines and review drafts are in        *)
(* WebClient_proofs.                                                       *)

LEMMA BrowseIsTyped == BrowseInv(browse) => BrowseTypeOK
<1> SUFFICES ASSUME BrowseInv(browse) PROVE BrowseTypeOK
  OBVIOUS
<1>1. browse \in BrowseRecord
  BY DEF BrowseInv
<1> QED
  BY <1>1 DEF BrowseRecord, BrowseRoutes, BrowseTypeOK

LEMMA TreeIsTyped == TreeInv(tree) => TreeTypeOK
<1> SUFFICES ASSUME TreeInv(tree) PROVE TreeTypeOK
  OBVIOUS
<1>1. tree \in TreeRecord /\ tree.known \cup tree.existing \subseteq tree.given
  BY DEF TreeInv, TreeBase, IdsFit
<1> QED
  BY <1>1 DEF TreeRecord, TreeRoutes, TreeTypeOK

LEMMA HistoryIsTyped == HistoryInv(history) => HistoryTypeOK
<1> SUFFICES ASSUME HistoryInv(history) PROVE HistoryTypeOK
  OBVIOUS
<1>1. history \in HistoryRecord
  BY DEF HistoryInv
<1> QED
  BY <1>1, HistoryFields DEF HistoryRoutes, EditorStates, HistoryTypeOK

\* The draft shown is one of the drafts, and each draft is of the latest result of its capture.
LEMMA ReviewTyped == ASSUME ReviewInv PROVE ReviewTypeOK
<1>1. /\ pending \subseteq Receipts /\ resultOf \in [Receipts -> 0 .. MaxResults] /\ reviewActs \in 0 .. MaxReviewActs
      /\ drafts \in Seq(DraftSet) /\ OnePerKey(drafts) /\ rows \in RowSet
  BY DEF ReviewInv, ReviewTypes
<1>2. activeDraft \in Receipts \cup {NoReceipt}
  BY DEF ReviewInv, ActiveFits
<1>3. ASSUME NEW d \in ToSet(drafts) PROVE d.key \in Receipts /\ d.version = resultOf[d.key]
  <2>1. PICK i \in DOMAIN drafts : drafts[i] = d
    BY <1>3 DEF ToSet
  <2>2. drafts[i].key \in Receipts
    <3>1. drafts[i] \in DraftSet
      BY <1>1
    <3> QED
      BY <3>1 DEF DraftSet
  <2>3. DOMAIN Saved = DOMAIN drafts /\ Saved[i].key = drafts[i].key /\ Saved[i].version = drafts[i].version
    BY <1>1, SavedIs
  <2>4. Saved[i].version = resultOf[Saved[i].key]
    BY <2>3 DEF ReviewInv, Holds
  <2> QED
    BY <2>1, <2>2, <2>3, <2>4
<1>4. ASSUME activeDraft # NoReceipt PROVE Cardinality(Draft) = 1
  <2>1. PICK i \in DOMAIN drafts : drafts[i].key = activeDraft
    BY <1>4 DEF ReviewInv, ActiveFits
  <2>2. Draft = {drafts[i]}
    BY <1>1, <2>1 DEF Draft, IsActive, OnePerKey, ToSet
  <2> QED
    BY <2>2, FS_Singleton
<1> QED
  BY <1>1, <1>2, <1>3, <1>4 DEF ReviewTypeOK

\* The other parts take steps of their own as well.
LEMMA OtherPartsStep ==
  ASSUME [ScreensNext]_screensVars
  PROVE  /\ [CaptureNext]_captureVars /\ [CoordinatorNext]_coordinatorVars
         /\ [TotalNext]_totalVars /\ [ReviewNext]_reviewVars
<1>1. CASE UNCHANGED screensVars
  BY <1>1 DEF screensVars
<1>2. CASE ScreensNext
  <2>1. CaptureNext \/ UNCHANGED captureVars
    BY <1>2 DEF ScreensNext, Runs
  <2>2. CoordinatorNext \/ UNCHANGED coordinatorVars
    BY <1>2 DEF ScreensNext, Runs
  <2>3. TotalNext \/ UNCHANGED totalVars
    BY <1>2 DEF ScreensNext, Runs
  <2>4. ReviewNext \/ UNCHANGED reviewVars
    BY <1>2 DEF ScreensNext, Runs
  <2> QED
    BY <2>1, <2>2, <2>3, <2>4
<1> QED
  BY <1>1, <1>2

\* The invariant of the parts without a sheet, of which each is shown of its own module.
OthersInv == CaptureInv /\ CoordinatorTypeOK /\ TotalInv /\ ReviewInv

LEMMA OthersStart == ScreensInit => OthersInv
BY CaptureStarts, CoordinatorTypeInit, TotalStarts, ReviewStarts DEF ScreensInit, OthersInv

LEMMA OthersKeep ==
  ASSUME WorksOnMeanwhile = FALSE PROVE OthersInv /\ [ScreensNext]_screensVars => OthersInv'
<1> SUFFICES ASSUME OthersInv, [ScreensNext]_screensVars PROVE OthersInv'
  OBVIOUS
<1>1. CaptureInv'
  BY OtherPartsStep, CaptureKeeps DEF OthersInv
<1>2. CoordinatorTypeOK'
  BY OtherPartsStep, CoordinatorTypeStep DEF OthersInv
<1>3. TotalInv'
  BY OtherPartsStep, TotalKeeps DEF OthersInv
<1>4. ReviewInv'
  BY OtherPartsStep, ReviewKeeps DEF OthersInv
<1> QED
  BY <1>1, <1>2, <1>3, <1>4 DEF OthersInv

\* Whichever part of the client runs, its state has its types: a draft is of the latest
\* result of its capture and exactly one is shown, tasks are of captures, and sheets and
\* dialogs are of what the screen has (for the user of the review of whom ReviewIsSound is).
THEOREM ScreensAreTyped == ASSUME WorksOnMeanwhile = FALSE PROVE ScreensSpec => []ScreensTypeOK
<1>1. ScreensInit => ScreenInv /\ OthersInv
  BY OthersStart, BrowseInitially, TreeInitially, HistoryInitially DEF ScreensInit, ScreenInv
<1>2. ScreenInv /\ OthersInv /\ [ScreensNext]_screensVars => (ScreenInv /\ OthersInv)'
  BY ScreenSteps, OthersKeep
<1>3. ScreenInv /\ OthersInv => ScreensTypeOK
  <2> SUFFICES ASSUME ScreenInv, OthersInv PROVE ScreensTypeOK
    OBVIOUS
  <2>1. CaptureTypeOK /\ CoordinatorTypeOK /\ TotalTypeOK /\ ReviewTypeOK
    BY CaptureTyped, ReviewTyped DEF OthersInv, TotalInv
  <2> QED
    BY <2>1, BrowseIsTyped, TreeIsTyped, HistoryIsTyped DEF ScreenInv, ScreensTypeOK
<1> QED
  BY <1>1, <1>2, <1>3, PTL DEF ScreensSpec

=============================================================================
