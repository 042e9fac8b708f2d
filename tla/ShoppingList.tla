----------------------------- MODULE ShoppingList ------------------------------
(***************************************************************************)
(* The shopping lists of ShoppingRepository and the versions that clients  *)
(* send with their writes. Each method is one transaction of the only      *)
(* process, so each is one action; clients write on the strength of what   *)
(* they read earlier, which may be of any age.                             *)
(***************************************************************************)
EXTENDS Naturals, FiniteSets

CONSTANTS
  Clients,
  Lists,
  MaxItem,      \* bound on the items ever added; the ids are 1 .. MaxItem
  Stores,       \* stores an item or a list may point to
  MaxQuantity,  \* quantityMinor, for the fields of an item a PATCH replaces
  MaxVersion    \* bound on the version of each list

ASSUME SizeAssumption  == MaxItem \in Nat /\ MaxQuantity \in Nat \ {0} /\ MaxVersion \in Nat \ {0}
ASSUME StoreAssumption == "none" \notin Stores

\* createId: ids carry what they name, "list_..." and "item_...".
ASSUME IdAssumption == Lists \cap (1 .. MaxItem) = {}

Item        == 1 .. MaxItem
StoreOrNone == Stores \cup {"none"}
Version     == 0 .. MaxVersion

VARIABLES
  list,  \* rows of shopping_lists; version 0 when there is none
  item,  \* rows of shopping_list_items; version 0 when there is none
  used,  \* ids of lists and items handed out so far
  seen   \* of each client, the rows it read last

listVars == <<list, item, used, seen>>

NoList == [version |-> 0, store |-> "none"]
NoItem == [version |-> 0, list |-> "none", position |-> 0, quantity |-> 0, done |-> 0, store |-> "none"]

\* done is the version an item was completed with, standing for completed_at.
ListRow == [version : Version, store : StoreOrNone]
ItemRow == [version : Version, list : Lists \cup {"none"}, position : 0 .. MaxItem - 1,
            quantity : 0 .. MaxQuantity, done : Version, store : StoreOrNone]

ListTypeOK ==
  /\ list \in [Lists -> ListRow]
  /\ item \in [Item -> ItemRow]
  /\ used \subseteq Item \cup Lists
  /\ seen \in [Clients -> [list : [Lists -> ListRow], item : [Item -> ItemRow]]]

ListInit ==
  /\ list = [l \in Lists |-> NoList]
  /\ item = [i \in Item |-> NoItem]
  /\ used = {}
  /\ seen = [c \in Clients |-> [list |-> list, item |-> item]]

Exists(l)     == list[l].version > 0
ItemsOf(f, l) == {i \in Item : f[i].version > 0 /\ f[i].list = l}

--------------------------------------------------------------------------------

\* normalizePositions: ORDER BY position, id.
Before(f, i, k) ==
  \/ f[i].position < f[k].position
  \/ f[i].position = f[k].position /\ i < k

Rank(f, l, i) == Cardinality({k \in ItemsOf(f, l) : Before(f, k, i)})

NormalizePositions(f, l) ==
  [i \in Item |-> IF i \in ItemsOf(f, l) THEN [f[i] EXCEPT !.position = Rank(f, l, i)] ELSE f[i]]

\* touchList
TouchList(l) == list' = [list EXCEPT ![l].version = @ + 1]

\* Mutant: a write leaves the version of the item.
SameVersion(row) == row.version

NextVersion(row) == row.version + 1

\* completed and completed_at after a write that completes an item, or does not.
Completed(row, completed) ==
  IF ~completed THEN 0 ELSE IF row.done > 0 THEN row.done ELSE NextVersion(row)

Without(S) == [i \in Item |-> IF i \in S THEN NoItem ELSE item[i]]

\* Mutant: any version of the item will do.
AnyVersion(c, i) == seen[c].item[i].version > 0 /\ item[i].version > 0

\* WHERE version = ?: the client sends the version it has seen.
Current(c, i) == seen[c].item[i].version = item[i].version /\ item[i].version > 0

CurrentList(c, l) == seen[c].list[l].version = list[l].version /\ Exists(l)

--------------------------------------------------------------------------------
(* The methods of ShoppingRepository.                                      *)

CreateList(l) ==
  /\ l \notin used
  /\ list' = [list EXCEPT ![l] = [version |-> 1, store |-> "none"]]
  /\ used' = used \cup {l}
  /\ UNCHANGED <<item, seen>>

\* updateList: the version may come from the overview, which any client can have read.
UpdateList(l) ==
  /\ Exists(l) /\ list[l].version < MaxVersion
  /\ TouchList(l)
  /\ UNCHANGED <<item, used, seen>>

\* The items of l that have a store of their own.
Overridden(l) == {i \in ItemsOf(item, l) : item[i].store # "none"}

SetStoreSelection(c, l, s, scope) ==
  /\ CurrentList(c, l) /\ list[l].version < MaxVersion
  /\ list' = [list EXCEPT ![l] = [version |-> @.version + 1, store |-> s]]
  /\ item' = [i \in Item |->
       IF scope = "all" /\ i \in Overridden(l)
       THEN [item[i] EXCEPT !.store = "none", !.version = NextVersion(item[i])]
       ELSE item[i]]
  /\ UNCHANGED <<used, seen>>

DeleteList(l) ==
  /\ Exists(l)
  /\ list' = [list EXCEPT ![l] = NoList]
  /\ item' = Without(ItemsOf(item, l))
  /\ UNCHANGED <<used, seen>>

\* Mutants: the position after the pending items; positions from one.
AfterPending(l)   == Cardinality({i \in ItemsOf(item, l) : item[i].done = 0})
PositionsOfOne(l) == 1 + Cardinality(ItemsOf(item, l))

\* COALESCE(MAX(position), -1) + 1
NextPosition(l) ==
  LET taken == {item[i].position : i \in ItemsOf(item, l)}
  IN IF taken = {} THEN 0 ELSE 1 + CHOOSE p \in taken : \A q \in taken : q <= p

AddItem(l, i, q, s) ==
  /\ Exists(l) /\ list[l].version < MaxVersion /\ i \notin used
  /\ item' = [item EXCEPT ![i] = [version |-> 1, list |-> l, position |-> NextPosition(l),
                                  quantity |-> q, done |-> 0, store |-> s]]
  /\ used' = used \cup {i}
  /\ TouchList(l)
  /\ UNCHANGED seen

UpdateItem(c, i, q, completed, s) ==
  LET l == item[i].list IN
  /\ Current(c, i) /\ list[l].version < MaxVersion
  /\ item' = [item EXCEPT ![i] = [@ EXCEPT !.version = NextVersion(item[i]), !.quantity = q, !.store = s,
                                           !.done = Completed(item[i], completed)]]
  /\ TouchList(l)
  /\ UNCHANGED <<used, seen>>

DeleteItem(c, i) ==
  LET l == item[i].list IN
  /\ Current(c, i) /\ list[l].version < MaxVersion
  /\ item' = NormalizePositions(Without({i}), l)
  /\ TouchList(l)
  /\ UNCHANGED <<used, seen>>

\* bulkMutateItems: every selected item has to be current.
Bulk(c, l, S) ==
  /\ Exists(l) /\ list[l].version < MaxVersion
  /\ S # {} /\ S \subseteq ItemsOf(item, l)
  /\ \A i \in S : Current(c, i)
  /\ TouchList(l)
  /\ UNCHANGED <<used, seen>>

BulkCompleted(c, l, S, completed) ==
  /\ Bulk(c, l, S)
  /\ item' = [i \in Item |->
       IF i \in S THEN [item[i] EXCEPT !.version = NextVersion(item[i]), !.done = Completed(item[i], completed)]
                  ELSE item[i]]

BulkStore(c, l, S, s) ==
  /\ Bulk(c, l, S)
  /\ item' = [i \in Item |->
       IF i \in S THEN [item[i] EXCEPT !.version = NextVersion(item[i]), !.store = s] ELSE item[i]]

BulkDelete(c, l, S) ==
  /\ Bulk(c, l, S)
  /\ item' = NormalizePositions(Without(S), l)

\* reorderItems: the ids the client has seen, in an order p of its choice; they have to be
\* the current ones, and the versions of the items stay.
ReorderItems(c, l, p) ==
  LET ids == ItemsOf(seen[c].item, l) IN
  /\ CurrentList(c, l) /\ list[l].version < MaxVersion
  /\ ids = ItemsOf(item, l)
  /\ DOMAIN p = ids /\ {p[i] : i \in ids} = {n - 1 : n \in 1 .. Cardinality(ids)}
  /\ item' = [i \in Item |-> IF i \in ids THEN [item[i] EXCEPT !.position = p[i]] ELSE item[i]]
  /\ TouchList(l)
  /\ UNCHANGED <<used, seen>>

--------------------------------------------------------------------------------
(* What clients get to see.                                                *)

\* getList, and the answers and conflicts that carry the whole list.
GetList(c, l) ==
  /\ seen' = [seen EXCEPT ![c] =
       [list |-> [@.list EXCEPT ![l] = list[l]],
        item |-> [i \in Item |-> IF i \in ItemsOf(item, l) THEN item[i]
                                 ELSE IF @.item[i].list = l THEN NoItem ELSE @.item[i]]]]
  /\ UNCHANGED <<list, item, used>>

\* A write to an item that has changed is answered with the item as it is.
ItemConflict(c, i) ==
  /\ item[i].version > 0 /\ seen[c].item[i].version > 0 /\ ~Current(c, i)
  /\ seen' = [seen EXCEPT ![c].item[i] = item[i]]
  /\ UNCHANGED <<list, item, used>>

--------------------------------------------------------------------------------

Write(c, l) ==
  \/ CreateList(l) \/ UpdateList(l) \/ DeleteList(l)
  \/ \E s \in StoreOrNone, scope \in {"default", "all"} : SetStoreSelection(c, l, s, scope)
  \/ \E i \in Item, q \in 1 .. MaxQuantity, s \in StoreOrNone : AddItem(l, i, q, s)
  \/ \E S \in SUBSET ItemsOf(item, l) :
       \/ \E completed \in BOOLEAN : BulkCompleted(c, l, S, completed)
       \/ \E s \in StoreOrNone : BulkStore(c, l, S, s)
       \/ BulkDelete(c, l, S)
  \/ \E p \in [ItemsOf(item, l) -> 0 .. MaxItem - 1] : ReorderItems(c, l, p)

ListNext ==
  \E c \in Clients :
    \/ \E l \in Lists : Write(c, l) \/ GetList(c, l)
    \/ \E i \in Item :
         \/ DeleteItem(c, i) \/ ItemConflict(c, i)
         \/ \E q \in 1 .. MaxQuantity, completed \in BOOLEAN, s \in StoreOrNone :
              UpdateItem(c, i, q, completed, s)

ListSpec == ListInit /\ [][ListNext]_listVars

--------------------------------------------------------------------------------

\* The items of a list are at 0, 1, ... without a gap or a tie, after any mixture of adds,
\* single and bulk deletes and reorders (NextPosition and normalizePositions rely on it).
PositionsContiguous ==
  \A l \in Lists :
    {item[i].position : i \in ItemsOf(item, l)}
      = {n - 1 : n \in 1 .. Cardinality(ItemsOf(item, l))}

\* A version names a content: a client whose version of an item is the current one has
\* seen what the item says, so a write that is let through replaces nothing unseen.
Content(row) == [quantity |-> row.quantity, done |-> row.done, store |-> row.store, list |-> row.list]

ItemVersionNamesContent ==
  \A c \in Clients, i \in Item :
    seen[c].item[i].version = item[i].version => Content(seen[c].item[i]) = Content(item[i])

\* The same for a list: a client that has read its current version has seen its items and
\* their order, which is what lets a reorder and a choice of stores through.
ListVersionNamesContent ==
  \A c \in Clients, l \in Lists :
    CurrentList(c, l) =>
      /\ seen[c].list[l] = list[l]
      /\ \A i \in ItemsOf(item, l) \cup ItemsOf(seen[c].item, l) : seen[c].item[i] = item[i]

\* Nothing is let through on the strength of what was not seen, and whatever the clients
\* do, the positions of a list have no gap and no double.
ListsSound == ListTypeOK /\ PositionsContiguous /\ ItemVersionNamesContent /\ ListVersionNamesContent

\* "A stale write returns a conflict": an item is changed or deleted by itself only for a
\* client that has seen it as it was.
NoUnseenOverwrite ==
  [][\A i \in Item :
       /\ item[i].version > 0 /\ Content(item'[i]) # Content(item[i])
       /\ list'[item[i].list].version > 0
       => \E c \in Clients : Content(seen[c].item[i]) = Content(item[i])]_listVars

\* The lists are sequences that are appended to, changed in place, filtered or permuted.
ItemAt(l, k) == CHOOSE i \in ItemsOf(item, l) : Rank(item, l, i) = k - 1

SequenceOf(l) ==
  [k \in 1 .. Cardinality(ItemsOf(item, l)) |->
     [id |-> ItemAt(l, k), content |-> Content(item[ItemAt(l, k)])]]

Shared == INSTANCE SharedLists WITH
  Ids    <- Item,
  open   <- {l \in Lists : Exists(l)},
  order  <- [l \in Lists |-> SequenceOf(l)],
  unused <- Item \ used

ImplementsSharedLists == Shared!Spec
================================================================================
