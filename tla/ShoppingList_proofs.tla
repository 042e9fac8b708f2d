-------------------------- MODULE ShoppingList_proofs --------------------------
(***************************************************************************)
(* Theorems about the shopping lists, for any clients, lists, stores and   *)
(* items: the versions that clients send name what they have seen, the     *)
(* positions of a list stay contiguous, and the rows implement sequences.  *)
(***************************************************************************)
EXTENDS ShoppingList, FiniteSetTheorems, SequenceTheorems, TLAPS

--------------------------------------------------------------------------------
(* Ranks. Before orders the rows of a list strictly, so that the ranks of  *)
(* its n items are 0 .. n - 1, each once.                                  *)

Positioned(f) == \A i \in Item : f[i].position \in Nat

\* The rows of a list are finitely many.
LEMMA ItemsFinite ==
  ASSUME NEW f, NEW l
  PROVE  /\ IsFiniteSet(ItemsOf(f, l)) /\ Cardinality(ItemsOf(f, l)) \in Nat
         /\ Cardinality(ItemsOf(f, l)) <= MaxItem
<1>1. IsFiniteSet(Item) /\ Cardinality(Item) = MaxItem
  BY SizeAssumption, FS_Interval DEF Item
<1>2. ItemsOf(f, l) \in SUBSET Item
  BY DEF ItemsOf
<1>3. IsFiniteSet(ItemsOf(f, l)) /\ Cardinality(ItemsOf(f, l)) <= Cardinality(Item)
  BY <1>1, <1>2, FS_Subset
<1> QED
  BY <1>1, <1>3, FS_CardinalityType

\* A rank is a natural number below the number of items.
LEMMA RankBound ==
  ASSUME NEW f, NEW l, Positioned(f), NEW i \in ItemsOf(f, l)
  PROVE  Rank(f, l, i) \in 0 .. Cardinality(ItemsOf(f, l)) - 1
<1> DEFINE I == ItemsOf(f, l)
           S == {k \in I : Before(f, k, i)}
<1>1. IsFiniteSet(I) /\ Cardinality(I) \in Nat
  BY ItemsFinite
<1>2. i \in I \ S
  BY SizeAssumption DEF Before, Positioned, ItemsOf, Item
<1>3. S \in SUBSET I /\ S # I
  BY <1>2
<1> HIDE DEF I, S
<1>4. IsFiniteSet(S) /\ Cardinality(S) <= Cardinality(I) /\ Cardinality(S) # Cardinality(I)
  BY <1>1, <1>3, FS_Subset
<1>5. Cardinality(S) \in Nat
  BY <1>4, FS_CardinalityType
<1> QED
  BY <1>1, <1>4, <1>5 DEF Rank, S, I

\* Ranks follow the order.
LEMMA RankOrder ==
  ASSUME NEW f, NEW l, Positioned(f), NEW i \in ItemsOf(f, l), NEW k \in ItemsOf(f, l), Before(f, i, k)
  PROVE  Rank(f, l, i) < Rank(f, l, k)
<1> DEFINE S == {j \in ItemsOf(f, l) : Before(f, j, i)}
           T == {j \in ItemsOf(f, l) : Before(f, j, k)}
<1>0. \A j \in ItemsOf(f, l) : j \in Nat /\ f[j].position \in Nat
  BY SizeAssumption DEF ItemsOf, Item, Positioned
<1>1. S \in SUBSET T /\ i \in T \ S
  BY <1>0 DEF Before
<1>2. IsFiniteSet(T)
  <2>1. T \in SUBSET ItemsOf(f, l)
    OBVIOUS
  <2> QED
    BY <2>1, ItemsFinite, FS_Subset
<1> HIDE DEF S, T
<1>3. IsFiniteSet(S) /\ Cardinality(S) <= Cardinality(T) /\ Cardinality(S) # Cardinality(T)
  BY <1>1, <1>2, FS_Subset
<1>4. Cardinality(S) \in Nat /\ Cardinality(T) \in Nat
  BY <1>2, <1>3, FS_CardinalityType
<1> QED
  BY <1>3, <1>4 DEF Rank, S, T

\* No two items of a list have the same rank.
LEMMA RankInjective ==
  ASSUME NEW f, NEW l, Positioned(f), NEW i \in ItemsOf(f, l), NEW k \in ItemsOf(f, l), i # k
  PROVE  /\ Rank(f, l, i) # Rank(f, l, k)
         /\ Rank(f, l, i) < Rank(f, l, k) <=> Before(f, i, k)
<1>1. Before(f, i, k) \/ Before(f, k, i)
  BY SizeAssumption DEF ItemsOf, Item, Positioned, Before
<1>2. Rank(f, l, i) \in Nat /\ Rank(f, l, k) \in Nat
  BY RankBound
<1>3. Before(f, i, k) => Rank(f, l, i) < Rank(f, l, k)
  BY RankOrder
<1>4. Before(f, k, i) => Rank(f, l, k) < Rank(f, l, i)
  BY RankOrder
<1> QED
  BY <1>1, <1>2, <1>3, <1>4

\* Every number below the number of items is the rank of one.
LEMMA RankOnto ==
  ASSUME NEW f, NEW l, Positioned(f)
  PROVE  \A n \in 0 .. Cardinality(ItemsOf(f, l)) - 1 : \E i \in ItemsOf(f, l) : Rank(f, l, i) = n
<1> DEFINE I == ItemsOf(f, l)
           T == 0 .. Cardinality(I) - 1
           r == [i \in I |-> Rank(f, l, i)]
<1>1. IsFiniteSet(I) /\ Cardinality(I) \in Nat
  BY ItemsFinite
<1>2. \A i \in I : Rank(f, l, i) \in T
  BY RankBound
<1>3. \A i, k \in I : Rank(f, l, i) = Rank(f, l, k) => i = k
  BY RankInjective
<1>4. IsFiniteSet(T) /\ Cardinality(T) = Cardinality(I)
  BY <1>1, FS_Interval
<1>5. r \in [I -> T]
  BY <1>2
<1>6. r \in Injection(I, T)
  BY <1>3, <1>5 DEF Injection, IsInjective
<1> HIDE DEF I, T
<1>7. r \in Surjection(I, T)
  BY <1>4, <1>6, FS_Injection
<1> QED
  BY <1>7 DEF Surjection, I, T

\* normalizePositions leaves every list its items, puts the items of l at their ranks,
\* and changes nothing else of any row.
LEMMA NormalizedRows ==
  ASSUME NEW f \in [Item -> ItemRow], NEW l, NEW g, g = NormalizePositions(f, l)
  PROVE  /\ g \in [Item -> ItemRow]
         /\ \A m : ItemsOf(g, m) = ItemsOf(f, m)
         /\ \A i \in ItemsOf(f, l) : g[i].position = Rank(f, l, i)
         /\ \A i \in Item \ ItemsOf(f, l) : g[i] = f[i]
         /\ \A i \in Item : g[i].version = f[i].version /\ Content(g[i]) = Content(f[i])
<1>0. Positioned(f)
  BY SizeAssumption DEF Positioned, ItemRow, Item
<1>1. ASSUME NEW i \in ItemsOf(f, l)
      PROVE  /\ i \in Item /\ g[i] = [f[i] EXCEPT !.position = Rank(f, l, i)]
             /\ Rank(f, l, i) \in 0 .. MaxItem - 1
  <2>1. /\ Rank(f, l, i) \in 0 .. Cardinality(ItemsOf(f, l)) - 1
        /\ Cardinality(ItemsOf(f, l)) \in Nat /\ Cardinality(ItemsOf(f, l)) <= MaxItem
    BY <1>0, RankBound, ItemsFinite
  <2>2. Rank(f, l, i) \in 0 .. MaxItem - 1
    BY <2>1, SizeAssumption
  <2>3. i \in Item
    BY DEF ItemsOf
  <2> QED
    BY <2>2, <2>3 DEF NormalizePositions
<1>2. \A i \in Item \ ItemsOf(f, l) : g[i] = f[i]
  BY DEF NormalizePositions
<1>3. ASSUME NEW i \in Item
      PROVE  g[i] \in ItemRow /\ g[i].version = f[i].version /\ Content(g[i]) = Content(f[i])
  <2>1. CASE i \in ItemsOf(f, l)
    <3>1. f[i] \in ItemRow
      OBVIOUS
    <3> QED
      BY <1>1, <2>1, <3>1 DEF ItemRow, Content
  <2>2. CASE i \notin ItemsOf(f, l)
    BY <1>2, <2>2
  <2> QED
    BY <2>1, <2>2
<1>4. \A i \in ItemsOf(f, l) : g[i].position = Rank(f, l, i)
  BY <1>1 DEF ItemRow
<1>5. g \in [Item -> ItemRow]
  BY <1>3 DEF NormalizePositions
<1>6. \A m : ItemsOf(g, m) = ItemsOf(f, m)
  BY <1>3 DEF ItemsOf, Content
<1> QED
  BY <1>2, <1>3, <1>4, <1>5, <1>6

\* The positions of n items, the first at zero.
LEMMA CountFromZero ==
  ASSUME NEW n \in Nat
  PROVE  {k - 1 : k \in 1 .. n} = 0 .. n - 1
<1>1. \A k \in 0 .. n - 1 : k + 1 \in 1 .. n /\ k = (k + 1) - 1
  OBVIOUS
<1> QED
  BY <1>1

Contiguous(f, l) ==
  {f[i].position : i \in ItemsOf(f, l)} = {n - 1 : n \in 1 .. Cardinality(ItemsOf(f, l))}

\* After normalizePositions the list has no gap and no tie.
LEMMA NormalizedIsContiguous ==
  ASSUME NEW f \in [Item -> ItemRow], NEW l
  PROVE  Contiguous(NormalizePositions(f, l), l)
<1> DEFINE g == NormalizePositions(f, l)
           n == Cardinality(ItemsOf(f, l))
<1>0. Positioned(f)
  BY SizeAssumption DEF Positioned, ItemRow, Item
<1>1. ItemsOf(g, l) = ItemsOf(f, l) /\ \A i \in ItemsOf(f, l) : g[i].position = Rank(f, l, i)
  BY NormalizedRows
<1>2. {g[i].position : i \in ItemsOf(g, l)} = {Rank(f, l, i) : i \in ItemsOf(f, l)}
  BY <1>1
<1>3. n \in Nat
  BY ItemsFinite
<1>4. {Rank(f, l, i) : i \in ItemsOf(f, l)} = 0 .. n - 1
  <2>1. \A i \in ItemsOf(f, l) : Rank(f, l, i) \in 0 .. n - 1
    BY <1>0, RankBound
  <2>2. \A k \in 0 .. n - 1 : \E i \in ItemsOf(f, l) : Rank(f, l, i) = k
    BY <1>0, RankOnto
  <2> QED
    BY <2>1, <2>2
<1>5. {k - 1 : k \in 1 .. n} = 0 .. n - 1
  BY <1>3, CountFromZero
<1> QED
  BY <1>1, <1>2, <1>4, <1>5 DEF Contiguous

\* Where the list is contiguous, a new item goes to the number of the items.
LEMMA NextPositionIsCount ==
  ASSUME NEW l, Contiguous(item, l)
  PROVE  NextPosition(l) = Cardinality(ItemsOf(item, l))
<1> DEFINE n == Cardinality(ItemsOf(item, l))
           taken == {item[i].position : i \in ItemsOf(item, l)}
<1>1. n \in Nat /\ IsFiniteSet(ItemsOf(item, l))
  BY ItemsFinite
<1>2. taken = {k - 1 : k \in 1 .. n}
  BY DEF Contiguous
<1>3. taken = 0 .. n - 1
  BY <1>1, <1>2, CountFromZero
<1>4. NextPosition(l) = IF taken = {} THEN 0 ELSE 1 + CHOOSE p \in taken : \A q \in taken : q <= p
  BY DEF NextPosition
<1> HIDE DEF taken, n
<1>5. CASE n = 0
  <2>1. taken = {}
    BY <1>3, <1>5
  <2> QED
    BY <1>4, <1>5, <2>1 DEF n
<1>6. CASE n # 0
  <2>1. /\ n - 1 \in taken /\ \A q \in taken : q <= n - 1
        /\ \A p \in taken : p \in Nat
    BY <1>1, <1>3, <1>6
  <2>2. \A p \in taken : (\A q \in taken : q <= p) => p = n - 1
    BY <1>1, <2>1
  <2>3. (CHOOSE p \in taken : \A q \in taken : q <= p) = n - 1
    BY <2>1, <2>2
  <2>4. NextPosition(l) = 1 + (n - 1)
    BY <1>4, <2>1, <2>3
  <2> QED
    BY <1>1, <2>4 DEF n
<1> QED
  BY <1>5, <1>6

--------------------------------------------------------------------------------
(* The invariant. *)

\* Rows that exist: an item belongs to a list that does, and was written less often.
Rows ==
  /\ \A l \in Lists : list[l].version = 0 \/ l \notin used => list[l] = NoList
  /\ \A i \in Item : item[i].version = 0 \/ i \notin used => item[i] = NoItem
  /\ \A i \in Item : item[i].version > 0 =>
       /\ item[i].list \in Lists /\ item[i].version < list[item[i].list].version
       /\ item[i].done <= item[i].version

\* What a client has seen is never newer than the row, and as the row if as new.
ItemSeen(c, i) ==
  /\ seen[c].item[i].version = 0 \/ i \notin used => seen[c].item[i] = NoItem
  /\ item[i].version > 0 =>
       /\ seen[c].item[i].version <= item[i].version
       /\ seen[c].item[i].version = item[i].version => Content(seen[c].item[i]) = Content(item[i])

ListSeen(c, l) ==
  /\ l \notin used => seen[c].list[l] = NoList
  /\ Exists(l) =>
       /\ seen[c].list[l].version <= list[l].version
       /\ seen[c].list[l].version = list[l].version =>
            /\ seen[c].list[l] = list[l]
            /\ \A i \in ItemsOf(item, l) \cup ItemsOf(seen[c].item, l) : seen[c].item[i] = item[i]

Views == \A c \in Clients : (\A i \in Item : ItemSeen(c, i)) /\ (\A l \in Lists : ListSeen(c, l))

LInv ==
  /\ ListTypeOK
  /\ Rows
  /\ Views
  /\ PositionsContiguous

--------------------------------------------------------------------------------
(* Every write to a list that stays is of one form.                        *)

\* What a write to list l may do to row i.
RowStep(i, l) ==
  \/ item'[i] = item[i]
  \/ /\ item[i].version > 0 /\ item[i].list = l
     /\ \/ item'[i] = NoItem
        \/ item'[i].version = item[i].version /\ Content(item'[i]) = Content(item[i])
        \/ /\ item'[i].version = item[i].version + 1
           /\ item'[i].list = l /\ item'[i].done <= item[i].version + 1
  \/ /\ i \notin used /\ i \in used'
     /\ item'[i].version = 1 /\ item'[i].list = l /\ item'[i].done = 0

WritesTo(l) ==
  /\ Exists(l) /\ list[l].version < MaxVersion
  /\ \E s \in StoreOrNone : list' = [list EXCEPT ![l] = [version |-> list[l].version + 1, store |-> s]]
  /\ used \subseteq used' /\ used' \subseteq Item \cup used
  /\ UNCHANGED seen
  /\ item' \in [Item -> ItemRow]
  /\ \A i \in Item : RowStep(i, l)

\* The initial states satisfy the invariant.
LEMMA ListInvInit == ListInit => LInv
<1> SUFFICES ASSUME ListInit PROVE LInv
  OBVIOUS
<1>1. ListTypeOK
  BY SizeAssumption DEF ListInit, ListTypeOK, ListRow, ItemRow, NoList, NoItem, Version, StoreOrNone, Item
<1>2. \A f, l : f = item => ItemsOf(f, l) = {}
  BY DEF ListInit, ItemsOf, NoItem
<1>3. PositionsContiguous
  BY <1>2, FS_EmptySet DEF PositionsContiguous
<1>4. Rows /\ Views
  BY <1>2 DEF ListInit, Rows, Views, ItemSeen, ListSeen, Exists, NoList, NoItem, ItemsOf
<1> QED
  BY <1>1, <1>3, <1>4 DEF LInv

\* Such a write keeps the rows and the views: the version of the list moves on, so no
\* client's list is current, and the version of a row stays only with its content.
LEMMA WriteKeepsViews ==
  ASSUME LInv, NEW l \in Lists, WritesTo(l)
  PROVE  ListTypeOK' /\ Rows' /\ Views'
<1> USE SizeAssumption
<1> USE DEF LInv, ListTypeOK
<1>1. PICK s \in StoreOrNone : list' = [list EXCEPT ![l] = [version |-> list[l].version + 1, store |-> s]]
  BY DEF WritesTo
<1>2. /\ list'[l].version = list[l].version + 1
      /\ \A m \in Lists \ {l} : list'[m] = list[m]
      /\ list' \in [Lists -> ListRow]
  BY <1>1 DEF WritesTo, ListRow, Version
<1>3. /\ Exists(l) /\ used \subseteq used' /\ used' \subseteq Item \cup used /\ seen' = seen
      /\ item' \in [Item -> ItemRow] /\ \A i \in Item : RowStep(i, l)
  BY DEF WritesTo
<1>4. ListTypeOK'
  BY <1>2, <1>3
<1>5. ASSUME NEW i \in Item PROVE item'[i] = item[i] \/ item'[i].version = 0 \/ item'[i].list = l
  <2>1. RowStep(i, l)
    BY <1>3
  <2>2. Content(item'[i]) = Content(item[i]) => item'[i].list = item[i].list
    BY DEF Content
  <2> QED
    BY <2>1, <2>2 DEF RowStep, NoItem
<1>6. Rows'
  <2>1. \A m \in Lists : list'[m].version = 0 \/ m \notin used' => list'[m] = NoList
    BY <1>2, <1>3 DEF Rows, Exists, ListRow, Version, NoList
  <2>2. ASSUME NEW i \in Item
        PROVE  /\ item'[i].version = 0 \/ i \notin used' => item'[i] = NoItem
               /\ item'[i].version > 0 =>
                    /\ item'[i].list \in Lists /\ item'[i].version < list'[item'[i].list].version
                    /\ item'[i].done <= item'[i].version
    <3>1. /\ item[i].version = 0 \/ i \notin used => item[i] = NoItem
          /\ item[i].version > 0 =>
               /\ item[i].list \in Lists /\ item[i].version < list[item[i].list].version
               /\ item[i].done <= item[i].version
      BY DEF Rows
    <3>2. RowStep(i, l) /\ item[i] \in ItemRow /\ item'[i] \in ItemRow
      BY <1>3
    <3>3. ASSUME NEW m \in Lists
          PROVE  list[m].version \in Nat /\ list'[m].version \in Nat /\ list[m].version <= list'[m].version
      <4>1. list[m] \in ListRow /\ list'[m] \in ListRow
        BY <1>2
      <4>2. list[m].version \in Nat /\ list'[m].version \in Nat
        BY <4>1 DEF ListRow, Version
      <4>3. list'[m].version = list[m].version + 1 \/ list'[m].version = list[m].version
        BY <1>2
      <4> QED
        BY ONLY <4>2, <4>3
    <3>4. list[l].version > 0
      BY <1>3 DEF Exists
    <3> QED
      BY <1>2, <1>3, <3>1, <3>2, <3>3, <3>4 DEF RowStep, ItemRow, NoItem, Content, Version
  <2> QED
    BY <2>1, <2>2 DEF Rows
<1>7. ASSUME NEW c \in Clients, NEW i \in Item PROVE ItemSeen(c, i)'
  <2>1. ItemSeen(c, i) /\ RowStep(i, l) /\ (i \notin used => item[i] = NoItem)
    BY <1>3 DEF Views, Rows
  <2>2. item[i] \in ItemRow /\ item'[i] \in ItemRow /\ seen[c].item[i] \in ItemRow
    BY <1>3
  <2> QED
    BY <1>3, <2>1, <2>2 DEF RowStep, ItemSeen, ItemRow, NoItem, Content, Version
<1>8. ASSUME NEW c \in Clients, NEW m \in Lists PROVE ListSeen(c, m)'
  <2>1. ListSeen(c, m)
    BY DEF Views
  <2>2. seen[c].list[m] \in ListRow /\ list[m] \in ListRow
    OBVIOUS
  <2>3. CASE m = l
    BY <1>2, <1>3, <2>1, <2>2, <2>3 DEF ListSeen, Exists, ListRow, Version
  <2>4. CASE m # l
    <3>1. list'[m] = list[m]
      BY <1>2, <2>4
    <3>2. ASSUME NEW i \in ItemsOf(item', m) \cup ItemsOf(seen[c].item, m), Exists(m),
                 seen[c].list[m].version = list[m].version
          PROVE  seen[c].item[i] = item'[i]
      <4>1. CASE i \in ItemsOf(seen[c].item, m)
        <5>1. seen[c].item[i] = item[i] /\ item[i].version > 0 /\ item[i].list = m /\ i \in Item /\ i \in used
          BY <2>1, <3>2, <4>1 DEF ListSeen, ItemsOf, Rows, NoItem
        <5> QED
          BY <1>3, <2>4, <5>1 DEF RowStep
      <4>2. CASE i \in ItemsOf(item', m)
        <5>1. item'[i] = item[i]
          BY <1>5, <2>4, <4>2 DEF ItemsOf
        <5>2. i \in ItemsOf(item, m)
          BY <4>2, <5>1 DEF ItemsOf
        <5> QED
          BY <2>1, <3>2, <5>1, <5>2 DEF ListSeen
      <4> QED
        BY <3>2, <4>1, <4>2
    <3> QED
      BY <1>3, <2>1, <3>1, <3>2 DEF ListSeen, Exists
  <2> QED
    BY <2>3, <2>4
<1> QED
  BY <1>4, <1>6, <1>7, <1>8 DEF Views

\* A list whose items stay where they are stays contiguous.
LEMMA PlacesKept ==
  ASSUME NEW f, NEW g, NEW l, Contiguous(f, l), ItemsOf(g, l) = ItemsOf(f, l),
         \A i \in ItemsOf(f, l) : g[i].position = f[i].position
  PROVE  Contiguous(g, l)
<1>1. {g[i].position : i \in ItemsOf(g, l)} = {f[i].position : i \in ItemsOf(f, l)}
  OBVIOUS
<1> QED
  BY <1>1 DEF Contiguous

\* A step that leaves the items leaves their places.
LEMMA PlacesStay ==
  ASSUME PositionsContiguous, item' = item
  PROVE  PositionsContiguous'
<1>1. ASSUME NEW l \in Lists PROVE Contiguous(item', l)
  <2>1. Contiguous(item, l)
    BY DEF PositionsContiguous, Contiguous
  <2> QED
    BY <2>1
<1> QED
  BY <1>1 DEF PositionsContiguous, Contiguous

\* The bounds of a write: the version of the list is below its bound, and so are those of
\* its items.
LEMMA WriteBounds ==
  ASSUME LInv, NEW l \in Lists, Exists(l), list[l].version < MaxVersion
  PROVE  /\ list[l].version + 1 \in Version /\ 1 \in Version
         /\ \A i \in ItemsOf(item, l) : item[i].version + 1 \in Version /\ item[i].version \in Nat
         /\ \A i \in ItemsOf(item, l), b \in BOOLEAN :
              Completed(item[i], b) \in Version /\ Completed(item[i], b) <= item[i].version + 1
<1> USE SizeAssumption
<1>1. list[l] \in ListRow
  BY DEF LInv, ListTypeOK
<1>2. ASSUME NEW i \in ItemsOf(item, l)
      PROVE  /\ item[i] \in ItemRow /\ item[i].version < list[l].version
             /\ item[i].done <= item[i].version
  BY DEF LInv, ListTypeOK, Rows, ItemsOf
<1>3. \A i \in ItemsOf(item, l) : item[i].version \in Nat /\ item[i].done \in Nat
  BY <1>2 DEF ItemRow, Version
<1>4. list[l].version \in Nat
  BY <1>1 DEF ListRow, Version
<1>5. \A i \in ItemsOf(item, l) : item[i].version + 1 \in Version
  BY <1>2, <1>3, <1>4 DEF Version
<1>6. ASSUME NEW i \in ItemsOf(item, l), NEW b \in BOOLEAN
      PROVE  Completed(item[i], b) \in Version /\ Completed(item[i], b) <= item[i].version + 1
  BY <1>2, <1>3, <1>5 DEF Completed, NextVersion, Version
<1> QED
  BY <1>3, <1>4, <1>5, <1>6 DEF Exists, Version

\* The list of an item that exists, exists.
LEMMA ListOfItem ==
  ASSUME LInv, NEW i \in Item, item[i].version > 0
  PROVE  /\ item[i].list \in Lists /\ Exists(item[i].list) /\ i \in ItemsOf(item, item[i].list)
<1>1. item[i].list \in Lists /\ item[i].version < list[item[i].list].version
  BY DEF LInv, Rows
<1>2. item[i].version \in Nat /\ list[item[i].list].version \in Nat
  BY <1>1, SizeAssumption DEF LInv, ListTypeOK, ItemRow, ListRow, Version
<1> QED
  BY <1>1, <1>2 DEF Exists, ItemsOf

\* touchList is the choice of the store the list already has.
LEMMA Touch ==
  ASSUME LInv, NEW l \in Lists, TouchList(l)
  PROVE  \E s \in StoreOrNone : list' = [list EXCEPT ![l] = [version |-> list[l].version + 1, store |-> s]]
<1>1. list[l] \in ListRow
  BY DEF LInv, ListTypeOK
<1>2. list[l].store \in StoreOrNone
     /\ [list[l] EXCEPT !.version = @ + 1] = [version |-> list[l].version + 1, store |-> list[l].store]
  BY <1>1 DEF ListRow
<1> QED
  BY <1>2 DEF TouchList

\* A change of the items S of list l where they are.
InPlace(l, S) ==
  /\ S \subseteq ItemsOf(item, l)
  /\ \A i \in Item \ S : item'[i] = item[i]
  /\ \A i \in S : /\ item'[i] \in ItemRow /\ item'[i].version = item[i].version + 1
                  /\ item'[i].list = l /\ item'[i].position = item[i].position
                  /\ item'[i].done <= item[i].version + 1

\* It is a step of every row, and keeps every list its items and their places.
LEMMA InPlaceKeeps ==
  ASSUME LInv, NEW l \in Lists, NEW S, InPlace(l, S), item' = [i \in Item |-> item'[i]]
  PROVE  /\ item' \in [Item -> ItemRow] /\ \A i \in Item : RowStep(i, l)
         /\ \A m \in Lists : ItemsOf(item', m) = ItemsOf(item, m)
         /\ PositionsContiguous'
<1>1. \A i \in Item : item[i] \in ItemRow
  BY DEF LInv, ListTypeOK
<1>2. \A i \in S : i \in Item /\ item[i].version > 0 /\ item[i].list = l /\ item[i].version \in Nat
  BY <1>1, SizeAssumption DEF InPlace, ItemsOf, ItemRow, Version
<1>3. \A i \in Item : item'[i] \in ItemRow
  BY <1>1 DEF InPlace
<1>4. \A i \in Item : RowStep(i, l)
  BY <1>2 DEF InPlace, RowStep
<1>5. \A m \in Lists : ItemsOf(item', m) = ItemsOf(item, m)
  BY <1>2 DEF InPlace, ItemsOf
<1>6. \A i \in Item : item'[i].position = item[i].position
  BY DEF InPlace
<1>7. \A m \in Lists : Contiguous(item', m)
  <2> SUFFICES ASSUME NEW m \in Lists PROVE Contiguous(item', m)
    OBVIOUS
  <2>1. Contiguous(item, m)
    BY DEF LInv, PositionsContiguous, Contiguous
  <2>2. \A i \in ItemsOf(item, m) : item'[i].position = item[i].position
    BY <1>6 DEF ItemsOf
  <2> QED
    BY <1>5, <2>1, <2>2, PlacesKept
<1>8. PositionsContiguous'
  BY <1>7 DEF PositionsContiguous, Contiguous
<1> QED
  BY <1>3, <1>4, <1>5, <1>8

\* updateItem changes its row in place.
LEMMA UpdateItemIsInPlace ==
  ASSUME LInv, NEW c \in Clients, NEW i \in Item, NEW q \in 1 .. MaxQuantity,
         NEW b \in BOOLEAN, NEW s \in StoreOrNone, UpdateItem(c, i, q, b, s)
  PROVE  /\ item[i].list \in Lists /\ Exists(item[i].list) /\ item[i].version > 0
         /\ InPlace(item[i].list, {i}) /\ item' = [k \in Item |-> item'[k]]
<1> DEFINE l == item[i].list
<1>1. item[i].version > 0 /\ list[l].version < MaxVersion
  BY DEF UpdateItem, Current
<1>2. l \in Lists /\ Exists(l) /\ i \in ItemsOf(item, l)
  BY <1>1, ListOfItem
<1>3. item[i].version + 1 \in Version /\ Completed(item[i], b) \in Version
      /\ Completed(item[i], b) <= item[i].version + 1
  BY <1>1, <1>2, WriteBounds
<1>4. item[i] \in ItemRow /\ item \in [Item -> ItemRow]
  BY DEF LInv, ListTypeOK
<1>5. item' = [item EXCEPT ![i] = [item[i] EXCEPT !.version = NextVersion(item[i]), !.quantity = q,
                                                  !.store = s, !.done = Completed(item[i], b)]]
  BY DEF UpdateItem
<1>6. item'[i] = [item[i] EXCEPT !.version = NextVersion(item[i]), !.quantity = q,
                                 !.store = s, !.done = Completed(item[i], b)]
      /\ \A k \in Item \ {i} : item'[k] = item[k]
  BY <1>4, <1>5
<1>7. q \in 0 .. MaxQuantity
  BY SizeAssumption
<1>8. item'[i] \in ItemRow /\ item'[i].version = item[i].version + 1 /\ item'[i].list = l
      /\ item'[i].position = item[i].position /\ item'[i].done <= item[i].version + 1
  BY <1>3, <1>4, <1>6, <1>7 DEF ItemRow, NextVersion
<1>9. item' = [k \in Item |-> item'[k]]
  BY <1>4, <1>5
<1> QED
  BY <1>1, <1>2, <1>6, <1>8, <1>9 DEF InPlace

\* Completing several items, or none, changes their rows in place.
LEMMA BulkCompletedIsInPlace ==
  ASSUME LInv, NEW c \in Clients, NEW l \in Lists, NEW S \in SUBSET ItemsOf(item, l), NEW b \in BOOLEAN,
         BulkCompleted(c, l, S, b)
  PROVE  InPlace(l, S) /\ item' = [k \in Item |-> item'[k]]
<1>1. Exists(l) /\ list[l].version < MaxVersion
  BY DEF BulkCompleted, Bulk
<1>2. item' = [i \in Item |->
       IF i \in S THEN [item[i] EXCEPT !.version = NextVersion(item[i]), !.done = Completed(item[i], b)]
                  ELSE item[i]]
  BY DEF BulkCompleted
<1>3. ASSUME NEW i \in S
      PROVE  /\ item'[i] \in ItemRow /\ item'[i].version = item[i].version + 1
             /\ item'[i].list = l /\ item'[i].position = item[i].position
             /\ item'[i].done <= item[i].version + 1
  <2>1. i \in Item /\ item[i].list = l /\ item[i] \in ItemRow
    BY DEF ItemsOf, LInv, ListTypeOK
  <2>2. item[i].version + 1 \in Version /\ Completed(item[i], b) \in Version
        /\ Completed(item[i], b) <= item[i].version + 1
    BY <1>1, WriteBounds
  <2>3. item'[i] = [item[i] EXCEPT !.version = NextVersion(item[i]), !.done = Completed(item[i], b)]
    BY <1>2, <2>1
  <2> QED
    BY <2>1, <2>2, <2>3 DEF ItemRow, NextVersion
<1>4. \A i \in Item \ S : item'[i] = item[i]
  BY <1>2
<1>5. item' = [k \in Item |-> item'[k]]
  BY <1>2
<1> QED
  BY <1>3, <1>4, <1>5 DEF InPlace

\* So does choosing a store for several items,
LEMMA BulkStoreIsInPlace ==
  ASSUME LInv, NEW c \in Clients, NEW l \in Lists, NEW S \in SUBSET ItemsOf(item, l), NEW s \in StoreOrNone,
         BulkStore(c, l, S, s)
  PROVE  InPlace(l, S) /\ item' = [k \in Item |-> item'[k]]
<1>1. Exists(l) /\ list[l].version < MaxVersion
  BY DEF BulkStore, Bulk
<1>2. item' = [i \in Item |->
       IF i \in S THEN [item[i] EXCEPT !.version = NextVersion(item[i]), !.store = s] ELSE item[i]]
  BY DEF BulkStore
<1>3. ASSUME NEW i \in S
      PROVE  /\ item'[i] \in ItemRow /\ item'[i].version = item[i].version + 1
             /\ item'[i].list = l /\ item'[i].position = item[i].position
             /\ item'[i].done <= item[i].version + 1
  <2>1. i \in Item /\ item[i].list = l /\ item[i] \in ItemRow /\ item[i].done <= item[i].version
        /\ item[i].done \in Nat
    BY SizeAssumption DEF ItemsOf, LInv, ListTypeOK, Rows, ItemRow, Version
  <2>2. item[i].version + 1 \in Version /\ item[i].version \in Nat
    BY <1>1, WriteBounds
  <2>3. item'[i] = [item[i] EXCEPT !.version = NextVersion(item[i]), !.store = s]
    BY <1>2, <2>1
  <2>4. item[i].done <= item[i].version + 1
    BY <2>1, <2>2
  <2>5. item'[i] \in ItemRow
    BY <2>1, <2>2, <2>3 DEF ItemRow, NextVersion, StoreOrNone
  <2>6. /\ item'[i].version = item[i].version + 1 /\ item'[i].list = item[i].list
        /\ item'[i].position = item[i].position /\ item'[i].done = item[i].done
    BY <2>1, <2>3 DEF ItemRow, NextVersion
  <2> QED
    BY <2>1, <2>4, <2>5, <2>6
<1>4. \A i \in Item \ S : item'[i] = item[i]
  BY <1>2
<1>5. item' = [k \in Item |-> item'[k]]
  BY <1>2
<1> QED
  BY <1>3, <1>4, <1>5 DEF InPlace

\* and choosing a store for the list and for the items that had one of their own.
LEMMA SelectionIsInPlace ==
  ASSUME LInv, NEW c \in Clients, NEW l \in Lists, NEW s \in StoreOrNone, NEW scope \in {"default", "all"},
         SetStoreSelection(c, l, s, scope)
  PROVE  /\ InPlace(l, IF scope = "all" THEN Overridden(l) ELSE {})
         /\ item' = [k \in Item |-> item'[k]]
<1> DEFINE S == IF scope = "all" THEN Overridden(l) ELSE {}
<1>1. Exists(l) /\ list[l].version < MaxVersion
  BY DEF SetStoreSelection, CurrentList
<1>2. item' = [i \in Item |->
       IF scope = "all" /\ i \in Overridden(l)
       THEN [item[i] EXCEPT !.store = "none", !.version = NextVersion(item[i])] ELSE item[i]]
  BY DEF SetStoreSelection
<1>3. S \subseteq ItemsOf(item, l)
  BY DEF Overridden
<1>4. ASSUME NEW i \in S
      PROVE  /\ item'[i] \in ItemRow /\ item'[i].version = item[i].version + 1
             /\ item'[i].list = l /\ item'[i].position = item[i].position
             /\ item'[i].done <= item[i].version + 1
  <2>1. i \in Item /\ item[i].list = l /\ item[i] \in ItemRow /\ item[i].done <= item[i].version
        /\ item[i].done \in Nat /\ i \in ItemsOf(item, l)
    BY <1>3, SizeAssumption DEF ItemsOf, LInv, ListTypeOK, Rows, ItemRow, Version
  <2>2. item[i].version + 1 \in Version /\ item[i].version \in Nat
    BY <1>1, <2>1, WriteBounds
  <2>3. item'[i] = [item[i] EXCEPT !.store = "none", !.version = NextVersion(item[i])]
    BY <1>2, <2>1
  <2>4. item[i].done <= item[i].version + 1
    BY <2>1, <2>2
  <2>5. item'[i] \in ItemRow
    BY <2>1, <2>2, <2>3 DEF ItemRow, NextVersion, StoreOrNone
  <2>6. /\ item'[i].version = item[i].version + 1 /\ item'[i].list = item[i].list
        /\ item'[i].position = item[i].position /\ item'[i].done = item[i].done
    BY <2>1, <2>3 DEF ItemRow, NextVersion
  <2> QED
    BY <2>1, <2>4, <2>5, <2>6
<1>5. \A i \in Item \ S : item'[i] = item[i]
  BY <1>2
<1>6. item' = [k \in Item |-> item'[k]]
  BY <1>2
<1> QED
  BY <1>3, <1>4, <1>5, <1>6 DEF InPlace

\* deleteItem and the deletion of several items: the other items stay as they are, in
\* their order, and close up.
LEMMA RemovalKeeps ==
  ASSUME LInv, NEW l \in Lists, NEW S \in SUBSET ItemsOf(item, l),
         item' = NormalizePositions(Without(S), l)
  PROVE  /\ item' \in [Item -> ItemRow] /\ \A i \in Item : RowStep(i, l)
         /\ \A m \in Lists : ItemsOf(item', m) = ItemsOf(item, m) \ S
         /\ \A i \in Item \ S : item'[i].version = item[i].version /\ Content(item'[i]) = Content(item[i])
         /\ \A i \in ItemsOf(item, l) \ S : item'[i].position = Rank(Without(S), l, i)
         /\ \A i \in Item \ ItemsOf(item, l) : item'[i] = item[i]
         /\ PositionsContiguous'
<1> DEFINE f == Without(S)
<1>1. S \subseteq Item /\ item \in [Item -> ItemRow]
  BY DEF ItemsOf, LInv, ListTypeOK
<1>2. \A i \in Item : f[i] = IF i \in S THEN NoItem ELSE item[i]
  BY DEF Without
<1>3. f \in [Item -> ItemRow]
  <2>1. Item # {} => NoItem \in ItemRow
    BY SizeAssumption DEF Item, NoItem, ItemRow, Version, StoreOrNone
  <2>2. \A i \in Item : f[i] \in ItemRow
    BY <1>1, <1>2, <2>1
  <2> QED
    BY <2>2 DEF Without
<1> HIDE DEF f
<1>4. \A m : ItemsOf(f, m) = ItemsOf(item, m) \ S
  BY <1>1, <1>2 DEF ItemsOf, NoItem
<1>5. /\ item' \in [Item -> ItemRow]
      /\ \A m : ItemsOf(item', m) = ItemsOf(f, m)
      /\ \A i \in ItemsOf(f, l) : item'[i].position = Rank(f, l, i)
      /\ \A i \in Item \ ItemsOf(f, l) : item'[i] = f[i]
      /\ \A i \in Item : item'[i].version = f[i].version /\ Content(item'[i]) = Content(f[i])
  BY <1>3, NormalizedRows DEF f
<1>6. ASSUME NEW i \in Item PROVE RowStep(i, l)
  <2>1. CASE i \in S
    <3>1. i \notin ItemsOf(f, l) /\ item[i].version > 0 /\ item[i].list = l
      BY <1>4, <2>1 DEF ItemsOf
    <3> QED
      BY <1>2, <1>5, <2>1, <3>1 DEF RowStep
  <2>2. CASE i \notin S /\ i \in ItemsOf(item, l)
    <3>1. item[i].version > 0 /\ item[i].list = l /\ f[i] = item[i]
      BY <1>2, <2>2 DEF ItemsOf
    <3> QED
      BY <1>5, <3>1 DEF RowStep
  <2>3. CASE i \notin S /\ i \notin ItemsOf(item, l)
    BY <1>2, <1>4, <1>5, <2>3 DEF RowStep
  <2> QED
    BY <2>1, <2>2, <2>3
<1>7. ASSUME NEW m \in Lists PROVE Contiguous(item', m)
  <2>1. CASE m = l
    BY <1>3, <2>1, NormalizedIsContiguous DEF f
  <2>2. CASE m # l
    <3>1. ItemsOf(item, m) \cap ItemsOf(item, l) = {}
      BY <2>2 DEF ItemsOf
    <3>2. ItemsOf(item', m) = ItemsOf(item, m)
      BY <1>4, <1>5, <3>1
    <3>3. \A i \in ItemsOf(item, m) : item'[i].position = item[i].position
      <4> SUFFICES ASSUME NEW i \in ItemsOf(item, m) PROVE item'[i] = item[i]
        OBVIOUS
      <4>1. i \in Item /\ i \notin S /\ i \notin ItemsOf(f, l)
        BY <1>4, <3>1 DEF ItemsOf
      <4> QED
        BY <1>2, <1>5, <4>1
    <3>4. Contiguous(item, m)
      BY DEF LInv, PositionsContiguous, Contiguous
    <3> QED
      BY <3>2, <3>3, <3>4, PlacesKept
  <2> QED
    BY <2>1, <2>2
<1>8. PositionsContiguous'
  BY <1>7 DEF PositionsContiguous, Contiguous
<1>9. \A i \in Item \ ItemsOf(item, l) : item'[i] = item[i]
  <2> SUFFICES ASSUME NEW i \in Item, i \notin ItemsOf(item, l) PROVE item'[i] = item[i]
    OBVIOUS
  <2>1. i \notin S /\ i \notin ItemsOf(f, l)
    BY <1>4
  <2> QED
    BY <1>2, <1>5, <2>1
<1>10. \A i \in ItemsOf(item, l) \ S : item'[i].position = Rank(f, l, i)
  BY <1>4, <1>5
<1> QED
  BY <1>2, <1>4, <1>5, <1>6, <1>8, <1>9, <1>10 DEF f

\* addItem: the new item is at the end.
LEMMA AdditionKeeps ==
  ASSUME LInv, NEW l \in Lists, NEW i \in Item, NEW q \in 1 .. MaxQuantity, NEW s \in StoreOrNone,
         AddItem(l, i, q, s)
  PROVE  /\ item' \in [Item -> ItemRow] /\ \A k \in Item : RowStep(k, l)
         /\ i \notin ItemsOf(item, l)
         /\ \A m \in Lists : ItemsOf(item', m) = IF m = l THEN ItemsOf(item, m) \cup {i} ELSE ItemsOf(item, m)
         /\ item'[i].position = Cardinality(ItemsOf(item, l))
         /\ \A k \in Item \ {i} : item'[k] = item[k]
         /\ PositionsContiguous'
<1> DEFINE n == Cardinality(ItemsOf(item, l))
           new == [version |-> 1, list |-> l, position |-> NextPosition(l), quantity |-> q, done |-> 0, store |-> s]
<1>1. /\ Exists(l) /\ list[l].version < MaxVersion /\ i \notin used /\ used' = used \cup {i}
      /\ item' = [item EXCEPT ![i] = new]
  BY DEF AddItem
<1>2. item \in [Item -> ItemRow] /\ item[i] = NoItem
  BY <1>1 DEF LInv, ListTypeOK, Rows
<1>3. Contiguous(item, l)
  BY DEF LInv, PositionsContiguous, Contiguous
<1>4. NextPosition(l) = n
  BY <1>3, NextPositionIsCount
<1>5. i \notin ItemsOf(item, l) /\ \A m \in Lists : i \notin ItemsOf(item, m)
  BY <1>2 DEF ItemsOf, NoItem
<1>6. n \in Nat /\ IsFiniteSet(ItemsOf(item, l))
  BY ItemsFinite
<1>7. item'[i] = new /\ \A k \in Item \ {i} : item'[k] = item[k]
  BY <1>1, <1>2
<1>8. \A m \in Lists : ItemsOf(item', m) = IF m = l THEN ItemsOf(item, m) \cup {i} ELSE ItemsOf(item, m)
  BY <1>5, <1>7 DEF ItemsOf
<1>9. Cardinality(ItemsOf(item', l)) = n + 1 /\ n + 1 <= MaxItem
  <2>1. ItemsOf(item', l) = ItemsOf(item, l) \cup {i}
    BY <1>8
  <2>2. Cardinality(ItemsOf(item, l) \cup {i}) = n + 1
    BY <1>5, <1>6, FS_AddElement
  <2>3. Cardinality(ItemsOf(item', l)) <= MaxItem
    BY ItemsFinite
  <2> QED
    BY <2>1, <2>2, <2>3
<1> HIDE DEF n
<1>10. new \in ItemRow
  <2>1. 1 \in Version
    BY <1>1, WriteBounds
  <2>2. n \in 0 .. MaxItem - 1
    BY <1>6, <1>9, SizeAssumption
  <2>3. q \in 0 .. MaxQuantity /\ 0 \in Version
    BY SizeAssumption DEF Version
  <2> QED
    BY <1>4, <2>1, <2>2, <2>3 DEF ItemRow
<1>11. item' \in [Item -> ItemRow]
  BY <1>1, <1>2, <1>10
<1>12. \A k \in Item : RowStep(k, l)
  BY <1>1, <1>7 DEF RowStep
<1>13. ASSUME NEW m \in Lists PROVE Contiguous(item', m)
  <2>1. CASE m = l
    <3>1. {item'[k].position : k \in ItemsOf(item', l)} = {item[k].position : k \in ItemsOf(item, l)} \cup {n}
      <4>1. \A k \in ItemsOf(item, l) : item'[k] = item[k]
        BY <1>5, <1>7 DEF ItemsOf
      <4> QED
        BY <1>4, <1>7, <1>8, <4>1
    <3>2. {item[k].position : k \in ItemsOf(item, l)} = 0 .. n - 1
      BY <1>3, <1>6, CountFromZero DEF Contiguous, n
    <3>3. {k - 1 : k \in 1 .. n + 1} = 0 .. n
      <4>0. n + 1 \in Nat
        BY <1>6
      <4>1. {k - 1 : k \in 1 .. n + 1} = 0 .. (n + 1) - 1
        BY <4>0, CountFromZero
      <4> QED
        BY <1>6, <4>1
    <3>4. (0 .. n - 1) \cup {n} = 0 .. n
      BY <1>6
    <3> QED
      BY <1>9, <2>1, <3>1, <3>2, <3>3, <3>4 DEF Contiguous
  <2>2. CASE m # l
    <3>1. ItemsOf(item', m) = ItemsOf(item, m) /\ \A k \in ItemsOf(item, m) : item'[k].position = item[k].position
      BY <1>5, <1>7, <1>8, <2>2 DEF ItemsOf
    <3>2. Contiguous(item, m)
      BY DEF LInv, PositionsContiguous, Contiguous
    <3> QED
      BY <3>1, <3>2, PlacesKept
  <2> QED
    BY <2>1, <2>2
<1>14. PositionsContiguous'
  BY <1>13 DEF PositionsContiguous, Contiguous
<1> QED
  BY <1>4, <1>5, <1>7, <1>8, <1>11, <1>12, <1>14 DEF n

\* reorderItems: the items take the places of one another.
LEMMA ReorderKeeps ==
  ASSUME LInv, NEW c \in Clients, NEW l \in Lists, NEW p \in [ItemsOf(item, l) -> 0 .. MaxItem - 1],
         ReorderItems(c, l, p)
  PROVE  /\ item' \in [Item -> ItemRow] /\ \A i \in Item : RowStep(i, l)
         /\ \A m \in Lists : ItemsOf(item', m) = ItemsOf(item, m)
         /\ \A i \in Item : item'[i].version = item[i].version /\ Content(item'[i]) = Content(item[i])
         /\ \A i \in Item \ ItemsOf(item, l) : item'[i] = item[i]
         /\ PositionsContiguous'
<1> DEFINE I == ItemsOf(item, l)
<1>1. /\ {p[i] : i \in I} = {n - 1 : n \in 1 .. Cardinality(I)}
      /\ item' = [i \in Item |-> IF i \in I THEN [item[i] EXCEPT !.position = p[i]] ELSE item[i]]
  BY DEF ReorderItems
<1>2. item \in [Item -> ItemRow] /\ I \subseteq Item
  BY DEF LInv, ListTypeOK, ItemsOf
<1>3. \A i \in Item \ I : item'[i] = item[i]
  BY <1>1
<1>4. ASSUME NEW i \in I
      PROVE  /\ item'[i] \in ItemRow /\ item'[i].position = p[i]
             /\ item'[i].version = item[i].version /\ Content(item'[i]) = Content(item[i])
  <2>1. i \in Item /\ item[i] \in ItemRow /\ p[i] \in 0 .. MaxItem - 1
    BY <1>2
  <2>2. item'[i] = [item[i] EXCEPT !.position = p[i]]
    BY <1>1, <2>1
  <2> QED
    BY <2>1, <2>2 DEF ItemRow, Content
<1>5. \A i \in Item : item'[i].version = item[i].version /\ Content(item'[i]) = Content(item[i])
  BY <1>3, <1>4
<1>6. item' \in [Item -> ItemRow]
  <2>1. \A i \in Item : item'[i] \in ItemRow
    BY <1>2, <1>3, <1>4
  <2> QED
    BY <1>1, <2>1
<1>7. \A i \in Item : RowStep(i, l)
  BY <1>3, <1>5 DEF RowStep, ItemsOf
<1>8. \A m \in Lists : ItemsOf(item', m) = ItemsOf(item, m)
  BY <1>5 DEF ItemsOf, Content
<1>9. ASSUME NEW m \in Lists PROVE Contiguous(item', m)
  <2>1. CASE m = l
    <3>1. {item'[i].position : i \in I} = {p[i] : i \in I}
      BY <1>4
    <3> QED
      BY <1>1, <1>8, <2>1, <3>1 DEF Contiguous
  <2>2. CASE m # l
    <3>1. \A i \in ItemsOf(item, m) : item'[i].position = item[i].position
      BY <1>3, <2>2 DEF ItemsOf
    <3>2. Contiguous(item, m)
      BY DEF LInv, PositionsContiguous, Contiguous
    <3> QED
      BY <1>8, <3>1, <3>2, PlacesKept
  <2> QED
    BY <2>1, <2>2
<1>10. PositionsContiguous'
  BY <1>9 DEF PositionsContiguous, Contiguous
<1> QED
  BY <1>3, <1>5, <1>6, <1>7, <1>8, <1>10

--------------------------------------------------------------------------------
(* The invariant is inductive. *)

\* The writes to list l, as one formula.
ListWrite(c, l) ==
  \/ UpdateList(l)
  \/ \E s \in StoreOrNone, scope \in {"default", "all"} : SetStoreSelection(c, l, s, scope)
  \/ \E i \in Item, q \in 1 .. MaxQuantity, s \in StoreOrNone : AddItem(l, i, q, s)
  \/ \E i \in Item : l = item[i].list /\ DeleteItem(c, i)
  \/ \E i \in Item, q \in 1 .. MaxQuantity, completed \in BOOLEAN, s \in StoreOrNone :
       l = item[i].list /\ UpdateItem(c, i, q, completed, s)
  \/ \E S \in SUBSET ItemsOf(item, l) :
       \/ \E completed \in BOOLEAN : BulkCompleted(c, l, S, completed)
       \/ \E s \in StoreOrNone : BulkStore(c, l, S, s)
       \/ BulkDelete(c, l, S)
  \/ \E p \in [ItemsOf(item, l) -> 0 .. MaxItem - 1] : ReorderItems(c, l, p)

\* Every write is of the form WritesTo, and keeps the positions contiguous.
LEMMA WriteForm ==
  ASSUME LInv, NEW c \in Clients, NEW l \in Lists, ListWrite(c, l)
  PROVE  WritesTo(l) /\ PositionsContiguous'
<1> DEFINE Form == /\ item' \in [Item -> ItemRow] /\ \A i \in Item : RowStep(i, l)
                   /\ PositionsContiguous'
           Open == Exists(l) /\ list[l].version < MaxVersion /\ UNCHANGED seen
           Sold == \E s \in StoreOrNone : list' = [list EXCEPT ![l] = [version |-> list[l].version + 1, store |-> s]]
<1>0. item = [i \in Item |-> item[i]] /\ item \in [Item -> ItemRow]
  BY DEF LInv, ListTypeOK
<1>1. CASE UpdateList(l)
  <2>1. Open /\ Sold /\ used' = used
    BY <1>1, Touch DEF UpdateList
  <2>2. item' = item
    BY <1>1 DEF UpdateList
  <2>3. Form
    BY <1>0, <2>2, PlacesStay DEF RowStep, LInv
  <2> QED
    BY <2>1, <2>3 DEF WritesTo
<1>2. ASSUME NEW s \in StoreOrNone, NEW scope \in {"default", "all"}, SetStoreSelection(c, l, s, scope)
      PROVE  WritesTo(l) /\ PositionsContiguous'
  <2>1. Open /\ Sold /\ used' = used
    BY <1>2 DEF SetStoreSelection, CurrentList
  <2>2. Form
    BY <1>2, SelectionIsInPlace, InPlaceKeeps
  <2> QED
    BY <2>1, <2>2 DEF WritesTo
<1>3. ASSUME NEW i \in Item, NEW q \in 1 .. MaxQuantity, NEW s \in StoreOrNone, AddItem(l, i, q, s)
      PROVE  WritesTo(l) /\ PositionsContiguous'
  <2>1. Open /\ Sold /\ used' = used \cup {i}
    BY <1>3, Touch DEF AddItem
  <2>2. Form
    BY <1>3, AdditionKeeps
  <2> QED
    BY <2>1, <2>2 DEF WritesTo
<1>4. ASSUME NEW i \in Item, l = item[i].list, DeleteItem(c, i)
      PROVE  WritesTo(l) /\ PositionsContiguous'
  <2>1. item[i].version > 0 /\ list[l].version < MaxVersion /\ Sold /\ used' = used /\ UNCHANGED seen
    BY <1>4, Touch DEF DeleteItem, Current
  <2>2. Exists(l) /\ i \in ItemsOf(item, l)
    BY <1>4, <2>1, ListOfItem
  <2>3. item' = NormalizePositions(Without({i}), l) /\ {i} \in SUBSET ItemsOf(item, l)
    BY <1>4, <2>2 DEF DeleteItem
  <2>4. Form
    BY <2>3, RemovalKeeps
  <2> QED
    BY <2>1, <2>2, <2>4 DEF WritesTo
<1>5. ASSUME NEW i \in Item, NEW q \in 1 .. MaxQuantity, NEW b \in BOOLEAN, NEW s \in StoreOrNone,
             l = item[i].list, UpdateItem(c, i, q, b, s)
      PROVE  WritesTo(l) /\ PositionsContiguous'
  <2>1. list[l].version < MaxVersion /\ Sold /\ used' = used /\ UNCHANGED seen
    BY <1>5, Touch DEF UpdateItem
  <2>2. Exists(l) /\ InPlace(l, {i}) /\ item' = [k \in Item |-> item'[k]]
    BY <1>5, UpdateItemIsInPlace
  <2>3. Form
    BY <2>2, InPlaceKeeps
  <2> QED
    BY <2>1, <2>2, <2>3 DEF WritesTo
<1>6. ASSUME NEW S \in SUBSET ItemsOf(item, l), NEW b \in BOOLEAN, BulkCompleted(c, l, S, b)
      PROVE  WritesTo(l) /\ PositionsContiguous'
  <2>1. Open /\ Sold /\ used' = used
    BY <1>6, Touch DEF BulkCompleted, Bulk
  <2>2. Form
    BY <1>6, BulkCompletedIsInPlace, InPlaceKeeps
  <2> QED
    BY <2>1, <2>2 DEF WritesTo
<1>7. ASSUME NEW S \in SUBSET ItemsOf(item, l), NEW s \in StoreOrNone, BulkStore(c, l, S, s)
      PROVE  WritesTo(l) /\ PositionsContiguous'
  <2>1. Open /\ Sold /\ used' = used
    BY <1>7, Touch DEF BulkStore, Bulk
  <2>2. Form
    BY <1>7, BulkStoreIsInPlace, InPlaceKeeps
  <2> QED
    BY <2>1, <2>2 DEF WritesTo
<1>8. ASSUME NEW S \in SUBSET ItemsOf(item, l), BulkDelete(c, l, S)
      PROVE  WritesTo(l) /\ PositionsContiguous'
  <2>1. Open /\ Sold /\ used' = used
    BY <1>8, Touch DEF BulkDelete, Bulk
  <2>2. item' = NormalizePositions(Without(S), l)
    BY <1>8 DEF BulkDelete
  <2>3. Form
    BY <2>2, RemovalKeeps
  <2> QED
    BY <2>1, <2>3 DEF WritesTo
<1>9. ASSUME NEW p \in [ItemsOf(item, l) -> 0 .. MaxItem - 1], ReorderItems(c, l, p)
      PROVE  WritesTo(l) /\ PositionsContiguous'
  <2>1. Open /\ Sold /\ used' = used
    BY <1>9, Touch DEF ReorderItems, CurrentList
  <2>2. Form
    BY <1>9, ReorderKeeps
  <2> QED
    BY <2>1, <2>2 DEF WritesTo
<1> QED
  BY <1>1, <1>2, <1>3, <1>4, <1>5, <1>6, <1>7, <1>8, <1>9 DEF ListWrite

\* createList: the list is new to everyone.
LEMMA CreateKeeps ==
  ASSUME LInv, NEW l \in Lists, CreateList(l)
  PROVE  LInv'
<1> USE SizeAssumption DEF LInv, ListTypeOK
<1>1. /\ l \notin used /\ used' = used \cup {l} /\ item' = item /\ seen' = seen
      /\ list' = [list EXCEPT ![l] = [version |-> 1, store |-> "none"]]
  BY DEF CreateList
<1>2. /\ list'[l] = [version |-> 1, store |-> "none"] /\ \A m \in Lists \ {l} : list'[m] = list[m]
      /\ list[l] = NoList
  BY <1>1 DEF Rows
<1>3. [version |-> 1, store |-> "none"] \in ListRow
  BY DEF ListRow, Version, StoreOrNone
<1>4. ListTypeOK'
  BY <1>1, <1>2, <1>3
<1>5. \A i \in Item : item[i].version > 0 => item[i].list # l
  <2> SUFFICES ASSUME NEW i \in Item, item[i].version > 0, item[i].list = l PROVE FALSE
    OBVIOUS
  <2>1. Exists(l)
    BY ListOfItem
  <2> QED
    BY <1>2, <2>1 DEF Exists, NoList
<1>6. Rows'
  <2>1. \A m \in Lists : list'[m].version = 0 \/ m \notin used' => list'[m] = NoList
    BY <1>1, <1>2 DEF Rows
  <2>2. \A i \in Item : item'[i].version = 0 \/ i \notin used' => item'[i] = NoItem
    BY <1>1 DEF Rows
  <2>3. \A i \in Item : item'[i].version > 0 =>
          /\ item'[i].list \in Lists /\ item'[i].version < list'[item'[i].list].version
          /\ item'[i].done <= item'[i].version
    BY <1>1, <1>2, <1>5 DEF Rows
  <2> QED
    BY <2>1, <2>2, <2>3 DEF Rows
<1>7. ASSUME NEW c \in Clients, NEW i \in Item PROVE ItemSeen(c, i)'
  <2>1. ItemSeen(c, i)
    BY DEF Views
  <2> QED
    BY <1>1, <2>1 DEF ItemSeen
<1>8. ASSUME NEW c \in Clients, NEW m \in Lists PROVE ListSeen(c, m)'
  <2>1. ListSeen(c, m)
    BY DEF Views
  <2>2. CASE m = l
    BY <1>1, <1>2, <2>1, <2>2 DEF ListSeen, NoList
  <2>3. CASE m # l
    BY <1>1, <1>2, <2>1, <2>3 DEF ListSeen, Exists, ItemsOf
  <2> QED
    BY <2>2, <2>3
<1>9. PositionsContiguous'
  BY <1>1, PlacesStay
<1> QED
  BY <1>4, <1>6, <1>7, <1>8, <1>9 DEF Views

\* deleteList: the items go with it, and nobody's version of it is current any more.
LEMMA DeleteKeeps ==
  ASSUME LInv, NEW l \in Lists, DeleteList(l)
  PROVE  LInv'
<1> USE SizeAssumption DEF LInv, ListTypeOK
<1>1. /\ used' = used /\ seen' = seen /\ list' = [list EXCEPT ![l] = NoList]
      /\ item' = Without(ItemsOf(item, l))
  BY DEF DeleteList
<1>2. list'[l] = NoList /\ \A m \in Lists \ {l} : list'[m] = list[m]
  BY <1>1
<1>3. \A i \in Item : item'[i] = IF i \in ItemsOf(item, l) THEN NoItem ELSE item[i]
  BY <1>1 DEF Without
<1>4. ListTypeOK'
  <2>1. NoList \in ListRow /\ (Item # {} => NoItem \in ItemRow)
    BY DEF Item, NoItem, NoList, ListRow, ItemRow, Version, StoreOrNone
  <2>2. \A i \in Item : item'[i] \in ItemRow
    BY <1>3, <2>1
  <2>3. item' \in [Item -> ItemRow]
    BY <1>1, <2>2 DEF Without
  <2> QED
    BY <1>1, <2>1, <2>3
<1>5. \A m \in Lists : ItemsOf(item', m) = IF m = l THEN {} ELSE ItemsOf(item, m)
  BY <1>3 DEF ItemsOf, NoItem
<1>6. Rows'
  <2>1. \A m \in Lists : list'[m].version = 0 \/ m \notin used' => list'[m] = NoList
    BY <1>1, <1>2 DEF Rows
  <2>2. \A i \in Item : item'[i].version = 0 \/ i \notin used' => item'[i] = NoItem
    BY <1>1, <1>3 DEF Rows
  <2>3. ASSUME NEW i \in Item, item'[i].version > 0
        PROVE  /\ item'[i].list \in Lists /\ item'[i].version < list'[item'[i].list].version
               /\ item'[i].done <= item'[i].version
    <3>1. i \notin ItemsOf(item, l) /\ item'[i] = item[i]
      BY <1>3, <2>3 DEF NoItem
    <3>2. item[i].list # l
      BY <2>3, <3>1 DEF ItemsOf
    <3> QED
      BY <1>2, <2>3, <3>1, <3>2 DEF Rows
  <2> QED
    BY <2>1, <2>2, <2>3 DEF Rows
<1>7. ASSUME NEW c \in Clients, NEW i \in Item PROVE ItemSeen(c, i)'
  <2>1. ItemSeen(c, i)
    BY DEF Views
  <2> QED
    BY <1>1, <1>3, <2>1 DEF ItemSeen, NoItem
<1>8. ASSUME NEW c \in Clients, NEW m \in Lists PROVE ListSeen(c, m)'
  <2>1. ListSeen(c, m)
    BY DEF Views
  <2>2. CASE m = l
    BY <1>1, <1>2, <2>1, <2>2 DEF ListSeen, Exists, NoList
  <2>3. CASE m # l
    <3>1. ItemsOf(item', m) = ItemsOf(item, m) /\ list'[m] = list[m]
      BY <1>2, <1>5, <2>3
    <3>2. ASSUME Exists(m), seen[c].list[m].version = list[m].version,
                 NEW i \in ItemsOf(item, m) \cup ItemsOf(seen[c].item, m)
          PROVE  seen[c].item[i] = item'[i]
      <4>1. seen[c].item[i] = item[i] /\ i \in Item
        BY <2>1, <3>2 DEF ListSeen, ItemsOf
      <4>2. i \in ItemsOf(item, m)
        BY <3>2, <4>1 DEF ItemsOf
      <4>3. i \notin ItemsOf(item, l)
        BY <2>3, <4>2 DEF ItemsOf
      <4> QED
        BY <1>3, <4>1, <4>3
    <3> QED
      BY <1>1, <2>1, <3>1, <3>2 DEF ListSeen, Exists
  <2> QED
    BY <2>2, <2>3
<1>9. ASSUME NEW m \in Lists PROVE Contiguous(item', m)
  <2>1. CASE m = l
    <3>1. ItemsOf(item', m) = {}
      BY <1>5, <2>1
    <3>2. Cardinality({}) = 0
      BY FS_EmptySet
    <3>3. {item'[i].position : i \in {}} = {} /\ {n - 1 : n \in 1 .. 0} = {}
      OBVIOUS
    <3> QED
      BY <3>1, <3>2, <3>3 DEF Contiguous
  <2>2. CASE m # l
    <3>1. \A i \in ItemsOf(item, m) : item'[i].position = item[i].position
      BY <1>3, <2>2 DEF ItemsOf
    <3>2. Contiguous(item, m)
      BY DEF PositionsContiguous, Contiguous
    <3> QED
      BY <1>5, <2>2, <3>1, <3>2, PlacesKept
  <2> QED
    BY <2>1, <2>2
<1>10. PositionsContiguous'
  BY <1>9 DEF PositionsContiguous, Contiguous
<1> QED
  BY <1>4, <1>6, <1>7, <1>8, <1>10 DEF Views

\* getList: the client has seen all of the list, and nothing that is not there any more.
LEMMA GetKeeps ==
  ASSUME LInv, NEW c \in Clients, NEW l \in Lists, GetList(c, l)
  PROVE  LInv'
<1> USE SizeAssumption DEF LInv, ListTypeOK
<1> DEFINE was == seen[c]
           now == [list |-> [was.list EXCEPT ![l] = list[l]],
                   item |-> [i \in Item |-> IF i \in ItemsOf(item, l) THEN item[i]
                                            ELSE IF was.item[i].list = l THEN NoItem ELSE was.item[i]]]
<1>1. UNCHANGED <<list, item, used>> /\ seen' = [seen EXCEPT ![c] = now]
  BY DEF GetList
<1>2. seen'[c] = now /\ \A d \in Clients \ {c} : seen'[d] = seen[d]
  BY <1>1
<1>3. ListTypeOK'
  <2>1. Item # {} => NoItem \in ItemRow
    BY DEF Item, NoItem, ItemRow, Version, StoreOrNone
  <2>2. now \in [list : [Lists -> ListRow], item : [Item -> ItemRow]]
    BY <2>1
  <2> QED
    BY <1>1, <2>2
<1>4. /\ seen'[c].list[l] = list[l] /\ \A m \in Lists \ {l} : seen'[c].list[m] = was.list[m]
      /\ \A i \in ItemsOf(item, l) : seen'[c].item[i] = item[i]
      /\ \A i \in Item \ ItemsOf(item, l) :
           seen'[c].item[i] = IF was.item[i].list = l THEN NoItem ELSE was.item[i]
  BY <1>2 DEF ItemsOf
<1> HIDE DEF now
<1>5. ASSUME NEW d \in Clients, NEW i \in Item PROVE ItemSeen(d, i)'
  <2>1. ItemSeen(d, i) /\ (item[i].version = 0 \/ i \notin used => item[i] = NoItem)
    BY DEF Views, Rows
  <2>2. CASE d = c
    <3>1. item[i].version \in Nat
      BY DEF ItemRow, Version
    <3>2. CASE i \in ItemsOf(item, l)
      BY <1>1, <1>4, <2>1, <2>2, <3>1, <3>2 DEF ItemSeen
    <3>3. CASE i \notin ItemsOf(item, l) /\ was.item[i].list = l
      <4>1. seen'[c].item[i] = NoItem
        BY <1>4, <3>3
      <4> QED
        BY <1>1, <2>2, <3>1, <4>1 DEF ItemSeen, NoItem
    <3>4. CASE i \notin ItemsOf(item, l) /\ was.item[i].list # l
      <4>1. seen'[c].item[i] = was.item[i]
        BY <1>4, <3>4
      <4> QED
        BY <1>1, <2>1, <2>2, <4>1 DEF ItemSeen
    <3> QED
      BY <3>2, <3>3, <3>4
  <2>3. CASE d # c
    BY <1>1, <1>2, <2>1, <2>3 DEF ItemSeen
  <2> QED
    BY <2>2, <2>3
<1>6. ASSUME NEW d \in Clients, NEW m \in Lists PROVE ListSeen(d, m)'
  <2>1. ListSeen(d, m) /\ (m \notin used => list[m] = NoList)
    BY DEF Views, Rows
  <2>2. CASE d # c
    BY <1>1, <1>2, <2>1, <2>2 DEF ListSeen, Exists, ItemsOf
  <2>3. CASE d = c /\ m = l
    <3>1. \A i \in ItemsOf(item, l) \cup ItemsOf(seen'[c].item, l) : i \in ItemsOf(item, l)
      BY <1>4 DEF ItemsOf, NoItem
    <3>2. list[l].version \in Nat
      BY DEF ListRow, Version
    <3> QED
      BY <1>1, <1>4, <2>1, <2>3, <3>1, <3>2 DEF ListSeen, Exists
  <2>4. CASE d = c /\ m # l
    <3>1. seen'[c].list[m] = was.list[m]
      BY <1>4, <2>4
    <3>2. ASSUME Exists(m), was.list[m].version = list[m].version,
                 NEW i \in ItemsOf(item, m) \cup ItemsOf(seen'[c].item, m)
          PROVE  seen'[c].item[i] = item[i]
      <4>1. i \in Item
        BY DEF ItemsOf
      <4>2. CASE i \in ItemsOf(item, m)
        <5>1. was.item[i] = item[i] /\ item[i].list = m /\ i \notin ItemsOf(item, l)
          BY <2>1, <2>4, <3>2, <4>2 DEF ListSeen, ItemsOf
        <5> QED
          BY <1>4, <2>4, <4>1, <5>1
      <4>3. CASE i \in ItemsOf(seen'[c].item, m)
        <5>1. seen'[c].item[i].version > 0 /\ seen'[c].item[i].list = m
          BY <4>3 DEF ItemsOf
        <5>2. i \notin ItemsOf(item, l)
          BY <1>4, <2>4, <5>1 DEF ItemsOf
        <5>3. seen'[c].item[i] = was.item[i]
          BY <1>4, <4>1, <5>1, <5>2 DEF NoItem
        <5>4. i \in ItemsOf(was.item, m)
          BY <4>1, <5>1, <5>3 DEF ItemsOf
        <5> QED
          BY <2>1, <2>4, <3>2, <5>3, <5>4 DEF ListSeen
      <4> QED
        BY <3>2, <4>2, <4>3
    <3> QED
      BY <1>1, <2>1, <2>4, <3>1, <3>2 DEF ListSeen, Exists
  <2> QED
    BY <2>2, <2>3, <2>4
<1>7. PositionsContiguous'
  BY <1>1, PlacesStay
<1>8. Rows'
  BY <1>1 DEF Rows
<1> QED
  BY <1>3, <1>5, <1>6, <1>7, <1>8 DEF Views

\* A refused write shows the client one item, of a list it had not seen as it is.
LEMMA ConflictKeeps ==
  ASSUME LInv, NEW c \in Clients, NEW k \in Item, ItemConflict(c, k)
  PROVE  LInv'
<1> USE SizeAssumption DEF LInv, ListTypeOK
<1>1. /\ UNCHANGED <<list, item, used>> /\ seen' = [seen EXCEPT ![c].item[k] = item[k]]
      /\ item[k].version > 0 /\ seen[c].item[k].version > 0
      /\ seen[c].item[k].version # item[k].version
  BY DEF ItemConflict, Current
<1>2. /\ \A d \in Clients \ {c} : seen'[d] = seen[d]
      /\ seen'[c].list = seen[c].list /\ seen'[c].item = [seen[c].item EXCEPT ![k] = item[k]]
  BY <1>1
<1>3. seen'[c].item[k] = item[k] /\ \A i \in Item \ {k} : seen'[c].item[i] = seen[c].item[i]
  BY <1>2
<1>4. ListTypeOK'
  BY <1>1
<1>5. ASSUME NEW d \in Clients, NEW i \in Item PROVE ItemSeen(d, i)'
  <2>1. ItemSeen(d, i) /\ (item[i].version = 0 \/ i \notin used => item[i] = NoItem)
    BY DEF Views, Rows
  <2>2. item[i].version \in Nat
    BY DEF ItemRow, Version
  <2>3. CASE d = c /\ i = k
    BY <1>1, <1>3, <2>1, <2>2, <2>3 DEF ItemSeen
  <2>4. CASE ~(d = c /\ i = k)
    <3>1. seen'[d].item[i] = seen[d].item[i]
      BY <1>2, <1>3, <2>4
    <3> QED
      BY <1>1, <2>1, <3>1 DEF ItemSeen
  <2> QED
    BY <2>3, <2>4
<1>6. ASSUME NEW d \in Clients, NEW m \in Lists PROVE ListSeen(d, m)'
  <2>1. ListSeen(d, m)
    BY DEF Views
  <2>2. CASE d # c
    BY <1>1, <1>2, <2>1, <2>2 DEF ListSeen, Exists, ItemsOf
  <2>3. CASE d = c
    <3>1. ASSUME Exists(m), seen[c].list[m].version = list[m].version,
                 NEW i \in ItemsOf(item, m) \cup ItemsOf(seen'[c].item, m)
          PROVE  seen'[c].item[i] = item[i]
      <4>1. i \in Item
        BY DEF ItemsOf
      <4>2. CASE i # k
        <5>1. seen'[c].item[i] = seen[c].item[i]
          BY <1>3, <4>1, <4>2
        <5>2. i \in ItemsOf(item, m) \cup ItemsOf(seen[c].item, m)
          BY <3>1, <4>1, <5>1 DEF ItemsOf
        <5> QED
          BY <2>1, <2>3, <3>1, <5>1, <5>2 DEF ListSeen
      <4>3. CASE i = k
        BY <1>3, <4>3
      <4> QED
        BY <4>2, <4>3
    <3> QED
      BY <1>1, <1>2, <2>1, <2>3, <3>1 DEF ListSeen, Exists
  <2> QED
    BY <2>2, <2>3
<1>7. PositionsContiguous'
  BY <1>1, PlacesStay
<1>8. Rows'
  BY <1>1 DEF Rows
<1> QED
  BY <1>4, <1>5, <1>6, <1>7, <1>8 DEF Views

\* The steps of ListNext, by what they do to the lists.
LEMMA ListSteps ==
  ASSUME LInv, ListNext
  PROVE  \/ \E l \in Lists : CreateList(l) \/ DeleteList(l)
         \/ \E c \in Clients, l \in Lists : ListWrite(c, l) \/ GetList(c, l)
         \/ \E c \in Clients, i \in Item : ItemConflict(c, i)
<1>1. PICK c \in Clients :
        \/ \E l \in Lists : Write(c, l) \/ GetList(c, l)
        \/ \E i \in Item :
             \/ DeleteItem(c, i) \/ ItemConflict(c, i)
             \/ \E q \in 1 .. MaxQuantity, completed \in BOOLEAN, s \in StoreOrNone :
                  UpdateItem(c, i, q, completed, s)
  BY DEF ListNext
<1>2. ASSUME NEW l \in Lists, Write(c, l)
      PROVE  CreateList(l) \/ DeleteList(l) \/ ListWrite(c, l)
  BY <1>2 DEF Write, ListWrite
<1>3. ASSUME NEW i \in Item, item[i].version > 0 PROVE item[i].list \in Lists
  BY <1>3, ListOfItem
<1>4. ASSUME NEW i \in Item, DeleteItem(c, i)
      PROVE  \E l \in Lists : ListWrite(c, l)
  <2>1. item[i].list \in Lists
    BY <1>3, <1>4 DEF DeleteItem, Current
  <2>2. ListWrite(c, item[i].list)
    BY <1>4 DEF ListWrite
  <2> QED
    BY <2>1, <2>2
<1>5. ASSUME NEW i \in Item, NEW q \in 1 .. MaxQuantity, NEW b \in BOOLEAN, NEW s \in StoreOrNone,
             UpdateItem(c, i, q, b, s)
      PROVE  \E l \in Lists : ListWrite(c, l)
  <2>1. item[i].list \in Lists
    BY <1>3, <1>5 DEF UpdateItem, Current
  <2>2. ListWrite(c, item[i].list)
    BY <1>5 DEF ListWrite
  <2> QED
    BY <2>1, <2>2
<1> QED
  BY <1>1, <1>2, <1>4, <1>5

LEMMA ListStep == LInv /\ [ListNext]_listVars => LInv'
<1> SUFFICES ASSUME LInv, [ListNext]_listVars PROVE LInv'
  OBVIOUS
<1>1. ASSUME NEW l \in Lists, CreateList(l) PROVE LInv'
  BY <1>1, CreateKeeps
<1>2. ASSUME NEW l \in Lists, DeleteList(l) PROVE LInv'
  BY <1>2, DeleteKeeps
<1>3. ASSUME NEW c \in Clients, NEW l \in Lists, ListWrite(c, l) PROVE LInv'
  <2>1. WritesTo(l) /\ PositionsContiguous'
    BY <1>3, WriteForm
  <2>2. ListTypeOK' /\ Rows' /\ Views'
    BY <2>1, WriteKeepsViews
  <2> QED
    BY <2>1, <2>2 DEF LInv
<1>4. ASSUME NEW c \in Clients, NEW l \in Lists, GetList(c, l) PROVE LInv'
  BY <1>4, GetKeeps
<1>5. ASSUME NEW c \in Clients, NEW i \in Item, ItemConflict(c, i) PROVE LInv'
  BY <1>5, ConflictKeeps
<1>6. CASE UNCHANGED listVars
  <2>1. list' = list /\ item' = item /\ used' = used /\ seen' = seen
    BY <1>6 DEF listVars
  <2>2. ListTypeOK'
    BY <2>1 DEF LInv, ListTypeOK
  <2>3. Rows'
    BY <2>1 DEF LInv, Rows
  <2>4. Views'
    BY <2>1 DEF LInv, Views, ItemSeen, ListSeen, Exists, ItemsOf
  <2>5. PositionsContiguous'
    BY <2>1, PlacesStay DEF LInv
  <2> QED
    BY <2>2, <2>3, <2>4, <2>5 DEF LInv
<1> QED
  BY <1>1, <1>2, <1>3, <1>4, <1>5, <1>6, ListSteps

\* LInv is an invariant of the lists.
THEOREM ListInvariance == ListSpec => []LInv
  BY ListInvInit, ListStep, PTL DEF ListSpec

\* What the invariant says of versions: a version a client has names what the client saw.
LEMMA VersionsNameContents ==
  ASSUME LInv
  PROVE  ItemVersionNamesContent /\ ListVersionNamesContent
<1> USE DEF LInv
<1>1. ASSUME NEW c \in Clients, NEW i \in Item, seen[c].item[i].version = item[i].version
      PROVE  Content(seen[c].item[i]) = Content(item[i])
  <2>1. ItemSeen(c, i) /\ (item[i].version = 0 => item[i] = NoItem) /\ item[i].version \in Nat
    BY DEF Views, Rows, ListTypeOK, ItemRow, Version
  <2> QED
    BY <1>1, <2>1 DEF ItemSeen
<1>2. ASSUME NEW c \in Clients, NEW l \in Lists, CurrentList(c, l)
      PROVE  /\ seen[c].list[l] = list[l]
             /\ \A i \in ItemsOf(item, l) \cup ItemsOf(seen[c].item, l) : seen[c].item[i] = item[i]
  <2>1. ListSeen(c, l)
    BY DEF Views
  <2> QED
    BY <1>2, <2>1 DEF ListSeen, CurrentList
<1> QED
  BY <1>1, <1>2 DEF ItemVersionNamesContent, ListVersionNamesContent

\* ListsSound: after any mixture of adds, single and bulk deletes and reorders the positions
\* of a list are 0, 1, ..., and a version a client sends back names what that client saw,
\* for any number of clients, lists and items.
THEOREM ListsAreSound == ListSpec => []ListsSound
<1>1. LInv => ListsSound
  BY VersionsNameContents DEF LInv, ListsSound
<1> QED
  BY <1>1, ListInvariance, PTL

--------------------------------------------------------------------------------
(* No write replaces what its client has not seen.                         *)

\* A step that changes what item i says has a client that has seen what it said.
SeenAsItWas(i) ==
  \/ item[i].version = 0
  \/ Content(item'[i]) = Content(item[i])
  \/ \E c \in Clients : Content(seen[c].item[i]) = Content(item[i])

\* Writes that check the version of the item, and those that change no content.
LEMMA OverwriteByWrite ==
  ASSUME LInv, NEW c \in Clients, NEW l \in Lists, ListWrite(c, l), NEW i \in Item
  PROVE  SeenAsItWas(i)
<1> DEFINE Saw == \E d \in Clients : Content(seen[d].item[i]) = Content(item[i])
<1>0. /\ \A k \in Item : Current(c, k) => Content(seen[c].item[k]) = Content(item[k])
      /\ \A k \in ItemsOf(item, l) : CurrentList(c, l) => seen[c].item[k] = item[k]
  BY VersionsNameContents DEF ItemVersionNamesContent, ListVersionNamesContent, Current
<1>1. CASE UpdateList(l)
  BY <1>1 DEF UpdateList, SeenAsItWas
<1>2. ASSUME NEW s \in StoreOrNone, NEW scope \in {"default", "all"}, SetStoreSelection(c, l, s, scope)
      PROVE  SeenAsItWas(i)
  <2>1. InPlace(l, IF scope = "all" THEN Overridden(l) ELSE {})
    BY <1>2, SelectionIsInPlace
  <2>2. CurrentList(c, l)
    BY <1>2 DEF SetStoreSelection
  <2>3. i \notin ItemsOf(item, l) => item'[i] = item[i]
    BY <2>1 DEF InPlace
  <2> QED
    BY <1>0, <2>2, <2>3 DEF SeenAsItWas
<1>3. ASSUME NEW k \in Item, NEW q \in 1 .. MaxQuantity, NEW s \in StoreOrNone, AddItem(l, k, q, s)
      PROVE  SeenAsItWas(i)
  <2>1. \A j \in Item \ {k} : item'[j] = item[j]
    BY <1>3, AdditionKeeps
  <2>2. item[k] = NoItem
    BY <1>3 DEF AddItem, LInv, Rows
  <2> QED
    BY <2>1, <2>2 DEF SeenAsItWas, NoItem
<1>4. ASSUME NEW k \in Item, l = item[k].list, DeleteItem(c, k)
      PROVE  SeenAsItWas(i)
  <2>1. Current(c, k) /\ item' = NormalizePositions(Without({k}), l)
    BY <1>4 DEF DeleteItem
  <2>2. {k} \in SUBSET ItemsOf(item, l)
    BY <1>4, <2>1 DEF ItemsOf, Current
  <2>3. \A j \in Item \ {k} : Content(item'[j]) = Content(item[j])
    BY <2>1, <2>2, RemovalKeeps
  <2> QED
    BY <1>0, <2>1, <2>3 DEF SeenAsItWas
<1>5. ASSUME NEW k \in Item, NEW q \in 1 .. MaxQuantity, NEW b \in BOOLEAN, NEW s \in StoreOrNone,
             l = item[k].list, UpdateItem(c, k, q, b, s)
      PROVE  SeenAsItWas(i)
  <2>1. \A j \in Item \ {k} : item'[j] = item[j]
    BY <1>5, UpdateItemIsInPlace DEF InPlace
  <2>2. Current(c, k)
    BY <1>5 DEF UpdateItem
  <2> QED
    BY <1>0, <2>1, <2>2 DEF SeenAsItWas
<1>6. ASSUME NEW S \in SUBSET ItemsOf(item, l), Bulk(c, l, S),
             \A j \in Item \ S : Content(item'[j]) = Content(item[j])
      PROVE  SeenAsItWas(i)
  BY <1>0, <1>6 DEF Bulk, SeenAsItWas
<1>7. ASSUME NEW S \in SUBSET ItemsOf(item, l), NEW b \in BOOLEAN, BulkCompleted(c, l, S, b)
      PROVE  SeenAsItWas(i)
  <2>1. \A j \in Item \ S : Content(item'[j]) = Content(item[j])
    BY <1>7, BulkCompletedIsInPlace DEF InPlace
  <2> QED
    BY <1>6, <1>7, <2>1 DEF BulkCompleted
<1>8. ASSUME NEW S \in SUBSET ItemsOf(item, l), NEW s \in StoreOrNone, BulkStore(c, l, S, s)
      PROVE  SeenAsItWas(i)
  <2>1. \A j \in Item \ S : Content(item'[j]) = Content(item[j])
    BY <1>8, BulkStoreIsInPlace DEF InPlace
  <2> QED
    BY <1>6, <1>8, <2>1 DEF BulkStore
<1>9. ASSUME NEW S \in SUBSET ItemsOf(item, l), BulkDelete(c, l, S)
      PROVE  SeenAsItWas(i)
  <2>1. \A j \in Item \ S : Content(item'[j]) = Content(item[j])
    BY <1>9, RemovalKeeps DEF BulkDelete
  <2> QED
    BY <1>6, <1>9, <2>1 DEF BulkDelete
<1>10. ASSUME NEW p \in [ItemsOf(item, l) -> 0 .. MaxItem - 1], ReorderItems(c, l, p)
       PROVE  SeenAsItWas(i)
  BY <1>10, ReorderKeeps DEF SeenAsItWas
<1> QED
  BY <1>1, <1>2, <1>3, <1>4, <1>5, <1>7, <1>8, <1>9, <1>10 DEF ListWrite

\* NoUnseenOverwrite: "a stale write returns a conflict" - what an item says is changed or
\* deleted by itself only for a client that has seen it as it was, whatever interleaving of
\* reads and writes of however many clients came before.
THEOREM NothingUnseenIsOverwritten == ListSpec => NoUnseenOverwrite
<1> DEFINE Justified ==
      \A i \in Item :
        /\ item[i].version > 0 /\ Content(item'[i]) # Content(item[i])
        /\ list'[item[i].list].version > 0
        => \E c \in Clients : Content(seen[c].item[i]) = Content(item[i])
<1>1. ASSUME LInv, ListNext, NEW i \in Item,
             item[i].version > 0, Content(item'[i]) # Content(item[i]), list'[item[i].list].version > 0
      PROVE  \E c \in Clients : Content(seen[c].item[i]) = Content(item[i])
  <2>1. ASSUME NEW l \in Lists, CreateList(l) PROVE FALSE
    BY <1>1, <2>1 DEF CreateList
  <2>2. ASSUME NEW l \in Lists, DeleteList(l) PROVE FALSE
    <3>0. item'[i] = IF i \in ItemsOf(item, l) THEN NoItem ELSE item[i]
      BY <2>2 DEF DeleteList, Without
    <3>1. i \in ItemsOf(item, l)
      BY <1>1, <3>0
    <3>2. list' = [list EXCEPT ![l] = NoList] /\ list \in [Lists -> ListRow]
      BY <1>1, <2>2 DEF DeleteList, LInv, ListTypeOK
    <3> QED
      BY <1>1, <3>1, <3>2 DEF ItemsOf, NoList
  <2>3. ASSUME NEW c \in Clients, NEW l \in Lists, ListWrite(c, l)
        PROVE  \E d \in Clients : Content(seen[d].item[i]) = Content(item[i])
    BY <1>1, <2>3, OverwriteByWrite DEF SeenAsItWas
  <2>4. ASSUME NEW c \in Clients, NEW l \in Lists, GetList(c, l) PROVE FALSE
    BY <1>1, <2>4 DEF GetList
  <2>5. ASSUME NEW c \in Clients, NEW k \in Item, ItemConflict(c, k) PROVE FALSE
    BY <1>1, <2>5 DEF ItemConflict
  <2> QED
    BY <1>1, <2>1, <2>2, <2>3, <2>4, <2>5, ListSteps
<1>2. LInv /\ [ListNext]_listVars => [Justified]_listVars
  BY <1>1
<1>3. ListSpec => [][Justified]_listVars
  BY <1>2, ListInvariance, PTL DEF ListSpec
<1> QED
  BY <1>3 DEF NoUnseenOverwrite

--------------------------------------------------------------------------------
(* The rows implement sequences.                                           *)

\* The item of rank k - 1, and what the rows f say of list l, as a sequence.
Seat(f, l, k) == CHOOSE i \in ItemsOf(f, l) : Rank(f, l, i) = k - 1

Entries(f, l) ==
  [k \in 1 .. Cardinality(ItemsOf(f, l)) |->
     [id |-> Seat(f, l, k), content |-> Content(f[Seat(f, l, k)])]]

\* Every seat is taken by the item of that rank, and every item has a seat.
LEMMA Seats ==
  ASSUME NEW f, NEW l, Positioned(f)
  PROVE  /\ \A k \in 1 .. Cardinality(ItemsOf(f, l)) :
              Seat(f, l, k) \in ItemsOf(f, l) /\ Rank(f, l, Seat(f, l, k)) = k - 1
         /\ \A i \in ItemsOf(f, l) :
              /\ Rank(f, l, i) + 1 \in 1 .. Cardinality(ItemsOf(f, l))
              /\ Seat(f, l, Rank(f, l, i) + 1) = i
<1> DEFINE n == Cardinality(ItemsOf(f, l))
<1>0. n \in Nat
  BY ItemsFinite
<1>1. ASSUME NEW k \in 1 .. n
      PROVE  Seat(f, l, k) \in ItemsOf(f, l) /\ Rank(f, l, Seat(f, l, k)) = k - 1
  <2>1. k - 1 \in 0 .. n - 1
    BY <1>0
  <2>2. \E i \in ItemsOf(f, l) : Rank(f, l, i) = k - 1
    BY <2>1, RankOnto
  <2> QED
    BY <2>2 DEF Seat
<1>2. ASSUME NEW i \in ItemsOf(f, l)
      PROVE  Rank(f, l, i) + 1 \in 1 .. n /\ Seat(f, l, Rank(f, l, i) + 1) = i
  <2>1. Rank(f, l, i) \in 0 .. n - 1
    BY RankBound
  <2>2. Rank(f, l, i) + 1 \in 1 .. n /\ (Rank(f, l, i) + 1) - 1 = Rank(f, l, i)
    BY <1>0, <2>1
  <2>3. LET k == Seat(f, l, Rank(f, l, i) + 1) IN k \in ItemsOf(f, l) /\ Rank(f, l, k) = Rank(f, l, i)
    BY <1>1, <2>2
  <2> QED
    BY <2>2, <2>3, RankInjective
<1> QED
  BY <1>1, <1>2

\* The sequence of a list: its length, and its entries one by one and as a set.
LEMMA EntriesAre ==
  ASSUME NEW f, NEW l, Positioned(f)
  PROVE  /\ Len(Entries(f, l)) = Cardinality(ItemsOf(f, l))
         /\ DOMAIN Entries(f, l) = 1 .. Cardinality(ItemsOf(f, l))
         /\ \A i \in ItemsOf(f, l) :
              Entries(f, l)[Rank(f, l, i) + 1] = [id |-> i, content |-> Content(f[i])]
         /\ {Entries(f, l)[k] : k \in DOMAIN Entries(f, l)}
              = {[id |-> i, content |-> Content(f[i])] : i \in ItemsOf(f, l)}
<1> DEFINE n == Cardinality(ItemsOf(f, l))
           E(i) == [id |-> i, content |-> Content(f[i])]
           s == Entries(f, l)
<1>1. n \in Nat
  BY ItemsFinite
<1>2. s = [k \in 1 .. n |-> E(Seat(f, l, k))]
  BY DEF Entries
<1> HIDE DEF n, E, s
<1>3. DOMAIN s = 1 .. n /\ Len(s) = n
  BY <1>1, <1>2
<1>4. \A i \in ItemsOf(f, l) : Rank(f, l, i) + 1 \in 1 .. n /\ s[Rank(f, l, i) + 1] = E(i)
  BY <1>2, Seats DEF n
<1>5. \A k \in 1 .. n : s[k] = E(Seat(f, l, k)) /\ Seat(f, l, k) \in ItemsOf(f, l)
  BY <1>2, Seats DEF n
<1>6. {s[k] : k \in DOMAIN s} = {E(i) : i \in ItemsOf(f, l)}
  BY <1>3, <1>4, <1>5
<1> QED
  BY <1>3, <1>4, <1>6 DEF n, E, s

\* Two tables with the same items of a list in the same order have the same ranks, and
\* so the same seats.
LEMMA SameOrder ==
  ASSUME NEW f, NEW g, NEW l, Positioned(f), ItemsOf(g, l) = ItemsOf(f, l),
         \A i \in ItemsOf(f, l) : g[i].position = f[i].position
  PROVE  /\ \A i \in ItemsOf(f, l) : Rank(g, l, i) = Rank(f, l, i)
         /\ \A k : Seat(g, l, k) = Seat(f, l, k)
<1>1. ASSUME NEW i \in ItemsOf(f, l) PROVE Rank(g, l, i) = Rank(f, l, i)
  <2>1. \A k \in ItemsOf(f, l) : Before(g, k, i) <=> Before(f, k, i)
    BY DEF Before
  <2>2. {k \in ItemsOf(g, l) : Before(g, k, i)} = {k \in ItemsOf(f, l) : Before(f, k, i)}
    BY <2>1
  <2> QED
    BY <2>2 DEF Rank
<1>2. ASSUME NEW k PROVE Seat(g, l, k) = Seat(f, l, k)
  BY <1>1 DEF Seat
<1> QED
  BY <1>1, <1>2

\* If the rows say the same too, the sequence is the same.
LEMMA SameEntries ==
  ASSUME NEW f, NEW g, NEW l, Positioned(f), ItemsOf(g, l) = ItemsOf(f, l),
         \A i \in ItemsOf(f, l) : g[i] = f[i]
  PROVE  Entries(g, l) = Entries(f, l)
<1>1. \A k : Seat(g, l, k) = Seat(f, l, k)
  BY SameOrder
<1>2. \A k \in 1 .. Cardinality(ItemsOf(f, l)) : Seat(f, l, k) \in ItemsOf(f, l)
  BY Seats
<1> QED
  BY <1>1, <1>2 DEF Entries

\* The rows the invariant speaks of have positions, before and after a write.
LEMMA RowsPositioned ==
  ASSUME NEW f \in [Item -> ItemRow]
  PROVE  Positioned(f)
BY SizeAssumption DEF Positioned, ItemRow, Item

\* A write to l leaves the sequences of the other lists.
LEMMA OthersStay ==
  ASSUME LInv, NEW l \in Lists, WritesTo(l), NEW m \in Lists \ {l}
  PROVE  Entries(item', m) = Entries(item, m)
<1>1. ASSUME NEW i \in Item
      PROVE  /\ item'[i] = item[i] \/ item'[i] = NoItem \/ item'[i].list = l
             /\ item'[i] = item[i] \/ item[i] = NoItem \/ item[i].list = l
  <2>1. RowStep(i, l) /\ (i \notin used => item[i] = NoItem)
    BY DEF WritesTo, LInv, Rows
  <2>2. Content(item'[i]) = Content(item[i]) => item'[i].list = item[i].list
    BY DEF Content
  <2> QED
    BY <2>1, <2>2 DEF RowStep
<1>2. ItemsOf(item', m) = ItemsOf(item, m) /\ \A i \in ItemsOf(item, m) : item'[i] = item[i]
  BY <1>1 DEF ItemsOf, NoItem
<1>3. Positioned(item)
  BY RowsPositioned DEF LInv, ListTypeOK
<1> QED
  BY <1>2, <1>3, SameEntries

\* A change in place leaves the sequence its ids.
LEMMA InPlaceEntries ==
  ASSUME LInv, NEW l \in Lists, NEW S, InPlace(l, S), item' = [i \in Item |-> item'[i]]
  PROVE  Shared!ChangedInPlace(Entries(item, l), Entries(item', l))
<1> DEFINE n == Cardinality(ItemsOf(item, l))
           s == Entries(item, l)
           t == Entries(item', l)
<1>1. ItemsOf(item', l) = ItemsOf(item, l) /\ Positioned(item)
  BY InPlaceKeeps, RowsPositioned DEF LInv, ListTypeOK
<1>2. \A i \in ItemsOf(item, l) : item'[i].position = item[i].position
  BY DEF InPlace, ItemsOf
<1>3. \A k : Seat(item', l, k) = Seat(item, l, k)
  BY <1>1, <1>2, SameOrder
<1>4. /\ s = [k \in 1 .. n |-> [id |-> Seat(item, l, k), content |-> Content(item[Seat(item, l, k)])]]
      /\ t = [k \in 1 .. n |-> [id |-> Seat(item, l, k), content |-> Content(item'[Seat(item, l, k)])]]
  BY <1>1, <1>3 DEF Entries
<1> HIDE DEF s, t, n
<1>5. DOMAIN s = 1 .. n /\ DOMAIN t = 1 .. n /\ \A k \in 1 .. n : s[k].id = t[k].id
  BY <1>4
<1>6. Shared!IdOrder(t) = Shared!IdOrder(s)
  BY <1>5 DEF Shared!IdOrder
<1> QED
  BY <1>6 DEF Shared!ChangedInPlace, s, t

\* reorderItems permutes the sequence.
LEMMA ReorderEntries ==
  ASSUME LInv, NEW c \in Clients, NEW l \in Lists, NEW p \in [ItemsOf(item, l) -> 0 .. MaxItem - 1],
         ReorderItems(c, l, p)
  PROVE  Shared!Permuted(Entries(item, l), Entries(item', l))
<1>1. /\ ItemsOf(item', l) = ItemsOf(item, l)
      /\ \A i \in ItemsOf(item, l) : Content(item'[i]) = Content(item[i])
      /\ Positioned(item) /\ Positioned(item')
  BY ReorderKeeps, RowsPositioned DEF LInv, ListTypeOK, ItemsOf
<1>2. {[id |-> i, content |-> Content(item'[i])] : i \in ItemsOf(item, l)}
        = {[id |-> i, content |-> Content(item[i])] : i \in ItemsOf(item, l)}
  BY <1>1
<1> QED
  BY <1>1, <1>2, EntriesAre DEF Shared!Permuted, Shared!Elements

\* addItem appends to the sequence.
LEMMA AdditionEntries ==
  ASSUME LInv, NEW l \in Lists, NEW i \in Item, NEW q \in 1 .. MaxQuantity, NEW s \in StoreOrNone,
         AddItem(l, i, q, s)
  PROVE  Shared!Appended(Entries(item, l), Entries(item', l), i)
<1> DEFINE I == ItemsOf(item, l)
           J == ItemsOf(item', l)
           n == Cardinality(I)
           old == Entries(item, l)
           new == Entries(item', l)
<1>1. /\ i \notin I /\ J = I \cup {i} /\ item'[i].position = n
      /\ \A k \in Item \ {i} : item'[k] = item[k]
      /\ Positioned(item) /\ Positioned(item')
  BY AdditionKeeps, RowsPositioned DEF LInv, ListTypeOK
<1>2. n \in Nat /\ IsFiniteSet(I)
  BY ItemsFinite
<1>3. \A k \in I : k \in Item /\ item'[k] = item[k] /\ item[k].position \in 0 .. n - 1
  <2>1. {item[k].position : k \in I} = 0 .. n - 1
    BY <1>2, CountFromZero DEF LInv, PositionsContiguous
  <2> QED
    BY <1>1, <2>1 DEF ItemsOf
<1>4. Cardinality(J) = n + 1
  BY <1>1, <1>2, FS_AddElement
<1>5. /\ \A k \in I : Before(item', k, i) /\ ~Before(item', i, k)
      /\ \A k, j \in I : Before(item', k, j) <=> Before(item, k, j)
      /\ ~Before(item', i, i)
  BY <1>1, <1>2, <1>3, SizeAssumption DEF Before, Item
<1>6. ASSUME NEW k \in I PROVE Rank(item', l, k) = Rank(item, l, k)
  <2>1. {j \in J : Before(item', j, k)} = {j \in I : Before(item, j, k)}
    BY <1>1, <1>5
  <2> QED
    BY <2>1 DEF Rank
<1>7. Rank(item', l, i) = n
  <2>1. {j \in J : Before(item', j, i)} = I
    BY <1>1, <1>5
  <2> QED
    BY <2>1 DEF Rank
<1>8. Len(old) = n /\ DOMAIN old = 1 .. n /\ Len(new) = n + 1
  BY <1>1, <1>4, EntriesAre
<1>9. new[n + 1] = [id |-> i, content |-> Content(item'[i])]
  BY <1>1, <1>7, EntriesAre
<1>10. ASSUME NEW k \in 1 .. n PROVE new[k] = old[k]
  <2>1. PICK j \in I : Rank(item, l, j) = k - 1
    BY <1>1, Seats
  <2>2. (k - 1) + 1 = k
    BY <1>2
  <2>3. old[k] = [id |-> j, content |-> Content(item[j])]
    BY <1>1, <2>1, <2>2, EntriesAre
  <2>4. new[k] = [id |-> j, content |-> Content(item'[j])]
    BY <1>1, <1>6, <2>1, <2>2, EntriesAre
  <2> QED
    BY <1>3, <2>3, <2>4
<1> HIDE DEF old, new, n
<1>11. new[Len(new)].id = i
  BY <1>8, <1>9
<1> QED
  BY <1>8, <1>10, <1>11 DEF Shared!Appended, old, new

\* A deletion leaves the other items in their order.
LEMMA RemovalEntries ==
  ASSUME LInv, NEW l \in Lists, NEW S \in SUBSET ItemsOf(item, l),
         item' = NormalizePositions(Without(S), l)
  PROVE  Shared!Filtered(Entries(item, l), Entries(item', l))
<1> DEFINE f == Without(S)
           I == ItemsOf(item, l)
           J == ItemsOf(item', l)
           s == Entries(item, l)
           t == Entries(item', l)
           from == [k \in DOMAIN t |-> Rank(item, l, Seat(item', l, k)) + 1]
<1>0. /\ J = I \ S /\ Positioned(item) /\ Positioned(item')
      /\ \A i \in Item \ S : Content(item'[i]) = Content(item[i])
      /\ \A i \in I \ S : item'[i].position = Rank(f, l, i)
  BY RemovalKeeps, RowsPositioned DEF LInv, ListTypeOK
<1>1. /\ J = I \ S /\ Positioned(item) /\ Positioned(item')
      /\ \A i \in J : i \in Item \ S /\ i \in I /\ Content(item'[i]) = Content(item[i])
      /\ \A i \in J : item'[i].position = Rank(f, l, i)
  <2>1. I \subseteq Item
    BY DEF ItemsOf
  <2> HIDE DEF f, I, J
  <2> QED
    BY <1>0, <2>1
<1>2. /\ \A i \in Item : f[i] = IF i \in S THEN NoItem ELSE item[i]
      /\ \A i \in J : f[i] = item[i]
  BY <1>1 DEF Without
<1>3. ItemsOf(f, l) = J /\ Positioned(f)
  BY <1>1, <1>2 DEF ItemsOf, NoItem, Positioned
<1> HIDE DEF f
<1>4. ASSUME NEW i \in J, NEW k \in J, i # k, Before(item', i, k) PROVE Rank(item, l, i) < Rank(item, l, k)
  <2>1. Rank(f, l, i) # Rank(f, l, k) /\ (Rank(f, l, i) < Rank(f, l, k) <=> Before(f, i, k))
    BY <1>3, <1>4, RankInjective
  <2>2. Rank(f, l, i) < Rank(f, l, k)
    BY <1>1, <1>4, <2>1 DEF Before
  <2>3. Before(item, i, k)
    BY <1>2, <2>1, <2>2 DEF Before
  <2> QED
    BY <1>1, <2>3, RankOrder
<1>5. /\ DOMAIN t = 1 .. Cardinality(J) /\ DOMAIN s = 1 .. Cardinality(I)
      /\ \A k \in DOMAIN t : Seat(item', l, k) \in J /\ Rank(item', l, Seat(item', l, k)) = k - 1
      /\ \A i \in J : Rank(item, l, i) + 1 \in DOMAIN s
      /\ \A i \in J : s[Rank(item, l, i) + 1] = [id |-> i, content |-> Content(item[i])]
      /\ \A i \in J : t[Rank(item', l, i) + 1] = [id |-> i, content |-> Content(item'[i])]
  <2>1. /\ DOMAIN s = 1 .. Cardinality(I)
        /\ \A i \in I : Rank(item, l, i) + 1 \in 1 .. Cardinality(I)
        /\ \A i \in I : s[Rank(item, l, i) + 1] = [id |-> i, content |-> Content(item[i])]
    BY <1>1, EntriesAre, Seats
  <2>2. /\ DOMAIN t = 1 .. Cardinality(J)
        /\ \A k \in 1 .. Cardinality(J) :
             Seat(item', l, k) \in J /\ Rank(item', l, Seat(item', l, k)) = k - 1
        /\ \A i \in J : t[Rank(item', l, i) + 1] = [id |-> i, content |-> Content(item'[i])]
    <3>1. Positioned(item')
      BY <1>1
    <3>2. /\ DOMAIN t = 1 .. Cardinality(J)
          /\ \A i \in J : t[Rank(item', l, i) + 1] = [id |-> i, content |-> Content(item'[i])]
      BY <3>1, EntriesAre
    <3>3. \A k \in 1 .. Cardinality(J) :
            Seat(item', l, k) \in J /\ Rank(item', l, Seat(item', l, k)) = k - 1
      BY <3>1, Seats
    <3> QED
      BY <3>2, <3>3
  <2> HIDE DEF s, t, I, J
  <2> QED
    BY <1>1, <2>1, <2>2
<1>6. Cardinality(J) \in Nat
  BY ItemsFinite
<1>7. from \in [DOMAIN t -> DOMAIN s]
  BY <1>5
<1>8. ASSUME NEW k \in DOMAIN t PROVE t[k] = s[from[k]]
  <2>1. (k - 1) + 1 = k
    BY <1>5, <1>6
  <2>2. t[k] = [id |-> Seat(item', l, k), content |-> Content(item'[Seat(item', l, k)])]
    BY <1>5, <2>1
  <2>3. s[from[k]] = [id |-> Seat(item', l, k), content |-> Content(item[Seat(item', l, k)])]
    BY <1>5
  <2> QED
    BY <1>1, <1>5, <2>2, <2>3
<1>9. ASSUME NEW j \in DOMAIN t, NEW k \in DOMAIN t, j < k PROVE from[j] < from[k]
  <2> DEFINE a == Seat(item', l, j)
             b == Seat(item', l, k)
  <2>1. a \in J /\ b \in J /\ Rank(item', l, a) = j - 1 /\ Rank(item', l, b) = k - 1
    BY <1>5
  <2>2. j \in Nat /\ k \in Nat
    BY <1>5, <1>6
  <2> HIDE DEF a, b
  <2>3. Rank(item', l, a) < Rank(item', l, b) /\ a # b
    BY <1>9, <2>1, <2>2
  <2>4. Before(item', a, b)
    BY <1>1, <2>1, <2>3, RankInjective
  <2>5. Rank(item, l, a) < Rank(item, l, b)
    BY <1>4, <2>1, <2>3, <2>4
  <2>6. Rank(item, l, a) \in Nat /\ Rank(item, l, b) \in Nat
    BY <1>1, <2>1, RankBound
  <2>7. from[j] = Rank(item, l, a) + 1 /\ from[k] = Rank(item, l, b) + 1
    BY DEF a, b
  <2> QED
    BY <2>5, <2>6, <2>7
<1> HIDE DEF from, s, t
<1> QED
  BY <1>7, <1>8, <1>9 DEF Shared!Filtered, s, t

\* The sequences that the abstract specification sees, before and after a step.
LEMMA SequencesAre ==
  /\ \A l \in Lists : SequenceOf(l) = Entries(item, l)
  /\ \A l \in Lists : SequenceOf(l)' = Entries(item', l)
BY DEF SequenceOf, ItemAt, Entries, Seat

\* A write to l is a step Work(l), once it is known what becomes of the sequence of l.
LEMMA WorkStep ==
  ASSUME LInv, NEW l \in Lists, WritesTo(l),
         \/ /\ used' = used
            /\ \/ Shared!ChangedInPlace(Entries(item, l), Entries(item', l))
               \/ Shared!Filtered(Entries(item, l), Entries(item', l))
               \/ Shared!Permuted(Entries(item, l), Entries(item', l))
         \/ \E i \in Item \ used :
              used' = used \cup {i} /\ Shared!Appended(Entries(item, l), Entries(item', l), i)
  PROVE  Shared!Work(l)
<1> DEFINE open   == {m \in Lists : Exists(m)}
           order  == [m \in Lists |-> SequenceOf(m)]
           unused == Item \ used
<1>1. Exists(l) /\ list[l].version \in Nat /\ \A m \in Lists : Exists(m)' <=> Exists(m)
  <2>1. PICK s \in StoreOrNone : list' = [list EXCEPT ![l] = [version |-> list[l].version + 1, store |-> s]]
    BY DEF WritesTo
  <2>2. Exists(l) /\ list \in [Lists -> ListRow] /\ list[l].version \in Nat
    BY SizeAssumption DEF WritesTo, LInv, ListTypeOK, ListRow, Version
  <2>3. list'[l].version = list[l].version + 1 /\ \A m \in Lists \ {l} : list'[m] = list[m]
    BY <2>1, <2>2
  <2> QED
    BY <2>2, <2>3 DEF Exists
<1>2. l \in open /\ open' = open
  BY <1>1
<1>3. \A m \in Lists : order[m] = Entries(item, m) /\ order'[m] = Entries(item', m)
  BY SequencesAre
<1>4. \A m \in Lists \ {l} : order'[m] = order[m]
  BY <1>3, OthersStay
<1>5. \/ /\ unused' = unused
         /\ \/ Shared!ChangedInPlace(order[l], order'[l])
            \/ Shared!Filtered(order[l], order'[l])
            \/ Shared!Permuted(order[l], order'[l])
      \/ \E i \in unused : unused' = unused \ {i} /\ Shared!Appended(order[l], order'[l], i)
  <2>1. order[l] = Entries(item, l) /\ order'[l] = Entries(item', l)
    BY <1>3
  <2>2. ASSUME NEW i \in Item \ used, used' = used \cup {i} PROVE unused' = unused \ {i}
    BY <2>2
  <2> QED
    BY <2>1, <2>2
<1> QED
  BY <1>2, <1>4, <1>5 DEF Shared!Work

\* What each write does to the sequence of its list.
LEMMA WriteOfSequence ==
  ASSUME LInv, NEW c \in Clients, NEW l \in Lists, ListWrite(c, l)
  PROVE  Shared!Work(l)
<1> DEFINE s == Entries(item, l)
           t == Entries(item', l)
<1>0. WritesTo(l) /\ item = [k \in Item |-> item[k]]
  BY WriteForm DEF LInv, ListTypeOK
<1>1. CASE UpdateList(l)
  <2>1. used' = used /\ item' = item
    BY <1>1 DEF UpdateList
  <2>2. Shared!ChangedInPlace(s, t)
    BY <2>1 DEF Shared!ChangedInPlace
  <2> QED
    BY <1>0, <2>1, <2>2, WorkStep
<1>2. ASSUME NEW r \in StoreOrNone, NEW scope \in {"default", "all"}, SetStoreSelection(c, l, r, scope)
      PROVE  Shared!Work(l)
  <2>1. used' = used
    BY <1>2 DEF SetStoreSelection
  <2>2. Shared!ChangedInPlace(s, t)
    BY <1>2, SelectionIsInPlace, InPlaceEntries
  <2> QED
    BY <1>0, <2>1, <2>2, WorkStep
<1>3. ASSUME NEW i \in Item, NEW q \in 1 .. MaxQuantity, NEW r \in StoreOrNone, AddItem(l, i, q, r)
      PROVE  Shared!Work(l)
  <2>1. i \in Item \ used /\ used' = used \cup {i}
    BY <1>3 DEF AddItem
  <2>2. Shared!Appended(s, t, i)
    BY <1>3, AdditionEntries
  <2> QED
    BY <1>0, <2>1, <2>2, WorkStep
<1>4. ASSUME NEW S \in SUBSET ItemsOf(item, l), item' = NormalizePositions(Without(S), l), used' = used
      PROVE  Shared!Work(l)
  <2>1. Shared!Filtered(s, t)
    BY <1>4, RemovalEntries
  <2> QED
    BY <1>0, <1>4, <2>1, WorkStep
<1>5. ASSUME NEW i \in Item, l = item[i].list, DeleteItem(c, i)
      PROVE  Shared!Work(l)
  <2>1. Current(c, i) /\ item' = NormalizePositions(Without({i}), l) /\ used' = used
    BY <1>5 DEF DeleteItem
  <2>2. {i} \in SUBSET ItemsOf(item, l)
    BY <1>5, <2>1 DEF ItemsOf, Current
  <2> QED
    BY <1>4, <2>1, <2>2
<1>6. ASSUME NEW i \in Item, NEW q \in 1 .. MaxQuantity, NEW b \in BOOLEAN, NEW r \in StoreOrNone,
             l = item[i].list, UpdateItem(c, i, q, b, r)
      PROVE  Shared!Work(l)
  <2>1. used' = used
    BY <1>6 DEF UpdateItem
  <2>2. InPlace(l, {i}) /\ item' = [k \in Item |-> item'[k]]
    BY <1>6, UpdateItemIsInPlace
  <2>3. Shared!ChangedInPlace(s, t)
    BY <2>2, InPlaceEntries
  <2> QED
    BY <1>0, <2>1, <2>3, WorkStep
<1>7. ASSUME NEW S \in SUBSET ItemsOf(item, l), NEW b \in BOOLEAN, BulkCompleted(c, l, S, b)
      PROVE  Shared!Work(l)
  <2>1. used' = used
    BY <1>7 DEF BulkCompleted, Bulk
  <2>2. Shared!ChangedInPlace(s, t)
    BY <1>7, BulkCompletedIsInPlace, InPlaceEntries
  <2> QED
    BY <1>0, <2>1, <2>2, WorkStep
<1>8. ASSUME NEW S \in SUBSET ItemsOf(item, l), NEW r \in StoreOrNone, BulkStore(c, l, S, r)
      PROVE  Shared!Work(l)
  <2>1. used' = used
    BY <1>8 DEF BulkStore, Bulk
  <2>2. Shared!ChangedInPlace(s, t)
    BY <1>8, BulkStoreIsInPlace, InPlaceEntries
  <2> QED
    BY <1>0, <2>1, <2>2, WorkStep
<1>9. ASSUME NEW S \in SUBSET ItemsOf(item, l), BulkDelete(c, l, S)
      PROVE  Shared!Work(l)
  BY <1>4, <1>9 DEF BulkDelete, Bulk
<1>10. ASSUME NEW p \in [ItemsOf(item, l) -> 0 .. MaxItem - 1], ReorderItems(c, l, p)
       PROVE  Shared!Work(l)
  <2>1. used' = used
    BY <1>10 DEF ReorderItems
  <2>2. Shared!Permuted(s, t)
    BY <1>10, ReorderEntries
  <2> QED
    BY <1>0, <2>1, <2>2, WorkStep
<1> QED
  BY <1>1, <1>2, <1>3, <1>5, <1>6, <1>7, <1>8, <1>9, <1>10 DEF ListWrite

\* A list without items is the empty sequence.
LEMMA EmptyEntries ==
  ASSUME NEW f, NEW l, ItemsOf(f, l) = {}
  PROVE  Entries(f, l) = <<>>
<1>1. Cardinality(ItemsOf(f, l)) = 0
  BY FS_EmptySet
<1>2. DOMAIN Entries(f, l) = 1 .. 0
  BY <1>1 DEF Entries
<1> QED
  BY <1>1, <1>2 DEF Entries

\* createList opens a list that was not open, and starts no sequence.
LEMMA CreateOpens ==
  ASSUME LInv, NEW l \in Lists, CreateList(l)
  PROVE  Shared!Create(l)
<1> DEFINE open   == {m \in Lists : Exists(m)}
           order  == [m \in Lists |-> SequenceOf(m)]
           unused == Item \ used
<1>1. /\ l \notin used /\ used' = used \cup {l} /\ item' = item
      /\ list' = [list EXCEPT ![l] = [version |-> 1, store |-> "none"]]
      /\ list \in [Lists -> ListRow] /\ list[l] = NoList
  BY DEF CreateList, LInv, ListTypeOK, Rows
<1>2. list'[l].version = 1 /\ \A m \in Lists \ {l} : list'[m] = list[m]
  BY <1>1
<1>3. l \notin open /\ open' = open \cup {l}
  BY <1>1, <1>2 DEF Exists, NoList
<1>4. \A m \in Lists : SequenceOf(m)' = SequenceOf(m)
  BY <1>1, SequencesAre
<1>5. order' = order
  BY <1>4
<1>6. unused' = unused
  BY <1>1, IdAssumption DEF Item
<1> QED
  BY <1>3, <1>5, <1>6 DEF Shared!Create

\* deleteList closes the list, and its sequence is empty again.
LEMMA DeleteDrops ==
  ASSUME LInv, NEW l \in Lists, DeleteList(l)
  PROVE  Shared!Drop(l)
<1> DEFINE open   == {m \in Lists : Exists(m)}
           order  == [m \in Lists |-> SequenceOf(m)]
           unused == Item \ used
<1>1. /\ Exists(l) /\ used' = used /\ list' = [list EXCEPT ![l] = NoList]
      /\ list \in [Lists -> ListRow] /\ item \in [Item -> ItemRow]
  BY DEF DeleteList, LInv, ListTypeOK
<1>2. list'[l].version = 0 /\ \A m \in Lists \ {l} : list'[m] = list[m]
  BY <1>1 DEF NoList
<1>3. l \in open /\ open' = open \ {l} /\ unused' = unused
  BY <1>1, <1>2 DEF Exists
<1>4. \A i \in Item : item'[i] = IF i \in ItemsOf(item, l) THEN NoItem ELSE item[i]
  BY DEF DeleteList, Without
<1>5. Entries(item', l) = <<>>
  <2>1. ItemsOf(item', l) = {}
    BY <1>4 DEF ItemsOf, NoItem
  <2> QED
    BY <2>1, EmptyEntries
<1>6. ASSUME NEW m \in Lists \ {l} PROVE Entries(item', m) = Entries(item, m)
  <2>1. ItemsOf(item, m) \cap ItemsOf(item, l) = {}
    BY DEF ItemsOf
  <2>2. \A i \in ItemsOf(item, m) : i \in Item /\ item'[i] = item[i]
    BY <1>4, <2>1 DEF ItemsOf
  <2>3. ItemsOf(item', m) = ItemsOf(item, m)
    BY <1>4, <2>2 DEF ItemsOf, NoItem
  <2>4. Positioned(item)
    BY <1>1, RowsPositioned
  <2> QED
    BY <2>2, <2>3, <2>4, SameEntries
<1>7. order' = [order EXCEPT ![l] = <<>>]
  BY <1>5, <1>6, SequencesAre
<1> QED
  BY <1>3, <1>7 DEF Shared!Drop

\* A step that leaves the rows is a stutter of the sequences.
LEMMA SharedStutter ==
  ASSUME list' = list, item' = item, used' = used
  PROVE  UNCHANGED Shared!vars
<1>1. \A l \in Lists : SequenceOf(l)' = SequenceOf(l) /\ (Exists(l)' <=> Exists(l))
  BY SequencesAre DEF Exists
<1>2. /\ {l \in Lists : Exists(l)}' = {l \in Lists : Exists(l)}
      /\ [l \in Lists |-> SequenceOf(l)]' = [l \in Lists |-> SequenceOf(l)]
      /\ (Item \ used)' = Item \ used
  BY <1>1
<1> QED
  BY <1>2 DEF Shared!vars

LEMMA SharedInit == ListInit => Shared!Init
<1> SUFFICES ASSUME ListInit PROVE Shared!Init
  OBVIOUS
<1>1. \A l \in Lists : ~Exists(l) /\ ItemsOf(item, l) = {}
  BY DEF ListInit, Exists, NoList, ItemsOf, NoItem
<1>2. \A l \in Lists : SequenceOf(l) = <<>>
  BY <1>1, SequencesAre, EmptyEntries
<1>3. used = {}
  BY DEF ListInit
<1> QED
  BY <1>1, <1>2, <1>3 DEF Shared!Init

LEMMA SharedStep == LInv /\ [ListNext]_listVars => [Shared!Next]_(Shared!vars)
<1> SUFFICES ASSUME LInv, [ListNext]_listVars PROVE [Shared!Next]_(Shared!vars)
  OBVIOUS
<1>1. ASSUME NEW l \in Lists, CreateList(l) PROVE Shared!Next
  BY <1>1, CreateOpens DEF Shared!Next
<1>2. ASSUME NEW l \in Lists, DeleteList(l) PROVE Shared!Next
  BY <1>2, DeleteDrops DEF Shared!Next
<1>3. ASSUME NEW c \in Clients, NEW l \in Lists, ListWrite(c, l) PROVE Shared!Next
  BY <1>3, WriteOfSequence DEF Shared!Next
<1>4. ASSUME NEW c \in Clients, NEW l \in Lists, GetList(c, l) PROVE UNCHANGED Shared!vars
  BY <1>4, SharedStutter DEF GetList
<1>5. ASSUME NEW c \in Clients, NEW i \in Item, ItemConflict(c, i) PROVE UNCHANGED Shared!vars
  BY <1>5, SharedStutter DEF ItemConflict
<1>6. CASE UNCHANGED listVars
  BY <1>6, SharedStutter DEF listVars
<1> QED
  BY <1>1, <1>2, <1>3, <1>4, <1>5, <1>6, ListSteps

\* ImplementsSharedLists: rows with positions and versions, read and written by any number
\* of clients, are sequences that are appended to, changed in place, filtered or permuted,
\* one list at a time; an id that has been in a list is not used again.
THEOREM ListsImplementSequences == ListSpec => ImplementsSharedLists
  BY SharedInit, SharedStep, ListInvariance, PTL DEF ListSpec, ImplementsSharedLists, Shared!Spec
================================================================================
