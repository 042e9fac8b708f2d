---------------------------- MODULE ReceiptAssembly -----------------------------
(***************************************************************************)
(* From the lines of the pages to the lines under review: the pages are    *)
(* merged where they overlap, equal lines are grouped, the discounts that  *)
(* have no line yet get one, and the result is checked against the total   *)
(* of the receipt. Money is in cents, percentages in basis points.         *)
(***************************************************************************)
EXTENDS Integers, Sequences, FiniteSets, SequencesExt, FiniteSetsExt

CONSTANTS
  Papers,      \* receipts on paper: sequences of lines
  Misread,     \* of each name: the name a photo of the line may be read as
  Entries,     \* sequences of discounts without a line
  Declared,    \* totals that may be read, or NoTotal
  Hundred,     \* BASIS_POINTS_PER_WHOLE
  MaxOverlap   \* lines that two pages are compared by

ASSUME AssemblyAssumption == Hundred > 0 /\ Hundred % 2 = 0 /\ MaxOverlap \in Nat

VARIABLES
  paper, overlap,     \* the receipt, and how many of its lines two photos of it share
  pages,              \* the photos that are still to be merged
  stage,
  lines,              \* of the receipt, as far as it is read
  merged,             \* before they were grouped
  pendingDiscounts,   \* unassignedDiscounts, and the one that is looked at
  cursor,
  resolved,           \* the discounts that got a line
  inferred,           \* whether one got its quantity from the total
  entries, declaredTotal

assemblyVars ==
  <<paper, overlap, pages, lines, merged, stage, entries, pendingDiscounts, cursor, resolved, declaredTotal, inferred>>

NoTotal    == -1
NoDiscount == [type |-> "none", value |-> 0, quantity |-> 0]    \* quantity 0: of the whole line

--------------------------------------------------------------------------------

Subtotal(l) == l.quantity * l.price

\* The part of a line that a discount is of.
AffectedSubtotal(l, d) == (IF d.quantity = 0 THEN l.quantity ELSE d.quantity) * l.price

\* discountSubtotalMinor and calculateReceiptLineDiscountMinor do not throw.
Allows(l, d) ==
  /\ d.type # "none" => (IF d.quantity = 0 THEN l.quantity ELSE d.quantity) \in 1 .. l.quantity
  /\ d.type = "amount" => d.value <= AffectedSubtotal(l, d)

\* The division without the half.
DownToTheCent(l, d) == (AffectedSubtotal(l, d) * d.value) \div Hundred

\* Percentages are rounded half up to the cent.
ToTheCent(l, d) == (AffectedSubtotal(l, d) * d.value + Hundred \div 2) \div Hundred

\* calculateReceiptLineDiscountMinor
DiscountMinor(l, d) ==
  CASE d.type = "none"       -> 0
    [] d.type = "amount"     -> d.value
    [] d.type = "percentage" -> ToTheCent(l, d)

\* calculateReceiptLineTotal
LineTotal(l) == Subtotal(l) - DiscountMinor(l, l.discount)

\* sameOverlapLine: the names may be read a little differently.
SameName(a, b) == a = b \/ Misread[a] = b \/ Misread[b] = a

SameOverlapLine(a, b) ==
  /\ a.quantity = b.quantity /\ a.price = b.price /\ a.total = b.total /\ a.discount = b.discount
  /\ SameName(a.name, b.name)

\* findAdjacentOverlap
AdjacentOverlap(before, page) ==
  Max({0} \cup {size \in 2 .. Min({MaxOverlap, Len(before), Len(page)}) :
                  \A i \in 1 .. size : SameOverlapLine(before[Len(before) - size + i], page[i])})

FromLine(page, n) == SubSeq(page, n + 1, Len(page))

\* groupKey: of a line without discount.
GroupKey(l) == [name |-> l.name, quantity |-> l.quantity, price |-> l.price, total |-> l.total]

\* groupEquivalentReceiptItems: each group keeps the key of its first line.
AddToGroup(groups, l) ==
  LET same == {i \in DOMAIN groups : l.discount = NoDiscount /\ groups[i].key = <<GroupKey(l)>>}
  IN IF same = {}
       THEN Append(groups, [key |-> IF l.discount = NoDiscount THEN <<GroupKey(l)>> ELSE <<>>, line |-> l])
       ELSE LET i == CHOOSE j \in same : TRUE
            IN [groups EXCEPT ![i].line.quantity = @ + l.quantity, ![i].line.total = @ + l.total]

Grouped(ls) == LET groups == FoldLeft(AddToGroup, <<>>, ls) IN [i \in DOMAIN groups |-> groups[i].line]

SumOf(ls) == FoldLeft(LAMBDA sum, l : sum + l.total, 0, ls)

\* isUndiscountedSubtotal
IsUndiscountedSubtotal(l) == l.discount = NoDiscount /\ l.total = Subtotal(l)

\* The lines an entry may be the discount of.
LinesFor(e) == {i \in DOMAIN lines : lines[i].name = e.name /\ IsUndiscountedSubtotal(lines[i])}

\* inferPercentageQuantity: the one quantity that makes the receipt add up.
FittingQuantities(l, d, target) ==
  {n \in 1 .. l.quantity : DiscountMinor(l, [d EXCEPT !.quantity = n]) = target}

\* The quantity of an entry that does not say it, 0 if it is not known.
InferredQuantity(l, d) ==
  LET target == SumOf(lines) - declaredTotal
      fits   == FittingQuantities(l, d, target)
  IN IF l.quantity = 1 THEN 1
     ELSE IF /\ d.type = "percentage" /\ Len(pendingDiscounts) = 1 /\ declaredTotal # NoTotal
             /\ target > 0 /\ Cardinality(fits) = 1
       THEN CHOOSE n \in fits : TRUE
     ELSE 0

--------------------------------------------------------------------------------

\* Two photos of the paper that leave no line out; on the second one, names may be read
\* a little differently.
Photos(p, shared, last, reread) ==
  <<SubSeq(p, 1, last),
    LET rest == SubSeq(p, last - shared + 1, Len(p))
    IN [i \in DOMAIN rest |-> IF reread THEN [rest[i] EXCEPT !.name = Misread[@]] ELSE rest[i]]>>

AssemblyInit ==
  /\ paper \in Papers
  /\ \E last \in 1 .. Len(paper), reread \in BOOLEAN :
       overlap \in 0 .. last /\ pages = Photos(paper, overlap, last, reread)
  /\ entries \in Entries /\ declaredTotal \in Declared
  /\ lines = <<>> /\ merged = <<>> /\ stage = "pages"
  /\ pendingDiscounts = entries /\ cursor = 1 /\ resolved = {} /\ inferred = FALSE

\* mergeReceiptPageItems
MergePage ==
  /\ stage = "pages" /\ pages # <<>>
  /\ lines' = lines \o FromLine(Head(pages), AdjacentOverlap(lines, Head(pages)))
  /\ pages' = Tail(pages)
  /\ UNCHANGED <<paper, overlap, merged, stage, entries, pendingDiscounts, cursor, resolved, declaredTotal, inferred>>

GroupItems ==
  /\ stage = "pages" /\ pages = <<>>
  /\ merged' = lines /\ lines' = Grouped(lines)
  /\ stage' = "discounts"
  /\ UNCHANGED <<paper, overlap, pages, entries, pendingDiscounts, cursor, resolved, declaredTotal, inferred>>

Entry == pendingDiscounts[cursor]

\* The next discount without a line stays so.
SkipDiscount ==
  /\ cursor' = cursor + 1
  /\ UNCHANGED <<lines, pendingDiscounts, resolved, inferred>>

\* It becomes the discount of the line.
Resolve(i, d) ==
  LET l == [lines[i] EXCEPT !.discount = d]
  IN /\ lines' = [lines EXCEPT ![i] = [l EXCEPT !.total = LineTotal(l)]]
     /\ pendingDiscounts' = RemoveAt(pendingDiscounts, cursor)
     /\ resolved' = resolved \cup {[line |-> i, discount |-> d]}
     /\ inferred' = (inferred \/ (lines[i].quantity > 1 /\ d.quantity # Entry.discount.quantity))
     /\ UNCHANGED cursor

\* normalizeReceiptItems, one entry.
NextDiscount ==
  /\ stage = "discounts" /\ cursor <= Len(pendingDiscounts)
  /\ IF Cardinality(LinesFor(Entry)) # 1
       THEN SkipDiscount
       ELSE \E i \in LinesFor(Entry) :
              LET q == IF Entry.discount.quantity # 0 THEN Entry.discount.quantity
                       ELSE InferredQuantity(lines[i], Entry.discount)
                  d == [Entry.discount EXCEPT !.quantity = q]
              IN IF (d.type = "percentage" /\ q = 0) \/ ~Allows(lines[i], d)
                   THEN SkipDiscount
                   ELSE Resolve(i, d)
  /\ UNCHANGED <<paper, overlap, pages, merged, stage, entries, declaredTotal>>

\* buildReceiptReview throws when the discount of a line is more than the line.
Review ==
  /\ stage = "discounts" /\ cursor > Len(pendingDiscounts)
  /\ stage' = IF \A i \in DOMAIN lines : Allows(lines[i], lines[i].discount) THEN "reviewed" ELSE "failed"
  /\ UNCHANGED <<paper, overlap, pages, lines, merged, entries, pendingDiscounts, cursor, resolved, declaredTotal, inferred>>

AssemblyNext == MergePage \/ GroupItems \/ NextDiscount \/ Review

AssemblySpec == AssemblyInit /\ [][AssemblyNext]_assemblyVars

--------------------------------------------------------------------------------

AssemblyTypeOK ==
  /\ stage \in {"pages", "discounts", "reviewed", "failed"}
  /\ \A i \in DOMAIN lines : lines[i].quantity \in Nat /\ lines[i].total \in Nat
  /\ cursor \in 1 .. Len(entries) + 1

\* No two places of the paper could be taken for one another.
IsPlain(p) == \A i, j \in 1 .. Len(p) : i < j => ~SameOverlapLine(p[i], p[j])

\* Two photos that share no line, or two at least, are merged into the paper.
PagesMergeToPaper ==
  stage # "pages" /\ IsPlain(paper) /\ overlap # 1 =>
    Len(merged) = Len(paper) /\ \A i \in DOMAIN merged : SameOverlapLine(merged[i], paper[i])

\* What was bought at which price.
Bought(ls, name, price) ==
  FoldLeft(LAMBDA sum, l : IF l.name = name /\ l.price = price THEN sum + l.quantity ELSE sum, 0, ls)

\* No article and no price is lost in a group.
GroupingKeeps ==
  stage # "pages" => \A l \in ToSet(merged) : Bought(lines, l.name, l.price) = Bought(merged, l.name, l.price)

\* Every cent taken off is taken off by one discount, and every discount is still pending
\* or has one line: none is lost, and none is used twice.
DiscountsAccounted ==
  stage # "pages" =>
    /\ SumOf(lines) + MapThenSumSet(LAMBDA r : DiscountMinor(lines[r.line], r.discount), resolved) = SumOf(merged)
    /\ Cardinality({r.line : r \in resolved}) + Len(pendingDiscounts) = Len(entries)

\* A line that got a discount is one the review confirms, and a quantity that nobody read
\* is only chosen when it makes the receipt add up.
ResolvedLinesAddUp ==
  /\ \A r \in resolved :
       LET l == lines[r.line] IN Allows(l, l.discount) /\ l.total = LineTotal(l) /\ l.total >= 0
  /\ inferred => SumOf(lines) = declaredTotal

\* A percentage is the nearest cent of its exact value, the greater one of two.
NearestCent ==
  \A l \in ToSet(lines) :
    l.discount.type = "percentage" =>
      LET above == DiscountMinor(l, l.discount) * Hundred - AffectedSubtotal(l, l.discount) * l.discount.value
      IN 0 - Hundred < 2 * above /\ 2 * above <= Hundred

\* The lines under review are those of the paper, to the cent.
AssemblySound ==
  PagesMergeToPaper /\ GroupingKeeps /\ DiscountsAccounted /\ ResolvedLinesAddUp /\ NearestCent
================================================================================
