---------------------------- MODULE ReceiptBackfill ----------------------------
(***************************************************************************)
(* Migration 7 (collaboration-schema-core.ts): the lines that were         *)
(* confirmed before the catalogue was fed by receipts get a product, a     *)
(* listing and an observation.  Ids follow the order of the rows, which is  *)
(* that of the tickets; inside a ticket the order of ids is chance, and    *)
(* this is one.  In the databases it finds, a receipt has no store and may *)
(* have no retailer.                                                       *)
(***************************************************************************)
EXTENDS Tickets, SequencesExt

CONSTANTS
  NoRetailer,
  Histories     \* [receipts: retailer of each, lines: receipt and title of each, products: title and retailer]

ASSUME BackfillAssumption == NoRetailer \notin Retailers

VARIABLE migration

backfillVars == <<ticketVars, migration>>

\* The database of a history: its receipts, then its products, each with the listing of
\* its retailer, then its lines.
Historical(h) ==
  LET firstProduct == Len(h.receipts) + UNKNOWN_CATEGORY_ID
      firstLine    == firstProduct + Len(h.products)
      products     == {firstProduct + n : n \in 1..Len(h.products)}
      title(v)     == h.products[v - firstProduct].title
      retailer(v)  == h.products[v - firstProduct].retailer
  IN [EmptyDatabase EXCEPT
        !.receipts = [r \in {UNKNOWN_CATEGORY_ID + n : n \in 1..Len(h.receipts)} |->
                        [retailer |-> h.receipts[r - UNKNOWN_CATEGORY_ID], store |-> NoId, key |-> r]],
        !.parents  = [v \in products |-> [name |-> title(v), category |-> NoId, label |-> ""]],
        !.variants = [v \in products |-> [parent |-> v, name |-> title(v), aliases |-> {}]],
        !.search   = [v \in products |-> {title(v)}],
        !.listings = [v \in {v \in products : retailer(v) # NoRetailer} |->
                        [retailer |-> retailer(v), variant |-> v, title |-> title(v)]],
        !.items    = [i \in {firstLine + n : n \in 1..Len(h.lines)} |->
                        [ receipt |-> UNKNOWN_CATEGORY_ID + h.lines[i - firstLine].receipt,
                          title |-> h.lines[i - firstLine].title, variant |-> NoId,
                          price |-> CHOOSE p \in Prices : TRUE, category |-> UNKNOWN_CATEGORY_ID,
                          status |-> h.lines[i - firstLine].status ]],
        !.serial   = firstLine + Len(h.lines)]

RetailerOfLine(d, i) == d.receipts[d.items[i].receipt].retailer

\* The confirmed lines that have no product yet, and those for the same title at the
\* same retailer.
Unlinked(d) == {i \in DOMAIN d.items : d.items[i].status = "confirmed" /\ d.items[i].variant = NoId}

SameTitle(d, i) ==
  {k \in Unlinked(d) : d.items[k].title = d.items[i].title /\ RetailerOfLine(d, k) = RetailerOfLine(d, i)}

OnlyOf(S) == IF Cardinality(S) = 1 THEN CHOOSE x \in S : TRUE ELSE NoId

\* The variant the retailer lists under the title, or the one of that name if it lists none.
Matching(d, i) ==
  LET listed == ListedAs(d, RetailerOfLine(d, i), d.items[i].title)
  IN IF listed # {} THEN OnlyOf(listed) ELSE OnlyOf(VariantsNamed(d, d.items[i].title))

Matched(d) == [d EXCEPT !.items = [i \in DOMAIN @ |-> IF i \in Unlinked(d) THEN [@[i] EXCEPT !.variant = Matching(d, i)] ELSE @[i]]]

\* Mutant: every line is the first of its title.
IsAnyLine(d, i) == i \in SameTitle(d, i)

IsFirst(d, i) == \A k \in SameTitle(d, i) : i <= k

\* Lines a product is made for: the first of its title where nothing is listed (or named, when
\* the retailer is not known), and each line whose title is ambiguous.
NeedsBackfill(d, i) ==
  LET listed == ListedAs(d, RetailerOfLine(d, i), d.items[i].title)
      named  == VariantsNamed(d, d.items[i].title)
      known  == IF RetailerOfLine(d, i) = NoRetailer THEN named ELSE listed
  IN i \in Unlinked(d) /\ ((known = {} /\ IsFirst(d, i)) \/ Cardinality(known) > 1)

WithOwnProducts(d) ==
  FoldLeft(LAMBDA e, i : IF NeedsBackfill(d, i)
                         THEN WithProduct(WithParent(e, i, d.items[i].title, NoId), i, i, d.items[i].title, {})
                         ELSE e,
           d, SetToSortSeq(DOMAIN d.items, <))

\* The UPDATE goes through the rows in order, and the rows it has changed are seen as
\* changed: the first line of a title is an anchor no more once it has its product.
Linked(d, i) ==
  LET r       == RetailerOfLine(d, i)
      listed  == ListedAs(d, r, d.items[i].title)
      anchors == {k \in SameTitle(d, i) : k \in DOMAIN d.variants /\ r # NoRetailer /\ listed = {}}
      named   == IF listed = {} THEN OnlyOf(VariantsNamed(d, d.items[i].title)) ELSE NoId
      variant == CASE anchors # {} -> FirstOf(anchors)
                   [] anchors = {} /\ named # NoId -> named
                   [] OTHER -> i
  IN IF i \in Unlinked(d) THEN [d EXCEPT !.items[i].variant = variant] ELSE d

\* Each line of a known retailer then gives its listing, if there is none, and its observation.
Observed(d, i) ==
  IF d.items[i].status = "confirmed" /\ RetailerOfLine(d, i) # NoRetailer
  THEN WithObservation(WithListing(d, i, RetailerOfLine(d, i), d.items[i].variant, d.items[i].title),
                       i, RetailerOfLine(d, i), d.items[i].variant, NoId, d.items[i].price, i)
  ELSE d

InOrder(d, Step(_, _)) == FoldLeft(Step, d, SetToSortSeq(DOMAIN d.items, <))

LinkedLines(d) == InOrder(WithOwnProducts(Matched(d)), Linked)

\* The references are checked at the end of each statement; a migration that fails is
\* rolled back and the server does not start.
Migrate ==
  LET linkedLines == LinkedLines(db)
      possible    == \A i \in DOMAIN db.items : linkedLines.items[i].variant \in DOMAIN linkedLines.variants \cup {NoId}
  IN /\ migration = "pending"
     /\ migration' = IF possible THEN "done" ELSE "failed"
     /\ db' = IF possible THEN InOrder(linkedLines, Observed) ELSE db

BackfillInit ==
  /\ \E h \in Histories : db = Historical(h)
  /\ ticketActs = 0 /\ migration = "pending"

BackfillNext == Migrate /\ UNCHANGED ticketActs

BackfillSpec == BackfillInit /\ [][BackfillNext]_backfillVars

-------------------------------------------------------------------------------
\* The outcome of the migration.
BackfillTypeOK == migration \in {"none", "pending", "done", "failed"}

\* The listings that no line has made.
ListedBefore(r, title) ==
  {l \in DOMAIN db.listings \ DOMAIN db.items : db.listings[l].retailer = r /\ db.listings[l].title = title}

\* Tickets of one retailer with the same title, in any number and order and beside those of
\* other retailers, end on one product unless the retailer listed several before; every
\* confirmed line has a product, and one observation of its price if its retailer is known.
BackfillSound ==
  migration = "done" =>
    LET confirmed == {i \in DOMAIN db.items : db.items[i].status = "confirmed"}
        known     == {i \in confirmed : RetailerOfLine(db, i) # NoRetailer}
    IN /\ \A i \in confirmed : db.items[i].variant \in DOMAIN db.variants
       /\ \A i, k \in known :
            (/\ RetailerOfLine(db, i) = RetailerOfLine(db, k) /\ db.items[i].title = db.items[k].title
             /\ Cardinality(ListedBefore(RetailerOfLine(db, i), db.items[i].title)) <= 1)
            => db.items[i].variant = db.items[k].variant
       /\ \A i \in known : \E o \in DOMAIN db.observations :
            {seen \in DOMAIN db.observations : db.observations[seen].item = i} = {o} /\ db.listings[db.observations[o].listing].variant = db.items[i].variant
       /\ \A r \in Retailers, v \in DOMAIN db.variants : Cardinality(ListingsOf(db, r, v)) <= 1

\* The migration gives every database a catalogue: it never meets a reference that fails.
BackfillSucceeds == migration # "failed"
================================================================================
