------------------------------- MODULE MCRecords -------------------------------
(***************************************************************************)
(* Parts of the system that share no state: each behaviour is one of them, *)
(* and the others keep their initial state.                                *)
(***************************************************************************)
EXTENDS ApplicationLog, ShoppingList, MCTickets, ReceiptAssembly, ShoppingAdvice, AiRuntime

CONSTANTS r1, r2, d1, c1, L1, S1, a1, a2

TwoRequests == {r1, r2}
OneLogKey   == {d1}
OneOrTwo    == {1, 2}
OneClient   == {c1}
OneList     == {L1}
OneStore    == {S1}

Line(name, q, price, d, t) == [name |-> name, quantity |-> q, price |-> price, discount |-> d, total |-> t]
Percent(n, q) == [type |-> "percentage", value |-> n, quantity |-> q]
Cents(n)      == [type |-> "amount", value |-> n, quantity |-> 0]
Goods         == {Line("milk", 1, 3, NoDiscount, 3), Line("milk", 2, 3, NoDiscount, 6),
                  Line("bread", 1, 5, NoDiscount, 5), Line("bread", 2, 5, Percent(50, 0), 5)}
Smudged       == {<<Line("bread", 1, 5, Cents(9), 5)>>}    \* the discount is misread
SomePapers    == UNION {[1 .. n -> Goods] : n \in 1 .. 3} \cup Smudged
MilkMisread   == [n \in {"milk", "mi1k", "bread"} |-> IF n = "milk" THEN "mi1k" ELSE n]
Unassigned(n, d)  == [name |-> n, discount |-> d]
SomeEntries   == {<<>>, <<Unassigned("milk", Percent(33, 0))>>, <<Unassigned("milk", Percent(33, 1))>>,
                  <<Unassigned("milk", Cents(1)), Unassigned("bread", Cents(9)), Unassigned("milk", Percent(50, 0))>>}
SomeTotals    == {NoTotal, 4}

PackageIn(n, d, u) == [amount |-> [n |-> n, d |-> d], unit |-> u]
NoPackage     == PackageIn(0, 1, "none")
SomeLines     == [store : BOOLEAN, product : BOOLEAN, price : {NoPrice, 199}, unit : {"g", "kg", "l", "unit"},
                  quantity : {1, 3},
                  packages : {<<PackageIn(1, 1, "kg"), NoPackage>>, <<NoPackage, PackageIn(500, 1, "g")>>,
                              <<PackageIn(3, 2, "l"), PackageIn(1, 1, "kg")>>, <<PackageIn(500, 1, "ml"), NoPackage>>,
                              <<PackageIn(1, 1, "unit"), NoPackage>>}]
OfferOf(i, r, p, s, less, sure, in, same, free) ==
  [item |-> i, retailer |-> r, price |-> p, shipping |-> s, promotion |-> less, confidence |-> sure,
   inStock |-> in, exact |-> same, freeDelivery |-> free]
OffersOf(i, r) == {OfferOf(i, r, 5, 2, 0, 1, TRUE, TRUE, FALSE), OfferOf(i, r, 4, 4, 1, 2, TRUE, FALSE, FALSE),
                   OfferOf(i, r, 6, 3, 0, 1, TRUE, TRUE, TRUE), OfferOf(i, r, 1, 0, 0, 1, FALSE, TRUE, FALSE)}
SomeShelves   == {<<a, b, c, d>> : a \in OffersOf("i", "x"), b \in OffersOf("i", "y"),
                                   c \in OffersOf("j", "x"), d \in OffersOf("j", "y")}
                   \cup {<<a, b>> : a \in OffersOf("i", "x"), b \in OffersOf("i", "y")}
Need(i, exact, other) == [item |-> i, exactRequired |-> exact, substitutionAllowed |-> other]
SomeNeeds     == {<<Need("i", TRUE, TRUE), Need("j", FALSE, TRUE)>>, <<Need("i", FALSE, TRUE), Need("j", FALSE, FALSE)>>}
SomeJourneys  == [{"x", "y"} -> {0, 3}]

TwoCalls      == {a1, a2}
AiOff         == [base |-> Unset, model |-> "m", key |-> Unset, retries |-> 1]
OffOrOn       == {AiOff, [AiOff EXCEPT !.base = "A", !.key = "k"]}
Saves         == {[base |-> "B", key |-> "l", retries |-> 0]}
Sizes(image, count) == [image |-> image, file |-> 1, count |-> count, json |-> 1]
OneUpload     == {Sizes(2, 1)}
SomeLimits    == {Sizes(1, 1), Sizes(2, 2)}

VARIABLE part

recordsVars == <<part, logVars, listVars, backfillVars, assemblyVars, adviceVars, aiVars>>

Parts == {"log", "lists", "tickets", "backfill", "assembly", "advice", "ai"}

RecordsInit ==
  /\ part \in Parts
  /\ LogInit /\ ListInit /\ AiInit
  /\ part # "ai" => aiSettings = AiOff
  /\ IF part = "assembly" THEN AssemblyInit
     ELSE /\ paper = <<>> /\ overlap = 0 /\ pages = <<>> /\ lines = <<>> /\ merged = <<>> /\ stage = "pages"
          /\ entries = <<>> /\ pendingDiscounts = <<>> /\ cursor = 1 /\ resolved = {}
          /\ declaredTotal = NoTotal /\ inferred = FALSE
  /\ IF part = "advice" THEN AdviceInit
     ELSE asked = "none" /\ answer = NoAnswer /\ line = NoLine /\ offers = <<>> /\ needs = <<>> /\ journey = <<>>
  /\ IF part = "backfill" THEN BackfillInit ELSE TicketInit /\ migration = "none"

\* A step of one part.
Runs(s, Step) ==
  /\ part = s /\ Step /\ UNCHANGED part
  /\ IF s = "log" THEN TRUE ELSE UNCHANGED logVars
  /\ IF s = "lists" THEN TRUE ELSE UNCHANGED listVars
  /\ IF s = "assembly" THEN TRUE ELSE UNCHANGED assemblyVars
  /\ IF s = "advice" THEN TRUE ELSE UNCHANGED adviceVars
  /\ IF s = "ai" THEN TRUE ELSE UNCHANGED aiVars
  /\ IF s = "tickets" THEN UNCHANGED migration ELSE IF s = "backfill" THEN TRUE ELSE UNCHANGED backfillVars

RecordsNext ==
  \/ Runs("log", LogNext)
  \/ Runs("lists", ListNext)
  \/ Runs("assembly", AssemblyNext)
  \/ Runs("advice", AdviceNext)
  \/ Runs("ai", AiNext)
  \/ Runs("tickets", TicketNext)
  \/ Runs("backfill", BackfillNext)

RecordsSpec == RecordsInit /\ [][RecordsNext]_recordsVars

\* The type invariants of the modules.
RecordsTypeOK ==
  /\ LogTypeOK /\ ListTypeOK /\ TicketTypeOK /\ BackfillTypeOK
  /\ (part = "assembly" => AssemblyTypeOK)
  /\ (part = "advice" => AdviceTypeOK)

\* The sums of the receipts and the advice drawn from prices.
ArithmeticSound == AssemblySound /\ AdviceSound
================================================================================
