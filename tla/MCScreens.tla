------------------------------- MODULE MCScreens -------------------------------
(***************************************************************************)
(* Clients that share no state: each behaviour is a part of the web client *)
(* or the client of the responses, and the others do nothing.              *)
(***************************************************************************)
EXTENDS ReceiptCaptures, RequestCoordinator, ReceiptLineTotal, ReceiptReview, CatalogScreen, CategoryScreen,
        TicketHistoryScreen, ResponseSlots

CONSTANTS c1, c2, q1, q2, q3, p1, p2, p3, A, B

TwoCaptures    == {c1, c2}
SecondIsPdf    == {c2}
ThreeCalls     == {q1, q2, q3}
WriteOrRead    == [b \in {"items", "lists"} |-> IF b = "items" THEN "mutation" ELSE "read"]
SaltSelected   == {{"salt"}}
ThreeCallers   == {p1, p2, p3}
TwoProviders   == {A, B}
NoCallers      == {}
ActsOfPatience == [waits \in BOOLEAN |-> IF waits THEN 5 ELSE 3]

VARIABLE part

screensVars == <<part, captureVars, coordinatorVars, totalVars, reviewVars, browse, tree, history, vars>>

Parts == {"captures", "requests", "totals", "review", "products", "categories", "tickets", "slots"}

\* The screen of a part that does not run.
NotShown == <<>>

ScreensInit ==
  /\ part \in Parts
  /\ CaptureInit /\ CoordinatorInit /\ TotalInit /\ ReviewInit /\ Init
  /\ IF part = "products" THEN BrowseInit ELSE browse = NotShown
  /\ IF part = "categories" THEN CategoryInit ELSE tree = NotShown
  /\ IF part = "tickets" THEN HistoryInit ELSE history = NotShown
  /\ provider = A /\ (\A p \in Callers : remote[p] = "none") /\ setting = MaxLimit
  /\ part # "captures" => state.aiConfigured

\* A step of one part.
Runs(s, Step) ==
  /\ part = s /\ Step /\ UNCHANGED part
  /\ IF s = "captures" THEN TRUE ELSE UNCHANGED captureVars
  /\ IF s = "requests" THEN TRUE ELSE UNCHANGED coordinatorVars
  /\ IF s = "totals" THEN TRUE ELSE UNCHANGED totalVars
  /\ IF s = "review" THEN TRUE ELSE UNCHANGED reviewVars
  /\ IF s = "products" THEN TRUE ELSE UNCHANGED browse
  /\ IF s = "categories" THEN TRUE ELSE UNCHANGED tree
  /\ IF s = "tickets" THEN TRUE ELSE UNCHANGED history
  /\ IF s = "slots" THEN TRUE ELSE UNCHANGED vars

ScreensNext ==
  \/ Runs("captures", CaptureNext)
  \/ Runs("requests", CoordinatorNext)
  \/ Runs("totals", TotalNext)
  \/ Runs("review", ReviewNext)
  \/ Runs("products", BrowseNext)
  \/ Runs("categories", TreeNext)
  \/ Runs("tickets", HistoryNext)
  \/ Runs("slots", Next)

ScreensSpec == ScreensInit /\ [][ScreensNext]_screensVars

\* The type invariants of the modules.
ScreensTypeOK ==
  /\ CaptureTypeOK /\ CoordinatorTypeOK /\ TotalTypeOK /\ ReviewTypeOK
  /\ (part = "products" => BrowseTypeOK)
  /\ (part = "categories" => TreeTypeOK)
  /\ (part = "tickets" => HistoryTypeOK)

\* What the screens with a list and a sheet show and send.
ScreensSound ==
  /\ (part = "products" => BrowseSound)
  /\ (part = "categories" => TreeSound)
  /\ (part = "tickets" => HistorySound)
================================================================================
