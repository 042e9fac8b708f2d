-------------------------- MODULE TicketHistoryScreen --------------------------
(***************************************************************************)
(* The history of tickets in the web client: a list under filters, the     *)
(* editor of a ticket over it, the dialog of one of its lines, whose total *)
(* the server calculates while the user types, and the dialog that deletes *)
(* one ticket or the selected ones.                                        *)
(***************************************************************************)
EXTENDS Integers, FiniteSets, SequencesExt

CONSTANTS
  Tickets,          \* the tickets there are when the user begins
  TicketFilters,    \* the filters and pages of the list
  LinePrices,       \* what the user types as the price of a line
  MayWait,          \* whether the user waits for answers before going on
  MaxHistoryCalls,  \* calls under way
  MaxHistoryActs    \* acts of a user who waits, and of one who does not

VARIABLE history

NoTicket   == "no ticket"
TicketList == "ticket-history"
Away       == "away"
OpenNone   == "nothing to open"
NewLine    == 0                     \* state.lineIndex < 0, counted from one

\* An identifier is none of these marks and addresses.
ASSUME HistoryAssumption == MayWait \subseteq BOOLEAN /\ Tickets \cap {NoTicket, TicketList, Away, OpenNone} = {}

\* A line as the server gives it: its text tells which line it is.
LineOf(t, n) == [of |-> t, line |-> n, text |-> <<t, n>>, price |-> "stored", total |-> "stored"]

LoadHistory(h, opens) ==
  [h EXCEPT !.loadGeneration = @ + 1, !.status = "loading", !.latest = "loading",
            !.calls = {IF c.kind = "list" THEN [c EXCEPT !.aborted = TRUE] ELSE c : c \in @}
                        \cup {[kind |-> "list", stage |-> "metadata", generation |-> h.loadGeneration + 1,
                               filters |-> h.filters, aborted |-> FALSE, opens |-> opens]}]

\* The ticket, its lines and the form change together.
PopulateTicketEditor(h, t) == [h EXCEPT !.ticket = t, !.editorItems = h.stored[t], !.editor = "saved"]

OpenTicket(h, t, writes) ==
  [h EXCEPT !.view = "tickets", !.screen = "detail", !.editor = "loading",
            !.calls = @ \cup {[kind |-> "open", ticket |-> t, writes |-> writes]}]

ShowHistoryList(h) ==
  LoadHistory([h EXCEPT !.view = "tickets", !.screen = "list", !.ticket = NoTicket,
                        !.editorItems = <<>>, !.route = TicketList], OpenNone)

\* The history has been opened and its first list found.
HistoryInit ==
  \E w \in MayWait, f \in TicketFilters :
    history = [view |-> "tickets", screen |-> "list", route |-> TicketList, filters |-> f, listed |-> f,
               status |-> "found", latest |-> "found", loadGeneration |-> 0, ticket |-> NoTicket, editorItems |-> <<>>,
               editor |-> "idle", stored |-> [t \in Tickets |-> [n \in 1..2 |-> LineOf(t, n)]], existing |-> Tickets,
               selection |-> {}, dialog |-> "none", named |-> {}, ticketId |-> NoTicket, bulkDeleteIds |-> {},
               confirm |-> FALSE, known |-> {}, lineIndex |-> NewLine, text |-> <<NoTicket, NewLine>>, price |-> "stored",
               total |-> "stored", timer |-> FALSE, calculation |-> 0, busy |-> {}, calls |-> {}, acts |-> 0,
               waits |-> w, opened |-> FALSE, unnamed |-> FALSE, unseen |-> FALSE]

--------------------------------------------------------------------------------

OnHistory(h)   == h.view = "tickets" /\ h.dialog = "none"
OnList(h)      == OnHistory(h) /\ h.screen = "list"
OnEditor(h)    == OnHistory(h) /\ h.screen = "detail"
MayGoOn(h)     == h.waits => ~h.timer /\ \A c \in h.calls : c.kind = "list" /\ c.opens = OpenNone

HistoryAct(Guard, h) ==
  /\ Guard /\ history.acts < MaxHistoryActs[history.waits] /\ Cardinality(h.calls) <= MaxHistoryCalls
  /\ history' = [h EXCEPT !.acts = @ + 1]

\* The filters, the pages and the button that clears them: readFilters and the address first.
SyncFilterRoute(f) ==
  HistoryAct(OnList(history) /\ f # history.filters /\ MayGoOn(history),
       LoadHistory([history EXCEPT !.filters = f, !.route = TicketList], OpenNone))

\* A link or the history of the browser: the ticket stays, only its sheet is hidden.
ActivateTicketHistory(route) ==
  HistoryAct(history.dialog = "none" /\ MayGoOn(history),
       LoadHistory([history EXCEPT !.view = "tickets", !.screen = "list", !.route = route],
                   IF route = TicketList THEN OpenNone ELSE route))

LeaveHistory ==
  HistoryAct(OnHistory(history) /\ MayGoOn(history),
       [history EXCEPT !.view = "other", !.route = Away,
                       !.calls = {IF c.kind = "list" THEN [c EXCEPT !.aborted = TRUE] ELSE c : c \in @}])

ClickTicket(t)   == HistoryAct(OnList(history) /\ MayGoOn(history), OpenTicket(history, t, TRUE))
BackToHistory    == HistoryAct(OnEditor(history) /\ MayGoOn(history), ShowHistoryList(history))
CancelEdits      == HistoryAct(OnEditor(history) /\ history.ticket # NoTicket /\ MayGoOn(history),
                               PopulateTicketEditor(history, history.ticket))
SelectTicket(t)  == HistoryAct(OnList(history) /\ t \notin history.selection, [history EXCEPT !.selection = @ \cup {t}])

SaveTicket ==
  HistoryAct(OnEditor(history) /\ history.ticket # NoTicket /\ history.editorItems # <<>> /\ "ticket" \notin history.busy /\ MayGoOn(history),
       [history EXCEPT !.busy = @ \cup {"ticket"}, !.editor = "saving",
                       !.calls = @ \cup {[kind |-> "save", ticket |-> history.ticket, items |-> history.editorItems]}])

DeleteLine ==
  HistoryAct(OnEditor(history) /\ history.editorItems # <<>> /\ MayGoOn(history),
       [history EXCEPT !.editorItems = Tail(@), !.editor = "unsaved"])

\* The dialog is filled; a calculation under way for another line is not superseded.
OpenLineEditor(n) ==
  HistoryAct(OnEditor(history) /\ n \in {NewLine} \cup DOMAIN history.editorItems /\ MayGoOn(history),
       [history EXCEPT !.dialog = "line", !.lineIndex = n,
                       !.text  = IF n = NewLine THEN <<history.ticket, NewLine>> ELSE history.editorItems[n].text,
                       !.price = IF n = NewLine THEN "stored" ELSE history.editorItems[n].price,
                       !.total = IF n = NewLine THEN "stored" ELSE history.editorItems[n].total])

\* Mutant: a keystroke leaves the calculation under way valid.
TypeWithoutAsking(p) ==
  HistoryAct(history.dialog = "line" /\ p # history.price, [history EXCEPT !.price = p, !.timer = TRUE])

\* scheduleLineCalculation: every keystroke supersedes the calculation under way.
TypePrice(p) ==
  HistoryAct(history.dialog = "line" /\ p # history.price, [history EXCEPT !.price = p, !.calculation = @ + 1, !.timer = TRUE])

CalculateLine(h, saves) ==
  [h EXCEPT !.timer = FALSE,
            !.calls = @ \cup {[kind |-> "line", generation |-> h.calculation, price |-> h.price, saves |-> saves, text |-> h.text]}]

\* 120 ms after the last keystroke.
LineTimerFires ==
  /\ history.timer /\ Cardinality(history.calls) <= MaxHistoryCalls
  /\ history' = CalculateLine(history, FALSE)

\* The description is read now, the line it goes to when the total has come.
SaveLine ==
  HistoryAct(history.dialog = "line" /\ "line" \notin history.busy,
       CalculateLine([history EXCEPT !.busy = @ \cup {"line"}, !.calculation = @ + 1], TRUE))

CloseLineDialog == HistoryAct(history.dialog = "line" /\ MayGoOn(history), [history EXCEPT !.dialog = "none"])

AskDeletion(h, doomed, bulk) ==
  [h EXCEPT !.dialog = "delete", !.named = doomed, !.confirm = FALSE, !.known = {}, !.bulkDeleteIds = IF bulk THEN doomed ELSE {},
            !.calls = @ \cup {[kind |-> "impact", of |-> doomed]}]

OpenDeleteDialog(t) ==
  HistoryAct(OnHistory(history) /\ (history.screen = "list" \/ t = history.ticket) /\ MayGoOn(history),
       [AskDeletion(history, {t}, FALSE) EXCEPT !.ticketId = t])

OpenBulkDeleteDialog ==
  HistoryAct(OnList(history) /\ history.selection # {} /\ MayGoOn(history),
       [AskDeletion(history, history.selection, TRUE) EXCEPT !.ticketId = NoTicket])

CloseDeleteDialog == HistoryAct(history.dialog = "delete" /\ MayGoOn(history), [history EXCEPT !.dialog = "none"])

DoomedTickets(h) == IF h.bulkDeleteIds # {} THEN h.bulkDeleteIds ELSE {h.ticketId} \ {NoTicket}

ConfirmDelete ==
  LET doomed == DoomedTickets(history) IN
  HistoryAct(history.dialog = "delete" /\ history.confirm /\ doomed # {},
       [history EXCEPT !.confirm = FALSE, !.unnamed = @ \/ doomed # history.named, !.unseen = @ \/ history.known # doomed,
                       !.calls = @ \cup {[kind |-> "delete", of |-> doomed, bulk |-> history.bulkDeleteIds # {}]}])

--------------------------------------------------------------------------------

Done(c) == [history EXCEPT !.calls = @ \ {c}]

LatestLoad(c) == c.generation = history.loadGeneration

\* A superseded load stops after its metadata; the activation that waits for it goes on.
AfterLoad(h, c) == IF c.opens = OpenNone THEN h ELSE OpenTicket(h, c.opens, FALSE)

HistoryMetadata(c) ==
  /\ c.kind = "list" /\ c.stage = "metadata"
  /\ history' = IF LatestLoad(c) THEN [Done(c) EXCEPT !.calls = @ \cup {[c EXCEPT !.stage = "tickets", !.filters = history.filters]}]
                ELSE AfterLoad(Done(c), c)

HistoryAnswered(c) ==
  /\ c.kind = "list" /\ c.stage = "tickets" /\ ~c.aborted
  /\ history' = AfterLoad(IF LatestLoad(c)
                            THEN [Done(c) EXCEPT !.listed = c.filters, !.status = "found", !.latest = "found"] ELSE Done(c), c)

HistoryFails(c) ==
  /\ c.kind = "list"
  /\ history' = AfterLoad([Done(c) EXCEPT !.status = IF (c.aborted /\ c.stage = "tickets") \/ ~LatestLoad(c) THEN @ ELSE "failed",
                                          !.latest = IF LatestLoad(c) THEN "failed" ELSE @], c)

TicketOpened(c) ==
  /\ c.kind = "open" /\ c.ticket \in history.existing
  /\ history' = [PopulateTicketEditor(Done(c), c.ticket) EXCEPT !.route = IF c.writes THEN c.ticket ELSE @,
                                                                  !.opened = TRUE]

TicketOpenFails(c) == c.kind = "open" /\ history' = [Done(c) EXCEPT !.editor = "error", !.opened = FALSE]

\* The PATCH stores the lines; the answer fills the editor.
TicketSaved(c) ==
  /\ c.kind = "save" /\ c.ticket \in history.existing
  /\ LET h == [Done(c) EXCEPT !.stored[c.ticket] = c.items, !.busy = @ \ {"ticket"}] IN
     history' = LoadHistory(PopulateTicketEditor(h, c.ticket), OpenNone)

TicketSaveFails(c) == c.kind = "save" /\ history' = [Done(c) EXCEPT !.editor = "review", !.busy = @ \ {"ticket"}]

LatestCalculation(c) == c.generation = history.calculation

\* The line of the dialog, as saved: with what was calculated, in the place of the index of now.
LinePut(h, c) ==
  LET at   == IF h.lineIndex \in DOMAIN h.editorItems THEN h.lineIndex ELSE Len(h.editorItems) + 1
      line == IF at \in DOMAIN h.editorItems THEN [h.editorItems[at] EXCEPT !.text = c.text, !.price = c.price, !.total = c.price]
              ELSE [of |-> h.ticket, line |-> NewLine, text |-> c.text, price |-> c.price, total |-> c.price] IN
  [h EXCEPT !.editorItems = IF at \in DOMAIN @ THEN ReplaceAt(@, at, line) ELSE Append(@, line),
            !.dialog = IF @ = "line" THEN "none" ELSE @, !.editor = "unsaved"]

LineCalculated(c) ==
  /\ c.kind = "line"
  /\ LET h == [Done(c) EXCEPT !.busy = IF c.saves THEN @ \ {"line"} ELSE @]
         shown == [h EXCEPT !.total = c.price] IN
     history' = CASE ~LatestCalculation(c) -> h
                  [] LatestCalculation(c) /\ c.saves -> LinePut(shown, c)
                  [] OTHER -> shown

LineFails(c) ==
  /\ c.kind = "line"
  /\ history' = [Done(c) EXCEPT !.busy = IF c.saves THEN @ \ {"line"} ELSE @, !.total = IF LatestCalculation(c) THEN "unknown" ELSE @]

\* Any impact enables the one button.
TicketImpact(c) == c.kind = "impact" /\ history' = [Done(c) EXCEPT !.confirm = TRUE, !.known = c.of]

TicketImpactFails(c) == c.kind = "impact" /\ history' = Done(c)

TicketsDeleted(c) ==
  /\ c.kind = "delete"
  /\ LET h == [Done(c) EXCEPT !.dialog = IF @ = "delete" THEN "none" ELSE @, !.existing = @ \ c.of, !.confirm = TRUE] IN
     history' = CASE c.bulk -> LoadHistory([h EXCEPT !.selection = @ \ c.of, !.bulkDeleteIds = {}], OpenNone)
                  [] ~c.bulk /\ h.ticket \in c.of -> ShowHistoryList(h)
                  [] OTHER -> LoadHistory(h, OpenNone)

DeletionFails(c) == c.kind = "delete" /\ history' = [Done(c) EXCEPT !.confirm = TRUE]

HistoryNext ==
  \/ \E f \in TicketFilters : SyncFilterRoute(f)
  \/ \E r \in Tickets \cup {TicketList} : ActivateTicketHistory(r)
  \/ \E t \in Tickets : ClickTicket(t) \/ SelectTicket(t) \/ OpenDeleteDialog(t)
  \/ \E n \in 0..3 : OpenLineEditor(n)
  \/ \E p \in LinePrices : TypePrice(p)
  \/ LeaveHistory \/ BackToHistory \/ CancelEdits \/ SaveTicket \/ DeleteLine \/ LineTimerFires \/ SaveLine
  \/ CloseLineDialog \/ OpenBulkDeleteDialog \/ CloseDeleteDialog \/ ConfirmDelete
  \/ \E c \in history.calls :
       \/ HistoryMetadata(c) \/ HistoryAnswered(c) \/ HistoryFails(c) \/ TicketOpened(c) \/ TicketOpenFails(c)
       \/ TicketSaved(c) \/ TicketSaveFails(c) \/ LineCalculated(c) \/ LineFails(c) \/ TicketImpact(c)
       \/ TicketImpactFails(c) \/ TicketsDeleted(c) \/ DeletionFails(c)

HistorySpec == HistoryInit /\ [][HistoryNext]_history

--------------------------------------------------------------------------------

HistoryTypeOK ==
  /\ history.view \in {"tickets", "other"} /\ history.screen \in {"list", "detail"}
  /\ history.route \in Tickets \cup {TicketList, Away} /\ {history.filters, history.listed} \subseteq TicketFilters
  /\ history.status \in {"loading", "found", "failed"} /\ history.ticket \in Tickets \cup {NoTicket}
  /\ history.editor \in {"idle", "loading", "saved", "saving", "unsaved", "review", "error"}
  /\ history.selection \cup history.bulkDeleteIds \cup history.named \subseteq Tickets
  /\ history.dialog \in {"none", "line", "delete"} /\ history.busy \subseteq {"ticket", "line"}

\* Whatever the order of the answers, the rows are those of the filters over them.
RowsAreOfTheFilters ==
  /\ history.status = "found" => history.listed = history.filters
  /\ history.status = "failed" => history.latest = "failed"

\* Even a user who never waits deletes only what the dialog named.
DeletesWhatItNamed == ~history.unnamed

\* The total kept with a line is the one calculated for its price, and a ticket stores only
\* totals of that kind (calculateLine keeps the payload with its answer).
TotalsAreOfTheirPrices ==
  \A t \in Tickets : \A i \in DOMAIN history.stored[t] : history.stored[t][i].price = history.stored[t][i].total

\* For a user who waits before leaving a dialog or a sheet, but not between keystrokes: a line
\* keeps its own text in its own ticket, a total at rest is the one of the price shown, a
\* deletion is confirmed with its impact known, and a sheet that says it is saved shows the
\* lines the server had and, unless the last ticket asked for could not be opened, is the
\* ticket of the address, and exists.
EditorIsTrue ==
  history.waits =>
    /\ \A i \in DOMAIN history.editorItems :
         /\ history.editorItems[i].of = history.ticket
         /\ history.editorItems[i].text = <<history.ticket, history.editorItems[i].line>>
    /\ history.dialog = "line" /\ MayGoOn(history) => history.total \in {history.price, "unknown"}
    /\ ~history.unseen
    /\ history.view = "tickets" /\ history.screen = "detail" /\ history.editor = "saved" =>
         /\ history.opened => history.ticket = history.route /\ history.ticket \in history.existing
         /\ history.editorItems = history.stored[history.ticket]

HistorySound == RowsAreOfTheFilters /\ DeletesWhatItNamed /\ TotalsAreOfTheirPrices /\ EditorIsTrue
================================================================================
