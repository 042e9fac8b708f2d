-------------------------- MODULE CollaborativeLists ---------------------------
(***************************************************************************)
(* Devices that show one shopping list each: the page of lists.js, the     *)
(* reads that api.js coalesces, the invalidations of the realtime hub, and *)
(* the writes a user makes on the strength of what the page shows.         *)
(*                                                                         *)
(* ShoppingList models the rows and their versions; here a list is its     *)
(* version and that of one of its items.                                   *)
(***************************************************************************)
EXTENDS Naturals, Sequences

CONSTANTS
  Clients,
  Lists,
  Kinds,        \* of the calls users make: "edit", "toggle", "order"
  SlowAnswers,  \* may a resync begin before an earlier answer of the server is in?
  MaxWrites,    \* bounds on calls and writes of other devices,
  MaxMoves,     \*   on navigation and changes of visibility,
  MaxDrops,     \*   on streams that break,
  MaxFailures   \*   and on reads that fail

ASSUME KindAssumption  == Kinds \subseteq {"edit", "toggle", "order"} /\ SlowAnswers \in BOOLEAN
ASSUME BoundAssumption == {MaxWrites, MaxMoves, MaxDrops, MaxFailures} \subseteq Nat
ASSUME ListAssumption  == Lists # {} /\ {"none", "opened"} \cap Lists = {}

VARIABLES
  server,   \* of each list, its version and the version of its item
  page,     \* what the screen is at: activeListId, #list-detail, the view, document.hidden
  shown,    \* model.list and model.items
  load,     \* the loadActiveList of the latest generation, and what it has read
  get,      \* the read of a list in flight, which every load of the list joins
  stream,   \* the EventSource
  events,   \* invalidations on their way to it
  timer,    \* the list of the event that a resync is scheduled for
  call,     \* the write under way
  form,     \* the edit dialog and the version its fields show
  left      \* how much of each bound is left

vars == <<server, page, shown, load, get, stream, events, timer, call, form, left>>

realtime == <<stream, events, timer>>
reads    == <<load, get>>

ListOrNone == Lists \cup {"none"}
Snapshot   == [version : 0 .. MaxWrites + 1, item : 0 .. MaxWrites + 1]
Nothing    == [version |-> 0, item |-> 0]
NoCall     == [kind |-> "none", list |-> "none", base |-> 0, phase |-> "none", answer |-> Nothing]
NoForm     == [base |-> 0, conflict |-> FALSE]
NoLoad     == [list |-> "none", snap |-> Nothing]
NoRead     == [phase |-> "no", snap |-> Nothing]

TypeOK ==
  /\ server \in [Lists -> Snapshot]
  /\ page \in [Clients -> [active : ListOrNone, detail : BOOLEAN, away : BOOLEAN, hidden : BOOLEAN,
                           opening : {"no", "reading", "ready"}]]
  /\ shown \in [Clients -> [list : ListOrNone, snap : Snapshot]]
  /\ load \in [Clients -> [list : ListOrNone, snap : Snapshot]]
  /\ get \in [Clients -> [Lists -> [phase : {"no", "sent", "answered"}, snap : Snapshot]]]
  /\ stream \in [Clients -> {"off", "connecting", "on"}]
  /\ \A c \in Clients : /\ events[c] \in Seq(Lists \cup {"opened"})
                        /\ Len(events[c]) <= MaxWrites + 1
  /\ timer \in [Clients -> ListOrNone]
  /\ call \in [Clients -> [kind : Kinds \cup {"none"}, list : ListOrNone, base : 0 .. MaxWrites + 1,
                           phase : {"none", "sent", "done", "refused"}, answer : Snapshot]]
  /\ form \in [Clients -> [base : 0 .. MaxWrites + 1, conflict : BOOLEAN]]
  /\ left \in [writes : 0 .. MaxWrites, moves : 0 .. MaxMoves, drops : 0 .. MaxDrops, failures : 0 .. MaxFailures]

Init ==
  /\ server = [l \in Lists |-> [version |-> 1, item |-> 1]]
  /\ page = [c \in Clients |-> [active |-> "none", detail |-> FALSE, away |-> FALSE, hidden |-> FALSE,
                                opening |-> "no"]]
  /\ shown = [c \in Clients |-> NoLoad]
  /\ load = [c \in Clients |-> NoLoad]
  /\ get = [c \in Clients |-> [l \in Lists |-> NoRead]]
  /\ stream = [c \in Clients |-> "off"]
  /\ events = [c \in Clients |-> <<>>]
  /\ timer = [c \in Clients |-> "none"]
  /\ call = [c \in Clients |-> NoCall]
  /\ form = [c \in Clients |-> NoForm]
  /\ left = [writes |-> MaxWrites, moves |-> MaxMoves, drops |-> MaxDrops, failures |-> MaxFailures]

Spend(k) == left[k] > 0 /\ left' = [left EXCEPT ![k] = @ - 1]

--------------------------------------------------------------------------------
(* The server.                                                             *)

\* publishRealtime, in the turn of the commit.
Publish(l) ==
  events' = [c \in Clients |-> IF stream[c] = "on" THEN Append(events[c], l) ELSE events[c]]

Commit(l, onItem) ==
  /\ server' = [server EXCEPT ![l] = [version |-> @.version + 1,
                                      item    |-> IF onItem THEN @.version + 1 ELSE @.item]]
  /\ Publish(l)

\* A write of a device that is not among the clients.
OtherDevice(l, onItem) ==
  /\ Spend("writes")
  /\ Commit(l, onItem)
  /\ UNCHANGED <<page, shown, load, get, stream, timer, call, form>>

--------------------------------------------------------------------------------
(* Reading the active list: loadActiveList over coalesced requests.        *)

\* Mutant: a load under way is not superseded.
KeepLoad(c, l) ==
  /\ load' = [load EXCEPT ![c] = IF @ = NoLoad THEN [list |-> l, snap |-> Nothing] ELSE @]
  /\ get' = IF get[c][l] = NoRead THEN [get EXCEPT ![c][l].phase = "sent"] ELSE get

\* A new generation; a read of the list that is in flight already is joined.
StartLoad(c, l) ==
  /\ load' = [load EXCEPT ![c] = [list |-> l, snap |-> Nothing]]
  /\ get' = IF get[c][l] = NoRead THEN [get EXCEPT ![c][l].phase = "sent"] ELSE get

ServeRead(c, l) ==
  /\ get[c][l].phase = "sent"
  /\ get' = [get EXCEPT ![c][l] = [phase |-> "answered", snap |-> server[l]]]
  /\ UNCHANGED <<server, page, shown, load, stream, events, timer, call, form, left>>

\* The answer is in; estimates and product variants are still awaited.
ReadArrives(c, l) ==
  /\ get[c][l].phase = "answered"
  /\ get' = [get EXCEPT ![c][l] = NoRead]
  /\ load' = [load EXCEPT ![c].snap = IF load[c].list = l THEN get[c][l].snap ELSE @]
  /\ page' = [page EXCEPT ![c].opening = IF @ = "reading" /\ page[c].active = l THEN "ready" ELSE @]
  /\ UNCHANGED <<server, shown, stream, events, timer, call, form, left>>

ShowLoad(c) ==
  /\ load[c].snap # Nothing
  /\ load' = [load EXCEPT ![c] = NoLoad]
  /\ shown' = [shown EXCEPT ![c] = IF page[c].active = load[c].list THEN load[c] ELSE @]
  /\ UNCHANGED <<server, page, get, stream, events, timer, call, form, left>>

ReadFails(c, l) ==
  /\ get[c][l] # NoRead
  /\ Spend("failures")
  /\ get' = [get EXCEPT ![c][l] = NoRead]
  /\ load' = [load EXCEPT ![c] = IF @.list = l THEN NoLoad ELSE @]
  /\ page' = [page EXCEPT ![c].opening = IF @ = "reading" /\ page[c].active = l THEN "no" ELSE @]
  /\ UNCHANGED <<server, shown, stream, events, timer, call, form>>

--------------------------------------------------------------------------------
(* The stream: connectRealtime, scheduleRealtimeResync, the hub.           *)

\* Mutant: a hidden document connects as well.
DetailOpen(p) == p.detail

Connectable(p) == p.detail /\ ~p.hidden

Reset(c, s) ==
  /\ stream' = [stream EXCEPT ![c] = s]
  /\ events' = [events EXCEPT ![c] = <<>>]
  /\ timer' = [timer EXCEPT ![c] = "none"]

StopRealtime(c) == Reset(c, "off")

\* p is the page at that moment.
ConnectRealtime(c, p) == Reset(c, IF Connectable(p) THEN "connecting" ELSE "off")

\* Mutant: the server has nothing to say to a client that connects.
Silence == <<>>

\* The first a source hears is that it is open.
Greeting == <<"opened">>

Subscribe(c) ==
  /\ stream[c] = "connecting"
  /\ stream' = [stream EXCEPT ![c] = "on"]
  /\ events' = [events EXCEPT ![c] = Greeting]
  /\ UNCHANGED <<server, page, shown, load, get, timer, call, form, left>>

\* EventSource connects again by itself; what was on its way is lost.
StreamDrops(c) ==
  /\ stream[c] = "on"
  /\ Spend("drops")
  /\ stream' = [stream EXCEPT ![c] = "connecting"]
  /\ events' = [events EXCEPT ![c] = <<>>]
  /\ UNCHANGED <<server, page, shown, load, get, timer, call, form>>

\* Each event starts the timer anew, and the timer remembers the last one only.
Deliver(c) ==
  /\ events[c] # <<>>
  /\ timer' = [timer EXCEPT ![c] = IF Head(events[c]) = "opened" THEN page[c].active ELSE Head(events[c])]
  /\ events' = [events EXCEPT ![c] = Tail(@)]
  /\ UNCHANGED <<server, page, shown, load, get, stream, call, form, left>>

\* An answer has been on its way for longer than an event and REALTIME_COALESCE_MS.
Overdue(c) == get[c][page[c].active].phase = "answered" \/ call[c].phase \in {"done", "refused"}

ResyncFires(c) ==
  /\ timer[c] # "none"
  /\ SlowAnswers \/ ~Overdue(c)
  /\ timer' = [timer EXCEPT ![c] = "none"]
  /\ IF timer[c] = page[c].active THEN StartLoad(c, timer[c]) ELSE UNCHANGED reads
  /\ UNCHANGED <<server, page, shown, stream, events, call, form, left>>

--------------------------------------------------------------------------------
(* The page. A dialog is modal: with the edit form open nobody navigates.  *)

OpenList(c, l) ==
  /\ page' = [page EXCEPT ![c] = [@ EXCEPT !.active = l, !.detail = TRUE, !.away = FALSE, !.opening = "reading"]]
  /\ StartLoad(c, l)

Navigates(c) == ~page[c].hidden /\ form[c] = NoForm /\ Spend("moves")

Open(c, l) ==
  /\ ~page[c].detail /\ ~page[c].away /\ page[c].opening = "no"
  /\ Navigates(c)
  /\ OpenList(c, l)
  /\ UNCHANGED <<server, shown, stream, events, timer, call, form>>

\* The read of openList is done; its connectRealtime comes last.
OpenDone(c) ==
  LET p == [page[c] EXCEPT !.opening = "no"] IN
  /\ page[c].opening = "ready" /\ load[c].snap = Nothing
  /\ page' = [page EXCEPT ![c] = p]
  /\ ConnectRealtime(c, p)
  /\ UNCHANGED <<server, shown, load, get, call, form, left>>

\* Back to the overview, from the detail or from another view.
ShowOverview(c) ==
  /\ page[c].detail \/ page[c].away
  /\ Navigates(c)
  /\ page' = [page EXCEPT ![c] = [@ EXCEPT !.detail = FALSE, !.away = FALSE]]
  /\ StopRealtime(c)
  /\ UNCHANGED <<server, shown, load, get, call, form>>

\* basketra:view-changed to another view.
Leave(c) ==
  /\ ~page[c].away
  /\ Navigates(c)
  /\ page' = [page EXCEPT ![c].away = TRUE]
  /\ StopRealtime(c)
  /\ UNCHANGED <<server, shown, load, get, call, form>>

\* basketra:view-changed to a list. One that is shown already is left as it is.
Return(c, l) ==
  /\ page[c].away
  /\ Navigates(c)
  /\ \/ /\ shown[c].list = l /\ page[c].detail
        /\ page' = [page EXCEPT ![c].away = FALSE]
        /\ UNCHANGED reads
     \/ /\ ~(shown[c].list = l /\ page[c].detail) /\ page[c].opening = "no"
        /\ OpenList(c, l)
  /\ UNCHANGED <<server, shown, stream, events, timer, call, form>>

Hide(c) ==
  /\ ~page[c].hidden
  /\ Spend("moves")
  /\ page' = [page EXCEPT ![c].hidden = TRUE]
  /\ StopRealtime(c)
  /\ UNCHANGED <<server, shown, load, get, call, form>>

Show(c) ==
  /\ page[c].hidden
  /\ page' = [page EXCEPT ![c].hidden = FALSE]
  /\ IF shown[c].list # "none" /\ page[c].detail
     THEN /\ stream' = [stream EXCEPT ![c] = "connecting"]
          /\ events' = [events EXCEPT ![c] = <<>>]
          /\ timer' = [timer EXCEPT ![c] = shown[c].list]
     ELSE UNCHANGED realtime
  /\ UNCHANGED <<server, shown, load, get, call, form, left>>

--------------------------------------------------------------------------------
(* Writes.                                                                 *)

Busy(c) == call[c] # NoCall

\* The user sees the items of a list, and no dialog.
AtItems(c) ==
  page[c].detail /\ ~page[c].away /\ ~page[c].hidden /\ shown[c].list # "none" /\ form[c] = NoForm

Send(c, kind, base) ==
  /\ ~Busy(c) /\ ~page[c].hidden /\ kind \in Kinds
  /\ Spend("writes")
  /\ call' = [call EXCEPT ![c] = [kind |-> kind, list |-> shown[c].list, base |-> base,
                                  phase |-> "sent", answer |-> Nothing]]
  /\ UNCHANGED <<server, page, shown, load, get, stream, events, timer>>

Toggle(c)  == AtItems(c) /\ Send(c, "toggle", shown[c].snap.item) /\ UNCHANGED form
Reorder(c) == AtItems(c) /\ Send(c, "order", shown[c].snap.version) /\ UNCHANGED form

BeginEdit(c) ==
  /\ AtItems(c) /\ ~Busy(c) /\ "edit" \in Kinds
  /\ form' = [form EXCEPT ![c] = [base |-> shown[c].snap.item, conflict |-> FALSE]]
  /\ UNCHANGED <<server, page, shown, load, get, stream, events, timer, call, left>>

CancelEdit(c) ==
  /\ form[c] # NoForm /\ ~form[c].conflict /\ ~Busy(c) /\ ~page[c].hidden
  /\ form' = [form EXCEPT ![c] = NoForm]
  /\ UNCHANGED <<server, page, shown, load, get, stream, events, timer, call, left>>

\* submitItemForm: the version comes from the items as they are shown by now.
SubmitEdit(c) ==
  /\ form[c] # NoForm /\ ~form[c].conflict
  /\ Send(c, "edit", shown[c].snap.item)
  /\ UNCHANGED form

\* "Use mine" sends the version of the item that came with the conflict.
UseMyConflict(c) ==
  /\ form[c].conflict
  /\ Send(c, "edit", form[c].base)
  /\ UNCHANGED form

UseLatestConflict(c) ==
  /\ form[c].conflict /\ ~Busy(c) /\ ~page[c].hidden
  /\ form' = [form EXCEPT ![c] = NoForm]
  /\ StartLoad(c, page[c].active)
  /\ UNCHANGED <<server, page, shown, stream, events, timer, call, left>>

Accepted(c) ==
  call[c].base = IF call[c].kind = "order" THEN server[call[c].list].version ELSE server[call[c].list].item

ServeCall(c) ==
  LET l == call[c].list IN
  /\ call[c].phase = "sent"
  /\ IF Accepted(c) THEN Commit(l, call[c].kind # "order") ELSE UNCHANGED <<server, events>>
  /\ call' = [call EXCEPT ![c].phase = IF Accepted(c) THEN "done" ELSE "refused", ![c].answer = server'[l]]
  /\ UNCHANGED <<page, shown, load, get, stream, timer, form, left>>

\* The order that comes back is shown at once; an edit that was refused is put before the
\* user; anything else reads the active list again.
CallAnswered(c) ==
  LET a == call[c] IN
  /\ a.phase \in {"done", "refused"}
  /\ call' = [call EXCEPT ![c] = NoCall]
  /\ \/ /\ a.kind = "order" /\ a.phase = "done"
        /\ shown' = [shown EXCEPT ![c] = [list |-> a.list, snap |-> a.answer]]
        /\ UNCHANGED <<form, load, get>>
     \/ /\ a.kind = "edit" /\ a.phase = "refused"
        /\ form' = [form EXCEPT ![c] = [base |-> a.answer.item, conflict |-> TRUE]]
        /\ UNCHANGED <<shown, load, get>>
     \/ /\ a.kind = "toggle" \/ (a.kind = "edit" /\ a.phase = "done") \/ (a.kind = "order" /\ a.phase = "refused")
        /\ form' = [form EXCEPT ![c] = IF a.kind = "edit" THEN NoForm ELSE @]
        /\ StartLoad(c, page[c].active)
        /\ UNCHANGED shown
  /\ UNCHANGED <<server, page, stream, events, timer, left>>

--------------------------------------------------------------------------------

\* What happens by itself: the network, the server and the callbacks of the page.
Proceeds(c) ==
  \/ \E l \in Lists : ServeRead(c, l) \/ ReadArrives(c, l)
  \/ ShowLoad(c) \/ OpenDone(c) \/ Subscribe(c) \/ Deliver(c) \/ ResyncFires(c)
  \/ ServeCall(c) \/ CallAnswered(c)

User(c) ==
  \/ \E l \in Lists : Open(c, l) \/ Return(c, l)
  \/ ShowOverview(c) \/ Leave(c) \/ Hide(c) \/ Show(c)
  \/ Toggle(c) \/ Reorder(c) \/ BeginEdit(c) \/ CancelEdit(c) \/ SubmitEdit(c)
  \/ UseMyConflict(c) \/ UseLatestConflict(c)

Next ==
  \/ \E l \in Lists, onItem \in BOOLEAN : OtherDevice(l, onItem)
  \/ \E c \in Clients :
       \/ Proceeds(c) \/ User(c) \/ StreamDrops(c)
       \/ \E l \in Lists : ReadFails(c, l)

Spec     == Init /\ [][Next]_vars
FairSpec == Spec /\ \A c \in Clients : WF_vars(Proceeds(c))

--------------------------------------------------------------------------------

Stale(c) == shown[c] # [list |-> page[c].active, snap |-> server[page[c].active]]

\* A load that has yet to be answered, or that will show the list as it is.
WillCatchUp(c) ==
  /\ load[c].list = page[c].active
  /\ \/ load[c].snap = server[load[c].list]
     \/ load[c].snap = Nothing /\ \/ get[c][load[c].list].phase = "sent"
                                  \/ get[c][load[c].list].snap = server[load[c].list]

\* A connected page that shows an old state of its list is about to hear of it, or is
\* reading the list: nothing else would ever bring it up to date.
StalePageWillResync ==
  \A c \in Clients :
    stream[c] # "off" /\ Stale(c) =>
      stream[c] = "connecting" \/ events[c] # <<>> \/ timer[c] # "none" \/ WillCatchUp(c)

\* spec.md, realtime: connected pages converge on the stored state of the list they show.
PagesConverge == \A c \in Clients : []<>(stream[c] = "off" \/ ~Stale(c))

\* "hiding the document suspends the stream", and with it every resync.
HiddenPageIsSilent == \A c \in Clients : page[c].hidden => stream[c] = "off" /\ timer[c] = "none"

\* The pages are in states the screen can be in, and only those in sight listen.
PagesWellFormed == TypeOK /\ HiddenPageIsSilent

\* Once a page has opened a list and reads no more, it shows that list and no other, unless
\* a read has failed, which the page says.
ShownListIsActive ==
  left.failures = MaxFailures =>
    \A c \in Clients :
      page[c].detail /\ page[c].opening = "no" /\ load[c] = NoLoad => shown[c].list \in {page[c].active, "none"}

\* "Explicit edits send the version on which the action was based."
EditReplacesWhatItShowed ==
  [][\A c \in Clients :
       form[c] # NoForm /\ call[c].phase = "sent" /\ call'[c].phase = "done"
         => server[call[c].list].item = form[c].base]_vars

\* A visible list keeps its stream: clients that can be seen are told of changes.
VisibleListIsConnected ==
  \A c \in Clients :
    page[c].detail /\ ~page[c].away /\ ~page[c].hidden /\ page[c].opening = "no" /\ shown[c].list # "none"
      => stream[c] # "off"

\* "The browser closes the stream when ... the user leaves the Lists area."
NoStreamAway == \A c \in Clients : page[c].away => stream[c] = "off"
================================================================================
