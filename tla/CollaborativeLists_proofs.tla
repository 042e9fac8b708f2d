----------------------- MODULE CollaborativeLists_proofs -----------------------
(***************************************************************************)
(* Theorems about the devices that show shopping lists, for any number of  *)
(* devices, writes and moves: what a page is at, that it shows the list it *)
(* has opened, and that a page which shows an old state hears of it.       *)
(***************************************************************************)
EXTENDS CollaborativeLists, FiniteSetTheorems, TLAPS

Messages == Seq(Lists \cup {"opened"})
PageRow  == [active : ListOrNone, detail : BOOLEAN, away : BOOLEAN, hidden : BOOLEAN,
             opening : {"no", "reading", "ready"}]
LoadRow  == [list : ListOrNone, snap : Snapshot]
ReadRow  == [phase : {"no", "sent", "answered"}, snap : Snapshot]
CallRow  == [kind : Kinds \cup {"none"}, list : ListOrNone, base : 0 .. MaxWrites + 1,
             phase : {"none", "sent", "done", "refused"}, answer : Snapshot]
FormRow  == [base : 0 .. MaxWrites + 1, conflict : BOOLEAN]
LeftRow  == [writes : 0 .. MaxWrites, moves : 0 .. MaxMoves, drops : 0 .. MaxDrops, failures : 0 .. MaxFailures]

\* The rows of the devices and of the server.
Typed ==
  /\ server \in [Lists -> Snapshot] /\ left \in LeftRow
  /\ page \in [Clients -> PageRow] /\ shown \in [Clients -> LoadRow] /\ load \in [Clients -> LoadRow]
  /\ get \in [Clients -> [Lists -> ReadRow]]
  /\ stream \in [Clients -> {"off", "connecting", "on"}] /\ events \in [Clients -> Messages]
  /\ timer \in [Clients -> ListOrNone] /\ call \in [Clients -> CallRow] /\ form \in [Clients -> FormRow]

\* Every version there is comes from a write that was spent and has reached the server.
Sent == {c \in Clients : call[c].phase = "sent"}
Committed == MaxWrites + 1 - left.writes - Cardinality(Sent)

Bounded ==
  /\ IsFiniteSet(Sent) /\ left.writes + Cardinality(Sent) <= MaxWrites
  /\ \A l \in Lists : server[l].version \in 1 .. Committed /\ server[l].item \in 1 .. server[l].version
  /\ \A c \in Clients : Len(events[c]) <= Committed

\* A hidden page is silent; only a stream that is open has messages; what is loaded is the
\* list the page is at; a dialog and a write are about a list that is shown; and a page that
\* has not opened a list yet does nothing else either.
Consistent(c) ==
  /\ page[c].hidden => stream[c] = "off" /\ timer[c] = "none"
  /\ stream[c] # "on" => events[c] = <<>>
  /\ load[c].list \in {page[c].active, "none"}
  /\ load[c].list = "none" => load[c].snap = Nothing
  /\ form[c] # NoForm \/ call[c] # NoCall => shown[c].list # "none"
  /\ call[c] # NoCall => call[c].list # "none"
  /\ page[c].active = "none" =>
       /\ ~page[c].detail /\ page[c].opening = "no" /\ stream[c] = "off" /\ timer[c] = "none"
       /\ shown[c].list = "none" /\ call[c] = NoCall /\ form[c] = NoForm

Base == Typed /\ Bounded /\ \A c \in Clients : Consistent(c)

--------------------------------------------------------------------------------
(* Steps that concern one device.                                          *)

Same(d) ==
  /\ page'[d] = page[d] /\ shown'[d] = shown[d] /\ load'[d] = load[d] /\ get'[d] = get[d]
  /\ stream'[d] = stream[d] /\ events'[d] = events[d] /\ timer'[d] = timer[d]
  /\ call'[d] = call[d] /\ form'[d] = form[d]

Others(c) == \A d \in Clients \ {c} : Same(d)

\* What is left to show of such a step is what concerns that device.
LEMMA ClientStep ==
  ASSUME Base, NEW c \in Clients, Typed', server' = server, left'.writes = left.writes, Others(c),
         Consistent(c)', call'[c].phase = "sent" <=> call[c].phase = "sent",
         Len(events'[c]) <= Len(events[c]) \/ Len(events'[c]) <= 1
  PROVE  Base'
<1>1. \A d \in Clients \ {c} : Consistent(d)'
  BY DEF Base, Others, Same, Consistent
<1>2. Sent' = Sent
  BY DEF Others, Same, Sent
<1>3. Committed' = Committed
  BY <1>2 DEF Committed
<1>4. Committed \in Nat /\ Committed >= 1
  <2>1. left.writes \in Nat /\ Cardinality(Sent) \in Nat /\ MaxWrites \in Nat
    BY BoundAssumption, FS_CardinalityType DEF Base, Bounded, Typed, LeftRow
  <2> QED
    BY <2>1 DEF Base, Bounded, Committed
<1>5. \A d \in Clients : Len(events[d]) \in Nat /\ Len(events'[d]) \in Nat
  BY DEF Base, Typed, Messages
<1>6. \A d \in Clients : Len(events'[d]) <= Committed
  BY <1>4, <1>5 DEF Base, Bounded, Others, Same
<1>7. Bounded'
  BY <1>2, <1>3, <1>6 DEF Base, Bounded
<1> QED
  BY <1>1, <1>7 DEF Base

\* Spending one of a bound leaves the others.
LEMMA Spent ==
  ASSUME left \in LeftRow, NEW k \in {"writes", "moves", "drops", "failures"}, Spend(k)
  PROVE  /\ left' \in LeftRow /\ left[k] > 0 /\ left'[k] = left[k] - 1
         /\ \A j \in {"writes", "moves", "drops", "failures"} \ {k} : left'[j] = left[j]
<1>1. left' = [left EXCEPT ![k] = @ - 1] /\ left[k] > 0
  BY DEF Spend
<1>2. MaxWrites \in Nat /\ MaxMoves \in Nat /\ MaxDrops \in Nat /\ MaxFailures \in Nat
  BY BoundAssumption
<1> QED
  BY <1>1, <1>2 DEF LeftRow

\* What a device has is of its type.
LEMMA ClientRows ==
  ASSUME Typed, NEW c \in Clients
  PROVE  /\ page[c] \in PageRow /\ shown[c] \in LoadRow /\ load[c] \in LoadRow
         /\ get[c] \in [Lists -> ReadRow] /\ events[c] \in Messages /\ call[c] \in CallRow
         /\ form[c] \in FormRow /\ timer[c] \in ListOrNone /\ stream[c] \in {"off", "connecting", "on"}
         /\ <<>> \in Messages /\ <<"opened">> \in Messages /\ Len(<<>>) = 0 /\ Len(<<"opened">>) = 1
         /\ Nothing \in Snapshot /\ NoLoad \in LoadRow /\ NoRead \in ReadRow /\ NoCall \in CallRow /\ NoForm \in FormRow
<1>1. Nothing \in Snapshot
  BY BoundAssumption DEF Nothing, Snapshot
<1>2. <<>> \in Messages /\ <<"opened">> \in Messages /\ Len(<<>>) = 0 /\ Len(<<"opened">>) = 1
  BY DEF Messages
<1>3. NoLoad \in LoadRow /\ NoRead \in ReadRow
  BY <1>1 DEF NoLoad, NoRead, LoadRow, ReadRow, ListOrNone
<1>4. NoCall \in CallRow /\ NoForm \in FormRow
  BY <1>1, BoundAssumption DEF NoCall, NoForm, CallRow, FormRow, ListOrNone
<1> QED
  BY <1>1, <1>2, <1>3, <1>4 DEF Typed

\* The server has a version of every list, and it is one of the versions there may be.
LEMMA ServerRows ==
  ASSUME Base, NEW l \in Lists
  PROVE  server[l] \in Snapshot /\ server[l].version \in Nat /\ server[l].version >= 1 /\ server[l] # Nothing
<1>1. server[l] \in Snapshot /\ server[l].version >= 1
  BY DEF Base, Typed, Bounded
<1> QED
  BY <1>1, BoundAssumption DEF Snapshot, Nothing

\* The stream of one device starts anew or stops.
LEMMA ResetRows ==
  ASSUME Typed, NEW c \in Clients, NEW s \in {"off", "connecting"}, Reset(c, s)
  PROVE  /\ stream' \in [Clients -> {"off", "connecting", "on"}] /\ events' \in [Clients -> Messages]
         /\ timer' \in [Clients -> ListOrNone]
         /\ stream'[c] = s /\ events'[c] = <<>> /\ timer'[c] = "none"
         /\ \A d \in Clients \ {c} : stream'[d] = stream[d] /\ events'[d] = events[d] /\ timer'[d] = timer[d]
<1>1. /\ stream' = [stream EXCEPT ![c] = s] /\ events' = [events EXCEPT ![c] = <<>>]
      /\ timer' = [timer EXCEPT ![c] = "none"]
  BY DEF Reset
<1>2. <<>> \in Messages /\ "none" \in ListOrNone
  BY ClientRows DEF ListOrNone
<1> QED
  BY <1>1, <1>2 DEF Typed

\* A load starts, over the read in flight or a new one.
LEMMA StartRows ==
  ASSUME Typed, NEW c \in Clients, NEW l \in Lists, StartLoad(c, l)
  PROVE  /\ load' \in [Clients -> LoadRow] /\ get' \in [Clients -> [Lists -> ReadRow]]
         /\ load'[c] = [list |-> l, snap |-> Nothing]
         /\ get'[c][l] = IF get[c][l] = NoRead THEN [NoRead EXCEPT !.phase = "sent"] ELSE get[c][l]
         /\ \A m \in Lists \ {l} : get'[c][m] = get[c][m]
         /\ \A d \in Clients \ {c} : load'[d] = load[d] /\ get'[d] = get[d]
<1>1. load' = [load EXCEPT ![c] = [list |-> l, snap |-> Nothing]]
      /\ get' = IF get[c][l] = NoRead THEN [get EXCEPT ![c][l].phase = "sent"] ELSE get
  BY DEF StartLoad
<1>2. [list |-> l, snap |-> Nothing] \in LoadRow
  BY ClientRows DEF LoadRow, ListOrNone
<1>3. load' \in [Clients -> LoadRow] /\ load'[c] = [list |-> l, snap |-> Nothing]
      /\ \A d \in Clients \ {c} : load'[d] = load[d]
  BY <1>1, <1>2 DEF Typed
<1>4. CASE get[c][l] # NoRead
  BY <1>1, <1>3, <1>4 DEF Typed
<1>5. CASE get[c][l] = NoRead
  <2>1. [NoRead EXCEPT !.phase = "sent"] \in ReadRow
    BY ClientRows DEF ReadRow
  <2>2. get' = [get EXCEPT ![c] = [get[c] EXCEPT ![l] = [NoRead EXCEPT !.phase = "sent"]]]
    BY <1>1, <1>5 DEF Typed
  <2>3. [get[c] EXCEPT ![l] = [NoRead EXCEPT !.phase = "sent"]] \in [Lists -> ReadRow]
    BY <2>1, ClientRows
  <2> QED
    BY <1>3, <1>5, <2>2, <2>3 DEF Typed
<1> QED
  BY <1>4, <1>5

--------------------------------------------------------------------------------
(* The page stops listening, or starts anew: hide, leave, the overview,    *)
(* and the end of openList.                                                *)

\* Such a step, for whatever page it leaves behind.
LEMMA PageStep ==
  ASSUME Base, NEW c \in Clients, UNCHANGED <<server, shown, load, get, call, form>>,
         left' \in LeftRow, left'.writes = left.writes,
         NEW p \in PageRow, page' = [page EXCEPT ![c] = p], p.active = page[c].active,
         p.active = "none" => ~p.detail /\ p.opening = "no",
         NEW s \in {"off", "connecting"}, Reset(c, s), s = "connecting" => p.active # "none" /\ ~p.hidden
  PROVE  Base'
<1>1. Typed'
  BY ResetRows DEF Base, Typed
<1>2. Others(c) /\ page'[c] = p /\ stream'[c] = s /\ timer'[c] = "none" /\ events'[c] = <<>>
  BY ResetRows DEF Base, Typed, Others, Same
<1>3. Consistent(c)'
  BY <1>2 DEF Base, Consistent
<1>4. server' = server /\ (call'[c].phase = "sent" <=> call[c].phase = "sent") /\ Len(events'[c]) <= 1
  BY <1>2
<1> QED
  BY <1>1, <1>2, <1>3, <1>4, ClientStep

\* The four handlers that end so.
LEMMA PageKeeps ==
  ASSUME Base, NEW c \in Clients, ShowOverview(c) \/ Leave(c) \/ Hide(c) \/ OpenDone(c)
  PROVE  Base'
<1>0. page[c] \in PageRow /\ left \in LeftRow /\ Consistent(c)
  BY ClientRows DEF Base, Typed
<1>1. ASSUME Spend("moves") PROVE left' \in LeftRow /\ left'.writes = left.writes
  BY <1>0, <1>1, Spent
<1>2. CASE ShowOverview(c)
  <2> DEFINE p == [page[c] EXCEPT !.detail = FALSE, !.away = FALSE]
  <2>1. p \in PageRow /\ p.active = page[c].active /\ ~p.detail /\ p.opening = page[c].opening
    BY <1>0 DEF PageRow
  <2>2. /\ page' = [page EXCEPT ![c] = p] /\ Spend("moves") /\ Reset(c, "off")
        /\ UNCHANGED <<server, shown, load, get, call, form>>
    BY <1>2 DEF ShowOverview, Navigates, StopRealtime
  <2> HIDE DEF p
  <2> QED
    BY <1>0, <1>1, <2>1, <2>2, PageStep DEF Consistent
<1>3. CASE Leave(c)
  <2> DEFINE p == [page[c] EXCEPT !.away = TRUE]
  <2>1. p \in PageRow /\ p.active = page[c].active /\ p.detail = page[c].detail /\ p.opening = page[c].opening
    BY <1>0 DEF PageRow
  <2>2. /\ page' = [page EXCEPT ![c] = p] /\ Spend("moves") /\ Reset(c, "off")
        /\ UNCHANGED <<server, shown, load, get, call, form>>
    BY <1>3 DEF Leave, Navigates, StopRealtime
  <2> HIDE DEF p
  <2> QED
    BY <1>0, <1>1, <2>1, <2>2, PageStep DEF Consistent
<1>4. CASE Hide(c)
  <2> DEFINE p == [page[c] EXCEPT !.hidden = TRUE]
  <2>1. p \in PageRow /\ p.active = page[c].active /\ p.detail = page[c].detail /\ p.opening = page[c].opening
    BY <1>0 DEF PageRow
  <2>2. /\ page' = [page EXCEPT ![c] = p] /\ Spend("moves") /\ Reset(c, "off")
        /\ UNCHANGED <<server, shown, load, get, call, form>>
    BY <1>4 DEF Hide, StopRealtime
  <2> HIDE DEF p
  <2> QED
    BY <1>0, <1>1, <2>1, <2>2, PageStep DEF Consistent
<1>5. CASE OpenDone(c)
  <2> DEFINE p == [page[c] EXCEPT !.opening = "no"]
             s == IF Connectable(p) THEN "connecting" ELSE "off"
  <2>1. p \in PageRow /\ p.active = page[c].active /\ p.detail = page[c].detail /\ p.opening = "no" /\ p.hidden = page[c].hidden
    BY <1>0 DEF PageRow
  <2>2. /\ page' = [page EXCEPT ![c] = p] /\ page[c].opening = "ready" /\ Reset(c, s)
        /\ UNCHANGED <<server, shown, load, get, call, form, left>>
    BY <1>5 DEF OpenDone, ConnectRealtime
  <2>3. p.active # "none" /\ s \in {"off", "connecting"} /\ (s = "connecting" => ~p.hidden)
    BY <1>0, <2>1, <2>2 DEF Consistent, Connectable
  <2> HIDE DEF p, s
  <2>4. left' \in LeftRow /\ left'.writes = left.writes
    BY <1>0, <2>2
  <2> QED
    BY <2>1, <2>2, <2>3, <2>4, PageStep
<1> QED
  BY <1>2, <1>3, <1>4, <1>5

--------------------------------------------------------------------------------
(* Reading a list.                                                         *)

\* What a step that only reads and shows may do to a device.
Reads(c) ==
  /\ page' \in [Clients -> PageRow] /\ shown' \in [Clients -> LoadRow] /\ load' \in [Clients -> LoadRow]
  /\ get' \in [Clients -> [Lists -> ReadRow]]
  /\ \A d \in Clients \ {c} : page'[d] = page[d] /\ shown'[d] = shown[d] /\ load'[d] = load[d] /\ get'[d] = get[d]

\* A step that changes what a device reads and shows, and where its page is at.
LEMMA ReadStep ==
  ASSUME Base, NEW c \in Clients, UNCHANGED <<server, stream, events, timer, call, form>>,
         left' \in LeftRow, left'.writes = left.writes, Reads(c),
         page'[c].hidden = page[c].hidden, page'[c].active = page[c].active \/ page'[c].active # "none",
         page'[c].active = "none" => ~page'[c].detail /\ page'[c].opening = "no" /\ shown'[c].list = "none",
         load'[c].list \in {page'[c].active, "none"}, load'[c].list = "none" => load'[c].snap = Nothing,
         shown'[c].list = "none" => shown[c].list = "none"
  PROVE  Base'
<1>1. Typed'
  BY DEF Base, Typed, Reads
<1>2. Others(c)
  BY DEF Others, Same, Reads
<1>3. Consistent(c)'
  BY DEF Base, Consistent
<1>4. Len(events'[c]) <= Len(events[c])
  BY DEF Base, Typed, Messages
<1> QED
  BY <1>1, <1>2, <1>3, <1>4, ClientStep

\* The server answers a read.
LEMMA ServeReadKeeps ==
  ASSUME Base, NEW c \in Clients, NEW l \in Lists, ServeRead(c, l)
  PROVE  Base'
<1>0. /\ page[c] \in PageRow /\ shown[c] \in LoadRow /\ load[c] \in LoadRow /\ left \in LeftRow
      /\ get[c] \in [Lists -> ReadRow] /\ Consistent(c)
  BY ClientRows DEF Base, Typed
<1> DEFINE r == [phase |-> "answered", snap |-> server[l]]
<1>1. r \in ReadRow
  BY ServerRows DEF ReadRow
<1>2. get' = [get EXCEPT ![c] = [get[c] EXCEPT ![l] = r]] /\ UNCHANGED <<server, page, shown, load, stream, events, timer, call, form, left>>
  BY DEF ServeRead, Base, Typed
<1> HIDE DEF r
<1>3. get' \in [Clients -> [Lists -> ReadRow]] /\ \A d \in Clients \ {c} : get'[d] = get[d]
  BY <1>0, <1>1, <1>2 DEF Base, Typed
<1>4. Reads(c)
  BY <1>2, <1>3 DEF Reads, Base, Typed
<1>5. left' = left /\ page' = page /\ shown' = shown /\ load' = load
  BY <1>2
<1> QED
  BY <1>0, <1>2, <1>4, <1>5, ReadStep DEF Consistent

\* A read of a list ends, with an answer or without.
LEMMA ReadEnds ==
  ASSUME Base, NEW c \in Clients, NEW l \in Lists, get' = [get EXCEPT ![c][l] = NoRead]
  PROVE  get' \in [Clients -> [Lists -> ReadRow]] /\ (\A d \in Clients \ {c} : get'[d] = get[d])
         /\ get'[c] = [get[c] EXCEPT ![l] = NoRead]
<1>1. get[c] \in [Lists -> ReadRow] /\ NoRead \in ReadRow
  BY ClientRows DEF Base
<1>2. get' = [get EXCEPT ![c] = [get[c] EXCEPT ![l] = NoRead]]
  BY DEF Base, Typed
<1>3. [get[c] EXCEPT ![l] = NoRead] \in [Lists -> ReadRow]
  BY <1>1
<1> QED
  BY <1>2, <1>3 DEF Base, Typed

\* The answer of a read reaches the page.
LEMMA ReadArrivesKeeps ==
  ASSUME Base, NEW c \in Clients, NEW l \in Lists, ReadArrives(c, l)
  PROVE  Base'
<1>0. /\ page[c] \in PageRow /\ shown[c] \in LoadRow /\ load[c] \in LoadRow /\ left \in LeftRow
      /\ get[c] \in [Lists -> ReadRow] /\ Consistent(c) /\ l # "none"
  BY ClientRows, ListAssumption DEF Base, Typed
<1> DEFINE ld == [load[c] EXCEPT !.snap = IF load[c].list = l THEN get[c][l].snap ELSE load[c].snap]
           p  == [page[c] EXCEPT !.opening = IF page[c].opening = "reading" /\ page[c].active = l THEN "ready" ELSE page[c].opening]
<1>1. ld \in LoadRow /\ ld.list = load[c].list /\ (ld.list = "none" => ld.snap = load[c].snap)
  BY <1>0 DEF LoadRow, ReadRow
<1>2. p \in PageRow /\ p.active = page[c].active /\ p.detail = page[c].detail /\ p.hidden = page[c].hidden
      /\ (p.opening = page[c].opening \/ page[c].active = l)
  BY <1>0 DEF PageRow
<1>3. /\ get' = [get EXCEPT ![c][l] = NoRead] /\ load' = [load EXCEPT ![c] = ld] /\ page' = [page EXCEPT ![c] = p]
      /\ UNCHANGED <<server, shown, stream, events, timer, call, form, left>>
  BY DEF ReadArrives, Base, Typed
<1> HIDE DEF ld, p
<1>4. left' = left /\ shown' = shown
  BY <1>3
<1>5. ld.list \in {p.active, "none"} /\ (ld.list = "none" => ld.snap = Nothing)
      /\ (p.active = "none" => ~p.detail /\ p.opening = "no" /\ shown[c].list = "none")
  BY <1>0, <1>1, <1>2 DEF Consistent
<1>6. get' \in [Clients -> [Lists -> ReadRow]] /\ \A d \in Clients \ {c} : get'[d] = get[d]
  BY <1>2, <1>3, ReadEnds
<1>7. Reads(c) /\ page'[c] = p /\ shown'[c] = shown[c] /\ load'[c] = ld
  <2>1. page' \in [Clients -> PageRow] /\ page'[c] = p /\ \A d \in Clients \ {c} : page'[d] = page[d]
    BY <1>2, <1>3 DEF Base, Typed
  <2>2. load' \in [Clients -> LoadRow] /\ load'[c] = ld /\ \A d \in Clients \ {c} : load'[d] = load[d]
    BY <1>1, <1>3 DEF Base, Typed
  <2> QED
    BY <1>4, <1>6, <2>1, <2>2 DEF Reads, Base, Typed
<1> QED
  BY <1>0, <1>2, <1>3, <1>4, <1>5, <1>7, ReadStep

\* What was loaded is put on the screen.
LEMMA ShowLoadKeeps ==
  ASSUME Base, NEW c \in Clients, ShowLoad(c)
  PROVE  Base'
<1>0. /\ page[c] \in PageRow /\ shown[c] \in LoadRow /\ load[c] \in LoadRow /\ left \in LeftRow /\ NoLoad \in LoadRow
      /\ Consistent(c)
  BY ClientRows DEF Base, Typed
<1> DEFINE s == IF page[c].active = load[c].list THEN load[c] ELSE shown[c]
<1>1. /\ load' = [load EXCEPT ![c] = NoLoad] /\ shown' = [shown EXCEPT ![c] = s]
      /\ UNCHANGED <<server, page, get, stream, events, timer, call, form, left>>
  BY DEF ShowLoad
<1>2. s \in LoadRow /\ (page[c].active = "none" => s.list = "none") /\ (s.list = "none" => shown[c].list = "none")
  BY <1>0 DEF Consistent, ShowLoad
<1> HIDE DEF s
<1>3. Reads(c) /\ page'[c] = page[c] /\ shown'[c] = s /\ load'[c] = NoLoad
  <2>1. shown' \in [Clients -> LoadRow] /\ shown'[c] = s /\ \A d \in Clients \ {c} : shown'[d] = shown[d]
    BY <1>1, <1>2 DEF Base, Typed
  <2>2. load' \in [Clients -> LoadRow] /\ load'[c] = NoLoad /\ \A d \in Clients \ {c} : load'[d] = load[d]
    BY <1>0, <1>1 DEF Base, Typed
  <2> QED
    BY <1>1, <2>1, <2>2 DEF Reads, Base, Typed
<1>4. NoLoad.list = "none" /\ NoLoad.snap = Nothing
  BY DEF NoLoad
<1>5. page[c].active = "none" => ~page[c].detail /\ page[c].opening = "no"
  BY <1>0 DEF Consistent
<1> QED
  BY <1>0, <1>1, <1>2, <1>3, <1>4, <1>5, ReadStep

\* A read fails.
LEMMA ReadFailsKeeps ==
  ASSUME Base, NEW c \in Clients, NEW l \in Lists, ReadFails(c, l)
  PROVE  Base'
<1>0. /\ page[c] \in PageRow /\ shown[c] \in LoadRow /\ load[c] \in LoadRow /\ left \in LeftRow /\ NoLoad \in LoadRow
      /\ Consistent(c) /\ l # "none" /\ NoLoad.list = "none" /\ NoLoad.snap = Nothing
  BY ClientRows, ListAssumption DEF Base, Typed, NoLoad
<1> DEFINE ld == IF load[c].list = l THEN NoLoad ELSE load[c]
           p  == [page[c] EXCEPT !.opening = IF page[c].opening = "reading" /\ page[c].active = l THEN "no" ELSE page[c].opening]
<1>1. p \in PageRow /\ p.active = page[c].active /\ p.detail = page[c].detail /\ p.hidden = page[c].hidden
      /\ (p.opening = page[c].opening \/ p.opening = "no")
  BY <1>0 DEF PageRow
<1>2. /\ get' = [get EXCEPT ![c][l] = NoRead] /\ load' = [load EXCEPT ![c] = ld] /\ page' = [page EXCEPT ![c] = p]
      /\ Spend("failures") /\ UNCHANGED <<server, shown, stream, events, timer, call, form>>
  BY DEF ReadFails, Base, Typed
<1>3. ld \in LoadRow /\ ld.list \in {load[c].list, "none"} /\ (ld.list = "none" => ld.snap = Nothing)
  BY <1>0 DEF Consistent
<1> HIDE DEF ld, p
<1>4. left' \in LeftRow /\ left'.writes = left.writes /\ shown' = shown
  BY <1>0, <1>2, Spent
<1>5. ld.list \in {p.active, "none"}
      /\ (p.active = "none" => ~p.detail /\ p.opening = "no" /\ shown[c].list = "none")
  BY <1>0, <1>1, <1>3 DEF Consistent
<1>6. get' \in [Clients -> [Lists -> ReadRow]] /\ \A d \in Clients \ {c} : get'[d] = get[d]
  BY <1>2, <1>3, ReadEnds
<1>7. Reads(c) /\ page'[c] = p /\ shown'[c] = shown[c] /\ load'[c] = ld
  <2>1. page' \in [Clients -> PageRow] /\ page'[c] = p /\ \A d \in Clients \ {c} : page'[d] = page[d]
    BY <1>1, <1>2 DEF Base, Typed
  <2>2. load' \in [Clients -> LoadRow] /\ load'[c] = ld /\ \A d \in Clients \ {c} : load'[d] = load[d]
    BY <1>2, <1>3 DEF Base, Typed
  <2> QED
    BY <1>4, <1>6, <2>1, <2>2 DEF Reads, Base, Typed
<1> QED
  BY <1>0, <1>1, <1>2, <1>3, <1>4, <1>5, <1>7, ReadStep

\* A list is opened, from the overview or from another view.
LEMMA OpenKeeps ==
  ASSUME Base, NEW c \in Clients, NEW l \in Lists, Open(c, l) \/ Return(c, l)
  PROVE  Base'
<1>0. /\ page[c] \in PageRow /\ shown[c] \in LoadRow /\ load[c] \in LoadRow /\ left \in LeftRow /\ Consistent(c) /\ l # "none"
      /\ get[c] \in [Lists -> ReadRow]
  BY ClientRows, ListAssumption DEF Base, Typed
<1>1. /\ Spend("moves") /\ UNCHANGED <<server, shown, stream, events, timer, call, form>>
  BY DEF Open, Return, Navigates
<1>2. left' \in LeftRow /\ left'.writes = left.writes /\ shown' = shown
  BY <1>0, <1>1, Spent
<1>3. CASE OpenList(c, l)
  <2> DEFINE p == [page[c] EXCEPT !.active = l, !.detail = TRUE, !.away = FALSE, !.opening = "reading"]
             ld == [list |-> l, snap |-> Nothing]
  <2>1. p \in PageRow /\ p.active = l /\ p.hidden = page[c].hidden
    BY <1>0 DEF PageRow, ListOrNone
  <2>2. page' = [page EXCEPT ![c] = p] /\ StartLoad(c, l) /\ load' = [load EXCEPT ![c] = ld]
    BY <1>3 DEF OpenList, StartLoad
  <2>3. ld.list = l
    OBVIOUS
  <2> HIDE DEF p
  <2>4. Reads(c) /\ page'[c] = p /\ load'[c] = ld
    <3>1. page' \in [Clients -> PageRow] /\ page'[c] = p /\ \A d \in Clients \ {c} : page'[d] = page[d]
      BY <2>1, <2>2 DEF Base, Typed
    <3>2. load' \in [Clients -> LoadRow] /\ load'[c] = ld /\ get' \in [Clients -> [Lists -> ReadRow]]
          /\ \A d \in Clients \ {c} : load'[d] = load[d] /\ get'[d] = get[d]
      BY <2>2, StartRows DEF Base
    <3> QED
      BY <1>2, <3>1, <3>2 DEF Reads, Base, Typed
  <2> HIDE DEF ld
  <2> QED
    BY <1>0, <1>1, <1>2, <2>1, <2>3, <2>4, ReadStep
<1>4. CASE page' = [page EXCEPT ![c].away = FALSE] /\ UNCHANGED reads
  <2> DEFINE p == [page[c] EXCEPT !.away = FALSE]
  <2>1. p \in PageRow /\ p.active = page[c].active /\ p.hidden = page[c].hidden /\ p.detail = page[c].detail /\ p.opening = page[c].opening
    BY <1>0 DEF PageRow
  <2>2. page' = [page EXCEPT ![c] = p] /\ load' = load /\ get' = get
    BY <1>4 DEF reads
  <2> HIDE DEF p
  <2>3. load[c].list \in {p.active, "none"} /\ (load[c].list = "none" => load[c].snap = Nothing)
        /\ (p.active = "none" => ~p.detail /\ p.opening = "no" /\ shown[c].list = "none")
    BY <1>0, <2>1 DEF Consistent
  <2>4. Reads(c) /\ page'[c] = p
    BY <1>2, <2>1, <2>2 DEF Reads, Base, Typed
  <2> QED
    BY <1>0, <1>1, <1>2, <2>1, <2>2, <2>3, <2>4, ReadStep
<1> QED
  BY <1>3, <1>4 DEF Open, Return

--------------------------------------------------------------------------------
(* The stream and the timer.                                               *)

\* A step of the stream, after which the page hears of what it is to read again.
LEMMA StreamStep ==
  ASSUME Base, NEW c \in Clients, UNCHANGED <<server, shown, load, get, call, form>>,
         left' \in LeftRow, left'.writes = left.writes,
         page' \in [Clients -> PageRow], page'[c].active = page[c].active, page'[c].detail = page[c].detail,
         page'[c].opening = page[c].opening,
         stream' \in [Clients -> {"off", "connecting", "on"}], events' \in [Clients -> Messages],
         timer' \in [Clients -> ListOrNone],
         \A d \in Clients \ {c} : page'[d] = page[d] /\ stream'[d] = stream[d] /\ events'[d] = events[d] /\ timer'[d] = timer[d],
         stream'[c] # "off" \/ timer'[c] # "none" => page'[c].active # "none" /\ ~page'[c].hidden,
         stream'[c] # "on" => events'[c] = <<>>, Len(events'[c]) <= Len(events[c]) \/ Len(events'[c]) <= 1
  PROVE  Base'
<1>1. Typed'
  BY DEF Base, Typed
<1>2. Others(c)
  BY DEF Others, Same
<1>3. Consistent(c)'
  BY DEF Base, Consistent
<1> QED
  BY <1>1, <1>2, <1>3, ClientStep

\* The stream opens, breaks, or brings a message.
LEMMA StreamKeeps ==
  ASSUME Base, NEW c \in Clients, Subscribe(c) \/ StreamDrops(c) \/ Deliver(c)
  PROVE  Base'
<1>0. /\ page[c] \in PageRow /\ left \in LeftRow /\ Consistent(c) /\ events[c] \in Messages /\ timer[c] \in ListOrNone
      /\ <<>> \in Messages /\ <<"opened">> \in Messages /\ Len(<<>>) = 0 /\ Len(<<"opened">>) = 1
  BY ClientRows DEF Base, Typed
<1>1. page' = page /\ UNCHANGED <<server, shown, load, get, call, form>>
  BY DEF Subscribe, StreamDrops, Deliver
<1>2. page' \in [Clients -> PageRow]
  BY <1>1 DEF Base, Typed
<1>3. CASE Subscribe(c)
  <2>1. /\ stream[c] = "connecting" /\ stream' = [stream EXCEPT ![c] = "on"] /\ events' = [events EXCEPT ![c] = <<"opened">>]
        /\ timer' = timer /\ left' = left
    BY <1>3 DEF Subscribe, Greeting
  <2>2. /\ stream' \in [Clients -> {"off", "connecting", "on"}] /\ stream'[c] = "on"
        /\ events' \in [Clients -> Messages] /\ events'[c] = <<"opened">> /\ timer' \in [Clients -> ListOrNone]
        /\ \A d \in Clients \ {c} : stream'[d] = stream[d] /\ events'[d] = events[d] /\ timer'[d] = timer[d]
    BY <1>0, <2>1 DEF Base, Typed
  <2>3. page[c].active # "none" /\ ~page[c].hidden
    BY <1>0, <2>1 DEF Consistent
  <2> QED
    BY <1>0, <1>1, <1>2, <2>1, <2>2, <2>3, StreamStep
<1>4. CASE StreamDrops(c)
  <2>1. /\ stream[c] = "on" /\ stream' = [stream EXCEPT ![c] = "connecting"] /\ events' = [events EXCEPT ![c] = <<>>]
        /\ timer' = timer /\ Spend("drops")
    BY <1>4 DEF StreamDrops
  <2>2. /\ stream' \in [Clients -> {"off", "connecting", "on"}] /\ stream'[c] = "connecting"
        /\ events' \in [Clients -> Messages] /\ events'[c] = <<>> /\ timer' \in [Clients -> ListOrNone]
        /\ \A d \in Clients \ {c} : stream'[d] = stream[d] /\ events'[d] = events[d] /\ timer'[d] = timer[d]
    BY <1>0, <2>1 DEF Base, Typed
  <2>3. page[c].active # "none" /\ ~page[c].hidden
    BY <1>0, <2>1 DEF Consistent
  <2>4. left' \in LeftRow /\ left'.writes = left.writes
    BY <1>0, <2>1, Spent
  <2> QED
    BY <1>0, <1>1, <1>2, <2>1, <2>2, <2>3, <2>4, StreamStep
<1>5. CASE Deliver(c)
  <2> DEFINE t == IF Head(events[c]) = "opened" THEN page[c].active ELSE Head(events[c])
  <2>1. /\ events[c] # <<>> /\ timer' = [timer EXCEPT ![c] = t] /\ events' = [events EXCEPT ![c] = Tail(events[c])]
        /\ stream' = stream /\ left' = left
    BY <1>5 DEF Deliver
  <2>2. Head(events[c]) \in Lists \cup {"opened"} /\ Tail(events[c]) \in Messages /\ Len(Tail(events[c])) <= Len(events[c])
    BY <1>0, <2>1 DEF Messages
  <2>3. t \in ListOrNone
    BY <1>0, <2>2 DEF PageRow, ListOrNone
  <2> HIDE DEF t
  <2>4. /\ stream' \in [Clients -> {"off", "connecting", "on"}] /\ stream'[c] = stream[c]
        /\ events' \in [Clients -> Messages] /\ events'[c] = Tail(events[c]) /\ timer' \in [Clients -> ListOrNone]
        /\ \A d \in Clients \ {c} : stream'[d] = stream[d] /\ events'[d] = events[d] /\ timer'[d] = timer[d]
    BY <2>1, <2>2, <2>3 DEF Base, Typed
  <2>5. page[c].active # "none" /\ ~page[c].hidden /\ stream[c] = "on"
    BY <1>0, <2>1 DEF Consistent
  <2> QED
    BY <1>0, <1>1, <1>2, <2>1, <2>2, <2>4, <2>5, StreamStep
<1> QED
  BY <1>3, <1>4, <1>5

\* The document comes into sight.
LEMMA ShowKeeps ==
  ASSUME Base, NEW c \in Clients, Show(c)
  PROVE  Base'
<1>0. /\ page[c] \in PageRow /\ shown[c] \in LoadRow /\ left \in LeftRow /\ Consistent(c)
      /\ <<>> \in Messages /\ Len(<<>>) = 0
  BY ClientRows DEF Base, Typed
<1> DEFINE p == [page[c] EXCEPT !.hidden = FALSE]
<1>1. p \in PageRow /\ p.active = page[c].active /\ ~p.hidden /\ p.detail = page[c].detail /\ p.opening = page[c].opening
  BY <1>0 DEF PageRow
<1>2. page' = [page EXCEPT ![c] = p] /\ left' = left /\ page[c].hidden /\ UNCHANGED <<server, shown, load, get, call, form>>
  BY DEF Show
<1> HIDE DEF p
<1>3. page' \in [Clients -> PageRow] /\ page'[c] = p /\ \A d \in Clients \ {c} : page'[d] = page[d]
  BY <1>1, <1>2 DEF Base, Typed
<1>4. CASE /\ shown[c].list # "none" /\ stream' = [stream EXCEPT ![c] = "connecting"]
           /\ events' = [events EXCEPT ![c] = <<>>] /\ timer' = [timer EXCEPT ![c] = shown[c].list]
  <2>1. shown[c].list \in ListOrNone
    BY <1>0 DEF LoadRow
  <2>2. /\ stream' \in [Clients -> {"off", "connecting", "on"}] /\ stream'[c] = "connecting"
        /\ events' \in [Clients -> Messages] /\ events'[c] = <<>> /\ timer' \in [Clients -> ListOrNone]
        /\ \A d \in Clients \ {c} : stream'[d] = stream[d] /\ events'[d] = events[d] /\ timer'[d] = timer[d]
    BY <1>0, <1>4, <2>1 DEF Base, Typed
  <2>3. page[c].active # "none"
    BY <1>0, <1>4 DEF Consistent
  <2> QED
    BY <1>0, <1>1, <1>2, <1>3, <2>2, <2>3, StreamStep
<1>5. CASE UNCHANGED realtime
  <2>1. /\ stream' \in [Clients -> {"off", "connecting", "on"}] /\ stream' = stream
        /\ events' \in [Clients -> Messages] /\ events' = events /\ timer' \in [Clients -> ListOrNone] /\ timer' = timer
    BY <1>5 DEF realtime, Base, Typed
  <2>2. stream[c] = "off" /\ timer[c] = "none" /\ events[c] = <<>>
    BY <1>0, <1>2 DEF Consistent
  <2> QED
    BY <1>0, <1>1, <1>2, <1>3, <2>1, <2>2, StreamStep
<1> QED
  BY <1>4, <1>5 DEF Show

--------------------------------------------------------------------------------
(* Dialogs, answers of writes, and the reads they ask for.                 *)

\* A step that changes what a device waits for and has open, at a page that stays put.
LEMMA DialogStep ==
  ASSUME Base, NEW c \in Clients, UNCHANGED <<server, page, stream, events, left>>,
         shown' \in [Clients -> LoadRow], load' \in [Clients -> LoadRow], get' \in [Clients -> [Lists -> ReadRow]],
         timer' \in [Clients -> ListOrNone], call' \in [Clients -> CallRow], form' \in [Clients -> FormRow],
         \A d \in Clients \ {c} : /\ shown'[d] = shown[d] /\ load'[d] = load[d] /\ get'[d] = get[d]
                                  /\ timer'[d] = timer[d] /\ call'[d] = call[d] /\ form'[d] = form[d],
         page[c].active # "none", timer'[c] \in {timer[c], "none"},
         load'[c].list \in {page[c].active, "none"}, load'[c].list = "none" => load'[c].snap = Nothing,
         call'[c].phase = "sent" <=> call[c].phase = "sent",
         call'[c] \in {call[c], NoCall}, shown'[c].list = "none" => shown[c].list = "none",
         form'[c] # NoForm => shown[c].list # "none"
  PROVE  Base'
<1>1. Typed'
  BY DEF Base, Typed
<1>2. Others(c)
  BY DEF Others, Same
<1>3. Consistent(c)'
  BY DEF Base, Consistent
<1>4. Len(events'[c]) <= Len(events[c])
  BY DEF Base, Typed, Messages
<1>5. server' = server /\ left'.writes = left.writes
  OBVIOUS
<1> QED
  BY <1>1, <1>2, <1>3, <1>4, <1>5, ClientStep

\* The dialog of an item opens, closes, and gives way to what the server has.
LEMMA DialogKeeps ==
  ASSUME Base, NEW c \in Clients, BeginEdit(c) \/ CancelEdit(c) \/ UseLatestConflict(c)
  PROVE  Base'
<1>0. /\ page[c] \in PageRow /\ shown[c] \in LoadRow /\ form[c] \in FormRow /\ NoForm \in FormRow /\ Consistent(c)
      /\ load[c] \in LoadRow
  BY ClientRows DEF Base, Typed
<1>1. UNCHANGED <<server, page, shown, stream, events, timer, call, left>>
  BY DEF BeginEdit, CancelEdit, UseLatestConflict
<1>2. shown' \in [Clients -> LoadRow] /\ timer' \in [Clients -> ListOrNone] /\ call' \in [Clients -> CallRow]
  BY <1>1 DEF Base, Typed
<1>3. page[c].active # "none"
  <2>1. CASE BeginEdit(c)
    BY <1>0, <2>1 DEF BeginEdit, AtItems, Consistent
  <2>2. CASE CancelEdit(c)
    BY <1>0, <2>2 DEF CancelEdit, Consistent
  <2>3. CASE UseLatestConflict(c)
    BY <1>0, <2>3 DEF UseLatestConflict, Consistent, NoForm
  <2> QED
    BY <2>1, <2>2, <2>3
<1>4. form' \in [Clients -> FormRow] /\ (\A d \in Clients \ {c} : form'[d] = form[d])
      /\ (form'[c] # NoForm => shown[c].list # "none")
  <2>1. [base |-> shown[c].snap.item, conflict |-> FALSE] \in FormRow
    BY <1>0 DEF LoadRow, Snapshot, FormRow
  <2> QED
    BY <1>0, <2>1 DEF Base, Typed, BeginEdit, AtItems, CancelEdit, UseLatestConflict
<1>5. CASE BeginEdit(c) \/ CancelEdit(c)
  <2>1. load' = load /\ get' = get
    BY <1>5 DEF BeginEdit, CancelEdit
  <2>2. load' \in [Clients -> LoadRow] /\ get' \in [Clients -> [Lists -> ReadRow]]
    BY <2>1 DEF Base, Typed
  <2>3. load'[c].list \in {page[c].active, "none"} /\ (load'[c].list = "none" => load'[c].snap = Nothing)
    BY <1>0, <2>1 DEF Consistent
  <2> QED
    BY <1>1, <1>2, <1>3, <1>4, <2>1, <2>2, <2>3, DialogStep
<1>6. CASE UseLatestConflict(c)
  <2>1. StartLoad(c, page[c].active) /\ page[c].active \in Lists
    BY <1>0, <1>3, <1>6 DEF UseLatestConflict, PageRow, ListOrNone
  <2>2. /\ load' \in [Clients -> LoadRow] /\ get' \in [Clients -> [Lists -> ReadRow]]
        /\ load'[c] = [list |-> page[c].active, snap |-> Nothing]
        /\ \A d \in Clients \ {c} : load'[d] = load[d] /\ get'[d] = get[d]
    BY <2>1, StartRows DEF Base
  <2>3. load'[c].list = page[c].active
    BY <2>2
  <2> QED
    BY <1>1, <1>2, <1>3, <1>4, <2>2, <2>3, DialogStep
<1> QED
  BY <1>5, <1>6

\* The timer of a resync fires.
LEMMA ResyncKeeps ==
  ASSUME Base, NEW c \in Clients, ResyncFires(c)
  PROVE  Base'
<1>0. page[c] \in PageRow /\ Consistent(c) /\ load[c] \in LoadRow /\ timer[c] \in ListOrNone
  BY ClientRows DEF Base, Typed
<1>1. /\ UNCHANGED <<server, page, shown, stream, events, call, form, left>> /\ timer[c] # "none"
      /\ timer' = [timer EXCEPT ![c] = "none"]
      /\ (StartLoad(c, timer[c]) /\ timer[c] = page[c].active) \/ UNCHANGED <<load, get>>
  BY DEF ResyncFires, reads
<1>2. /\ shown' \in [Clients -> LoadRow] /\ call' \in [Clients -> CallRow] /\ form' \in [Clients -> FormRow]
      /\ shown' = shown /\ call' = call /\ form' = form /\ (form[c] # NoForm => shown[c].list # "none")
      /\ timer' \in [Clients -> ListOrNone] /\ timer'[c] = "none" /\ \A d \in Clients \ {c} : timer'[d] = timer[d]
  BY <1>0, <1>1 DEF Base, Typed, ListOrNone, Consistent
<1>3. page[c].active # "none"
  BY <1>0, <1>1 DEF Consistent
<1>4. /\ load' \in [Clients -> LoadRow] /\ get' \in [Clients -> [Lists -> ReadRow]]
      /\ \A d \in Clients \ {c} : load'[d] = load[d] /\ get'[d] = get[d]
      /\ load'[c].list \in {page[c].active, "none"} /\ (load'[c].list = "none" => load'[c].snap = Nothing)
  <2>1. CASE StartLoad(c, timer[c]) /\ timer[c] = page[c].active
    <3>1. timer[c] \in Lists
      BY <1>0, <1>1 DEF ListOrNone
    <3>2. load'[c] = [list |-> timer[c], snap |-> Nothing]
      BY <2>1, <3>1, StartRows DEF Base
    <3> QED
      BY <2>1, <3>1, <3>2, StartRows DEF Base
  <2>2. CASE UNCHANGED <<load, get>>
    BY <1>0, <2>2 DEF Base, Typed, Consistent
  <2> QED
    BY <1>1, <2>1, <2>2
<1> QED
  BY <1>1, <1>2, <1>3, <1>4, DialogStep

\* A write comes back.
LEMMA CallAnsweredKeeps ==
  ASSUME Base, NEW c \in Clients, CallAnswered(c)
  PROVE  Base'
<1>0. /\ page[c] \in PageRow /\ Consistent(c) /\ load[c] \in LoadRow /\ call[c] \in CallRow
      /\ NoCall \in CallRow /\ NoForm \in FormRow /\ form[c] \in FormRow
  BY ClientRows DEF Base, Typed
<1>1. /\ UNCHANGED <<server, page, stream, events, timer, left>> /\ call' = [call EXCEPT ![c] = NoCall]
      /\ call[c].phase \in {"done", "refused"}
  BY DEF CallAnswered
<1>2. /\ timer' \in [Clients -> ListOrNone] /\ timer' = timer
      /\ call' \in [Clients -> CallRow] /\ call'[c] = NoCall /\ \A d \in Clients \ {c} : call'[d] = call[d]
  BY <1>0, <1>1 DEF Base, Typed
<1>3. /\ NoCall.phase # "sent" /\ call[c].phase # "sent" /\ call[c] # NoCall
      /\ shown[c].list # "none" /\ call[c].list # "none"
  BY <1>0, <1>1 DEF NoCall, Consistent
<1>4. page[c].active # "none"
  BY <1>0, <1>3 DEF Consistent
<1>5. CASE shown' = [shown EXCEPT ![c] = [list |-> call[c].list, snap |-> call[c].answer]] /\ UNCHANGED <<form, load, get>>
  <2>1. [list |-> call[c].list, snap |-> call[c].answer] \in LoadRow
    BY <1>0 DEF CallRow, LoadRow
  <2>2. shown' \in [Clients -> LoadRow] /\ shown'[c].list = call[c].list /\ \A d \in Clients \ {c} : shown'[d] = shown[d]
    BY <1>5, <2>1 DEF Base, Typed
  <2>3. /\ load' \in [Clients -> LoadRow] /\ get' \in [Clients -> [Lists -> ReadRow]] /\ form' \in [Clients -> FormRow]
        /\ load' = load /\ get' = get /\ form' = form
    BY <1>5 DEF Base, Typed
  <2>4. load[c].list \in {page[c].active, "none"} /\ (load[c].list = "none" => load[c].snap = Nothing)
    BY <1>0 DEF Consistent
  <2> QED
    BY <1>1, <1>2, <1>3, <1>4, <2>2, <2>3, <2>4, DialogStep
<1>6. CASE form' = [form EXCEPT ![c] = [base |-> call[c].answer.item, conflict |-> TRUE]] /\ UNCHANGED <<shown, load, get>>
  <2>1. [base |-> call[c].answer.item, conflict |-> TRUE] \in FormRow
    BY <1>0 DEF CallRow, Snapshot, FormRow
  <2>2. form' \in [Clients -> FormRow] /\ \A d \in Clients \ {c} : form'[d] = form[d]
    BY <1>6, <2>1 DEF Base, Typed
  <2>3. /\ load' \in [Clients -> LoadRow] /\ get' \in [Clients -> [Lists -> ReadRow]] /\ shown' \in [Clients -> LoadRow]
        /\ load' = load /\ get' = get /\ shown' = shown
    BY <1>6 DEF Base, Typed
  <2>4. load[c].list \in {page[c].active, "none"} /\ (load[c].list = "none" => load[c].snap = Nothing)
    BY <1>0 DEF Consistent
  <2> QED
    BY <1>1, <1>2, <1>3, <1>4, <2>2, <2>3, <2>4, DialogStep
<1>7. CASE /\ form' = [form EXCEPT ![c] = IF call[c].kind = "edit" THEN NoForm ELSE @]
           /\ StartLoad(c, page[c].active) /\ UNCHANGED shown
  <2>1. form' \in [Clients -> FormRow] /\ \A d \in Clients \ {c} : form'[d] = form[d]
    BY <1>0, <1>7 DEF Base, Typed
  <2>2. page[c].active \in Lists
    BY <1>0, <1>4 DEF PageRow, ListOrNone
  <2>3. /\ load' \in [Clients -> LoadRow] /\ get' \in [Clients -> [Lists -> ReadRow]]
        /\ load'[c] = [list |-> page[c].active, snap |-> Nothing]
        /\ \A d \in Clients \ {c} : load'[d] = load[d] /\ get'[d] = get[d]
    BY <1>7, <2>2, StartRows DEF Base
  <2>4. load'[c].list = page[c].active /\ page[c].active # "none"
    BY <1>4, <2>3
  <2>5. shown' \in [Clients -> LoadRow] /\ shown' = shown
    BY <1>7 DEF Base, Typed
  <2> QED
    BY <1>1, <1>2, <1>3, <1>4, <2>1, <2>3, <2>4, <2>5, DialogStep
<1> QED
  BY <1>5, <1>6, <1>7 DEF CallAnswered

--------------------------------------------------------------------------------
(* Writes: what the user sends, and what the server makes of it.           *)

\* A write that is sent uses one of the writes there may be, and takes its place.
LEMMA SendKeeps ==
  ASSUME Base, NEW c \in Clients, NEW kind \in Kinds, NEW base \in 0 .. MaxWrites + 1, Send(c, kind, base),
         UNCHANGED form, page[c].active # "none", shown[c].list # "none"
  PROVE  Base'
<1>0. left \in LeftRow /\ shown[c] \in LoadRow /\ Nothing \in Snapshot /\ IsFiniteSet(Sent) /\ Consistent(c)
  BY ClientRows DEF Base, Typed, Bounded
<1> DEFINE k == [kind |-> kind, list |-> shown[c].list, base |-> base, phase |-> "sent", answer |-> Nothing]
<1>1. /\ Spend("writes") /\ call[c] = NoCall /\ call' = [call EXCEPT ![c] = k]
      /\ UNCHANGED <<server, page, shown, load, get, stream, events, timer, form>>
  BY DEF Send, Busy
<1>2. k \in CallRow /\ k.phase = "sent" /\ k.list = shown[c].list
  BY <1>0 DEF CallRow, LoadRow
<1> HIDE DEF k
<1>3. left' \in LeftRow /\ left.writes > 0 /\ left'.writes = left.writes - 1
  BY <1>0, <1>1, Spent
<1>4. call' \in [Clients -> CallRow] /\ call'[c] = k /\ \A d \in Clients \ {c} : call'[d] = call[d]
  BY <1>1, <1>2 DEF Base, Typed
<1>5. c \notin Sent
  BY <1>1 DEF Sent, NoCall
<1>6. Sent' = Sent \cup {c}
  BY <1>2, <1>4 DEF Sent
<1>7. IsFiniteSet(Sent') /\ Cardinality(Sent') = Cardinality(Sent) + 1
  BY <1>0, <1>5, <1>6, FS_AddElement
<1>8. left.writes \in Nat /\ Cardinality(Sent) \in Nat /\ MaxWrites \in Nat
  BY <1>0, BoundAssumption, FS_CardinalityType DEF LeftRow
<1>9. Committed' = Committed
  BY <1>3, <1>7, <1>8 DEF Committed
<1>10. Bounded'
  <2>1. left'.writes + Cardinality(Sent') <= MaxWrites
    BY <1>3, <1>7, <1>8 DEF Base, Bounded
  <2> QED
    BY <1>1, <1>7, <1>9, <2>1 DEF Base, Bounded
<1>11. Typed'
  BY <1>1, <1>3, <1>4 DEF Base, Typed
<1>12. Consistent(c)'
  BY <1>0, <1>1, <1>2, <1>4 DEF Consistent
<1>13. \A d \in Clients \ {c} : Consistent(d)'
  BY <1>1, <1>4 DEF Base, Consistent
<1> QED
  BY <1>10, <1>11, <1>12, <1>13 DEF Base

\* What the user may send, with the versions that are shown.
LEMMA UserSends ==
  ASSUME Base, NEW c \in Clients, Toggle(c) \/ Reorder(c) \/ SubmitEdit(c) \/ UseMyConflict(c)
  PROVE  Base'
<1>0. shown[c] \in LoadRow /\ form[c] \in FormRow /\ Consistent(c)
  BY ClientRows DEF Base
<1>1. shown[c].snap.item \in 0 .. MaxWrites + 1 /\ shown[c].snap.version \in 0 .. MaxWrites + 1 /\ form[c].base \in 0 .. MaxWrites + 1
  BY <1>0 DEF LoadRow, Snapshot, FormRow
<1>2. \A kind, base : Send(c, kind, base) => kind \in Kinds
  BY DEF Send
<1>3. CASE Toggle(c)
  <2>1. Send(c, "toggle", shown[c].snap.item) /\ UNCHANGED form /\ page[c].active # "none" /\ shown[c].list # "none"
    BY <1>0, <1>3 DEF Toggle, AtItems, Consistent
  <2> QED
    BY <1>1, <1>2, <2>1, SendKeeps
<1>4. CASE Reorder(c)
  <2>1. Send(c, "order", shown[c].snap.version) /\ UNCHANGED form /\ page[c].active # "none" /\ shown[c].list # "none"
    BY <1>0, <1>4 DEF Reorder, AtItems, Consistent
  <2> QED
    BY <1>1, <1>2, <2>1, SendKeeps
<1>5. CASE SubmitEdit(c)
  <2>1. Send(c, "edit", shown[c].snap.item) /\ UNCHANGED form /\ page[c].active # "none" /\ shown[c].list # "none"
    BY <1>0, <1>5 DEF SubmitEdit, Consistent
  <2> QED
    BY <1>1, <1>2, <2>1, SendKeeps
<1>6. CASE UseMyConflict(c)
  <2>1. Send(c, "edit", form[c].base) /\ UNCHANGED form /\ page[c].active # "none" /\ shown[c].list # "none"
    BY <1>0, <1>6 DEF UseMyConflict, Consistent, NoForm
  <2> QED
    BY <1>1, <1>2, <2>1, SendKeeps
<1> QED
  BY <1>3, <1>4, <1>5, <1>6

\* A commit makes one version more, and tells everybody who listens.
LEMMA CommitRows ==
  ASSUME Base, NEW l \in Lists, NEW onItem \in BOOLEAN, Commit(l, onItem), Committed <= MaxWrites
  PROVE  /\ server' \in [Lists -> Snapshot] /\ events' \in [Clients -> Messages]
         /\ \A m \in Lists : server'[m].version \in 1 .. Committed + 1 /\ server'[m].item \in 1 .. server'[m].version
         /\ \A c \in Clients : /\ Len(events'[c]) <= Committed + 1
                               /\ stream[c] # "on" => events'[c] = events[c]
<1>0. MaxWrites \in Nat /\ Committed \in Nat /\ Committed >= 1
  <2>1. left.writes \in Nat /\ Cardinality(Sent) \in Nat /\ MaxWrites \in Nat
    BY BoundAssumption, FS_CardinalityType DEF Base, Bounded, Typed, LeftRow
  <2> QED
    BY <2>1 DEF Base, Bounded, Committed
<1>1. server[l] \in Snapshot /\ server[l].version \in 1 .. Committed /\ server[l].item \in 1 .. server[l].version
  BY DEF Base, Typed, Bounded
<1> DEFINE s == [version |-> server[l].version + 1, item |-> IF onItem THEN server[l].version + 1 ELSE server[l].item]
<1>2. server' = [server EXCEPT ![l] = s] /\ Publish(l)
  BY DEF Commit
<1>3. s.version = server[l].version + 1 /\ s.item \in {server[l].version + 1, server[l].item}
  OBVIOUS
<1>4. s.version \in 1 .. Committed + 1 /\ s.item \in 1 .. s.version
  BY <1>0, <1>1, <1>3
<1>5. s \in Snapshot
  BY <1>0, <1>1, <1>4 DEF Snapshot
<1> HIDE DEF s
<1>6. server' \in [Lists -> Snapshot]
  BY <1>2, <1>5 DEF Base, Typed
<1>7. \A m \in Lists : server'[m].version \in 1 .. Committed + 1 /\ server'[m].item \in 1 .. server'[m].version
  BY <1>0, <1>2, <1>4 DEF Base, Typed, Bounded
<1>8. ASSUME NEW c \in Clients
      PROVE  /\ IF stream[c] = "on" THEN Append(events[c], l) \in Messages ELSE events[c] \in Messages
             /\ Len(Append(events[c], l)) = Len(events[c]) + 1 /\ Len(events[c]) \in Nat
  BY DEF Base, Typed, Messages
<1>9. events' = [c \in Clients |-> IF stream[c] = "on" THEN Append(events[c], l) ELSE events[c]]
  BY <1>2 DEF Publish
<1>10. events' \in [Clients -> Messages]
  BY <1>8, <1>9
<1>11. ASSUME NEW c \in Clients PROVE Len(events'[c]) <= Committed + 1 /\ (stream[c] # "on" => events'[c] = events[c])
  BY <1>0, <1>8, <1>9 DEF Base, Bounded
<1> QED
  BY <1>6, <1>7, <1>10, <1>11

\* The messages of everybody change, and with them the versions.
LEMMA ServerStep ==
  ASSUME Base, UNCHANGED <<page, shown, load, get, stream, timer, form>>, left' \in LeftRow,
         call' \in [Clients -> CallRow],
         \A c \in Clients : (call'[c] = NoCall <=> call[c] = NoCall) /\ call'[c].list = call[c].list,
         server' \in [Lists -> Snapshot], events' \in [Clients -> Messages], Bounded',
         \A c \in Clients : stream[c] # "on" => events'[c] = events[c]
  PROVE  Base'
<1>1. Typed'
  BY DEF Base, Typed
<1>2. \A c \in Clients : Consistent(c)'
  BY DEF Base, Consistent
<1> QED
  BY <1>1, <1>2 DEF Base

\* Another device writes.
LEMMA OtherDeviceKeeps ==
  ASSUME Base, NEW l \in Lists, NEW onItem \in BOOLEAN, OtherDevice(l, onItem)
  PROVE  Base'
<1>1. left \in LeftRow /\ call \in [Clients -> CallRow]
  BY DEF Base, Typed
<1>2. Spend("writes") /\ Commit(l, onItem) /\ UNCHANGED <<page, shown, load, get, stream, timer, call, form>>
  BY DEF OtherDevice
<1>3. left' \in LeftRow /\ left.writes > 0 /\ left'.writes = left.writes - 1
  BY <1>1, <1>2, Spent
<1>4. Sent' = Sent
  BY <1>2 DEF Sent
<1>5. left.writes \in Nat /\ Cardinality(Sent) \in Nat /\ MaxWrites \in Nat
  BY <1>1, BoundAssumption, FS_CardinalityType DEF Base, Bounded, LeftRow
<1>6. Committed' = Committed + 1 /\ Committed <= MaxWrites /\ left'.writes + Cardinality(Sent') <= MaxWrites
  BY <1>3, <1>4, <1>5 DEF Committed, Base, Bounded
<1>7. /\ server' \in [Lists -> Snapshot] /\ events' \in [Clients -> Messages]
      /\ \A m \in Lists : server'[m].version \in 1 .. Committed + 1 /\ server'[m].item \in 1 .. server'[m].version
      /\ \A c \in Clients : Len(events'[c]) <= Committed + 1 /\ (stream[c] # "on" => events'[c] = events[c])
  BY <1>2, <1>6, CommitRows
<1>8. Bounded'
  BY <1>4, <1>6, <1>7 DEF Base, Bounded
<1> QED
  BY <1>1, <1>2, <1>3, <1>7, <1>8, ServerStep

\* The server carries out a write, or refuses it.
LEMMA ServeCallKeeps ==
  ASSUME Base, NEW c \in Clients, ServeCall(c)
  PROVE  Base'
<1>0. call[c] \in CallRow /\ Consistent(c) /\ IsFiniteSet(Sent) /\ left \in LeftRow
  BY ClientRows DEF Base, Typed, Bounded
<1>1. /\ call[c].phase = "sent" /\ UNCHANGED <<page, shown, load, get, stream, timer, form, left>>
      /\ IF Accepted(c) THEN Commit(call[c].list, call[c].kind # "order") ELSE UNCHANGED <<server, events>>
  BY DEF ServeCall
<1>2. call[c].list \in Lists /\ call[c] # NoCall
  BY <1>0, <1>1 DEF Consistent, CallRow, ListOrNone, NoCall
<1>3. c \in Sent /\ left.writes \in Nat /\ Cardinality(Sent) \in Nat /\ Cardinality(Sent) >= 1 /\ MaxWrites \in Nat
  <2>1. c \in Sent /\ Sent # {}
    BY <1>1 DEF Sent
  <2>2. left.writes \in Nat /\ Cardinality(Sent) \in Nat /\ MaxWrites \in Nat
    BY <1>0, BoundAssumption, FS_CardinalityType DEF LeftRow
  <2> QED
    BY <1>0, <2>1, <2>2, FS_EmptySet
<1>4. Committed <= MaxWrites /\ Committed \in Nat
  BY <1>3 DEF Committed, Base, Bounded
<1>5. /\ server' \in [Lists -> Snapshot] /\ events' \in [Clients -> Messages]
      /\ \A m \in Lists : server'[m].version \in 1 .. Committed + 1 /\ server'[m].item \in 1 .. server'[m].version
      /\ \A d \in Clients : Len(events'[d]) <= Committed + 1 /\ (stream[d] # "on" => events'[d] = events[d])
  <2>1. CASE Commit(call[c].list, call[c].kind # "order")
    BY <1>2, <1>4, <2>1, CommitRows
  <2>2. CASE UNCHANGED <<server, events>>
    <3>1. server' \in [Lists -> Snapshot] /\ events' \in [Clients -> Messages]
          /\ \A d \in Clients : Len(events[d]) \in Nat
      BY <2>2 DEF Base, Typed, Messages
    <3> QED
      BY <1>4, <2>2, <3>1 DEF Base, Bounded
  <2> QED
    BY <1>1, <2>1, <2>2
<1> DEFINE ph == IF Accepted(c) THEN "done" ELSE "refused"
           k == [call[c] EXCEPT !.phase = ph, !.answer = server'[call[c].list]]
<1>6. server'[call[c].list] \in Snapshot /\ ph \in {"done", "refused"}
  BY <1>2, <1>5
<1>7. call' = [call EXCEPT ![c] = k]
  BY DEF ServeCall, Base, Typed
<1> HIDE DEF ph
<1>8. k \in CallRow /\ k.phase # "sent" /\ k.phase # "none" /\ k.list = call[c].list
  BY <1>0, <1>6 DEF CallRow
<1> HIDE DEF k
<1>9. k # NoCall
  BY <1>8 DEF NoCall
<1>10. call' \in [Clients -> CallRow] /\ call'[c] = k /\ \A d \in Clients \ {c} : call'[d] = call[d]
  BY <1>7, <1>8 DEF Base, Typed
<1>11. Sent' = Sent \ {c}
  BY <1>8, <1>10 DEF Sent
<1>12. IsFiniteSet(Sent') /\ Cardinality(Sent') = Cardinality(Sent) - 1
  BY <1>0, <1>3, <1>11, FS_RemoveElement
<1>13. Committed' = Committed + 1 /\ left'.writes + Cardinality(Sent') <= MaxWrites
  BY <1>1, <1>3, <1>12 DEF Committed, Base, Bounded
<1>14. Bounded'
  BY <1>5, <1>12, <1>13 DEF Bounded
<1>15. \A d \in Clients : (call'[d] = NoCall <=> call[d] = NoCall) /\ call'[d].list = call[d].list
  BY <1>2, <1>8, <1>9, <1>10
<1>16. left' \in LeftRow
  BY <1>0, <1>1
<1> QED
  BY <1>1, <1>5, <1>10, <1>14, <1>15, <1>16, ServerStep

--------------------------------------------------------------------------------
(* What every page is in, at any time.                                     *)

\* A page that is started shows nothing yet, and nothing is under way.
LEMMA BaseInit ==
  ASSUME Init
  PROVE  Base
<1>1. MaxWrites \in Nat /\ MaxMoves \in Nat /\ MaxDrops \in Nat /\ MaxFailures \in Nat
  BY BoundAssumption
<1>2. /\ Nothing \in Snapshot /\ [version |-> 1, item |-> 1] \in Snapshot /\ <<>> \in Messages /\ Len(<<>>) = 0
      /\ "none" \in ListOrNone
  BY <1>1 DEF Nothing, Snapshot, Messages, ListOrNone
<1>3. NoLoad \in LoadRow /\ NoRead \in ReadRow /\ NoCall \in CallRow /\ NoForm \in FormRow
  BY <1>1, <1>2 DEF NoLoad, NoRead, NoCall, NoForm, LoadRow, ReadRow, CallRow, FormRow
<1>4. Typed
  <2>1. left \in LeftRow /\ server \in [Lists -> Snapshot]
    BY <1>1, <1>2 DEF Init, LeftRow
  <2>2. page \in [Clients -> PageRow]
    BY <1>2 DEF Init, PageRow
  <2> QED
    BY <1>2, <1>3, <2>1, <2>2 DEF Init, Typed
<1>5. Sent = {}
  BY DEF Init, Sent, NoCall
<1>6. IsFiniteSet(Sent) /\ Cardinality(Sent) = 0
  BY <1>5, FS_EmptySet
<1>7. left.writes = MaxWrites
  BY DEF Init
<1>8. Bounded
  <2>1. Committed = 1
    BY <1>1, <1>6, <1>7 DEF Committed
  <2>2. \A l \in Lists : server[l].version = 1 /\ server[l].item = 1
    BY DEF Init
  <2>3. \A c \in Clients : Len(events[c]) <= 1
    <3>1. \A c \in Clients : events[c] = <<>>
      BY DEF Init
    <3>2. Len(<<>>) <= 1
      OBVIOUS
    <3> QED
      BY <3>1, <3>2, Zenon
  <2>4. left.writes + Cardinality(Sent) <= MaxWrites
    BY <1>1, <1>6, <1>7
  <2>5. \A l \in Lists : server[l].version \in 1 .. Committed /\ server[l].item \in 1 .. server[l].version
    BY <2>1, <2>2
  <2> QED
    BY <1>6, <2>1, <2>3, <2>4, <2>5 DEF Bounded
<1>9. \A c \in Clients : Consistent(c)
  BY DEF Init, Consistent, NoLoad, Nothing
<1> QED
  BY <1>4, <1>8, <1>9 DEF Base

\* Every step keeps it.
LEMMA BaseStep ==
  ASSUME Base, [Next]_vars
  PROVE  Base'
<1>1. CASE UNCHANGED vars
  BY <1>1 DEF vars, Base, Typed, Bounded, Committed, Sent, Consistent
<1>2. ASSUME NEW l \in Lists, NEW onItem \in BOOLEAN, OtherDevice(l, onItem)
      PROVE  Base'
  BY <1>2, OtherDeviceKeeps
<1>3. ASSUME NEW c \in Clients, Proceeds(c)
      PROVE  Base'
  BY <1>3, ServeReadKeeps, ReadArrivesKeeps, ShowLoadKeeps, PageKeeps, StreamKeeps, ResyncKeeps, ServeCallKeeps,
     CallAnsweredKeeps DEF Proceeds
<1>4. ASSUME NEW c \in Clients, User(c)
      PROVE  Base'
  BY <1>4, OpenKeeps, PageKeeps, ShowKeeps, UserSends, DialogKeeps DEF User
<1>5. ASSUME NEW c \in Clients, StreamDrops(c)
      PROVE  Base'
  BY <1>5, StreamKeeps
<1>6. ASSUME NEW c \in Clients, NEW l \in Lists, ReadFails(c, l)
      PROVE  Base'
  BY <1>6, ReadFailsKeeps
<1> QED
  BY <1>1, <1>2, <1>3, <1>4, <1>5, <1>6 DEF Next

\* The invariant of the devices, of which the properties below are parts.
THEOREM PageInvariance == Spec => []Base
<1> QED
  BY BaseInit, BaseStep, PTL DEF Spec

\* PagesWellFormed: every page is in a state its screen can be in, only the pages in sight
\* listen, and no stream has more messages than there have been commits.
THEOREM PagesAreWellFormed == Spec => []PagesWellFormed
<1>1. ASSUME Base PROVE PagesWellFormed
  <2>1. HiddenPageIsSilent
    BY <1>1 DEF Base, Consistent, HiddenPageIsSilent
  <2>2. \A c \in Clients : events[c] \in Messages /\ Len(events[c]) \in Nat
    <3>1. events \in [Clients -> Messages]
      BY <1>1 DEF Base, Typed
    <3>2. \A q \in Messages : Len(q) \in Nat
      BY DEF Messages
    <3> QED
      BY <3>1, <3>2
  <2>3. Committed <= MaxWrites + 1 /\ Committed \in Int
    <3>1. left.writes \in Nat /\ Cardinality(Sent) \in Nat /\ MaxWrites \in Nat
      BY <1>1, BoundAssumption, FS_CardinalityType DEF Base, Typed, Bounded, LeftRow
    <3> QED
      BY <3>1 DEF Committed
  <2>4. ASSUME NEW c \in Clients PROVE Len(events[c]) <= MaxWrites + 1
    <3>1. Len(events[c]) <= Committed /\ Len(events[c]) \in Nat /\ MaxWrites \in Nat
      BY <1>1, <2>2, BoundAssumption DEF Base, Bounded
    <3> QED
      BY <2>3, <3>1
  <2>5. TypeOK
    BY <1>1, <2>2, <2>4 DEF Base, Typed, TypeOK, Messages, PageRow, LoadRow, ReadRow, CallRow, FormRow, LeftRow
  <2> QED
    BY <2>1, <2>5 DEF PagesWellFormed
<1> QED
  BY <1>1, PageInvariance, PTL

--------------------------------------------------------------------------------
(* What a device does is no concern of the others, but for what it tells   *)
(* the server.                                                             *)

\* What becomes of a device when something happens elsewhere.
Elsewhere(c) ==
  /\ page'[c] = page[c] /\ shown'[c] = shown[c] /\ load'[c] = load[c] /\ get'[c] = get[c]
  /\ stream'[c] = stream[c] /\ timer'[c] = timer[c] /\ call'[c] = call[c] /\ form'[c] = form[c]

\* A commit reaches every stream that is open.
Told(c) == (server' = server /\ events'[c] = events[c]) \/ stream[c] # "on" \/ events'[c] # <<>>

\* Whoever commits, a device that listens is told.
LEMMA CommitTells ==
  ASSUME Base, NEW c \in Clients, NEW l, NEW onItem, Commit(l, onItem)
  PROVE  Told(c)
<1>1. events' = [d \in Clients |-> IF stream[d] = "on" THEN Append(events[d], l) ELSE events[d]]
  BY DEF Commit, Publish
<1>2. events[c] \in Messages
  BY ClientRows DEF Base
<1>3. Append(events[c], l) # <<>>
  BY <1>2 DEF Messages
<1> QED
  BY <1>1, <1>3 DEF Told

\* The steps of the reads of another device.
LEMMA ReadsElsewhere ==
  ASSUME Base, NEW c \in Clients, NEW d \in Clients \ {c},
         \/ \E l \in Lists : ServeRead(d, l) \/ ReadArrives(d, l) \/ ReadFails(d, l)
         \/ ShowLoad(d) \/ ResyncFires(d)
  PROVE  Elsewhere(c) /\ server' = server /\ events'[c] = events[c]
<1>1. ASSUME NEW l \in Lists, ServeRead(d, l) PROVE Elsewhere(c) /\ server' = server /\ events'[c] = events[c]
  BY <1>1 DEF ServeRead, Elsewhere, Base, Typed
<1>2. ASSUME NEW l \in Lists, ReadArrives(d, l) PROVE Elsewhere(c) /\ server' = server /\ events'[c] = events[c]
  BY <1>2 DEF ReadArrives, Elsewhere, Base, Typed
<1>3. ASSUME NEW l \in Lists, ReadFails(d, l) PROVE Elsewhere(c) /\ server' = server /\ events'[c] = events[c]
  BY <1>3 DEF ReadFails, Elsewhere, Base, Typed
<1>4. CASE ShowLoad(d)
  BY <1>4 DEF ShowLoad, Elsewhere, Base, Typed
<1>5. CASE ResyncFires(d)
  BY <1>5 DEF ResyncFires, StartLoad, reads, Elsewhere, Base, Typed
<1> QED
  BY <1>1, <1>2, <1>3, <1>4, <1>5

\* The steps of the page and the stream of another device.
LEMMA PageElsewhere ==
  ASSUME Base, NEW c \in Clients, NEW d \in Clients \ {c},
         \/ \E l \in Lists : Open(d, l) \/ Return(d, l)
         \/ OpenDone(d) \/ ShowOverview(d) \/ Leave(d) \/ Hide(d) \/ Show(d)
         \/ Subscribe(d) \/ StreamDrops(d) \/ Deliver(d)
  PROVE  Elsewhere(c) /\ server' = server /\ events'[c] = events[c]
<1>1. ASSUME NEW l \in Lists, Open(d, l) PROVE Elsewhere(c) /\ server' = server /\ events'[c] = events[c]
  BY <1>1 DEF Open, OpenList, StartLoad, Elsewhere, Base, Typed
<1>2. ASSUME NEW l \in Lists, Return(d, l) PROVE Elsewhere(c) /\ server' = server /\ events'[c] = events[c]
  BY <1>2 DEF Return, OpenList, StartLoad, reads, Elsewhere, Base, Typed
<1>3. CASE OpenDone(d)
  BY <1>3 DEF OpenDone, ConnectRealtime, Reset, Elsewhere, Base, Typed
<1>4. CASE ShowOverview(d) \/ Leave(d) \/ Hide(d)
  BY <1>4 DEF ShowOverview, Leave, Hide, StopRealtime, Reset, Elsewhere, Base, Typed
<1>5. CASE Show(d)
  BY <1>5 DEF Show, realtime, Elsewhere, Base, Typed
<1>6. CASE Subscribe(d) \/ StreamDrops(d)
  BY <1>6 DEF Subscribe, StreamDrops, Greeting, Elsewhere, Base, Typed
<1>7. CASE Deliver(d)
  BY <1>7 DEF Deliver, Elsewhere, Base, Typed
<1> QED
  BY <1>1, <1>2, <1>3, <1>4, <1>5, <1>6, <1>7

\* The steps of the dialogs and writes of another device.
LEMMA WritesElsewhere ==
  ASSUME Base, NEW c \in Clients, NEW d \in Clients \ {c},
         \/ Toggle(d) \/ Reorder(d) \/ SubmitEdit(d) \/ UseMyConflict(d)
         \/ BeginEdit(d) \/ CancelEdit(d) \/ UseLatestConflict(d) \/ CallAnswered(d)
  PROVE  Elsewhere(c) /\ server' = server /\ events'[c] = events[c]
<1>1. CASE Toggle(d) \/ Reorder(d) \/ SubmitEdit(d) \/ UseMyConflict(d)
  BY <1>1 DEF Toggle, Reorder, SubmitEdit, UseMyConflict, Send, Elsewhere, Base, Typed
<1>2. CASE BeginEdit(d) \/ CancelEdit(d)
  BY <1>2 DEF BeginEdit, CancelEdit, Elsewhere, Base, Typed
<1>3. CASE UseLatestConflict(d)
  BY <1>3 DEF UseLatestConflict, StartLoad, Elsewhere, Base, Typed
<1>4. CASE CallAnswered(d)
  BY <1>4 DEF CallAnswered, StartLoad, Elsewhere, Base, Typed
<1> QED
  BY <1>1, <1>2, <1>3, <1>4

\* Every step of another device.
LEMMA StepElsewhere ==
  ASSUME Base, NEW c \in Clients, NEW d \in Clients \ {c},
         Proceeds(d) \/ User(d) \/ StreamDrops(d) \/ \E l \in Lists : ReadFails(d, l)
  PROVE  Elsewhere(c) /\ Told(c)
<1>1. CASE ServeCall(d)
  <2>1. Elsewhere(c)
    BY <1>1 DEF ServeCall, Elsewhere, Base, Typed
  <2>2. Told(c)
    <3>1. CASE Commit(call[d].list, call[d].kind # "order")
      BY <3>1, CommitTells
    <3>2. CASE UNCHANGED <<server, events>>
      BY <3>2 DEF Told
    <3> QED
      BY <1>1, <3>1, <3>2 DEF ServeCall
  <2> QED
    BY <2>1, <2>2
<1>2. CASE ~ServeCall(d)
  BY <1>2, ReadsElsewhere, PageElsewhere, WritesElsewhere DEF Proceeds, User, Told
<1> QED
  BY <1>1, <1>2

--------------------------------------------------------------------------------
(* The page shows the list it has opened.                                  *)

\* A page that loads nothing shows the list it is at.
Settled(c) == load[c].list = "none" => shown[c].list = page[c].active

\* A load has a list.
LEMMA StartHere ==
  ASSUME Base, NEW c \in Clients, NEW l \in Lists, StartLoad(c, l)
  PROVE  load'[c] = [list |-> l, snap |-> Nothing] /\ load'[c].list = l /\ l # "none"
<1>1. load'[c] = [list |-> l, snap |-> Nothing]
  BY StartRows DEF Base
<1> QED
  BY <1>1, ListAssumption

\* The page of a device keeps to the list it is at, whatever the device does but reading;
\* without calls for another order nothing but a read puts rows on the screen.
LEMMA SettledHere ==
  ASSUME Base, NEW c \in Clients, "order" \notin Kinds, Settled(c),
         Proceeds(c) \/ User(c) \/ StreamDrops(c)
  PROVE  Settled(c)'
<1>0. /\ page[c] \in PageRow /\ shown[c] \in LoadRow /\ load[c] \in LoadRow /\ call[c] \in CallRow /\ Consistent(c)
      /\ page[c].active \in ListOrNone /\ page \in [Clients -> PageRow] /\ load \in [Clients -> LoadRow]
  BY ClientRows DEF Base, Typed, PageRow
<1>1. ASSUME NEW l \in Lists, ServeRead(c, l) PROVE Settled(c)'
  BY <1>1 DEF ServeRead, Settled
<1>2. ASSUME NEW l \in Lists, ReadArrives(c, l) PROVE Settled(c)'
  <2>1. page'[c].active = page[c].active /\ load'[c].list = load[c].list /\ shown' = shown
    BY <1>0, <1>2 DEF ReadArrives, PageRow, LoadRow
  <2> QED
    BY <2>1 DEF Settled
<1>3. CASE ShowLoad(c)
  <2>1. load[c].list = page[c].active
    BY <1>0, <1>3 DEF ShowLoad, Consistent
  <2>2. shown'[c] = load[c] /\ page' = page
    BY <1>3, <2>1 DEF ShowLoad, Base, Typed
  <2> QED
    BY <2>1, <2>2 DEF Settled
<1>4. CASE OpenDone(c) \/ ShowOverview(c) \/ Leave(c) \/ Hide(c) \/ Show(c)
  <2>1. page'[c].active = page[c].active /\ load' = load /\ shown' = shown
    BY <1>0, <1>4 DEF OpenDone, ShowOverview, Leave, Hide, Show, PageRow
  <2> QED
    BY <2>1 DEF Settled
<1>5. CASE Subscribe(c) \/ StreamDrops(c) \/ Deliver(c) \/ ServeCall(c)
  BY <1>5 DEF Subscribe, StreamDrops, Deliver, ServeCall, Settled
<1>6. CASE ResyncFires(c)
  <2>1. page' = page /\ shown' = shown /\ (UNCHANGED <<load, get>> \/ (StartLoad(c, timer[c]) /\ timer[c] # "none"))
    BY <1>6 DEF ResyncFires, reads
  <2>2. timer[c] \in ListOrNone
    BY ClientRows DEF Base
  <2> QED
    BY <2>1, <2>2, StartHere DEF Settled, ListOrNone
<1>7. CASE CallAnswered(c)
  <2>1. page' = page /\ page[c].active \in Lists
    BY <1>0, <1>7 DEF CallAnswered, Consistent, NoCall, ListOrNone
  <2>2. call[c].kind # "order"
    BY <1>0, KindAssumption DEF CallRow
  <2>3. (UNCHANGED <<shown, load, get>>) \/ StartLoad(c, page[c].active)
    BY <1>7, <2>2 DEF CallAnswered
  <2> QED
    BY <2>1, <2>3, StartHere DEF Settled
<1>8. ASSUME NEW l \in Lists, Open(c, l) PROVE Settled(c)'
  <2>1. StartLoad(c, l)
    BY <1>8 DEF Open, OpenList
  <2> QED
    BY <2>1, StartHere DEF Settled
<1>9. ASSUME NEW l \in Lists, Return(c, l) PROVE Settled(c)'
  <2>1. CASE OpenList(c, l)
    <3>1. StartLoad(c, l)
      BY <2>1 DEF OpenList
    <3> QED
      BY <3>1, StartHere DEF Settled
  <2>2. CASE page' = [page EXCEPT ![c].away = FALSE] /\ UNCHANGED reads
    <3>1. page'[c].active = page[c].active /\ load' = load /\ shown' = shown
      BY <1>0, <1>9, <2>2 DEF Return, reads, PageRow
    <3> QED
      BY <3>1 DEF Settled
  <2> QED
    BY <1>9, <2>1, <2>2 DEF Return
<1>10. CASE Toggle(c) \/ Reorder(c) \/ SubmitEdit(c) \/ UseMyConflict(c) \/ BeginEdit(c) \/ CancelEdit(c)
  BY <1>10 DEF Toggle, Reorder, SubmitEdit, UseMyConflict, Send, BeginEdit, CancelEdit, Settled
<1>11. CASE UseLatestConflict(c)
  <2>1. page[c].active \in Lists /\ StartLoad(c, page[c].active)
    BY <1>0, <1>11 DEF UseLatestConflict, Consistent, NoForm, ListOrNone
  <2> QED
    BY <2>1, StartHere DEF Settled
<1> QED
  BY <1>1, <1>2, <1>3, <1>4, <1>5, <1>6, <1>7, <1>8, <1>9, <1>10, <1>11 DEF Proceeds, User

\* Nothing but a read that fails uses up a failure.
LEMMA FailuresKept ==
  ASSUME Base, NEW c \in Clients, Proceeds(c) \/ User(c) \/ StreamDrops(c)
  PROVE  left'.failures = left.failures
<1>0. left \in LeftRow
  BY DEF Base, Typed
<1>1. ASSUME Spend("moves") \/ Spend("writes") \/ Spend("drops") PROVE left'.failures = left.failures
  BY <1>0, <1>1, Spent
<1>2. ASSUME Proceeds(c) PROVE left' = left
  BY <1>2 DEF Proceeds, ServeRead, ReadArrives, ShowLoad, OpenDone, Subscribe, Deliver, ResyncFires, ServeCall, CallAnswered
<1>3. ASSUME User(c) PROVE left' = left \/ Spend("moves") \/ Spend("writes")
  BY <1>3 DEF User, Open, Return, Navigates, ShowOverview, Leave, Hide, Show, Toggle, Reorder, Send, BeginEdit, CancelEdit,
              SubmitEdit, UseMyConflict, UseLatestConflict
<1>4. ASSUME StreamDrops(c) PROVE Spend("drops")
  BY <1>4 DEF StreamDrops
<1> QED
  BY <1>1, <1>2, <1>3, <1>4

\* A read that fails does.
LEMMA FailureSpent ==
  ASSUME Base, NEW c \in Clients, NEW l \in Lists, ReadFails(c, l)
  PROVE  left'.failures # MaxFailures /\ left.failures # 0
<1>1. left \in LeftRow /\ Spend("failures") /\ MaxFailures \in Nat
  BY BoundAssumption DEF Base, Typed, ReadFails
<1>2. left.failures \in 0 .. MaxFailures /\ left'.failures = left.failures - 1 /\ left.failures > 0
  BY <1>1, Spent DEF LeftRow
<1> QED
  BY <1>1, <1>2

\* ShownListIsActive: a page that has opened a list, and whose reads have all been answered,
\* shows that list. With calls for another order it need not: the answer of one puts the list
\* on the screen that was shown when it was sent.
THEOREM ShownListIsTheActiveOne ==
  ASSUME "order" \notin Kinds
  PROVE  Spec => []ShownListIsActive
<1> DEFINE Inv == left.failures = MaxFailures => \A c \in Clients : Settled(c)
<1>1. Init => Inv
  BY DEF Init, Settled, NoLoad
<1>2. ASSUME Base, Inv, [Next]_vars PROVE Inv'
  <2> SUFFICES ASSUME left'.failures = MaxFailures, NEW c \in Clients PROVE Settled(c)'
    OBVIOUS
  <2>1. CASE UNCHANGED vars
    BY <1>2, <2>1 DEF vars, Settled
  <2>2. ASSUME NEW l \in Lists, NEW onItem \in BOOLEAN, OtherDevice(l, onItem) PROVE Settled(c)'
    <3>1. left'.failures = left.failures
      BY <1>2, <2>2, Spent DEF OtherDevice, Base, Typed
    <3> QED
      BY <1>2, <2>2, <3>1 DEF OtherDevice, Settled
  <2>3. ASSUME NEW d \in Clients, Proceeds(d) \/ User(d) \/ StreamDrops(d) PROVE Settled(c)'
    <3>1. Settled(c)
      BY <1>2, <2>3, FailuresKept
    <3>2. CASE d = c
      BY <1>2, <2>3, <3>1, <3>2, SettledHere
    <3>3. CASE d # c
      BY <1>2, <2>3, <3>1, <3>3, StepElsewhere DEF Elsewhere, Settled
    <3> QED
      BY <3>2, <3>3
  <2>4. ASSUME NEW d \in Clients, NEW l \in Lists, ReadFails(d, l) PROVE Settled(c)'
    BY <1>2, <2>4, FailureSpent
  <2> QED
    BY <1>2, <2>1, <2>2, <2>3, <2>4 DEF Next
<1>3. Inv => ShownListIsActive
  BY DEF Settled, NoLoad, ShownListIsActive
<1> HIDE DEF Inv
<1> QED
  BY <1>1, <1>2, <1>3, PageInvariance, PTL DEF Spec

--------------------------------------------------------------------------------
(* A page that shows an old state of its list hears of it.                 *)

\* Neither a message nor a timer is left that would bring the page up to date.
Quiet(c) == stream[c] = "on" /\ events[c] = <<>> /\ timer[c] = "none"

\* What the screen shows is what the server has, or what is being read is.
Current(c) == IF load[c].list = "none" THEN ~Stale(c) ELSE WillCatchUp(c)

\* A read in flight is the one that the load waits for, and a device of which nothing is to be
\* expected is current, with no order on its way that the server has accepted.
Fresh(c) ==
  /\ \A l \in Lists : get[c][l].phase = "no" => get[c][l] = NoRead
  /\ \A l \in Lists : get[c][l] # NoRead => load[c] = [list |-> l, snap |-> Nothing]
  /\ Quiet(c) => call[c].phase # "done" /\ Current(c)

\* What happens elsewhere leaves a device as it is, or sends it a message.
LEMMA FreshElsewhere ==
  ASSUME Base, NEW c \in Clients, Fresh(c), Elsewhere(c), Told(c)
  PROVE  Fresh(c)'
<1>1. Quiet(c)' => Quiet(c) /\ server' = server
  <2>1. stream[c] # "on" => events[c] = <<>>
    BY DEF Base, Consistent
  <2> QED
    BY <2>1 DEF Quiet, Elsewhere, Told
<1>2. Current(c) /\ server' = server => Current(c)'
  BY DEF Elsewhere, Current, Stale, WillCatchUp
<1> QED
  BY <1>1, <1>2 DEF Fresh, Elsewhere

\* A load of the list that is shown is answered with what the server has, by a read that
\* starts now or by the one that is in flight.
LEMMA FreshLoad ==
  ASSUME Base, NEW c \in Clients, \A a, b \in Lists : a = b, NEW l \in Lists, StartLoad(c, l), server' = server,
         page'[c].active = l, UNCHANGED <<stream, events>>, call'[c].phase = "done" => call[c].phase = "done", Fresh(c),
         timer'[c] = timer[c] \/ (get[c][l].phase # "answered" /\ call[c].phase # "done")
  PROVE  Fresh(c)'
<1>1. get[c] \in [Lists -> ReadRow] /\ load[c] \in LoadRow
  BY ClientRows DEF Base
<1>2. load'[c] = [list |-> l, snap |-> Nothing] /\ l # "none"
      /\ get'[c][l] = IF get[c][l] = NoRead THEN [NoRead EXCEPT !.phase = "sent"] ELSE get[c][l]
  BY StartRows, ListAssumption DEF Base
<1>3. \A m \in Lists : m = l
  OBVIOUS
<1>4. [NoRead EXCEPT !.phase = "sent"].phase = "sent" /\ NoRead.phase = "no" /\ NoRead.snap = Nothing
  BY DEF NoRead
<1>5. get'[c][l].phase # "no" /\ (get[c][l] # NoRead => get[c][l].phase \in {"sent", "answered"})
  BY <1>1, <1>2, <1>4 DEF Fresh, ReadRow
<1>6. ASSUME Quiet(c)' PROVE get'[c][l].phase = "sent" \/ get'[c][l].snap = server[l]
  <2>1. CASE get[c][l] = NoRead
    BY <1>2, <1>4, <2>1
  <2>2. CASE get[c][l].phase = "sent"
    BY <1>2, <1>4, <2>2
  <2>3. CASE get[c][l].phase = "answered"
    <3>1. Quiet(c) /\ get[c][l] # NoRead
      BY <1>4, <1>6, <2>3 DEF Quiet
    <3>2. load[c] = [list |-> l, snap |-> Nothing] /\ Current(c)
      BY <3>1 DEF Fresh
    <3>3. WillCatchUp(c) /\ load[c].list = l /\ load[c].snap = Nothing
      BY <1>2, <3>2 DEF Current
    <3>4. server[l] # Nothing
      BY ServerRows
    <3> QED
      BY <1>2, <2>3, <3>1, <3>3, <3>4 DEF WillCatchUp
  <2> QED
    BY <1>5, <2>1, <2>2, <2>3
<1>7. Quiet(c)' => call'[c].phase # "done" /\ Current(c)'
  <2>1. load'[c].list = l /\ load'[c].snap = Nothing
    BY <1>2
  <2> QED
    BY <1>2, <1>6, <2>1 DEF Current, WillCatchUp, Fresh, Quiet
<1> QED
  BY <1>2, <1>3, <1>5, <1>7 DEF Fresh

\* A step that leaves what is read and shown alone keeps a device fresh, if afterwards more is
\* to be expected than before, or the same.
LEMMA FreshStill ==
  ASSUME Base, NEW c \in Clients, Fresh(c), UNCHANGED <<get, load, shown>>,
         page'[c].active = page[c].active,
         ~Quiet(c)' \/ (Quiet(c) /\ server' = server /\ call'[c].phase # "done")
  PROVE  Fresh(c)'
<1>1. Quiet(c)' => call'[c].phase # "done" /\ Current(c)'
  BY DEF Fresh, Current, Stale, WillCatchUp
<1> QED
  BY <1>1 DEF Fresh

\* The server answers the read, the answer arrives, and is shown.
LEMMA FreshRead ==
  ASSUME Base, NEW c \in Clients, \A a, b \in Lists : a = b, Fresh(c),
         (\E l \in Lists : ServeRead(c, l) \/ ReadArrives(c, l)) \/ ShowLoad(c)
  PROVE  Fresh(c)'
<1>0. /\ get[c] \in [Lists -> ReadRow] /\ load[c] \in LoadRow /\ page[c] \in PageRow /\ Consistent(c)
      /\ NoRead.phase = "no" /\ NoRead.snap = Nothing /\ NoLoad.list = "none"
  BY ClientRows DEF Base, NoRead, NoLoad
<1>1. ASSUME NEW l \in Lists, ServeRead(c, l) PROVE Fresh(c)'
  <2>1. get[c][l].phase = "sent" /\ UNCHANGED <<server, page, shown, load, stream, events, timer, call>>
    BY <1>1 DEF ServeRead
  <2>2. get'[c][l] = [phase |-> "answered", snap |-> server[l]] /\ \A m \in Lists : m = l
    BY <1>1 DEF ServeRead, Base, Typed
  <2>3. load[c] = [list |-> l, snap |-> Nothing]
    BY <1>0, <2>1 DEF Fresh
  <2>4. load[c].list = l /\ load[c].snap = Nothing /\ l # "none" /\ page[c].active = l
    BY <1>0, <2>3, ListAssumption DEF Consistent
  <2>5. get'[c][l].phase = "answered" /\ get'[c][l].snap = server[l]
    BY <2>2
  <2>6. Current(c)'
    BY <2>1, <2>4, <2>5 DEF Current, WillCatchUp
  <2> QED
    BY <2>1, <2>2, <2>3, <2>5, <2>6 DEF Fresh, Quiet
<1>2. ASSUME NEW l \in Lists, ReadArrives(c, l) PROVE Fresh(c)'
  <2>1. get[c][l].phase = "answered" /\ UNCHANGED <<server, shown, stream, events, timer, call>>
    BY <1>2 DEF ReadArrives
  <2>2. get'[c][l] = NoRead /\ \A m \in Lists : m = l
    BY <1>2 DEF ReadArrives, Base, Typed
  <2>3. load[c] = [list |-> l, snap |-> Nothing]
    BY <1>0, <2>1 DEF Fresh
  <2>4. load[c].list = l /\ load[c].snap = Nothing /\ l # "none"
    BY <2>3, ListAssumption
  <2>5. load'[c].list = l /\ load'[c].snap = get[c][l].snap
    BY <1>0, <1>2, <2>4 DEF ReadArrives, Base, Typed, LoadRow
  <2>6. page'[c].active = page[c].active
    BY <1>0, <1>2 DEF ReadArrives, Base, Typed, PageRow
  <2>7. Current(c) => Current(c)'
    <3>1. server[l] # Nothing
      BY ServerRows
    <3> QED
      BY <2>1, <2>4, <2>5, <2>6, <3>1 DEF Current, WillCatchUp
  <2> QED
    BY <1>0, <2>1, <2>2, <2>7 DEF Fresh, Quiet
<1>3. CASE ShowLoad(c)
  <2>1. load[c].snap # Nothing /\ UNCHANGED <<server, page, get, stream, events, timer, call>>
    BY <1>3 DEF ShowLoad
  <2>2. load[c].list = page[c].active /\ load[c].list # "none"
    BY <1>0, <2>1 DEF Consistent
  <2>3. load'[c] = NoLoad /\ shown'[c] = load[c]
    BY <1>3, <2>2 DEF ShowLoad, Base, Typed
  <2>4. \A l \in Lists : get[c][l] = NoRead
    <3>1. ASSUME NEW l \in Lists, get[c][l] # NoRead PROVE load[c].snap = Nothing
      <4>1. load[c] = [list |-> l, snap |-> Nothing]
        BY <3>1 DEF Fresh
      <4> QED
        BY <4>1
    <3> QED
      BY <2>1, <3>1
  <2>5. Current(c) => Current(c)'
    <3>1. Current(c) => load[c].snap = server[load[c].list]
      BY <2>1, <2>2 DEF Current, WillCatchUp
    <3>2. load[c] = [list |-> load[c].list, snap |-> load[c].snap]
      BY <1>0 DEF LoadRow
    <3> QED
      BY <1>0, <2>1, <2>2, <2>3, <3>1, <3>2 DEF Current, Stale
  <2> QED
    BY <2>1, <2>4, <2>5 DEF Fresh, Quiet
<1> QED
  BY <1>1, <1>2, <1>3

\* The stream opens, breaks, brings a message, or is closed by the page.
LEMMA FreshStream ==
  ASSUME Base, NEW c \in Clients, Fresh(c),
         Subscribe(c) \/ StreamDrops(c) \/ Deliver(c) \/ OpenDone(c) \/ ShowOverview(c) \/ Leave(c) \/ Hide(c) \/ Show(c)
  PROVE  Fresh(c)'
<1>0. page[c] \in PageRow /\ Consistent(c) /\ events[c] \in Messages
  BY ClientRows DEF Base
<1>1. UNCHANGED <<get, load, shown>>
  BY DEF Subscribe, StreamDrops, Deliver, OpenDone, ShowOverview, Leave, Hide, Show
<1>2. page'[c].active = page[c].active
  <2>1. CASE Subscribe(c) \/ StreamDrops(c) \/ Deliver(c)
    BY <2>1 DEF Subscribe, StreamDrops, Deliver
  <2>2. CASE OpenDone(c) \/ Hide(c) \/ Show(c) \/ Leave(c)
    BY <1>0, <2>2 DEF OpenDone, Hide, Show, Leave, Base, Typed, PageRow
  <2>3. CASE ShowOverview(c)
    BY <1>0, <2>3 DEF ShowOverview, Base, Typed, PageRow
  <2> QED
    BY <2>1, <2>2, <2>3
<1>3. ~Quiet(c)'
  <2>1. CASE Subscribe(c)
    <3>1. events'[c] = <<"opened">>
      BY <2>1 DEF Subscribe, Greeting, Base, Typed
    <3> QED
      BY <3>1 DEF Quiet
  <2>2. CASE StreamDrops(c)
    BY <2>2 DEF StreamDrops, Quiet, Base, Typed
  <2>3. CASE Deliver(c)
    <3>1. page[c].active # "none" /\ events[c] # <<>>
      BY <1>0, <2>3 DEF Deliver, Consistent
    <3>2. Head(events[c]) \in Lists \cup {"opened"}
      BY <1>0, <3>1 DEF Messages
    <3>3. timer'[c] = IF Head(events[c]) = "opened" THEN page[c].active ELSE Head(events[c])
      BY <2>3 DEF Deliver, Base, Typed
    <3> QED
      BY <3>1, <3>2, <3>3, ListAssumption DEF Quiet
  <2>4. CASE OpenDone(c)
    BY <2>4 DEF OpenDone, ConnectRealtime, Reset, Quiet, Base, Typed
  <2>5. CASE ShowOverview(c) \/ Leave(c) \/ Hide(c)
    BY <2>5 DEF ShowOverview, Leave, Hide, StopRealtime, Reset, Quiet, Base, Typed
  <2>6. CASE Show(c)
    <3>1. stream[c] = "off"
      BY <1>0, <2>6 DEF Show, Consistent
    <3> QED
      BY <2>6, <3>1 DEF Show, realtime, Quiet, Base, Typed
  <2> QED
    BY <2>1, <2>2, <2>3, <2>4, <2>5, <2>6
<1> QED
  BY <1>1, <1>2, <1>3, FreshStill

\* A list is opened, or read again when the timer fires.
LEMMA FreshOpen ==
  ASSUME Base, NEW c \in Clients, \A a, b \in Lists : a = b, ~SlowAnswers, Fresh(c),
         (\E l \in Lists : Open(c, l) \/ Return(c, l)) \/ ResyncFires(c)
  PROVE  Fresh(c)'
<1>0. page[c] \in PageRow /\ Consistent(c) /\ timer[c] \in ListOrNone /\ call[c] \in CallRow
  BY ClientRows DEF Base
<1>1. UNCHANGED <<server, shown, stream, events, call>>
  BY DEF Open, Return, ResyncFires
<1>2. ASSUME NEW l \in Lists, OpenList(c, l), timer' = timer PROVE Fresh(c)'
  <2>1. page'[c].active = l /\ StartLoad(c, l)
    BY <1>0, <1>2 DEF OpenList, Base, Typed, PageRow
  <2> QED
    BY <1>1, <1>2, <2>1, FreshLoad
<1>3. ASSUME page'[c].active = page[c].active, UNCHANGED <<get, load>>, timer' = timer PROVE Fresh(c)'
  <2>1. Quiet(c)' => Quiet(c) /\ server' = server /\ call'[c].phase # "done"
    BY <1>1, <1>3 DEF Quiet, Fresh
  <2> QED
    BY <1>1, <1>3, <2>1, FreshStill
<1>4. ASSUME NEW l \in Lists, Open(c, l) PROVE Fresh(c)'
  BY <1>2, <1>4 DEF Open
<1>5. ASSUME NEW l \in Lists, Return(c, l) PROVE Fresh(c)'
  <2>1. timer' = timer
    BY <1>5 DEF Return
  <2>2. CASE page' = [page EXCEPT ![c].away = FALSE] /\ UNCHANGED reads
    <3>1. page'[c].active = page[c].active /\ UNCHANGED <<get, load>>
      BY <1>0, <2>2 DEF reads, Base, Typed, PageRow
    <3> QED
      BY <1>3, <2>1, <3>1
  <2> QED
    BY <1>2, <1>5, <2>1, <2>2 DEF Return
<1>6. CASE ResyncFires(c)
  <2>1. timer[c] # "none" /\ ~Overdue(c) /\ page' = page /\ timer'[c] = "none"
    BY <1>6 DEF ResyncFires, Base, Typed
  <2>2. page[c].active \in Lists /\ timer[c] \in Lists
    BY <1>0, <2>1 DEF Consistent, ListOrNone, PageRow
  <2>3. timer[c] = page[c].active
    BY <2>2
  <2>4. StartLoad(c, page[c].active)
    BY <1>6, <2>3 DEF ResyncFires
  <2>5. get[c][page[c].active].phase # "answered" /\ call[c].phase # "done"
    BY <2>1 DEF Overdue
  <2> QED
    BY <1>1, <2>1, <2>2, <2>4, <2>5, FreshLoad
<1> QED
  BY <1>4, <1>5, <1>6

\* The user writes, and the server answers.
LEMMA FreshWrite ==
  ASSUME Base, NEW c \in Clients, \A a, b \in Lists : a = b, Fresh(c),
         \/ Toggle(c) \/ Reorder(c) \/ SubmitEdit(c) \/ UseMyConflict(c) \/ BeginEdit(c) \/ CancelEdit(c)
         \/ UseLatestConflict(c) \/ ServeCall(c) \/ CallAnswered(c)
  PROVE  Fresh(c)'
<1>0. page[c] \in PageRow /\ Consistent(c) /\ call[c] \in CallRow /\ NoCall.phase = "none" /\ page[c].active \in ListOrNone
  BY ClientRows DEF Base, NoCall, PageRow
<1>1. page' = page /\ stream' = stream /\ timer' = timer
  BY DEF Toggle, Reorder, SubmitEdit, UseMyConflict, Send, BeginEdit, CancelEdit, UseLatestConflict, ServeCall, CallAnswered
<1>2. CASE Toggle(c) \/ Reorder(c) \/ SubmitEdit(c) \/ UseMyConflict(c) \/ BeginEdit(c) \/ CancelEdit(c)
  <2>1. UNCHANGED <<server, get, load, shown, events>>
    BY <1>2 DEF Toggle, Reorder, SubmitEdit, UseMyConflict, Send, BeginEdit, CancelEdit
  <2>2. call'[c].phase = "sent" \/ call'[c] = call[c]
    BY <1>0, <1>2 DEF Toggle, Reorder, SubmitEdit, UseMyConflict, Send, BeginEdit, CancelEdit, Base, Typed
  <2>3. Quiet(c)' => Quiet(c) /\ server' = server /\ call'[c].phase # "done"
    BY <1>1, <2>1, <2>2 DEF Quiet, Fresh
  <2> QED
    BY <1>1, <2>1, <2>3, FreshStill
<1>3. CASE UseLatestConflict(c)
  <2>1. UNCHANGED <<server, events, call>> /\ StartLoad(c, page[c].active) /\ form[c] # NoForm
    BY <1>3 DEF UseLatestConflict, NoForm
  <2>2. page[c].active \in Lists
    BY <1>0, <2>1 DEF Consistent, ListOrNone
  <2> QED
    BY <1>1, <2>1, <2>2, FreshLoad
<1>4. CASE ServeCall(c)
  <2>1. UNCHANGED <<get, load, shown>>
    BY <1>4 DEF ServeCall
  <2>2. CASE Accepted(c)
    <3>1. Commit(call[c].list, call[c].kind # "order")
      BY <1>4, <2>2 DEF ServeCall
    <3>2. events[c] \in Messages
      BY ClientRows DEF Base
    <3>3. Append(events[c], call[c].list) # <<>>
      BY <3>2 DEF Messages
    <3>4. ~Quiet(c)'
      BY <1>1, <3>1, <3>3 DEF Commit, Publish, Quiet
    <3> QED
      BY <1>1, <2>1, <3>4, FreshStill
  <2>3. CASE ~Accepted(c)
    <3>1. UNCHANGED <<server, events>>
      BY <1>4, <2>3 DEF ServeCall
    <3>2. call'[c].phase = "refused"
      BY <1>0, <1>4, <2>3 DEF ServeCall, Base, Typed, CallRow
    <3>3. Quiet(c)' => Quiet(c) /\ server' = server /\ call'[c].phase # "done"
      BY <1>1, <3>1, <3>2 DEF Quiet
    <3> QED
      BY <1>1, <2>1, <3>3, FreshStill
  <2> QED
    BY <2>2, <2>3
<1>5. CASE CallAnswered(c)
  <2>1. UNCHANGED <<server, events>> /\ call'[c] = NoCall /\ call[c] # NoCall
    BY <1>0, <1>5 DEF CallAnswered, Base, Typed
  <2>2. page[c].active \in Lists
    BY <1>0, <2>1 DEF Consistent, ListOrNone
  <2>3. CASE call[c].phase = "done" /\ UNCHANGED <<load, get>>
    <3>1. ~Quiet(c)' /\ ~Quiet(c)
      BY <1>1, <2>1, <2>3 DEF Quiet, Fresh
    <3> QED
      BY <2>3, <3>1 DEF Fresh
  <2>4. CASE UNCHANGED <<shown, load, get>>
    <3>1. Quiet(c)' => Quiet(c) /\ server' = server /\ call'[c].phase # "done"
      BY <1>0, <1>1, <2>1 DEF Quiet
    <3> QED
      BY <1>1, <2>4, <3>1, FreshStill
  <2>5. CASE StartLoad(c, page[c].active)
    BY <1>0, <1>1, <2>1, <2>2, <2>5, FreshLoad
  <2> QED
    BY <1>5, <2>3, <2>4, <2>5 DEF CallAnswered
<1> QED
  BY <1>2, <1>3, <1>4, <1>5

\* StalePageWillResync, for pages of one list whose reads succeed and whose resyncs begin
\* only after the answers of the server that are due: a page that listens and shows an old
\* state has a message, a timer or a read that will bring it up to date. With reads that fail
\* or with slow answers it may show an old state for good, and so it may when invalidations of
\* two lists follow one another closely.
THEOREM StalePagesResync ==
  ASSUME ~SlowAnswers, MaxFailures = 0, \A a, b \in Lists : a = b
  PROVE  Spec => []StalePageWillResync
<1> DEFINE Inv == \A c \in Clients : Fresh(c)
<1>1. ASSUME Init PROVE Inv
  <2> SUFFICES ASSUME NEW c \in Clients PROVE Fresh(c)
    OBVIOUS
  <2>1. \A l \in Lists : get[c][l] = NoRead
    BY <1>1 DEF Init
  <2>2. stream[c] = "off"
    BY <1>1 DEF Init
  <2> QED
    BY <2>1, <2>2 DEF Fresh, Quiet
<1>2. ASSUME Base, Inv, [Next]_vars PROVE Inv'
  <2> SUFFICES ASSUME NEW c \in Clients PROVE Fresh(c)'
    OBVIOUS
  <2>0. Fresh(c)
    BY <1>2
  <2> HIDE DEF Inv
  <2>1. CASE UNCHANGED vars
    BY <2>0, <2>1 DEF vars, Fresh, Quiet, Current, Stale, WillCatchUp
  <2>2. ASSUME NEW l \in Lists, NEW onItem \in BOOLEAN, OtherDevice(l, onItem) PROVE Fresh(c)'
    <3>1. Elsewhere(c) /\ Told(c)
      BY <1>2, <2>2, CommitTells DEF OtherDevice, Elsewhere
    <3> QED
      BY <1>2, <2>0, <3>1, FreshElsewhere
  <2>3. ASSUME NEW d \in Clients, NEW l \in Lists, ReadFails(d, l) PROVE FALSE
    <3>1. left.failures # 0 /\ left.failures \in 0 .. MaxFailures
      BY <1>2, <2>3, FailureSpent DEF Base, Typed, LeftRow
    <3> QED
      BY <3>1
  <2>4. ASSUME NEW d \in Clients \ {c}, Proceeds(d) \/ User(d) \/ StreamDrops(d) PROVE Fresh(c)'
    BY <1>2, <2>0, <2>4, StepElsewhere, FreshElsewhere
  <2>5. ASSUME Proceeds(c) \/ User(c) \/ StreamDrops(c) PROVE Fresh(c)'
    BY <1>2, <2>0, <2>5, FreshRead, FreshStream, FreshOpen, FreshWrite DEF Proceeds, User
  <2> QED
    BY <1>2, <2>1, <2>2, <2>3, <2>4, <2>5 DEF Next
<1>3. ASSUME Base, Inv PROVE StalePageWillResync
  <2> SUFFICES ASSUME NEW c \in Clients, stream[c] # "off", Stale(c), Quiet(c) PROVE WillCatchUp(c)
    <3>1. stream \in [Clients -> {"off", "connecting", "on"}]
      BY <1>3 DEF Base, Typed
    <3> QED
      BY <3>1 DEF StalePageWillResync, Quiet
  <2> QED
    BY <1>3 DEF Fresh, Current
<1> HIDE DEF Inv
<1> QED
  BY <1>1, <1>2, <1>3, PageInvariance, PTL DEF Spec
================================================================================
