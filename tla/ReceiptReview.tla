----------------------------- MODULE ReceiptReview ------------------------------
(***************************************************************************)
(* The review of the receipts that were read: one draft of each capture,   *)
(* of which one is shown. Edits are kept in the rows that are shown and    *)
(* saved into the draft when another is selected; a confirmation validates *)
(* the rows first, and reads the draft and its captures after the answer.  *)
(***************************************************************************)
EXTENDS Naturals, Sequences, FiniteSets, SequencesExt

CONSTANTS
  Receipts,         \* captures, each with a receipt of its own
  NoReceipt,        \* no draft is shown; a line the user added
  MaxResults,       \* bound on how often a capture is read
  MaxReviewActs,    \* bound on what the user and the server do
  WorksOnMeanwhile  \* the user works on while a validation is under way, and takes a
                    \* deletion back after the rows shown were replaced

ASSUME ReviewAssumption ==
  /\ IsFiniteSet(Receipts) /\ NoReceipt \notin Receipts /\ MaxResults \in Nat /\ MaxReviewActs \in Nat /\ WorksOnMeanwhile \in BOOLEAN

VARIABLES
  pending,     \* captures on the page that have not been confirmed
  resultOf,    \* the version of the result of a page; 0 before the first
  drafts,      \* state.receiptDrafts
  activeDraft, \* state.activeReceiptDraftKey
  rows,        \* the rows shown, the lines they were read as, and totalMismatchApproved
  undo,        \* what the toast of a deleted line puts back
  confirming,  \* the confirmation or the validation under way
  imports,     \* what the server has imported, in order
  typed,       \* the lines the user has edited in the results as they are
  reviewActs   \* how much has been done

reviewVars == <<pending, resultOf, drafts, activeDraft, rows, undo, confirming, imports, typed, reviewActs>>

NoRows     == [items |-> <<>>, originals |-> <<>>, approved |-> FALSE]
NoUndo     == [index |-> 0, item |-> [of |-> NoReceipt, n |-> 0, edited |-> FALSE], original |-> <<>>]
NotWaiting == [stage |-> "none", items |-> <<>>, sent |-> <<>>]

ReviewInit ==
  /\ pending = Receipts /\ resultOf = [c \in Receipts |-> 0]
  /\ drafts = <<>> /\ activeDraft = NoReceipt /\ rows = NoRows
  /\ undo = NoUndo /\ confirming = NotWaiting
  /\ imports = <<>> /\ typed = {} /\ reviewActs = 0

--------------------------------------------------------------------------------

\* The two lines a page is read as.
LinesRead(c) == [n \in 1 .. 2 |-> [of |-> c, n |-> n, edited |-> FALSE]]

IsActive(d) == d.key = activeDraft

\* The rows that are shown stay with the page.
NotSaved == drafts

\* saveActiveDraft
Saved == [i \in DOMAIN drafts |-> IF IsActive(drafts[i]) THEN [drafts[i] EXCEPT !.rows = rows] ELSE drafts[i]]

\* activateReceiptDraft
Activate(key, ds) ==
  /\ activeDraft' = key
  /\ rows' = (CHOOSE d \in ToSet(ds) : d.key = key).rows

\* extractionForCapture: a draft whose result is still the same keeps its rows.
DraftOf(c, before) ==
  LET kept == {d \in ToSet(before) : d.key = c}
  IN IF \E d \in kept : d.version = resultOf'[c] THEN CHOOSE d \in kept : TRUE
     ELSE [key |-> c, version |-> resultOf'[c],
           rows |-> [items |-> LinesRead(c), originals |-> LinesRead(c),
                     approved |-> \E d \in kept : d.rows.approved]]

\* The elements of s that are in S, in their order.
Among(s, S) ==
  LET kept[n \in 0 .. Len(s)] ==
        IF n = 0 THEN <<>> ELSE IF s[n] \in S THEN Append(kept[n - 1], s[n]) ELSE kept[n - 1]
  IN kept[Len(s)]

Order == SetToSeq(Receipts)    \* of the captures on the page

\* applyCaptureDrafts
ApplyCaptureDrafts ==
  LET keys == Among(Order, {c \in pending : resultOf'[c] > 0})
  IN /\ drafts' = [i \in DOMAIN keys |-> DraftOf(keys[i], Saved)]
     /\ Activate(IF activeDraft \in ToSet(keys) THEN activeDraft ELSE keys[1], drafts')

Acts ==
  /\ reviewActs < MaxReviewActs
  /\ reviewActs' = reviewActs + 1

\* The toast of a deletion outlives the rows it was made in.
UndoAfter == IF WorksOnMeanwhile THEN undo ELSE NoUndo

Editable == confirming.stage = "none" \/ WorksOnMeanwhile

\* A page is read, or read again: the lines of its draft are those of the new result.
PageRead(c) ==
  /\ Acts /\ Editable /\ c \in pending /\ resultOf[c] < MaxResults
  /\ resultOf' = [resultOf EXCEPT ![c] = @ + 1]
  /\ typed' = {l \in typed : l.of # c}
  /\ ApplyCaptureDrafts
  /\ undo' = UndoAfter
  /\ UNCHANGED <<pending, confirming, imports>>

SelectDraft(key) ==
  /\ Acts /\ Editable /\ key # activeDraft
  /\ \E d \in ToSet(drafts) : d.key = key
  /\ drafts' = Saved /\ Activate(key, drafts')
  /\ undo' = UndoAfter
  /\ UNCHANGED <<pending, resultOf, confirming, imports, typed>>

EditLine(i) ==
  /\ Acts /\ Editable /\ i \in DOMAIN rows.items /\ ~rows.items[i].edited
  /\ rows' = [rows EXCEPT !.items[i].edited = TRUE]
  /\ typed' = typed \cup {rows'.items[i]}
  /\ UNCHANGED <<pending, resultOf, drafts, activeDraft, undo, confirming, imports>>

RemovedAt(s, i) == SubSeq(s, 1, i - 1) \o SubSeq(s, i + 1, Len(s))
At(s, i)        == IF i \in DOMAIN s THEN <<s[i]>> ELSE <<>>

DeleteReceiptLine(i) ==
  /\ Acts /\ Editable /\ i \in DOMAIN rows.items
  /\ rows' = [rows EXCEPT !.items = RemovedAt(@, i), !.originals = IF i \in DOMAIN @ THEN RemovedAt(@, i) ELSE @]
  /\ undo' = [index |-> i, item |-> rows.items[i], original |-> At(rows.originals, i)]
  /\ typed' = typed \ {rows.items[i]}
  /\ UNCHANGED <<pending, resultOf, drafts, activeDraft, confirming, imports>>

Insert(s, i, e) == IF i > Len(s) THEN Append(s, e) ELSE InsertAt(s, i, e)

\* restoreReceiptLine: into the rows that are shown.
RestoreReceiptLine ==
  /\ Acts /\ Editable /\ undo.index > 0
  /\ rows' = [rows EXCEPT !.items = Insert(@, undo.index, undo.item),
                          !.originals = IF undo.original = <<>> THEN @ ELSE Insert(@, undo.index, undo.original[1])]
  /\ undo' = NoUndo
  /\ typed' = IF undo.item.edited THEN typed \cup {undo.item} ELSE typed
  /\ UNCHANGED <<pending, resultOf, drafts, activeDraft, confirming, imports>>

AddBlankLine ==
  /\ Acts /\ Editable /\ activeDraft # NoReceipt
  /\ \A l \in ToSet(rows.items) : l.of # NoReceipt
  /\ rows' = [rows EXCEPT !.items = Append(@, [of |-> NoReceipt, n |-> 0, edited |-> FALSE])]
  /\ UNCHANGED <<pending, resultOf, drafts, activeDraft, undo, confirming, imports, typed>>

\* validateRows, validateReceiptLine and confirmReceipt: the rows are read and sent.
ValidateStarts(stage) ==
  /\ Acts /\ confirming.stage = "none" /\ rows.items # <<>>
  /\ confirming' = [NotWaiting EXCEPT !.stage = stage, !.items = rows.items]
  /\ UNCHANGED <<pending, resultOf, drafts, activeDraft, rows, undo, imports, typed>>

\* The answer of the validation: the rows become those that were sent.
ValidateEnds(ok) ==
  /\ confirming.stage = "validating"
  /\ rows' = IF ok THEN [rows EXCEPT !.items = confirming.items] ELSE rows
  /\ confirming' = NotWaiting
  /\ UNCHANGED <<pending, resultOf, drafts, activeDraft, undo, imports, typed, reviewActs>>

Draft == {d \in ToSet(drafts) : IsActive(d)}

\* createImportKey: of all captures on the page, and the text of the draft.
ImportKey(d) == [captures |-> pending, text |-> <<d.key, d.version>>]

\* collectCorrections: each row beside the line in its place.
Corrections(items, originals) ==
  {<<originals[i], items[i]>> : i \in {j \in DOMAIN items \cap DOMAIN originals : items[j] # originals[j]}}

\* The validation of a confirmation: the first mismatch of the total is only pointed
\* out; otherwise the draft that is shown is posted, with the rows that were sent.
ConfirmValidated(linesOk, totalOk) ==
  /\ confirming.stage = "confirming"
  /\ rows' = [rows EXCEPT !.items = confirming.items,
                          !.approved = @ \/ (linesOk /\ ~totalOk)]
  /\ IF linesOk /\ (totalOk \/ rows.approved)
       THEN \E d \in Draft :
              confirming' = [stage |-> "posted", items |-> confirming.items,
                             sent |-> <<[key |-> ImportKey(d), of |-> d.key, items |-> confirming.items,
                                         corrections |-> Corrections(confirming.items, rows.originals),
                                         mismatch |-> ~totalOk]>>]
       ELSE confirming' = NotWaiting
  /\ UNCHANGED <<pending, resultOf, drafts, activeDraft, undo, imports, typed, reviewActs>>

Stored(p) == \E i \in DOMAIN imports : imports[i].key = p.key

\* importReceipt answers a key it knows with the receipt it has.
Import(p) == imports' = IF Stored(p) THEN imports ELSE Append(imports, p)

\* A confirmed draft leaves with its captures, and the next is shown.
Confirmed ==
  LET p    == confirming.sent[1]
      left == Among(drafts, {d \in ToSet(drafts) : d.key # p.of})
  IN /\ confirming.stage = "posted"
     /\ Import(p)
     /\ pending' = pending \ {p.of}
     /\ drafts' = left
     /\ IF left = <<>> THEN activeDraft' = NoReceipt /\ rows' = NoRows ELSE Activate(left[1].key, left)
     /\ undo' = UndoAfter
     /\ confirming' = NotWaiting
     /\ typed' = {l \in typed : l.of # p.of}
     /\ UNCHANGED <<resultOf, reviewActs>>

\* The answer is lost, or the server refuses: the draft is kept.
ConfirmFails ==
  /\ confirming.stage = "posted"
  /\ Import(confirming.sent[1]) \/ UNCHANGED imports
  /\ confirming' = NotWaiting
  /\ UNCHANGED <<pending, resultOf, drafts, activeDraft, rows, undo, typed, reviewActs>>

ReviewNext ==
  \/ \E c \in Receipts : PageRead(c) \/ SelectDraft(c)
  \/ \E i \in 1 .. 4 : EditLine(i) \/ DeleteReceiptLine(i)
  \/ RestoreReceiptLine \/ AddBlankLine
  \/ \E stage \in {"validating", "confirming"} : ValidateStarts(stage)
  \/ \E ok \in BOOLEAN : ValidateEnds(ok)
  \/ \E linesOk, totalOk \in BOOLEAN : ConfirmValidated(linesOk, totalOk)
  \/ Confirmed \/ ConfirmFails

ReviewSpec == ReviewInit /\ [][ReviewNext]_reviewVars

--------------------------------------------------------------------------------

ReviewTypeOK ==
  /\ pending \subseteq Receipts /\ resultOf \in [Receipts -> 0 .. MaxResults]
  /\ activeDraft \in Receipts \cup {NoReceipt}
  /\ \A d \in ToSet(drafts) : d.key \in Receipts /\ d.version = resultOf[d.key]
  /\ activeDraft # NoReceipt => Cardinality(Draft) = 1
  /\ reviewActs \in 0 .. MaxReviewActs

RowsOf(d) == IF IsActive(d) THEN rows ELSE d.rows

\* What the user typed into a draft is there until the draft is confirmed, deleted or
\* read again, however often others are shown, read and confirmed meanwhile.
EditsAreKept ==
  \A l \in typed : l.of # NoReceipt =>
    \E d \in ToSet(drafts) : d.key = l.of /\ l \in ToSet(RowsOf(d).items)

\* Every draft holds lines of its own receipt only, each beside the line it was read as.
DraftsAreApart ==
  \A d \in ToSet(drafts) :
    LET r == RowsOf(d)
    IN /\ \A l \in ToSet(r.items) : l.of \in {d.key, NoReceipt}
       /\ \A i \in DOMAIN r.items \cap DOMAIN r.originals :
            r.items[i].of = r.originals[i].of /\ r.items[i].n = r.originals[i].n

\* "An independently confirmable receipt draft": what is imported as a receipt are the
\* lines of its own capture.
ImportsAreOfTheirReceipts ==
  \A p \in ToSet(imports) : \A l \in ToSet(p.items) : l.of \in {p.of, NoReceipt}

\* What is imported for a capture is what its review showed, whatever else is reviewed.
ReviewSound == EditsAreKept /\ DraftsAreApart /\ ImportsAreOfTheirReceipts

\* "Confirm the idempotent import": a capture is imported once, however often it is
\* confirmed because an answer was lost.
ImportIsIdempotent ==
  \A i, j \in DOMAIN imports : imports[i].of = imports[j].of => i = j
================================================================================
