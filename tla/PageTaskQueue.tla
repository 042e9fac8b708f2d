----------------------------- MODULE PageTaskQueue ------------------------------
(***************************************************************************)
(* Synchronous extraction: ReceiptExtractionService.extract and the two    *)
(* queues its pages go through. A page takes a slot of #pageQueue; there   *)
(* an image waits for the only Tesseract process, and a PDF waits for a    *)
(* slot of #aiQueue while it holds its own. Verification takes the pages   *)
(* of a request in order, each through #aiQueue.                           *)
(***************************************************************************)
EXTENDS Naturals, Sequences, FiniteSets

CONSTANTS
  Requests,   \* requests to /api/v1/receipts/extract
  PageCount,  \* captures of a request
  Pdf,        \* <<request, page>> of the PDF files without text of their own
  PageSlots,  \* DEFAULT_PAGE_CONCURRENCY
  AiSlots     \* DEFAULT_AI_CONCURRENCY

ASSUME QueueAssumption ==
  /\ PageCount \in Nat \ {0} /\ PageSlots \in Nat \ {0} /\ AiSlots \in Nat \ {0}
  /\ Pdf \subseteq Requests \X (1 .. PageCount)

Page     == 1 .. PageCount
PageTask == Requests \X Page

VARIABLES
  extraction,   \* of each request: its status, its signal, and the pages verified
  read,         \* of each request and page, the promise of its text
  pageWaiting,  \* #waiting of #pageQueue
  pageActive,   \* the tasks counted by its #active
  tesseract,    \* #queue of the local OCR provider; the first has the process
  aiWaiting,    \* #waiting of #aiQueue: <<request, page, use>>
  aiActive      \* the tasks counted by its #active

pageQueueVars == <<extraction, read, pageWaiting, pageActive, tesseract, aiWaiting, aiActive>>

NoExtraction == [status |-> "none", verify |-> FALSE, aborted |-> FALSE, verified |-> 0]

Running(r) == extraction[r].status = "running"
Aborted(r) == extraction[r].aborted

PageQueueInit ==
  /\ extraction = [r \in Requests |-> NoExtraction]
  /\ read = [t \in PageTask |-> "none"]
  /\ pageWaiting = <<>> /\ pageActive = {} /\ tesseract = <<>>
  /\ aiWaiting = <<>> /\ aiActive = {}

--------------------------------------------------------------------------------

Least(a, b) == IF a <= b THEN a ELSE b

\* How many waiting tasks ReceiptPageTaskQueue.schedule starts.
Startable(waiting, active, slots) == Least(slots - Cardinality(active), Len(waiting))

Entries(s)   == {s[i] : i \in 1 .. Len(s)}
ReadTask(t)  == <<t[1], t[2], "read">>
ReadByAi(s)  == [i \in 1 .. Len(s) |-> ReadTask(s[i])]

\* The tasks of a queue that are in S, in their order.
Among(s, S) ==
  LET among[i \in 0 .. Len(s)] ==
        IF i = 0 THEN <<>> ELSE IF s[i] \in S THEN Append(among[i - 1], s[i]) ELSE among[i - 1]
  IN among[Len(s)]

\* schedule of both queues: a page task that starts runs on until it waits for
\* Tesseract, or in #aiQueue.
ScheduleTask(waitingPages, activePages, ocr, waitingAi, activeAi) ==
  LET n       == Startable(waitingPages, activePages, PageSlots)
      started == SubSeq(waitingPages, 1, n)
      ai      == waitingAi \o ReadByAi(Among(started, Pdf))
      m       == Startable(ai, activeAi, AiSlots)
  IN /\ pageWaiting' = SubSeq(waitingPages, n + 1, Len(waitingPages))
     /\ pageActive'  = activePages \cup Entries(started)
     /\ tesseract'   = ocr \o Among(started, PageTask \ Pdf)
     /\ aiWaiting'   = SubSeq(ai, m + 1, Len(ai))
     /\ aiActive'    = activeAi \cup Entries(SubSeq(ai, 1, m))

Settle(r, status) == extraction' = [extraction EXCEPT ![r].status = status]

PagesOf(r) == [p \in Page |-> <<r, p>>]

\* extract: its pages are queued in their order.
Extract(r, verify) ==
  /\ extraction[r].status = "none"
  /\ extraction' = [extraction EXCEPT ![r] = [NoExtraction EXCEPT !.status = "running", !.verify = verify]]
  /\ read' = [t \in PageTask |-> IF t[1] = r THEN "pending" ELSE read[t]]
  /\ ScheduleTask(pageWaiting \o PagesOf(r), pageActive, tesseract, aiWaiting, aiActive)

\* Mutant: a task that is rejected keeps its slot.
FreedOnSuccess(t, ok) == IF ok THEN pageActive \ {t} ELSE pageActive

\* finally: a task that ends, well or not, gives its slot back.
Freed(t, ok) == pageActive \ {t}

\* The Tesseract process ends, in time or at its limit; it is killed by the signal.
OcrEnds(t, ok) ==
  /\ tesseract # <<>> /\ t = Head(tesseract)
  /\ ok => ~Aborted(t[1])
  /\ read' = [read EXCEPT ![t] = IF ok THEN "read" ELSE "failed"]
  /\ ScheduleTask(pageWaiting, Freed(t, ok), Tail(tesseract), aiWaiting, aiActive)
  /\ UNCHANGED extraction

\* MultimodalAiOcrProvider.recognize: what it is asked for is never an image, and
\* buildContent accepts nothing else.
PdfReadEnds(t) ==
  LET task == ReadTask(t) IN
  /\ task \in aiActive
  /\ read' = [read EXCEPT ![t] = "failed"]
  /\ ScheduleTask(pageWaiting, Freed(t, FALSE), tesseract, aiWaiting, aiActive \ {task})
  /\ UNCHANGED extraction

NextPage(r)  == extraction[r].verified + 1
Verifying(r) == \E q \in Entries(aiWaiting) \cup aiActive : q[1] = r /\ q[3] = "verify"

\* Mutant: the wait for the text of the page is inside the task of #aiQueue.
WaitInTask(r) == read[<<r, NextPage(r)>>] \in {"pending", "read"}

\* await ocrPage
TextAwaited(r) == read[<<r, NextPage(r)>>] = "read"

\* verifyOcrPagesInOrder: the next page goes to #aiQueue once it has been read.
VerifyNext(r) ==
  /\ Running(r) /\ extraction[r].verify /\ ~Aborted(r) /\ ~Verifying(r)
  /\ TextAwaited(r)
  /\ ScheduleTask(pageWaiting, pageActive, tesseract,
              Append(aiWaiting, <<r, NextPage(r), "verify">>), aiActive)
  /\ UNCHANGED <<extraction, read>>

\* Mutant: one page too many.
PastLastPage(r) == NextPage(r) > PageCount

\* final: the page is the last of its request.
LastPage(r) == NextPage(r) = PageCount

\* verifyPageWithAi ends; a request that has timed out is settled already.
VerifyEnds(r, ok) ==
  LET task == <<r, NextPage(r), "verify">> IN
  /\ task \in aiActive
  /\ read[<<r, NextPage(r)>>] # "pending"
  /\ ok => ~Aborted(r)
  /\ extraction' = [extraction EXCEPT
       ![r].status   = IF @ # "running" THEN @
                       ELSE IF ~ok THEN "failed"
                       ELSE IF LastPage(r) THEN "ok" ELSE @,
       ![r].verified = IF ok /\ ~LastPage(r) THEN @ + 1 ELSE @]
  /\ ScheduleTask(pageWaiting, pageActive, tesseract, aiWaiting, aiActive \ {task})
  /\ UNCHANGED read

\* The request fails: on the page it waits for when it verifies, on any otherwise.
ExtractionFails(r) ==
  /\ Running(r)
  /\ IF extraction[r].verify
     THEN ~Verifying(r) /\ (read[<<r, NextPage(r)>>] = "failed" \/ Aborted(r))
     ELSE \E p \in Page : read[<<r, p>>] = "failed"
  /\ Settle(r, "failed")
  /\ UNCHANGED <<read, pageWaiting, pageActive, tesseract, aiWaiting, aiActive>>

\* Promise.all of an extraction without verification.
ExtractionReads(r) ==
  /\ Running(r) /\ ~extraction[r].verify
  /\ \A p \in Page : read[<<r, p>>] = "read"
  /\ Settle(r, "ok")
  /\ UNCHANGED <<read, pageWaiting, pageActive, tesseract, aiWaiting, aiActive>>

\* onAbort
Withdrawn(s, r) == Among(s, {q \in Entries(s) : q[1] # r})

\* The signal: what waits in a queue is withdrawn and rejected; the page of a PDF
\* that was waiting for #aiQueue gives its slot back.
AbortExtraction(r, status) ==
  LET gone == {q \in Entries(aiWaiting) : q[1] = r /\ q \notin Entries(Withdrawn(aiWaiting, r))}
      pdfs == {<<q[1], q[2]>> : q \in {a \in gone : a[3] = "read"}}
      lost == pdfs \cup {t \in Entries(pageWaiting) : t[1] = r}
  IN /\ extraction' = [extraction EXCEPT ![r].status = status, ![r].aborted = TRUE]
     /\ read' = [t \in PageTask |-> IF t \in lost THEN "failed" ELSE read[t]]
     /\ ScheduleTask(Withdrawn(pageWaiting, r), pageActive \ pdfs, tesseract,
                 Withdrawn(aiWaiting, r), aiActive)

\* runWithinAiVerificationBudget
Deadline(r) == Running(r) /\ extraction[r].verify /\ AbortExtraction(r, "timeout")

\* The request is closed by its client: extractReceipt aborts the signal.
ClientCloses(r) == Running(r) /\ ~Aborted(r) /\ AbortExtraction(r, "running")

HasTask(r) ==
  \/ \E p \in Page : read[<<r, p>>] = "pending"
  \/ Verifying(r)

\* The client of a request that was answered sends another.
Answered(r) ==
  /\ extraction[r].status \in {"ok", "failed", "timeout"} /\ ~HasTask(r)
  /\ extraction' = [extraction EXCEPT ![r] = NoExtraction]
  /\ read' = [t \in PageTask |-> IF t[1] = r THEN "none" ELSE read[t]]
  /\ UNCHANGED <<pageWaiting, pageActive, tesseract, aiWaiting, aiActive>>

--------------------------------------------------------------------------------

RequestGoesOn(r) ==
  \/ VerifyNext(r)
  \/ ExtractionFails(r)
  \/ ExtractionReads(r)

PageTaskEnds(t) == (\E ok \in BOOLEAN : OcrEnds(t, ok)) \/ PdfReadEnds(t)

\* What goes on by itself in a request: the code, Tesseract and the provider,
\* which have time limits.
RequestStep(r) ==
  \/ RequestGoesOn(r)
  \/ \E ok \in BOOLEAN : VerifyEnds(r, ok)
  \/ \E p \in Page : PageTaskEnds(<<r, p>>)

PageQueueNext ==
  \/ \E r \in Requests :
       \/ \E verify \in BOOLEAN : Extract(r, verify)
       \/ Deadline(r)
       \/ ClientCloses(r)
       \/ Answered(r)
       \/ RequestStep(r)

PageQueueFairness == \A r \in Requests : WF_pageQueueVars(RequestStep(r))

PageQueueSpec == PageQueueInit /\ [][PageQueueNext]_pageQueueVars /\ PageQueueFairness

--------------------------------------------------------------------------------

PageQueueTypeOK ==
  /\ extraction \in [Requests -> [status : {"none", "running", "ok", "failed", "timeout"},
                                  verify : BOOLEAN, aborted : BOOLEAN, verified : 0 .. PageCount - 1]]
  /\ read \in [PageTask -> {"none", "pending", "read", "failed"}]
  /\ Entries(pageWaiting) \cup pageActive \cup Entries(tesseract) \subseteq PageTask
  /\ Entries(aiWaiting) \cup aiActive \subseteq Requests \X Page \X {"read", "verify"}

\* Nobody waits beside a free slot, whichever way the task before it ended:
\* finally schedules the next, and so does a page that gives up its place.
NoIdlePageSlot ==
  /\ pageWaiting # <<>> => Cardinality(pageActive) = PageSlots
  /\ aiWaiting # <<>> => Cardinality(aiActive) = AiSlots

\* A page is pending exactly as long as it stands in the queue or holds a slot,
\* and its slot is spent on one wait: for Tesseract or for #aiQueue.
PendingPageHasPlace ==
  \A t \in PageTask :
    LET waits == {i \in 1 .. Len(pageWaiting) : pageWaiting[i] = t}
        ocr   == {i \in 1 .. Len(tesseract) : tesseract[i] = t}
        pdf   == ReadTask(t) \in Entries(aiWaiting) \cup aiActive
    IN /\ read[t] = "pending" <=> (waits # {} \/ t \in pageActive)
       /\ t \in pageActive => (ocr = {} <=> pdf) /\ waits = {}
       /\ Cardinality(waits) <= 1 /\ Cardinality(ocr) <= 1

\* A request that is aborted, by its deadline or its client, stands in no queue.
AbortedRequestNotQueued ==
  \A r \in Requests : Aborted(r) =>
    /\ \A t \in Entries(pageWaiting) : t[1] # r
    /\ \A q \in Entries(aiWaiting) : q[1] # r

\* The queues of both kinds are sound.
PageQueuesSound == NoIdlePageSlot /\ PendingPageHasPlace /\ AbortedRequestNotQueued

\* Every extraction is answered, though a PDF holds a page slot while it waits
\* for the AI slot that verification needs too.
ExtractionSettles == \A r \in Requests : Running(r) ~> ~Running(r)

================================================================================
