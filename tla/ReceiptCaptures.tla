---------------------------- MODULE ReceiptCaptures -----------------------------
(***************************************************************************)
(* The scan screen: the captures of a receipt, the page of each, the local *)
(* queue of two tasks, the durable job the screen follows, and the drafts  *)
(* a run ends in. All of it is the one object `state` of receipt-state.js, *)
(* which every handler and every late answer writes; an operator below     *)
(* takes it and returns it as the function of the same name leaves it.     *)
(***************************************************************************)
EXTENDS Naturals, Sequences, FiniteSets, SequencesExt

CONSTANTS
  Captures,          \* storage keys
  PdfCaptures,       \* those of PDF files
  PAGE_CONCURRENCY,
  Modes,             \* whether AI is configured
  MaxJobs,           \* bound on the durable jobs ever created
  MaxReads,          \* bound on the reads of a job under way
  MaxUploads,        \* bound on the uploads under way
  MaxWithAi,         \* bound on the captures stored while AI is configured
  MaxActs            \* bound on what the user does while AI is configured

VARIABLES
  state,    \* state of receipt-state.js, with the requests that are under way
  jobs,     \* extraction jobs of the server: their captures and their status
  acts      \* acts of the user so far, while AI is configured

captureVars == <<state, jobs, acts>>

ASSUME CaptureAssumption ==
  /\ PAGE_CONCURRENCY \in Nat \ {0} /\ MaxJobs \in Nat /\ Modes \subseteq BOOLEAN
  /\ "none" \notin Captures

ActiveStatuses     == {"submitting", "preparing", "ocr", "ai"}
QueuedStatuses     == {"pending", "queued"}
ReviewableStatuses == {"completed", "manual"}
TerminalStatuses   == {"completed", "manual", "error", "cancelled"}

\* text: rawText alone, or a result with its lines. code: errorCode and recovery
\* ("ai": AI_* and manual review allowed; "create": AI_* only; "manual": allowed only).
NewPage == [status |-> "ready", text |-> "none", ai |-> "idle", code |-> "none"]

NoConfirm == [at |-> "no", keys |-> <<>>]

NewState(ai) ==
  [aiConfigured |-> ai, stored |-> {}, captures |-> <<>>, page |-> [c \in Captures |-> NewPage],
   queue |-> <<>>, tasks |-> <<>>, ghosts |-> 0,
   processing |-> FALSE, finalizing |-> FALSE, visible |-> FALSE, verifyWithAi |-> FALSE,
   assembly |-> <<>>, extraction |-> <<>>, drafts |-> <<>>, draft |-> "none",
   activeJobId |-> 0, jobKeys |-> <<>>, failed |-> FALSE, pendingScope |-> <<>>,
   posts |-> {}, reads |-> {}, deletes |-> {}, uploads |-> {}, recovering |-> FALSE,
   confirm |-> NoConfirm]

CaptureInit ==
  /\ \E ai \in Modes : state = NewState(ai)
  /\ jobs = <<>> /\ acts = 0

--------------------------------------------------------------------------------

Act == IF state.aiConfigured THEN acts < MaxActs /\ acts' = acts + 1 ELSE UNCHANGED acts

LeastOf(a, b) == IF a <= b THEN a ELSE b

\* The elements of a sequence that are in S, in their order.
Those(s, S) ==
  LET those[i \in 0 .. Len(s)] ==
        IF i = 0 THEN <<>> ELSE IF s[i] \in S THEN Append(those[i - 1], s[i]) ELSE those[i - 1]
  IN those[Len(s)]

IsCapture(s, c) == c \in ToSet(s.captures)
Under(s, c)     == s.page[c].status

\* The pages of some captures, changed; a capture that is gone has none.
Pages(s, keys, Change(_, _)) ==
  [s EXCEPT !.page = [c \in Captures |-> IF c \in keys /\ IsCapture(s, c) THEN Change(c, @[c]) ELSE @[c]]]

HasPageTask(s, c) == \E t \in ToSet(s.tasks) : t.key = c

Drafts(keys) == [i \in 1 .. Len(keys) |-> <<keys[i]>>]

\* applyCaptureDrafts, when a verified run or several captures end; a single local
\* capture asks the server for the combined extraction.
AssembleCompletedPages(s) ==
  LET read == Those(s.captures, {c \in Captures : s.page[c].text = "result"}) IN
  IF s.verifyWithAi \/ Len(s.captures) > 1
  THEN [s EXCEPT !.drafts = Drafts(read), !.processing = FALSE, !.visible = FALSE,
                 !.draft = IF @ \in ToSet(read) \/ read = <<>> THEN @ ELSE Head(read)]
  ELSE [s EXCEPT !.finalizing = TRUE, !.assembly = <<s.captures>>]

FinishCurrentRunWhenIdle(s) ==
  IF ~s.processing \/ s.finalizing \/ s.tasks # <<>> \/ s.queue # <<>> THEN s
  ELSE IF \A c \in ToSet(s.captures) : Under(s, c) \in ReviewableStatuses
       THEN AssembleCompletedPages(s)
       ELSE [s EXCEPT !.processing = FALSE]

\* startPageTask and processCapture, up to their first request.
Task(e)         == [key |-> e.key, ai |-> e.ai, mode |-> e.mode, valid |-> TRUE,
                    at |-> IF e.mode = "full" THEN "ocr" ELSE "ai"]
TaskPage(e, pg) == IF e.mode = "full"
                   THEN [pg EXCEPT !.status = "ocr", !.ai = "idle", !.code = "none"]
                   ELSE [pg EXCEPT !.status = "ai", !.ai = "running", !.code = "none"]

\* Mutant: the retried page starts beside its aborted task.
BlockedBeside(s, e) == FALSE

\* The aborted task of the page has not ended.
Blocked(s, e) == HasPageTask(s, e.key)

\* pumpPageQueue: what is blocked goes to the end, and the loop stops.
PumpPageQueue(s) ==
  LET live    == Those(s.queue, {e \in ToSet(s.queue) : IsCapture(s, e.key) /\ Under(s, e.key) = "pending"})
      n       == LeastOf(PAGE_CONCURRENCY - Len(s.tasks), Len(live))
      first   == SelectInSubSeq(live, 1, n, LAMBDA e : Blocked(s, e))
      started == SubSeq(live, 1, IF first = 0 THEN n ELSE first - 1)
      rest    == IF first = 0 THEN SubSeq(live, n + 1, Len(live))
                 ELSE Append(SubSeq(live, first + 1, Len(live)), live[first])
  IN FinishCurrentRunWhenIdle(
       Pages([s EXCEPT !.queue = rest, !.tasks = @ \o [i \in DOMAIN started |-> Task(started[i])]],
             {e.key : e \in ToSet(started)},
             LAMBDA c, pg : TaskPage(CHOOSE e \in ToSet(started) : e.key = c, pg)))

EnqueueCapture(s, c, ai, mode) ==
  [s EXCEPT !.page[c].status = "pending",
            !.queue = Append(@, [key |-> c, ai |-> ai, mode |-> mode])]

\* The page leaves the queue, and its task works for nobody.
Withdraw(s, c) ==
  [s EXCEPT !.queue = Those(@, {e \in ToSet(@) : e.key # c}),
            !.tasks = [i \in DOMAIN @ |-> IF @[i].key = c THEN [@[i] EXCEPT !.valid = FALSE] ELSE @[i]]]

StopPage(pg) ==
  IF pg.status = "ai" /\ pg.text # "none"
  THEN [pg EXCEPT !.status = "completed", !.ai = "idle", !.code = "none"]
  ELSE [pg EXCEPT !.status = "cancelled", !.code = "none"]

\* abortPageWork: the token changes, so nothing under way is of this run any more.
AbortPageWork(s, markCancelled) ==
  LET t == [s EXCEPT !.queue = <<>>, !.tasks = <<>>, !.ghosts = LeastOf(2, @ + Len(s.tasks)),
                     !.finalizing = FALSE, !.assembly = <<>>,
                     !.posts = {[p EXCEPT !.token = FALSE] : p \in @}]
  IN IF markCancelled
     THEN Pages(t, {c \in Captures : Under(s, c) \in QueuedStatuses \cup ActiveStatuses},
                LAMBDA c, pg : StopPage(pg))
     ELSE t

\* durableInitialJobRequestId has moved on.
Outdated(requests) == {[p EXCEPT !.latest = FALSE] : p \in requests}

ClearReceiptExtractionJob(s, cancel) ==
  [s EXCEPT !.activeJobId = 0, !.jobKeys = <<>>, !.failed = FALSE,
            !.pendingScope = IF cancel THEN <<>> ELSE @,
            !.posts = IF cancel THEN Outdated(@) ELSE @, !.reads = IF cancel THEN Outdated(@) ELSE @,
            !.deletes = IF cancel /\ s.activeJobId # 0 THEN @ \cup {s.activeJobId} ELSE @]

CancelReceiptExtraction(s) ==
  [AbortPageWork(ClearReceiptExtractionJob(s, TRUE), TRUE) EXCEPT
    !.processing = FALSE, !.finalizing = FALSE, !.visible = FALSE]

ClearCombinedReview(s) ==
  [s EXCEPT !.finalizing = FALSE, !.assembly = <<>>, !.extraction = <<>>, !.drafts = <<>>, !.draft = "none"]

\* capturesByKeys
ActiveJobCaptures(s) ==
  IF s.jobKeys = <<>> THEN s.captures ELSE Those(s.jobKeys, ToSet(s.captures))

\* setPagesForBackgroundJob, with durableJobStatusToPageStatus
JobPageStatus(st) ==
  CASE st = "queued" -> "queued" [] st = "running" -> "ai" [] OTHER -> "submitting"

SetPagesForBackgroundJob(s, st, caps) ==
  Pages([s EXCEPT !.failed = FALSE],
        {c \in ToSet(caps) : Under(s, c) \notin TerminalStatuses},
        LAMBDA c, pg : [pg EXCEPT !.status = JobPageStatus(st), !.code = "none"])

\* applyReceiptJobProgress: a page that is settled is left alone.
Stages == {"none", "queued", "ocr", "ai", "completed", "error"}

StagePage(c, pg, stage) ==
  [pg EXCEPT !.status = IF stage = "ocr" /\ c \in PdfCaptures THEN "ai" ELSE stage,
             !.text   = CASE stage = "completed" -> "result"
                          [] stage \in {"ai", "error"} /\ @ = "none" -> "raw"
                          [] OTHER -> @,
             !.ai     = CASE stage = "completed" -> "completed"
                          [] stage = "error" -> "error" [] OTHER -> "idle",
             !.code   = IF stage = "error" THEN "other" ELSE "none"]

\* Mutant: the progress of the job reaches the pages that are settled too.
AnyPage(s, c) == TRUE

\* canApplyDurableUpdate
CanApplyDurableUpdate(s, c) == Under(s, c) \notin TerminalStatuses

ApplyProgress(s, caps, stages) ==
  Pages(s, {c \in ToSet(caps) : stages[c] # "none" /\ CanApplyDurableUpdate(s, c)},
        LAMBDA c, pg : StagePage(c, pg, stages[c]))

ApplyProgressOrStatus(s, st, caps, stages) ==
  IF \E c \in ToSet(caps) : stages[c] # "none" /\ CanApplyDurableUpdate(s, c)
  THEN ApplyProgress(s, caps, stages)
  ELSE SetPagesForBackgroundJob(s, st, caps)

CompleteBackgroundJob(s, caps) ==
  ClearReceiptExtractionJob(
    [Pages(s, ToSet(caps), LAMBDA c, pg :
        [status |-> "completed", text |-> "result", ai |-> "completed", code |-> "none"]) EXCEPT
      !.drafts = IF caps = <<>> THEN <<>> ELSE <<caps>>, !.draft = IF caps = <<>> THEN "none" ELSE Head(caps),
      !.processing = FALSE, !.finalizing = FALSE, !.visible = FALSE], FALSE)

FailBackgroundJob(s, caps, code) ==
  [Pages(s, {c \in ToSet(caps) : /\ Under(s, c) # "error"
                                 /\ ~(Under(s, c) = "completed" /\ s.page[c].ai = "completed")},
         LAMBDA c, pg : [pg EXCEPT !.status = "error", !.code = code]) EXCEPT
    !.failed = (code = "ai"), !.processing = FALSE, !.finalizing = FALSE]

\* startDurableAutomaticCaptureProcessing
StartDurable(s, caps) ==
  IF s.pendingScope = caps THEN s
  ELSE LET t == SetPagesForBackgroundJob(s, "submitting", caps) IN
       [t EXCEPT !.verifyWithAi = TRUE, !.processing = TRUE, !.visible = TRUE, !.pendingScope = caps,
                 !.reads = Outdated(@),
                 !.posts = Outdated(@)
                           \cup {[kind |-> "start", caps |-> caps, token |-> TRUE, latest |-> TRUE, id |-> 0]}]

EnqueueReady(s, caps) ==
  LET ready == Those(caps, {c \in Captures : Under(s, c) = "ready"}) IN
  [s EXCEPT !.page = [c \in Captures |-> IF c \in ToSet(ready) THEN [@[c] EXCEPT !.status = "pending"] ELSE @[c]],
            !.queue = @ \o [i \in 1 .. Len(ready) |-> [key |-> ready[i], ai |-> FALSE, mode |-> "full"]]]

StartAutomaticCaptureProcessing(s, caps) ==
  IF caps = <<>> THEN s
  ELSE IF s.aiConfigured THEN StartDurable(s, caps)
  ELSE PumpPageQueue(EnqueueReady([s EXCEPT !.verifyWithAi = FALSE, !.processing = TRUE, !.visible = TRUE], caps))

\* the option resetAll
ResetAll(s) ==
  ClearCombinedReview(Pages(AbortPageWork(s, FALSE), Captures, LAMBDA c, pg : NewPage))

\* latest: the first read of a job just created, which its creation still waits for.
MayRefresh(s) == s.activeJobId # 0 /\ \A c \in ToSet(s.captures) : Under(s, c) # "manual"

Refresh(s, latest) ==
  IF ~MayRefresh(s) THEN [s EXCEPT !.pendingScope = IF latest THEN <<>> ELSE @]
  ELSE [s EXCEPT !.reads = @ \cup {[id |-> s.activeJobId, caps |-> ActiveJobCaptures(s),
                                    st |-> "none", latest |-> latest]}]

RefreshReceiptExtractionJob(s) == Refresh(s, FALSE)

ReadGone(s, r) == [s EXCEPT !.reads = @ \ {r}, !.pendingScope = IF r.latest THEN <<>> ELSE @]

FollowJob(s, id, keys) ==
  [s EXCEPT !.activeJobId = id, !.jobKeys = keys, !.failed = FALSE]

--------------------------------------------------------------------------------
(* Uploads. *)

HadBackgroundJob(s) == s.activeJobId # 0 \/ (s.verifyWithAi /\ s.processing)

UploadStarts ==
  /\ Cardinality(state.uploads) < MaxUploads
  /\ state' = [state EXCEPT !.uploads = @ \cup {[had |-> HadBackgroundJob(state), added |-> <<>>]}]
  /\ Act /\ UNCHANGED jobs

\* Mutant: a file is given the key of another.
FileStoredAgain(u, c) ==
  /\ u \in state.uploads /\ Len(u.added) < Cardinality(Captures)
  /\ state' = [state EXCEPT !.uploads = (@ \ {u}) \cup {[u EXCEPT !.added = Append(@, c)]},
                            !.captures = Append(@, c), !.stored = @ \cup {c}]
  /\ UNCHANGED <<jobs, acts>>

FileStored(u, c) ==
  /\ u \in state.uploads /\ c \notin state.stored
  /\ state.aiConfigured => Cardinality(state.stored) < MaxWithAi
  /\ state' = [state EXCEPT !.uploads = (@ \ {u}) \cup {[u EXCEPT !.added = Append(@, c)]},
                            !.captures = Append(@, c), !.stored = @ \cup {c}]
  /\ UNCHANGED <<jobs, acts>>

UploadEnds(u) ==
  /\ u \in state.uploads /\ u.added # <<>>
  /\ LET s == [state EXCEPT !.uploads = @ \ {u}] IN
     state' = IF u.had THEN LET t == ResetAll(ClearReceiptExtractionJob(s, TRUE)) IN
                            StartAutomaticCaptureProcessing(t, t.captures)
              ELSE StartAutomaticCaptureProcessing(s, u.added)
  /\ UNCHANGED <<jobs, acts>>

\* A file is refused: what was stored before it stays.
UploadFails(u) ==
  /\ u \in state.uploads
  /\ state' = [state EXCEPT !.uploads = @ \ {u}]
  /\ UNCHANGED <<jobs, acts>>

--------------------------------------------------------------------------------
(* The tasks of the local queue. *)

Codes == {"ai", "other"}

\* The page as processCapture leaves it when its request ends.
AnsweredPage(t, pg, ok, code) ==
  IF t.at = "ocr"
  THEN IF ~ok THEN [pg EXCEPT !.status = "error", !.code = code]
       ELSE IF t.ai THEN [pg EXCEPT !.text = "result", !.status = "ai", !.ai = "running", !.code = "none"]
       ELSE [pg EXCEPT !.text = "result", !.status = "completed", !.code = "none"]
  ELSE IF ok THEN [pg EXCEPT !.text = "result", !.status = "completed", !.ai = "completed", !.code = "none"]
       ELSE IF pg.text # "none" THEN [pg EXCEPT !.status = "completed", !.ai = "error"]
       ELSE [pg EXCEPT !.status = "error", !.ai = "error", !.code = IF code = "ai" THEN "ai" ELSE "manual"]

GoesOnToAi(t, ok) == t.valid /\ t.at = "ocr" /\ ok /\ t.ai

\* isCurrentPageEntry, and the signal
IsCurrentPageEntry(t) == t.valid

TaskAnswered(i, ok, code) ==
  /\ i \in DOMAIN state.tasks
  /\ LET t == state.tasks[i]
         s == IF IsCurrentPageEntry(t)
              THEN [state EXCEPT !.page[t.key] = AnsweredPage(t, @, ok, code)] ELSE state
     IN state' = IF GoesOnToAi(t, ok) THEN [s EXCEPT !.tasks[i].at = "ai"]
                 ELSE PumpPageQueue([s EXCEPT !.tasks = RemoveAt(@, i)])
  /\ UNCHANGED <<jobs, acts>>

\* The correction of a page is cancelled at the server.
CorrectionCancelled(i) ==
  /\ i \in DOMAIN state.tasks /\ state.tasks[i].at = "ai" /\ state.tasks[i].valid
  /\ LET key == state.tasks[i].key
         s   == [state EXCEPT !.page[key].status = IF state.page[key].text # "none" THEN "completed" ELSE "cancelled",
                              !.page[key].ai = "idle"]
     IN state' = PumpPageQueue([s EXCEPT !.tasks = RemoveAt(@, i)])
  /\ UNCHANGED <<jobs, acts>>

\* A task of an earlier run ends, and pumps the queue of this one.
GhostEnds ==
  /\ state.ghosts > 0
  /\ state' = PumpPageQueue([state EXCEPT !.ghosts = @ - 1])
  /\ UNCHANGED <<jobs, acts>>

\* assembleCompletedPages goes on.
AssemblyAnswered(ok) ==
  /\ state.assembly # <<>> /\ (ok => Head(state.assembly) # <<>>)
  /\ state' = [state EXCEPT !.assembly = <<>>, !.processing = FALSE, !.finalizing = FALSE, !.visible = FALSE,
                            !.extraction = IF ok THEN Head(state.assembly) ELSE @]
  /\ UNCHANGED <<jobs, acts>>

--------------------------------------------------------------------------------
(* What the user does to a capture. *)

CancelCaptureProcessing(c) ==
  /\ IsCapture(state, c) /\ Under(state, c) \in ActiveStatuses
  /\ state' = PumpPageQueue([Withdraw(state, c) EXCEPT !.page[c] = StopPage(@)])
  /\ Act /\ UNCHANGED jobs

AiFailure(pg)  == pg.status \in {"error", "manual"} /\ pg.code \in {"ai", "create"}
OffersRetryAi(s, c) ==
  \/ AiFailure(s.page[c]) /\ s.aiConfigured
  \/ Under(s, c) = "completed" /\ s.page[c].ai = "error"

RetryCaptureProcessing(c) ==
  /\ IsCapture(state, c) /\ Under(state, c) \in {"error", "cancelled"} /\ ~OffersRetryAi(state, c)
  /\ LET s == [Withdraw(state, c) EXCEPT !.page[c] = NewPage] IN
     state' = IF c \in PdfCaptures /\ s.aiConfigured
              THEN StartAutomaticCaptureProcessing(s, <<c>>)
              ELSE PumpPageQueue(EnqueueCapture(
                     [s EXCEPT !.verifyWithAi = s.aiConfigured, !.processing = TRUE, !.visible = TRUE],
                     c, s.aiConfigured, "full"))
  /\ Act /\ UNCHANGED jobs

DurableBackgroundFailure(s, c) == AiFailure(s.page[c]) /\ s.activeJobId # 0 /\ s.failed

RetryAiCorrection(c) ==
  /\ IsCapture(state, c) /\ OffersRetryAi(state, c) /\ state.aiConfigured
  /\ ~DurableBackgroundFailure(state, c)
  /\ state.page[c].text # "none" \/ c \in PdfCaptures
  /\ state' = PumpPageQueue(EnqueueCapture(
       [Withdraw(state, c) EXCEPT !.page[c].code = "none", !.page[c].ai = "idle",
                                  !.processing = TRUE, !.visible = TRUE], c, TRUE, "ai-only"))
  /\ Act /\ UNCHANGED jobs

\* retryFailedReceiptExtractionJob, up to its request
RetryFailedJob(c) ==
  /\ IsCapture(state, c) /\ OffersRetryAi(state, c) /\ state.aiConfigured
  /\ DurableBackgroundFailure(state, c) /\ ActiveJobCaptures(state) # <<>>
  /\ \A p \in state.posts : p.kind # "retry"
  /\ state' = [state EXCEPT !.posts = @ \cup {[kind |-> "retry", caps |-> ActiveJobCaptures(state),
                                               token |-> TRUE, latest |-> TRUE, id |-> 0]}]
  /\ Act /\ UNCHANGED jobs

UseManualReview(c) ==
  /\ IsCapture(state, c) /\ Under(state, c) = "error" /\ state.page[c].code \in {"ai", "manual"}
  /\ state' = PumpPageQueue([Withdraw(state, c) EXCEPT
       !.page[c].status = "manual", !.processing = TRUE, !.visible = TRUE])
  /\ Act /\ UNCHANGED jobs

CancelAll ==
  /\ state.visible
  /\ state.finalizing \/ \E c \in ToSet(state.captures) : Under(state, c) \in ActiveStatuses \cup QueuedStatuses
  /\ state' = CancelReceiptExtraction(state)
  /\ Act /\ UNCHANGED jobs

\* invalidateDurableJobForCaptureMutation, and rebuildCombinedReview
MutateCaptures(captures, page) ==
  /\ ~state.processing /\ ~state.finalizing
  /\ LET s == IF state.activeJobId # 0 THEN ClearReceiptExtractionJob(state, TRUE) ELSE state
         t == ClearCombinedReview([s EXCEPT !.captures = captures, !.page = page])
     IN state' = IF captures = <<>> THEN [t EXCEPT !.visible = FALSE]
                 ELSE FinishCurrentRunWhenIdle([t EXCEPT !.processing = TRUE, !.visible = TRUE])
  /\ Act /\ UNCHANGED jobs

MoveCapture(i) ==
  /\ i \in 1 .. Len(state.captures) - 1
  /\ Under(state, state.captures[i]) \notin ActiveStatuses
  /\ MutateCaptures([state.captures EXCEPT ![i] = state.captures[i + 1], ![i + 1] = state.captures[i]], state.page)

DeleteCapture(i) ==
  /\ i \in DOMAIN state.captures
  /\ Under(state, state.captures[i]) \notin ActiveStatuses
  /\ MutateCaptures(RemoveAt(state.captures, i), [state.page EXCEPT ![state.captures[i]] = NewPage])

--------------------------------------------------------------------------------
(* The durable job. *)

PostGone(s, p) == [s EXCEPT !.posts = @ \ {p}, !.pendingScope = IF p.latest THEN <<>> ELSE @]

\* The server has created the job, and its answer arrives.
JobCreated(p) ==
  /\ p \in state.posts /\ p.kind = "start" /\ p.id = 0 /\ Len(jobs) < MaxJobs
  /\ LET id == Len(jobs) + 1 IN
     /\ jobs' = Append(jobs, [caps |-> p.caps, st |-> "queued"])
     /\ state' = IF p.token /\ p.latest
                 THEN Refresh(SetPagesForBackgroundJob(
                        FollowJob([state EXCEPT !.posts = @ \ {p}], id, p.caps), "queued", p.caps), TRUE)
                 ELSE [state EXCEPT !.posts = (@ \ {p}) \cup {[p EXCEPT !.id = id]}]
  /\ UNCHANGED acts

\* It was created for nobody, and is deleted; when that fails too its identity is kept.
ObsoleteJobDeleted(p, ok) ==
  /\ p \in state.posts /\ p.id # 0
  /\ IF ok THEN /\ jobs' = [jobs EXCEPT ![p.id].st = IF @ \in {"queued", "running"} THEN "cancelled" ELSE @]
                /\ state' = PostGone(state, p)
     ELSE /\ state' = [PostGone(state, p) EXCEPT !.activeJobId = IF p.token THEN @ ELSE p.id]
          /\ UNCHANGED jobs
  /\ UNCHANGED acts

JobRefused(p, code) ==
  /\ p \in state.posts /\ p.kind = "start" /\ p.id = 0
  /\ state' = IF state.activeJobId = 0 /\ p.token /\ p.latest
              THEN Pages([PostGone(state, p) EXCEPT !.processing = FALSE], ToSet(p.caps),
                         LAMBDA c, pg : [pg EXCEPT !.status = "error", !.code = code])
              ELSE PostGone(state, p)
  /\ UNCHANGED <<jobs, acts>>

\* retryFailedReceiptExtractionJob goes on.
RetryAnswered(p, ok) ==
  /\ p \in state.posts /\ p.kind = "retry" /\ (ok => Len(jobs) < MaxJobs)
  /\ LET s == [state EXCEPT !.posts = @ \ {p}]
         t == Pages(AbortPageWork(s, FALSE), ToSet(p.caps), LAMBDA c, pg : NewPage)
         j == [FollowJob(t, Len(jobs) + 1, p.caps) EXCEPT !.verifyWithAi = TRUE, !.processing = TRUE, !.visible = TRUE]
     IN IF ok THEN /\ jobs' = Append(jobs, [caps |-> p.caps, st |-> "queued"])
                   /\ state' = RefreshReceiptExtractionJob(SetPagesForBackgroundJob(j, "queued", p.caps))
        ELSE state' = s /\ UNCHANGED jobs
  /\ UNCHANGED acts

\* watchReceiptExtractionJob: an invalidation, or the stream opens again.
JobNews ==
  /\ Cardinality(state.reads) < MaxReads
  /\ state.activeJobId # 0
  /\ state' = RefreshReceiptExtractionJob(state)
  /\ Act /\ UNCHANGED jobs

ServerReads(r) ==
  /\ r \in state.reads /\ r.st = "none"
  /\ state' = [state EXCEPT !.reads = (@ \ {r}) \cup {[r EXCEPT !.st = jobs[r.id].st]}]
  /\ UNCHANGED <<jobs, acts>>

\* refreshReceiptExtractionJob goes on.
IsStaleRead(s, r) == s.activeJobId # r.id \/ \E c \in ToSet(s.captures) : Under(s, c) = "manual"

JobRead(r, stages, code) ==
  /\ r \in state.reads /\ r.st # "none"
  /\ LET s == ReadGone(state, r) IN
     state' =
       IF IsStaleRead(s, r) THEN s
       ELSE CASE r.st \in {"queued", "running"} ->
                   ApplyProgressOrStatus([s EXCEPT !.processing = TRUE, !.visible = TRUE], r.st, r.caps, stages)
              [] r.st = "completed" -> CompleteBackgroundJob(s, r.caps)
              [] r.st = "cancelled" -> CancelReceiptExtraction(ClearReceiptExtractionJob(s, FALSE))
              [] OTHER -> FailBackgroundJob(ApplyProgress(s, r.caps, stages), r.caps, code)
  /\ UNCHANGED <<jobs, acts>>

ReadFails(r) ==
  /\ r \in state.reads
  /\ state' = ReadGone(state, r)
  /\ UNCHANGED <<jobs, acts>>

\* The server, as far as the screen sees it.
JobRuns(id, st) ==
  /\ id \in DOMAIN jobs /\ jobs[id].st \in {"queued", "running"}
  /\ st \in {"completed", "failed"} => jobs[id].st = "running"
  /\ st = "running" => jobs[id].st = "queued"
  /\ jobs' = [jobs EXCEPT ![id].st = st]
  /\ UNCHANGED <<state, acts>>

ServerDeletes(id, ok) ==
  /\ id \in state.deletes
  /\ jobs' = [jobs EXCEPT ![id].st = IF ok /\ @ \in {"queued", "running"} THEN "cancelled" ELSE @]
  /\ state' = [state EXCEPT !.deletes = @ \ {id}]
  /\ UNCHANGED acts

--------------------------------------------------------------------------------
(* Confirmation, and reloads. *)

DraftKeys(s) ==
  LET ds == Those(s.drafts, {d \in ToSet(s.drafts) : Head(d) = s.draft}) IN
  IF ds = <<>> THEN s.captures ELSE Those(Head(ds), ToSet(s.captures))

SelectReceiptDraft(k) ==
  /\ k \in {Head(d) : d \in ToSet(state.drafts)} \ {state.draft}
  /\ state' = [state EXCEPT !.draft = k]
  /\ UNCHANGED <<jobs, acts>>

ConfirmStarts ==
  /\ state.confirm = NoConfirm /\ ~state.processing /\ ~state.finalizing
  /\ DraftKeys(state) # <<>>
  /\ \A c \in ToSet(DraftKeys(state)) : Under(state, c) \in ReviewableStatuses
  /\ state' = [state EXCEPT !.confirm.at = "validating"]
  /\ Act /\ UNCHANGED jobs

ReceiptValidated(ok) ==
  /\ state.confirm.at = "validating"
  /\ ok => DraftKeys(state) # <<>>
  /\ state' = [state EXCEPT !.confirm = IF ok THEN [at |-> "importing", keys |-> DraftKeys(state)] ELSE NoConfirm]
  /\ UNCHANGED <<jobs, acts>>

ReceiptConfirmed ==
  /\ state.confirm.at = "importing"
  /\ LET keys  == ToSet(state.confirm.keys)
         t     == Pages(AbortPageWork(state, FALSE), keys, LAMBDA c, pg : NewPage)
         left  == Those(t.drafts, {d \in ToSet(t.drafts) : Head(d) # state.confirm.keys[1]})
         after == [t EXCEPT !.captures = Those(@, Captures \ keys),
                            !.drafts = left, !.confirm = NoConfirm]
     IN state' = IF left # <<>> THEN [after EXCEPT !.draft = Head(left[1])]
                 ELSE [ClearReceiptExtractionJob(after, FALSE) EXCEPT
                        !.extraction = <<>>, !.processing = FALSE, !.visible = FALSE, !.draft = "none"]
  /\ UNCHANGED <<jobs, acts>>

\* initReceipts, after the stored captures and the stored job are loaded. The server
\* may still create the job of a request whose answer nobody waits for.
Reload(lost, late) ==
  /\ Act
  /\ lost \subseteq UNION {ToSet(u.added) : u \in state.uploads}
  /\ late \subseteq {p \in state.posts : p.id = 0} /\ Len(jobs) + Cardinality(late) <= MaxJobs
  /\ jobs' = jobs \o [i \in 1 .. Cardinality(late) |-> [caps |-> SetToSeq(late)[i].caps, st |-> "queued"]]
  /\ LET captures == Those(state.captures, Captures \ lost)
         s == [NewState(state.aiConfigured) EXCEPT !.captures = captures, !.stored = state.stored]
     IN state' = IF state.activeJobId # 0
                 THEN RefreshReceiptExtractionJob(FollowJob(s, state.activeJobId,
                        IF state.jobKeys = <<>> THEN captures ELSE state.jobKeys))
                 ELSE [s EXCEPT !.recovering = captures # <<>>]

\* findAdoptableJobId: a job of the same captures, the most alive and the latest.
Adoptable(caps) == {j \in DOMAIN jobs : jobs[j].caps = caps /\ jobs[j].st # "cancelled"}
AdoptionRank(j) == CASE jobs[j].st = "running" -> 0 [] jobs[j].st = "queued" -> 1
                     [] jobs[j].st = "completed" -> 2 [] OTHER -> 3
Adopted(caps)   == CHOOSE j \in Adoptable(caps) : \A k \in Adoptable(caps) :
                     AdoptionRank(j) < AdoptionRank(k) \/ (AdoptionRank(j) = AdoptionRank(k) /\ j >= k)

FollowAdopted(s) ==
  RefreshReceiptExtractionJob([FollowJob(s, Adopted(s.captures), s.captures) EXCEPT !.verifyWithAi = TRUE])

RecoverPersistedReceiptDraft ==
  /\ state.recovering
  /\ LET s == [state EXCEPT !.recovering = FALSE] IN
     state' = IF Adoptable(s.captures) = {}
              THEN StartAutomaticCaptureProcessing(s, s.captures)
              ELSE FollowAdopted(s)
  /\ UNCHANGED <<jobs, acts>>

RecoverFails ==
  /\ state.recovering /\ state' = [state EXCEPT !.recovering = FALSE]
  /\ UNCHANGED <<jobs, acts>>

--------------------------------------------------------------------------------

TaskEnds(i) ==
  \/ \E ok \in BOOLEAN, code \in Codes : TaskAnswered(i, ok, code)
  \/ CorrectionCancelled(i)

UserActs(c) ==
  \/ CancelCaptureProcessing(c)
  \/ RetryCaptureProcessing(c)
  \/ RetryAiCorrection(c)
  \/ UseManualReview(c)

Upload ==
  \/ UploadStarts
  \/ \E u \in state.uploads : (\E c \in Captures : FileStored(u, c)) \/ UploadEnds(u) \/ UploadFails(u)

StartAnswered(p) ==
  \/ JobCreated(p)
  \/ \E ok \in BOOLEAN : ObsoleteJobDeleted(p, ok)
  \/ \E code \in {"create", "other"} : JobRefused(p, code)

ReadAnswered(r) ==
  \/ ServerReads(r)
  \/ \E stages \in [ToSet(r.caps) -> Stages], code \in Codes : JobRead(r, stages, code)
  \/ ReadFails(r)

LocalWork ==
  \/ \E i \in 1 .. PAGE_CONCURRENCY + 1 : TaskEnds(i)
  \/ GhostEnds
  \/ \E ok \in BOOLEAN : AssemblyAnswered(ok)

CaptureNext ==
  \/ Upload
  \/ LocalWork
  \/ \E c \in Captures : UserActs(c) \/ RetryFailedJob(c) \/ SelectReceiptDraft(c)
  \/ CancelAll
  \/ \E i \in 1 .. Cardinality(Captures) : MoveCapture(i) \/ DeleteCapture(i)
  \/ \E p \in state.posts : StartAnswered(p) \/ \E ok \in BOOLEAN : RetryAnswered(p, ok)
  \/ JobNews
  \/ \E r \in state.reads : ReadAnswered(r)
  \/ \E id \in 1 .. MaxJobs :
       \/ \E st \in {"running", "completed", "failed", "cancelled"} : JobRuns(id, st)
       \/ \E ok \in BOOLEAN : ServerDeletes(id, ok)
  \/ ConfirmStarts
  \/ \E ok \in BOOLEAN : ReceiptValidated(ok)
  \/ ReceiptConfirmed
  \/ \E lost \in SUBSET Captures, late \in SUBSET state.posts : Reload(lost, late)
  \/ RecoverPersistedReceiptDraft
  \/ RecoverFails

CaptureSpec == CaptureInit /\ [][CaptureNext]_captureVars

--------------------------------------------------------------------------------

CapturePage == [status : ActiveStatuses \cup QueuedStatuses \cup TerminalStatuses \cup {"ready"},
         text : {"none", "raw", "result"}, ai : {"idle", "running", "completed", "error"},
         code : {"none", "ai", "create", "manual", "other"}]

CaptureTypeOK ==
  /\ state.page \in [Captures -> CapturePage]
  /\ IsInjective(state.captures) /\ ToSet(state.captures) \subseteq Captures
  /\ state.activeJobId \in 0 .. Len(jobs) /\ Len(jobs) <= MaxJobs
  /\ \A e \in ToSet(state.queue) \cup ToSet(state.tasks) : e.key \in Captures

\* What may change a page that is settled.
SettledPageHeld(c) ==
  Under(state, c) \in {"cancelled", "manual"} /\ state'.page[c] # state.page[c] =>
    \/ UserActs(c) \/ Upload \/ ReceiptConfirmed
    \/ \E i \in 1 .. Cardinality(Captures) : DeleteCapture(i)
    \/ \E lost \in SUBSET Captures, late \in SUBSET state.posts : Reload(lost, late)
    \/ \E p \in state.posts \ state'.posts : c \in ToSet(p.caps)
    \/ \E r \in state.reads \ state'.reads : r.st \in {"completed", "failed"}

\* A page the user has cancelled or taken over changes only by what the user does to it or
\* to the whole receipt, or when a job it belongs to ends or is refused: never by a late
\* answer of its own task or by progress.
SettledPagesHold == [][\A c \in Captures : SettledPageHeld(c)]_captureVars

\* No run without AI is left processing with nothing under way, whatever the user cancels,
\* retries, adds and takes away, unless all drafts shown are of captures that are gone: then
\* the confirmation of a receipt has taken the assembly of another one away.
RunHasWork ==
  state.processing /\ ~state.aiConfigured =>
    \/ state.tasks # <<>> \/ state.ghosts > 0 \/ state.assembly # <<>>
    \/ state.drafts # <<>> /\ \A d \in ToSet(state.drafts) : ~IsCapture(state, Head(d))

\* No more than two pages are read at once, none twice, and none waits beside a free
\* slot unless its own aborted task has not ended, or with AI that of a page that has left
\* the queue for a job of its own.
QueueSound ==
  /\ Len(state.tasks) <= PAGE_CONCURRENCY
  /\ IsInjective([i \in DOMAIN state.tasks |-> state.tasks[i].key])
  /\ IsInjective([i \in DOMAIN state.queue |-> state.queue[i].key])
  /\ Len(state.tasks) < PAGE_CONCURRENCY /\ (\E e \in ToSet(state.queue) : Under(state, e.key) = "pending")
       => \/ \E e \in ToSet(state.queue) : HasPageTask(state, e.key)
          \/ state.aiConfigured /\ \E t \in ToSet(state.tasks) : ~t.valid

\* The queue of the pages and the state of the run agree.
PageWorkSound == QueueSound /\ RunHasWork

\* "every completed capture owns its draft": when a run has ended with every page to
\* review, what the review shows was made from all of them.
EveryCompletedCaptureOwnsItsDraft ==
  /\ ~state.processing /\ ~state.finalizing /\ state.uploads = {}
  /\ state.extraction # <<>> /\ state.drafts = <<>>
  /\ \A c \in ToSet(state.captures) : Under(state, c) = "completed"
  => ToSet(state.captures) \subseteq ToSet(state.extraction)

================================================================================
