--------------------------- MODULE DurableReceiptJob ---------------------------
(***************************************************************************)
(* The durable receipt extraction job: the public row in SQLite, the       *)
(* durable phase and page checkpoints beside it, the runner that drives a  *)
(* job page by page through OCR and a remote AI response, the DELETE       *)
(* handler, and a process that may stop between any two commits and be     *)
(* started again on the same database.                                     *)
(*                                                                         *)
(* Node runs one turn of the event loop to completion: a task in one of    *)
(* the TurnPc states is in the middle of a turn, no other callback runs    *)
(* until it reaches an await, and each step of a turn is at most one       *)
(* SQLite commit, so that a crash can fall between two of them.            *)
(***************************************************************************)
EXTENDS Naturals, FiniteSets

CONSTANTS
  Jobs,          \* identifiers createId('receiptextractionjob') may return
  NoJob,         \* "no job", the retryOf of a first attempt
  PageCount,     \* captures of every receipt of the model
  Kinds,         \* kinds of request the client sends, a subset of AllKinds
  MaxStops,      \* bound on how often the process stops
  CrashInTurn,   \* may a crash fall inside a turn (TRUE) or only between turns
  GracefulClose  \* does the operator ever close the server (SIGTERM, restore)

AllKinds == {"image", "pdf", "plain"}  \* plain: verifyWithAi is false

ASSUME JobsAssumption  == NoJob \notin Jobs
ASSUME PagesAssumption == PageCount \in Nat \ {0}
ASSUME KindsAssumption == Kinds \subseteq AllKinds
ASSUME StopsAssumption == MaxStops \in Nat
ASSUME FaultAssumption == CrashInTurn \in BOOLEAN /\ GracefulClose \in BOOLEAN

Page == 1 .. PageCount

VARIABLES
  \* SQLite: receipt_extraction_jobs
  row,         \* public status
  kind,        \* what the stored input asks for
  retryOf,     \* input.retryOfJobId
  \* SQLite: receipt_extraction_job_state and receipt_extraction_job_pages
  phase,       \* durable phase, "none" when the job has no state row
  ocrSaved,    \* pages whose ocr_json is set
  keySaved,    \* pages whose idempotency_key is set
  bound,       \* pages whose response_id is set
  resultSaved, \* pages whose remote_result_json is set
  status,      \* remote_status of each page
  expired,     \* jobs whose deadline_at has passed
  \* the process
  proc, task, pos, failing, ocrBusy, aborted, canceller, todo, stops,
  \* the AI provider and the network
  remote,      \* status of the response the provider holds for a page's key
  wire         \* create requests under way to the provider

rows     == <<row, kind, retryOf>>
pages    == <<ocrSaved, keySaved, bound, resultSaved, status>>
runner   == <<task, pos, failing, ocrBusy, aborted>>
deletion == <<canceller, todo>>
host     == <<proc, stops>>
net      == <<remote, wire>>
vars     == <<rows, phase, pages, expired, runner, deletion, host, net>>

--------------------------------------------------------------------------------

ActiveRow   == {"queued", "running"}
TerminalRow == {"completed", "failed", "cancelled"}
RowStatus   == ActiveRow \cup TerminalRow \cup {"absent", "pruned"}

RecoverablePhase == {"queued", "ocr_running", "ai_pending", "ai_running"}
Phase            == RecoverablePhase \cup {"completed", "failed", "cancelled"}

\* queued and in_progress are "pending"; incomplete is counted as "failed".
TerminalRemote == {"completed", "failed", "cancelled"}
RemoteStatus   == TerminalRemote \cup {"pending"}

\* Awaits of the runner; "post" and "get" include the delay before a retry and,
\* for "post", the wait for a response slot.
AwaitPc == {"extract", "ocr", "post", "get"}
TurnPc  == {"initialize", "start", "copy", "ocrStart", "aiPending", "page",
            "request", "poll", "settlePage", "pageFail", "complete", "fail",
            "settleOk", "settleErr"}

TypeOK ==
  /\ row \in [Jobs -> RowStatus]
  /\ kind \in [Jobs -> AllKinds]
  /\ retryOf \in [Jobs -> Jobs \cup {NoJob}]
  /\ phase \in [Jobs -> Phase \cup {"none"}]
  /\ ocrSaved \in [Jobs -> SUBSET Page]
  /\ keySaved \in [Jobs -> SUBSET Page]
  /\ bound \in [Jobs -> SUBSET Page]
  /\ resultSaved \in [Jobs -> SUBSET Page]
  /\ status \in [Jobs -> [Page -> RemoteStatus \cup {"none"}]]
  /\ expired \subseteq Jobs
  /\ proc \in {"up", "closing", "down"}
  /\ task \in [Jobs -> AwaitPc \cup TurnPc \cup {"none"}]
  /\ pos \in [Jobs -> 1 .. PageCount + 1]
  /\ failing \subseteq Jobs
  /\ ocrBusy \in [Jobs -> SUBSET Page]
  /\ aborted \subseteq Jobs
  /\ canceller \in [Jobs -> {"none", "await", "mark"}]
  /\ todo \in [Jobs -> SUBSET Page]
  /\ stops \in 0 .. MaxStops
  /\ remote \in [Jobs -> [Page -> RemoteStatus \cup {"none"}]]
  /\ wire \subseteq Jobs \X Page

Init ==
  /\ row = [j \in Jobs |-> "absent"]
  /\ kind = [j \in Jobs |-> "plain"]
  /\ retryOf = [j \in Jobs |-> NoJob]
  /\ phase = [j \in Jobs |-> "none"]
  /\ ocrSaved = [j \in Jobs |-> {}]
  /\ keySaved = [j \in Jobs |-> {}]
  /\ bound = [j \in Jobs |-> {}]
  /\ resultSaved = [j \in Jobs |-> {}]
  /\ status = [j \in Jobs |-> [p \in Page |-> "none"]]
  /\ expired = {}
  /\ proc = "up"
  /\ task = [j \in Jobs |-> "none"]
  /\ pos = [j \in Jobs |-> 1]
  /\ failing = {}
  /\ ocrBusy = [j \in Jobs |-> {}]
  /\ aborted = {}
  /\ canceller = [j \in Jobs |-> "none"]
  /\ todo = [j \in Jobs |-> {}]
  /\ stops = 0
  /\ remote = [j \in Jobs |-> [p \in Page |-> "none"]]
  /\ wire = {}

--------------------------------------------------------------------------------
(* The event loop. An abort rejects the awaits of its task before the next *)
(* I/O callback, so a task whose abort is pending is still in its turn.    *)

InTurn(j) ==
  \/ task[j] \in TurnPc
  \/ task[j] \in AwaitPc /\ j \in aborted
  \/ canceller[j] = "mark"

LoopFree == \A j \in Jobs : ~InTurn(j)

IoEvent == proc \in {"up", "closing"} /\ LoopFree

Goto(j, pc) == task' = [task EXCEPT ![j] = pc]

ActiveJob(j) == row[j] \in ActiveRow

\* Mutant: a job that waits for its remote response is not listed.
RecoverableBeforeRemote(j) == ActiveJob(j) /\ phase[j] \in RecoverablePhase \ {"ai_running"}

\* listRecoverableJobIds: an active row whose durable phase is not terminal.
Recoverable(j) == ActiveJob(j) /\ phase[j] \in RecoverablePhase

\* Mutants: the phase of one boundary is not committed.
MarkPhaseButOcr(j, ph)    == phase' = IF ph = "ocr_running" THEN phase ELSE [phase EXCEPT ![j] = ph]
MarkPhaseButFailed(j, ph)    == phase' = IF ph = "failed" THEN phase ELSE [phase EXCEPT ![j] = ph]

MarkPhase(j, ph) == phase' = [phase EXCEPT ![j] = ph]

\* Mutant: the key is sent, but only kept in memory.
KeyInMemory(j, p) == UNCHANGED keySaved

EnsureIdempotencyKey(j, p) == keySaved' = [keySaved EXCEPT ![j] = @ \cup {p}]

\* Mutant: any terminal answer is stored as a result.
StoreAnyAnswer(j, p, s) ==
  /\ status' = [status EXCEPT ![j][p] = s]
  /\ resultSaved' = [resultSaved EXCEPT ![j] = @ \cup {p}]

\* saveRemoteResult of a completed response, saveRemoteFailure of any other.
SaveRemoteAnswer(j, p, s) ==
  /\ status' = [status EXCEPT ![j][p] = s]
  /\ resultSaved' = [resultSaved EXCEPT ![j] = IF s = "completed" THEN @ \cup {p} ELSE @]

\* Mutant: the update of the row is not conditional on its status.
SettleAnyRow(j, outcome) == row' = [row EXCEPT ![j] = outcome]

\* complete and failReceiptExtractionJob update a running row only.
SettleRow(j, outcome) == row' = [row EXCEPT ![j] = IF @ = "running" THEN outcome ELSE @]

--------------------------------------------------------------------------------
(* Creation: the row and the durable state are two commits of one turn.    *)

CreateJob(j, k, src) ==
  /\ proc = "up" /\ LoopFree
  /\ row[j] = "absent"
  /\ src # NoJob => k # "plain" /\ src # j /\ row[src] # "absent"
  /\ row' = [row EXCEPT ![j] = "queued"]
  /\ kind' = [kind EXCEPT ![j] = k]
  /\ retryOf' = [retryOf EXCEPT ![j] = src]
  /\ Goto(j, IF k = "plain" THEN "start" ELSE "initialize")
  /\ UNCHANGED <<phase, pages, expired, pos, failing, ocrBusy, aborted,
                 deletion, host, net>>

InitializeState(j) ==
  /\ task[j] = "initialize"
  /\ phase' = [phase EXCEPT ![j] = "queued"]
  /\ Goto(j, "start")
  /\ UNCHANGED <<rows, pages, expired, pos, failing, ocrBusy, aborted,
                 deletion, host, net>>

\* runReceiptExtractionJob and the head of run(), up to its first await or commit.
StartJob(j) ==
  /\ task[j] = "start"
  /\ ActiveJob(j)
  /\ row' = [row EXCEPT ![j] = "running"]
  /\ Goto(j, CASE kind[j] = "plain" -> "extract"
               [] kind[j] # "plain" /\ retryOf[j] # NoJob /\ phase[j] = "queued" -> "copy"
               [] OTHER -> "ocrStart")
  /\ UNCHANGED <<kind, retryOf, phase, pages, expired, pos, failing, ocrBusy, aborted,
                 deletion, host, net>>

\* Pages of the source whose evidence an explicit retry takes over.
ReusableResults(src) == {p \in resultSaved[src] : status[src][p] = "completed"}

CopyReusableRetryEvidence(j) ==
  LET src == retryOf[j] IN
  /\ task[j] = "copy"
  /\ \/ /\ phase[src] = "failed"
        /\ ocrSaved' = [ocrSaved EXCEPT ![j] = @ \cup ocrSaved[src]]
        /\ resultSaved' = [resultSaved EXCEPT ![j] = @ \cup ReusableResults(src)]
        /\ status' = [status EXCEPT ![j] = [p \in Page |->
                        IF p \in ReusableResults(src) THEN "completed" ELSE @[p]]]
        /\ Goto(j, "ocrStart")
     \/ \* the source is gone, or no longer a failed durable job: run() throws
        /\ phase[src] # "failed"
        /\ UNCHANGED <<ocrSaved, resultSaved, status>>
        /\ Goto(j, "settleErr")
  /\ UNCHANGED <<rows, phase, keySaved, bound, expired, pos, failing, ocrBusy,
                 aborted, deletion, host, net>>

--------------------------------------------------------------------------------
(* OCR: every page without a checkpoint is read at once, before the        *)
(* persisted deadline; the first failure rejects Promise.all while the     *)
(* other pages keep running and still save what they read.                 *)

BeginOcr(j) ==
  LET missing == Page \ ocrSaved[j] IN
  /\ task[j] = "ocrStart"
  /\ MarkPhase(j, IF kind[j] = "image" THEN "ocr_running" ELSE "ai_pending")
  /\ IF missing # {} /\ j \notin expired
     THEN ocrBusy' = [ocrBusy EXCEPT ![j] = missing] /\ Goto(j, "ocr")
     ELSE UNCHANGED ocrBusy /\ Goto(j, IF missing = {} THEN "aiPending" ELSE "fail")
  /\ UNCHANGED <<rows, pages, expired, pos, failing, aborted, deletion, host, net>>

OcrDone(j, p) ==
  /\ IoEvent
  /\ p \in ocrBusy[j]
  /\ ocrSaved' = [ocrSaved EXCEPT ![j] = @ \cup {p}]
  /\ ocrBusy' = [ocrBusy EXCEPT ![j] = @ \ {p}]
  /\ IF task[j] = "ocr" /\ ocrBusy[j] = {p} THEN Goto(j, "aiPending") ELSE UNCHANGED task
  /\ UNCHANGED <<rows, phase, keySaved, bound, resultSaved, status, expired, pos,
                 failing, aborted, deletion, host, net>>

\* Unreadable page, local OCR failure, or the deadline timer of the page.
OcrFails(j, p) ==
  /\ IoEvent
  /\ p \in ocrBusy[j]
  /\ ocrBusy' = [ocrBusy EXCEPT ![j] = @ \ {p}]
  /\ IF task[j] = "ocr" THEN Goto(j, "fail") ELSE UNCHANGED task
  /\ UNCHANGED <<rows, phase, pages, expired, pos, failing, aborted, deletion, host, net>>

--------------------------------------------------------------------------------
(* The pages, one after the other. A page that fails is recorded and the   *)
(* loop goes on with the next one.                                         *)

MarkAiPending(j) ==
  /\ task[j] = "aiPending"
  /\ MarkPhase(j, "ai_pending")
  /\ Goto(j, "page")
  /\ UNCHANGED <<rows, pages, expired, pos, failing, ocrBusy, aborted, deletion, host, net>>

\* The loop of run(): throwIfAborted, a persisted result, or the end of it.
NextPage(j) ==
  /\ task[j] = "page"
  /\ \/ /\ pos[j] \in Page /\ j \notin aborted /\ pos[j] \in resultSaved[j]
        /\ pos' = [pos EXCEPT ![j] = @ + 1]
        /\ UNCHANGED task
     \/ /\ pos[j] \in Page /\ j \in aborted
        /\ Goto(j, "fail")
        /\ UNCHANGED pos
     \/ /\ pos[j] \notin Page
        /\ Goto(j, IF j \in failing THEN "fail" ELSE "complete")
        /\ UNCHANGED pos
  /\ UNCHANGED <<rows, phase, pages, expired, failing, ocrBusy, aborted, deletion, host, net>>

\* Mutants: one page too many, no throwIfAborted, no look at the persisted result.
PageDueOffByOne(j) == pos[j] \in 1 .. PageCount + 1 /\ j \notin aborted /\ pos[j] \notin resultSaved[j]
PageDueAborted(j)  == pos[j] \in Page /\ pos[j] \notin resultSaved[j]

PageDue(j) == pos[j] \in Page /\ j \notin aborted /\ pos[j] \notin resultSaved[j]

\* The head of ensureRemotePage: the key is committed before anything is sent.
BeginPage(j) ==
  /\ task[j] = "page"
  /\ PageDue(j)
  /\ EnsureIdempotencyKey(j, pos[j])
  /\ Goto(j, "request")
  /\ UNCHANGED <<rows, phase, ocrSaved, bound, resultSaved, status, expired, pos,
                 failing, ocrBusy, aborted, deletion, host, net>>

\* Mutant: the deadline is not looked at again before a retry.
SendCreateUntimed(j) == Goto(j, "post") /\ wire' = wire \cup {<<j, pos[j]>>}

\* createWithReconciliation: one POST with the page's key, unless time is up.
SendCreate(j) ==
  IF j \in expired
  THEN Goto(j, "pageFail") /\ UNCHANGED wire
  ELSE Goto(j, "post") /\ wire' = wire \cup {<<j, pos[j]>>}

\* Mutant: the checkpointed response id is not read back.
ResponseForgotten(j) == FALSE

ResponseKnown(j) == pos[j] \in bound[j]

\* ensureRemotePage: a known response is only reconciled, an unknown one created.
RequestPage(j) ==
  /\ task[j] = "request"
  /\ \/ /\ ResponseKnown(j)
        /\ MarkPhase(j, "ai_running")
        /\ Goto(j, "get")
        /\ UNCHANGED wire
     \/ /\ ~ResponseKnown(j)
        /\ SendCreate(j)
        /\ UNCHANGED phase
  /\ UNCHANGED <<rows, pages, expired, pos, failing, ocrBusy, aborted, deletion, host, remote>>

\* A stored capture cannot be read, for its kind or for its bytes.
CaptureUnreadable(j) ==
  /\ \/ task[j] = "ocrStart" /\ Goto(j, "fail")
     \/ task[j] = "request" /\ ~ResponseKnown(j) /\ Goto(j, "pageFail")
  /\ UNCHANGED <<rows, phase, pages, expired, pos, failing, ocrBusy, aborted,
                 deletion, host, net>>

\* The create call returned: saveRemoteIdentity.
CreateReply(j) ==
  LET p == pos[j] IN
  /\ IoEvent
  /\ task[j] = "post"
  /\ remote[j][p] # "none"
  /\ bound' = [bound EXCEPT ![j] = @ \cup {p}]
  /\ status' = [status EXCEPT ![j][p] = remote[j][p]]
  /\ Goto(j, IF remote[j][p] = "pending" THEN "poll" ELSE "settlePage")
  /\ UNCHANGED <<rows, phase, ocrSaved, keySaved, resultSaved, expired, pos, failing,
                 ocrBusy, aborted, deletion, host, net>>

\* A retryable transport error: the same POST again, while the deadline allows.
CreateRetries(j) ==
  /\ IoEvent
  /\ task[j] = "post"
  /\ SendCreate(j)
  /\ UNCHANGED <<rows, phase, pages, expired, pos, failing, ocrBusy, aborted,
                 deletion, host, remote>>

\* Any other error of a create or get call.
RemoteCallFails(j) ==
  /\ IoEvent
  /\ task[j] \in {"post", "get"}
  /\ Goto(j, "pageFail")
  /\ UNCHANGED <<rows, phase, pages, expired, pos, failing, ocrBusy, aborted,
                 deletion, host, net>>

BeginPolling(j) ==
  /\ task[j] = "poll"
  /\ MarkPhase(j, "ai_running")
  /\ Goto(j, "get")
  /\ UNCHANGED <<rows, pages, expired, pos, failing, ocrBusy, aborted, deletion, host, net>>

\* The tail of ensureRemotePage for a terminal remote status s.
RecordTerminal(j, s) ==
  /\ SaveRemoteAnswer(j, pos[j], s)
  /\ failing' = IF s = "completed" THEN failing ELSE failing \cup {j}
  /\ pos' = [pos EXCEPT ![j] = @ + 1]
  /\ Goto(j, "page")
  /\ UNCHANGED <<rows, phase, ocrSaved, keySaved, bound, expired, ocrBusy, aborted,
                 deletion, host, net>>

SettlePage(j) ==
  /\ task[j] = "settlePage"
  /\ RecordTerminal(j, status[j][pos[j]])

\* reconcileUntilTerminal returned; pending replies and retryable errors poll on.
GetReply(j) ==
  /\ IoEvent
  /\ task[j] = "get"
  /\ remote[j][pos[j]] \in TerminalRemote
  /\ RecordTerminal(j, remote[j][pos[j]])

RecordPageFailure(j) ==
  LET p == pos[j] IN
  /\ task[j] = "pageFail"
  /\ status' = IF status[j][p] \in TerminalRemote
               THEN status
               ELSE [status EXCEPT ![j][p] = "failed"]
  /\ failing' = failing \cup {j}
  /\ pos' = [pos EXCEPT ![j] = @ + 1]
  /\ Goto(j, "page")
  /\ UNCHANGED <<rows, phase, ocrSaved, keySaved, bound, resultSaved, expired, ocrBusy,
                 aborted, deletion, host, net>>

--------------------------------------------------------------------------------
(* The end of a run: the durable phase first, the public row after it.     *)

MarkCompleted(j) ==
  /\ task[j] = "complete"
  /\ MarkPhase(j, "completed")
  /\ Goto(j, "settleOk")
  /\ UNCHANGED <<rows, pages, expired, pos, failing, ocrBusy, aborted, deletion, host, net>>

MarkFailed(j) ==
  /\ task[j] = "fail"
  /\ MarkPhase(j, "failed")
  /\ Goto(j, "settleErr")
  /\ UNCHANGED <<rows, pages, expired, pos, failing, ocrBusy, aborted, deletion, host, net>>

\* The task goes, and its controller and the locals of its run with it.
EndTask(j) ==
  /\ Goto(j, "none")
  /\ pos' = [pos EXCEPT ![j] = 1]
  /\ failing' = failing \ {j}
  /\ aborted' = aborted \ {j}

CompleteRow(j) ==
  /\ task[j] = "settleOk"
  /\ SettleRow(j, "completed")
  /\ EndTask(j)
  /\ UNCHANGED <<kind, retryOf, phase, pages, expired, ocrBusy, deletion, host, net>>

\* Only a server that is not closing turns a running row into a failed one.
FailRow(j) ==
  /\ task[j] = "settleErr"
  /\ IF proc = "up" THEN SettleRow(j, "failed") ELSE UNCHANGED row
  /\ EndTask(j)
  /\ UNCHANGED <<kind, retryOf, phase, pages, expired, ocrBusy, deletion, host, net>>

\* extract() of a job without AI verification.
PlainExtracted(j) ==
  /\ IoEvent
  /\ task[j] = "extract"
  /\ \E pc \in {"settleOk", "settleErr"} : Goto(j, pc)
  /\ UNCHANGED <<rows, phase, pages, expired, pos, failing, ocrBusy, aborted,
                 deletion, host, net>>

\* Waits and fetches reject with an AbortError, which isAbortFromCaller keeps out
\* of the durable state; a response body being read rejects with the abort reason
\* itself, a plain Error, which it does not recognise.
AbortRejects(j) ==
  /\ j \in aborted
  /\ canceller[j] # "mark"
  /\ \/ task[j] \in AwaitPc /\ Goto(j, "settleErr")
     \/ task[j] \in {"post", "get"} /\ Goto(j, "pageFail")
  /\ UNCHANGED <<rows, phase, pages, expired, pos, failing, ocrBusy, aborted,
                 deletion, host, net>>

--------------------------------------------------------------------------------
(* DELETE of a job: the row, the abort of its task, then the remote work   *)
(* found in one snapshot of the pages, and the phase at the end.           *)

\* An abort kills the OCR of a task that is still waiting for it.
StopOcr(S) == ocrBusy' = [j \in Jobs |-> IF j \in S /\ task[j] = "ocr" THEN {} ELSE ocrBusy[j]]

UnfinishedRemote(j) == {p \in bound[j] : status[j][p] \notin TerminalRemote}

DeleteJob(j) ==
  /\ proc = "up" /\ LoopFree
  /\ row[j] \notin {"absent", "pruned"}
  /\ canceller[j] = "none"
  /\ row' = [row EXCEPT ![j] = IF ActiveJob(j) THEN "cancelled" ELSE @]
  /\ aborted' = IF task[j] # "none" THEN aborted \cup {j} ELSE aborted
  /\ StopOcr({j})
  /\ todo' = [todo EXCEPT ![j] = UnfinishedRemote(j)]
  /\ canceller' = [canceller EXCEPT ![j] =
                     CASE phase[j] = "none" -> "none"
                       [] phase[j] # "none" /\ UnfinishedRemote(j) = {} -> "mark"
                       [] OTHER -> "await"]
  /\ UNCHANGED <<kind, retryOf, phase, pages, expired, task, pos, failing, host, net>>

\* What the provider answers to a cancel of page p, and what cancel() stores.
CancelAnswer(j, p) ==
  \/ \* the response, cancelled now if it was still pending
     LET s == IF remote[j][p] = "pending" THEN "cancelled" ELSE remote[j][p] IN
     /\ remote' = [remote EXCEPT ![j][p] = s]
     /\ SaveRemoteAnswer(j, p, s)
  \/ \* the request is taken but the response is still running
     /\ remote[j][p] = "pending"
     /\ status' = [status EXCEPT ![j][p] = "pending"]
     /\ UNCHANGED <<remote, resultSaved>>
  \/ \* an AiProviderError, which cancel() swallows
     UNCHANGED <<remote, status, resultSaved>>

\* The answers arrive in the order of the pages.
CancelReply(j) ==
  /\ IoEvent
  /\ canceller[j] = "await"
  /\ \E p \in todo[j] :
       /\ \A q \in todo[j] : p <= q
       /\ CancelAnswer(j, p)
       /\ todo' = [todo EXCEPT ![j] = @ \ {p}]
       /\ canceller' = [canceller EXCEPT ![j] = IF todo[j] = {p} THEN "mark" ELSE @]
  /\ UNCHANGED <<rows, phase, ocrSaved, keySaved, bound, expired, runner, host, wire>>

\* Any other error leaves the handler: the phase is never marked.
CancelThrows(j) ==
  /\ IoEvent
  /\ canceller[j] = "await"
  /\ canceller' = [canceller EXCEPT ![j] = "none"]
  /\ todo' = [todo EXCEPT ![j] = {}]
  /\ UNCHANGED <<rows, phase, pages, expired, runner, host, net>>

MarkCancelled(j) ==
  /\ canceller[j] = "mark"
  /\ MarkPhase(j, "cancelled")
  /\ canceller' = [canceller EXCEPT ![j] = "none"]
  /\ UNCHANGED <<rows, pages, expired, runner, todo, host, net>>

--------------------------------------------------------------------------------
(* Retention: the row is deleted and the durable state cascades with it. A *)
(* row that is still worked on is younger than the 24 hours of retention.  *)

ForgetDurable(S) ==
  /\ phase' = [j \in Jobs |-> IF j \in S THEN "none" ELSE phase[j]]
  /\ ocrSaved' = [j \in Jobs |-> IF j \in S THEN {} ELSE ocrSaved[j]]
  /\ keySaved' = [j \in Jobs |-> IF j \in S THEN {} ELSE keySaved[j]]
  /\ bound' = [j \in Jobs |-> IF j \in S THEN {} ELSE bound[j]]
  /\ resultSaved' = [j \in Jobs |-> IF j \in S THEN {} ELSE resultSaved[j]]
  /\ status' = [j \in Jobs |-> IF j \in S THEN [p \in Page |-> "none"] ELSE status[j]]

PruneJob(j) ==
  /\ proc = "up" /\ LoopFree
  /\ row[j] \notin {"absent", "pruned"}
  /\ task[j] = "none" /\ canceller[j] = "none" /\ ocrBusy[j] = {}
  /\ row' = [row EXCEPT ![j] = "pruned"]
  /\ ForgetDurable({j})
  /\ UNCHANGED <<kind, retryOf, expired, runner, deletion, host, net>>

--------------------------------------------------------------------------------
(* The process: graceful close, crash, and the start on the same database. *)

\* The gateway stops accepting and drains its requests before the server closes.
Close ==
  /\ GracefulClose
  /\ proc = "up" /\ LoopFree
  /\ stops < MaxStops
  /\ \A j \in Jobs : canceller[j] = "none"
  /\ proc' = "closing"
  /\ aborted' = {j \in Jobs : task[j] # "none"}
  /\ StopOcr(Jobs)
  /\ UNCHANGED <<rows, phase, pages, expired, task, pos, failing, deletion, stops, net>>

LoseMemory ==
  /\ proc' = "down"
  /\ stops' = stops + 1
  /\ task' = [j \in Jobs |-> "none"]
  /\ pos' = [j \in Jobs |-> 1]
  /\ failing' = {}
  /\ ocrBusy' = [j \in Jobs |-> {}]
  /\ aborted' = {}
  /\ canceller' = [j \in Jobs |-> "none"]
  /\ todo' = [j \in Jobs |-> {}]
  /\ UNCHANGED <<rows, phase, pages, expired, net>>

\* allSettled: the process goes once every task has settled.
Exit ==
  /\ proc = "closing"
  /\ \A j \in Jobs : task[j] = "none"
  /\ LoseMemory

Crash ==
  /\ proc \in {"up", "closing"}
  /\ stops < MaxStops
  /\ CrashInTurn \/ LoopFree
  /\ LoseMemory

\* listen(): recoverNonDurableActiveJobs, the prune of the rows in old, and a task
\* for every job that is still recoverable.
Listen(old) ==
  /\ proc = "down"
  /\ \A j \in old : row[j] \notin {"absent", "pruned"}
  /\ proc' = "up"
  /\ row' = [j \in Jobs |->
               CASE j \in old -> "pruned"
                 [] j \notin old /\ ActiveJob(j) /\ phase[j] = "none" -> "failed"
                 [] OTHER -> row[j]]
  /\ ForgetDurable(old)
  /\ task' = [j \in Jobs |-> IF Recoverable(j) /\ j \notin old THEN "start" ELSE "none"]
  /\ UNCHANGED <<kind, retryOf, expired, pos, failing, ocrBusy, aborted, deletion,
                 stops, net>>

--------------------------------------------------------------------------------
(* The provider and the clock, which run whatever the process does.        *)

\* The provider keeps one response for each idempotency key.
ProviderAccepts(j, p) ==
  /\ <<j, p>> \in wire
  /\ wire' = wire \ {<<j, p>>}
  /\ remote' = [remote EXCEPT ![j][p] = IF @ = "none" THEN "pending" ELSE @]
  /\ UNCHANGED <<rows, phase, pages, expired, runner, deletion, host>>

ProviderFinishes(j, p) ==
  /\ remote[j][p] = "pending"
  /\ \E s \in {"completed", "failed"} : remote' = [remote EXCEPT ![j][p] = s]
  /\ UNCHANGED <<rows, phase, pages, expired, runner, deletion, host, wire>>

DeadlinePasses(j) ==
  /\ Recoverable(j) /\ j \notin expired
  /\ expired' = expired \cup {j}
  /\ UNCHANGED <<rows, phase, pages, runner, deletion, host, net>>

--------------------------------------------------------------------------------

\* Steps of the task of job j: its turns, and the answers it waits for.
TaskProgress(j) ==
  \/ InitializeState(j) \/ StartJob(j) \/ CopyReusableRetryEvidence(j) \/ BeginOcr(j)
  \/ CaptureUnreadable(j)
  \/ \E p \in Page : OcrDone(j, p) \/ OcrFails(j, p)
  \/ MarkAiPending(j) \/ NextPage(j) \/ BeginPage(j) \/ RequestPage(j)
  \/ CreateReply(j) \/ CreateRetries(j) \/ BeginPolling(j) \/ SettlePage(j)
  \/ GetReply(j) \/ RecordPageFailure(j) \/ AbortRejects(j)
  \/ MarkCompleted(j) \/ MarkFailed(j) \/ CompleteRow(j) \/ FailRow(j) \/ PlainExtracted(j)

TaskStep(j) == TaskProgress(j) \/ RemoteCallFails(j)

ApiStep(j) ==
  \/ \E k \in Kinds, src \in Jobs \cup {NoJob} : CreateJob(j, k, src)
  \/ DeleteJob(j) \/ CancelReply(j) \/ CancelThrows(j) \/ MarkCancelled(j) \/ PruneJob(j)

HostStep == Close \/ Exit \/ Crash \/ \E old \in SUBSET Jobs : Listen(old)

WorldStep(j) ==
  \/ \E p \in Page : ProviderAccepts(j, p) \/ ProviderFinishes(j, p)
  \/ DeadlinePasses(j)

Next ==
  \/ \E j \in Jobs : TaskStep(j) \/ ApiStep(j) \/ WorldStep(j)
  \/ HostStep

Spec == Init /\ [][Next]_vars

--------------------------------------------------------------------------------
(* What must never go wrong.                                               *)

\* Remote work always has its anchor: whatever the provider holds or is about to
\* receive for a job that still has durable state, the page's idempotency key and
\* its OCR evidence were committed before (ensureRemotePage, spec "Decision").
RemoteWorkAnchored ==
  \A j \in Jobs, p \in Page :
    (<<j, p>> \in wire \/ remote[j][p] # "none") /\ phase[j] # "none"
      => p \in keySaved[j] /\ p \in ocrSaved[j]

\* A checkpointed result is the provider's: of a page that owns a response, that
\* response completed; of any other page, the result was taken over by an explicit
\* retry, which then never asks for the page again (copyReusableRetryEvidence).
ResultsAreRemoteTruth ==
  \A j \in Jobs : \A p \in resultSaved[j] :
    IF p \in bound[j]
    THEN remote[j][p] = "completed"
    ELSE retryOf[j] # NoJob /\ p \notin keySaved[j]

\* The public row and the durable phase, written by two commits that a crash, a
\* DELETE or a shutdown may separate, never contradict each other: a completed row
\* has the evidence of all its pages, and neither a completed nor a failed row has
\* a phase that recovery would resume, but for a retry whose source was not usable.
Agreement(j) ==
  phase[j] # "none" =>
    /\ phase[j] = "completed" \/ row[j] = "completed" => resultSaved[j] = Page
    /\ row[j] = "completed" => phase[j] \in {"completed", "cancelled"}
    /\ row[j] = "failed" => \/ phase[j] \in {"failed", "cancelled"}
                            \/ phase[j] = "queued" /\ retryOf[j] # NoJob

RowAndPhaseAgree == \A j \in Jobs : Agreement(j)

\* The copy of an explicit retry can be repeated by a recovery: when it runs, the
\* target holds no remote work and nothing the source does not hold, so that the
\* assertions of assertRetryPageCompatible and saveReusableRemoteResult pass.
RetryCopyIsRepeatable ==
  \A j \in Jobs :
    LET src == retryOf[j] IN
    task[j] = "copy" /\ phase[src] = "failed" =>
      /\ keySaved[j] = {} /\ bound[j] = {}
      /\ ocrSaved[j] \subseteq ocrSaved[src]
      /\ resultSaved[j] = {p \in Page : status[j][p] = "completed"}
      /\ resultSaved[j] \subseteq ReusableResults(src)

\* Once the response of a page is known, or its result is checkpointed, no create
\* is sent for that page again, across restarts too: recovery is GET-only.
KnownResponseNeverResubmitted ==
  [][\A j \in Jobs, p \in Page : <<j, p>> \in wire' \ wire =>
       p \notin bound[j] /\ p \notin resultSaved[j]]_vars

\* After a DELETE was answered with a cancelled row, the task of the job, which may
\* be anywhere in its run, starts no OCR, no create and no get any more.
CancelledJobIsSilent ==
  [][\A j \in Jobs : row[j] = "cancelled" =>
       /\ \A p \in Page : <<j, p>> \notin wire' \ wire
       /\ ocrBusy'[j] \subseteq ocrBusy[j]
       /\ task'[j] \in {"post", "get"} => task[j] = task'[j]]_vars

\* A server that is closing leaves a job that recovery could resume as it is: the
\* abort of its waits is not recorded as a failure of the work.
ShutdownKeepsWorkRecoverable ==
  [][\A j \in Jobs : proc = "closing" /\ phase[j] \in RecoverablePhase =>
       phase'[j] \in RecoverablePhase]_vars

\* Every start resumes each job that is still shown as queued or running, or fails it
\* as interrupted: none stays active without a task.
StartupResumesActiveJobs ==
  [][proc = "down" /\ proc' = "up" =>
       \A j \in Jobs : row'[j] \in ActiveRow => task'[j] # "none"]_vars

\* A job shown as queued or running has a task that works on it, whenever the
\* server is up: nothing is left behind that no start will ever resume.
ActiveJobHasTask ==
  \A j \in Jobs : proc = "up" /\ ActiveJob(j) => task[j] # "none"

--------------------------------------------------------------------------------
(* What must happen, under the fairness of the event loop (a task whose    *)
(* next turn is due takes it, an OCR ends), of the supervisor that starts  *)
(* the process again, of the clock, and of a provider that finishes what   *)
(* it accepted: a get is repeated without any deadline, and nothing forces *)
(* it to fail.                                                             *)

HostFairness ==
  /\ \A j \in Jobs : WF_vars(TaskProgress(j)) /\ WF_vars(MarkCancelled(j))
  /\ \A j \in Jobs : WF_vars(DeadlinePasses(j))
  /\ WF_vars(\E old \in SUBSET Jobs : Listen(old))

ProviderFairness == \A j \in Jobs, p \in Page : WF_vars(ProviderFinishes(j, p))

HostFairSpec == Spec /\ HostFairness
FairSpec     == HostFairSpec /\ ProviderFairness

\* Every job that is created ends: completed, failed, cancelled or pruned, however
\* often the process stops between two turns and however its calls fail.
EveryJobSettles == \A j \in Jobs : ActiveJob(j) ~> ~ActiveJob(j)

\* The budget of five minutes bounds a job whatever the provider does: once its
\* persisted deadline has passed, the job ends.
BudgetBoundsTheJob == \A j \in Jobs : ActiveJob(j) /\ j \in expired ~> ~ActiveJob(j)

--------------------------------------------------------------------------------
\* The runner, the handlers and the restarts implement the life cycle that a
\* client of the extraction-jobs API relies on.
Lifecycle == INSTANCE ReceiptJobLifecycle WITH evidence <- resultSaved

ImplementsLifecycle == Lifecycle!Spec
================================================================================
