----------------------- MODULE DurableReceiptJob_proofs -----------------------
(***************************************************************************)
(* Theorems about the durable receipt job, for every set of jobs, every    *)
(* number of pages and every bound on the number of stops.                 *)
(***************************************************************************)
EXTENDS DurableReceiptJob, TLAPS

\* Program counters at which the runner works on the page at pos.
PagePc == {"request", "post", "poll", "settlePage", "get", "pageFail"}

\* Program counters of a task that runs without durable state, or may.
PlainPc == {"none", "start", "extract", "settleOk", "settleErr"}

\* Program counters before the loop over the pages.
EarlyPc == {"none", "initialize", "start", "copy", "ocrStart", "ocr", "aiPending", "extract"}

\* Where a task is, what row it works for, and who may have interrupted it.
JobControl(j) ==
  /\ task[j] \in PagePc => pos[j] \in Page
  /\ task[j] # "none" => row[j] \in {"queued", "running", "cancelled"}
  /\ task[j] \notin {"none", "initialize", "start"} => row[j] \in {"running", "cancelled"}
  /\ task[j] \notin PlainPc => kind[j] # "plain"
  /\ task[j] = "extract" => kind[j] = "plain"
  /\ task[j] = "copy" => retryOf[j] # NoJob
  /\ row[j] = "absent" => phase[j] = "none"
  /\ kind[j] = "plain" => phase[j] = "none"
  /\ canceller[j] # "none" => phase[j] # "none" /\ row[j] \notin {"absent", "pruned"}
  /\ j \in aborted => task[j] # "none" /\ (row[j] = "cancelled" \/ proc = "closing")
  /\ task[j] \in EarlyPc => pos[j] = 1
  /\ proc = "down" => task[j] = "none" /\ canceller[j] = "none" /\ j \notin aborted

Control ==
  /\ proc = "closing" => stops < MaxStops
  /\ \A j \in Jobs : JobControl(j)

\* The evidence behind a task that is about to settle, and behind a page loop.
JobCoverage(j) ==
  /\ task[j] \in PagePc \cup {"page"} /\ j \notin failing
       => \A q \in Page : q < pos[j] => q \in resultSaved[j]
  /\ task[j] = "copy" => phase[j] \in {"queued", "cancelled"}
  /\ task[j] = "complete" => resultSaved[j] = Page
  /\ task[j] = "settleOk" /\ kind[j] # "plain" => resultSaved[j] = Page
  /\ task[j] = "settleOk" => phase[j] \in {"none", "completed", "cancelled"}
  /\ task[j] = "settleErr" =>
       \/ row[j] = "cancelled" \/ proc = "closing"
       \/ phase[j] \in {"none", "failed", "cancelled"}
       \/ phase[j] = "queued" /\ retryOf[j] # NoJob

Coverage == \A j \in Jobs : JobCoverage(j)

\* The local checkpoints a task has made by the time it asks for remote work.
JobAnchors(j) ==
  /\ row[j] = "pruned" => phase[j] = "none"
  /\ row[j] # "pruned" =>
       \A p \in Page : <<j, p>> \in wire \/ remote[j][p] # "none"
                       => p \in keySaved[j] /\ p \in ocrSaved[j]
  /\ task[j] = "ocr" => j \in aborted \/ \A p \in Page : p \in ocrSaved[j] \/ p \in ocrBusy[j]
  /\ task[j] \in PagePc \cup {"aiPending", "page"} => ocrSaved[j] = Page
  /\ task[j] \in PagePc => pos[j] \in keySaved[j]

Anchors == \A j \in Jobs : JobAnchors(j)

\* What keeps a page that is about to be sent apart from the answered ones: a DELETE
\* stores answers of pages that own a response only, and a create waits without one.
JobFresh(j) ==
  /\ todo[j] \subseteq bound[j]
  /\ canceller[j] # "await" => todo[j] = {}
  /\ phase[j] = "none" => bound[j] = {}
  /\ task[j] \notin {"none", "initialize"} /\ kind[j] # "plain" => phase[j] # "none"
  /\ task[j] \in {"request", "post"} => pos[j] \notin resultSaved[j]
  /\ task[j] = "post" => pos[j] \notin bound[j]

Fresh == \A j \in Jobs : JobFresh(j)

\* The inductive invariant.
IInv ==
  /\ TypeOK
  /\ Control
  /\ Coverage
  /\ Anchors
  /\ Fresh
  /\ RowAndPhaseAgree

\* A step that leaves all that the invariants say of a job as it is.
Untouched(i) ==
  /\ row'[i] = row[i] /\ kind'[i] = kind[i] /\ retryOf'[i] = retryOf[i] /\ phase'[i] = phase[i]
  /\ task'[i] = task[i] /\ pos'[i] = pos[i] /\ resultSaved'[i] = resultSaved[i]
  /\ (i \in failing') = (i \in failing) /\ proc' = proc


--------------------------------------------------------------------------------
(* The invariant is inductive. *)

\* The initial states satisfy the inductive invariant.
LEMMA InvInit == Init => IInv
  BY JobsAssumption, PagesAssumption, KindsAssumption, StopsAssumption
     DEF Init, IInv, TypeOK, Control, JobControl, Coverage, JobCoverage, Anchors, JobAnchors,
          Fresh, JobFresh,
         RowAndPhaseAgree, Agreement,
         Page, AllKinds, RowStatus, ActiveRow, TerminalRow, Phase, RecoverablePhase, RemoteStatus,
         TerminalRemote, AwaitPc, TurnPc, PagePc, PlainPc, EarlyPc

\* A step keeps the type invariant; Control bounds pos and the number of stops.
LEMMA TypeStep == TypeOK /\ Control /\ [Next]_vars => TypeOK'
<1> SUFFICES ASSUME TypeOK, Control, [Next]_vars PROVE TypeOK'
  OBVIOUS
<1> USE JobsAssumption, PagesAssumption, KindsAssumption, StopsAssumption
<1> USE DEF TypeOK, Goto, rows, pages, runner, deletion, host, net, Page, AllKinds,
        ActiveRow, TerminalRow, RowStatus, RecoverablePhase, Phase, TerminalRemote,
        RemoteStatus, AwaitPc, TurnPc
<1>1. ASSUME NEW j \in Jobs, InitializeState(j) PROVE TypeOK'
  BY <1>1 DEF InitializeState
<1>2. ASSUME NEW j \in Jobs, StartJob(j) PROVE TypeOK'
  BY <1>2 DEF StartJob, ActiveJob
<1>3. ASSUME NEW j \in Jobs, CopyReusableRetryEvidence(j) PROVE TypeOK'
  <2>1. CASE phase[retryOf[j]] = "failed"
    <3>1. status' = [status EXCEPT ![j] = [p \in Page |->
                       IF p \in ReusableResults(retryOf[j]) THEN "completed" ELSE status[j][p]]]
      BY <1>3, <2>1 DEF CopyReusableRetryEvidence
    <3>2. status' \in [Jobs -> [Page -> RemoteStatus \cup {"none"}]]
      BY <3>1
    <3>3. retryOf[j] \in Jobs /\ ReusableResults(retryOf[j]) \subseteq Page
      BY <1>3, <2>1 DEF CopyReusableRetryEvidence, ReusableResults, Control, JobControl
    <3>4. ocrSaved' \in [Jobs -> SUBSET Page]
      <4>1. ocrSaved' = [ocrSaved EXCEPT ![j] = ocrSaved[j] \cup ocrSaved[retryOf[j]]]
        BY <1>3, <2>1 DEF CopyReusableRetryEvidence
      <4> QED
        BY <3>3, <4>1
    <3>5. resultSaved' = [resultSaved EXCEPT ![j] = resultSaved[j] \cup ReusableResults(retryOf[j])]
      BY <1>3, <2>1 DEF CopyReusableRetryEvidence
    <3>6. resultSaved' \in [Jobs -> SUBSET Page]
      BY <3>3, <3>5
    <3> QED
      BY <1>3, <2>1, <3>2, <3>4, <3>6 DEF CopyReusableRetryEvidence
  <2>2. CASE phase[retryOf[j]] # "failed"
    BY <1>3, <2>2 DEF CopyReusableRetryEvidence
  <2> QED
    BY <2>1, <2>2
<1>4. ASSUME NEW j \in Jobs, BeginOcr(j) PROVE TypeOK'
  <2>1. CASE Page \ ocrSaved[j] # {} /\ j \notin expired
    <3>1. ocrBusy' = [ocrBusy EXCEPT ![j] = Page \ ocrSaved[j]] /\ task' = [task EXCEPT ![j] = "ocr"]
      BY <1>4, <2>1 DEF BeginOcr
    <3> QED
      BY <1>4, <3>1 DEF BeginOcr, MarkPhase
  <2>2. CASE ~(Page \ ocrSaved[j] # {} /\ j \notin expired)
    BY <1>4, <2>2 DEF BeginOcr, MarkPhase
  <2> QED
    BY <2>1, <2>2
<1>5. ASSUME NEW j \in Jobs, CaptureUnreadable(j) PROVE TypeOK'
  BY <1>5 DEF CaptureUnreadable, ResponseKnown
<1>6. ASSUME NEW j \in Jobs, MarkAiPending(j) PROVE TypeOK'
  BY <1>6 DEF MarkAiPending, MarkPhase
<1>7. ASSUME NEW j \in Jobs, NextPage(j) PROVE TypeOK'
  <2>1. CASE pos[j] \in Page /\ j \notin aborted
    BY <1>7, <2>1 DEF NextPage
  <2>2. CASE ~(pos[j] \in Page /\ j \notin aborted)
    BY <1>7, <2>2 DEF NextPage
  <2> QED
    BY <2>1, <2>2
<1>8. ASSUME NEW j \in Jobs, BeginPage(j) PROVE TypeOK'
  BY <1>8 DEF BeginPage, PageDue, EnsureIdempotencyKey
<1>9. ASSUME NEW j \in Jobs, RequestPage(j) PROVE TypeOK'
  <2>1. CASE ResponseKnown(j)
    BY <1>9, <2>1 DEF RequestPage, MarkPhase
  <2>2. CASE ~ResponseKnown(j) /\ j \in expired
    BY <1>9, <2>2 DEF RequestPage, SendCreate
  <2>3. CASE ~ResponseKnown(j) /\ j \notin expired
    <3>1. wire' = wire \cup {<<j, pos[j]>>} /\ task' = [task EXCEPT ![j] = "post"]
      BY <1>9, <2>3 DEF RequestPage, SendCreate
    <3>2. pos[j] \in Page
      BY <1>9 DEF RequestPage, Control, JobControl, PagePc
    <3> QED
      BY <1>9, <2>3, <3>1, <3>2 DEF RequestPage
  <2> QED
    BY <2>1, <2>2, <2>3
<1>10. ASSUME NEW j \in Jobs, CreateReply(j) PROVE TypeOK'
  BY <1>10 DEF CreateReply, Control, JobControl, PagePc
<1>11. ASSUME NEW j \in Jobs, CreateRetries(j) PROVE TypeOK'
  <2>1. CASE j \in expired
    BY <1>11, <2>1 DEF CreateRetries, SendCreate
  <2>2. CASE j \notin expired
    <3>1. wire' = wire \cup {<<j, pos[j]>>} /\ task' = [task EXCEPT ![j] = "post"]
      BY <1>11, <2>2 DEF CreateRetries, SendCreate
    <3>2. pos[j] \in Page
      BY <1>11 DEF CreateRetries, Control, JobControl, PagePc
    <3> QED
      BY <1>11, <2>2, <3>1, <3>2 DEF CreateRetries
  <2> QED
    BY <2>1, <2>2
<1>12. ASSUME NEW j \in Jobs, BeginPolling(j) PROVE TypeOK'
  BY <1>12 DEF BeginPolling, MarkPhase
<1>13. ASSUME NEW j \in Jobs, SettlePage(j) PROVE TypeOK'
  BY <1>13 DEF Control, JobControl, PagePc, SettlePage, RecordTerminal, SaveRemoteAnswer
<1>14. ASSUME NEW j \in Jobs, GetReply(j) PROVE TypeOK'
  BY <1>14 DEF Control, JobControl, PagePc, GetReply, RecordTerminal, SaveRemoteAnswer,
       TerminalRemote
<1>15. ASSUME NEW j \in Jobs, RecordPageFailure(j) PROVE TypeOK'
  BY <1>15 DEF Control, JobControl, PagePc, RecordPageFailure
<1>16. ASSUME NEW j \in Jobs, AbortRejects(j) PROVE TypeOK'
  BY <1>16 DEF AbortRejects
<1>17. ASSUME NEW j \in Jobs, MarkCompleted(j) PROVE TypeOK'
  BY <1>17 DEF MarkCompleted, MarkPhase
<1>18. ASSUME NEW j \in Jobs, MarkFailed(j) PROVE TypeOK'
  BY <1>18 DEF MarkFailed, MarkPhase
<1>19. ASSUME NEW j \in Jobs, CompleteRow(j) PROVE TypeOK'
  BY <1>19 DEF CompleteRow, EndTask, SettleRow
<1>20. ASSUME NEW j \in Jobs, FailRow(j) PROVE TypeOK'
  <2>1. CASE proc = "up"
    <3>1. row' \in [Jobs -> RowStatus]
      BY <1>20, <2>1 DEF FailRow, SettleRow
    <3>2. EndTask(j) /\ UNCHANGED <<kind, retryOf, phase, pages, expired, ocrBusy, deletion, host, net>>
      BY <1>20 DEF FailRow
    <3> QED
      BY <3>1, <3>2 DEF EndTask
  <2>2. CASE proc # "up"
    BY <1>20, <2>2 DEF FailRow, EndTask
  <2> QED
    BY <2>1, <2>2
<1>21. ASSUME NEW j \in Jobs, PlainExtracted(j) PROVE TypeOK'
  BY <1>21 DEF PlainExtracted
<1>22. ASSUME NEW j \in Jobs, RemoteCallFails(j) PROVE TypeOK'
  BY <1>22 DEF RemoteCallFails
<1>23. ASSUME NEW j \in Jobs, DeleteJob(j) PROVE TypeOK'
  BY <1>23 DEF DeleteJob, StopOcr, UnfinishedRemote, ActiveJob
<1>24. ASSUME NEW j \in Jobs, CancelReply(j) PROVE TypeOK'
  <2>1. PICK p \in todo[j] :
          /\ CancelAnswer(j, p)
          /\ todo' = [todo EXCEPT ![j] = @ \ {p}]
          /\ canceller' = [canceller EXCEPT ![j] = IF todo[j] = {p} THEN "mark" ELSE @]
    BY <1>24 DEF CancelReply
  <2>2. p \in Page
    OBVIOUS
  <2>3. /\ status' \in [Jobs -> [Page -> RemoteStatus \cup {"none"}]]
        /\ remote' \in [Jobs -> [Page -> RemoteStatus \cup {"none"}]]
        /\ resultSaved' \in [Jobs -> SUBSET Page]
    <3>1. CASE UNCHANGED <<remote, status, resultSaved>>
      BY <3>1
    <3>2. CASE status' = [status EXCEPT ![j][p] = "pending"] /\ UNCHANGED <<remote, resultSaved>>
      BY <2>2, <3>2
    <3>3. ASSUME NEW s \in RemoteStatus \cup {"none"},
                 remote' = [remote EXCEPT ![j][p] = s], SaveRemoteAnswer(j, p, s)
          PROVE /\ status' \in [Jobs -> [Page -> RemoteStatus \cup {"none"}]]
                /\ remote' \in [Jobs -> [Page -> RemoteStatus \cup {"none"}]]
                /\ resultSaved' \in [Jobs -> SUBSET Page]
      BY <2>2, <3>3 DEF SaveRemoteAnswer
    <3>4. (IF remote[j][p] = "pending" THEN "cancelled" ELSE remote[j][p]) \in RemoteStatus \cup {"none"}
      BY <2>2
    <3> QED
      BY <2>1, <3>1, <3>2, <3>3, <3>4 DEF CancelAnswer
  <2> QED
    BY <1>24, <2>1, <2>3 DEF CancelReply
<1>25. ASSUME NEW j \in Jobs, CancelThrows(j) PROVE TypeOK'
  BY <1>25 DEF CancelThrows
<1>26. ASSUME NEW j \in Jobs, MarkCancelled(j) PROVE TypeOK'
  BY <1>26 DEF MarkCancelled, MarkPhase
<1>27. ASSUME NEW j \in Jobs, PruneJob(j) PROVE TypeOK'
  BY <1>27 DEF PruneJob, ForgetDurable
<1>28. ASSUME NEW j \in Jobs, DeadlinePasses(j) PROVE TypeOK'
  BY <1>28 DEF DeadlinePasses
<1>30. ASSUME NEW j \in Jobs, NEW k \in Kinds, NEW src \in Jobs \cup {NoJob}, CreateJob(j, k, src) PROVE TypeOK'
  BY <1>30 DEF CreateJob
<1>31. ASSUME NEW j \in Jobs, NEW p \in Page, OcrDone(j, p) PROVE TypeOK'
  BY <1>31 DEF OcrDone
<1>32. ASSUME NEW j \in Jobs, NEW p \in Page, OcrFails(j, p) PROVE TypeOK'
  BY <1>32 DEF OcrFails
<1>33. ASSUME NEW j \in Jobs, NEW p \in Page, ProviderAccepts(j, p) PROVE TypeOK'
  BY <1>33 DEF ProviderAccepts
<1>34. ASSUME NEW j \in Jobs, NEW p \in Page, ProviderFinishes(j, p) PROVE TypeOK'
  BY <1>34 DEF ProviderFinishes
<1>35. ASSUME Close PROVE TypeOK'
  BY <1>35 DEF Close, StopOcr
<1>36. ASSUME Exit PROVE TypeOK'
  BY <1>36 DEF Exit, LoseMemory, Control
<1>37. ASSUME Crash PROVE TypeOK'
  BY <1>37 DEF Crash, LoseMemory
<1>38. ASSUME NEW old \in SUBSET Jobs, Listen(old) PROVE TypeOK'
  BY <1>38 DEF Listen, ForgetDurable, Recoverable, ActiveJob
<1>39. CASE UNCHANGED vars
  BY <1>39 DEF vars
<1> QED
  BY <1>1, <1>2, <1>3, <1>4, <1>5, <1>6, <1>7, <1>8, <1>9, <1>10, <1>11, <1>12, <1>13, <1>14,
       <1>15, <1>16, <1>17, <1>18, <1>19, <1>20, <1>21, <1>22, <1>23, <1>24, <1>25, <1>26, <1>27,
       <1>28, <1>30, <1>31, <1>32, <1>33, <1>34, <1>35, <1>36, <1>37, <1>38, <1>39
     DEF Next, TaskStep, TaskProgress, ApiStep, WorldStep, HostStep

\* A step keeps Control: a task has a row that is queued, running or cancelled, and
\* only a DELETE or a shutdown aborts it.
LEMMA ControlStep == TypeOK /\ Control /\ [Next]_vars => Control'
<1> SUFFICES ASSUME TypeOK, Control, [Next]_vars PROVE Control'
  OBVIOUS
<1> USE JobsAssumption, PagesAssumption, KindsAssumption, StopsAssumption
<1> USE DEF TypeOK, Control, JobControl, Goto, rows, pages, runner, deletion, host, net, Page,
     AllKinds,
        ActiveRow, TerminalRow, RowStatus, RecoverablePhase, Phase, AwaitPc, TurnPc, PagePc, PlainPc, EarlyPc
<1>1. ASSUME NEW j \in Jobs, InitializeState(j) PROVE Control'
  BY <1>1 DEF InitializeState
<1>2. ASSUME NEW j \in Jobs, StartJob(j) PROVE Control'
  BY <1>2 DEF StartJob, ActiveJob
<1>3. ASSUME NEW j \in Jobs, CopyReusableRetryEvidence(j) PROVE Control'
  BY <1>3 DEF CopyReusableRetryEvidence, ReusableResults
<1>4. ASSUME NEW j \in Jobs, BeginOcr(j) PROVE Control'
  BY <1>4 DEF BeginOcr, MarkPhase
<1>5. ASSUME NEW j \in Jobs, CaptureUnreadable(j) PROVE Control'
  <2>1. CASE task[j] = "ocrStart"
    <3>1. task' = [task EXCEPT ![j] = "fail"]
      BY <1>5, <2>1 DEF CaptureUnreadable
    <3> QED
      BY <1>5, <2>1, <3>1 DEF CaptureUnreadable
  <2>2. CASE task[j] = "request"
    BY <1>5, <2>2 DEF CaptureUnreadable
  <2> QED
    BY <1>5, <2>1, <2>2 DEF CaptureUnreadable
<1>6. ASSUME NEW j \in Jobs, MarkAiPending(j) PROVE Control'
  BY <1>6 DEF MarkAiPending, MarkPhase
<1>7. ASSUME NEW j \in Jobs, NextPage(j) PROVE Control'
  <2>1. CASE pos[j] \in Page /\ j \notin aborted
    BY <1>7, <2>1 DEF NextPage
  <2>2. CASE pos[j] \in Page /\ j \in aborted
    <3>1. task' = [task EXCEPT ![j] = "fail"] /\ task[j] = "page" /\ UNCHANGED pos
      BY <1>7, <2>2 DEF NextPage
    <3> QED
      BY <1>7, <3>1 DEF NextPage
  <2>3. CASE pos[j] \notin Page
    BY <1>7, <2>3 DEF NextPage
  <2> QED
    BY <2>1, <2>2, <2>3
<1>8. ASSUME NEW j \in Jobs, BeginPage(j) PROVE Control'
  BY <1>8 DEF BeginPage, PageDue, EnsureIdempotencyKey
<1>9. ASSUME NEW j \in Jobs, RequestPage(j) PROVE Control'
  <2>1. CASE ResponseKnown(j)
    BY <1>9, <2>1 DEF RequestPage, MarkPhase
  <2>2. CASE ~ResponseKnown(j)
    <3>1. /\ task' = [task EXCEPT ![j] = "pageFail"] \/ task' = [task EXCEPT ![j] = "post"]
          /\ UNCHANGED phase
      BY <1>9, <2>2 DEF RequestPage, SendCreate
    <3>2. CASE task' = [task EXCEPT ![j] = "pageFail"]
      BY <1>9, <3>1, <3>2 DEF RequestPage
    <3>3. CASE task' = [task EXCEPT ![j] = "post"]
      BY <1>9, <3>1, <3>3 DEF RequestPage
    <3> QED
      BY <3>1, <3>2, <3>3
  <2> QED
    BY <2>1, <2>2
<1>10. ASSUME NEW j \in Jobs, CreateReply(j) PROVE Control'
  BY <1>10 DEF CreateReply
<1>11. ASSUME NEW j \in Jobs, CreateRetries(j) PROVE Control'
  BY <1>11 DEF CreateRetries, SendCreate
<1>12. ASSUME NEW j \in Jobs, BeginPolling(j) PROVE Control'
  BY <1>12 DEF BeginPolling, MarkPhase
<1>13. ASSUME NEW j \in Jobs, SettlePage(j) PROVE Control'
  BY <1>13 DEF SettlePage, RecordTerminal, SaveRemoteAnswer
<1>14. ASSUME NEW j \in Jobs, GetReply(j) PROVE Control'
  BY <1>14 DEF GetReply, RecordTerminal, SaveRemoteAnswer
<1>15. ASSUME NEW j \in Jobs, RecordPageFailure(j) PROVE Control'
  BY <1>15 DEF RecordPageFailure
<1>16. ASSUME NEW j \in Jobs, AbortRejects(j) PROVE Control'
  BY <1>16 DEF AbortRejects
<1>17. ASSUME NEW j \in Jobs, MarkCompleted(j) PROVE Control'
  BY <1>17 DEF MarkCompleted, MarkPhase
<1>18. ASSUME NEW j \in Jobs, MarkFailed(j) PROVE Control'
  BY <1>18 DEF MarkFailed, MarkPhase
<1>19. ASSUME NEW j \in Jobs, CompleteRow(j) PROVE Control'
  BY <1>19 DEF CompleteRow, EndTask, SettleRow
<1>20. ASSUME NEW j \in Jobs, FailRow(j) PROVE Control'
  BY <1>20 DEF FailRow, EndTask, SettleRow
<1>21. ASSUME NEW j \in Jobs, PlainExtracted(j) PROVE Control'
  BY <1>21 DEF PlainExtracted, IoEvent, LoopFree, InTurn
<1>22. ASSUME NEW j \in Jobs, RemoteCallFails(j) PROVE Control'
  BY <1>22 DEF RemoteCallFails
<1>23. ASSUME NEW j \in Jobs, DeleteJob(j) PROVE Control'
  BY <1>23 DEF DeleteJob, StopOcr, UnfinishedRemote, ActiveJob, LoopFree, InTurn
<1>24. ASSUME NEW j \in Jobs, CancelReply(j) PROVE Control'
  BY <1>24 DEF CancelReply, CancelAnswer, SaveRemoteAnswer
<1>25. ASSUME NEW j \in Jobs, CancelThrows(j) PROVE Control'
  BY <1>25 DEF CancelThrows
<1>26. ASSUME NEW j \in Jobs, MarkCancelled(j) PROVE Control'
  BY <1>26 DEF MarkCancelled, MarkPhase
<1>27. ASSUME NEW j \in Jobs, PruneJob(j) PROVE Control'
  <2>1. \A i \in Jobs : phase'[i] = IF i = j THEN "none" ELSE phase[i]
    BY <1>27 DEF PruneJob, ForgetDurable
  <2>2. row' = [row EXCEPT ![j] = "pruned"] /\ task[j] = "none" /\ canceller[j] = "none" /\ proc = "up"
    BY <1>27 DEF PruneJob
  <2>3. UNCHANGED <<kind, retryOf, runner, deletion, host>>
    BY <1>27 DEF PruneJob
  <2>4. JobControl(j)'
    BY <2>1, <2>2, <2>3
  <2>5. ASSUME NEW i \in Jobs, i # j PROVE JobControl(i)'
    BY <2>1, <2>2, <2>3, <2>5
  <2> QED
    BY <2>2, <2>3, <2>4, <2>5
<1>28. ASSUME NEW j \in Jobs, DeadlinePasses(j) PROVE Control'
  BY <1>28 DEF DeadlinePasses
<1>29. ASSUME NEW j \in Jobs, NEW k \in Kinds, NEW src \in Jobs \cup {NoJob}, CreateJob(j, k, src) PROVE Control'
  BY <1>29 DEF CreateJob
<1>30. ASSUME NEW j \in Jobs, NEW p \in Page, OcrDone(j, p) PROVE Control'
  BY <1>30 DEF OcrDone
<1>31. ASSUME NEW j \in Jobs, NEW p \in Page, OcrFails(j, p) PROVE Control'
  <2>1. CASE task[j] = "ocr"
    BY <1>31, <2>1 DEF OcrFails
  <2>2. CASE task[j] # "ocr"
    BY <1>31, <2>2 DEF OcrFails
  <2> QED
    BY <2>1, <2>2
<1>32. ASSUME NEW j \in Jobs, NEW p \in Page, ProviderAccepts(j, p) PROVE Control'
  BY <1>32 DEF ProviderAccepts
<1>33. ASSUME NEW j \in Jobs, NEW p \in Page, ProviderFinishes(j, p) PROVE Control'
  BY <1>33 DEF ProviderFinishes
<1>34. ASSUME Close PROVE Control'
  BY <1>34 DEF Close, StopOcr, LoopFree, InTurn
<1>35. ASSUME Exit PROVE Control'
  BY <1>35 DEF Exit, LoseMemory
<1>36. ASSUME Crash PROVE Control'
  BY <1>36 DEF Crash, LoseMemory
<1>37. ASSUME NEW old \in SUBSET Jobs, Listen(old) PROVE Control'
  BY <1>37 DEF Listen, ForgetDurable, Recoverable, ActiveJob
<1>38. CASE UNCHANGED vars
  BY <1>38 DEF vars
<1> QED
  BY <1>1, <1>2, <1>3, <1>4, <1>5, <1>6, <1>7, <1>8, <1>9, <1>10, <1>11, <1>12, <1>13, <1>14,
       <1>15, <1>16, <1>17, <1>18, <1>19, <1>20, <1>21, <1>22, <1>23, <1>24, <1>25, <1>26, <1>27,
       <1>28, <1>29, <1>30, <1>31, <1>32, <1>33, <1>34, <1>35, <1>36, <1>37, <1>38
     DEF Next, TaskStep, TaskProgress, ApiStep, WorldStep, HostStep

\* A step keeps the evidence behind each task and the agreement of row and phase:
\* of the durable writes, only those of MarkCompleted, MarkFailed, MarkCancelled and
\* the two settling steps can separate the two.
LEMMA CoverageStep == IInv /\ [Next]_vars => (Coverage /\ RowAndPhaseAgree)'
<1> SUFFICES ASSUME TypeOK, Control, Coverage, RowAndPhaseAgree, [Next]_vars PROVE (Coverage /\ RowAndPhaseAgree)'
  BY DEF IInv
<1> USE JobsAssumption, PagesAssumption, KindsAssumption, StopsAssumption
<1> USE DEF TypeOK, Control, JobControl, Coverage, JobCoverage, RowAndPhaseAgree, Agreement,
     Untouched, Goto, rows, pages, runner, deletion, host, net, Page, AllKinds,
        ActiveRow, TerminalRow, RowStatus, RecoverablePhase, Phase, AwaitPc, TurnPc, PagePc, PlainPc, EarlyPc
<1>0. \A i \in Jobs : JobControl(i) /\ JobCoverage(i) /\ Agreement(i)
  <2> HIDE DEF TypeOK, JobControl, JobCoverage, Agreement
  <2> QED
    OBVIOUS
<1>same. ASSUME NEW i \in Jobs, Untouched(i) PROVE JobCoverage(i)' /\ Agreement(i)'
  <2> HIDE DEF TypeOK, Control, JobControl, Coverage, RowAndPhaseAgree
  <2> QED
    BY <1>0, <1>same
<1>1. ASSUME NEW j \in Jobs, InitializeState(j) PROVE (Coverage /\ RowAndPhaseAgree)'
  <2>1. JobCoverage(j)' /\ Agreement(j)'
    <3>1. /\ task'[j] = "start" /\ phase'[j] = "queued"
          /\ row'[j] = row[j] /\ row[j] \in {"queued", "running", "cancelled"}
      BY <1>1 DEF InitializeState
    <3> HIDE DEF TypeOK, Control, JobControl, Coverage, RowAndPhaseAgree
    <3> QED
      BY <3>1
  <2>2. ASSUME NEW i \in Jobs, i # j PROVE JobCoverage(i)' /\ Agreement(i)'
    <3>1. Untouched(i)
      BY <1>1, <2>2 DEF InitializeState
    <3> HIDE DEF Untouched, JobCoverage, Agreement
    <3> QED
      BY <1>same, <3>1
  <2> QED
    BY <2>1, <2>2
<1>2. ASSUME NEW j \in Jobs, StartJob(j) PROVE (Coverage /\ RowAndPhaseAgree)'
  BY <1>2 DEF StartJob, ActiveJob
<1>3. ASSUME NEW j \in Jobs, CopyReusableRetryEvidence(j) PROVE (Coverage /\ RowAndPhaseAgree)'
  <2>1. JobCoverage(j)' /\ Agreement(j)'
    <3> HIDE DEF Control, JobControl, Coverage, JobCoverage, RowAndPhaseAgree, Agreement
    <3>1. JobControl(j) /\ JobCoverage(j) /\ Agreement(j)
      BY <1>0
    <3>2. /\ task'[j] \in {"ocrStart", "settleErr"}
          /\ UNCHANGED <<row, phase, retryOf>>
      BY <1>3 DEF CopyReusableRetryEvidence
    <3>3. row[j] \in {"running", "cancelled"} /\ retryOf[j] # NoJob /\ phase[j] \in {"queued", "cancelled"}
      BY <1>3, <3>1 DEF CopyReusableRetryEvidence, JobControl, JobCoverage, PlainPc
    <3> HIDE DEF TypeOK
    <3> QED
      BY <3>1, <3>2, <3>3 DEF JobCoverage, Agreement
  <2>2. ASSUME NEW i \in Jobs, i # j PROVE JobCoverage(i)' /\ Agreement(i)'
    <3>1. Untouched(i)
      BY <1>3, <2>2 DEF CopyReusableRetryEvidence, ReusableResults
    <3> HIDE DEF Untouched, JobCoverage, Agreement
    <3> QED
      BY <1>same, <3>1
  <2> QED
    BY <2>1, <2>2
<1>4. ASSUME NEW j \in Jobs, BeginOcr(j) PROVE (Coverage /\ RowAndPhaseAgree)'
  <2>1. JobCoverage(j)' /\ Agreement(j)'
    <3> HIDE DEF Control, JobControl, Coverage, JobCoverage, RowAndPhaseAgree, Agreement
    <3>1. JobControl(j) /\ JobCoverage(j) /\ Agreement(j)
      BY <1>0
    <3>2. /\ task'[j] \in {"ocr", "aiPending", "fail"} /\ phase'[j] \in {"ocr_running", "ai_pending"}
          /\ UNCHANGED row
      BY <1>4 DEF BeginOcr, MarkPhase
    <3>3. row[j] \in {"running", "cancelled"}
      BY <1>4, <3>1 DEF BeginOcr, JobControl, JobCoverage, PlainPc
    <3> HIDE DEF TypeOK
    <3> QED
      BY <3>1, <3>2, <3>3 DEF JobCoverage, Agreement
  <2>2. ASSUME NEW i \in Jobs, i # j PROVE JobCoverage(i)' /\ Agreement(i)'
    <3>1. Untouched(i)
      BY <1>4, <2>2 DEF BeginOcr, MarkPhase
    <3> HIDE DEF Untouched, JobCoverage, Agreement
    <3> QED
      BY <1>same, <3>1
  <2> QED
    BY <2>1, <2>2
<1>5. ASSUME NEW j \in Jobs, CaptureUnreadable(j) PROVE (Coverage /\ RowAndPhaseAgree)'
  BY <1>5 DEF CaptureUnreadable, ResponseKnown
<1>6. ASSUME NEW j \in Jobs, MarkAiPending(j) PROVE (Coverage /\ RowAndPhaseAgree)'
  <2>1. JobCoverage(j)' /\ Agreement(j)'
    <3> HIDE DEF Control, JobControl, Coverage, JobCoverage, RowAndPhaseAgree, Agreement
    <3>1. JobControl(j) /\ JobCoverage(j) /\ Agreement(j)
      BY <1>0
    <3>2. /\ task'[j] = "page" /\ phase'[j] = "ai_pending"
          /\ UNCHANGED <<row, pos>>
      BY <1>6 DEF MarkAiPending, MarkPhase
    <3>3. row[j] \in {"running", "cancelled"} /\ pos[j] = 1
      BY <1>6, <3>1 DEF MarkAiPending, JobControl, JobCoverage, PlainPc
    <3> HIDE DEF TypeOK
    <3> QED
      BY <3>1, <3>2, <3>3 DEF JobCoverage, Agreement
  <2>2. ASSUME NEW i \in Jobs, i # j PROVE JobCoverage(i)' /\ Agreement(i)'
    <3>1. Untouched(i)
      BY <1>6, <2>2 DEF MarkAiPending, MarkPhase
    <3> HIDE DEF Untouched, JobCoverage, Agreement
    <3> QED
      BY <1>same, <3>1
  <2> QED
    BY <2>1, <2>2
<1>7. ASSUME NEW j \in Jobs, NextPage(j) PROVE (Coverage /\ RowAndPhaseAgree)'
  <2>1. JobCoverage(j)' /\ Agreement(j)'
    <3>1. /\ task[j] = "page" /\ pos[j] \in 1 .. PageCount + 1
          /\ UNCHANGED <<row, phase, retryOf, resultSaved, failing>>
          /\ row[j] \in {"running", "cancelled"} /\ resultSaved[j] \subseteq Page
          /\ JobCoverage(j) /\ Agreement(j)
      BY <1>7 DEF NextPage
    <3>2. CASE pos[j] \in resultSaved[j] /\ pos'[j] = pos[j] + 1 /\ task'[j] = "page"
      <4> HIDE DEF TypeOK, Control, JobControl, Coverage, RowAndPhaseAgree
      <4> QED
        BY <3>1, <3>2
    <3>3. CASE task'[j] = "fail"
      <4> HIDE DEF TypeOK, Control, JobControl, Coverage, RowAndPhaseAgree
      <4> QED
        BY <3>1, <3>3
    <3>4. CASE pos[j] \notin Page /\ j \notin failing /\ task'[j] = "complete"
      <4>1. \A q \in Page : q < pos[j]
        BY <3>1, <3>4
      <4> HIDE DEF TypeOK, Control, JobControl, Coverage, RowAndPhaseAgree
      <4>2. resultSaved[j] = Page
        BY <3>1, <3>4, <4>1 DEF JobCoverage
      <4> QED
        BY <3>1, <3>4, <4>2
    <3> QED
      BY <1>7, <3>2, <3>3, <3>4 DEF NextPage
  <2>2. ASSUME NEW i \in Jobs, i # j PROVE JobCoverage(i)' /\ Agreement(i)'
    <3>1. Untouched(i)
      BY <1>7, <2>2 DEF NextPage
    <3> HIDE DEF Untouched, JobCoverage, Agreement
    <3> QED
      BY <1>same, <3>1
  <2> QED
    BY <2>1, <2>2
<1>8. ASSUME NEW j \in Jobs, BeginPage(j) PROVE (Coverage /\ RowAndPhaseAgree)'
  BY <1>8 DEF BeginPage, PageDue, EnsureIdempotencyKey
<1>9. ASSUME NEW j \in Jobs, RequestPage(j) PROVE (Coverage /\ RowAndPhaseAgree)'
  <2>1. JobCoverage(j)' /\ Agreement(j)'
    <3> HIDE DEF Control, JobControl, Coverage, JobCoverage, RowAndPhaseAgree, Agreement
    <3>1. JobControl(j) /\ JobCoverage(j) /\ Agreement(j)
      BY <1>0
    <3>2. /\ task[j] = "request" /\ task'[j] \in {"get", "post", "pageFail"}
          /\ phase'[j] \in {phase[j], "ai_running"}
          /\ UNCHANGED <<row, retryOf, resultSaved, pos, failing>>
      BY <1>9 DEF RequestPage, SendCreate, MarkPhase
    <3>3. row[j] \in {"running", "cancelled"}
      BY <1>9, <3>1 DEF RequestPage, JobControl, JobCoverage, PlainPc
    <3> HIDE DEF TypeOK
    <3> QED
      BY <3>1, <3>2, <3>3 DEF JobCoverage, Agreement
  <2>2. ASSUME NEW i \in Jobs, i # j PROVE JobCoverage(i)' /\ Agreement(i)'
    <3>1. Untouched(i)
      BY <1>9, <2>2 DEF RequestPage, ResponseKnown, SendCreate, MarkPhase
    <3> HIDE DEF Untouched, JobCoverage, Agreement
    <3> QED
      BY <1>same, <3>1
  <2> QED
    BY <2>1, <2>2
<1>10. ASSUME NEW j \in Jobs, CreateReply(j) PROVE (Coverage /\ RowAndPhaseAgree)'
  BY <1>10 DEF CreateReply
<1>11. ASSUME NEW j \in Jobs, CreateRetries(j) PROVE (Coverage /\ RowAndPhaseAgree)'
  BY <1>11 DEF CreateRetries, SendCreate
<1>12. ASSUME NEW j \in Jobs, BeginPolling(j) PROVE (Coverage /\ RowAndPhaseAgree)'
  <2>1. JobCoverage(j)' /\ Agreement(j)'
    <3> HIDE DEF Control, JobControl, Coverage, JobCoverage, RowAndPhaseAgree, Agreement
    <3>1. JobControl(j) /\ JobCoverage(j) /\ Agreement(j)
      BY <1>0
    <3>2. /\ task[j] = "poll" /\ task'[j] = "get" /\ phase'[j] = "ai_running"
          /\ UNCHANGED <<row, resultSaved, pos, failing>>
      BY <1>12 DEF BeginPolling, MarkPhase
    <3>3. row[j] \in {"running", "cancelled"}
      BY <1>12, <3>1 DEF BeginPolling, JobControl, JobCoverage, PlainPc
    <3> HIDE DEF TypeOK
    <3> QED
      BY <3>1, <3>2, <3>3 DEF JobCoverage, Agreement
  <2>2. ASSUME NEW i \in Jobs, i # j PROVE JobCoverage(i)' /\ Agreement(i)'
    <3>1. Untouched(i)
      BY <1>12, <2>2 DEF BeginPolling, MarkPhase
    <3> HIDE DEF Untouched, JobCoverage, Agreement
    <3> QED
      BY <1>same, <3>1
  <2> QED
    BY <2>1, <2>2
<1>13. ASSUME NEW j \in Jobs, SettlePage(j) PROVE (Coverage /\ RowAndPhaseAgree)'
  <2>1. JobCoverage(j)' /\ Agreement(j)'
    <3> HIDE DEF Control, JobControl, Coverage, JobCoverage, RowAndPhaseAgree, Agreement
    <3>1. JobControl(j) /\ JobCoverage(j) /\ Agreement(j)
      BY <1>0
    <3>2. PICK s : RecordTerminal(j, s)
      BY <1>13 DEF SettlePage
    <3>3. task[j] \in PagePc /\ row[j] \in {"running", "cancelled"} /\ pos[j] \in Page
      BY <1>13, <3>1 DEF SettlePage, JobControl
    <3>4. /\ task'[j] = "page" /\ pos'[j] = pos[j] + 1
          /\ UNCHANGED <<row, phase>>
      BY <3>2 DEF RecordTerminal
    <3>5. CASE s = "completed"
      <4>1. resultSaved'[j] = resultSaved[j] \cup {pos[j]} /\ UNCHANGED failing
        BY <3>2, <3>5 DEF RecordTerminal, SaveRemoteAnswer
      <4>2. resultSaved[j] \subseteq Page
        OBVIOUS
      <4> HIDE DEF TypeOK
      <4> QED
        BY <3>1, <3>3, <3>4, <4>1, <4>2 DEF JobCoverage, Agreement
    <3>6. CASE s # "completed"
      <4>1. j \in failing' /\ resultSaved'[j] = resultSaved[j]
        BY <3>2, <3>6 DEF RecordTerminal, SaveRemoteAnswer
      <4> HIDE DEF TypeOK
      <4> QED
        BY <3>1, <3>3, <3>4, <4>1 DEF JobCoverage, Agreement
    <3> QED
      BY <3>5, <3>6
  <2>2. ASSUME NEW i \in Jobs, i # j PROVE JobCoverage(i)' /\ Agreement(i)'
    <3>1. Untouched(i)
      BY <1>13, <2>2 DEF SettlePage, RecordTerminal, SaveRemoteAnswer
    <3> HIDE DEF Untouched, JobCoverage, Agreement
    <3> QED
      BY <1>same, <3>1
  <2> QED
    BY <2>1, <2>2
<1>14. ASSUME NEW j \in Jobs, GetReply(j) PROVE (Coverage /\ RowAndPhaseAgree)'
  <2>1. JobCoverage(j)' /\ Agreement(j)'
    <3> HIDE DEF Control, JobControl, Coverage, JobCoverage, RowAndPhaseAgree, Agreement
    <3>1. JobControl(j) /\ JobCoverage(j) /\ Agreement(j)
      BY <1>0
    <3>2. PICK s : RecordTerminal(j, s)
      BY <1>14 DEF GetReply
    <3>3. task[j] \in PagePc /\ row[j] \in {"running", "cancelled"} /\ pos[j] \in Page
      BY <1>14, <3>1 DEF GetReply, JobControl
    <3>4. /\ task'[j] = "page" /\ pos'[j] = pos[j] + 1
          /\ UNCHANGED <<row, phase>>
      BY <3>2 DEF RecordTerminal
    <3>5. CASE s = "completed"
      <4>1. resultSaved'[j] = resultSaved[j] \cup {pos[j]} /\ UNCHANGED failing
        BY <3>2, <3>5 DEF RecordTerminal, SaveRemoteAnswer
      <4>2. resultSaved[j] \subseteq Page
        OBVIOUS
      <4> HIDE DEF TypeOK
      <4> QED
        BY <3>1, <3>3, <3>4, <4>1, <4>2 DEF JobCoverage, Agreement
    <3>6. CASE s # "completed"
      <4>1. j \in failing' /\ resultSaved'[j] = resultSaved[j]
        BY <3>2, <3>6 DEF RecordTerminal, SaveRemoteAnswer
      <4> HIDE DEF TypeOK
      <4> QED
        BY <3>1, <3>3, <3>4, <4>1 DEF JobCoverage, Agreement
    <3> QED
      BY <3>5, <3>6
  <2>2. ASSUME NEW i \in Jobs, i # j PROVE JobCoverage(i)' /\ Agreement(i)'
    <3>1. Untouched(i)
      BY <1>14, <2>2 DEF GetReply, RecordTerminal, SaveRemoteAnswer
    <3> HIDE DEF Untouched, JobCoverage, Agreement
    <3> QED
      BY <1>same, <3>1
  <2> QED
    BY <2>1, <2>2
<1>15. ASSUME NEW j \in Jobs, RecordPageFailure(j) PROVE (Coverage /\ RowAndPhaseAgree)'
  BY <1>15 DEF RecordPageFailure
<1>16. ASSUME NEW j \in Jobs, AbortRejects(j) PROVE (Coverage /\ RowAndPhaseAgree)'
  BY <1>16 DEF AbortRejects
<1>17. ASSUME NEW j \in Jobs, MarkCompleted(j) PROVE (Coverage /\ RowAndPhaseAgree)'
  <2>1. JobCoverage(j)' /\ Agreement(j)'
    <3> HIDE DEF Control, JobControl, Coverage, JobCoverage, RowAndPhaseAgree, Agreement
    <3>1. JobControl(j) /\ JobCoverage(j) /\ Agreement(j)
      BY <1>0
    <3>2. /\ task'[j] = "settleOk" /\ phase'[j] = "completed"
          /\ UNCHANGED <<row, resultSaved>>
      BY <1>17 DEF MarkCompleted, MarkPhase
    <3>3. row[j] \in {"running", "cancelled"} /\ resultSaved[j] = Page
      BY <1>17, <3>1 DEF MarkCompleted, JobControl, JobCoverage, PlainPc
    <3> HIDE DEF TypeOK
    <3> QED
      BY <3>1, <3>2, <3>3 DEF JobCoverage, Agreement
  <2>2. ASSUME NEW i \in Jobs, i # j PROVE JobCoverage(i)' /\ Agreement(i)'
    <3>1. Untouched(i)
      BY <1>17, <2>2 DEF MarkCompleted, MarkPhase
    <3> HIDE DEF Untouched, JobCoverage, Agreement
    <3> QED
      BY <1>same, <3>1
  <2> QED
    BY <2>1, <2>2
<1>18. ASSUME NEW j \in Jobs, MarkFailed(j) PROVE (Coverage /\ RowAndPhaseAgree)'
  <2>1. JobCoverage(j)' /\ Agreement(j)'
    <3> HIDE DEF Control, JobControl, Coverage, JobCoverage, RowAndPhaseAgree, Agreement
    <3>1. JobControl(j) /\ JobCoverage(j) /\ Agreement(j)
      BY <1>0
    <3>2. /\ task'[j] = "settleErr" /\ phase'[j] = "failed"
          /\ UNCHANGED row
      BY <1>18 DEF MarkFailed, MarkPhase
    <3>3. row[j] \in {"running", "cancelled"}
      BY <1>18, <3>1 DEF MarkFailed, JobControl, JobCoverage, PlainPc
    <3> HIDE DEF TypeOK
    <3> QED
      BY <3>1, <3>2, <3>3 DEF JobCoverage, Agreement
  <2>2. ASSUME NEW i \in Jobs, i # j PROVE JobCoverage(i)' /\ Agreement(i)'
    <3>1. Untouched(i)
      BY <1>18, <2>2 DEF MarkFailed, MarkPhase
    <3> HIDE DEF Untouched, JobCoverage, Agreement
    <3> QED
      BY <1>same, <3>1
  <2> QED
    BY <2>1, <2>2
<1>19. ASSUME NEW j \in Jobs, CompleteRow(j) PROVE (Coverage /\ RowAndPhaseAgree)'
  BY <1>19 DEF CompleteRow, EndTask, SettleRow
<1>20. ASSUME NEW j \in Jobs, FailRow(j) PROVE (Coverage /\ RowAndPhaseAgree)'
  BY <1>20 DEF FailRow, EndTask, SettleRow
<1>21. ASSUME NEW j \in Jobs, PlainExtracted(j) PROVE (Coverage /\ RowAndPhaseAgree)'
  BY <1>21 DEF PlainExtracted, IoEvent, LoopFree, InTurn
<1>22. ASSUME NEW j \in Jobs, RemoteCallFails(j) PROVE (Coverage /\ RowAndPhaseAgree)'
  BY <1>22 DEF RemoteCallFails
<1>23. ASSUME NEW j \in Jobs, DeleteJob(j) PROVE (Coverage /\ RowAndPhaseAgree)'
  BY <1>23 DEF DeleteJob, StopOcr, UnfinishedRemote, ActiveJob, LoopFree, InTurn
<1>24. ASSUME NEW j \in Jobs, CancelReply(j) PROVE (Coverage /\ RowAndPhaseAgree)'
  <2>1. JobCoverage(j)' /\ Agreement(j)'
    <3>1. /\ resultSaved[j] \subseteq resultSaved'[j] /\ resultSaved'[j] \subseteq Page
          /\ UNCHANGED <<row, kind, retryOf, task, pos, failing, phase, proc>>
          /\ JobCoverage(j) /\ Agreement(j)
      BY <1>24 DEF CancelReply, CancelAnswer, SaveRemoteAnswer
    <3> HIDE DEF TypeOK, Control, JobControl, Coverage, RowAndPhaseAgree
    <3> QED
      BY <3>1
  <2>2. ASSUME NEW i \in Jobs, i # j PROVE JobCoverage(i)' /\ Agreement(i)'
    <3>1. Untouched(i)
      BY <1>24, <2>2 DEF CancelReply, CancelAnswer, SaveRemoteAnswer
    <3> HIDE DEF Untouched, JobCoverage, Agreement
    <3> QED
      BY <1>same, <3>1
  <2> QED
    BY <2>1, <2>2
<1>25. ASSUME NEW j \in Jobs, CancelThrows(j) PROVE (Coverage /\ RowAndPhaseAgree)'
  BY <1>25 DEF CancelThrows
<1>26. ASSUME NEW j \in Jobs, MarkCancelled(j) PROVE (Coverage /\ RowAndPhaseAgree)'
  <2>1. JobCoverage(j)' /\ Agreement(j)'
    <3>1. /\ phase[j] # "none" /\ phase'[j] = "cancelled"
          /\ UNCHANGED <<row, kind, retryOf, task, pos, failing, resultSaved, proc>>
          /\ JobCoverage(j) /\ Agreement(j)
      BY <1>26 DEF MarkCancelled, MarkPhase
    <3> HIDE DEF TypeOK, Control, JobControl, Coverage, RowAndPhaseAgree
    <3> QED
      BY <3>1
  <2>2. ASSUME NEW i \in Jobs, i # j PROVE JobCoverage(i)' /\ Agreement(i)'
    <3>1. Untouched(i)
      BY <1>26, <2>2 DEF MarkCancelled, MarkPhase
    <3> HIDE DEF Untouched, JobCoverage, Agreement
    <3> QED
      BY <1>same, <3>1
  <2> QED
    BY <2>1, <2>2
<1>27. ASSUME NEW j \in Jobs, PruneJob(j) PROVE (Coverage /\ RowAndPhaseAgree)'
  BY <1>27 DEF PruneJob, ForgetDurable
<1>28. ASSUME NEW j \in Jobs, DeadlinePasses(j) PROVE (Coverage /\ RowAndPhaseAgree)'
  BY <1>28 DEF DeadlinePasses
<1>29. ASSUME NEW j \in Jobs, NEW k \in Kinds, NEW src \in Jobs \cup {NoJob}, CreateJob(j, k, src) PROVE (Coverage /\ RowAndPhaseAgree)'
  BY <1>29 DEF CreateJob
<1>30. ASSUME NEW j \in Jobs, NEW p \in Page, OcrDone(j, p) PROVE (Coverage /\ RowAndPhaseAgree)'
  BY <1>30 DEF OcrDone
<1>31. ASSUME NEW j \in Jobs, NEW p \in Page, OcrFails(j, p) PROVE (Coverage /\ RowAndPhaseAgree)'
  BY <1>31 DEF OcrFails
<1>32. ASSUME NEW j \in Jobs, NEW p \in Page, ProviderAccepts(j, p) PROVE (Coverage /\ RowAndPhaseAgree)'
  BY <1>32 DEF ProviderAccepts
<1>33. ASSUME NEW j \in Jobs, NEW p \in Page, ProviderFinishes(j, p) PROVE (Coverage /\ RowAndPhaseAgree)'
  BY <1>33 DEF ProviderFinishes
<1>34. ASSUME Close PROVE (Coverage /\ RowAndPhaseAgree)'
  BY <1>34 DEF Close, StopOcr, LoopFree, InTurn
<1>35. ASSUME Exit PROVE (Coverage /\ RowAndPhaseAgree)'
  BY <1>35 DEF Exit, LoseMemory
<1>36. ASSUME Crash PROVE (Coverage /\ RowAndPhaseAgree)'
  BY <1>36 DEF Crash, LoseMemory
<1>37. ASSUME NEW old \in SUBSET Jobs, Listen(old) PROVE (Coverage /\ RowAndPhaseAgree)'
  BY <1>37 DEF Listen, ForgetDurable, Recoverable, ActiveJob
<1>38. CASE UNCHANGED vars
  BY <1>38 DEF vars
<1> QED
  BY <1>1, <1>2, <1>3, <1>4, <1>5, <1>6, <1>7, <1>8, <1>9, <1>10, <1>11, <1>12, <1>13, <1>14,
       <1>15, <1>16, <1>17, <1>18, <1>19, <1>20, <1>21, <1>22, <1>23, <1>24, <1>25, <1>26, <1>27,
       <1>28, <1>29, <1>30, <1>31, <1>32, <1>33, <1>34, <1>35, <1>36, <1>37, <1>38
     DEF Next, TaskStep, TaskProgress, ApiStep, WorldStep, HostStep

\* A step keeps the checkpoints that precede remote work.
LEMMA AnchorStep == TypeOK /\ Control /\ Anchors /\ [Next]_vars => Anchors'
<1> SUFFICES ASSUME TypeOK, Control, Anchors, [Next]_vars PROVE Anchors'
  OBVIOUS
<1> USE JobsAssumption, PagesAssumption, KindsAssumption, StopsAssumption
<1> USE DEF TypeOK, Control, JobControl, Anchors, JobAnchors, Goto, rows, pages, runner, deletion,
     host, net, Page, AllKinds,
        ActiveRow, TerminalRow, RowStatus, AwaitPc, TurnPc, PagePc, PlainPc, EarlyPc
<1>0. \A i \in Jobs : JobControl(i) /\ JobAnchors(i)
  <2> HIDE DEF TypeOK, JobControl, JobAnchors
  <2> QED
    OBVIOUS
<1>1. ASSUME NEW j \in Jobs, InitializeState(j) PROVE Anchors'
  <2>1. JobAnchors(j)'
    <3>1. /\ task'[j] = "start"
          /\ UNCHANGED <<row, ocrSaved, keySaved, wire, remote>>
      BY <1>1 DEF InitializeState
    <3>2. row[j] # "pruned"
      BY <1>1 DEF InitializeState
    <3> HIDE DEF TypeOK, Control, JobControl, Anchors
    <3> QED
      BY <1>0, <3>1, <3>2
  <2>2. ASSUME NEW i \in Jobs, i # j PROVE JobAnchors(i)'
    BY <1>1, <2>2 DEF InitializeState
  <2> QED
    BY <2>1, <2>2
<1>2. ASSUME NEW j \in Jobs, StartJob(j) PROVE Anchors'
  BY <1>2 DEF StartJob, ActiveJob
<1>3. ASSUME NEW j \in Jobs, CopyReusableRetryEvidence(j) PROVE Anchors'
  <2>1. JobAnchors(j)'
    <3>1. /\ task'[j] \in {"ocrStart", "settleErr"}
          /\ ocrSaved[j] \subseteq ocrSaved'[j]
          /\ UNCHANGED <<row, phase, keySaved, wire, remote>>
      BY <1>3 DEF CopyReusableRetryEvidence
    <3>2. row[j] # "pruned"
      BY <1>3 DEF CopyReusableRetryEvidence
    <3> HIDE DEF TypeOK, Control, JobControl, Anchors
    <3> QED
      BY <1>0, <3>1, <3>2
  <2>2. ASSUME NEW i \in Jobs, i # j PROVE JobAnchors(i)'
    BY <1>3, <2>2 DEF CopyReusableRetryEvidence
  <2> QED
    BY <2>1, <2>2
<1>4. ASSUME NEW j \in Jobs, BeginOcr(j) PROVE Anchors'
  <2>1. JobAnchors(j)'
    <3>1. /\ task'[j] \in {"ocr", "aiPending", "fail"}
          /\ task'[j] = "ocr" => ocrBusy'[j] = Page \ ocrSaved[j]
          /\ task'[j] = "aiPending" => Page \ ocrSaved[j] = {}
          /\ UNCHANGED <<row, ocrSaved, keySaved, wire, remote>>
      BY <1>4 DEF BeginOcr, MarkPhase
    <3>2. row[j] # "pruned" /\ ocrSaved[j] \subseteq Page
      BY <1>4 DEF BeginOcr
    <3> HIDE DEF TypeOK, Control, JobControl, Anchors
    <3> QED
      BY <1>0, <3>1, <3>2
  <2>2. ASSUME NEW i \in Jobs, i # j PROVE JobAnchors(i)'
    BY <1>4, <2>2 DEF BeginOcr, MarkPhase
  <2> QED
    BY <2>1, <2>2
<1>5. ASSUME NEW j \in Jobs, CaptureUnreadable(j) PROVE Anchors'
  BY <1>5 DEF CaptureUnreadable, ResponseKnown
<1>6. ASSUME NEW j \in Jobs, MarkAiPending(j) PROVE Anchors'
  <2>1. JobAnchors(j)'
    <3>1. /\ task[j] = "aiPending"
          /\ task'[j] = "page"
          /\ UNCHANGED <<row, ocrSaved, keySaved, wire, remote>>
      BY <1>6 DEF MarkAiPending, MarkPhase
    <3>2. row[j] # "pruned"
      BY <1>6 DEF MarkAiPending
    <3> HIDE DEF TypeOK, Control, JobControl, Anchors
    <3> QED
      BY <1>0, <3>1, <3>2
  <2>2. ASSUME NEW i \in Jobs, i # j PROVE JobAnchors(i)'
    BY <1>6, <2>2 DEF MarkAiPending, MarkPhase
  <2> QED
    BY <2>1, <2>2
<1>7. ASSUME NEW j \in Jobs, NextPage(j) PROVE Anchors'
  BY <1>7 DEF NextPage
<1>8. ASSUME NEW j \in Jobs, BeginPage(j) PROVE Anchors'
  BY <1>8 DEF BeginPage, PageDue, EnsureIdempotencyKey
<1>9. ASSUME NEW j \in Jobs, RequestPage(j) PROVE Anchors'
  <2>1. JobAnchors(j)'
    <3>1. /\ task[j] = "request"
          /\ task'[j] \in {"get", "post", "pageFail"}
          /\ wire' \in {wire, wire \cup {<<j, pos[j]>>}}
          /\ UNCHANGED <<row, pos, ocrSaved, keySaved, remote>>
      BY <1>9 DEF RequestPage, SendCreate, MarkPhase
    <3>2. row[j] # "pruned"
      BY <1>9 DEF RequestPage
    <3> HIDE DEF TypeOK, Control, JobControl, Anchors
    <3> QED
      BY <1>0, <3>1, <3>2
  <2>2. ASSUME NEW i \in Jobs, i # j PROVE JobAnchors(i)'
    BY <1>9, <2>2 DEF RequestPage, SendCreate, MarkPhase, ResponseKnown
  <2> QED
    BY <2>1, <2>2
<1>10. ASSUME NEW j \in Jobs, CreateReply(j) PROVE Anchors'
  BY <1>10 DEF CreateReply
<1>11. ASSUME NEW j \in Jobs, CreateRetries(j) PROVE Anchors'
  BY <1>11 DEF CreateRetries, SendCreate
<1>12. ASSUME NEW j \in Jobs, BeginPolling(j) PROVE Anchors'
  <2>1. JobAnchors(j)'
    <3>1. /\ task[j] = "poll"
          /\ task'[j] = "get"
          /\ UNCHANGED <<row, pos, ocrSaved, keySaved, wire, remote>>
      BY <1>12 DEF BeginPolling, MarkPhase
    <3>2. row[j] # "pruned"
      BY <1>12 DEF BeginPolling
    <3> HIDE DEF TypeOK, Control, JobControl, Anchors
    <3> QED
      BY <1>0, <3>1, <3>2
  <2>2. ASSUME NEW i \in Jobs, i # j PROVE JobAnchors(i)'
    BY <1>12, <2>2 DEF BeginPolling, MarkPhase
  <2> QED
    BY <2>1, <2>2
<1>13. ASSUME NEW j \in Jobs, SettlePage(j) PROVE Anchors'
  BY <1>13 DEF SettlePage, RecordTerminal, SaveRemoteAnswer
<1>14. ASSUME NEW j \in Jobs, GetReply(j) PROVE Anchors'
  BY <1>14 DEF GetReply, RecordTerminal, SaveRemoteAnswer
<1>15. ASSUME NEW j \in Jobs, RecordPageFailure(j) PROVE Anchors'
  BY <1>15 DEF RecordPageFailure
<1>16. ASSUME NEW j \in Jobs, AbortRejects(j) PROVE Anchors'
  BY <1>16 DEF AbortRejects
<1>17. ASSUME NEW j \in Jobs, MarkCompleted(j) PROVE Anchors'
  <2>1. JobAnchors(j)'
    <3>1. /\ task'[j] = "settleOk"
          /\ UNCHANGED <<row, ocrSaved, keySaved, wire, remote>>
      BY <1>17 DEF MarkCompleted, MarkPhase
    <3>2. row[j] # "pruned"
      BY <1>17 DEF MarkCompleted
    <3> HIDE DEF TypeOK, Control, JobControl, Anchors
    <3> QED
      BY <1>0, <3>1, <3>2
  <2>2. ASSUME NEW i \in Jobs, i # j PROVE JobAnchors(i)'
    BY <1>17, <2>2 DEF MarkCompleted, MarkPhase
  <2> QED
    BY <2>1, <2>2
<1>18. ASSUME NEW j \in Jobs, MarkFailed(j) PROVE Anchors'
  <2>1. JobAnchors(j)'
    <3>1. /\ task'[j] = "settleErr"
          /\ UNCHANGED <<row, ocrSaved, keySaved, wire, remote>>
      BY <1>18 DEF MarkFailed, MarkPhase
    <3>2. row[j] # "pruned"
      BY <1>18 DEF MarkFailed
    <3> HIDE DEF TypeOK, Control, JobControl, Anchors
    <3> QED
      BY <1>0, <3>1, <3>2
  <2>2. ASSUME NEW i \in Jobs, i # j PROVE JobAnchors(i)'
    BY <1>18, <2>2 DEF MarkFailed, MarkPhase
  <2> QED
    BY <2>1, <2>2
<1>19. ASSUME NEW j \in Jobs, CompleteRow(j) PROVE Anchors'
  BY <1>19 DEF CompleteRow, EndTask, SettleRow
<1>20. ASSUME NEW j \in Jobs, FailRow(j) PROVE Anchors'
  BY <1>20 DEF FailRow, EndTask, SettleRow
<1>21. ASSUME NEW j \in Jobs, PlainExtracted(j) PROVE Anchors'
  BY <1>21 DEF PlainExtracted
<1>22. ASSUME NEW j \in Jobs, RemoteCallFails(j) PROVE Anchors'
  BY <1>22 DEF RemoteCallFails
<1>23. ASSUME NEW j \in Jobs, DeleteJob(j) PROVE Anchors'
  BY <1>23 DEF DeleteJob, StopOcr, ActiveJob, LoopFree, InTurn
<1>24. ASSUME NEW j \in Jobs, CancelReply(j) PROVE Anchors'
  <2>1. JobAnchors(j)'
    <3>1. UNCHANGED <<row, phase, task, pos, aborted, ocrBusy, ocrSaved, keySaved, wire>>
      BY <1>24 DEF CancelReply
    <3>2. \A p \in Page : remote'[j][p] # "none" => remote[j][p] # "none"
      BY <1>24 DEF CancelReply, CancelAnswer
    <3> HIDE DEF TypeOK, Control, JobControl, Anchors
    <3> QED
      BY <1>0, <3>1, <3>2
  <2>2. ASSUME NEW i \in Jobs, i # j PROVE JobAnchors(i)'
    BY <1>24, <2>2 DEF CancelReply, CancelAnswer
  <2> QED
    BY <2>1, <2>2
<1>25. ASSUME NEW j \in Jobs, CancelThrows(j) PROVE Anchors'
  BY <1>25 DEF CancelThrows
<1>26. ASSUME NEW j \in Jobs, MarkCancelled(j) PROVE Anchors'
  BY <1>26 DEF MarkCancelled, MarkPhase
<1>27. ASSUME NEW j \in Jobs, PruneJob(j) PROVE Anchors'
  BY <1>27 DEF PruneJob, ForgetDurable
<1>28. ASSUME NEW j \in Jobs, DeadlinePasses(j) PROVE Anchors'
  BY <1>28 DEF DeadlinePasses
<1>29. ASSUME NEW j \in Jobs, NEW k \in Kinds, NEW src \in Jobs \cup {NoJob}, CreateJob(j, k, src) PROVE Anchors'
  BY <1>29 DEF CreateJob
<1>30. ASSUME NEW j \in Jobs, NEW p \in Page, OcrDone(j, p) PROVE Anchors'
  <2>1. JobAnchors(j)'
    <3>1. /\ p \in ocrBusy[j] /\ ocrSaved'[j] = ocrSaved[j] \cup {p} /\ ocrBusy'[j] = ocrBusy[j] \ {p}
          /\ UNCHANGED <<row, phase, pos, aborted, keySaved, wire, remote>>
      BY <1>30 DEF OcrDone
    <3>2. \/ task[j] = "ocr" /\ ocrBusy[j] = {p} /\ task'[j] = "aiPending"
          \/ task'[j] = task[j]
      BY <1>30 DEF OcrDone
    <3>3. ocrSaved[j] \subseteq Page /\ (j \in aborted => task[j] # "ocr")
      BY <1>30 DEF OcrDone, IoEvent, LoopFree, InTurn
    <3> HIDE DEF TypeOK, Control, JobControl, Anchors
    <3> QED
      BY <1>0, <3>1, <3>2, <3>3
  <2>2. ASSUME NEW i \in Jobs, i # j PROVE JobAnchors(i)'
    BY <1>30, <2>2 DEF OcrDone
  <2> QED
    BY <2>1, <2>2
<1>31. ASSUME NEW j \in Jobs, NEW p \in Page, OcrFails(j, p) PROVE Anchors'
  BY <1>31 DEF OcrFails, IoEvent, LoopFree, InTurn
<1>32. ASSUME NEW j \in Jobs, NEW p \in Page, ProviderAccepts(j, p) PROVE Anchors'
  BY <1>32 DEF ProviderAccepts, IoEvent, LoopFree, InTurn
<1>33. ASSUME NEW j \in Jobs, NEW p \in Page, ProviderFinishes(j, p) PROVE Anchors'
  BY <1>33 DEF ProviderFinishes, IoEvent, LoopFree, InTurn
<1>34. ASSUME Close PROVE Anchors'
  BY <1>34 DEF Close, StopOcr
<1>35. ASSUME Exit PROVE Anchors'
  BY <1>35 DEF Exit, LoseMemory
<1>36. ASSUME Crash PROVE Anchors'
  BY <1>36 DEF Crash, LoseMemory
<1>37. ASSUME NEW old \in SUBSET Jobs, Listen(old) PROVE Anchors'
  BY <1>37 DEF Listen, ForgetDurable, Recoverable, ActiveJob
<1>38. CASE UNCHANGED vars
  BY <1>38 DEF vars
<1> QED
  BY <1>1, <1>2, <1>3, <1>4, <1>5, <1>6, <1>7, <1>8, <1>9, <1>10, <1>11, <1>12, <1>13, <1>14,
       <1>15, <1>16, <1>17, <1>18, <1>19, <1>20, <1>21, <1>22, <1>23, <1>24, <1>25, <1>26, <1>27,
       <1>28, <1>29, <1>30, <1>31, <1>32, <1>33, <1>34, <1>35, <1>36, <1>37, <1>38
     DEF Next, TaskStep, TaskProgress, ApiStep, WorldStep, HostStep

\* A step keeps the page that is about to be sent free of response and result.
LEMMA FreshStep == TypeOK /\ Control /\ Anchors /\ Fresh /\ [Next]_vars => Fresh'
<1> SUFFICES ASSUME TypeOK, Control, Anchors, Fresh, [Next]_vars PROVE Fresh'
  OBVIOUS
<1> USE JobsAssumption, PagesAssumption, KindsAssumption, StopsAssumption
<1> USE DEF TypeOK, Control, JobControl, Anchors, JobAnchors, Fresh, JobFresh, Goto, rows, pages,
     runner, deletion, host, net, Page, AllKinds,
        ActiveRow, TerminalRow, RowStatus, AwaitPc, TurnPc, PagePc, PlainPc, EarlyPc
<1>0. \A i \in Jobs : JobFresh(i)
  BY DEF Fresh
<1>1. ASSUME NEW j \in Jobs, InitializeState(j) PROVE Fresh'
  BY <1>1 DEF InitializeState
<1>2. ASSUME NEW j \in Jobs, StartJob(j) PROVE Fresh'
  BY <1>2 DEF StartJob, ActiveJob
<1>3. ASSUME NEW j \in Jobs, CopyReusableRetryEvidence(j) PROVE Fresh'
  <2>1. JobFresh(j)'
    <3>1. /\ task[j] = "copy"
          /\ task'[j] \in {"ocrStart", "settleErr"}
          /\ UNCHANGED <<kind, phase, bound, todo, canceller>>
      BY <1>3 DEF CopyReusableRetryEvidence
    <3> HIDE DEF TypeOK, Control, JobControl, Anchors, JobAnchors, Fresh
    <3> QED
      BY <1>0, <3>1
  <2>2. ASSUME NEW i \in Jobs, i # j PROVE JobFresh(i)'
    BY <1>3, <2>2 DEF CopyReusableRetryEvidence
  <2> QED
    BY <2>1, <2>2
<1>4. ASSUME NEW j \in Jobs, BeginOcr(j) PROVE Fresh'
  BY <1>4 DEF BeginOcr, MarkPhase
<1>5. ASSUME NEW j \in Jobs, CaptureUnreadable(j) PROVE Fresh'
  <2>1. JobFresh(j)'
    <3>1. /\ task[j] \in {"ocrStart", "request"}
          /\ task'[j] \in {"fail", "pageFail"}
          /\ UNCHANGED <<kind, phase, bound, todo, canceller>>
      BY <1>5 DEF CaptureUnreadable
    <3> HIDE DEF TypeOK, Control, JobControl, Anchors, JobAnchors, Fresh
    <3> QED
      BY <1>0, <3>1
  <2>2. ASSUME NEW i \in Jobs, i # j PROVE JobFresh(i)'
    BY <1>5, <2>2 DEF CaptureUnreadable
  <2> QED
    BY <2>1, <2>2
<1>6. ASSUME NEW j \in Jobs, MarkAiPending(j) PROVE Fresh'
  BY <1>6 DEF MarkAiPending, MarkPhase
<1>7. ASSUME NEW j \in Jobs, NextPage(j) PROVE Fresh'
  <2>1. JobFresh(j)'
    <3>1. /\ task[j] = "page"
          /\ task'[j] \in {"page", "fail", "complete"}
          /\ UNCHANGED <<kind, phase, todo, bound, canceller>>
      BY <1>7 DEF NextPage
    <3> HIDE DEF TypeOK, Control, JobControl, Anchors, JobAnchors, Fresh
    <3> QED
      BY <1>0, <3>1
  <2>2. ASSUME NEW i \in Jobs, i # j PROVE JobFresh(i)'
    BY <1>7, <2>2 DEF NextPage
  <2> QED
    BY <2>1, <2>2
<1>8. ASSUME NEW j \in Jobs, BeginPage(j) PROVE Fresh'
  BY <1>8 DEF BeginPage, PageDue, EnsureIdempotencyKey
<1>9. ASSUME NEW j \in Jobs, RequestPage(j) PROVE Fresh'
  <2>1. JobFresh(j)'
    <3>1. /\ task[j] = "request"
          /\ task'[j] = "post" => pos[j] \notin bound[j]
          /\ task'[j] # "request"
          /\ phase'[j] = phase[j] \/ phase'[j] = "ai_running"
          /\ UNCHANGED <<kind, pos, todo, bound, resultSaved, canceller>>
      BY <1>9 DEF RequestPage, ResponseKnown, SendCreate, MarkPhase
    <3> HIDE DEF TypeOK, Control, JobControl, Anchors, JobAnchors, Fresh
    <3> QED
      BY <1>0, <3>1
  <2>2. ASSUME NEW i \in Jobs, i # j PROVE JobFresh(i)'
    BY <1>9, <2>2 DEF RequestPage, ResponseKnown, SendCreate, MarkPhase
  <2> QED
    BY <2>1, <2>2
<1>10. ASSUME NEW j \in Jobs, CreateReply(j) PROVE Fresh'
  <2>1. JobFresh(j)'
    <3>1. /\ task[j] = "post"
          /\ task'[j] \in {"poll", "settlePage"}
          /\ bound[j] \subseteq bound'[j]
          /\ UNCHANGED <<kind, phase, todo, canceller>>
      BY <1>10 DEF CreateReply
    <3>2. phase[j] # "none"
      BY <1>10 DEF CreateReply
    <3> HIDE DEF TypeOK, Control, JobControl, Anchors, JobAnchors, Fresh
    <3> QED
      BY <1>0, <3>1, <3>2
  <2>2. ASSUME NEW i \in Jobs, i # j PROVE JobFresh(i)'
    BY <1>10, <2>2 DEF CreateReply
  <2> QED
    BY <2>1, <2>2
<1>11. ASSUME NEW j \in Jobs, CreateRetries(j) PROVE Fresh'
  BY <1>11 DEF CreateRetries, SendCreate
<1>12. ASSUME NEW j \in Jobs, BeginPolling(j) PROVE Fresh'
  BY <1>12 DEF BeginPolling, MarkPhase
<1>13. ASSUME NEW j \in Jobs, SettlePage(j) PROVE Fresh'
  BY <1>13 DEF SettlePage, RecordTerminal, SaveRemoteAnswer
<1>14. ASSUME NEW j \in Jobs, GetReply(j) PROVE Fresh'
  BY <1>14 DEF GetReply, RecordTerminal, SaveRemoteAnswer
<1>15. ASSUME NEW j \in Jobs, RecordPageFailure(j) PROVE Fresh'
  BY <1>15 DEF RecordPageFailure
<1>16. ASSUME NEW j \in Jobs, AbortRejects(j) PROVE Fresh'
  BY <1>16 DEF AbortRejects
<1>17. ASSUME NEW j \in Jobs, MarkCompleted(j) PROVE Fresh'
  BY <1>17 DEF MarkCompleted, MarkPhase
<1>18. ASSUME NEW j \in Jobs, MarkFailed(j) PROVE Fresh'
  BY <1>18 DEF MarkFailed, MarkPhase
<1>19. ASSUME NEW j \in Jobs, CompleteRow(j) PROVE Fresh'
  BY <1>19 DEF CompleteRow, EndTask, SettleRow
<1>20. ASSUME NEW j \in Jobs, FailRow(j) PROVE Fresh'
  BY <1>20 DEF FailRow, EndTask, SettleRow
<1>21. ASSUME NEW j \in Jobs, PlainExtracted(j) PROVE Fresh'
  BY <1>21 DEF PlainExtracted
<1>22. ASSUME NEW j \in Jobs, RemoteCallFails(j) PROVE Fresh'
  BY <1>22 DEF RemoteCallFails
<1>23. ASSUME NEW j \in Jobs, DeleteJob(j) PROVE Fresh'
  BY <1>23 DEF DeleteJob, UnfinishedRemote, StopOcr, ActiveJob, LoopFree, InTurn
<1>24. ASSUME NEW j \in Jobs, CancelReply(j) PROVE Fresh'
  BY <1>24 DEF CancelReply, CancelAnswer, SaveRemoteAnswer, IoEvent, LoopFree, InTurn
<1>25. ASSUME NEW j \in Jobs, CancelThrows(j) PROVE Fresh'
  BY <1>25 DEF CancelThrows, IoEvent, LoopFree, InTurn
<1>26. ASSUME NEW j \in Jobs, MarkCancelled(j) PROVE Fresh'
  BY <1>26 DEF MarkCancelled, MarkPhase
<1>27. ASSUME NEW j \in Jobs, PruneJob(j) PROVE Fresh'
  BY <1>27 DEF PruneJob, ForgetDurable
<1>28. ASSUME NEW j \in Jobs, DeadlinePasses(j) PROVE Fresh'
  BY <1>28 DEF DeadlinePasses
<1>29. ASSUME NEW j \in Jobs, NEW k \in Kinds, NEW src \in Jobs \cup {NoJob}, CreateJob(j, k, src) PROVE Fresh'
  BY <1>29 DEF CreateJob
<1>30. ASSUME NEW j \in Jobs, NEW p \in Page, OcrDone(j, p) PROVE Fresh'
  BY <1>30 DEF OcrDone, IoEvent, LoopFree, InTurn
<1>31. ASSUME NEW j \in Jobs, NEW p \in Page, OcrFails(j, p) PROVE Fresh'
  BY <1>31 DEF OcrFails, IoEvent, LoopFree, InTurn
<1>32. ASSUME NEW j \in Jobs, NEW p \in Page, ProviderAccepts(j, p) PROVE Fresh'
  BY <1>32 DEF ProviderAccepts, IoEvent, LoopFree, InTurn
<1>33. ASSUME NEW j \in Jobs, NEW p \in Page, ProviderFinishes(j, p) PROVE Fresh'
  BY <1>33 DEF ProviderFinishes, IoEvent, LoopFree, InTurn
<1>34. ASSUME Close PROVE Fresh'
  BY <1>34 DEF Close, StopOcr
<1>35. ASSUME Exit PROVE Fresh'
  BY <1>35 DEF Exit, LoseMemory
<1>36. ASSUME Crash PROVE Fresh'
  BY <1>36 DEF Crash, LoseMemory
<1>37. ASSUME NEW old \in SUBSET Jobs, Listen(old) PROVE Fresh'
  BY <1>37 DEF Listen, ForgetDurable, Recoverable, ActiveJob, RecoverablePhase
<1>38. CASE UNCHANGED vars
  BY <1>38 DEF vars
<1> QED
  BY <1>1, <1>2, <1>3, <1>4, <1>5, <1>6, <1>7, <1>8, <1>9, <1>10, <1>11, <1>12, <1>13, <1>14,
       <1>15, <1>16, <1>17, <1>18, <1>19, <1>20, <1>21, <1>22, <1>23, <1>24, <1>25, <1>26, <1>27,
       <1>28, <1>29, <1>30, <1>31, <1>32, <1>33, <1>34, <1>35, <1>36, <1>37, <1>38
     DEF Next, TaskStep, TaskProgress, ApiStep, WorldStep, HostStep

\* Every step of the job is a step of the life cycle, or leaves it as it is.
LEMMA LifecycleStep == IInv /\ [Next]_vars => [Lifecycle!Next]_(Lifecycle!lifecycle)
<1> SUFFICES ASSUME TypeOK, Control, Coverage, RowAndPhaseAgree, [Next]_vars
             PROVE  Lifecycle!Next \/ UNCHANGED <<row, kind, resultSaved>>
  BY DEF IInv, Lifecycle!lifecycle
<1> USE JobsAssumption, PagesAssumption, KindsAssumption, StopsAssumption
<1> USE DEF rows, pages, runner, deletion, host, net
<1>a. ASSUME NEW j \in Jobs PROVE JobControl(j) /\ JobCoverage(j)
  BY <1>a DEF Control, Coverage
<1>b. ASSUME NEW j \in Jobs, Lifecycle!Begin(j) \/ Lifecycle!Gather(j) \/ Lifecycle!Complete(j) \/ Lifecycle!Fail(j) \/ Lifecycle!Cancel(j) \/ Lifecycle!Submit(j)
      PROVE Lifecycle!Next
  BY <1>b DEF Lifecycle!Next
<1>c. ASSUME NEW old \in SUBSET Jobs, NEW lost \in SUBSET Jobs, Lifecycle!Retire(old, lost) PROVE Lifecycle!Next
  BY <1>c DEF Lifecycle!Next
<1>1. ASSUME NEW j \in Jobs, StartJob(j) PROVE Lifecycle!Next
  BY <1>1, <1>b DEF StartJob, ActiveJob, ActiveRow, Lifecycle!Begin, Lifecycle!Active
<1>2. ASSUME NEW j \in Jobs, NEW S \in SUBSET Page, row[j] \notin {"absent", "pruned"},
             resultSaved' = [resultSaved EXCEPT ![j] = @ \cup S], UNCHANGED <<row, kind>>
      PROVE Lifecycle!Next
  BY <1>2, <1>b DEF Lifecycle!Gather, Lifecycle!Exists, Page
<1>3. ASSUME NEW j \in Jobs, CopyReusableRetryEvidence(j)
      PROVE Lifecycle!Next \/ UNCHANGED <<row, kind, resultSaved>>
  <2>1. row[j] \notin {"absent", "pruned"} /\ retryOf[j] \in Jobs
    <3>1. task[j] = "copy"
      BY <1>3 DEF CopyReusableRetryEvidence
    <3>2. row[j] \in {"running", "cancelled"} /\ retryOf[j] # NoJob
      BY <1>a, <3>1 DEF JobControl
    <3>3. retryOf[j] \in Jobs \cup {NoJob}
      BY DEF TypeOK
    <3> QED
      BY ONLY <3>2, <3>3
  <2>2. ReusableResults(retryOf[j]) \in SUBSET Page
    <3>1. resultSaved[retryOf[j]] \in SUBSET Page
      BY <2>1 DEF TypeOK
    <3> QED
      BY ONLY <3>1 DEF ReusableResults
  <2> QED
    BY <1>2, <1>3, <2>1, <2>2 DEF CopyReusableRetryEvidence
<1>4. ASSUME NEW j \in Jobs, NEW s, RecordTerminal(j, s), pos[j] \in Page, row[j] \notin {"absent", "pruned"}
      PROVE Lifecycle!Next \/ UNCHANGED <<row, kind, resultSaved>>
  <2>1. UNCHANGED <<row, kind>>
    BY <1>4 DEF RecordTerminal
  <2>2. CASE s = "completed"
    <3>1. resultSaved' = [resultSaved EXCEPT ![j] = @ \cup {pos[j]}]
      BY <1>4, <2>2 DEF RecordTerminal, SaveRemoteAnswer
    <3>2. {pos[j]} \in SUBSET Page
      BY <1>4
    <3> QED
      BY <1>2, <1>4, <2>1, <3>1, <3>2
  <2>3. CASE s # "completed"
    BY <1>4, <2>1, <2>3 DEF RecordTerminal, SaveRemoteAnswer, TypeOK
  <2> QED
    BY <2>2, <2>3
<1>5. ASSUME NEW j \in Jobs, SettlePage(j) PROVE Lifecycle!Next \/ UNCHANGED <<row, kind, resultSaved>>
  BY <1>4, <1>5, <1>a DEF SettlePage, JobControl, PagePc
<1>6. ASSUME NEW j \in Jobs, GetReply(j) PROVE Lifecycle!Next \/ UNCHANGED <<row, kind, resultSaved>>
  BY <1>4, <1>6, <1>a DEF GetReply, JobControl, PagePc
<1>7. ASSUME NEW j \in Jobs, CompleteRow(j) PROVE Lifecycle!Next \/ UNCHANGED <<row, kind, resultSaved>>
  <2>1. CASE row[j] = "running"
    BY <1>7, <1>a, <1>b, <2>1 DEF CompleteRow, SettleRow, JobCoverage, Page, Lifecycle!Complete
  <2>2. CASE row[j] # "running"
    BY <1>7, <2>2 DEF CompleteRow, SettleRow, TypeOK
  <2> QED
    BY <2>1, <2>2
<1>8. ASSUME NEW j \in Jobs, FailRow(j) PROVE Lifecycle!Next \/ UNCHANGED <<row, kind, resultSaved>>
  <2>1. CASE row[j] = "running" /\ proc = "up"
    BY <1>8, <1>b, <2>1 DEF FailRow, SettleRow, Lifecycle!Fail
  <2>2. CASE row[j] # "running" \/ proc # "up"
    BY <1>8, <2>2 DEF FailRow, SettleRow, TypeOK
  <2> QED
    BY <2>1, <2>2
<1>9. ASSUME NEW j \in Jobs, DeleteJob(j) PROVE Lifecycle!Next \/ UNCHANGED <<row, kind, resultSaved>>
  <2>1. CASE ActiveJob(j)
    BY <1>9, <1>b, <2>1 DEF DeleteJob, ActiveJob, ActiveRow, Lifecycle!Cancel, Lifecycle!Active
  <2>2. CASE ~ActiveJob(j)
    BY <1>9, <2>2 DEF DeleteJob, TypeOK
  <2> QED
    BY <2>1, <2>2
<1>10. ASSUME NEW j \in Jobs, CancelReply(j) PROVE Lifecycle!Next \/ UNCHANGED <<row, kind, resultSaved>>
  <2>1. row[j] \notin {"absent", "pruned"} /\ UNCHANGED <<row, kind>>
    BY <1>10, <1>a DEF CancelReply, JobControl
  <2>2. PICK p \in todo[j] : CancelAnswer(j, p)
    BY <1>10 DEF CancelReply
  <2>3. p \in Page
    BY DEF TypeOK
  <2>4. ASSUME NEW s, SaveRemoteAnswer(j, p, s) PROVE Lifecycle!Next \/ UNCHANGED <<row, kind, resultSaved>>
    <3>1. CASE s = "completed"
      <4>1. resultSaved' = [resultSaved EXCEPT ![j] = @ \cup {p}]
        BY <2>4, <3>1 DEF SaveRemoteAnswer
      <4>2. {p} \in SUBSET Page
        BY <2>3
      <4> QED
        BY <1>2, <2>1, <4>1, <4>2
    <3>2. CASE s # "completed"
      BY <2>1, <2>4, <3>2 DEF SaveRemoteAnswer, TypeOK
    <3> QED
      BY <3>1, <3>2
  <2> QED
    BY <2>1, <2>2, <2>4 DEF CancelAnswer
<1>11. ASSUME NEW j \in Jobs, PruneJob(j) PROVE Lifecycle!Next
  <2>1. Lifecycle!Retire({j}, {})
    BY <1>11 DEF PruneJob, ForgetDurable, TypeOK, Lifecycle!Retire, Lifecycle!Exists
  <2> QED
    BY <1>c, <2>1
<1>12. ASSUME NEW old \in SUBSET Jobs, Listen(old) PROVE Lifecycle!Next
  <2> DEFINE lost == {j \in Jobs : j \notin old /\ ActiveJob(j) /\ phase[j] = "none"}
  <2>1. Lifecycle!Retire(old, lost)
    BY <1>12 DEF Listen, ForgetDurable, ActiveJob, ActiveRow, Lifecycle!Retire, Lifecycle!Exists,
         Lifecycle!Active
  <2> QED
    BY <1>c, <2>1
<1>13. ASSUME NEW j \in Jobs, NEW k \in Kinds, NEW src \in Jobs \cup {NoJob}, CreateJob(j, k, src) PROVE Lifecycle!Next
  BY <1>13, <1>b DEF CreateJob, AllKinds, Lifecycle!Submit
<1>14. ASSUME NEW j \in Jobs,
         \/ InitializeState(j) \/ BeginOcr(j) \/ CaptureUnreadable(j) \/ MarkAiPending(j) \/ NextPage(j)
         \/ BeginPage(j) \/ RequestPage(j) \/ CreateReply(j) \/ CreateRetries(j) \/ BeginPolling(j)
         \/ RecordPageFailure(j) \/ AbortRejects(j) \/ MarkCompleted(j) \/ MarkFailed(j)
         \/ PlainExtracted(j) \/ RemoteCallFails(j) \/ CancelThrows(j) \/ MarkCancelled(j) \/ DeadlinePasses(j)
       PROVE UNCHANGED <<row, kind, resultSaved>>
  BY <1>14 DEF InitializeState, BeginOcr, CaptureUnreadable, MarkAiPending, NextPage, BeginPage,
       RequestPage, CreateReply, CreateRetries, BeginPolling, RecordPageFailure, AbortRejects,
       MarkCompleted, MarkFailed, PlainExtracted, RemoteCallFails, CancelThrows, MarkCancelled,
       DeadlinePasses
<1>15. ASSUME NEW j \in Jobs, NEW p \in Page,
         OcrDone(j, p) \/ OcrFails(j, p) \/ ProviderAccepts(j, p) \/ ProviderFinishes(j, p)
       PROVE UNCHANGED <<row, kind, resultSaved>>
  BY <1>15 DEF OcrDone, OcrFails, ProviderAccepts, ProviderFinishes
<1>16. ASSUME Close \/ Exit \/ Crash PROVE UNCHANGED <<row, kind, resultSaved>>
  BY <1>16 DEF Close, Exit, Crash, LoseMemory
<1>17. CASE UNCHANGED vars
  BY <1>17 DEF vars
<1> QED
  BY <1>1, <1>3, <1>5, <1>6, <1>7, <1>8, <1>9, <1>10, <1>11, <1>12, <1>13, <1>14, <1>15, <1>16,
       <1>17
     DEF Next, TaskStep, TaskProgress, ApiStep, WorldStep, HostStep

\* Two kinds of step put a create on the wire, and each does it for the page at pos,
\* which has neither a response nor a result.
LEMMA SendStep ==
  IInv /\ [Next]_vars =>
    [\A j \in Jobs, p \in Page : <<j, p>> \in wire' \ wire => p \notin bound[j] /\ p \notin resultSaved[j]]_vars
<1> SUFFICES ASSUME TypeOK, Fresh, [Next]_vars, NEW i \in Jobs, NEW q \in Page, <<i, q>> \in wire' \ wire
             PROVE  q \notin bound[i] /\ q \notin resultSaved[i]
  BY DEF IInv
<1> USE DEF rows, pages, runner, deletion, host, net
<1>0. ASSUME NEW j \in Jobs, wire' \in {wire, wire \cup {<<j, pos[j]>>}} PROVE i = j /\ q = pos[j]
  BY <1>0
<1>1. ASSUME NEW j \in Jobs, RequestPage(j) PROVE q \notin bound[i] /\ q \notin resultSaved[i]
  <2>1. /\ task[j] = "request" /\ pos[j] \notin bound[j]
        /\ wire' \in {wire, wire \cup {<<j, pos[j]>>}}
    BY <1>1 DEF RequestPage, ResponseKnown, SendCreate
  <2> QED
    BY <1>0, <2>1 DEF Fresh, JobFresh
<1>2. ASSUME NEW j \in Jobs, CreateRetries(j) PROVE q \notin bound[i] /\ q \notin resultSaved[i]
  <2>1. task[j] = "post" /\ wire' \in {wire, wire \cup {<<j, pos[j]>>}}
    BY <1>2 DEF CreateRetries, SendCreate
  <2> QED
    BY <1>0, <2>1 DEF Fresh, JobFresh
<1>3. ASSUME NEW j \in Jobs,
        \/ InitializeState(j) \/ StartJob(j) \/ CopyReusableRetryEvidence(j) \/ BeginOcr(j)
        \/ CaptureUnreadable(j) \/ MarkAiPending(j) \/ NextPage(j) \/ BeginPage(j) \/ CreateReply(j)
        \/ BeginPolling(j) \/ SettlePage(j) \/ GetReply(j) \/ RecordPageFailure(j) \/ AbortRejects(j)
        \/ MarkCompleted(j) \/ MarkFailed(j) \/ CompleteRow(j) \/ FailRow(j) \/ PlainExtracted(j)
        \/ RemoteCallFails(j)
      PROVE wire' = wire
  BY <1>3 DEF InitializeState, StartJob, CopyReusableRetryEvidence, BeginOcr, CaptureUnreadable,
       MarkAiPending, NextPage, BeginPage, CreateReply, BeginPolling, SettlePage, GetReply,
       RecordTerminal, RecordPageFailure, AbortRejects, MarkCompleted, MarkFailed, CompleteRow,
       FailRow, PlainExtracted, RemoteCallFails
<1>4. ASSUME NEW j \in Jobs,
        \/ DeleteJob(j) \/ CancelReply(j) \/ CancelThrows(j) \/ MarkCancelled(j) \/ PruneJob(j)
        \/ DeadlinePasses(j)
        \/ \E k \in Kinds, src \in Jobs \cup {NoJob} : CreateJob(j, k, src)
        \/ \E p \in Page : OcrDone(j, p) \/ OcrFails(j, p) \/ ProviderFinishes(j, p)
      PROVE wire' = wire
  BY <1>4 DEF DeleteJob, CancelReply, CancelThrows, MarkCancelled, PruneJob, DeadlinePasses,
       CreateJob,
       OcrDone, OcrFails, ProviderFinishes
<1>5. ASSUME NEW j \in Jobs, NEW p \in Page, ProviderAccepts(j, p) PROVE wire' \subseteq wire
  BY <1>5 DEF ProviderAccepts
<1>6. ASSUME HostStep PROVE wire' = wire
  BY <1>6 DEF HostStep, Close, Exit, Crash, LoseMemory, Listen
<1>7. CASE UNCHANGED vars
  BY <1>7 DEF vars
<1> QED
  BY <1>1, <1>2, <1>3, <1>4, <1>5, <1>6, <1>7 DEF Next, TaskStep, TaskProgress, ApiStep, WorldStep

--------------------------------------------------------------------------------
(* The theorems. *)

\* Every reachable state satisfies the inductive invariant.
THEOREM Invariance == Spec => []IInv
<1>1. IInv /\ [Next]_vars => IInv'
  BY TypeStep, ControlStep, CoverageStep, AnchorStep, FreshStep DEF IInv
<1> QED
  BY InvInit, <1>1, PTL DEF Spec

\* Type correctness, for any number of jobs and pages.
THEOREM TypeInvariant == Spec => []TypeOK
<1>1. IInv => TypeOK
  BY DEF IInv
<1> QED
  BY Invariance, <1>1, PTL

\* The public row and the durable phase, which the server writes in separate commits,
\* never contradict each other, wherever a crash, a DELETE or a shutdown falls.
THEOREM RowAndPhaseInvariant == Spec => []RowAndPhaseAgree
<1>1. IInv => RowAndPhaseAgree
  BY DEF IInv
<1> QED
  BY Invariance, <1>1, PTL

\* Whatever the provider holds, or is about to receive, for a job with durable state
\* was preceded by the commits of the page's key and of its OCR evidence.
THEOREM RemoteWorkInvariant == Spec => []RemoteWorkAnchored
<1>1. IInv => RemoteWorkAnchored
  BY DEF IInv, Anchors, JobAnchors, RemoteWorkAnchored
<1> QED
  BY Invariance, <1>1, PTL

\* A page with a known response or a checkpointed result is never created again,
\* across any number of restarts, retries and cancellations.
THEOREM NeverResubmitted == Spec => KnownResponseNeverResubmitted
BY Invariance, SendStep, PTL DEF Spec, KnownResponseNeverResubmitted

\* The runner, the handlers and the restarts implement the life cycle of the public
\* job: a terminal status is final until retention, and a completed job has the
\* evidence of all its pages.
THEOREM Refinement == Spec => ImplementsLifecycle
<1>1. Init => Lifecycle!Init
  BY DEF Init, Lifecycle!Init
<1> QED
  BY Invariance, LifecycleStep, <1>1, PTL DEF Spec, ImplementsLifecycle, Lifecycle!Spec

-------------------------------------------------------------------------------
(***************************************************************************)
(* What the job remembers of its remote work: checkpointed results are the *)
(* provider's, the copy of an explicit retry can be repeated, a cancelled  *)
(* job falls silent, and no job is stranded while the process stops only   *)
(* between two turns.                                                      *)
(***************************************************************************)

\* Program counters of a run that has left the phase "queued" behind.
WorkPc == PagePc \cup {"ocr", "aiPending", "page", "complete"}

\* Program counters a task passes between its abort and its end.
AbortedPc == AwaitPc \cup {"pageFail", "page", "complete", "fail", "settleOk", "settleErr"}

\* Every result is the provider's or taken over, and the page at hand is bound to the
\* response whose answer the task is about to record.
ResultSources(j) ==
  /\ \A p \in resultSaved[j] : IF p \in bound[j] THEN remote[j][p] = "completed"
                                                 ELSE retryOf[j] # NoJob /\ p \notin keySaved[j]
  /\ task[j] \in {"poll", "get", "settlePage"} => pos[j] \in bound[j]
  /\ task[j] = "settlePage" => status[j][pos[j]] = remote[j][pos[j]]
                              /\ remote[j][pos[j]] \in TerminalRemote

\* A job whose phase is still "queued" has asked for nothing: all it holds was copied.
QueuedIsUntouched(j) ==
  /\ task[j] \in WorkPc \/ ocrBusy[j] # {} => phase[j] \notin {"none", "queued"}
  /\ proc = "down" => ocrBusy[j] = {}
  /\ task[j] = "initialize" => phase[j] = "none"
  /\ task[j] = "copy" => phase[j] = "queued"
  /\ task[j] \in {"initialize", "start", "copy"} => canceller[j] = "none"
  /\ phase[j] = "none" => ocrSaved[j] = {} /\ resultSaved[j] = {}
  /\ phase[j] \in {"none", "queued"} =>
       /\ keySaved[j] = {} /\ bound[j] = {}
       /\ resultSaved[j] = {p \in Page : status[j][p] = "completed"}

\* What a queued retry holds, its source holds for as long as it is not pruned.
CopiedFromSource(j) ==
  phase[j] = "queued" /\ retryOf[j] \in Jobs /\ row[retryOf[j]] # "pruned" =>
    /\ ocrSaved[j] \subseteq ocrSaved[retryOf[j]]
    /\ resultSaved[j] \subseteq ReusableResults(retryOf[j])

\* Only a task whose abort is pending works for a cancelled row.
CancelledIsAborted(j) ==
  /\ row[j] = "cancelled" /\ task[j] # "none" => j \in aborted
  /\ j \in aborted => task[j] \in AbortedPc

Evidence ==
  \A j \in Jobs : ResultSources(j) /\ QueuedIsUntouched(j) /\ CopiedFromSource(j)
                  /\ CancelledIsAborted(j)
--------------------------------------------------------------------------------
(* What a job holds. *)

\* Until a job is pruned its OCR evidence grows, and no completed result of it is lost.
LEMMA EvidenceGrows ==
  IInv /\ Evidence /\ [Next]_vars =>
    \A i \in Jobs : row'[i] # "pruned" =>
      /\ ocrSaved[i] \subseteq ocrSaved'[i]
      /\ \A p \in ReusableResults(i) : p \in resultSaved'[i] /\ status'[i][p] = "completed"
<1> DEFINE Grows(i) == /\ ocrSaved[i] \subseteq ocrSaved'[i]
                       /\ \A p \in ReusableResults(i) : p \in resultSaved'[i] /\ status'[i][p] = "completed"
<1> SUFFICES ASSUME TypeOK, Control, Fresh, Evidence, [Next]_vars, NEW i \in Jobs, row'[i] # "pruned"
             PROVE  Grows(i)
  BY DEF IInv
<1> USE JobsAssumption, PagesAssumption, KindsAssumption, StopsAssumption
<1> USE DEF TypeOK, Control, JobControl, Fresh, JobFresh, Evidence, ResultSources, ReusableResults,
        Goto, rows, pages, runner, deletion, host, net,
        Page, AllKinds, ActiveRow, TerminalRow, RowStatus, Phase, TerminalRemote,
        RemoteStatus, AwaitPc, TurnPc, PagePc, PlainPc, EarlyPc
<1>1. ASSUME NEW j \in Jobs, InitializeState(j) PROVE Grows(i)
  BY <1>1 DEF InitializeState, MarkPhase
<1>2. ASSUME NEW j \in Jobs, StartJob(j) PROVE Grows(i)
  BY <1>2 DEF StartJob, ActiveJob
<1>3. ASSUME NEW j \in Jobs, CopyReusableRetryEvidence(j) PROVE Grows(i)
  <2>1. CASE phase[retryOf[j]] = "failed"
    <3>1. /\ ocrSaved' = [ocrSaved EXCEPT ![j] = ocrSaved[j] \cup ocrSaved[retryOf[j]]]
          /\ resultSaved' = [resultSaved EXCEPT ![j] = resultSaved[j] \cup ReusableResults(retryOf[j])]
          /\ status' = [status EXCEPT ![j] = [p \in Page |->
                          IF p \in ReusableResults(retryOf[j]) THEN "completed" ELSE status[j][p]]]
      BY <1>3, <2>1 DEF CopyReusableRetryEvidence
    <3>2. CASE i = j
      <4>1. ocrSaved'[i] = ocrSaved[i] \cup ocrSaved[retryOf[j]]
        BY <3>1, <3>2
      <4>2. resultSaved'[i] = resultSaved[i] \cup ReusableResults(retryOf[j])
        BY <3>1, <3>2
      <4>3. ASSUME NEW p \in ReusableResults(i) PROVE p \in Page /\ status'[i][p] = "completed"
        BY <3>1, <3>2
      <4> QED
        BY <4>1, <4>2, <4>3
    <3>3. CASE i # j
      BY <3>1, <3>3
    <3> QED
      BY <3>2, <3>3
  <2>2. CASE phase[retryOf[j]] # "failed"
    BY <1>3, <2>2 DEF CopyReusableRetryEvidence
  <2> QED
    BY <2>1, <2>2
<1>4. ASSUME NEW j \in Jobs, BeginOcr(j) PROVE Grows(i)
  BY <1>4 DEF BeginOcr, MarkPhase
<1>5. ASSUME NEW j \in Jobs, CaptureUnreadable(j) PROVE Grows(i)
  BY <1>5 DEF CaptureUnreadable
<1>6. ASSUME NEW j \in Jobs, MarkAiPending(j) PROVE Grows(i)
  BY <1>6 DEF MarkAiPending, MarkPhase
<1>7. ASSUME NEW j \in Jobs, NextPage(j) PROVE Grows(i)
  BY <1>7 DEF NextPage
<1>8. ASSUME NEW j \in Jobs, BeginPage(j) PROVE Grows(i)
  BY <1>8 DEF BeginPage, PageDue, EnsureIdempotencyKey
<1>9. ASSUME NEW j \in Jobs, RequestPage(j) PROVE Grows(i)
  BY <1>9 DEF RequestPage, ResponseKnown, SendCreate, MarkPhase
<1>10. ASSUME NEW j \in Jobs, CreateReply(j) PROVE Grows(i)
  BY <1>10 DEF CreateReply
<1>11. ASSUME NEW j \in Jobs, CreateRetries(j) PROVE Grows(i)
  BY <1>11 DEF CreateRetries, SendCreate
<1>12. ASSUME NEW j \in Jobs, BeginPolling(j) PROVE Grows(i)
  BY <1>12 DEF BeginPolling, MarkPhase
<1>13. ASSUME NEW j \in Jobs, SettlePage(j) PROVE Grows(i)
  BY <1>13 DEF SettlePage, RecordTerminal, SaveRemoteAnswer
<1>14. ASSUME NEW j \in Jobs, GetReply(j) PROVE Grows(i)
  BY <1>14 DEF GetReply, RecordTerminal, SaveRemoteAnswer
<1>15. ASSUME NEW j \in Jobs, RecordPageFailure(j) PROVE Grows(i)
  BY <1>15 DEF RecordPageFailure
<1>16. ASSUME NEW j \in Jobs, AbortRejects(j) PROVE Grows(i)
  BY <1>16 DEF AbortRejects
<1>17. ASSUME NEW j \in Jobs, MarkCompleted(j) PROVE Grows(i)
  BY <1>17 DEF MarkCompleted, MarkPhase
<1>18. ASSUME NEW j \in Jobs, MarkFailed(j) PROVE Grows(i)
  BY <1>18 DEF MarkFailed, MarkPhase
<1>19. ASSUME NEW j \in Jobs, CompleteRow(j) PROVE Grows(i)
  BY <1>19 DEF CompleteRow, EndTask, SettleRow
<1>20. ASSUME NEW j \in Jobs, FailRow(j) PROVE Grows(i)
  BY <1>20 DEF FailRow, EndTask, SettleRow
<1>21. ASSUME NEW j \in Jobs, PlainExtracted(j) PROVE Grows(i)
  BY <1>21 DEF PlainExtracted
<1>22. ASSUME NEW j \in Jobs, RemoteCallFails(j) PROVE Grows(i)
  BY <1>22 DEF RemoteCallFails
<1>23. ASSUME NEW j \in Jobs, DeleteJob(j) PROVE Grows(i)
  BY <1>23 DEF DeleteJob, StopOcr, UnfinishedRemote, ActiveJob
<1>24. ASSUME NEW j \in Jobs, CancelReply(j) PROVE Grows(i)
  <2>1. PICK p \in todo[j] : CancelAnswer(j, p)
    BY <1>24 DEF CancelReply
  <2>2. p \in Page /\ p \in bound[j]
    OBVIOUS
  <2>3. UNCHANGED ocrSaved
    BY <1>24 DEF CancelReply
  <2>4. CASE i # j
    <3>1. status'[i] = status[i] /\ resultSaved'[i] = resultSaved[i]
      BY <2>1, <2>4 DEF CancelAnswer, SaveRemoteAnswer
    <3> QED
      BY <2>3, <3>1
  <2>5. ASSUME i = j, p \in resultSaved[j] PROVE Grows(i)
    <3>1. remote[j][p] = "completed"
      BY <2>2, <2>5
    <3> QED
      BY <2>1, <2>2, <2>3, <2>5, <3>1 DEF CancelAnswer, SaveRemoteAnswer
  <2>6. ASSUME i = j, p \notin resultSaved[j] PROVE Grows(i)
    BY <2>1, <2>2, <2>3, <2>6 DEF CancelAnswer, SaveRemoteAnswer
  <2> QED
    BY <2>4, <2>5, <2>6
<1>25. ASSUME NEW j \in Jobs, CancelThrows(j) PROVE Grows(i)
  BY <1>25 DEF CancelThrows
<1>26. ASSUME NEW j \in Jobs, MarkCancelled(j) PROVE Grows(i)
  BY <1>26 DEF MarkCancelled, MarkPhase
<1>27. ASSUME NEW j \in Jobs, PruneJob(j) PROVE Grows(i)
  BY <1>27 DEF PruneJob, ForgetDurable
<1>28. ASSUME NEW j \in Jobs, DeadlinePasses(j) PROVE Grows(i)
  BY <1>28 DEF DeadlinePasses
<1>29. ASSUME NEW j \in Jobs, NEW k \in Kinds, NEW src \in Jobs \cup {NoJob}, CreateJob(j, k, src) PROVE Grows(i)
  BY <1>29 DEF CreateJob
<1>30. ASSUME NEW j \in Jobs, NEW p \in Page, OcrDone(j, p) PROVE Grows(i)
  BY <1>30 DEF OcrDone
<1>31. ASSUME NEW j \in Jobs, NEW p \in Page, OcrFails(j, p) PROVE Grows(i)
  BY <1>31 DEF OcrFails
<1>32. ASSUME NEW j \in Jobs, NEW p \in Page, ProviderAccepts(j, p) PROVE Grows(i)
  BY <1>32 DEF ProviderAccepts
<1>33. ASSUME NEW j \in Jobs, NEW p \in Page, ProviderFinishes(j, p) PROVE Grows(i)
  BY <1>33 DEF ProviderFinishes
<1>34. ASSUME Close PROVE Grows(i)
  BY <1>34 DEF Close, StopOcr
<1>35. ASSUME Exit PROVE Grows(i)
  BY <1>35 DEF Exit, LoseMemory
<1>36. ASSUME Crash PROVE Grows(i)
  BY <1>36 DEF Crash, LoseMemory
<1>37. ASSUME NEW old \in SUBSET Jobs, Listen(old) PROVE Grows(i)
  BY <1>37 DEF Listen, ForgetDurable, Recoverable, ActiveJob, RecoverablePhase
<1>38. CASE UNCHANGED vars
  BY <1>38 DEF vars
<1> QED
  BY <1>1, <1>2, <1>3, <1>4, <1>5, <1>6, <1>7, <1>8, <1>9, <1>10, <1>11, <1>12, <1>13, <1>14,
       <1>15, <1>16, <1>17, <1>18, <1>19, <1>20, <1>21, <1>22, <1>23, <1>24, <1>25, <1>26,
       <1>27, <1>28, <1>29, <1>30, <1>31, <1>32, <1>33, <1>34, <1>35, <1>36, <1>37, <1>38
     DEF Next, TaskStep, TaskProgress, ApiStep, WorldStep, HostStep

\* A step keeps the sources of the results: an answer is stored for the bound page at hand
\* only, and a copied result belongs to a page without a key.
LEMMA ResultStep == IInv /\ Evidence /\ [Next]_vars => \A i \in Jobs : ResultSources(i)'
<1> DEFINE Kept == \A i \in Jobs : ResultSources(i)'
<1> SUFFICES ASSUME TypeOK, Control, Anchors, Fresh, Evidence, [Next]_vars PROVE Kept
  BY DEF IInv
<1> USE JobsAssumption, PagesAssumption, KindsAssumption, StopsAssumption
<1> USE DEF TypeOK, Control, JobControl, Fresh, JobFresh, Evidence, ResultSources, QueuedIsUntouched,
        Goto, rows, pages, runner, deletion, host, net,
        Page, AllKinds, ActiveRow, TerminalRow, RowStatus, Phase, TerminalRemote,
        RemoteStatus, AwaitPc, TurnPc, PagePc, PlainPc, EarlyPc
<1>1. ASSUME NEW j \in Jobs, InitializeState(j) PROVE Kept
  BY <1>1 DEF InitializeState, MarkPhase
<1>2. ASSUME NEW j \in Jobs, StartJob(j) PROVE Kept
  BY <1>2 DEF StartJob, ActiveJob
<1>3. ASSUME NEW j \in Jobs, CopyReusableRetryEvidence(j) PROVE Kept
  <2>1. task[j] = "copy" /\ keySaved[j] = {} /\ bound[j] = {} /\ retryOf[j] # NoJob
    BY <1>3 DEF CopyReusableRetryEvidence
  <2>2. task'[j] \in {"ocrStart", "settleErr"} /\ \A i \in Jobs \ {j} : task'[i] = task[i]
    BY <1>3 DEF CopyReusableRetryEvidence
  <2>3. \A i \in Jobs \ {j} : resultSaved'[i] = resultSaved[i] /\ status'[i] = status[i]
    BY <1>3 DEF CopyReusableRetryEvidence
  <2>4. UNCHANGED <<keySaved, bound, retryOf, remote, pos>>
    BY <1>3 DEF CopyReusableRetryEvidence
  <2>5. ResultSources(j)'
    BY <2>1, <2>2, <2>4
  <2>6. ASSUME NEW i \in Jobs \ {j} PROVE ResultSources(i)'
    BY <2>2, <2>3, <2>4
  <2> QED
    BY <2>5, <2>6
<1>4. ASSUME NEW j \in Jobs, BeginOcr(j) PROVE Kept
  BY <1>4 DEF BeginOcr, MarkPhase
<1>5. ASSUME NEW j \in Jobs, CaptureUnreadable(j) PROVE Kept
  BY <1>5 DEF CaptureUnreadable
<1>6. ASSUME NEW j \in Jobs, MarkAiPending(j) PROVE Kept
  BY <1>6 DEF MarkAiPending, MarkPhase
<1>7. ASSUME NEW j \in Jobs, NextPage(j) PROVE Kept
  BY <1>7 DEF NextPage
<1>8. ASSUME NEW j \in Jobs, BeginPage(j) PROVE Kept
  BY <1>8 DEF BeginPage, PageDue, EnsureIdempotencyKey
<1>9. ASSUME NEW j \in Jobs, RequestPage(j) PROVE Kept
  BY <1>9 DEF RequestPage, ResponseKnown, SendCreate, MarkPhase
<1>10. ASSUME NEW j \in Jobs, CreateReply(j) PROVE Kept
  BY <1>10 DEF CreateReply, IoEvent, LoopFree, InTurn
<1>11. ASSUME NEW j \in Jobs, CreateRetries(j) PROVE Kept
  BY <1>11 DEF CreateRetries, SendCreate, IoEvent, LoopFree, InTurn
<1>12. ASSUME NEW j \in Jobs, BeginPolling(j) PROVE Kept
  BY <1>12 DEF BeginPolling, MarkPhase
<1>13. ASSUME NEW j \in Jobs, SettlePage(j) PROVE Kept
  BY <1>13 DEF SettlePage, RecordTerminal, SaveRemoteAnswer
<1>14. ASSUME NEW j \in Jobs, GetReply(j) PROVE Kept
  BY <1>14 DEF GetReply, RecordTerminal, SaveRemoteAnswer, IoEvent, LoopFree, InTurn
<1>15. ASSUME NEW j \in Jobs, RecordPageFailure(j) PROVE Kept
  BY <1>15 DEF RecordPageFailure
<1>16. ASSUME NEW j \in Jobs, AbortRejects(j) PROVE Kept
  BY <1>16 DEF AbortRejects, IoEvent, LoopFree, InTurn
<1>17. ASSUME NEW j \in Jobs, MarkCompleted(j) PROVE Kept
  BY <1>17 DEF MarkCompleted, MarkPhase
<1>18. ASSUME NEW j \in Jobs, MarkFailed(j) PROVE Kept
  BY <1>18 DEF MarkFailed, MarkPhase
<1>19. ASSUME NEW j \in Jobs, CompleteRow(j) PROVE Kept
  BY <1>19 DEF CompleteRow, EndTask, SettleRow
<1>20. ASSUME NEW j \in Jobs, FailRow(j) PROVE Kept
  BY <1>20 DEF FailRow, EndTask, SettleRow
<1>21. ASSUME NEW j \in Jobs, PlainExtracted(j) PROVE Kept
  BY <1>21 DEF PlainExtracted, IoEvent, LoopFree, InTurn
<1>22. ASSUME NEW j \in Jobs, RemoteCallFails(j) PROVE Kept
  BY <1>22 DEF RemoteCallFails, IoEvent, LoopFree, InTurn
<1>23. ASSUME NEW j \in Jobs, DeleteJob(j) PROVE Kept
  BY <1>23 DEF DeleteJob, StopOcr, UnfinishedRemote, ActiveJob, IoEvent, LoopFree, InTurn
<1>24. ASSUME NEW j \in Jobs, CancelReply(j) PROVE Kept
  <2>1. PICK p \in todo[j] : CancelAnswer(j, p)
    BY <1>24 DEF CancelReply
  <2>2. p \in Page /\ p \in bound[j]
    OBVIOUS
  <2>3. UNCHANGED <<keySaved, bound, retryOf, task, pos>>
    BY <1>24 DEF CancelReply
  <2>4. task[j] # "settlePage"
    BY <1>24 DEF CancelReply, IoEvent, LoopFree, InTurn
  <2>5. ASSUME NEW i \in Jobs \ {j} PROVE ResultSources(i)'
    <3>1. status'[i] = status[i] /\ resultSaved'[i] = resultSaved[i] /\ remote'[i] = remote[i]
      BY <2>1 DEF CancelAnswer, SaveRemoteAnswer
    <3> QED
      BY <2>3, <3>1
  <2>6. ResultSources(j)'
    <3>1. \A q \in Page : q # p => remote'[j][q] = remote[j][q]
      BY <2>1, <2>2 DEF CancelAnswer, SaveRemoteAnswer
    <3>2. \A q \in resultSaved'[j] : q # p => q \in resultSaved[j]
      BY <2>1, <2>2 DEF CancelAnswer, SaveRemoteAnswer
    <3>3. p \in resultSaved'[j] => remote'[j][p] = "completed"
      BY <2>1, <2>2 DEF CancelAnswer, SaveRemoteAnswer
    <3>4. resultSaved'[j] \subseteq Page
      BY <2>1, <2>2 DEF CancelAnswer, SaveRemoteAnswer
    <3>5. ASSUME NEW q \in resultSaved'[j]
          PROVE IF q \in bound'[j] THEN remote'[j][q] = "completed"
                                   ELSE retryOf'[j] # NoJob /\ q \notin keySaved'[j]
      <4>1. CASE q = p
        BY <2>2, <2>3, <3>3, <4>1
      <4>2. CASE q # p
        <5>1. q \in resultSaved[j] /\ q \in Page
          BY <3>2, <3>4, <4>2
        <5>2. IF q \in bound[j] THEN remote[j][q] = "completed" ELSE retryOf[j] # NoJob /\ q \notin keySaved[j]
          BY <5>1
        <5>3. remote'[j][q] = remote[j][q]
          BY <3>1, <4>2, <5>1
        <5> QED
          BY <2>3, <5>2, <5>3
      <4> QED
        BY <4>1, <4>2
    <3>6. task'[j] # "settlePage" /\ (task'[j] \in {"poll", "get", "settlePage"} => pos'[j] \in bound'[j])
      BY <2>3, <2>4
    <3> QED
      BY <3>5, <3>6
  <2> QED
    BY <2>5, <2>6
<1>25. ASSUME NEW j \in Jobs, CancelThrows(j) PROVE Kept
  BY <1>25 DEF CancelThrows, IoEvent, LoopFree, InTurn
<1>26. ASSUME NEW j \in Jobs, MarkCancelled(j) PROVE Kept
  BY <1>26 DEF MarkCancelled, MarkPhase
<1>27. ASSUME NEW j \in Jobs, PruneJob(j) PROVE Kept
  BY <1>27 DEF PruneJob, ForgetDurable, IoEvent, LoopFree, InTurn
<1>28. ASSUME NEW j \in Jobs, DeadlinePasses(j) PROVE Kept
  BY <1>28 DEF DeadlinePasses
<1>29. ASSUME NEW j \in Jobs, NEW k \in Kinds, NEW src \in Jobs \cup {NoJob}, CreateJob(j, k, src) PROVE Kept
  BY <1>29 DEF CreateJob, IoEvent, LoopFree, InTurn
<1>30. ASSUME NEW j \in Jobs, NEW p \in Page, OcrDone(j, p) PROVE Kept
  BY <1>30 DEF OcrDone, IoEvent, LoopFree, InTurn
<1>31. ASSUME NEW j \in Jobs, NEW p \in Page, OcrFails(j, p) PROVE Kept
  BY <1>31 DEF OcrFails, IoEvent, LoopFree, InTurn
<1>32. ASSUME NEW j \in Jobs, NEW p \in Page, ProviderAccepts(j, p) PROVE Kept
  BY <1>32 DEF ProviderAccepts
<1>33. ASSUME NEW j \in Jobs, NEW p \in Page, ProviderFinishes(j, p) PROVE Kept
  BY <1>33 DEF ProviderFinishes
<1>34. ASSUME Close PROVE Kept
  BY <1>34 DEF Close, StopOcr, IoEvent, LoopFree, InTurn
<1>35. ASSUME Exit PROVE Kept
  BY <1>35 DEF Exit, LoseMemory
<1>36. ASSUME Crash PROVE Kept
  BY <1>36 DEF Crash, LoseMemory
<1>37. ASSUME NEW old \in SUBSET Jobs, Listen(old) PROVE Kept
  BY <1>37 DEF Listen, ForgetDurable, Recoverable, ActiveJob, RecoverablePhase
<1>38. CASE UNCHANGED vars
  BY <1>38 DEF vars
<1> QED
  BY <1>1, <1>2, <1>3, <1>4, <1>5, <1>6, <1>7, <1>8, <1>9, <1>10, <1>11, <1>12, <1>13, <1>14,
       <1>15, <1>16, <1>17, <1>18, <1>19, <1>20, <1>21, <1>22, <1>23, <1>24, <1>25, <1>26,
       <1>27, <1>28, <1>29, <1>30, <1>31, <1>32, <1>33, <1>34, <1>35, <1>36, <1>37, <1>38
     DEF Next, TaskStep, TaskProgress, ApiStep, WorldStep, HostStep

\* A step keeps a queued job without keys, responses or results of its own.
LEMMA QueuedStep == IInv /\ Evidence /\ [Next]_vars => \A i \in Jobs : QueuedIsUntouched(i)'
<1> DEFINE Kept == \A i \in Jobs : QueuedIsUntouched(i)'
<1> SUFFICES ASSUME TypeOK, Control, Anchors, Fresh, Evidence, [Next]_vars PROVE Kept
  BY DEF IInv
<1> USE JobsAssumption, PagesAssumption, KindsAssumption, StopsAssumption
<1> USE DEF TypeOK, Control, JobControl, Fresh, JobFresh, Evidence, QueuedIsUntouched, WorkPc,
        Goto, rows, pages, runner, deletion, host, net,
        Page, AllKinds, ActiveRow, TerminalRow, RowStatus, Phase, TerminalRemote,
        RemoteStatus, AwaitPc, TurnPc, PagePc, PlainPc, EarlyPc
<1>1. ASSUME NEW j \in Jobs, InitializeState(j) PROVE Kept
  <2>1. /\ task[j] = "initialize" /\ task' = [task EXCEPT ![j] = "start"]
        /\ phase' = [phase EXCEPT ![j] = "queued"]
        /\ UNCHANGED <<pages, ocrBusy, canceller, proc>>
    BY <1>1 DEF InitializeState
  <2>2. phase[j] = "none"
    BY <2>1
  <2>3. QueuedIsUntouched(j)'
    BY <2>1, <2>2
  <2>4. ASSUME NEW i \in Jobs \ {j} PROVE QueuedIsUntouched(i)'
    BY <2>1
  <2> QED
    BY <2>3, <2>4
<1>2. ASSUME NEW j \in Jobs, StartJob(j) PROVE Kept
  BY <1>2 DEF StartJob, ActiveJob
<1>3. ASSUME NEW j \in Jobs, CopyReusableRetryEvidence(j) PROVE Kept
  BY <1>3 DEF CopyReusableRetryEvidence, ReusableResults
<1>4. ASSUME NEW j \in Jobs, BeginOcr(j) PROVE Kept
  BY <1>4 DEF BeginOcr, MarkPhase
<1>5. ASSUME NEW j \in Jobs, CaptureUnreadable(j) PROVE Kept
  BY <1>5 DEF CaptureUnreadable
<1>6. ASSUME NEW j \in Jobs, MarkAiPending(j) PROVE Kept
  BY <1>6 DEF MarkAiPending, MarkPhase
<1>7. ASSUME NEW j \in Jobs, NextPage(j) PROVE Kept
  BY <1>7 DEF NextPage
<1>8. ASSUME NEW j \in Jobs, BeginPage(j) PROVE Kept
  BY <1>8 DEF BeginPage, PageDue, EnsureIdempotencyKey
<1>9. ASSUME NEW j \in Jobs, RequestPage(j) PROVE Kept
  BY <1>9 DEF RequestPage, ResponseKnown, SendCreate, MarkPhase
<1>10. ASSUME NEW j \in Jobs, CreateReply(j) PROVE Kept
  BY <1>10 DEF CreateReply, IoEvent, LoopFree, InTurn
<1>11. ASSUME NEW j \in Jobs, CreateRetries(j) PROVE Kept
  BY <1>11 DEF CreateRetries, SendCreate, IoEvent, LoopFree, InTurn
<1>12. ASSUME NEW j \in Jobs, BeginPolling(j) PROVE Kept
  BY <1>12 DEF BeginPolling, MarkPhase
<1>13. ASSUME NEW j \in Jobs, SettlePage(j) PROVE Kept
  BY <1>13 DEF SettlePage, RecordTerminal, SaveRemoteAnswer
<1>14. ASSUME NEW j \in Jobs, GetReply(j) PROVE Kept
  BY <1>14 DEF GetReply, RecordTerminal, SaveRemoteAnswer, IoEvent, LoopFree, InTurn
<1>15. ASSUME NEW j \in Jobs, RecordPageFailure(j) PROVE Kept
  BY <1>15 DEF RecordPageFailure
<1>16. ASSUME NEW j \in Jobs, AbortRejects(j) PROVE Kept
  BY <1>16 DEF AbortRejects, IoEvent, LoopFree, InTurn
<1>17. ASSUME NEW j \in Jobs, MarkCompleted(j) PROVE Kept
  BY <1>17 DEF MarkCompleted, MarkPhase
<1>18. ASSUME NEW j \in Jobs, MarkFailed(j) PROVE Kept
  BY <1>18 DEF MarkFailed, MarkPhase
<1>19. ASSUME NEW j \in Jobs, CompleteRow(j) PROVE Kept
  BY <1>19 DEF CompleteRow, EndTask, SettleRow
<1>20. ASSUME NEW j \in Jobs, FailRow(j) PROVE Kept
  BY <1>20 DEF FailRow, EndTask, SettleRow
<1>21. ASSUME NEW j \in Jobs, PlainExtracted(j) PROVE Kept
  BY <1>21 DEF PlainExtracted, IoEvent, LoopFree, InTurn
<1>22. ASSUME NEW j \in Jobs, RemoteCallFails(j) PROVE Kept
  BY <1>22 DEF RemoteCallFails, IoEvent, LoopFree, InTurn
<1>23. ASSUME NEW j \in Jobs, DeleteJob(j) PROVE Kept
  BY <1>23 DEF DeleteJob, StopOcr, UnfinishedRemote, ActiveJob, IoEvent, LoopFree, InTurn
<1>24. ASSUME NEW j \in Jobs, CancelReply(j) PROVE Kept
  BY <1>24 DEF CancelReply, CancelAnswer, SaveRemoteAnswer, IoEvent, LoopFree, InTurn
<1>25. ASSUME NEW j \in Jobs, CancelThrows(j) PROVE Kept
  BY <1>25 DEF CancelThrows, IoEvent, LoopFree, InTurn
<1>26. ASSUME NEW j \in Jobs, MarkCancelled(j) PROVE Kept
  BY <1>26 DEF MarkCancelled, MarkPhase
<1>27. ASSUME NEW j \in Jobs, PruneJob(j) PROVE Kept
  BY <1>27 DEF PruneJob, ForgetDurable, IoEvent, LoopFree, InTurn
<1>28. ASSUME NEW j \in Jobs, DeadlinePasses(j) PROVE Kept
  BY <1>28 DEF DeadlinePasses
<1>29. ASSUME NEW j \in Jobs, NEW k \in Kinds, NEW src \in Jobs \cup {NoJob}, CreateJob(j, k, src) PROVE Kept
  BY <1>29 DEF CreateJob, IoEvent, LoopFree, InTurn
<1>30. ASSUME NEW j \in Jobs, NEW p \in Page, OcrDone(j, p) PROVE Kept
  BY <1>30 DEF OcrDone, IoEvent, LoopFree, InTurn
<1>31. ASSUME NEW j \in Jobs, NEW p \in Page, OcrFails(j, p) PROVE Kept
  BY <1>31 DEF OcrFails, IoEvent, LoopFree, InTurn
<1>32. ASSUME NEW j \in Jobs, NEW p \in Page, ProviderAccepts(j, p) PROVE Kept
  BY <1>32 DEF ProviderAccepts
<1>33. ASSUME NEW j \in Jobs, NEW p \in Page, ProviderFinishes(j, p) PROVE Kept
  BY <1>33 DEF ProviderFinishes
<1>34. ASSUME Close PROVE Kept
  BY <1>34 DEF Close, StopOcr, IoEvent, LoopFree, InTurn
<1>35. ASSUME Exit PROVE Kept
  BY <1>35 DEF Exit, LoseMemory
<1>36. ASSUME Crash PROVE Kept
  BY <1>36 DEF Crash, LoseMemory
<1>37. ASSUME NEW old \in SUBSET Jobs, Listen(old) PROVE Kept
  <2>1. /\ proc = "down" /\ \A i \in Jobs : task[i] = "none" /\ canceller[i] = "none" /\ ocrBusy[i] = {}
        /\ UNCHANGED <<ocrBusy, canceller>>
    BY <1>37 DEF Listen
  <2>2. \A i \in Jobs : task'[i] \in {"none", "start"}
    BY <1>37 DEF Listen
  <2>3. ASSUME NEW i \in old PROVE QueuedIsUntouched(i)'
    <3>1. /\ phase'[i] = "none" /\ ocrSaved'[i] = {} /\ keySaved'[i] = {} /\ bound'[i] = {}
          /\ resultSaved'[i] = {} /\ status'[i] = [p \in Page |-> "none"]
      BY <1>37 DEF Listen, ForgetDurable
    <3> QED
      BY <2>1, <2>2, <3>1
  <2>4. ASSUME NEW i \in Jobs \ old PROVE QueuedIsUntouched(i)'
    <3>1. /\ phase'[i] = phase[i] /\ ocrSaved'[i] = ocrSaved[i] /\ keySaved'[i] = keySaved[i]
          /\ bound'[i] = bound[i] /\ resultSaved'[i] = resultSaved[i] /\ status'[i] = status[i]
      BY <1>37 DEF Listen, ForgetDurable
    <3> QED
      BY <2>1, <2>2, <3>1
  <2> QED
    BY <2>3, <2>4
<1>38. CASE UNCHANGED vars
  BY <1>38 DEF vars
<1> QED
  BY <1>1, <1>2, <1>3, <1>4, <1>5, <1>6, <1>7, <1>8, <1>9, <1>10, <1>11, <1>12, <1>13, <1>14,
       <1>15, <1>16, <1>17, <1>18, <1>19, <1>20, <1>21, <1>22, <1>23, <1>24, <1>25, <1>26,
       <1>27, <1>28, <1>29, <1>30, <1>31, <1>32, <1>33, <1>34, <1>35, <1>36, <1>37, <1>38
     DEF Next, TaskStep, TaskProgress, ApiStep, WorldStep, HostStep

\* A step keeps a cancelled job's task aborted, and on its way out.
LEMMA AbortedStep == IInv /\ Evidence /\ [Next]_vars => \A i \in Jobs : CancelledIsAborted(i)'
<1> DEFINE Kept == \A i \in Jobs : CancelledIsAborted(i)'
<1> SUFFICES ASSUME TypeOK, Control, Anchors, Fresh, Evidence, [Next]_vars PROVE Kept
  BY DEF IInv
<1> USE JobsAssumption, PagesAssumption, KindsAssumption, StopsAssumption
<1> USE DEF TypeOK, Control, JobControl, Evidence, CancelledIsAborted, AbortedPc,
        Goto, rows, pages, runner, deletion, host, net,
        Page, AllKinds, ActiveRow, TerminalRow, RowStatus, Phase, TerminalRemote,
        RemoteStatus, AwaitPc, TurnPc, PagePc, PlainPc, EarlyPc
<1>1. ASSUME NEW j \in Jobs, InitializeState(j) PROVE Kept
  BY <1>1 DEF InitializeState, MarkPhase
<1>2. ASSUME NEW j \in Jobs, StartJob(j) PROVE Kept
  BY <1>2 DEF StartJob, ActiveJob
<1>3. ASSUME NEW j \in Jobs, CopyReusableRetryEvidence(j) PROVE Kept
  <2>1. /\ task[j] \in {"copy"} /\ task'[j] \in {"ocrStart", "settleErr"}
        /\ \A i \in Jobs \ {j} : task'[i] = task[i]
        /\ UNCHANGED <<row, aborted>>
    BY <1>3 DEF CopyReusableRetryEvidence
  <2>2. CancelledIsAborted(j)'
    BY <2>1
  <2>3. ASSUME NEW i \in Jobs \ {j} PROVE CancelledIsAborted(i)'
    BY <2>1
  <2> QED
    BY <2>2, <2>3
<1>4. ASSUME NEW j \in Jobs, BeginOcr(j) PROVE Kept
  <2>1. /\ task[j] \in {"ocrStart"} /\ task'[j] \in {"ocr", "aiPending", "fail"}
        /\ \A i \in Jobs \ {j} : task'[i] = task[i]
        /\ UNCHANGED <<row, aborted>>
    BY <1>4 DEF BeginOcr
  <2>2. CancelledIsAborted(j)'
    BY <2>1
  <2>3. ASSUME NEW i \in Jobs \ {j} PROVE CancelledIsAborted(i)'
    BY <2>1
  <2> QED
    BY <2>2, <2>3
<1>5. ASSUME NEW j \in Jobs, CaptureUnreadable(j) PROVE Kept
  <2>1. /\ task[j] \in {"ocrStart", "request"} /\ task'[j] \in {"fail", "pageFail"}
        /\ \A i \in Jobs \ {j} : task'[i] = task[i]
        /\ UNCHANGED <<row, aborted>>
    BY <1>5 DEF CaptureUnreadable
  <2>2. CancelledIsAborted(j)'
    BY <2>1
  <2>3. ASSUME NEW i \in Jobs \ {j} PROVE CancelledIsAborted(i)'
    BY <2>1
  <2> QED
    BY <2>2, <2>3
<1>6. ASSUME NEW j \in Jobs, MarkAiPending(j) PROVE Kept
  BY <1>6 DEF MarkAiPending, MarkPhase
<1>7. ASSUME NEW j \in Jobs, NextPage(j) PROVE Kept
  <2>1. /\ task[j] \in {"page"} /\ task'[j] \in {"page", "fail", "complete"}
        /\ \A i \in Jobs \ {j} : task'[i] = task[i]
        /\ UNCHANGED <<row, aborted>>
    BY <1>7 DEF NextPage
  <2>2. CancelledIsAborted(j)'
    BY <2>1
  <2>3. ASSUME NEW i \in Jobs \ {j} PROVE CancelledIsAborted(i)'
    BY <2>1
  <2> QED
    BY <2>2, <2>3
<1>8. ASSUME NEW j \in Jobs, BeginPage(j) PROVE Kept
  BY <1>8 DEF BeginPage, PageDue, EnsureIdempotencyKey
<1>9. ASSUME NEW j \in Jobs, RequestPage(j) PROVE Kept
  <2>1. /\ task[j] \in {"request"} /\ task'[j] \in {"get", "pageFail", "post"}
        /\ \A i \in Jobs \ {j} : task'[i] = task[i]
        /\ UNCHANGED <<row, aborted>>
    BY <1>9 DEF RequestPage, SendCreate, ResponseKnown
  <2>2. CancelledIsAborted(j)'
    BY <2>1
  <2>3. ASSUME NEW i \in Jobs \ {j} PROVE CancelledIsAborted(i)'
    BY <2>1
  <2> QED
    BY <2>2, <2>3
<1>10. ASSUME NEW j \in Jobs, CreateReply(j) PROVE Kept
  BY <1>10 DEF CreateReply, IoEvent, LoopFree, InTurn
<1>11. ASSUME NEW j \in Jobs, CreateRetries(j) PROVE Kept
  BY <1>11 DEF CreateRetries, SendCreate, IoEvent, LoopFree, InTurn
<1>12. ASSUME NEW j \in Jobs, BeginPolling(j) PROVE Kept
  BY <1>12 DEF BeginPolling, MarkPhase
<1>13. ASSUME NEW j \in Jobs, SettlePage(j) PROVE Kept
  BY <1>13 DEF SettlePage, RecordTerminal, SaveRemoteAnswer
<1>14. ASSUME NEW j \in Jobs, GetReply(j) PROVE Kept
  BY <1>14 DEF GetReply, RecordTerminal, SaveRemoteAnswer, IoEvent, LoopFree, InTurn
<1>15. ASSUME NEW j \in Jobs, RecordPageFailure(j) PROVE Kept
  BY <1>15 DEF RecordPageFailure
<1>16. ASSUME NEW j \in Jobs, AbortRejects(j) PROVE Kept
  <2>1. /\ task[j] \in {"extract", "ocr", "post", "get"} /\ task'[j] \in {"settleErr", "pageFail"}
        /\ \A i \in Jobs \ {j} : task'[i] = task[i]
        /\ UNCHANGED <<row, aborted>>
    BY <1>16 DEF AbortRejects
  <2>2. CancelledIsAborted(j)'
    BY <2>1
  <2>3. ASSUME NEW i \in Jobs \ {j} PROVE CancelledIsAborted(i)'
    BY <2>1
  <2> QED
    BY <2>2, <2>3
<1>17. ASSUME NEW j \in Jobs, MarkCompleted(j) PROVE Kept
  BY <1>17 DEF MarkCompleted, MarkPhase
<1>18. ASSUME NEW j \in Jobs, MarkFailed(j) PROVE Kept
  BY <1>18 DEF MarkFailed, MarkPhase
<1>19. ASSUME NEW j \in Jobs, CompleteRow(j) PROVE Kept
  BY <1>19 DEF CompleteRow, EndTask, SettleRow
<1>20. ASSUME NEW j \in Jobs, FailRow(j) PROVE Kept
  BY <1>20 DEF FailRow, EndTask, SettleRow
<1>21. ASSUME NEW j \in Jobs, PlainExtracted(j) PROVE Kept
  BY <1>21 DEF PlainExtracted, IoEvent, LoopFree, InTurn
<1>22. ASSUME NEW j \in Jobs, RemoteCallFails(j) PROVE Kept
  BY <1>22 DEF RemoteCallFails, IoEvent, LoopFree, InTurn
<1>23. ASSUME NEW j \in Jobs, DeleteJob(j) PROVE Kept
  BY <1>23 DEF DeleteJob, StopOcr, UnfinishedRemote, ActiveJob, IoEvent, LoopFree, InTurn
<1>24. ASSUME NEW j \in Jobs, CancelReply(j) PROVE Kept
  BY <1>24 DEF CancelReply, CancelAnswer, SaveRemoteAnswer, IoEvent, LoopFree, InTurn
<1>25. ASSUME NEW j \in Jobs, CancelThrows(j) PROVE Kept
  BY <1>25 DEF CancelThrows, IoEvent, LoopFree, InTurn
<1>26. ASSUME NEW j \in Jobs, MarkCancelled(j) PROVE Kept
  BY <1>26 DEF MarkCancelled, MarkPhase
<1>27. ASSUME NEW j \in Jobs, PruneJob(j) PROVE Kept
  BY <1>27 DEF PruneJob, ForgetDurable, IoEvent, LoopFree, InTurn
<1>28. ASSUME NEW j \in Jobs, DeadlinePasses(j) PROVE Kept
  BY <1>28 DEF DeadlinePasses
<1>29. ASSUME NEW j \in Jobs, NEW k \in Kinds, NEW src \in Jobs \cup {NoJob}, CreateJob(j, k, src) PROVE Kept
  BY <1>29 DEF CreateJob, IoEvent, LoopFree, InTurn
<1>30. ASSUME NEW j \in Jobs, NEW p \in Page, OcrDone(j, p) PROVE Kept
  BY <1>30 DEF OcrDone, IoEvent, LoopFree, InTurn
<1>31. ASSUME NEW j \in Jobs, NEW p \in Page, OcrFails(j, p) PROVE Kept
  BY <1>31 DEF OcrFails, IoEvent, LoopFree, InTurn
<1>32. ASSUME NEW j \in Jobs, NEW p \in Page, ProviderAccepts(j, p) PROVE Kept
  BY <1>32 DEF ProviderAccepts
<1>33. ASSUME NEW j \in Jobs, NEW p \in Page, ProviderFinishes(j, p) PROVE Kept
  BY <1>33 DEF ProviderFinishes
<1>34. ASSUME Close PROVE Kept
  BY <1>34 DEF Close, StopOcr, IoEvent, LoopFree, InTurn
<1>35. ASSUME Exit PROVE Kept
  BY <1>35 DEF Exit, LoseMemory
<1>36. ASSUME Crash PROVE Kept
  BY <1>36 DEF Crash, LoseMemory
<1>37. ASSUME NEW old \in SUBSET Jobs, Listen(old) PROVE Kept
  BY <1>37 DEF Listen, ForgetDurable, Recoverable, ActiveJob, RecoverablePhase
<1>38. CASE UNCHANGED vars
  BY <1>38 DEF vars
<1> QED
  BY <1>1, <1>2, <1>3, <1>4, <1>5, <1>6, <1>7, <1>8, <1>9, <1>10, <1>11, <1>12, <1>13, <1>14,
       <1>15, <1>16, <1>17, <1>18, <1>19, <1>20, <1>21, <1>22, <1>23, <1>24, <1>25, <1>26,
       <1>27, <1>28, <1>29, <1>30, <1>31, <1>32, <1>33, <1>34, <1>35, <1>36, <1>37, <1>38
     DEF Next, TaskStep, TaskProgress, ApiStep, WorldStep, HostStep

\* A pruned job stays pruned.
LEMMA PrunedStays == IInv /\ [Next]_vars => \A i \in Jobs : row[i] = "pruned" => row'[i] = "pruned"
<1> DEFINE Kept == \A i \in Jobs : row[i] = "pruned" => row'[i] = "pruned"
<1> SUFFICES ASSUME TypeOK, Control, [Next]_vars PROVE Kept
  BY DEF IInv
<1> USE JobsAssumption, PagesAssumption, KindsAssumption, StopsAssumption
<1> USE DEF TypeOK, Control, JobControl,
        Goto, rows, pages, runner, deletion, host, net,
        Page, AllKinds, ActiveRow, TerminalRow, RowStatus, Phase, TerminalRemote,
        RemoteStatus, AwaitPc, TurnPc, PagePc, PlainPc, EarlyPc
<1>1. ASSUME NEW j \in Jobs, InitializeState(j) PROVE Kept
  BY <1>1 DEF InitializeState, MarkPhase
<1>2. ASSUME NEW j \in Jobs, StartJob(j) PROVE Kept
  BY <1>2 DEF StartJob, ActiveJob
<1>3. ASSUME NEW j \in Jobs, CopyReusableRetryEvidence(j) PROVE Kept
  BY <1>3 DEF CopyReusableRetryEvidence, ReusableResults
<1>4. ASSUME NEW j \in Jobs, BeginOcr(j) PROVE Kept
  BY <1>4 DEF BeginOcr, MarkPhase
<1>5. ASSUME NEW j \in Jobs, CaptureUnreadable(j) PROVE Kept
  BY <1>5 DEF CaptureUnreadable
<1>6. ASSUME NEW j \in Jobs, MarkAiPending(j) PROVE Kept
  BY <1>6 DEF MarkAiPending, MarkPhase
<1>7. ASSUME NEW j \in Jobs, NextPage(j) PROVE Kept
  BY <1>7 DEF NextPage
<1>8. ASSUME NEW j \in Jobs, BeginPage(j) PROVE Kept
  BY <1>8 DEF BeginPage, PageDue, EnsureIdempotencyKey
<1>9. ASSUME NEW j \in Jobs, RequestPage(j) PROVE Kept
  BY <1>9 DEF RequestPage, ResponseKnown, SendCreate, MarkPhase
<1>10. ASSUME NEW j \in Jobs, CreateReply(j) PROVE Kept
  BY <1>10 DEF CreateReply
<1>11. ASSUME NEW j \in Jobs, CreateRetries(j) PROVE Kept
  BY <1>11 DEF CreateRetries, SendCreate
<1>12. ASSUME NEW j \in Jobs, BeginPolling(j) PROVE Kept
  BY <1>12 DEF BeginPolling, MarkPhase
<1>13. ASSUME NEW j \in Jobs, SettlePage(j) PROVE Kept
  BY <1>13 DEF SettlePage, RecordTerminal, SaveRemoteAnswer
<1>14. ASSUME NEW j \in Jobs, GetReply(j) PROVE Kept
  BY <1>14 DEF GetReply, RecordTerminal, SaveRemoteAnswer
<1>15. ASSUME NEW j \in Jobs, RecordPageFailure(j) PROVE Kept
  BY <1>15 DEF RecordPageFailure
<1>16. ASSUME NEW j \in Jobs, AbortRejects(j) PROVE Kept
  BY <1>16 DEF AbortRejects
<1>17. ASSUME NEW j \in Jobs, MarkCompleted(j) PROVE Kept
  BY <1>17 DEF MarkCompleted, MarkPhase
<1>18. ASSUME NEW j \in Jobs, MarkFailed(j) PROVE Kept
  BY <1>18 DEF MarkFailed, MarkPhase
<1>19. ASSUME NEW j \in Jobs, CompleteRow(j) PROVE Kept
  BY <1>19 DEF CompleteRow, EndTask, SettleRow
<1>20. ASSUME NEW j \in Jobs, FailRow(j) PROVE Kept
  BY <1>20 DEF FailRow, EndTask, SettleRow
<1>21. ASSUME NEW j \in Jobs, PlainExtracted(j) PROVE Kept
  BY <1>21 DEF PlainExtracted
<1>22. ASSUME NEW j \in Jobs, RemoteCallFails(j) PROVE Kept
  BY <1>22 DEF RemoteCallFails
<1>23. ASSUME NEW j \in Jobs, DeleteJob(j) PROVE Kept
  BY <1>23 DEF DeleteJob, StopOcr, UnfinishedRemote, ActiveJob
<1>24. ASSUME NEW j \in Jobs, CancelReply(j) PROVE Kept
  BY <1>24 DEF CancelReply, CancelAnswer, SaveRemoteAnswer
<1>25. ASSUME NEW j \in Jobs, CancelThrows(j) PROVE Kept
  BY <1>25 DEF CancelThrows
<1>26. ASSUME NEW j \in Jobs, MarkCancelled(j) PROVE Kept
  BY <1>26 DEF MarkCancelled, MarkPhase
<1>27. ASSUME NEW j \in Jobs, PruneJob(j) PROVE Kept
  BY <1>27 DEF PruneJob, ForgetDurable
<1>28. ASSUME NEW j \in Jobs, DeadlinePasses(j) PROVE Kept
  BY <1>28 DEF DeadlinePasses
<1>29. ASSUME NEW j \in Jobs, NEW k \in Kinds, NEW src \in Jobs \cup {NoJob}, CreateJob(j, k, src) PROVE Kept
  BY <1>29 DEF CreateJob
<1>30. ASSUME NEW j \in Jobs, NEW p \in Page, OcrDone(j, p) PROVE Kept
  BY <1>30 DEF OcrDone
<1>31. ASSUME NEW j \in Jobs, NEW p \in Page, OcrFails(j, p) PROVE Kept
  BY <1>31 DEF OcrFails
<1>32. ASSUME NEW j \in Jobs, NEW p \in Page, ProviderAccepts(j, p) PROVE Kept
  BY <1>32 DEF ProviderAccepts
<1>33. ASSUME NEW j \in Jobs, NEW p \in Page, ProviderFinishes(j, p) PROVE Kept
  BY <1>33 DEF ProviderFinishes
<1>34. ASSUME Close PROVE Kept
  BY <1>34 DEF Close, StopOcr
<1>35. ASSUME Exit PROVE Kept
  BY <1>35 DEF Exit, LoseMemory
<1>36. ASSUME Crash PROVE Kept
  BY <1>36 DEF Crash, LoseMemory
<1>37. ASSUME NEW old \in SUBSET Jobs, Listen(old) PROVE Kept
  BY <1>37 DEF Listen, ForgetDurable, Recoverable, ActiveJob, RecoverablePhase
<1>38. CASE UNCHANGED vars
  BY <1>38 DEF vars
<1> QED
  BY <1>1, <1>2, <1>3, <1>4, <1>5, <1>6, <1>7, <1>8, <1>9, <1>10, <1>11, <1>12, <1>13, <1>14,
       <1>15, <1>16, <1>17, <1>18, <1>19, <1>20, <1>21, <1>22, <1>23, <1>24, <1>25, <1>26,
       <1>27, <1>28, <1>29, <1>30, <1>31, <1>32, <1>33, <1>34, <1>35, <1>36, <1>37, <1>38
     DEF Next, TaskStep, TaskProgress, ApiStep, WorldStep, HostStep

\* A job that is queued after a step is as it was, holds nothing yet, or has just taken
\* over the evidence of its failed source.
LEMMA QueuedHoldings ==
  IInv /\ Evidence /\ [Next]_vars =>
    \A i \in Jobs : phase'[i] = "queued" =>
      /\ retryOf'[i] = retryOf[i]
      /\ \/ phase[i] = "queued" /\ ocrSaved'[i] = ocrSaved[i] /\ resultSaved'[i] = resultSaved[i]
         \/ ocrSaved'[i] = {} /\ resultSaved'[i] = {}
         \/ /\ phase[i] = "queued" /\ phase[retryOf[i]] = "failed"
            /\ ocrSaved'[i] = ocrSaved[i] \cup ocrSaved[retryOf[i]]
            /\ resultSaved'[i] = resultSaved[i] \cup ReusableResults(retryOf[i])
<1> DEFINE Holds(i) ==
      phase'[i] = "queued" =>
      /\ retryOf'[i] = retryOf[i]
      /\ \/ phase[i] = "queued" /\ ocrSaved'[i] = ocrSaved[i] /\ resultSaved'[i] = resultSaved[i]
         \/ ocrSaved'[i] = {} /\ resultSaved'[i] = {}
         \/ /\ phase[i] = "queued" /\ phase[retryOf[i]] = "failed"
            /\ ocrSaved'[i] = ocrSaved[i] \cup ocrSaved[retryOf[i]]
            /\ resultSaved'[i] = resultSaved[i] \cup ReusableResults(retryOf[i])
<1> DEFINE Kept == \A i \in Jobs : Holds(i)
<1> SUFFICES ASSUME TypeOK, Control, Anchors, Fresh, Evidence, [Next]_vars PROVE Kept
  BY DEF IInv
<1> USE JobsAssumption, PagesAssumption, KindsAssumption, StopsAssumption
<1> USE DEF TypeOK, Control, JobControl, Fresh, JobFresh, Evidence, QueuedIsUntouched, WorkPc,
        Goto, rows, pages, runner, deletion, host, net,
        Page, AllKinds, ActiveRow, TerminalRow, RowStatus, Phase, TerminalRemote,
        RemoteStatus, AwaitPc, TurnPc, PagePc, PlainPc, EarlyPc
<1>1. ASSUME NEW j \in Jobs, InitializeState(j) PROVE Kept
  BY <1>1 DEF InitializeState, MarkPhase
<1>2. ASSUME NEW j \in Jobs, StartJob(j) PROVE Kept
  BY <1>2 DEF StartJob, ActiveJob
<1>3. ASSUME NEW j \in Jobs, CopyReusableRetryEvidence(j) PROVE Kept
  BY <1>3 DEF CopyReusableRetryEvidence, ReusableResults
<1>4. ASSUME NEW j \in Jobs, BeginOcr(j) PROVE Kept
  BY <1>4 DEF BeginOcr, MarkPhase
<1>5. ASSUME NEW j \in Jobs, CaptureUnreadable(j) PROVE Kept
  BY <1>5 DEF CaptureUnreadable
<1>6. ASSUME NEW j \in Jobs, MarkAiPending(j) PROVE Kept
  BY <1>6 DEF MarkAiPending, MarkPhase
<1>7. ASSUME NEW j \in Jobs, NextPage(j) PROVE Kept
  BY <1>7 DEF NextPage
<1>8. ASSUME NEW j \in Jobs, BeginPage(j) PROVE Kept
  BY <1>8 DEF BeginPage, PageDue, EnsureIdempotencyKey
<1>9. ASSUME NEW j \in Jobs, RequestPage(j) PROVE Kept
  BY <1>9 DEF RequestPage, ResponseKnown, SendCreate, MarkPhase
<1>10. ASSUME NEW j \in Jobs, CreateReply(j) PROVE Kept
  BY <1>10 DEF CreateReply
<1>11. ASSUME NEW j \in Jobs, CreateRetries(j) PROVE Kept
  BY <1>11 DEF CreateRetries, SendCreate
<1>12. ASSUME NEW j \in Jobs, BeginPolling(j) PROVE Kept
  BY <1>12 DEF BeginPolling, MarkPhase
<1>13. ASSUME NEW j \in Jobs, SettlePage(j) PROVE Kept
  BY <1>13 DEF SettlePage, RecordTerminal, SaveRemoteAnswer
<1>14. ASSUME NEW j \in Jobs, GetReply(j) PROVE Kept
  BY <1>14 DEF GetReply, RecordTerminal, SaveRemoteAnswer
<1>15. ASSUME NEW j \in Jobs, RecordPageFailure(j) PROVE Kept
  BY <1>15 DEF RecordPageFailure
<1>16. ASSUME NEW j \in Jobs, AbortRejects(j) PROVE Kept
  BY <1>16 DEF AbortRejects
<1>17. ASSUME NEW j \in Jobs, MarkCompleted(j) PROVE Kept
  BY <1>17 DEF MarkCompleted, MarkPhase
<1>18. ASSUME NEW j \in Jobs, MarkFailed(j) PROVE Kept
  BY <1>18 DEF MarkFailed, MarkPhase
<1>19. ASSUME NEW j \in Jobs, CompleteRow(j) PROVE Kept
  BY <1>19 DEF CompleteRow, EndTask, SettleRow
<1>20. ASSUME NEW j \in Jobs, FailRow(j) PROVE Kept
  BY <1>20 DEF FailRow, EndTask, SettleRow
<1>21. ASSUME NEW j \in Jobs, PlainExtracted(j) PROVE Kept
  BY <1>21 DEF PlainExtracted
<1>22. ASSUME NEW j \in Jobs, RemoteCallFails(j) PROVE Kept
  BY <1>22 DEF RemoteCallFails
<1>23. ASSUME NEW j \in Jobs, DeleteJob(j) PROVE Kept
  BY <1>23 DEF DeleteJob, StopOcr, UnfinishedRemote, ActiveJob
<1>24. ASSUME NEW j \in Jobs, CancelReply(j) PROVE Kept
  BY <1>24 DEF CancelReply, CancelAnswer, SaveRemoteAnswer
<1>25. ASSUME NEW j \in Jobs, CancelThrows(j) PROVE Kept
  BY <1>25 DEF CancelThrows
<1>26. ASSUME NEW j \in Jobs, MarkCancelled(j) PROVE Kept
  BY <1>26 DEF MarkCancelled, MarkPhase
<1>27. ASSUME NEW j \in Jobs, PruneJob(j) PROVE Kept
  BY <1>27 DEF PruneJob, ForgetDurable
<1>28. ASSUME NEW j \in Jobs, DeadlinePasses(j) PROVE Kept
  BY <1>28 DEF DeadlinePasses
<1>29. ASSUME NEW j \in Jobs, NEW k \in Kinds, NEW src \in Jobs \cup {NoJob}, CreateJob(j, k, src) PROVE Kept
  BY <1>29 DEF CreateJob
<1>30. ASSUME NEW j \in Jobs, NEW p \in Page, OcrDone(j, p) PROVE Kept
  BY <1>30 DEF OcrDone
<1>31. ASSUME NEW j \in Jobs, NEW p \in Page, OcrFails(j, p) PROVE Kept
  BY <1>31 DEF OcrFails
<1>32. ASSUME NEW j \in Jobs, NEW p \in Page, ProviderAccepts(j, p) PROVE Kept
  BY <1>32 DEF ProviderAccepts
<1>33. ASSUME NEW j \in Jobs, NEW p \in Page, ProviderFinishes(j, p) PROVE Kept
  BY <1>33 DEF ProviderFinishes
<1>34. ASSUME Close PROVE Kept
  BY <1>34 DEF Close, StopOcr
<1>35. ASSUME Exit PROVE Kept
  BY <1>35 DEF Exit, LoseMemory
<1>36. ASSUME Crash PROVE Kept
  BY <1>36 DEF Crash, LoseMemory
<1>37. ASSUME NEW old \in SUBSET Jobs, Listen(old) PROVE Kept
  BY <1>37 DEF Listen, ForgetDurable, Recoverable, ActiveJob, RecoverablePhase
<1>38. CASE UNCHANGED vars
  BY <1>38 DEF vars
<1> QED
  BY <1>1, <1>2, <1>3, <1>4, <1>5, <1>6, <1>7, <1>8, <1>9, <1>10, <1>11, <1>12, <1>13, <1>14,
       <1>15, <1>16, <1>17, <1>18, <1>19, <1>20, <1>21, <1>22, <1>23, <1>24, <1>25, <1>26,
       <1>27, <1>28, <1>29, <1>30, <1>31, <1>32, <1>33, <1>34, <1>35, <1>36, <1>37, <1>38
     DEF Next, TaskStep, TaskProgress, ApiStep, WorldStep, HostStep

\* A step keeps what a queued retry holds among what its source holds.
LEMMA CopiedStep == IInv /\ Evidence /\ [Next]_vars => \A i \in Jobs : CopiedFromSource(i)'
<1> SUFFICES ASSUME IInv, Evidence, [Next]_vars, NEW i \in Jobs PROVE CopiedFromSource(i)'
  OBVIOUS
<1> DEFINE src == retryOf[i]
<1>1. ASSUME phase'[i] = "queued", retryOf'[i] \in Jobs, row'[retryOf'[i]] # "pruned"
      PROVE  /\ ocrSaved'[i] \subseteq ocrSaved'[retryOf'[i]]
             /\ resultSaved'[i] \subseteq {p \in resultSaved'[retryOf'[i]] : status'[retryOf'[i]][p] = "completed"}
  <2>1. retryOf'[i] = src
    BY <1>1, QueuedHoldings
  <2>2. src \in Jobs /\ row'[src] # "pruned"
    BY <1>1, <2>1
  <2>3. row[src] # "pruned"
    BY <2>2, PrunedStays
  <2>4. /\ ocrSaved[src] \subseteq ocrSaved'[src]
        /\ \A p \in ReusableResults(src) : p \in resultSaved'[src] /\ status'[src][p] = "completed"
    BY <2>2, EvidenceGrows
  <2>5. phase[i] = "queued" => ocrSaved[i] \subseteq ocrSaved[src] /\ resultSaved[i] \subseteq ReusableResults(src)
    BY <2>2, <2>3 DEF Evidence, CopiedFromSource
  <2>6. ocrSaved'[i] \subseteq ocrSaved[src] /\ resultSaved'[i] \subseteq ReusableResults(src)
    BY <1>1, <2>5, QueuedHoldings
  <2> QED
    BY <2>1, <2>4, <2>6
<1> QED
  BY <1>1 DEF CopiedFromSource, ReusableResults

\* No step starts work for a cancelled row: its task is gone, or aborted and on its way out.
LEMMA SilentStep ==
  IInv /\ Evidence /\ [Next]_vars =>
    \A i \in Jobs : row[i] = "cancelled" =>
      /\ \A p \in Page : <<i, p>> \notin wire' \ wire
      /\ ocrBusy'[i] \subseteq ocrBusy[i]
      /\ task'[i] \in {"post", "get"} => task[i] = task'[i]
<1> SUFFICES ASSUME TypeOK, Control, Evidence, [Next]_vars, NEW i \in Jobs, row[i] = "cancelled"
             PROVE  /\ \A p \in Page : <<i, p>> \notin wire' \ wire
                    /\ ocrBusy'[i] \subseteq ocrBusy[i]
                    /\ task'[i] \in {"post", "get"} => task[i] = task'[i]
  BY DEF IInv
<1> DEFINE Silent == /\ \A p \in Page : <<i, p>> \notin wire' \ wire
                     /\ ocrBusy'[i] \subseteq ocrBusy[i]
                     /\ task'[i] \in {"post", "get"} => task[i] = task'[i]
<1> USE JobsAssumption, PagesAssumption, KindsAssumption, StopsAssumption
<1> USE DEF TypeOK, Control, JobControl, Evidence, CancelledIsAborted, AbortedPc,
        Goto, rows, pages, runner, deletion, host, net,
        Page, AllKinds, ActiveRow, TerminalRow, RowStatus, Phase, TerminalRemote,
        RemoteStatus, AwaitPc, TurnPc, PagePc, PlainPc, EarlyPc
<1>1. ASSUME NEW j \in Jobs, InitializeState(j) PROVE Silent
  BY <1>1 DEF InitializeState, MarkPhase
<1>2. ASSUME NEW j \in Jobs, StartJob(j) PROVE Silent
  BY <1>2 DEF StartJob, ActiveJob
<1>3. ASSUME NEW j \in Jobs, CopyReusableRetryEvidence(j) PROVE Silent
  BY <1>3 DEF CopyReusableRetryEvidence, ReusableResults
<1>4. ASSUME NEW j \in Jobs, BeginOcr(j) PROVE Silent
  <2>1. i # j /\ UNCHANGED wire
    BY <1>4 DEF BeginOcr
  <2>2. ocrBusy'[i] = ocrBusy[i] /\ task'[i] = task[i]
    <3>1. CASE Page \ ocrSaved[j] # {} /\ j \notin expired
      BY <1>4, <2>1, <3>1 DEF BeginOcr
    <3>2. CASE ~(Page \ ocrSaved[j] # {} /\ j \notin expired)
      BY <1>4, <2>1, <3>2 DEF BeginOcr
    <3> QED
      BY <3>1, <3>2
  <2> QED
    BY <2>1, <2>2
<1>5. ASSUME NEW j \in Jobs, CaptureUnreadable(j) PROVE Silent
  BY <1>5 DEF CaptureUnreadable
<1>6. ASSUME NEW j \in Jobs, MarkAiPending(j) PROVE Silent
  BY <1>6 DEF MarkAiPending, MarkPhase
<1>7. ASSUME NEW j \in Jobs, NextPage(j) PROVE Silent
  BY <1>7 DEF NextPage
<1>8. ASSUME NEW j \in Jobs, BeginPage(j) PROVE Silent
  BY <1>8 DEF BeginPage, PageDue, EnsureIdempotencyKey
<1>9. ASSUME NEW j \in Jobs, RequestPage(j) PROVE Silent
  <2>1. i # j /\ UNCHANGED ocrBusy
    BY <1>9 DEF RequestPage
  <2>2. task'[i] = task[i]
    <3>1. CASE ResponseKnown(j)
      BY <1>9, <2>1, <3>1 DEF RequestPage
    <3>2. CASE ~ResponseKnown(j)
      BY <1>9, <2>1, <3>2 DEF RequestPage, SendCreate
    <3> QED
      BY <3>1, <3>2
  <2>3. wire' \in {wire, wire \cup {<<j, pos[j]>>}}
    BY <1>9 DEF RequestPage, SendCreate
  <2> QED
    BY <2>1, <2>2, <2>3
<1>10. ASSUME NEW j \in Jobs, CreateReply(j) PROVE Silent
  BY <1>10 DEF CreateReply, IoEvent, LoopFree, InTurn
<1>11. ASSUME NEW j \in Jobs, CreateRetries(j) PROVE Silent
  BY <1>11 DEF CreateRetries, SendCreate, IoEvent, LoopFree, InTurn
<1>12. ASSUME NEW j \in Jobs, BeginPolling(j) PROVE Silent
  BY <1>12 DEF BeginPolling, MarkPhase
<1>13. ASSUME NEW j \in Jobs, SettlePage(j) PROVE Silent
  BY <1>13 DEF SettlePage, RecordTerminal, SaveRemoteAnswer
<1>14. ASSUME NEW j \in Jobs, GetReply(j) PROVE Silent
  BY <1>14 DEF GetReply, RecordTerminal, SaveRemoteAnswer, IoEvent, LoopFree, InTurn
<1>15. ASSUME NEW j \in Jobs, RecordPageFailure(j) PROVE Silent
  BY <1>15 DEF RecordPageFailure
<1>16. ASSUME NEW j \in Jobs, AbortRejects(j) PROVE Silent
  BY <1>16 DEF AbortRejects, IoEvent, LoopFree, InTurn
<1>17. ASSUME NEW j \in Jobs, MarkCompleted(j) PROVE Silent
  BY <1>17 DEF MarkCompleted, MarkPhase
<1>18. ASSUME NEW j \in Jobs, MarkFailed(j) PROVE Silent
  BY <1>18 DEF MarkFailed, MarkPhase
<1>19. ASSUME NEW j \in Jobs, CompleteRow(j) PROVE Silent
  BY <1>19 DEF CompleteRow, EndTask, SettleRow
<1>20. ASSUME NEW j \in Jobs, FailRow(j) PROVE Silent
  BY <1>20 DEF FailRow, EndTask, SettleRow
<1>21. ASSUME NEW j \in Jobs, PlainExtracted(j) PROVE Silent
  BY <1>21 DEF PlainExtracted, IoEvent, LoopFree, InTurn
<1>22. ASSUME NEW j \in Jobs, RemoteCallFails(j) PROVE Silent
  BY <1>22 DEF RemoteCallFails, IoEvent, LoopFree, InTurn
<1>23. ASSUME NEW j \in Jobs, DeleteJob(j) PROVE Silent
  BY <1>23 DEF DeleteJob, StopOcr, UnfinishedRemote, ActiveJob, IoEvent, LoopFree, InTurn
<1>24. ASSUME NEW j \in Jobs, CancelReply(j) PROVE Silent
  BY <1>24 DEF CancelReply, CancelAnswer, SaveRemoteAnswer, IoEvent, LoopFree, InTurn
<1>25. ASSUME NEW j \in Jobs, CancelThrows(j) PROVE Silent
  BY <1>25 DEF CancelThrows, IoEvent, LoopFree, InTurn
<1>26. ASSUME NEW j \in Jobs, MarkCancelled(j) PROVE Silent
  BY <1>26 DEF MarkCancelled, MarkPhase
<1>27. ASSUME NEW j \in Jobs, PruneJob(j) PROVE Silent
  BY <1>27 DEF PruneJob, ForgetDurable, IoEvent, LoopFree, InTurn
<1>28. ASSUME NEW j \in Jobs, DeadlinePasses(j) PROVE Silent
  BY <1>28 DEF DeadlinePasses
<1>29. ASSUME NEW j \in Jobs, NEW k \in Kinds, NEW src \in Jobs \cup {NoJob}, CreateJob(j, k, src) PROVE Silent
  BY <1>29 DEF CreateJob, IoEvent, LoopFree, InTurn
<1>30. ASSUME NEW j \in Jobs, NEW p \in Page, OcrDone(j, p) PROVE Silent
  BY <1>30 DEF OcrDone, IoEvent, LoopFree, InTurn
<1>31. ASSUME NEW j \in Jobs, NEW p \in Page, OcrFails(j, p) PROVE Silent
  BY <1>31 DEF OcrFails, IoEvent, LoopFree, InTurn
<1>32. ASSUME NEW j \in Jobs, NEW p \in Page, ProviderAccepts(j, p) PROVE Silent
  BY <1>32 DEF ProviderAccepts
<1>33. ASSUME NEW j \in Jobs, NEW p \in Page, ProviderFinishes(j, p) PROVE Silent
  BY <1>33 DEF ProviderFinishes
<1>34. ASSUME Close PROVE Silent
  BY <1>34 DEF Close, StopOcr, IoEvent, LoopFree, InTurn
<1>35. ASSUME Exit PROVE Silent
  BY <1>35 DEF Exit, LoseMemory
<1>36. ASSUME Crash PROVE Silent
  BY <1>36 DEF Crash, LoseMemory
<1>37. ASSUME NEW old \in SUBSET Jobs, Listen(old) PROVE Silent
  BY <1>37 DEF Listen, ForgetDurable, Recoverable, ActiveJob, RecoverablePhase
<1>38. CASE UNCHANGED vars
  BY <1>38 DEF vars
<1> QED
  BY <1>1, <1>2, <1>3, <1>4, <1>5, <1>6, <1>7, <1>8, <1>9, <1>10, <1>11, <1>12, <1>13, <1>14,
       <1>15, <1>16, <1>17, <1>18, <1>19, <1>20, <1>21, <1>22, <1>23, <1>24, <1>25, <1>26,
       <1>27, <1>28, <1>29, <1>30, <1>31, <1>32, <1>33, <1>34, <1>35, <1>36, <1>37, <1>38
     DEF Next, TaskStep, TaskProgress, ApiStep, WorldStep, HostStep

\* An active job of a process that only stops between two turns: it has a task while the
\* server is up, and a phase that recovery resumes or fails until its row is settled.
JobKept(j) ==
  ActiveJob(j) =>
    /\ proc = "up" => task[j] # "none"
    /\ phase[j] \in RecoverablePhase \cup {"none"} \/ task[j] \in {"settleOk", "settleErr"}
    /\ canceller[j] = "none"

NothingStranded == proc # "closing" /\ \A j \in Jobs : JobKept(j)

\* Without a graceful close, and with crashes between turns only, a step strands no job.
LEMMA KeptStep ==
  ASSUME ~CrashInTurn, ~GracefulClose
  PROVE  TypeOK /\ Control /\ NothingStranded /\ [Next]_vars => NothingStranded'
<1> SUFFICES ASSUME TypeOK, Control, NothingStranded, [Next]_vars PROVE NothingStranded'
  OBVIOUS
<1> USE JobsAssumption, PagesAssumption, KindsAssumption, StopsAssumption
<1> USE DEF TypeOK, Control, JobControl, NothingStranded, JobKept, ActiveJob, RecoverablePhase,
        Goto, rows, pages, runner, deletion, host, net,
        Page, AllKinds, ActiveRow, TerminalRow, RowStatus, Phase, TerminalRemote,
        RemoteStatus, AwaitPc, TurnPc, PagePc, PlainPc, EarlyPc
<1>1. ASSUME NEW j \in Jobs, InitializeState(j) PROVE NothingStranded'
  BY <1>1 DEF InitializeState, MarkPhase
<1>2. ASSUME NEW j \in Jobs, StartJob(j) PROVE NothingStranded'
  BY <1>2 DEF StartJob, ActiveJob
<1>3. ASSUME NEW j \in Jobs, CopyReusableRetryEvidence(j) PROVE NothingStranded'
  <2>1. /\ task[j] \in {"copy"} /\ task'[j] \in {"ocrStart", "settleErr"}
        /\ \A i \in Jobs \ {j} : task'[i] = task[i]
        /\ UNCHANGED <<row, phase, proc, canceller>>
    BY <1>3 DEF CopyReusableRetryEvidence
  <2>2. JobKept(j)'
    BY <2>1
  <2>3. ASSUME NEW i \in Jobs \ {j} PROVE JobKept(i)'
    BY <2>1
  <2> QED
    BY <2>1, <2>2, <2>3
<1>4. ASSUME NEW j \in Jobs, BeginOcr(j) PROVE NothingStranded'
  BY <1>4 DEF BeginOcr, MarkPhase
<1>5. ASSUME NEW j \in Jobs, CaptureUnreadable(j) PROVE NothingStranded'
  <2>1. /\ task[j] \in {"ocrStart", "request"} /\ task'[j] \in {"fail", "pageFail"}
        /\ \A i \in Jobs \ {j} : task'[i] = task[i]
        /\ UNCHANGED <<row, phase, proc, canceller>>
    BY <1>5 DEF CaptureUnreadable
  <2>2. JobKept(j)'
    BY <2>1
  <2>3. ASSUME NEW i \in Jobs \ {j} PROVE JobKept(i)'
    BY <2>1
  <2> QED
    BY <2>1, <2>2, <2>3
<1>6. ASSUME NEW j \in Jobs, MarkAiPending(j) PROVE NothingStranded'
  BY <1>6 DEF MarkAiPending, MarkPhase
<1>7. ASSUME NEW j \in Jobs, NextPage(j) PROVE NothingStranded'
  <2>1. /\ task[j] \in {"page"} /\ task'[j] \in {"page", "fail", "complete"}
        /\ \A i \in Jobs \ {j} : task'[i] = task[i]
        /\ UNCHANGED <<row, phase, proc, canceller>>
    BY <1>7 DEF NextPage
  <2>2. JobKept(j)'
    BY <2>1
  <2>3. ASSUME NEW i \in Jobs \ {j} PROVE JobKept(i)'
    BY <2>1
  <2> QED
    BY <2>1, <2>2, <2>3
<1>8. ASSUME NEW j \in Jobs, BeginPage(j) PROVE NothingStranded'
  BY <1>8 DEF BeginPage, PageDue, EnsureIdempotencyKey
<1>9. ASSUME NEW j \in Jobs, RequestPage(j) PROVE NothingStranded'
  <2>1. /\ task[j] \in {"request"} /\ task'[j] \in {"get", "post", "pageFail"}
        /\ \A i \in Jobs \ {j} : task'[i] = task[i]
        /\ phase'[j] \in {phase[j], "ai_running"} /\ \A i \in Jobs \ {j} : phase'[i] = phase[i]
        /\ UNCHANGED <<row, proc, canceller>>
    BY <1>9 DEF RequestPage, SendCreate, MarkPhase
  <2>2. JobKept(j)'
    BY <2>1
  <2>3. ASSUME NEW i \in Jobs \ {j} PROVE JobKept(i)'
    BY <2>1
  <2> QED
    BY <2>1, <2>2, <2>3
<1>10. ASSUME NEW j \in Jobs, CreateReply(j) PROVE NothingStranded'
  BY <1>10 DEF CreateReply
<1>11. ASSUME NEW j \in Jobs, CreateRetries(j) PROVE NothingStranded'
  <2>1. /\ task[j] \in {"post"} /\ task'[j] \in {"post", "pageFail"}
        /\ \A i \in Jobs \ {j} : task'[i] = task[i]
        /\ UNCHANGED <<row, phase, proc, canceller>>
    BY <1>11 DEF CreateRetries, SendCreate
  <2>2. JobKept(j)'
    BY <2>1
  <2>3. ASSUME NEW i \in Jobs \ {j} PROVE JobKept(i)'
    BY <2>1
  <2> QED
    BY <2>1, <2>2, <2>3
<1>12. ASSUME NEW j \in Jobs, BeginPolling(j) PROVE NothingStranded'
  BY <1>12 DEF BeginPolling, MarkPhase
<1>13. ASSUME NEW j \in Jobs, SettlePage(j) PROVE NothingStranded'
  BY <1>13 DEF SettlePage, RecordTerminal, SaveRemoteAnswer
<1>14. ASSUME NEW j \in Jobs, GetReply(j) PROVE NothingStranded'
  BY <1>14 DEF GetReply, RecordTerminal, SaveRemoteAnswer
<1>15. ASSUME NEW j \in Jobs, RecordPageFailure(j) PROVE NothingStranded'
  BY <1>15 DEF RecordPageFailure
<1>16. ASSUME NEW j \in Jobs, AbortRejects(j) PROVE NothingStranded'
  <2>1. /\ task[j] \in {"extract", "ocr", "post", "get"} /\ task'[j] \in {"settleErr", "pageFail"}
        /\ \A i \in Jobs \ {j} : task'[i] = task[i]
        /\ UNCHANGED <<row, phase, proc, canceller>>
    BY <1>16 DEF AbortRejects
  <2>2. JobKept(j)'
    BY <2>1
  <2>3. ASSUME NEW i \in Jobs \ {j} PROVE JobKept(i)'
    BY <2>1
  <2> QED
    BY <2>1, <2>2, <2>3
<1>17. ASSUME NEW j \in Jobs, MarkCompleted(j) PROVE NothingStranded'
  BY <1>17 DEF MarkCompleted, MarkPhase
<1>18. ASSUME NEW j \in Jobs, MarkFailed(j) PROVE NothingStranded'
  BY <1>18 DEF MarkFailed, MarkPhase
<1>19. ASSUME NEW j \in Jobs, CompleteRow(j) PROVE NothingStranded'
  <2>1. row'[j] \notin ActiveRow
    BY <1>19 DEF CompleteRow, SettleRow
  <2>2. \A i \in Jobs \ {j} : row'[i] = row[i] /\ task'[i] = task[i]
    BY <1>19 DEF CompleteRow, SettleRow, EndTask
  <2>3. UNCHANGED <<phase, proc, canceller>>
    BY <1>19 DEF CompleteRow
  <2> QED
    BY <2>1, <2>2, <2>3
<1>20. ASSUME NEW j \in Jobs, FailRow(j) PROVE NothingStranded'
  BY <1>20 DEF FailRow, EndTask, SettleRow
<1>21. ASSUME NEW j \in Jobs, PlainExtracted(j) PROVE NothingStranded'
  BY <1>21 DEF PlainExtracted
<1>22. ASSUME NEW j \in Jobs, RemoteCallFails(j) PROVE NothingStranded'
  BY <1>22 DEF RemoteCallFails
<1>23. ASSUME NEW j \in Jobs, DeleteJob(j) PROVE NothingStranded'
  BY <1>23 DEF DeleteJob, StopOcr, UnfinishedRemote, ActiveJob, IoEvent, LoopFree, InTurn
<1>24. ASSUME NEW j \in Jobs, CancelReply(j) PROVE NothingStranded'
  BY <1>24 DEF CancelReply, CancelAnswer, SaveRemoteAnswer
<1>25. ASSUME NEW j \in Jobs, CancelThrows(j) PROVE NothingStranded'
  BY <1>25 DEF CancelThrows
<1>26. ASSUME NEW j \in Jobs, MarkCancelled(j) PROVE NothingStranded'
  BY <1>26 DEF MarkCancelled, MarkPhase
<1>27. ASSUME NEW j \in Jobs, PruneJob(j) PROVE NothingStranded'
  BY <1>27 DEF PruneJob, ForgetDurable
<1>28. ASSUME NEW j \in Jobs, DeadlinePasses(j) PROVE NothingStranded'
  BY <1>28 DEF DeadlinePasses
<1>29. ASSUME NEW j \in Jobs, NEW k \in Kinds, NEW src \in Jobs \cup {NoJob}, CreateJob(j, k, src) PROVE NothingStranded'
  BY <1>29 DEF CreateJob
<1>30. ASSUME NEW j \in Jobs, NEW p \in Page, OcrDone(j, p) PROVE NothingStranded'
  BY <1>30 DEF OcrDone
<1>31. ASSUME NEW j \in Jobs, NEW p \in Page, OcrFails(j, p) PROVE NothingStranded'
  BY <1>31 DEF OcrFails
<1>32. ASSUME NEW j \in Jobs, NEW p \in Page, ProviderAccepts(j, p) PROVE NothingStranded'
  BY <1>32 DEF ProviderAccepts
<1>33. ASSUME NEW j \in Jobs, NEW p \in Page, ProviderFinishes(j, p) PROVE NothingStranded'
  BY <1>33 DEF ProviderFinishes
<1>34. ASSUME Close PROVE NothingStranded'
  BY <1>34 DEF Close, StopOcr
<1>35. ASSUME Exit PROVE NothingStranded'
  BY <1>35 DEF Exit, LoseMemory
<1>36. ASSUME Crash PROVE NothingStranded'
  BY <1>36 DEF Crash, LoseMemory, IoEvent, LoopFree, InTurn
<1>37. ASSUME NEW old \in SUBSET Jobs, Listen(old) PROVE NothingStranded'
  BY <1>37 DEF Listen, ForgetDurable, Recoverable, ActiveJob, RecoverablePhase
<1>38. CASE UNCHANGED vars
  BY <1>38 DEF vars
<1> QED
  BY <1>1, <1>2, <1>3, <1>4, <1>5, <1>6, <1>7, <1>8, <1>9, <1>10, <1>11, <1>12, <1>13, <1>14,
       <1>15, <1>16, <1>17, <1>18, <1>19, <1>20, <1>21, <1>22, <1>23, <1>24, <1>25, <1>26,
       <1>27, <1>28, <1>29, <1>30, <1>31, <1>32, <1>33, <1>34, <1>35, <1>36, <1>37, <1>38
     DEF Next, TaskStep, TaskProgress, ApiStep, WorldStep, HostStep

--------------------------------------------------------------------------------
(* The theorems. *)

\* Every reachable state satisfies both inductive invariants.
THEOREM EvidenceInvariance == Spec => [](IInv /\ Evidence)
<1>1. Init => Evidence
  BY JobsAssumption, PagesAssumption
     DEF Init, Evidence, ResultSources, QueuedIsUntouched, CopiedFromSource, CancelledIsAborted,
         WorkPc, PagePc
<1>2. Evidence /\ IInv /\ [Next]_vars => Evidence'
  BY ResultStep, QueuedStep, CopiedStep, AbortedStep DEF Evidence
<1>3. IInv /\ [Next]_vars => IInv'
  BY TypeStep, ControlStep, CoverageStep, AnchorStep, FreshStep DEF IInv
<1> QED
  BY InvInit, <1>1, <1>2, <1>3, PTL DEF Spec

\* A checkpointed result is the provider's own answer, or was taken over by an explicit
\* retry for a page that was never asked for, wherever the process stops.
THEOREM ResultsInvariant == Spec => []ResultsAreRemoteTruth
<1>1. Evidence => ResultsAreRemoteTruth
  BY DEF Evidence, ResultSources, ResultsAreRemoteTruth
<1> QED
  BY EvidenceInvariance, <1>1, PTL

\* Whenever the copy of a retry runs, for the first time or again after a crash, the
\* target holds nothing its source does not hold and has asked the provider for nothing.
THEOREM RetryCopyInvariant == Spec => []RetryCopyIsRepeatable
<1>1. IInv /\ Evidence => RetryCopyIsRepeatable
  <2> SUFFICES ASSUME IInv, Evidence, NEW j \in Jobs, task[j] = "copy", phase[retryOf[j]] = "failed"
               PROVE  /\ keySaved[j] = {} /\ bound[j] = {}
                      /\ ocrSaved[j] \subseteq ocrSaved[retryOf[j]]
                      /\ resultSaved[j] = {p \in Page : status[j][p] = "completed"}
                      /\ resultSaved[j] \subseteq ReusableResults(retryOf[j])
    BY DEF RetryCopyIsRepeatable
  <2>1. phase[j] = "queued"
    BY DEF Evidence, QueuedIsUntouched
  <2>2. retryOf[j] \in Jobs /\ row[retryOf[j]] # "pruned"
    BY DEF IInv, TypeOK, Control, JobControl, Anchors, JobAnchors
  <2> QED
    BY <2>1, <2>2 DEF Evidence, QueuedIsUntouched, CopiedFromSource
<1> QED
  BY EvidenceInvariance, <1>1, PTL

\* After a DELETE was answered, the task of the cancelled job starts no OCR, sends no
\* create and begins no get, wherever its run was interrupted.
THEOREM CancelledJobFallsSilent == Spec => CancelledJobIsSilent
<1>1. IInv /\ Evidence /\ [Next]_vars =>
        [\A j \in Jobs : row[j] = "cancelled" =>
           /\ \A p \in Page : <<j, p>> \notin wire' \ wire
           /\ ocrBusy'[j] \subseteq ocrBusy[j]
           /\ task'[j] \in {"post", "get"} => task[j] = task'[j]]_vars
  BY SilentStep
<1> QED
  BY EvidenceInvariance, <1>1, PTL DEF Spec, CancelledJobIsSilent

\* As long as the process stops only between two turns and is never closed gracefully,
\* every job shown as queued or running has a task whenever the server is up.
THEOREM ActiveJobIsWorkedOn ==
  ASSUME ~CrashInTurn, ~GracefulClose
  PROVE  Spec => []ActiveJobHasTask
<1>1. Init => NothingStranded
  BY DEF Init, NothingStranded, JobKept, ActiveJob, ActiveRow
<1>2. IInv /\ NothingStranded /\ [Next]_vars => NothingStranded'
  BY KeptStep DEF IInv
<1>3. NothingStranded => ActiveJobHasTask
  BY DEF NothingStranded, JobKept, ActiveJobHasTask
<1> QED
  BY Invariance, <1>1, <1>2, <1>3, PTL DEF Spec
================================================================================
