----------------------------- MODULE ApplicationLog -----------------------------
(***************************************************************************)
(* The log of the gateway: ApplicationLogStore and its rotation, the       *)
(* duplicates ApplicationLogger holds back, and the batches of the client, *)
(* whose rate is limited by a window that is opened before the body of the *)
(* request is read. An event is its number in the order of writing.        *)
(***************************************************************************)
EXTENDS Naturals, Sequences

CONSTANTS
  LogRequests,   \* requests to /api/v1/logs/client that may be open together
  LogKeys,       \* what makes two events of the logger the same
  MaxLines,
  MaxFiles,
  MaxPerMinute,  \* MAX_CLIENT_LOGS_PER_MINUTE
  Batches,       \* sizes of a batch of the client
  DuplicateWindow, \* duplicateWindowMs
  LogWindow,       \* the minute of MaxPerMinute
  MaxEvents,     \* bound on the events ever written
  MaxTime        \* bound on the clock

ASSUME LogAssumption ==
  /\ MaxLines \in Nat \ {0} /\ MaxFiles \in Nat \ {0, 1} /\ MaxPerMinute \in Nat
  /\ Batches \subseteq Nat /\ DuplicateWindow \in Nat /\ LogWindow \in Nat
  /\ MaxEvents \in Nat /\ MaxTime \in Nat

VARIABLES
  logFiles,     \* application.ndjson is the first, then its archives
  lineCount,    \* #lineCount
  events,       \* how many events were written to the store
  duplicates,   \* #duplicates: when each key was seen last, and how often since it was logged
  calls,        \* of each key, how often it was logged, and how many of these the log shows
  window,       \* #clientLogWindowStarted and #clientLogCount
  openBatches,  \* of each request, the size of the batch whose body is being read, and the count it saw
  clock

logVars == <<logFiles, lineCount, events, duplicates, calls, window, openBatches, clock>>

NoBatch == [size |-> 0, seen |-> 0]

LogInit ==
  /\ logFiles = [i \in 1 .. MaxFiles |-> <<>>] /\ lineCount = 0 /\ events = 0
  /\ duplicates = [k \in LogKeys |-> [at |-> 0, count |-> 0, known |-> FALSE]]
  /\ calls = [k \in LogKeys |-> [made |-> 0, shown |-> 0]]
  /\ window = [started |-> 0, count |-> 0]
  /\ openBatches = [r \in LogRequests |-> NoBatch]
  /\ clock = 0

--------------------------------------------------------------------------------

\* rotate: the oldest is removed, each archive moves one on.
Rotated(files) == [i \in 1 .. MaxFiles |-> IF i = 1 THEN <<>> ELSE files[i - 1]]

\* loadCurrentCounters
CountLines(files) == Len(files[1])

\* append of n events, numbered from the first that is free. The limit on bytes
\* rotates in the same way as the limit on lines.
Appended(n) ==
  LET store[k \in 0 .. n] ==
        IF k = 0 THEN [files |-> logFiles, lines |-> lineCount]
        ELSE LET before == store[k - 1]
                 full   == before.lines + 1 > MaxLines
                 files  == IF full THEN Rotated(before.files) ELSE before.files
             IN [files |-> [files EXCEPT ![1] = Append(@, events + k)],
                 lines |-> (IF full THEN 0 ELSE before.lines) + 1]
  IN store[n]

AppendEvents(n) ==
  /\ events + n <= MaxEvents
  /\ logFiles' = Appended(n).files /\ lineCount' = Appended(n).lines
  /\ events' = events + n

\* A duplicate inside the window moves the window on.
CountDuplicate(k) == [duplicates[k] EXCEPT !.at = clock, !.count = @ + 1]

\* ApplicationLogger.write; an event that is logged says how many were held back.
WriteEvent(k) ==
  /\ calls[k].made < MaxEvents
  /\ IF duplicates[k].known /\ clock - duplicates[k].at <= DuplicateWindow
     THEN /\ duplicates' = [duplicates EXCEPT ![k] = CountDuplicate(k)]
          /\ calls' = [calls EXCEPT ![k].made = @ + 1]
          /\ UNCHANGED <<logFiles, lineCount, events>>
     ELSE /\ AppendEvents(1)
          /\ calls' = [calls EXCEPT ![k].made = @ + 1, ![k].shown = @ + 1 + duplicates[k].count]
          /\ duplicates' = [duplicates EXCEPT ![k] = [at |-> clock, count |-> 0, known |-> TRUE]]
  /\ UNCHANGED <<window, openBatches, clock>>

\* ingestClientLogs up to the await: the window may start anew.
ClientLogsArrive(r, n) ==
  /\ openBatches[r] = NoBatch
  /\ LET anew == clock - window.started >= LogWindow
     IN /\ window' = IF anew THEN [started |-> clock, count |-> 0] ELSE window
        /\ openBatches' = [openBatches EXCEPT ![r] = [size |-> n, seen |-> window'.count]]
  /\ UNCHANGED <<logFiles, lineCount, events, duplicates, calls, clock>>

\* Mutant: the count is the one read before the body.
CountSeen(r) == openBatches[r].seen

\* #clientLogCount, after the body is read.
CountNow(r) == window.count

\* The body is read: the batch is taken as a whole or refused; an event that is
\* not well formed is left out, and not counted.
ClientLogsRead(r, valid) ==
  LET n == openBatches[r].size IN
  /\ n > 0 /\ valid <= n
  /\ openBatches' = [openBatches EXCEPT ![r] = NoBatch]
  /\ IF CountNow(r) + n > MaxPerMinute
     THEN UNCHANGED <<logFiles, lineCount, events, window>>
     ELSE /\ AppendEvents(valid)
          /\ window' = [window EXCEPT !.count = @ + valid]
  /\ UNCHANGED <<duplicates, calls, clock>>

\* The process starts again: what the logger held back is forgotten.
RestartLog ==
  /\ lineCount' = CountLines(logFiles)
  /\ duplicates' = [k \in LogKeys |-> [at |-> 0, count |-> 0, known |-> FALSE]]
  /\ calls' = [k \in LogKeys |-> [calls[k] EXCEPT !.made = calls[k].shown]]
  /\ window' = [started |-> 0, count |-> 0]
  /\ openBatches' = [r \in LogRequests |-> NoBatch]
  /\ UNCHANGED <<logFiles, events, clock>>

LogTick ==
  /\ clock < MaxTime
  /\ clock' = clock + 1
  /\ UNCHANGED <<logFiles, lineCount, events, duplicates, calls, window, openBatches>>

LogNext ==
  \/ \E k \in LogKeys : WriteEvent(k)
  \/ \E r \in LogRequests, n \in Batches : ClientLogsArrive(r, n)
  \/ \E r \in LogRequests, valid \in Batches \cup {0} : ClientLogsRead(r, valid)
  \/ RestartLog
  \/ LogTick

LogSpec == LogInit /\ [][LogNext]_logVars

--------------------------------------------------------------------------------

\* What tail reads: the archives from the last, then the current file.
ReadTail ==
  LET joined[i \in 0 .. MaxFiles] ==
        IF i = 0 THEN <<>> ELSE joined[i - 1] \o logFiles[MaxFiles + 1 - i]
  IN joined[MaxFiles]

LogTypeOK ==
  /\ logFiles \in [1 .. MaxFiles -> Seq(1 .. MaxEvents)] /\ lineCount \in Nat
  /\ events \in 0 .. MaxEvents
  /\ duplicates \in [LogKeys -> [at : 0 .. MaxTime, count : Nat, known : BOOLEAN]]
  /\ calls \in [LogKeys -> [made : Nat, shown : Nat]]
  /\ window \in [started : 0 .. MaxTime, count : Nat]
  /\ openBatches \in [LogRequests -> [size : Batches \cup {0}, seen : Nat]]
  /\ clock \in 0 .. MaxTime

\* The files hold the newest events, in order and without a gap, through
\* rotations and restarts: what rotation drops is the oldest file.
LogIsSuffix ==
  /\ ReadTail = [i \in 1 .. Len(ReadTail) |-> events - Len(ReadTail) + i]
  /\ events > Len(ReadTail) => Len(ReadTail) > (MaxFiles - 1) * MaxLines

\* No file outgrows its limit, whenever the process was started again.
LogFileBounded == \A i \in 1 .. MaxFiles : Len(logFiles[i]) <= MaxLines

\* Every event of a key is shown or is counted with the next one that is.
DuplicatesAccounted ==
  \A k \in LogKeys : calls[k].made = calls[k].shown + duplicates[k].count

\* The client cannot have more taken in a window than its limit, however many
\* requests read their bodies while the window is opened and filled.
ClientLogsLimited == window.count <= MaxPerMinute

\* The log is complete up to what rotation drops, bounded, and counts what it holds back.
LogSound == LogIsSuffix /\ LogFileBounded /\ DuplicatesAccounted /\ ClientLogsLimited

================================================================================
