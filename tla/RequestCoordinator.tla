--------------------------- MODULE RequestCoordinator ---------------------------
(***************************************************************************)
(* The coordinator every request of the web client to its own server goes  *)
(* through. A bucket is a method and a path. The mutations of a bucket run *)
(* one after the other, in the order of their calls; the starts of a       *)
(* bucket are at least the throttle apart; and a read like one in flight   *)
(* shares its answer. The promise chains mutationTail and startTail are    *)
(* the last call of each chain, and each call knows the one ahead of it.   *)
(***************************************************************************)
EXTENDS Integers

CONSTANTS
  Calls,      \* calls of request
  Buckets,    \* methods and paths
  Kind,       \* of a bucket: "read", "mutation", "parallel" or "free"
  Queries,    \* what tells the reads of a bucket apart
  NoCall,     \* the end of a promise chain; no identity
  Throttle,   \* throttleMs
  MaxClock    \* bound on the clock when no call waits

ASSUME CoordinatorAssumption ==
  /\ Buckets # {} /\ Kind \in [Buckets -> {"read", "mutation", "parallel", "free"}]
  /\ NoCall \notin Calls /\ NoCall \notin Queries
  /\ Throttle \in Nat /\ MaxClock \in Nat

VARIABLES
  phase,          \* of each call
  bucket,         \* of each call
  identity,       \* what a coalescible read asks for
  leader,         \* the read in flight that a call joined
  signalled,      \* the calls whose signal was aborted
  ahead,          \* the mutation that a mutation waits for
  startAhead,     \* the call whose start the start of a call waits for
  nth,            \* the order of the calls
  turn,           \* the order of the starts
  due,            \* when the wait of a call ends
  startedAt,      \* when a call was started
  mutationTail, startTail, lastStartedAt,   \* of each bucket
  inFlightReads,  \* of each bucket and identity, the read that is shared
  moment,
  issued, queuedStarts   \* how many calls and starts there have been

coordinatorVars == <<phase, bucket, identity, leader, signalled, ahead, startAhead, nth, turn, due, startedAt,
                     mutationTail, startTail, lastStartedAt, inFlightReads, moment, issued, queuedStarts>>

Never == 0 - Throttle    \* of a bucket without starts: no wait is due

Phases == {"idle", "queued", "starting", "waiting", "sent", "joined", "answered", "failed"}

CoordinatorInit ==
  /\ phase = [q \in Calls |-> "idle"]
  /\ bucket = [q \in Calls |-> CHOOSE b \in Buckets : TRUE]
  /\ identity = [q \in Calls |-> NoCall] /\ leader = [q \in Calls |-> NoCall]
  /\ signalled = {}
  /\ ahead = [q \in Calls |-> NoCall] /\ startAhead = [q \in Calls |-> NoCall]
  /\ nth = [q \in Calls |-> 0] /\ turn = [q \in Calls |-> 0]
  /\ due = [q \in Calls |-> 0] /\ startedAt = [q \in Calls |-> Never]
  /\ mutationTail = [b \in Buckets |-> NoCall] /\ startTail = [b \in Buckets |-> NoCall]
  /\ lastStartedAt = [b \in Buckets |-> Never]
  /\ inFlightReads = [b \in Buckets |-> [i \in Queries |-> NoCall]]
  /\ moment = 0 /\ issued = 0 /\ queuedStarts = 0

--------------------------------------------------------------------------------

Over(q)      == phase[q] \in {"answered", "failed"}
Mutation(q)  == phase[q] # "idle" /\ Kind[bucket[q]] = "mutation"
\* The promise of its start is fulfilled.
Started(q)   == startedAt[q] # Never
\* It is settled, whether the call started or not.
StartOver(q) == phase[q] \in {"sent", "answered", "failed"}

StartDone(q)    == q # NoCall => StartOver(q)
MutationDone(q) == q # NoCall => Over(q)

Elapsed(b) == moment - lastStartedAt[b]

\* The read is shared until it settles.
Unshared(q) ==
  [b \in Buckets |-> [i \in Queries |-> IF inFlightReads[b][i] = q THEN NoCall ELSE inFlightReads[b][i]]]

\* scheduleStart: the start of the call goes behind those of its bucket.
ScheduleStart(q, b) ==
  /\ phase' = [phase EXCEPT ![q] = "starting"]
  /\ startAhead' = [startAhead EXCEPT ![q] = startTail[b]]
  /\ startTail' = [startTail EXCEPT ![b] = q]
  /\ queuedStarts' = queuedStarts + 1
  /\ turn' = [turn EXCEPT ![q] = queuedStarts + 1]

\* A request that goes out by itself: calculate-line is not throttled.
Execute(q, b) ==
  IF Kind[b] = "free"
    THEN /\ phase' = [phase EXCEPT ![q] = "sent"]
         /\ UNCHANGED <<startAhead, startTail, queuedStarts, turn>>
    ELSE ScheduleStart(q, b)

Identities(b) == IF Kind[b] = "read" THEN Queries \cup {NoCall} ELSE {NoCall}

\* The calls are alike: the next one is any that is idle.
IsNext(q) == phase[q] = "idle" /\ q = CHOOSE p \in Calls : phase[p] = "idle"

\* request: a read with a signal has no identity, and is not shared.
Issue(q, b, i) ==
  /\ IsNext(q)
  /\ bucket' = [bucket EXCEPT ![q] = b]
  /\ identity' = [identity EXCEPT ![q] = i]
  /\ issued' = issued + 1
  /\ nth' = [nth EXCEPT ![q] = issued + 1]
  /\ IF Kind[b] = "mutation"
       THEN /\ phase' = [phase EXCEPT ![q] = "queued"]
            /\ ahead' = [ahead EXCEPT ![q] = mutationTail[b]]
            /\ mutationTail' = [mutationTail EXCEPT ![b] = q]
            /\ UNCHANGED <<startAhead, startTail, queuedStarts, turn>>
       ELSE Execute(q, b) /\ UNCHANGED <<ahead, mutationTail>>
  /\ inFlightReads' = IF i = NoCall THEN inFlightReads ELSE [inFlightReads EXCEPT ![b][i] = q]
  /\ UNCHANGED <<leader, signalled, due, startedAt, lastStartedAt, moment>>

Lead(q, b, i) ==
  /\ i \in Queries => inFlightReads[b][i] = NoCall
  /\ Issue(q, b, i)

\* request finds a read like it in flight.
Join(q, b, i) ==
  /\ IsNext(q) /\ i \in Queries /\ inFlightReads[b][i] # NoCall
  /\ phase' = [phase EXCEPT ![q] = "joined"]
  /\ bucket' = [bucket EXCEPT ![q] = b]
  /\ identity' = [identity EXCEPT ![q] = i]
  /\ leader' = [leader EXCEPT ![q] = inFlightReads[b][i]]
  /\ UNCHANGED <<signalled, ahead, startAhead, nth, turn, due, startedAt, mutationTail, startTail, lastStartedAt,
                 inFlightReads, moment, issued, queuedStarts>>

\* The mutation ahead is settled.
MutationTurn(q) ==
  /\ phase[q] = "queued" /\ MutationDone(ahead[q])
  /\ ScheduleStart(q, bucket[q])
  /\ UNCHANGED <<bucket, identity, leader, signalled, ahead, nth, due, startedAt, mutationTail, lastStartedAt,
                 inFlightReads, moment, issued>>

\* The call has its turn to start: fetch is called.
BeginFetch(q) ==
  /\ phase' = [phase EXCEPT ![q] = "sent"]
  /\ startedAt' = [startedAt EXCEPT ![q] = moment]
  /\ lastStartedAt' = [lastStartedAt EXCEPT ![bucket[q]] = moment]
  /\ UNCHANGED <<due, inFlightReads>>

\* throwIfAborted, and the wait that the signal interrupts.
AbandonStart(q) ==
  /\ phase' = [phase EXCEPT ![q] = "failed"]
  /\ inFlightReads' = Unshared(q)
  /\ UNCHANGED <<startedAt, lastStartedAt, due>>

\* The start ahead is settled: scheduleStart goes on.
StartTurn(q) ==
  /\ phase[q] = "starting" /\ StartDone(startAhead[q])
  /\ \/ q \in signalled /\ AbandonStart(q)
     \/ q \notin signalled /\ Elapsed(bucket[q]) >= Throttle /\ BeginFetch(q)
     \/ /\ q \notin signalled /\ Elapsed(bucket[q]) < Throttle
        /\ phase' = [phase EXCEPT ![q] = "waiting"]
        /\ due' = [due EXCEPT ![q] = lastStartedAt[bucket[q]] + Throttle]
        /\ UNCHANGED <<startedAt, lastStartedAt, inFlightReads>>
  /\ UNCHANGED <<bucket, identity, leader, signalled, ahead, startAhead, nth, turn, mutationTail, startTail, moment,
                 issued, queuedStarts>>

\* The wait ends, by its timer or by the signal.
WaitEnds(q) ==
  /\ phase[q] = "waiting"
  /\ \/ q \in signalled /\ AbandonStart(q)
     \/ q \notin signalled /\ moment >= due[q] /\ BeginFetch(q)
  /\ UNCHANGED <<bucket, identity, leader, signalled, ahead, startAhead, nth, turn, mutationTail, startTail, moment,
                 issued, queuedStarts>>

\* fetch settles.
FetchSettles(q, answer) ==
  /\ phase[q] = "sent"
  /\ phase' = [phase EXCEPT ![q] = answer]
  /\ inFlightReads' = Unshared(q)
  /\ UNCHANGED <<bucket, identity, leader, signalled, ahead, startAhead, nth, turn, due, startedAt, mutationTail,
                 startTail, lastStartedAt, moment, issued, queuedStarts>>

\* A joined call gets a clone of the answer, or the same error.
JoinedSettles(q) ==
  /\ phase[q] = "joined" /\ Over(leader[q])
  /\ phase' = [phase EXCEPT ![q] = phase[leader[q]]]
  /\ UNCHANGED <<bucket, identity, leader, signalled, ahead, startAhead, nth, turn, due, startedAt, mutationTail,
                 startTail, lastStartedAt, inFlightReads, moment, issued, queuedStarts>>

\* The signal of a call is aborted: only a call without identity has one.
AbortCall(q) ==
  /\ phase[q] \in {"queued", "starting", "waiting", "sent"} /\ identity[q] = NoCall
  /\ signalled' = signalled \cup {q}
  /\ UNCHANGED <<phase, bucket, identity, leader, ahead, startAhead, nth, turn, due, startedAt, mutationTail,
                 startTail, lastStartedAt, inFlightReads, moment, issued, queuedStarts>>

\* Time passes, up to the bound and the end of the waits.
Tick ==
  /\ moment < MaxClock \/ \E q \in Calls : phase[q] = "waiting" /\ moment < due[q]
  /\ moment' = moment + 1
  /\ UNCHANGED <<phase, bucket, identity, leader, signalled, ahead, startAhead, nth, turn, due, startedAt,
                 mutationTail, startTail, lastStartedAt, inFlightReads, issued, queuedStarts>>

Goes(q) == MutationTurn(q) \/ StartTurn(q) \/ WaitEnds(q) \/ JoinedSettles(q)

FetchEnds(q) == \E answer \in {"answered", "failed"} : FetchSettles(q, answer)

\* What goes on by itself.
CoordinatorStep == Tick \/ \E q \in Calls : Goes(q) \/ FetchEnds(q)

CoordinatorNext ==
  \/ \E q \in Calls :
       \/ \E b \in Buckets : \E i \in Identities(b) : Lead(q, b, i) \/ Join(q, b, i)
       \/ AbortCall(q)
  \/ CoordinatorStep

CoordinatorSpec == CoordinatorInit /\ [][CoordinatorNext]_coordinatorVars

--------------------------------------------------------------------------------

CoordinatorTypeOK ==
  /\ phase \in [Calls -> Phases] /\ bucket \in [Calls -> Buckets]
  /\ identity \in [Calls -> Queries \cup {NoCall}]
  /\ leader \in [Calls -> Calls \cup {NoCall}]
  /\ signalled \subseteq Calls
  /\ ahead \in [Calls -> Calls \cup {NoCall}] /\ startAhead \in [Calls -> Calls \cup {NoCall}]
  /\ nth \in [Calls -> Nat] /\ turn \in [Calls -> Nat]
  /\ due \in [Calls -> Int] /\ startedAt \in [Calls -> Int]
  /\ mutationTail \in [Buckets -> Calls \cup {NoCall}] /\ startTail \in [Buckets -> Calls \cup {NoCall}]
  /\ lastStartedAt \in [Buckets -> Int]
  /\ inFlightReads \in [Buckets -> [Queries -> Calls \cup {NoCall}]]
  /\ moment \in Nat /\ issued \in Nat /\ queuedStarts \in Nat

\* A mutation goes out only once the mutations of its bucket called before it
\* are settled.
MutationsInOrder ==
  \A p, q \in Calls :
    Mutation(p) /\ Mutation(q) /\ bucket[p] = bucket[q] /\ nth[p] < nth[q] /\ phase[q] # "queued" => Over(p)

\* The starts of a bucket are the throttle apart.
StartsSpaced ==
  \A p, q \in Calls :
    Started(p) /\ Started(q) /\ bucket[p] = bucket[q] /\ turn[p] < turn[q] => startedAt[q] - startedAt[p] >= Throttle

\* Of the reads with one identity, one is in flight: the one later calls join.
OneReadInFlight ==
  \A q \in Calls :
    phase[q] \in {"starting", "waiting", "sent"} /\ identity[q] # NoCall
      => inFlightReads[bucket[q]][identity[q]] = q

Unsettled(q) == phase[q] \notin {"idle", "answered", "failed"}

\* What a call waits for is there, or comes from outside: an answer, the end of a wait.
CanGoOn(q) ==
  \/ phase[q] \in {"waiting", "sent"}
  \/ phase[q] = "queued" /\ MutationDone(ahead[q])
  \/ phase[q] = "starting" /\ StartDone(startAhead[q])
  \/ phase[q] = "joined" /\ Over(leader[q])

\* While a call of a bucket is not settled, one of that bucket can go on: no start, mutation
\* or shared read that fails or is aborted holds up for ever those behind it.
NoCallStuck ==
  \A b \in Buckets : (\E q \in Calls : bucket[q] = b /\ Unsettled(q)) => \E q \in Calls : bucket[q] = b /\ CanGoOn(q)

\* What the coordinator promises: mutations of one resource arrive in order, no
\* resource is asked faster than the throttle, equal reads are one request, and no call is
\* left waiting.
CoordinatorSound == MutationsInOrder /\ StartsSpaced /\ OneReadInFlight /\ NoCallStuck
================================================================================
