----------------------------- MODULE ResponseSlots -----------------------------
(***************************************************************************)
(* The response slots of ReceiptResponsesClient, as the durable runner and *)
(* the settings use them. A create waits in a queue until fewer responses  *)
(* are unfinished than the settings allow, takes a slot, and gives it back *)
(* when the client sees its response end. The server keeps one current     *)
(* client, replaced when the provider settings change or after a           *)
(* hibernation; a call goes to the client that is current when it is made. *)
(***************************************************************************)
EXTENDS Naturals, Sequences, FiniteSets

CONSTANTS
  Callers,           \* jobs, each working on one page
  Providers,         \* values of the provider settings
  MaxLimit,          \* RUNTIME_AI_RECEIPT_VALIDATION_CONCURRENCY_MAX
  MaxClients,        \* bound on the clients the server makes
  MaxChanges,        \* bound on the changes of the settings
  Deadlines,         \* callers whose deadline may pass
  GetsMayFail,       \* may a get or a cancel end in an error that is not retried
  ProviderMayChange  \* may the settings change to another provider

ASSUME CallersAssumption == IsFiniteSet(Callers) /\ Deadlines \subseteq Callers
ASSUME BoundsAssumption  == MaxLimit \in Nat \ {0} /\ MaxClients \in Nat \ {0} /\ MaxChanges \in Nat
ASSUME SwitchAssumption  == GetsMayFail \in BOOLEAN /\ ProviderMayChange \in BOOLEAN

Client == 1 .. MaxClients
Status == {"none", "pending", "ended"}

VARIABLES
  setting,   \* aiReceiptValidationConcurrency in the settings
  provider,  \* provider identity in the settings
  changes,   \* changes of the settings so far
  made,      \* providers of the clients made so far, in order
  current,   \* #receiptResponsesClient, 0 when there is none
  limit, active, queue, held,  \* of each client; held: #responseSlotReleases
  pc,        \* where each caller is
  at,        \* client of the caller's last call, 0 before the first
  home,      \* provider that holds the caller's response
  remote,    \* status of that response
  expired    \* callers whose deadline has passed

settings == <<setting, provider, changes>>
slots    == <<active, queue>>
vars     == <<settings, made, current, limit, slots, held, pc, at, home, remote, expired>>

TypeOK ==
  /\ setting \in 1 .. MaxLimit
  /\ provider \in Providers
  /\ changes \in 0 .. MaxChanges
  /\ made \in Seq(Providers) /\ Len(made) <= MaxClients
  /\ current \in 0 .. Len(made)
  /\ limit \in [Client -> 1 .. MaxLimit]
  /\ active \in [Client -> 0 .. Cardinality(Callers)]
  /\ queue \in [Client -> Seq(Callers)]
  /\ held \in [Client -> SUBSET Callers]
  /\ pc \in [Callers -> {"idle", "waiting", "posting", "retry", "poll", "getting",
                         "cancel", "cancelling", "done"}]
  /\ at \in [Callers -> 0 .. Len(made)]
  /\ home \in [Callers -> Providers]
  /\ remote \in [Callers -> Status]
  /\ expired \subseteq Deadlines

\* A page that was under way when the process started again already has its response.
Init ==
  /\ setting \in 1 .. MaxLimit
  /\ provider \in Providers
  /\ changes = 0
  /\ made = <<>>
  /\ current = 0
  /\ limit = [c \in Client |-> 1]
  /\ active = [c \in Client |-> 0]
  /\ queue = [c \in Client |-> <<>>]
  /\ held = [c \in Client |-> {}]
  /\ pc = [p \in Callers |-> "idle"]
  /\ at = [p \in Callers |-> 0]
  /\ home = [p \in Callers |-> provider]
  /\ remote \in [Callers -> {"none", "pending"}]
  /\ expired = {}

--------------------------------------------------------------------------------

FreeSlots(a, lim) == IF a < lim THEN lim - a ELSE 0

\* scheduleResponseSlots of client c, whose queue, use and limit have become q, a and
\* lim, when the program counters have become pcs.
Schedule(c, q, a, lim, pcs) ==
  LET n == IF FreeSlots(a, lim) < Len(q) THEN FreeSlots(a, lim) ELSE Len(q) IN
  /\ limit' = [limit EXCEPT ![c] = lim]
  /\ active' = [active EXCEPT ![c] = a + n]
  /\ queue' = [queue EXCEPT ![c] = SubSeq(q, n + 1, Len(q))]
  /\ pc' = [p \in Callers |-> IF \E i \in 1 .. n : q[i] = p THEN "posting" ELSE pcs[p]]

\* getReceiptResponsesClient: the client a call made now goes to.
Fresh == current = 0 \/ made[current] # provider

Target == IF Fresh THEN Len(made) + 1 ELSE current

UseClient ==
  /\ Target \in Client
  /\ made' = IF Fresh THEN Append(made, provider) ELSE made
  /\ current' = Target

\* Mutant: the newest waiter first.
EnqueueFirst(q, p) == <<p>> \o q

Enqueue(q, p) == Append(q, p)

\* A get or a cancel: setMaxConcurrentResponses, then the request.
Request(c, p, to) == Schedule(c, queue[c], active[c], setting, [pc EXCEPT ![p] = to])

\* Mutant: the slot of an ended response stays taken.
KeepSlot(c, p, to) ==
  /\ held' = [held EXCEPT ![c] = @ \ {p}]
  /\ pc' = [pc EXCEPT ![p] = to]
  /\ UNCHANGED <<limit, slots>>

\* releaseResponseSlotIfTerminal on client c: a no-op when c does not hold the slot.
ReleaseHeld(c, p, to) ==
  /\ held' = [held EXCEPT ![c] = @ \ {p}]
  /\ Schedule(c, queue[c], IF p \in held[c] THEN active[c] - 1 ELSE active[c], limit[c],
              [pc EXCEPT ![p] = to])

\* The release of a create that failed, or whose response had already ended.
ReleasePosting(p, to) ==
  Schedule(at[p], queue[at[p]], active[at[p]] - 1, limit[at[p]], [pc EXCEPT ![p] = to])

--------------------------------------------------------------------------------
(* The runner's calls.                                                     *)

\* ensureRemotePage of a page whose response is known from before the start.
Resume(p) ==
  /\ pc[p] = "idle" /\ remote[p] # "none"
  /\ pc' = [pc EXCEPT ![p] = "poll"]
  /\ UNCHANGED <<settings, made, current, limit, slots, held, at, home, remote, expired>>

\* create(): the wait for a slot of the current client.
Create(p) ==
  /\ pc[p] \in {"idle", "retry"} /\ (pc[p] = "idle" => remote[p] = "none")
  /\ p \notin expired
  /\ UseClient
  /\ Schedule(Target, Enqueue(queue[Target], p), active[Target], setting,
              [pc EXCEPT ![p] = "waiting"])
  /\ at' = [at EXCEPT ![p] = Target]
  /\ UNCHANGED <<settings, held, home, remote, expired>>

\* assertBeforeDeadline: no create, no further one, after the deadline.
GiveUp(p) ==
  /\ pc[p] \in {"idle", "retry"} /\ (pc[p] = "idle" => remote[p] = "none")
  /\ p \in expired
  /\ pc' = [pc EXCEPT ![p] = "done"]
  /\ UNCHANGED <<settings, made, current, limit, slots, held, at, home, remote, expired>>

\* What an answer tells of the response, and what the caller does when there is none: its
\* status or the failure it is mapped to says so.
Reported     == {"pending", "ended"}
AfterFailure == {"retry", "done"}

\* The provider answers with the response of the key: a new one, or one it has.
PostReply(p) ==
  /\ pc[p] = "posting"
  /\ home' = [home EXCEPT ![p] = made[at[p]]]
  /\ \E s \in Reported :
       /\ remote[p] = "ended" /\ home[p] = made[at[p]] => s = "ended"
       /\ remote' = [remote EXCEPT ![p] = s]
       /\ \/ s = "ended" /\ ReleasePosting(p, "done") /\ UNCHANGED held
          \/ /\ s = "pending"
             /\ held' = [held EXCEPT ![at[p]] = @ \cup {p}]
             /\ pc' = [pc EXCEPT ![p] = "poll"]
             /\ UNCHANGED <<limit, slots>>
  /\ UNCHANGED <<settings, made, current, at, expired>>

\* The call fails, on its way or after the provider took it; the runner repeats it if
\* the error is retryable.
PostFails(p) ==
  /\ pc[p] = "posting"
  /\ \E to \in AfterFailure : ReleasePosting(p, to)
  /\ \/ UNCHANGED <<home, remote>>
     \/ /\ remote[p] = "none" \/ home[p] # made[at[p]]
        /\ home' = [home EXCEPT ![p] = made[at[p]]]
        /\ remote' = [remote EXCEPT ![p] = "pending"]
  /\ UNCHANGED <<settings, made, current, held, at, expired>>

\* get() and cancel() of a response whose slot the client may hold.
Call(p, from, to) ==
  /\ pc[p] = from
  /\ UseClient
  /\ Request(Target, p, to)
  /\ at' = [at EXCEPT ![p] = Target]
  /\ UNCHANGED <<settings, held, home, remote, expired>>

Get(p)    == Call(p, "poll", "getting")
Cancel(p) == Call(p, "cancel", "cancelling")

\* The provider that holds the response answers the get.
GetReply(p) ==
  /\ pc[p] = "getting" /\ made[at[p]] = home[p]
  /\ \/ remote[p] = "ended" /\ ReleaseHeld(at[p], p, "done")
     \/ /\ remote[p] = "pending"
        /\ pc' = [pc EXCEPT ![p] = "poll"]
        /\ UNCHANGED <<limit, slots, held>>
  /\ UNCHANGED <<settings, made, current, at, home, remote, expired>>

\* Another provider does not know the response; the own one may fail too. A retryable
\* error only means another get.
GetFails(p) ==
  /\ pc[p] = "getting"
  /\ GetsMayFail \/ made[at[p]] # home[p]
  /\ pc' = [pc EXCEPT ![p] = "done"]
  /\ UNCHANGED <<settings, made, current, limit, slots, held, at, home, remote, expired>>

--------------------------------------------------------------------------------
(* DELETE: the abort of the runner's call, then the cancel of the response *)
(* if the page knows it.                                                   *)

\* Mutant: the entry of an aborted wait stays in the queue.
KeepEntry(q, p) == q

\* indexOf and splice.
Dequeue(q, p) ==
  LET k == CHOOSE i \in 1 .. Len(q) : q[i] = p IN SubSeq(q, 1, k - 1) \o SubSeq(q, k + 1, Len(q))

Abort(p) ==
  /\ \/ /\ pc[p] = "waiting"
        /\ queue' = [queue EXCEPT ![at[p]] = Dequeue(@, p)]
        /\ pc' = [pc EXCEPT ![p] = "done"]
        /\ UNCHANGED <<limit, active>>
     \/ pc[p] = "posting" /\ ReleasePosting(p, "done")
     \/ pc[p] \in {"poll", "getting"} /\ pc' = [pc EXCEPT ![p] = "cancel"] /\ UNCHANGED <<limit, slots>>
     \/ pc[p] \in {"idle", "retry"} /\ pc' = [pc EXCEPT ![p] = "done"] /\ UNCHANGED <<limit, slots>>
  /\ UNCHANGED <<settings, made, current, held, at, home, remote, expired>>

\* A cancel that is answered with an ended response releases the slot; one that finds
\* the response still running, or fails with an error cancel() swallows, does not.
CancelReply(p) ==
  /\ pc[p] = "cancelling"
  /\ \/ /\ made[at[p]] = home[p]
        /\ remote' = [remote EXCEPT ![p] = "ended"]
        /\ ReleaseHeld(at[p], p, "done")
     \/ /\ GetsMayFail \/ made[at[p]] # home[p]
        /\ pc' = [pc EXCEPT ![p] = "done"]
        /\ UNCHANGED <<limit, slots, held, remote>>
  /\ UNCHANGED <<settings, made, current, at, home, expired>>

--------------------------------------------------------------------------------
(* The settings, hibernation, the provider and the clock.                  *)

ChangeLimit(n) ==
  /\ changes < MaxChanges /\ n # setting
  /\ setting' = n
  /\ changes' = changes + 1
  /\ UNCHANGED <<provider, made, current, limit, slots, held, pc, at, home, remote, expired>>

ChangeProvider(q) ==
  /\ ProviderMayChange
  /\ changes < MaxChanges /\ q # provider
  /\ provider' = q
  /\ changes' = changes + 1
  /\ UNCHANGED <<setting, made, current, limit, slots, held, pc, at, home, remote, expired>>

\* The idle timer, when no request and no job is under way.
Hibernate ==
  /\ current # 0
  /\ \A p \in Callers : pc[p] \in {"idle", "done"}
  /\ current' = 0
  /\ UNCHANGED <<settings, made, limit, slots, held, pc, at, home, remote, expired>>

\* Nobody observes a response any more whose caller is done.
RemoteEnds(p) ==
  /\ remote[p] = "pending" /\ pc[p] # "done"
  /\ remote' = [remote EXCEPT ![p] = "ended"]
  /\ UNCHANGED <<settings, made, current, limit, slots, held, pc, at, home, expired>>

DeadlinePasses(p) ==
  /\ p \in Deadlines \ expired /\ pc[p] # "done"
  /\ expired' = expired \cup {p}
  /\ UNCHANGED <<settings, made, current, limit, slots, held, pc, at, home, remote>>

--------------------------------------------------------------------------------

RunnerStep(p) ==
  \/ Resume(p) \/ Create(p) \/ GiveUp(p) \/ PostReply(p) \/ PostFails(p)
  \/ Get(p) \/ GetReply(p) \/ GetFails(p) \/ Cancel(p) \/ CancelReply(p)

Next ==
  \/ \E p \in Callers : RunnerStep(p) \/ Abort(p) \/ RemoteEnds(p) \/ DeadlinePasses(p)
  \/ \E n \in 1 .. MaxLimit : ChangeLimit(n)
  \/ \E q \in Providers : ChangeProvider(q)
  \/ Hibernate

Spec == Init /\ [][Next]_vars

\* Calls end and their callers go on; a response the provider holds ends.
FairSpec ==
  /\ Spec
  /\ \A p \in Callers : WF_vars(RunnerStep(p)) /\ WF_vars(RemoteEnds(p))

--------------------------------------------------------------------------------

Posting(c) == {p \in Callers : pc[p] = "posting" /\ at[p] = c}

\* A slot is in use exactly for each create under way and each response the client has
\* not seen end, through every failure, abort and change of the settings: none is given
\* back twice (once() in scheduleResponseSlots) and none is lost by the client.
SlotsCounted ==
  \A c \in Client : active[c] = Cardinality(Posting(c)) + Cardinality(held[c])

\* No lost wakeup: a client with a waiter has no free slot, whatever a call, a release
\* or a new limit did to it (scheduleResponseSlots at the end of each).
NoIdleSlot ==
  \A c \in Client : queue[c] # <<>> => active[c] >= limit[c]

\* A caller waits exactly once, in the queue of the client its create went to.
WaitersQueuedOnce ==
  \A p \in Callers, c \in Client :
    Cardinality({i \in 1 .. Len(queue[c]) : queue[c][i] = p})
      = IF pc[p] = "waiting" /\ at[p] = c THEN 1 ELSE 0

\* The slots of a client and its waiters are told apart whatever happens to a call, and
\* no slot stays free while a caller waits.
SlotsAccounted == TypeOK /\ SlotsCounted /\ WaitersQueuedOnce /\ NoIdleSlot

\* A lowered limit takes no slot away, but no slot is given out above it.
NoGrantAboveLimit ==
  \A c \in Client : active'[c] > active[c] => active'[c] <= limit'[c]

Ahead(q, p) == {q[i] : i \in {k \in 1 .. Len(q) : \E n \in k + 1 .. Len(q) : q[n] = p}}

\* Nobody is overtaken: while a caller waits, no later one gets ahead of it and only one
\* that was ahead of it gets a slot (push at the end and shift() at the front, with the
\* changes of the limit and the aborts in between).
GrantsInOrder ==
  \A p \in Callers : pc[p] = "waiting" /\ pc'[p] = "waiting" =>
    /\ Ahead(queue'[at[p]], p) \subseteq Ahead(queue[at[p]], p)
    /\ \A r \in Posting(at[p])' \ Posting(at[p]) : r \in Ahead(queue[at[p]], p)

\* No slot beyond the limit, and none out of turn.
GrantsSound == [][NoGrantAboveLimit /\ GrantsInOrder]_vars

\* Every create that waits gets its turn, provided the provider stays the same and
\* ends what it accepted, and no get or cancel fails for good.
WaiterServed == \A p \in Callers : pc[p] = "waiting" ~> pc[p] # "waiting"

\* "The deadline signal must also cancel a receipt verification that is still waiting
\* for the AI slot": a wait whose deadline has passed ends.
DeadlineEndsTheWait == \A p \in Callers : pc[p] = "waiting" /\ p \in expired ~> pc[p] # "waiting"

\* "Runtime settings updates while an AI operation is already in flight cannot
\* retroactively change that operation": the calls of a job go to one provider.
InFlightKeepsItsProvider ==
  [][\A p \in Callers : at[p] # 0 => made'[at'[p]] = made[at[p]]]_vars
================================================================================
