---------------------------- MODULE WebClient_proofs ----------------------------
(***************************************************************************)
(* What four parts of the web client promise, for any calls and buckets,   *)
(* any throttle, any lines, fields and captures, and any order of answers, *)
(* aborts, timers, clicks, uploads and reloads.                            *)
(***************************************************************************)
EXTENDS RequestCoordinator, ReceiptLineTotal, ReceiptReview, ReceiptCaptures, Induction, FiniteSetTheorems, SequenceTheorems, TLAPS

--------------------------------------------------------------------------------
(* The request coordinator. CoordinatorSound is not inductive: who waits   *)
(* for whom has to be known, which is what MutationChains and StartChains  *)
(* say of the two promise chains.                                          *)

\* A new call that joins no other waits for the mutations before it, goes out at once, or
\* gets in line to start.
QueuesMutation(q, b) ==
  /\ Kind[b] = "mutation"
  /\ phase' = [phase EXCEPT ![q] = "queued"]
  /\ ahead' = [ahead EXCEPT ![q] = mutationTail[b]] /\ mutationTail' = [mutationTail EXCEPT ![b] = q]
  /\ startAhead' = startAhead /\ startTail' = startTail /\ queuedStarts' = queuedStarts /\ turn' = turn

GoesOut(q, b) ==
  /\ Kind[b] = "free"
  /\ phase' = [phase EXCEPT ![q] = "sent"]
  /\ ahead' = ahead /\ mutationTail' = mutationTail
  /\ startAhead' = startAhead /\ startTail' = startTail /\ queuedStarts' = queuedStarts /\ turn' = turn

LinesUp(q, b) ==
  /\ Kind[b] \notin {"mutation", "free"}
  /\ ahead' = ahead /\ mutationTail' = mutationTail
  /\ ScheduleStart(q, b)

LEMMA LeadCases ==
  ASSUME NEW q \in Calls, NEW b \in Buckets, NEW i, Lead(q, b, i)
  PROVE  QueuesMutation(q, b) \/ GoesOut(q, b) \/ LinesUp(q, b)
<1>1. CASE Kind[b] = "mutation"
  BY <1>1, Zenon DEF Lead, Issue, QueuesMutation
<1>2. CASE Kind[b] = "free"
  BY <1>2, Zenon DEF Lead, Issue, Execute, GoesOut
<1>3. CASE Kind[b] \notin {"mutation", "free"}
  BY <1>3, Zenon DEF Lead, Issue, Execute, LinesUp
<1> QED
  BY <1>1, <1>2, <1>3

LEMMA CoordinatorTypeInit == CoordinatorInit => CoordinatorTypeOK
BY CoordinatorAssumption DEF CoordinatorInit, CoordinatorTypeOK, Phases, Never

LEMMA CoordinatorTypeStep == CoordinatorTypeOK /\ [CoordinatorNext]_coordinatorVars => CoordinatorTypeOK'
<1> SUFFICES ASSUME CoordinatorTypeOK, [CoordinatorNext]_coordinatorVars PROVE CoordinatorTypeOK'
  OBVIOUS
<1> USE CoordinatorAssumption DEF CoordinatorTypeOK, Phases
<1>a. \A q \in Calls : Unshared(q) \in [Buckets -> [Queries -> Calls \cup {NoCall}]]
  BY DEF Unshared
<1>1. ASSUME NEW q \in Calls, NEW b \in Buckets, NEW i \in Identities(b), Lead(q, b, i) PROVE CoordinatorTypeOK'
  <2>1. i \in Queries \cup {NoCall}
    BY DEF Identities
  <2>2. /\ bucket' \in [Calls -> Buckets] /\ identity' \in [Calls -> Queries \cup {NoCall}]
        /\ issued' \in Nat /\ nth' \in [Calls -> Nat]
    BY <1>1, <2>1 DEF Lead, Issue
  <2>3. /\ phase' \in [Calls -> Phases] /\ queuedStarts' \in Nat /\ turn' \in [Calls -> Nat]
        /\ ahead' \in [Calls -> Calls \cup {NoCall}] /\ mutationTail' \in [Buckets -> Calls \cup {NoCall}]
        /\ startAhead' \in [Calls -> Calls \cup {NoCall}] /\ startTail' \in [Buckets -> Calls \cup {NoCall}]
    <3>1. CASE QueuesMutation(q, b)
      BY <3>1 DEF QueuesMutation
    <3>2. CASE GoesOut(q, b)
      BY <3>2 DEF GoesOut
    <3>3. CASE LinesUp(q, b)
      BY <3>3 DEF LinesUp, ScheduleStart
    <3> QED
      BY <1>1, <3>1, <3>2, <3>3, LeadCases
  <2>4. inFlightReads' \in [Buckets -> [Queries -> Calls \cup {NoCall}]]
    BY <1>1, <2>1 DEF Lead, Issue
  <2> QED
    BY <1>1, <2>2, <2>3, <2>4 DEF Lead, Issue
<1>2. ASSUME NEW q \in Calls, NEW b \in Buckets, NEW i \in Identities(b), Join(q, b, i) PROVE CoordinatorTypeOK'
  BY <1>2 DEF Join
<1>3. ASSUME NEW q \in Calls, AbortCall(q) PROVE CoordinatorTypeOK'
  BY <1>3 DEF AbortCall
<1>4. ASSUME NEW q \in Calls, MutationTurn(q) PROVE CoordinatorTypeOK'
  BY <1>4 DEF MutationTurn, ScheduleStart
<1>5. ASSUME NEW q \in Calls, StartTurn(q) PROVE CoordinatorTypeOK'
  <2>1. CASE AbandonStart(q)
    BY <1>5, <1>a, <2>1 DEF StartTurn, AbandonStart
  <2>2. CASE BeginFetch(q)
    BY <1>5, <2>2 DEF StartTurn, BeginFetch
  <2>3. CASE phase' = [phase EXCEPT ![q] = "waiting"]
    BY <1>5, <1>a, <2>3 DEF StartTurn, AbandonStart, BeginFetch
  <2> QED
    BY <1>5, <2>1, <2>2, <2>3 DEF StartTurn
<1>6. ASSUME NEW q \in Calls, WaitEnds(q) PROVE CoordinatorTypeOK'
  <2>1. CASE AbandonStart(q)
    BY <1>6, <1>a, <2>1 DEF WaitEnds, AbandonStart
  <2>2. CASE BeginFetch(q)
    BY <1>6, <2>2 DEF WaitEnds, BeginFetch
  <2> QED
    BY <1>6, <2>1, <2>2 DEF WaitEnds
<1>7. ASSUME NEW q \in Calls, JoinedSettles(q) PROVE CoordinatorTypeOK'
  BY <1>7 DEF JoinedSettles, Over
<1>8. ASSUME NEW q \in Calls, FetchEnds(q) PROVE CoordinatorTypeOK'
  BY <1>8, <1>a DEF FetchEnds, FetchSettles
<1>9. CASE Tick
  BY <1>9 DEF Tick
<1>10. CASE UNCHANGED coordinatorVars
  BY <1>10 DEF coordinatorVars
<1> HIDE DEF CoordinatorTypeOK, Phases
<1> QED
  BY <1>1, <1>2, <1>3, <1>4, <1>5, <1>6, <1>7, <1>8, <1>9, <1>10 DEF CoordinatorNext, CoordinatorStep, Goes

\* The coordinator is well typed.
THEOREM CoordinatorIsTyped == CoordinatorSpec => []CoordinatorTypeOK
BY CoordinatorTypeInit, CoordinatorTypeStep, PTL DEF CoordinatorSpec

--------------------------------------------------------------------------------
(* The chain of the mutations of a bucket.                                 *)

\* The tail of a bucket is its last mutation, and a mutation waits for the one called just
\* before it.
TailIsLast ==
  /\ \A q \in Calls : nth[q] <= issued
  /\ \A b \in Buckets : mutationTail[b] # NoCall => Mutation(mutationTail[b]) /\ bucket[mutationTail[b]] = b
  /\ \A p \in Calls : Mutation(p) =>
       /\ mutationTail[bucket[p]] # NoCall
       /\ p = mutationTail[bucket[p]] \/ nth[p] < nth[mutationTail[bucket[p]]]

AheadIsJustBefore ==
  \A q \in Calls : Mutation(q) =>
    /\ ahead[q] # NoCall => Mutation(ahead[q]) /\ bucket[ahead[q]] = bucket[q] /\ nth[ahead[q]] < nth[q]
    /\ \A p \in Calls : Mutation(p) /\ bucket[p] = bucket[q] /\ nth[p] < nth[q] =>
         ahead[q] # NoCall /\ (p = ahead[q] \/ nth[p] < nth[ahead[q]])

MutationChains == TailIsLast /\ AheadIsJustBefore /\ MutationsInOrder

\* A step that changes nothing of the mutations but that they go on.
MutationsGoOn ==
  /\ mutationTail' = mutationTail
  /\ \A q \in Calls :
       /\ nth'[q] <= issued'
       /\ Mutation(q)' <=> Mutation(q)
       /\ Mutation(q) =>
            /\ bucket'[q] = bucket[q] /\ nth'[q] = nth[q] /\ ahead'[q] = ahead[q]
            /\ phase[q] = "queued" => phase'[q] = "queued"
            /\ Over(q) => Over(q)'

LEMMA MutationsGoOnSound ==
  ASSUME CoordinatorTypeOK, MutationChains, MutationsGoOn PROVE MutationChains'
<1> USE CoordinatorAssumption DEF MutationChains
<1>1. TailIsLast'
  BY DEF MutationsGoOn, TailIsLast, CoordinatorTypeOK
<1>2. AheadIsJustBefore'
  BY DEF MutationsGoOn, AheadIsJustBefore, CoordinatorTypeOK
<1>3. MutationsInOrder'
  BY DEF MutationsGoOn, MutationsInOrder, CoordinatorTypeOK
<1> QED
  BY <1>1, <1>2, <1>3

\* A new mutation is the last of its bucket, and waits for the one that was.
LEMMA MutationQueues ==
  ASSUME CoordinatorTypeOK, MutationChains, NEW q \in Calls, NEW b \in Buckets, NEW i,
         Lead(q, b, i), QueuesMutation(q, b)
  PROVE  MutationChains'
<1>1. /\ phase[q] = "idle" /\ phase'[q] = "queued" /\ \A p \in Calls \ {q} : phase'[p] = phase[p]
      /\ bucket'[q] = b /\ \A p \in Calls \ {q} : bucket'[p] = bucket[p]
      /\ nth'[q] = issued + 1 /\ issued' = issued + 1 /\ \A p \in Calls \ {q} : nth'[p] = nth[p]
      /\ ahead'[q] = mutationTail[b] /\ \A p \in Calls \ {q} : ahead'[p] = ahead[p]
      /\ mutationTail'[b] = q /\ \A c \in Buckets \ {b} : mutationTail'[c] = mutationTail[c]
      /\ Kind[b] = "mutation"
  BY DEF Lead, Issue, IsNext, QueuesMutation, CoordinatorTypeOK
<1>2. /\ issued \in Nat /\ \A p \in Calls : nth[p] \in Nat /\ bucket[p] \in Buckets /\ ahead[p] \in Calls \cup {NoCall}
      /\ \A c \in Buckets : mutationTail[c] \in Calls \cup {NoCall}
      /\ NoCall \notin Calls
  BY CoordinatorAssumption DEF CoordinatorTypeOK
<1>3. TailIsLast /\ AheadIsJustBefore /\ MutationsInOrder
  BY DEF MutationChains
<1> USE DEF Mutation
<1>4. TailIsLast'
  <2>1. \A p \in Calls : nth'[p] <= issued'
    BY <1>1, <1>2, <1>3 DEF TailIsLast
  <2>2. ASSUME NEW c \in Buckets, mutationTail'[c] # NoCall
        PROVE  Mutation(mutationTail[c])' /\ bucket'[mutationTail'[c]] = c
    <3>1. CASE c = b
      BY <1>1, <3>1
    <3>2. CASE c # b
      <4>1. mutationTail[c] \in Calls /\ Mutation(mutationTail[c]) /\ bucket[mutationTail[c]] = c
        BY <1>1, <1>2, <1>3, <2>2, <3>2 DEF TailIsLast
      <4> QED
        BY <1>1, <4>1, <3>2
    <3> QED
      BY <3>1, <3>2
  <2>3. ASSUME NEW p \in Calls, Mutation(p)'
        PROVE  /\ mutationTail'[bucket'[p]] # NoCall
               /\ p = mutationTail'[bucket'[p]] \/ nth'[p] < nth'[mutationTail'[bucket'[p]]]
    <3>1. CASE bucket'[p] = b
      BY <1>1, <1>2, <1>3, <3>1 DEF TailIsLast
    <3>2. CASE bucket'[p] # b
      <4>1. p # q /\ Mutation(p) /\ bucket'[p] = bucket[p] /\ bucket[p] # b
        BY <1>1, <2>3, <3>2
      <4>2. mutationTail[bucket[p]] # q
        BY <1>1, <1>2, <1>3, <4>1 DEF TailIsLast
      <4> QED
        BY <1>1, <1>2, <1>3, <4>1, <4>2 DEF TailIsLast
    <3> QED
      BY <3>1, <3>2
  <2> QED
    BY <2>1, <2>2, <2>3 DEF TailIsLast
<1>5. ASSUME NEW r \in Calls, Mutation(r)'
      PROVE  /\ ahead'[r] # NoCall =>
                  Mutation(ahead[r])' /\ bucket'[ahead'[r]] = bucket'[r] /\ nth'[ahead'[r]] < nth'[r]
             /\ \A p \in Calls : Mutation(p)' /\ bucket'[p] = bucket'[r] /\ nth'[p] < nth'[r] =>
                  ahead'[r] # NoCall /\ (p = ahead'[r] \/ nth'[p] < nth'[ahead'[r]])
  <2>1. CASE r = q
    BY <1>1, <1>2, <1>3, <2>1 DEF TailIsLast
  <2>2. CASE r # q
    <3>1. Mutation(r) /\ nth[r] <= issued /\ ahead[r] # q
      BY <1>1, <1>2, <1>3, <1>5, <2>2 DEF TailIsLast, AheadIsJustBefore
    <3> QED
      BY <1>1, <1>2, <1>3, <2>2, <3>1 DEF AheadIsJustBefore
  <2> QED
    BY <2>1, <2>2
<1>6. AheadIsJustBefore'
  BY <1>5 DEF AheadIsJustBefore
<1>7. MutationsInOrder'
  <2> SUFFICES ASSUME NEW p \in Calls, NEW r \in Calls, Mutation(p)', Mutation(r)',
                      bucket'[p] = bucket'[r], nth'[p] < nth'[r], phase'[r] # "queued"
               PROVE  Over(p)'
    BY DEF MutationsInOrder
  <2>1. r # q /\ nth[r] <= issued
    BY <1>1, <1>3 DEF TailIsLast
  <2>2. p # q
    BY <1>1, <1>2, <2>1
  <2> QED
    BY <1>1, <1>3, <2>1, <2>2 DEF MutationsInOrder, Over
<1> QED
  BY <1>4, <1>6, <1>7 DEF MutationChains

\* A mutation whose predecessor is settled has only settled ones before it.
LEMMA MutationGetsItsTurn ==
  ASSUME CoordinatorTypeOK, MutationChains, NEW q \in Calls, MutationTurn(q)
  PROVE  MutationChains'
<1> USE CoordinatorAssumption DEF MutationChains, CoordinatorTypeOK, Mutation
<1>1. /\ phase[q] = "queued" /\ phase'[q] = "starting" /\ \A p \in Calls \ {q} : phase'[p] = phase[p]
      /\ bucket' = bucket /\ nth' = nth /\ issued' = issued /\ ahead' = ahead /\ mutationTail' = mutationTail
      /\ ahead[q] # NoCall => Over(ahead[q])
  BY DEF MutationTurn, ScheduleStart, MutationDone
<1>2. TailIsLast'
  BY <1>1 DEF TailIsLast
<1>3. AheadIsJustBefore'
  BY <1>1 DEF AheadIsJustBefore
<1>4. ASSUME NEW p \in Calls, Mutation(p), Mutation(q), bucket[p] = bucket[q], nth[p] < nth[q] PROVE Over(p)
  <2>1. /\ ahead[q] \in Calls /\ Over(ahead[q]) /\ Mutation(ahead[q]) /\ bucket[ahead[q]] = bucket[q]
        /\ p = ahead[q] \/ nth[p] < nth[ahead[q]]
    BY <1>1, <1>4 DEF AheadIsJustBefore
  <2>2. phase[ahead[q]] # "queued"
    BY <2>1 DEF Over
  <2> QED
    BY <1>4, <2>1, <2>2 DEF MutationsInOrder
<1>5. MutationsInOrder'
  <2> SUFFICES ASSUME NEW p \in Calls, NEW r \in Calls, Mutation(p)', Mutation(r)', bucket'[p] = bucket'[r],
                      nth'[p] < nth'[r], phase'[r] # "queued"
               PROVE  Over(p)'
    BY DEF MutationsInOrder
  <2>1. Over(p) => Over(p)'
    BY <1>1 DEF Over
  <2>2. CASE r = q
    BY <1>1, <1>4, <2>1, <2>2
  <2>3. CASE r # q
    BY <1>1, <2>1, <2>3 DEF MutationsInOrder
  <2> QED
    BY <2>2, <2>3
<1> QED
  BY ONLY <1>2, <1>3, <1>5 DEF MutationChains

LEMMA MutationChainsStep ==
  CoordinatorTypeOK /\ MutationChains /\ [CoordinatorNext]_coordinatorVars => MutationChains'
<1> SUFFICES ASSUME CoordinatorTypeOK, MutationChains, [CoordinatorNext]_coordinatorVars PROVE MutationChains'
  OBVIOUS
<1>1. ASSUME NEW q \in Calls, NEW b \in Buckets, NEW i \in Identities(b), Lead(q, b, i) PROVE MutationChains'
  <2>1. CASE QueuesMutation(q, b)
    BY <1>1, <2>1, MutationQueues
  <2>2. ASSUME GoesOut(q, b) \/ LinesUp(q, b) PROVE MutationsGoOn
    <3>1. /\ phase[q] = "idle" /\ phase'[q] # "idle" /\ \A p \in Calls \ {q} : phase'[p] = phase[p]
          /\ mutationTail' = mutationTail /\ ahead' = ahead /\ Kind[b] # "mutation"
      BY <1>1, <2>2 DEF Lead, Issue, IsNext, GoesOut, LinesUp, ScheduleStart, CoordinatorTypeOK
    <3>2. /\ bucket'[q] = b /\ \A p \in Calls \ {q} : bucket'[p] = bucket[p]
          /\ nth'[q] = issued + 1 /\ issued' = issued + 1 /\ \A p \in Calls \ {q} : nth'[p] = nth[p]
      BY <1>1 DEF Lead, Issue, CoordinatorTypeOK
    <3> QED
      BY <3>1, <3>2 DEF MutationsGoOn, Mutation, Over, MutationChains, TailIsLast, CoordinatorTypeOK
  <2> QED
    BY <1>1, <2>1, <2>2, LeadCases, MutationsGoOnSound
<1>2. ASSUME NEW q \in Calls, NEW b \in Buckets, NEW i \in Identities(b), Join(q, b, i) PROVE MutationsGoOn
  <2>1. Kind[b] # "mutation"
    BY <1>2, CoordinatorAssumption DEF Join, Identities
  <2> QED
    BY <1>2, <2>1 DEF Join, IsNext, MutationsGoOn, Mutation, Over, MutationChains, TailIsLast, CoordinatorTypeOK
<1>3. ASSUME NEW q \in Calls, AbortCall(q) PROVE MutationsGoOn
  BY <1>3 DEF AbortCall, MutationsGoOn, Mutation, Over, MutationChains, TailIsLast
<1>4. ASSUME NEW q \in Calls, MutationTurn(q) PROVE MutationChains'
  BY <1>4, MutationGetsItsTurn
<1>5. ASSUME NEW q \in Calls, StartTurn(q) \/ WaitEnds(q) PROVE MutationsGoOn
  <2>1. /\ phase[q] \in {"starting", "waiting"} /\ phase'[q] \in {"waiting", "sent", "failed"}
        /\ \A p \in Calls \ {q} : phase'[p] = phase[p]
    BY <1>5 DEF StartTurn, WaitEnds, BeginFetch, AbandonStart, CoordinatorTypeOK
  <2>2. bucket' = bucket /\ nth' = nth /\ issued' = issued /\ ahead' = ahead /\ mutationTail' = mutationTail
    BY <1>5 DEF StartTurn, WaitEnds
  <2> QED
    BY <2>1, <2>2 DEF MutationsGoOn, Mutation, Over, MutationChains, TailIsLast, CoordinatorTypeOK
<1>6. ASSUME NEW q \in Calls, JoinedSettles(q) PROVE MutationsGoOn
  BY <1>6 DEF JoinedSettles, MutationsGoOn, Mutation, Over, MutationChains, TailIsLast, CoordinatorTypeOK
<1>7. ASSUME NEW q \in Calls, FetchEnds(q) PROVE MutationsGoOn
  BY <1>7 DEF FetchEnds, FetchSettles, MutationsGoOn, Mutation, Over, MutationChains, TailIsLast, CoordinatorTypeOK
<1>8. CASE Tick \/ UNCHANGED coordinatorVars
  <2>1. MutationsGoOn
    BY <1>8 DEF Tick, coordinatorVars, MutationsGoOn, Mutation, Over, MutationChains, TailIsLast
  <2> QED
    BY <2>1, MutationsGoOnSound
<1> QED
  BY <1>1, <1>2, <1>3, <1>4, <1>5, <1>6, <1>7, <1>8, MutationsGoOnSound DEF CoordinatorNext, CoordinatorStep, Goes

--------------------------------------------------------------------------------
(* The chain of the starts of a bucket.                                    *)

HasTurn(q) == turn[q] > 0

\* The tail of a bucket is the last call in line to start there, no two calls have one
\* turn, and a call waits for the start of the one just before it.
StartTailIsLast ==
  /\ \A q \in Calls : turn[q] <= queuedStarts
  /\ \A p, q \in Calls : HasTurn(p) /\ turn[p] = turn[q] => p = q
  /\ \A b \in Buckets : startTail[b] # NoCall => HasTurn(startTail[b]) /\ bucket[startTail[b]] = b
  /\ \A p \in Calls : HasTurn(p) =>
       /\ startTail[bucket[p]] # NoCall
       /\ p = startTail[bucket[p]] \/ turn[p] < turn[startTail[bucket[p]]]

StartAheadIsJustBefore ==
  \A q \in Calls : HasTurn(q) =>
    /\ startAhead[q] # NoCall =>
         HasTurn(startAhead[q]) /\ bucket[startAhead[q]] = bucket[q] /\ turn[startAhead[q]] < turn[q]
    /\ \A p \in Calls : HasTurn(p) /\ bucket[p] = bucket[q] /\ turn[p] < turn[q] =>
         startAhead[q] # NoCall /\ (p = startAhead[q] \/ turn[p] < turn[startAhead[q]])

\* Who is in line, and that nobody passes.
StartsInOrder ==
  /\ \A q \in Calls :
       /\ phase[q] \in {"starting", "waiting"} => HasTurn(q)
       /\ phase[q] \in {"idle", "queued", "joined"} => ~HasTurn(q)
  /\ \A p, q \in Calls :
       HasTurn(p) /\ HasTurn(q) /\ bucket[p] = bucket[q] /\ turn[p] < turn[q] /\ phase[q] # "starting" => StartOver(p)

StartChains == StartTailIsLast /\ StartAheadIsJustBefore /\ StartsInOrder

\* A step that changes nothing of the line but that the calls in it go on.
StartsGoOn ==
  /\ startTail' = startTail /\ turn' = turn /\ queuedStarts' = queuedStarts
  /\ \A q \in Calls :
       /\ phase'[q] \in {"starting", "waiting"} => HasTurn(q)
       /\ phase'[q] \in {"idle", "queued", "joined"} => ~HasTurn(q)
       /\ HasTurn(q) =>
            /\ bucket'[q] = bucket[q] /\ startAhead'[q] = startAhead[q]
            /\ phase[q] = "starting" => phase'[q] = "starting"
            /\ StartOver(q) => StartOver(q)'

LEMMA StartsGoOnSound ==
  ASSUME CoordinatorTypeOK, StartChains, StartsGoOn PROVE StartChains'
<1>1. StartTailIsLast'
  BY CoordinatorAssumption DEF StartChains, StartsGoOn, StartTailIsLast, CoordinatorTypeOK, HasTurn
<1>2. StartAheadIsJustBefore'
  BY CoordinatorAssumption DEF StartChains, StartsGoOn, StartAheadIsJustBefore, CoordinatorTypeOK, HasTurn
<1>3. StartsInOrder'
  BY DEF StartChains, StartsGoOn, StartsInOrder, CoordinatorTypeOK, HasTurn
<1> QED
  BY <1>1, <1>2, <1>3 DEF StartChains

\* A call that gets in line is the last of its bucket, and waits for the one that was.
LEMMA CallLinesUp ==
  ASSUME CoordinatorTypeOK, StartChains, NEW q \in Calls, NEW b \in Buckets,
         ScheduleStart(q, b), ~HasTurn(q), bucket'[q] = b, \A p \in Calls \ {q} : bucket'[p] = bucket[p]
  PROVE  StartChains'
<1>1. /\ phase'[q] = "starting" /\ \A p \in Calls \ {q} : phase'[p] = phase[p]
      /\ bucket'[q] = b /\ \A p \in Calls \ {q} : bucket'[p] = bucket[p]
      /\ turn'[q] = queuedStarts + 1 /\ queuedStarts' = queuedStarts + 1 /\ \A p \in Calls \ {q} : turn'[p] = turn[p]
      /\ startAhead'[q] = startTail[b] /\ \A p \in Calls \ {q} : startAhead'[p] = startAhead[p]
      /\ startTail'[b] = q /\ \A c \in Buckets \ {b} : startTail'[c] = startTail[c]
      /\ ~(turn[q] > 0)
  BY DEF ScheduleStart, CoordinatorTypeOK, HasTurn
<1>2. /\ queuedStarts \in Nat
      /\ \A p \in Calls : turn[p] \in Nat /\ bucket[p] \in Buckets /\ startAhead[p] \in Calls \cup {NoCall}
      /\ \A c \in Buckets : startTail[c] \in Calls \cup {NoCall}
      /\ NoCall \notin Calls
  BY CoordinatorAssumption DEF CoordinatorTypeOK
<1>3. StartTailIsLast /\ StartAheadIsJustBefore /\ StartsInOrder
  BY DEF StartChains
<1> USE DEF HasTurn
<1>4. StartTailIsLast'
  <2>1. /\ \A p \in Calls : turn'[p] <= queuedStarts'
        /\ \A p, r \in Calls : turn'[p] > 0 /\ turn'[p] = turn'[r] => p = r
    BY <1>1, <1>2, <1>3 DEF StartTailIsLast
  <2>2. ASSUME NEW c \in Buckets, startTail'[c] # NoCall
        PROVE  HasTurn(startTail[c])' /\ bucket'[startTail'[c]] = c
    <3>1. CASE c = b
      BY <1>1, <1>2, <3>1
    <3>2. CASE c # b
      <4>1. startTail[c] \in Calls /\ HasTurn(startTail[c]) /\ bucket[startTail[c]] = c
        BY <1>1, <1>2, <1>3, <2>2, <3>2 DEF StartTailIsLast
      <4> QED
        BY <1>1, <4>1, <3>2
    <3> QED
      BY <3>1, <3>2
  <2>3. ASSUME NEW p \in Calls, HasTurn(p)'
        PROVE  /\ startTail'[bucket'[p]] # NoCall
               /\ p = startTail'[bucket'[p]] \/ turn'[p] < turn'[startTail'[bucket'[p]]]
    <3>1. CASE bucket'[p] = b
      BY <1>1, <1>2, <1>3, <3>1 DEF StartTailIsLast
    <3>2. CASE bucket'[p] # b
      <4>1. p # q /\ HasTurn(p) /\ bucket'[p] = bucket[p] /\ bucket[p] # b
        BY <1>1, <2>3, <3>2
      <4>2. startTail[bucket[p]] # q
        BY <1>1, <1>2, <1>3, <4>1 DEF StartTailIsLast
      <4> QED
        BY <1>1, <1>2, <1>3, <4>1, <4>2 DEF StartTailIsLast
    <3> QED
      BY <3>1, <3>2
  <2> QED
    BY <2>1, <2>2, <2>3 DEF StartTailIsLast
<1>5. ASSUME NEW r \in Calls, HasTurn(r)'
      PROVE  /\ startAhead'[r] # NoCall =>
                  HasTurn(startAhead[r])' /\ bucket'[startAhead'[r]] = bucket'[r] /\ turn'[startAhead'[r]] < turn'[r]
             /\ \A p \in Calls : HasTurn(p)' /\ bucket'[p] = bucket'[r] /\ turn'[p] < turn'[r] =>
                  startAhead'[r] # NoCall /\ (p = startAhead'[r] \/ turn'[p] < turn'[startAhead'[r]])
  <2>1. CASE r = q
    BY <1>1, <1>2, <1>3, <2>1 DEF StartTailIsLast
  <2>2. CASE r # q
    <3>1. HasTurn(r) /\ turn[r] <= queuedStarts /\ startAhead[r] # q
      BY <1>1, <1>2, <1>3, <1>5, <2>2 DEF StartTailIsLast, StartAheadIsJustBefore
    <3> QED
      BY <1>1, <1>2, <1>3, <2>2, <3>1 DEF StartAheadIsJustBefore
  <2> QED
    BY <2>1, <2>2
<1>6. StartAheadIsJustBefore'
  BY <1>5 DEF StartAheadIsJustBefore
<1>7. \A r \in Calls :
        /\ phase'[r] \in {"starting", "waiting"} => HasTurn(r)'
        /\ phase'[r] \in {"idle", "queued", "joined"} => ~HasTurn(r)'
  BY <1>1, <1>2, <1>3 DEF StartsInOrder
<1>8. ASSUME NEW p \in Calls, NEW r \in Calls, HasTurn(p)', HasTurn(r)',
             bucket'[p] = bucket'[r], turn'[p] < turn'[r], phase'[r] # "starting"
      PROVE  StartOver(p)'
  <2>1. r # q /\ turn[r] <= queuedStarts
    BY <1>1, <1>3, <1>8 DEF StartTailIsLast
  <2>2. p # q
    BY <1>1, <1>2, <1>8, <2>1
  <2> QED
    BY <1>1, <1>3, <1>8, <2>1, <2>2 DEF StartsInOrder, StartOver
<1>9. StartsInOrder'
  BY <1>7, <1>8 DEF StartsInOrder
<1> QED
  BY <1>4, <1>6, <1>9 DEF StartChains

\* A call whose predecessor has settled its start has only such calls before it.
LEMMA TurnComes ==
  ASSUME CoordinatorTypeOK, StartChains, NEW q \in Calls, phase[q] = "starting", StartDone(startAhead[q]),
         NEW p \in Calls, HasTurn(p), bucket[p] = bucket[q], turn[p] < turn[q]
  PROVE  StartOver(p)
<1>1. HasTurn(q)
  BY DEF StartChains, StartsInOrder
<1>2. /\ startAhead[q] # NoCall /\ HasTurn(startAhead[q]) /\ bucket[startAhead[q]] = bucket[q]
      /\ p = startAhead[q] \/ turn[p] < turn[startAhead[q]]
  BY <1>1 DEF StartChains, StartAheadIsJustBefore
<1>3. startAhead[q] \in Calls
  BY <1>2 DEF CoordinatorTypeOK
<1>4. StartOver(startAhead[q]) /\ phase[startAhead[q]] # "starting"
  BY <1>2 DEF StartDone, StartOver
<1> QED
  BY <1>2, <1>3, <1>4 DEF StartChains, StartsInOrder

LEMMA CallGetsItsTurn ==
  ASSUME CoordinatorTypeOK, StartChains, NEW q \in Calls, StartTurn(q)
  PROVE  StartChains'
<1>1. /\ phase[q] = "starting" /\ phase'[q] \in {"waiting", "sent", "failed"} /\ \A p \in Calls \ {q} : phase'[p] = phase[p]
      /\ bucket' = bucket /\ turn' = turn /\ queuedStarts' = queuedStarts /\ startAhead' = startAhead /\ startTail' = startTail
      /\ StartDone(startAhead[q])
  BY DEF StartTurn, BeginFetch, AbandonStart, CoordinatorTypeOK
<1>2. StartTailIsLast' /\ StartAheadIsJustBefore'
  BY <1>1 DEF StartChains, StartTailIsLast, StartAheadIsJustBefore, HasTurn
<1>3. \A p \in Calls : HasTurn(p) /\ bucket[p] = bucket[q] /\ turn[p] < turn[q] => StartOver(p)
  BY <1>1, TurnComes
<1>4. StartsInOrder'
  BY <1>1, <1>3 DEF StartChains, StartsInOrder, HasTurn, StartOver
<1> QED
  BY <1>2, <1>4 DEF StartChains

LEMMA StartChainsStep ==
  CoordinatorTypeOK /\ StartChains /\ [CoordinatorNext]_coordinatorVars => StartChains'
<1> SUFFICES ASSUME CoordinatorTypeOK, StartChains, [CoordinatorNext]_coordinatorVars PROVE StartChains'
  OBVIOUS
<1>1. ASSUME NEW q \in Calls, NEW b \in Buckets, NEW i \in Identities(b), Lead(q, b, i) PROVE StartChains'
  <2>1. /\ phase[q] = "idle" /\ ~HasTurn(q)
        /\ bucket'[q] = b /\ \A p \in Calls \ {q} : bucket'[p] = bucket[p]
    BY <1>1 DEF Lead, Issue, IsNext, CoordinatorTypeOK, StartChains, StartsInOrder
  <2>2. CASE LinesUp(q, b)
    BY <2>1, <2>2, CallLinesUp DEF LinesUp
  <2>3. ASSUME QueuesMutation(q, b) \/ GoesOut(q, b) PROVE StartsGoOn
    <3>1. /\ phase'[q] \in {"queued", "sent"} /\ \A p \in Calls \ {q} : phase'[p] = phase[p]
          /\ startAhead' = startAhead /\ startTail' = startTail /\ queuedStarts' = queuedStarts /\ turn' = turn
      BY <2>3 DEF QueuesMutation, GoesOut, CoordinatorTypeOK
    <3> QED
      BY <2>1, <3>1 DEF StartsGoOn, StartChains, StartsInOrder, StartOver
  <2> QED
    BY <1>1, <2>2, <2>3, LeadCases, StartsGoOnSound
<1>2. ASSUME NEW q \in Calls, NEW b \in Buckets, NEW i \in Identities(b), Join(q, b, i) PROVE StartsGoOn
  <2>1. /\ phase[q] = "idle" /\ phase'[q] = "joined" /\ \A p \in Calls \ {q} : phase'[p] = phase[p] /\ bucket'[p] = bucket[p]
        /\ startAhead' = startAhead /\ startTail' = startTail /\ queuedStarts' = queuedStarts /\ turn' = turn
    BY <1>2 DEF Join, IsNext, CoordinatorTypeOK
  <2> QED
    BY <2>1 DEF StartsGoOn, StartChains, StartsInOrder, StartOver
<1>3. ASSUME NEW q \in Calls, AbortCall(q) PROVE StartsGoOn
  BY <1>3 DEF AbortCall, StartsGoOn, StartChains, StartsInOrder, StartOver
<1>4. ASSUME NEW q \in Calls, MutationTurn(q) PROVE StartChains'
  <2>1. ScheduleStart(q, bucket[q]) /\ ~HasTurn(q) /\ bucket' = bucket /\ bucket[q] \in Buckets
    BY <1>4 DEF MutationTurn, StartChains, StartsInOrder, CoordinatorTypeOK
  <2> QED
    BY <2>1, CallLinesUp
<1>5. ASSUME NEW q \in Calls, StartTurn(q) PROVE StartChains'
  BY <1>5, CallGetsItsTurn
<1>6. ASSUME NEW q \in Calls, WaitEnds(q) PROVE StartsGoOn
  <2>1. /\ phase[q] = "waiting" /\ phase'[q] \in {"sent", "failed"} /\ \A p \in Calls \ {q} : phase'[p] = phase[p]
        /\ bucket' = bucket
        /\ startAhead' = startAhead /\ startTail' = startTail /\ queuedStarts' = queuedStarts /\ turn' = turn
    BY <1>6 DEF WaitEnds, BeginFetch, AbandonStart, CoordinatorTypeOK
  <2> QED
    BY <2>1 DEF StartsGoOn, StartChains, StartsInOrder, StartOver
<1>7. ASSUME NEW q \in Calls, JoinedSettles(q) PROVE StartsGoOn
  <2>1. /\ phase[q] = "joined" /\ phase'[q] \in {"answered", "failed"} /\ \A p \in Calls \ {q} : phase'[p] = phase[p]
        /\ bucket' = bucket
        /\ startAhead' = startAhead /\ startTail' = startTail /\ queuedStarts' = queuedStarts /\ turn' = turn
    BY <1>7 DEF JoinedSettles, Over, CoordinatorTypeOK
  <2> QED
    BY <2>1 DEF StartsGoOn, StartChains, StartsInOrder, StartOver
<1>8. ASSUME NEW q \in Calls, FetchEnds(q) PROVE StartsGoOn
  <2>1. /\ phase[q] = "sent" /\ phase'[q] \in {"answered", "failed"} /\ \A p \in Calls \ {q} : phase'[p] = phase[p]
        /\ bucket' = bucket
        /\ startAhead' = startAhead /\ startTail' = startTail /\ queuedStarts' = queuedStarts /\ turn' = turn
    BY <1>8 DEF FetchEnds, FetchSettles, CoordinatorTypeOK
  <2> QED
    BY <2>1 DEF StartsGoOn, StartChains, StartsInOrder, StartOver
<1>9. CASE Tick \/ UNCHANGED coordinatorVars
  <2>1. StartsGoOn
    BY <1>9 DEF Tick, coordinatorVars, StartsGoOn, StartChains, StartsInOrder, StartOver
  <2> QED
    BY <2>1, StartsGoOnSound
<1> QED
  BY <1>1, <1>2, <1>3, <1>4, <1>5, <1>6, <1>7, <1>8, <1>9, StartsGoOnSound DEF CoordinatorNext, CoordinatorStep, Goes

--------------------------------------------------------------------------------
(* The times of the starts of a bucket.                                    *)

\* The last start of a bucket is the latest, and a call that waits does so until the
\* throttle has passed since.
StartTimes ==
  /\ \A b \in Buckets : lastStartedAt[b] <= moment
  /\ \A p \in Calls : Started(p) => HasTurn(p) /\ StartOver(p) /\ startedAt[p] <= lastStartedAt[bucket[p]]
  /\ \A q \in Calls : phase[q] = "waiting" => due[q] >= lastStartedAt[bucket[q]] + Throttle
  /\ StartsSpaced

\* A step in which no call is started.
NoneStarts ==
  /\ lastStartedAt' = lastStartedAt /\ startedAt' = startedAt /\ moment' >= moment
  /\ \A q \in Calls :
       /\ StartOver(q) => StartOver(q)' /\ bucket'[q] = bucket[q]
       /\ HasTurn(q) => turn'[q] = turn[q]
       /\ phase'[q] = "waiting" => due'[q] >= lastStartedAt[bucket'[q]] + Throttle

LEMMA NoneStartsSound ==
  ASSUME CoordinatorTypeOK, CoordinatorTypeOK', StartTimes, NoneStarts PROVE StartTimes'
<1> USE CoordinatorAssumption DEF Started, Never
<1>1. /\ moment \in Nat /\ moment' \in Nat /\ moment' >= moment
      /\ \A b \in Buckets : lastStartedAt[b] \in Int
      /\ \A q \in Calls : startedAt[q] \in Int /\ bucket[q] \in Buckets /\ turn[q] \in Nat
  BY DEF CoordinatorTypeOK, NoneStarts
<1>2. \A b \in Buckets : lastStartedAt'[b] <= moment'
  BY <1>1 DEF StartTimes, NoneStarts
<1>3. \A p \in Calls : Started(p)' =>
        Started(p) /\ HasTurn(p)' /\ StartOver(p)' /\ startedAt'[p] <= lastStartedAt'[bucket'[p]]
        /\ bucket'[p] = bucket[p] /\ turn'[p] = turn[p]
  BY <1>1 DEF StartTimes, NoneStarts, HasTurn
<1>4. StartsSpaced'
  BY <1>3 DEF StartTimes, StartsSpaced, NoneStarts
<1> QED
  BY <1>1, <1>2, <1>3, <1>4 DEF StartTimes, NoneStarts

\* A call that is started once the throttle has passed, with no other that waits.
LEMMA CallStarts ==
  ASSUME CoordinatorTypeOK, CoordinatorTypeOK', StartChains, StartTimes, NEW q \in Calls,
         BeginFetch(q), phase[q] \in {"starting", "waiting"},
         bucket' = bucket, turn' = turn, moment' = moment,
         moment >= lastStartedAt[bucket[q]] + Throttle,
         \A p \in Calls \ {q} : phase[p] = "waiting" => bucket[p] # bucket[q]
  PROVE  StartTimes'
<1> USE CoordinatorAssumption DEF Started, Never
<1>1. /\ moment \in Nat /\ \A b \in Buckets : lastStartedAt[b] \in Int
      /\ \A p \in Calls : startedAt[p] \in Int /\ bucket[p] \in Buckets /\ turn[p] \in Nat
  BY DEF CoordinatorTypeOK
<1>2. /\ phase'[q] = "sent" /\ \A p \in Calls \ {q} : phase'[p] = phase[p]
      /\ startedAt'[q] = moment /\ \A p \in Calls \ {q} : startedAt'[p] = startedAt[p]
      /\ lastStartedAt'[bucket[q]] = moment
      /\ \A b \in Buckets \ {bucket[q]} : lastStartedAt'[b] = lastStartedAt[b]
      /\ due' = due
  BY DEF BeginFetch, CoordinatorTypeOK
<1>3. \A b \in Buckets : lastStartedAt'[b] <= moment'
  BY <1>1, <1>2 DEF StartTimes
<1>4. HasTurn(q) /\ ~StartOver(q)
  BY DEF StartChains, StartsInOrder, StartOver
<1>5. \A p \in Calls : Started(p)' =>
        HasTurn(p)' /\ StartOver(p)' /\ startedAt'[p] <= lastStartedAt'[bucket'[p]]
  BY <1>1, <1>2, <1>4 DEF StartTimes, HasTurn, StartOver
<1>6. \A p \in Calls : phase'[p] = "waiting" => due'[p] >= lastStartedAt'[bucket'[p]] + Throttle
  BY <1>1, <1>2 DEF StartTimes
<1>7. ASSUME NEW p \in Calls, NEW r \in Calls, Started(p)', Started(r)', bucket[p] = bucket[r], turn[p] < turn[r]
      PROVE  startedAt'[r] - startedAt'[p] >= Throttle
  <2>1. CASE r = q
    <3>1. p # q /\ Started(p) /\ startedAt[p] <= lastStartedAt[bucket[q]]
      BY <1>1, <1>2, <1>7, <2>1 DEF StartTimes
    <3> QED
      BY <1>1, <1>2, <2>1, <3>1
  <2>2. CASE r # q
    <3>1. Started(r) /\ HasTurn(r) /\ StartOver(r)
      BY <1>2, <1>7, <2>2 DEF StartTimes
    <3>2. p # q
      BY <1>4, <1>7, <3>1 DEF StartChains, StartsInOrder, StartOver
    <3> QED
      BY <1>2, <1>7, <2>2, <3>1, <3>2 DEF StartTimes, StartsSpaced
  <2> QED
    BY <2>1, <2>2
<1>8. StartsSpaced'
  BY <1>7 DEF StartsSpaced
<1> QED
  BY <1>3, <1>5, <1>6, <1>8 DEF StartTimes

LEMMA StartTimesStep ==
  CoordinatorTypeOK /\ StartChains /\ StartTimes /\ [CoordinatorNext]_coordinatorVars => StartTimes'
<1> SUFFICES ASSUME CoordinatorTypeOK, StartChains, StartTimes, [CoordinatorNext]_coordinatorVars PROVE StartTimes'
  OBVIOUS
<1>0. CoordinatorTypeOK'
  BY CoordinatorTypeStep
<1>a. /\ moment \in Nat /\ Throttle \in Nat
      /\ \A q \in Calls : due[q] \in Int /\ bucket[q] \in Buckets
      /\ \A b \in Buckets : lastStartedAt[b] \in Int
  BY CoordinatorAssumption DEF CoordinatorTypeOK
\* Two calls of a bucket that are in line: the later one still waits for its predecessor.
<1>b. \A p, q \in Calls :
        /\ phase[p] \in {"starting", "waiting"} /\ phase[q] \in {"starting", "waiting"}
        /\ bucket[p] = bucket[q] /\ p # q
        => (turn[p] < turn[q] /\ phase[q] = "starting") \/ (turn[q] < turn[p] /\ phase[p] = "starting")
  <2>1. ASSUME NEW p \in Calls, NEW q \in Calls, phase[p] \in {"starting", "waiting"},
               phase[q] \in {"starting", "waiting"}, bucket[p] = bucket[q], p # q
        PROVE  (turn[p] < turn[q] /\ phase[q] = "starting") \/ (turn[q] < turn[p] /\ phase[p] = "starting")
    <3>1. HasTurn(p) /\ HasTurn(q) /\ ~StartOver(p) /\ ~StartOver(q)
      BY <2>1 DEF StartChains, StartsInOrder, StartOver
    <3>2. turn[p] < turn[q] \/ turn[q] < turn[p]
      <4>1. turn[p] # turn[q]
        BY <2>1, <3>1 DEF StartChains, StartTailIsLast
      <4>2. turn[p] \in Nat /\ turn[q] \in Nat
        BY DEF CoordinatorTypeOK
      <4> QED
        BY <4>1, <4>2
    <3>3. turn[p] < turn[q] => phase[q] = "starting"
      BY <2>1, <3>1 DEF StartChains, StartsInOrder
    <3>4. turn[q] < turn[p] => phase[p] = "starting"
      BY <2>1, <3>1 DEF StartChains, StartsInOrder
    <3> QED
      BY <3>2, <3>3, <3>4
  <2> QED
    BY <2>1
<1>1. ASSUME NEW q \in Calls, NEW b \in Buckets, NEW i \in Identities(b), Lead(q, b, i) PROVE NoneStarts
  <2>1. /\ phase[q] = "idle" /\ ~HasTurn(q)
        /\ \A p \in Calls \ {q} : bucket'[p] = bucket[p]
        /\ lastStartedAt' = lastStartedAt /\ startedAt' = startedAt /\ moment' = moment /\ due' = due
    BY <1>1 DEF Lead, Issue, IsNext, CoordinatorTypeOK, StartChains, StartsInOrder
  <2>2. phase'[q] \in {"queued", "sent", "starting"} /\ \A p \in Calls \ {q} : phase'[p] = phase[p] /\ turn'[p] = turn[p]
    <3>1. CASE QueuesMutation(q, b)
      BY <3>1 DEF QueuesMutation, CoordinatorTypeOK
    <3>2. CASE GoesOut(q, b)
      BY <3>2 DEF GoesOut, CoordinatorTypeOK
    <3>3. CASE LinesUp(q, b)
      BY <3>3 DEF LinesUp, ScheduleStart, CoordinatorTypeOK
    <3> QED
      BY <1>1, <3>1, <3>2, <3>3, LeadCases
  <2> QED
    BY <1>a, <2>1, <2>2 DEF NoneStarts, StartTimes, StartOver
<1>2. ASSUME NEW q \in Calls, NEW b \in Buckets, NEW i \in Identities(b), Join(q, b, i) PROVE NoneStarts
  <2>1. /\ phase[q] = "idle" /\ phase'[q] = "joined"
        /\ \A p \in Calls \ {q} : phase'[p] = phase[p] /\ bucket'[p] = bucket[p]
        /\ turn' = turn /\ lastStartedAt' = lastStartedAt /\ startedAt' = startedAt /\ moment' = moment /\ due' = due
    BY <1>2 DEF Join, IsNext, CoordinatorTypeOK
  <2> QED
    BY <1>a, <2>1 DEF NoneStarts, StartTimes, StartOver
<1>3. ASSUME NEW q \in Calls, AbortCall(q) PROVE NoneStarts
  BY <1>3, <1>a DEF AbortCall, NoneStarts, StartTimes, StartOver
<1>4. ASSUME NEW q \in Calls, MutationTurn(q) PROVE NoneStarts
  <2>1. /\ phase[q] = "queued" /\ ~HasTurn(q) /\ phase'[q] = "starting"
        /\ \A p \in Calls \ {q} : phase'[p] = phase[p] /\ turn'[p] = turn[p]
        /\ bucket' = bucket
        /\ lastStartedAt' = lastStartedAt /\ startedAt' = startedAt /\ moment' = moment /\ due' = due
    BY <1>4 DEF MutationTurn, ScheduleStart, CoordinatorTypeOK, StartChains, StartsInOrder
  <2> QED
    BY <1>a, <2>1 DEF NoneStarts, StartTimes, StartOver
<1>c. ASSUME NEW q \in Calls, AbandonStart(q), phase[q] \in {"starting", "waiting"},
             bucket' = bucket, turn' = turn, moment' = moment
      PROVE  NoneStarts
  <2>1. phase'[q] = "failed" /\ \A p \in Calls \ {q} : phase'[p] = phase[p]
    BY <1>c DEF AbandonStart, CoordinatorTypeOK
  <2> QED
    BY <1>a, <1>c, <2>1 DEF AbandonStart, NoneStarts, StartTimes, StartOver
<1>5. ASSUME NEW q \in Calls, StartTurn(q) PROVE StartTimes'
  <2>1. /\ phase[q] = "starting" /\ StartDone(startAhead[q])
        /\ bucket' = bucket /\ turn' = turn /\ moment' = moment
    BY <1>5 DEF StartTurn
  <2>2. CASE AbandonStart(q)
    BY <1>0, <1>c, <2>1, <2>2, NoneStartsSound
  <2>3. CASE Elapsed(bucket[q]) >= Throttle /\ BeginFetch(q)
    <3>1. moment >= lastStartedAt[bucket[q]] + Throttle
      BY <1>a, <2>3 DEF Elapsed
    <3>2. ASSUME NEW p \in Calls \ {q}, phase[p] = "waiting", bucket[p] = bucket[q] PROVE FALSE
      <4>1. turn[p] < turn[q] /\ HasTurn(p) /\ ~StartOver(p)
        BY <1>b, <2>1, <3>2 DEF StartChains, StartsInOrder, StartOver
      <4> QED
        BY <2>1, <3>2, <4>1, TurnComes
    <3> QED
      BY <1>0, <2>1, <2>3, <3>1, <3>2, CallStarts
  <2>4. CASE /\ phase' = [phase EXCEPT ![q] = "waiting"]
             /\ due' = [due EXCEPT ![q] = lastStartedAt[bucket[q]] + Throttle]
             /\ UNCHANGED <<startedAt, lastStartedAt, inFlightReads>>
    <3>1. /\ phase'[q] = "waiting" /\ due'[q] = lastStartedAt[bucket[q]] + Throttle
          /\ \A p \in Calls \ {q} : phase'[p] = phase[p] /\ due'[p] = due[p]
      BY <2>4 DEF CoordinatorTypeOK
    <3>2. NoneStarts
      BY <1>a, <2>1, <2>4, <3>1 DEF NoneStarts, StartTimes, StartOver
    <3> QED
      BY <1>0, <3>2, NoneStartsSound
  <2> QED
    BY <1>5, <2>2, <2>3, <2>4, Zenon DEF StartTurn
<1>6. ASSUME NEW q \in Calls, WaitEnds(q) PROVE StartTimes'
  <2>1. /\ phase[q] = "waiting"
        /\ bucket' = bucket /\ turn' = turn /\ moment' = moment
    BY <1>6 DEF WaitEnds
  <2>2. CASE AbandonStart(q)
    BY <1>0, <1>c, <2>1, <2>2, NoneStartsSound
  <2>3. CASE moment >= due[q] /\ BeginFetch(q)
    <3>1. moment >= lastStartedAt[bucket[q]] + Throttle
      BY <1>a, <2>1, <2>3 DEF StartTimes
    <3>2. \A p \in Calls \ {q} : phase[p] = "waiting" => bucket[p] # bucket[q]
      BY <1>b, <2>1
    <3> QED
      BY <1>0, <2>1, <2>3, <3>1, <3>2, CallStarts
  <2> QED
    BY <1>6, <2>2, <2>3 DEF WaitEnds
<1>7. ASSUME NEW q \in Calls, JoinedSettles(q) \/ FetchEnds(q) PROVE NoneStarts
  <2>1. phase'[q] \in {"answered", "failed"} /\ \A p \in Calls \ {q} : phase'[p] = phase[p]
    BY <1>7 DEF JoinedSettles, FetchEnds, FetchSettles, Over, CoordinatorTypeOK
  <2>2. /\ bucket' = bucket /\ turn' = turn /\ moment' = moment /\ due' = due
        /\ lastStartedAt' = lastStartedAt /\ startedAt' = startedAt
    BY <1>7 DEF JoinedSettles, FetchEnds, FetchSettles
  <2> QED
    BY <1>a, <2>1, <2>2 DEF NoneStarts, StartTimes, StartOver
<1>8. CASE Tick \/ UNCHANGED coordinatorVars
  <2>1. NoneStarts
    BY <1>8, <1>a DEF Tick, coordinatorVars, NoneStarts, StartTimes, StartOver
  <2> QED
    BY <1>0, <2>1, NoneStartsSound
<1> QED
  BY <1>0, <1>1, <1>2, <1>3, <1>4, <1>5, <1>6, <1>7, <1>8, NoneStartsSound DEF CoordinatorNext, CoordinatorStep, Goes

--------------------------------------------------------------------------------
(* The reads that are shared.                                              *)

\* A read with an identity is the one its bucket and identity name until it settles.
ReadsShared ==
  \A q \in Calls :
    phase[q] \in {"queued", "starting", "waiting", "sent"} /\ identity[q] # NoCall
      => inFlightReads[bucket[q]][identity[q]] = q

\* A step of a call that keeps the reads of the others shared.
LEMMA OthersStayShared ==
  ASSUME CoordinatorTypeOK, ReadsShared, NEW q \in Calls,
         \A p \in Calls \ {q} : phase'[p] = phase[p],
         bucket' = bucket, identity' = identity,
         \/ inFlightReads' = inFlightReads /\ phase[q] \in {"queued", "starting", "waiting", "sent"}
         \/ inFlightReads' \in {inFlightReads, Unshared(q)} /\ phase'[q] \in {"answered", "failed"}
  PROVE  ReadsShared'
<1>1. ASSUME NEW p \in Calls, phase'[p] \in {"queued", "starting", "waiting", "sent"}, identity[p] # NoCall
      PROVE  inFlightReads'[bucket[p]][identity[p]] = p
  <2>1. bucket[p] \in Buckets /\ identity[p] \in Queries
    BY <1>1 DEF CoordinatorTypeOK
  <2>2. inFlightReads[bucket[p]][identity[p]] = p
    BY <1>1 DEF ReadsShared
  <2> QED
    BY <1>1, <2>1, <2>2 DEF Unshared
<1> QED
  BY <1>1 DEF ReadsShared

LEMMA ReadsSharedStep ==
  CoordinatorTypeOK /\ ReadsShared /\ [CoordinatorNext]_coordinatorVars => ReadsShared'
<1> SUFFICES ASSUME CoordinatorTypeOK, ReadsShared, [CoordinatorNext]_coordinatorVars PROVE ReadsShared'
  OBVIOUS
<1>1. ASSUME NEW q \in Calls, NEW b \in Buckets, NEW i \in Identities(b), Lead(q, b, i) PROVE ReadsShared'
  <2>1. \A p \in Calls \ {q} : phase'[p] = phase[p]
    <3>1. CASE QueuesMutation(q, b)
      BY <3>1 DEF QueuesMutation, CoordinatorTypeOK
    <3>2. CASE GoesOut(q, b)
      BY <3>2 DEF GoesOut, CoordinatorTypeOK
    <3>3. CASE LinesUp(q, b)
      BY <3>3 DEF LinesUp, ScheduleStart, CoordinatorTypeOK
    <3> QED
      BY <1>1, <3>1, <3>2, <3>3, LeadCases
  <2>2. /\ bucket'[q] = b /\ identity'[q] = i
        /\ \A p \in Calls \ {q} : bucket'[p] = bucket[p] /\ identity'[p] = identity[p]
        /\ i \in Queries \cup {NoCall}
        /\ i # NoCall => inFlightReads[b][i] = NoCall
        /\ inFlightReads' = IF i = NoCall THEN inFlightReads ELSE [inFlightReads EXCEPT ![b][i] = q]
    BY <1>1 DEF Lead, Issue, Identities, CoordinatorTypeOK
  <2>3. ASSUME NEW p \in Calls, phase'[p] \in {"queued", "starting", "waiting", "sent"}, identity'[p] # NoCall
        PROVE  inFlightReads'[bucket'[p]][identity'[p]] = p
    <3>1. CASE p = q
      BY <2>2, <2>3, <3>1 DEF CoordinatorTypeOK
    <3>2. CASE p # q
      <4>1. /\ inFlightReads[bucket[p]][identity[p]] = p /\ bucket'[p] = bucket[p] /\ identity'[p] = identity[p]
            /\ bucket[p] \in Buckets /\ identity[p] \in Queries
        BY <2>1, <2>2, <2>3, <3>2 DEF ReadsShared, CoordinatorTypeOK
      <4>2. CASE i = NoCall
        BY <2>2, <4>1, <4>2
      <4>3. CASE i # NoCall
        <5>1. ~(bucket[p] = b /\ identity[p] = i)
          BY <2>2, <4>1, <4>3, CoordinatorAssumption
        <5> QED
          BY <2>2, <4>1, <4>3, <5>1 DEF CoordinatorTypeOK
      <4> QED
        BY <4>2, <4>3
    <3> QED
      BY <3>1, <3>2
  <2> QED
    BY <2>3 DEF ReadsShared
<1>2. ASSUME NEW q \in Calls, NEW b \in Buckets, NEW i \in Identities(b), Join(q, b, i) PROVE ReadsShared'
  <2>1. /\ phase'[q] = "joined" /\ inFlightReads' = inFlightReads
        /\ \A p \in Calls \ {q} : phase'[p] = phase[p] /\ bucket'[p] = bucket[p] /\ identity'[p] = identity[p]
    BY <1>2 DEF Join, CoordinatorTypeOK
  <2> QED
    BY <2>1 DEF ReadsShared
<1>3. ASSUME NEW q \in Calls, AbortCall(q) PROVE ReadsShared'
  BY <1>3 DEF AbortCall, ReadsShared
<1>4. ASSUME NEW q \in Calls, MutationTurn(q) PROVE ReadsShared'
  <2>1. /\ phase[q] = "queued" /\ \A p \in Calls \ {q} : phase'[p] = phase[p]
        /\ bucket' = bucket /\ identity' = identity /\ inFlightReads' = inFlightReads
    BY <1>4 DEF MutationTurn, ScheduleStart, CoordinatorTypeOK
  <2> QED
    BY <2>1, OthersStayShared
<1>5. ASSUME NEW q \in Calls, StartTurn(q) \/ WaitEnds(q) PROVE ReadsShared'
  <2>1. /\ phase[q] \in {"starting", "waiting"} /\ \A p \in Calls \ {q} : phase'[p] = phase[p]
        /\ bucket' = bucket /\ identity' = identity
    BY <1>5 DEF StartTurn, WaitEnds, BeginFetch, AbandonStart, CoordinatorTypeOK
  <2>2. \/ inFlightReads' = inFlightReads
        \/ inFlightReads' = Unshared(q) /\ phase'[q] = "failed"
    BY <1>5 DEF StartTurn, WaitEnds, BeginFetch, AbandonStart, CoordinatorTypeOK
  <2> QED
    BY <2>1, <2>2, OthersStayShared
<1>6. ASSUME NEW q \in Calls, JoinedSettles(q) \/ FetchEnds(q) PROVE ReadsShared'
  <2>1. /\ phase'[q] \in {"answered", "failed"} /\ \A p \in Calls \ {q} : phase'[p] = phase[p]
        /\ bucket' = bucket /\ identity' = identity /\ inFlightReads' \in {inFlightReads, Unshared(q)}
    BY <1>6 DEF JoinedSettles, FetchEnds, FetchSettles, Over, CoordinatorTypeOK
  <2> QED
    BY <2>1, OthersStayShared
<1>7. CASE Tick \/ UNCHANGED coordinatorVars
  BY <1>7 DEF Tick, coordinatorVars, ReadsShared
<1> QED
  BY <1>1, <1>2, <1>3, <1>4, <1>5, <1>6, <1>7 DEF CoordinatorNext, CoordinatorStep, Goes

--------------------------------------------------------------------------------
(* No call is left waiting. Only mutations wait for mutations, and a call  *)
(* that joined a read has its answer from one of its bucket that joined    *)
(* no other.                                                               *)

LeadsARead(q) == phase[q] \notin {"idle", "joined"}

WaitersKnown ==
  /\ \A q \in Calls : phase[q] = "queued" => Kind[bucket[q]] = "mutation"
  /\ \A b \in Buckets : \A i \in Queries : inFlightReads[b][i] # NoCall =>
       LeadsARead(inFlightReads[b][i]) /\ bucket[inFlightReads[b][i]] = b
  /\ \A q \in Calls : phase[q] = "joined" =>
       /\ Kind[bucket[q]] = "read" /\ leader[q] \in Calls
       /\ LeadsARead(leader[q]) /\ bucket[leader[q]] = bucket[q]

\* A step in which no call begins.
LEMMA WaitersGoOn ==
  ASSUME CoordinatorTypeOK, WaitersKnown, bucket' = bucket, leader' = leader,
         \A q \in Calls : /\ phase[q] = "idle" <=> phase'[q] = "idle"
                          /\ phase'[q] \in {"joined", "queued"} => phase'[q] = phase[q]
                          /\ phase[q] = "joined" => phase'[q] \in {"joined", "answered", "failed"},
         \A b \in Buckets : \A i \in Queries : inFlightReads'[b][i] \in {NoCall, inFlightReads[b][i]}
  PROVE  WaitersKnown'
<1>1. \A q \in Calls : LeadsARead(q) => LeadsARead(q)'
  BY DEF LeadsARead
<1>2. \A b \in Buckets : \A i \in Queries : inFlightReads[b][i] \in Calls \cup {NoCall}
  BY DEF CoordinatorTypeOK
<1>3. \A b \in Buckets : \A i \in Queries : inFlightReads'[b][i] # NoCall =>
        inFlightReads'[b][i] = inFlightReads[b][i] /\ inFlightReads[b][i] \in Calls
  BY <1>2
<1> QED
  BY <1>1, <1>3 DEF WaitersKnown

\* A step in which one does.
LEMMA WaiterBegins ==
  ASSUME CoordinatorTypeOK, WaitersKnown, NEW q \in Calls, phase[q] = "idle", NEW b \in Buckets,
         bucket' = [bucket EXCEPT ![q] = b], \A p \in Calls \ {q} : phase'[p] = phase[p] /\ leader'[p] = leader[p],
         phase'[q] # "idle", phase'[q] = "queued" => Kind[b] = "mutation",
         phase'[q] = "joined" =>
           Kind[b] = "read" /\ leader'[q] \in Calls /\ LeadsARead(leader'[q]) /\ bucket[leader'[q]] = b,
         \A c \in Buckets : \A i \in Queries :
           \/ inFlightReads'[c][i] = inFlightReads[c][i]
           \/ inFlightReads'[c][i] = q /\ c = b /\ phase'[q] # "joined"
  PROVE  WaitersKnown'
<1>1. \A p \in Calls : LeadsARead(p) => p # q /\ LeadsARead(p)' /\ bucket'[p] = bucket[p]
  BY DEF LeadsARead, CoordinatorTypeOK
<1>2. bucket'[q] = b /\ \A p \in Calls \ {q} : bucket'[p] = bucket[p]
  BY DEF CoordinatorTypeOK
<1>3. \A c \in Buckets : \A i \in Queries : inFlightReads[c][i] \in Calls \cup {NoCall}
  BY DEF CoordinatorTypeOK
<1>4. ASSUME NEW c \in Buckets, NEW i \in Queries, inFlightReads'[c][i] # NoCall
      PROVE  LeadsARead(inFlightReads[c][i])' /\ bucket'[inFlightReads'[c][i]] = c
  <2>1. CASE inFlightReads'[c][i] = inFlightReads[c][i]
    <3>1. inFlightReads[c][i] \in Calls /\ LeadsARead(inFlightReads[c][i]) /\ bucket[inFlightReads[c][i]] = c
      BY <1>3, <1>4, <2>1 DEF WaitersKnown
    <3> QED
      BY <1>1, <2>1, <3>1 DEF LeadsARead
  <2>2. CASE inFlightReads'[c][i] = q /\ c = b /\ phase'[q] # "joined"
    BY <1>2, <2>2 DEF LeadsARead
  <2> QED
    BY <2>1, <2>2
<1>5. ASSUME NEW p \in Calls, phase'[p] = "joined"
      PROVE  /\ Kind[bucket'[p]] = "read" /\ leader'[p] \in Calls
             /\ phase'[leader'[p]] \notin {"idle", "joined"} /\ bucket'[leader'[p]] = bucket'[p]
  <2>1. CASE p = q
    BY <1>1, <1>2, <1>5, <2>1 DEF LeadsARead
  <2>2. CASE p # q
    <3>1. Kind[bucket[p]] = "read" /\ leader[p] \in Calls /\ LeadsARead(leader[p]) /\ bucket[leader[p]] = bucket[p]
      BY <1>5, <2>2 DEF WaitersKnown
    <3> QED
      BY <1>1, <1>2, <2>2, <3>1 DEF LeadsARead
  <2> QED
    BY <2>1, <2>2
<1>6. \A p \in Calls : phase'[p] = "queued" => Kind[bucket'[p]] = "mutation"
  BY <1>2 DEF WaitersKnown
<1> QED
  BY <1>4, <1>5, <1>6 DEF WaitersKnown, LeadsARead

LEMMA WaitersKnownStep ==
  CoordinatorTypeOK /\ WaitersKnown /\ [CoordinatorNext]_coordinatorVars => WaitersKnown'
<1> SUFFICES ASSUME CoordinatorTypeOK, WaitersKnown, [CoordinatorNext]_coordinatorVars PROVE WaitersKnown'
  OBVIOUS
<1>1. ASSUME NEW q \in Calls, NEW b \in Buckets, NEW i \in Identities(b), Lead(q, b, i) PROVE WaitersKnown'
  <2>1. /\ phase'[q] \in {"queued", "sent", "starting"} /\ \A p \in Calls \ {q} : phase'[p] = phase[p]
        /\ phase'[q] = "queued" => Kind[b] = "mutation"
    <3>1. CASE QueuesMutation(q, b)
      BY <3>1 DEF QueuesMutation, CoordinatorTypeOK
    <3>2. CASE GoesOut(q, b)
      BY <3>2 DEF GoesOut, CoordinatorTypeOK
    <3>3. CASE LinesUp(q, b)
      BY <3>3 DEF LinesUp, ScheduleStart, CoordinatorTypeOK
    <3> QED
      BY <1>1, <3>1, <3>2, <3>3, LeadCases
  <2>2. /\ phase[q] = "idle" /\ bucket' = [bucket EXCEPT ![q] = b] /\ leader' = leader /\ i \in Queries \cup {NoCall}
        /\ inFlightReads' = IF i = NoCall THEN inFlightReads ELSE [inFlightReads EXCEPT ![b][i] = q]
    BY <1>1 DEF Lead, Issue, IsNext, Identities
  <2>3. \A c \in Buckets : \A j \in Queries :
          inFlightReads'[c][j] = inFlightReads[c][j] \/ (inFlightReads'[c][j] = q /\ c = b /\ phase'[q] # "joined")
    BY <2>1, <2>2 DEF CoordinatorTypeOK
  <2> QED
    BY <2>1, <2>2, <2>3, WaiterBegins
<1>2. ASSUME NEW q \in Calls, NEW b \in Buckets, NEW i \in Identities(b), Join(q, b, i) PROVE WaitersKnown'
  <2>1. /\ phase[q] = "idle" /\ bucket' = [bucket EXCEPT ![q] = b] /\ phase'[q] = "joined" /\ i \in Queries
        /\ inFlightReads' = inFlightReads /\ leader'[q] = inFlightReads[b][i] /\ inFlightReads[b][i] # NoCall
        /\ \A p \in Calls \ {q} : phase'[p] = phase[p] /\ leader'[p] = leader[p]
    BY <1>2 DEF Join, IsNext, CoordinatorTypeOK
  <2>2. Kind[b] = "read"
    BY <2>1, CoordinatorAssumption DEF Identities
  <2>3. leader'[q] \in Calls /\ LeadsARead(leader'[q]) /\ bucket[leader'[q]] = b
    <3>1. inFlightReads[b][i] \in Calls /\ LeadsARead(inFlightReads[b][i]) /\ bucket[inFlightReads[b][i]] = b
      BY <2>1 DEF WaitersKnown, CoordinatorTypeOK
    <3> QED
      BY <2>1, <3>1
  <2> QED
    BY <2>1, <2>2, <2>3, WaiterBegins
<1>3. ASSUME NEW q \in Calls, AbortCall(q) PROVE WaitersKnown'
  BY <1>3, WaitersGoOn DEF AbortCall
<1>4. ASSUME NEW q \in Calls, MutationTurn(q) \/ StartTurn(q) \/ WaitEnds(q) \/ JoinedSettles(q) \/ FetchEnds(q)
      PROVE  WaitersKnown'
  <2>1. /\ bucket' = bucket /\ leader' = leader /\ phase[q] # "idle" /\ \A p \in Calls \ {q} : phase'[p] = phase[p]
        /\ phase'[q] \in {"starting", "waiting", "sent", "answered", "failed"}
        /\ phase[q] = "joined" => phase'[q] \in {"answered", "failed"}
    <3>1. CASE MutationTurn(q)
      BY <3>1 DEF MutationTurn, ScheduleStart, CoordinatorTypeOK
    <3>2. CASE StartTurn(q) \/ WaitEnds(q)
      BY <3>2 DEF StartTurn, WaitEnds, BeginFetch, AbandonStart, CoordinatorTypeOK
    <3>3. CASE JoinedSettles(q) \/ FetchEnds(q)
      BY <3>3 DEF JoinedSettles, FetchEnds, FetchSettles, Over, CoordinatorTypeOK
    <3> QED
      BY <1>4, <3>1, <3>2, <3>3
  <2>2. inFlightReads' \in {inFlightReads, Unshared(q)}
    BY <1>4 DEF MutationTurn, ScheduleStart, StartTurn, WaitEnds, BeginFetch, AbandonStart, JoinedSettles, FetchEnds,
                FetchSettles
  <2>3. \A b \in Buckets : \A i \in Queries : inFlightReads'[b][i] \in {NoCall, inFlightReads[b][i]}
    BY <2>2 DEF Unshared
  <2>4. \A p \in Calls : /\ phase[p] = "idle" <=> phase'[p] = "idle"
                         /\ phase'[p] \in {"joined", "queued"} => phase'[p] = phase[p]
                         /\ phase[p] = "joined" => phase'[p] \in {"joined", "answered", "failed"}
    BY <2>1
  <2> QED
    BY <2>1, <2>3, <2>4, WaitersGoOn
<1>5. CASE Tick \/ UNCHANGED coordinatorVars
  BY <1>5, WaitersGoOn DEF Tick, coordinatorVars
<1> QED
  BY <1>1, <1>2, <1>3, <1>4, <1>5 DEF CoordinatorNext, CoordinatorStep, Goes

\* Of the calls that wait in line, the first one can go on: the first to start, or, when
\* none is in that line, the first mutation.
LEMMA NobodyIsStuck ==
  ASSUME CoordinatorTypeOK, MutationChains, StartChains, WaitersKnown PROVE NoCallStuck
<1> SUFFICES ASSUME NEW b \in Buckets, NEW r \in Calls, bucket[r] = b, Unsettled(r),
                    \A q \in Calls : bucket[q] = b => ~CanGoOn(q)
             PROVE  FALSE
  BY DEF NoCallStuck
<1>1. \A q \in Calls : bucket[q] = b => phase[q] \notin {"waiting", "sent"}
  BY DEF CanGoOn
<1>2. \A q \in Calls : phase[q] \in Phases /\ turn[q] \in Nat /\ nth[q] \in Nat
  <2>1. phase \in [Calls -> Phases] /\ turn \in [Calls -> Nat] /\ nth \in [Calls -> Nat]
    BY DEF CoordinatorTypeOK
  <2> QED
    BY <2>1
<1>3. \A q \in Calls : bucket[q] = b => phase[q] # "starting"
  <2> DEFINE First == {turn[q] : q \in {p \in Calls : bucket[p] = b /\ phase[p] = "starting"}}
  <2>1. SUFFICES ASSUME First # {} PROVE FALSE
    OBVIOUS
  <2>2. First \in SUBSET Nat
    BY <1>2
  <2>3. PICK n \in First : \A m \in First : n <= m
    BY <2>1, <2>2, NatLeast
  <2>4. PICK q \in Calls : bucket[q] = b /\ phase[q] = "starting" /\ turn[q] = n
    BY <2>3
  <2>5. ~StartDone(startAhead[q]) /\ HasTurn(q)
    BY <2>4 DEF CanGoOn, StartChains, StartsInOrder
  <2>6. startAhead[q] \in Calls /\ ~StartOver(startAhead[q])
    BY <2>5 DEF StartDone, CoordinatorTypeOK
  <2>7. HasTurn(startAhead[q]) /\ bucket[startAhead[q]] = b /\ turn[startAhead[q]] < n
    BY <2>4, <2>5, <2>6, CoordinatorAssumption DEF StartChains, StartAheadIsJustBefore
  <2>8. phase[startAhead[q]] = "starting"
    BY <1>1, <1>2, <2>6, <2>7 DEF StartChains, StartsInOrder, StartOver, Phases
  <2>9. turn[startAhead[q]] \in First /\ turn[startAhead[q]] \in Nat /\ n \in Nat
    BY <1>2, <2>2, <2>3, <2>6, <2>7, <2>8
  <2> HIDE DEF First
  <2> QED
    BY <2>3, <2>7, <2>9
<1>4. \A q \in Calls : bucket[q] = b => phase[q] # "queued"
  <2> DEFINE First == {nth[q] : q \in {p \in Calls : bucket[p] = b /\ phase[p] = "queued"}}
  <2>1. SUFFICES ASSUME First # {} PROVE FALSE
    OBVIOUS
  <2>2. First \in SUBSET Nat
    BY <1>2
  <2>3. PICK n \in First : \A m \in First : n <= m
    BY <2>1, <2>2, NatLeast
  <2>4. PICK q \in Calls : bucket[q] = b /\ phase[q] = "queued" /\ nth[q] = n
    BY <2>3
  <2>5. ahead[q] \in Calls /\ ~Over(ahead[q])
    BY <2>4 DEF CanGoOn, MutationDone, CoordinatorTypeOK
  <2>6. Mutation(q)
    BY <2>4 DEF WaitersKnown, Mutation
  <2>7. Mutation(ahead[q]) /\ bucket[ahead[q]] = b /\ nth[ahead[q]] < n
    BY <2>4, <2>5, <2>6, CoordinatorAssumption DEF MutationChains, AheadIsJustBefore
  <2>8. phase[ahead[q]] = "queued"
    BY <1>1, <1>2, <1>3, <2>5, <2>7 DEF Mutation, Over, Phases, WaitersKnown
  <2>9. nth[ahead[q]] \in First /\ nth[ahead[q]] \in Nat /\ n \in Nat
    BY <1>2, <2>2, <2>3, <2>5, <2>7, <2>8
  <2> HIDE DEF First
  <2> QED
    BY <2>3, <2>7, <2>9
<1>5. phase[r] = "joined"
  BY <1>1, <1>2, <1>3, <1>4 DEF Unsettled, Phases
<1>6. leader[r] \in Calls /\ LeadsARead(leader[r]) /\ bucket[leader[r]] = b
  BY <1>5 DEF WaitersKnown
<1>7. Over(leader[r])
  BY <1>1, <1>2, <1>3, <1>4, <1>6 DEF LeadsARead, Over, Phases
<1> QED
  BY <1>5, <1>7 DEF CanGoOn

--------------------------------------------------------------------------------

LEMMA CoordinatorStarts == CoordinatorInit => MutationChains /\ StartChains /\ StartTimes /\ ReadsShared /\ WaitersKnown
<1> SUFFICES ASSUME CoordinatorInit PROVE MutationChains /\ StartChains /\ StartTimes /\ ReadsShared /\ WaitersKnown
  OBVIOUS
<1> USE CoordinatorAssumption DEF CoordinatorInit
<1>1. MutationChains
  BY DEF MutationChains, TailIsLast, AheadIsJustBefore, MutationsInOrder, Mutation
<1>2. StartChains
  BY DEF StartChains, StartTailIsLast, StartAheadIsJustBefore, StartsInOrder, HasTurn
<1>3. StartTimes
  BY DEF StartTimes, StartsSpaced, Started, Never
<1>4. ReadsShared
  BY DEF ReadsShared
<1>5. WaitersKnown
  BY DEF WaitersKnown
<1> QED
  BY <1>1, <1>2, <1>3, <1>4, <1>5

\* The mutations of a resource arrive in the order of their calls, no resource is asked
\* faster than the throttle, equal reads are one request, and while a call of a bucket is not
\* settled one of that bucket can go on, whatever is aborted or fails.
THEOREM CoordinatorIsSound == CoordinatorSpec => []CoordinatorSound
<1> DEFINE Inv == CoordinatorTypeOK /\ MutationChains /\ StartChains /\ StartTimes /\ ReadsShared /\ WaitersKnown
<1>1. CoordinatorInit => Inv
  BY CoordinatorTypeInit, CoordinatorStarts
<1>2. Inv /\ [CoordinatorNext]_coordinatorVars => Inv'
  BY CoordinatorTypeStep, MutationChainsStep, StartChainsStep, StartTimesStep, ReadsSharedStep, WaitersKnownStep
<1>3. Inv => CoordinatorSound
  BY NobodyIsStuck DEF MutationChains, StartTimes, ReadsShared, CoordinatorSound, OneReadInFlight
<1> QED
  BY <1>1, <1>2, <1>3, PTL DEF CoordinatorSpec

--------------------------------------------------------------------------------
(* The totals of edited lines: the review never acts on a line with the    *)
(* total of other fields. What makes it inductive is that each line has at *)
(* most one calculation of its fields as they are, and that this one has   *)
(* read them.                                                              *)

\* A line that is being calculated has a timer or one calculation of its fields, never
\* both, and only such a line is waited for.
OneCalculation ==
  /\ \A c \in running : IsKnown(c)
  /\ \A c \in running : IsCurrent(c) => ~calc[c.root].timer /\ c.input = fields[c.root] /\ calc[c.root].pending
  /\ \A c, d \in running : c.root = d.root /\ IsCurrent(c) /\ IsCurrent(d) => c = d
  /\ \A r \in Roots :
       /\ calc[r].waited => calc[r].pending
       /\ calc[r].timer => calc[r].pending
       /\ calc[r].pending => calc[r].timer \/ \E c \in running : c.root = r /\ IsCurrent(c)

Calculations ==
  [version : 0 .. MaxEdits, timer : BOOLEAN, pending : BOOLEAN, error : BOOLEAN, waited : BOOLEAN]

TotalInv == TotalTypeOK /\ OneCalculation /\ LineTotalsSound

LEMMA TotalStarts == TotalInit => TotalInv
<1> SUFFICES ASSUME TotalInit PROVE TotalInv
  OBVIOUS
<1>1. PICK i \in Inputs \ BadInputs : TRUE
  BY LineTotalAssumption
<1>2. (CHOOSE j \in Inputs \ BadInputs : TRUE) \in Inputs
  BY <1>1
<1>3. TotalTypeOK
  BY <1>2, LineTotalAssumption DEF TotalInit, TotalTypeOK, NoCalculation
<1>4. OneCalculation
  BY DEF TotalInit, OneCalculation, NoCalculation
<1>5. LineTotalsSound
  BY DEF TotalInit, LineTotalsSound, SettledLineIsTotalled, ActedOnTotals, ButtonComesBack, NoCalculation
<1> QED
  BY <1>3, <1>4, <1>5 DEF TotalInv

\* An edit makes the calculations of the line stale.
LEMMA EditKeeps ==
  ASSUME TotalInv, NEW r \in Roots, NEW i \in Inputs, Edit(r, i) PROVE TotalInv'
<1> USE LineTotalAssumption
<1>1. /\ calc[r].version < MaxEdits
      /\ fields' = [fields EXCEPT ![r] = i] /\ total' = total /\ running' = running /\ acted' = acted
      /\ button' = Synchronized(calc', button)
      /\ calc' = [calc EXCEPT ![r] = [calc[r] EXCEPT !.version = calc[r].version + 1, !.timer = TRUE, !.pending = TRUE,
                                                     !.error = FALSE]]
  BY DEF Edit
<1>a. calc \in [Roots -> Calculations]
  BY DEF TotalInv, TotalTypeOK, Calculations
<1>b. [calc[r] EXCEPT !.version = calc[r].version + 1, !.timer = TRUE, !.pending = TRUE, !.error = FALSE]
        \in Calculations
  <2>1. /\ calc[r] \in Calculations /\ calc[r].version \in 0 .. MaxEdits
        /\ calc[r].version + 1 \in 0 .. MaxEdits
    BY <1>1, <1>a DEF Calculations
  <2> DEFINE v == calc[r].version + 1
  <2> HIDE DEF v
  <2>2. ASSUME v \in 0 .. MaxEdits
        PROVE  [calc[r] EXCEPT !.version = v, !.timer = TRUE, !.pending = TRUE, !.error = FALSE] \in Calculations
    BY <2>1, <2>2 DEF Calculations
  <2> QED
    BY <2>1, <2>2 DEF v
<1>c. /\ calc' \in [Roots -> Calculations]
      /\ \A s \in Roots \ {r} : calc'[s] = calc[s]
      /\ calc'[r] = [calc[r] EXCEPT !.version = calc[r].version + 1, !.timer = TRUE, !.pending = TRUE,
                                    !.error = FALSE]
  BY <1>1, <1>a, <1>b
<1>2. TotalTypeOK'
  <2>1. button' \in {"enabled", "busy", "blocked"}
    BY <1>1 DEF TotalInv, TotalTypeOK, Synchronized
  <2>2. fields' \in [Roots -> Inputs]
    BY <1>1 DEF TotalInv, TotalTypeOK
  <2> QED
    BY <1>1, <1>c, <2>1, <2>2 DEF TotalInv, TotalTypeOK, Calculations
<1>3. /\ calc'[r].version = calc[r].version + 1 /\ calc'[r].timer /\ calc'[r].pending /\ ~calc'[r].error
      /\ calc'[r].waited = calc[r].waited
  BY <1>a, <1>c DEF Calculations
<1>4. \A c \in running : c.root \in Roots /\ c.version \in Nat /\ calc[c.root].version \in Nat
  BY DEF TotalInv, TotalTypeOK
<1>5. ASSUME NEW c \in running PROVE IsKnown(c)' /\ (IsCurrent(c)' => IsCurrent(c) /\ c.root # r)
  <2>1. c.version <= calc[c.root].version
    BY DEF IsKnown, TotalInv, OneCalculation
  <2>2. CASE c.root = r
    BY <1>3, <1>4, <2>1, <2>2 DEF IsKnown, IsCurrent
  <2>3. CASE c.root # r
    BY <1>c, <1>4, <2>1, <2>3 DEF IsKnown, IsCurrent
  <2> QED
    BY <2>2, <2>3
<1>6. \A c \in running : c.root # r => IsCurrent(c)' = IsCurrent(c)
  BY <1>c, <1>4 DEF IsCurrent
<1>7. OneCalculation'
  <2>1. \A c \in running : IsKnown(c)'
    BY <1>5 DEF TotalInv, OneCalculation
  <2>2. \A c \in running : IsCurrent(c)' => ~calc'[c.root].timer /\ c.input = fields'[c.root] /\ calc'[c.root].pending
    BY <1>1, <1>c, <1>4, <1>5 DEF TotalInv, OneCalculation
  <2>3. \A c, d \in running : c.root = d.root /\ IsCurrent(c)' /\ IsCurrent(d)' => c = d
    BY <1>5 DEF TotalInv, OneCalculation
  <2>4. \A s \in Roots :
          /\ calc'[s].waited => calc'[s].pending
          /\ calc'[s].timer => calc'[s].pending
          /\ calc'[s].pending => calc'[s].timer \/ \E c \in running : c.root = s /\ IsCurrent(c)'
    <3>1. ASSUME NEW s \in Roots, s # r
          PROVE  /\ calc[s].waited => calc[s].pending
                 /\ calc[s].timer => calc[s].pending
                 /\ calc[s].pending => calc[s].timer \/ \E c \in running : c.root = s /\ IsCurrent(c)'
      BY <1>6, <3>1 DEF TotalInv, OneCalculation
    <3> QED
      BY <1>c, <1>3, <3>1
  <2> QED
    BY <1>1, <2>1, <2>2, <2>3, <2>4 DEF OneCalculation
<1>8. SettledLineIsTotalled'
  BY <1>1, <1>c, <1>3 DEF TotalInv, TotalTypeOK, LineTotalsSound, SettledLineIsTotalled, NeedsCalculation
<1>9. ActedOnTotals'
  BY <1>1 DEF TotalInv, LineTotalsSound, ActedOnTotals
<1>10. ButtonComesBack'
  <2>1. button' = "busy" => Resumable' \/ \E s \in Roots : calc'[s].waited /\ calc'[s].pending
    BY <1>7 DEF OneCalculation, Resumable
  <2>2. button' = "blocked" => \E s \in Roots : calc'[s].error
    BY <1>1 DEF Synchronized
  <2> QED
    BY <1>7, <2>1, <2>2 DEF ButtonComesBack, OneCalculation
<1> QED
  BY <1>2, <1>7, <1>8, <1>9, <1>10 DEF TotalInv, LineTotalsSound

LEMMA TimerKeeps ==
  ASSUME TotalInv, NEW r \in Roots, TimerFires(r) PROVE TotalInv'
<1> USE LineTotalAssumption
<1> DEFINE new == [root |-> r, version |-> calc[r].version, stage |-> "reading", input |-> fields[r]]
<1>1. /\ calc[r].timer
      /\ fields' = fields /\ total' = total /\ running' = running \cup {new} /\ acted' = acted /\ button' = button
      /\ \A s \in Roots \ {r} : calc'[s] = calc[s]
      /\ calc'[r] = [calc[r] EXCEPT !.timer = FALSE]
      /\ calc' \in [Roots -> [version : 0 .. MaxEdits, timer : BOOLEAN, pending : BOOLEAN, error : BOOLEAN,
                              waited : BOOLEAN]]
  BY DEF TimerFires, TotalInv, TotalTypeOK
<1>2. TotalTypeOK'
  BY <1>1 DEF TotalInv, TotalTypeOK
<1>3. /\ calc'[r].version = calc[r].version /\ ~calc'[r].timer /\ calc'[r].error = calc[r].error
      /\ calc'[r].waited = calc[r].waited /\ calc'[r].pending = calc[r].pending
  BY <1>1 DEF TotalInv, TotalTypeOK
<1>4. \A s \in Roots : calc'[s].version = calc[s].version /\ calc'[s].error = calc[s].error
                       /\ calc'[s].waited = calc[s].waited /\ calc'[s].pending = calc[s].pending
  BY <1>1, <1>3
<1>5. /\ \A c \in running : c.root \in Roots /\ IsKnown(c)' = IsKnown(c) /\ IsCurrent(c)' = IsCurrent(c)
      /\ IsKnown(new)' /\ IsCurrent(new)' /\ new.root = r /\ new.input = fields[r] /\ new.version = calc[r].version
  BY <1>4 DEF IsKnown, IsCurrent, TotalInv, TotalTypeOK
<1>6. \A c \in running : c.root = r => ~IsCurrent(c)
  BY <1>1 DEF TotalInv, OneCalculation
<1>7. OneCalculation'
  <2>1. \A c \in running' : IsKnown(c)'
    BY <1>1, <1>5 DEF TotalInv, OneCalculation
  <2>2. \A c \in running' : IsCurrent(c)' => ~calc'[c.root].timer /\ c.input = fields'[c.root] /\ calc'[c.root].pending
    BY <1>1, <1>3, <1>4, <1>5, <1>6 DEF TotalInv, OneCalculation
  <2>3. \A c, d \in running' : c.root = d.root /\ IsCurrent(c)' /\ IsCurrent(d)' => c = d
    BY <1>1, <1>5, <1>6 DEF TotalInv, OneCalculation
  <2>4. \A s \in Roots :
          /\ calc'[s].waited => calc'[s].pending
          /\ calc'[s].timer => calc'[s].pending
          /\ calc'[s].pending => calc'[s].timer \/ \E c \in running' : c.root = s /\ IsCurrent(c)'
    BY <1>1, <1>3, <1>4, <1>5 DEF TotalInv, OneCalculation
  <2> QED
    BY <2>1, <2>2, <2>3, <2>4 DEF OneCalculation
<1>8. SettledLineIsTotalled' /\ ActedOnTotals'
  BY <1>1, <1>4 DEF TotalInv, LineTotalsSound, SettledLineIsTotalled, ActedOnTotals, NeedsCalculation
<1>9. ButtonComesBack'
  <2>1. button' = "busy" => Resumable' \/ \E s \in Roots : calc'[s].waited /\ calc'[s].pending
    BY <1>7 DEF OneCalculation, Resumable
  <2>2. button' = "blocked" => \E s \in Roots : calc'[s].error
    BY <1>1, <1>4 DEF TotalInv, LineTotalsSound, ButtonComesBack
  <2> QED
    BY <1>7, <2>1, <2>2 DEF ButtonComesBack, OneCalculation
<1> QED
  BY <1>2, <1>7, <1>8, <1>9 DEF TotalInv, LineTotalsSound

\* A calculation of the fields as they are ends: with an error, or its total is shown.
LEMMA SettleKeeps ==
  ASSUME TotalInv, NEW c \in running, NEW error \in BOOLEAN, IsCurrent(c), ~Resumable, SettleCalculation(c, error),
         fields' = fields, acted' = acted, total' \in [Roots -> Inputs],
         \A r \in Roots \ {c.root} : total'[r] = total[r],
         ~error => total'[c.root] = c.input
  PROVE  TotalInv'
<1> USE LineTotalAssumption
<1> DEFINE r == c.root
<1>1. calc \in [Roots -> Calculations] /\ r \in Roots
  BY DEF TotalInv, TotalTypeOK, Calculations
<1>2. /\ calc' = [calc EXCEPT ![r] = [calc[r] EXCEPT !.pending = FALSE, !.error = error, !.waited = FALSE]]
      /\ button' = Synchronized(calc', button) /\ running' = running \ {c}
  BY DEF SettleCalculation
<1>3. [calc[r] EXCEPT !.pending = FALSE, !.error = error, !.waited = FALSE] \in Calculations
  BY <1>1 DEF Calculations
<1>4. /\ calc' \in [Roots -> Calculations]
      /\ \A s \in Roots \ {r} : calc'[s] = calc[s]
      /\ calc'[r].version = calc[r].version /\ calc'[r].timer = calc[r].timer
      /\ ~calc'[r].pending /\ calc'[r].error = error /\ ~calc'[r].waited
  BY <1>1, <1>2, <1>3 DEF Calculations
<1> HIDE DEF r
<1>5. TotalTypeOK'
  <2>1. button' \in {"enabled", "busy", "blocked"}
    BY <1>2 DEF TotalInv, TotalTypeOK, Synchronized
  <2> QED
    BY <1>2, <1>4, <2>1 DEF TotalInv, TotalTypeOK, Calculations
<1>6. /\ c.root = r /\ ~calc[r].timer /\ c.input = fields[r]
      /\ \A d \in running : d.root = r /\ IsCurrent(d) => d = c
  BY DEF r, TotalInv, OneCalculation
<1>7. \A d \in running : d.root \in Roots /\ IsKnown(d)' = IsKnown(d) /\ IsCurrent(d)' = IsCurrent(d)
  BY <1>4 DEF IsKnown, IsCurrent, TotalInv, TotalTypeOK
<1>8. OneCalculation'
  <2>1. \A d \in running' : IsKnown(d)'
    BY <1>2, <1>7 DEF TotalInv, OneCalculation
  <2>2. \A d \in running' : IsCurrent(d)' => ~calc'[d.root].timer /\ d.input = fields'[d.root] /\ calc'[d.root].pending
    BY <1>2, <1>4, <1>6, <1>7 DEF TotalInv, OneCalculation
  <2>3. \A d, e \in running' : d.root = e.root /\ IsCurrent(d)' /\ IsCurrent(e)' => d = e
    BY <1>2, <1>7 DEF TotalInv, OneCalculation
  <2>4. ASSUME NEW s \in Roots
        PROVE  /\ calc'[s].waited => calc'[s].pending
               /\ calc'[s].timer => calc'[s].pending
               /\ calc'[s].pending => calc'[s].timer \/ \E d \in running' : d.root = s /\ IsCurrent(d)'
    <3>1. CASE s = r
      BY <1>4, <1>6, <3>1
    <3>2. CASE s # r
      BY <1>2, <1>4, <1>6, <1>7, <3>2 DEF TotalInv, OneCalculation
    <3> QED
      BY <3>1, <3>2
  <2> QED
    BY <2>1, <2>2, <2>3, <2>4 DEF OneCalculation
<1>9. SettledLineIsTotalled'
  <2>1. ASSUME NEW s \in Roots, ~NeedsCalculation(s)' PROVE total'[s] = fields'[s]
    <3>1. CASE s = r
      BY <1>4, <1>6, <2>1, <3>1 DEF NeedsCalculation
    <3>2. CASE s # r
      BY <1>4, <1>6, <2>1, <3>2 DEF NeedsCalculation, TotalInv, LineTotalsSound, SettledLineIsTotalled
    <3> QED
      BY <3>1, <3>2
  <2> QED
    BY <2>1 DEF SettledLineIsTotalled
<1>10. ActedOnTotals'
  BY DEF TotalInv, LineTotalsSound, ActedOnTotals
<1>11. ButtonComesBack'
  <2>1. button' = "busy" => Resumable' \/ \E s \in Roots : calc'[s].waited /\ calc'[s].pending
    BY <1>8 DEF OneCalculation, Resumable
  <2>2. button' = "blocked" => \E s \in Roots : calc'[s].error
    BY <1>2 DEF Synchronized
  <2> QED
    BY <1>8, <2>1, <2>2 DEF ButtonComesBack, OneCalculation
<1> QED
  BY <1>5, <1>8, <1>9, <1>10, <1>11 DEF TotalInv, LineTotalsSound

\* A step that leaves the lines and the button as they are, and every calculation but
\* those of earlier fields.
CalculationsGoOn ==
  /\ UNCHANGED <<fields, total, calc, button, acted>>
  /\ running' \subseteq [root : Roots, version : 0 .. MaxEdits, stage : {"reading", "asked", "answered"}, input : Inputs]
  /\ \A d \in running' : \E e \in running : d.root = e.root /\ d.version = e.version /\ d.input = e.input
  /\ \A d \in running : IsCurrent(d) => \E e \in running' : d.root = e.root /\ d.version = e.version
  /\ \A d, e \in running' : d.root = e.root /\ d.version = e.version /\ IsCurrent(d) => d = e

LEMMA CalculationsGoOnSound ==
  ASSUME TotalInv, CalculationsGoOn PROVE TotalInv'
<1>1. /\ fields' = fields /\ total' = total /\ calc' = calc /\ button' = button /\ acted' = acted
  BY DEF CalculationsGoOn
<1>2. TotalTypeOK'
  BY <1>1 DEF CalculationsGoOn, TotalInv, TotalTypeOK
<1>3. OneCalculation'
  <2>1. \A d \in running' : IsKnown(d)'
    BY <1>1 DEF CalculationsGoOn, TotalInv, OneCalculation, IsKnown
  <2>2. \A d \in running' : IsCurrent(d)' => ~calc'[d.root].timer /\ d.input = fields'[d.root] /\ calc'[d.root].pending
    BY <1>1 DEF CalculationsGoOn, TotalInv, OneCalculation, IsCurrent
  <2>3. \A d, e \in running' : d.root = e.root /\ IsCurrent(d)' /\ IsCurrent(e)' => d = e
    BY <1>1 DEF CalculationsGoOn, IsCurrent
  <2>4. ASSUME NEW s \in Roots, calc[s].pending, ~calc[s].timer
        PROVE  \E d \in running' : d.root = s /\ IsCurrent(d)'
    BY <1>1, <2>4 DEF CalculationsGoOn, TotalInv, OneCalculation, IsCurrent
  <2> QED
    BY <1>1, <2>1, <2>2, <2>3, <2>4 DEF TotalInv, OneCalculation
<1>4. SettledLineIsTotalled' /\ ActedOnTotals'
  BY <1>1 DEF TotalInv, LineTotalsSound, SettledLineIsTotalled, ActedOnTotals, NeedsCalculation
<1>5. ButtonComesBack'
  BY <1>1, <1>3 DEF TotalInv, LineTotalsSound, ButtonComesBack, OneCalculation, Resumable
<1> QED
  BY <1>2, <1>3, <1>4, <1>5 DEF TotalInv, LineTotalsSound

\* A calculation goes on to its next stage.
LEMMA MovesOn ==
  ASSUME TotalInv, NEW c \in running, IsCurrent(c), NEW stage \in {"reading", "asked", "answered"},
         Moves(c, stage), UNCHANGED <<fields, total, calc, button, acted>>
  PROVE  CalculationsGoOn
<1> DEFINE m == [c EXCEPT !.stage = stage]
<1>1. /\ running' = (running \ {c}) \cup {m}
      /\ m.root = c.root /\ m.version = c.version /\ m.input = c.input
      /\ m \in [root : Roots, version : 0 .. MaxEdits, stage : {"reading", "asked", "answered"}, input : Inputs]
  BY DEF Moves, TotalInv, TotalTypeOK
<1>2. \A d \in running : d.root = c.root /\ d.version = c.version => d = c
  BY DEF TotalInv, OneCalculation, IsCurrent
<1> HIDE DEF m
<1>3. \A d, e \in running' : d.root = e.root /\ d.version = e.version /\ IsCurrent(d) => d = e
  <2>1. ASSUME NEW d \in running, NEW e \in running, d.root = e.root, d.version = e.version, IsCurrent(d)
        PROVE  d = e
    <3>1. IsCurrent(e)
      BY <2>1, Zenon DEF IsCurrent
    <3> QED
      BY <2>1, <3>1, Zenon DEF TotalInv, OneCalculation
  <2> QED
    BY <1>1, <1>2, <2>1
<1>4. running' \subseteq
        [root : Roots, version : 0 .. MaxEdits, stage : {"reading", "asked", "answered"}, input : Inputs]
  BY <1>1 DEF TotalInv, TotalTypeOK
<1>5. /\ \A d \in running' : \E e \in running : d.root = e.root /\ d.version = e.version /\ d.input = e.input
      /\ \A d \in running : IsCurrent(d) => \E e \in running' : d.root = e.root /\ d.version = e.version
  BY <1>1
<1> QED
  BY <1>3, <1>4, <1>5 DEF CalculationsGoOn

LEMMA CalculationKeeps ==
  ASSUME TotalInv, NEW c \in running, CalculationStep(c) PROVE TotalInv'
<1>1. ~Resumable
  BY DEF CalculationStep
<1>2. c.root \in Roots /\ c.input \in Inputs /\ total \in [Roots -> Inputs]
  BY DEF TotalInv, TotalTypeOK
<1>3. CASE FieldsRead(c)
  <2>1. CASE c.input \in BadInputs
    BY <1>1, <1>2, <1>3, <2>1, SettleKeeps DEF FieldsRead
  <2>2. CASE c.input \notin BadInputs
    BY <1>3, <2>2, MovesOn, CalculationsGoOnSound DEF FieldsRead
  <2> QED
    BY <2>1, <2>2
<1>4. CASE TotalAnswered(c)
  BY <1>4, MovesOn, CalculationsGoOnSound DEF TotalAnswered
<1>5. CASE CalculationFails(c)
  BY <1>1, <1>2, <1>5, SettleKeeps DEF CalculationFails
<1>6. CASE TotalShown(c)
  <2>1. /\ total' \in [Roots -> Inputs] /\ total'[c.root] = c.input
        /\ \A r \in Roots \ {c.root} : total'[r] = total[r]
    BY <1>2, <1>6 DEF TotalShown
  <2> QED
    BY <1>1, <1>6, <2>1, SettleKeeps DEF TotalShown
<1>7. CASE Superseded(c)
  <2>1. /\ UNCHANGED <<fields, total, calc, button, acted>> /\ running' = running \ {c} /\ ~IsCurrent(c)
    BY <1>7 DEF Superseded
  <2>2. CalculationsGoOn
    BY <2>1 DEF CalculationsGoOn, TotalInv, TotalTypeOK, OneCalculation, IsCurrent
  <2> QED
    BY <2>2, CalculationsGoOnSound
<1> QED
  BY <1>3, <1>4, <1>5, <1>6, <1>7 DEF CalculationStep

\* A click, and the press that the code repeats.
LEMMA PressKeeps ==
  ASSUME TotalInv, \/ button = "enabled" /\ Pressed
                   \/ Resumable /\ Pressed
                   \/ Resumable /\ button' = Synchronized(calc, "enabled") /\ UNCHANGED <<calc, acted>>,
         UNCHANGED <<fields, total, running>>
  PROVE  TotalInv'
<1>1. calc \in [Roots -> Calculations]
  BY DEF TotalInv, TotalTypeOK, Calculations
<1>2. /\ calc' \in [Roots -> Calculations]
      /\ \A r \in Roots : /\ calc'[r].version = calc[r].version /\ calc'[r].timer = calc[r].timer
                          /\ calc'[r].pending = calc[r].pending /\ calc'[r].error = calc[r].error
                          /\ calc'[r].waited => calc'[r].pending
  <2>1. CASE UNCHANGED calc
    BY <1>1, <2>1 DEF TotalInv, OneCalculation
  <2>2. CASE calc' = [r \in Roots |-> [calc[r] EXCEPT !.waited = calc[r].pending]]
    BY <1>1, <2>2 DEF Calculations
  <2> QED
    BY <2>1, <2>2 DEF Pressed
<1>a. Pressed \/ button' = Synchronized(calc, "enabled")
  OBVIOUS
<1>3. /\ button' \in {"enabled", "busy", "blocked"}
      /\ button' = "blocked" => \E r \in Roots : calc[r].error
  <2>1. CASE Pressed
    BY <2>1 DEF Pressed
  <2>2. CASE button' = Synchronized(calc, "enabled")
    BY <2>2 DEF Synchronized
  <2> QED
    BY <1>a, <2>1, <2>2
<1>4. /\ acted' \in [fields : [Roots -> Inputs], total : [Roots -> Inputs]]
      /\ acted'.total = acted'.fields
  <2>1. CASE UNCHANGED acted
    BY <2>1 DEF TotalInv, TotalTypeOK, LineTotalsSound, ActedOnTotals
  <2>2. CASE acted' = [fields |-> fields, total |-> total] /\ \A r \in Roots : ~NeedsCalculation(r)
    BY <2>2 DEF TotalInv, TotalTypeOK, LineTotalsSound, SettledLineIsTotalled
  <2> QED
    BY <2>1, <2>2 DEF Pressed
<1>5. TotalTypeOK'
  BY <1>2, <1>3, <1>4 DEF TotalInv, TotalTypeOK, Calculations
<1>6. \A c \in running : IsKnown(c)' = IsKnown(c) /\ IsCurrent(c)' = IsCurrent(c) /\ c.root \in Roots
  BY <1>2 DEF IsKnown, IsCurrent, TotalInv, TotalTypeOK
<1>7. OneCalculation'
  BY <1>2, <1>6 DEF TotalInv, OneCalculation
<1>8. LineTotalsSound'
  BY <1>2, <1>3, <1>4, <1>7 DEF TotalInv, LineTotalsSound, SettledLineIsTotalled, ActedOnTotals, NeedsCalculation,
     ButtonComesBack, OneCalculation, Resumable
<1> QED
  BY <1>5, <1>7, <1>8 DEF TotalInv

LEMMA TotalKeeps == TotalInv /\ [TotalNext]_totalVars => TotalInv'
<1> SUFFICES ASSUME TotalInv, [TotalNext]_totalVars PROVE TotalInv'
  OBVIOUS
<1>1. CASE Press
  BY <1>1, PressKeeps DEF Press
<1>2. CASE ResumeAction
  BY <1>2, PressKeeps DEF ResumeAction
<1>3. CASE UNCHANGED totalVars
  BY <1>3 DEF totalVars, TotalInv, TotalTypeOK, OneCalculation, LineTotalsSound, SettledLineIsTotalled,
     ActedOnTotals, ButtonComesBack, NeedsCalculation, Resumable, IsKnown, IsCurrent
<1> QED
  BY <1>1, <1>2, <1>3, EditKeeps, TimerKeeps, CalculationKeeps DEF TotalNext

\* What is validated, saved or confirmed has the totals of its lines, a settled line shows
\* its total, and a button that waits is waited for by something that will end it.
THEOREM LineTotalsAreSound == TotalSpec => [](TotalTypeOK /\ LineTotalsSound)
BY TotalStarts, TotalKeeps, PTL DEF TotalSpec, TotalInv

--------------------------------------------------------------------------------
(* The review. While the user waits for answers, what is shown and what is *)
(* kept of the drafts is, as a whole, what Saved would leave: the          *)
(* invariant is stated of that sequence, so that a change of the rows      *)
(* shown and a change of the draft shown are one and the same to it.       *)

Line == [of : Receipts \cup {NoReceipt}, n : Nat, edited : BOOLEAN]
RowSet == [items : Seq(Line), originals : Seq(Line), approved : BOOLEAN]
DraftSet == [key : Receipts, version : Nat, rows : RowSet]

\* Rows of a receipt: every line that was read stands beside its original.
Apart(r, key) ==
  /\ \A i \in DOMAIN r.items : r.items[i].of \in {key, NoReceipt}
  /\ Len(r.originals) <= Len(r.items)
  /\ \A i \in DOMAIN r.originals : r.items[i].of = r.originals[i].of /\ r.items[i].n = r.originals[i].n

OnePerKey(ds) == \A i, j \in DOMAIN ds : ds[i].key = ds[j].key => ds[i] = ds[j]

\* Drafts of captures with a result, of which each has what the user typed into it.
Holds(ds, waiting, results, kept) ==
  /\ ds \in Seq(DraftSet) /\ OnePerKey(ds)
  /\ \A i \in DOMAIN ds :
       /\ ds[i].key \in waiting /\ ds[i].version = results[ds[i].key] /\ results[ds[i].key] > 0
       /\ Apart(ds[i].rows, ds[i].key)
  /\ \A l \in kept : l.of # NoReceipt =>
       \E i \in DOMAIN ds : ds[i].key = l.of /\ \E j \in DOMAIN ds[i].rows.items : ds[i].rows.items[j] = l

ReviewTypes ==
  /\ pending \subseteq Receipts /\ resultOf \in [Receipts -> 0 .. MaxResults]
  /\ drafts \in Seq(DraftSet) /\ OnePerKey(drafts)
  /\ rows \in RowSet
  /\ typed \subseteq {l \in Line : l.edited} /\ reviewActs \in 0 .. MaxReviewActs

ActiveFits ==
  \/ activeDraft = NoReceipt /\ rows = NoRows /\ drafts = <<>>
  \/ activeDraft \in Receipts /\ \E i \in DOMAIN drafts : drafts[i].key = activeDraft

\* What the toast puts back is of the rows shown and fits between them.
UndoFits ==
  undo.index # 0 =>
    /\ activeDraft # NoReceipt
    /\ undo.index \in 1 .. Len(rows.items) + 1
    /\ undo.item \in Line /\ undo.item.of \in {activeDraft, NoReceipt}
    /\ \/ undo.original = <<>> /\ undo.index > Len(rows.originals)
       \/ \E o \in Line : /\ undo.original = <<o>> /\ o.of = undo.item.of /\ o.n = undo.item.n
                          /\ undo.index <= Len(rows.originals) + 1

\* What is validated or posted is what is shown.
ConfirmFits ==
  /\ confirming.stage \in {"none", "validating", "confirming", "posted"}
  /\ confirming.stage \in {"validating", "confirming"} => activeDraft # NoReceipt /\ confirming.items = rows.items
  /\ confirming.stage = "posted" =>
       /\ activeDraft # NoReceipt /\ Len(confirming.sent) = 1
       /\ confirming.sent[1].of = activeDraft /\ confirming.sent[1].items = rows.items

ImportsFit ==
  /\ imports \in Seq(ToSet(imports))
  /\ \A k \in DOMAIN imports : \A i \in DOMAIN imports[k].items : imports[k].items[i].of \in {imports[k].of, NoReceipt}

ReviewInv ==
  /\ ReviewTypes /\ ActiveFits /\ UndoFits /\ ConfirmFits /\ ImportsFit
  /\ Holds(Saved, pending, resultOf, typed)

\* The drafts with the rows that are shown.
LEMMA SavedIs ==
  ASSUME drafts \in Seq(DraftSet), rows \in RowSet
  PROVE  /\ Saved \in Seq(DraftSet) /\ DOMAIN Saved = DOMAIN drafts /\ Len(Saved) = Len(drafts)
         /\ \A i \in DOMAIN drafts :
              /\ Saved[i].key = drafts[i].key /\ Saved[i].version = drafts[i].version
              /\ Saved[i].rows = IF drafts[i].key = activeDraft THEN rows ELSE drafts[i].rows
              /\ drafts[i].key # activeDraft => Saved[i] = drafts[i]
<1> DEFINE shown(i) == [drafts[i] EXCEPT !.rows = rows]
<1>1. ASSUME NEW i \in DOMAIN drafts
      PROVE  /\ Saved[i] \in DraftSet
             /\ Saved[i].key = drafts[i].key /\ Saved[i].version = drafts[i].version
             /\ Saved[i].rows = IF drafts[i].key = activeDraft THEN rows ELSE drafts[i].rows
             /\ drafts[i].key # activeDraft => Saved[i] = drafts[i]
  <2>1. drafts[i] \in DraftSet
    OBVIOUS
  <2>2. Saved[i] = IF drafts[i].key = activeDraft THEN shown(i) ELSE drafts[i]
    BY DEF Saved, IsActive
  <2>3. shown(i) \in DraftSet /\ shown(i).key = drafts[i].key /\ shown(i).version = drafts[i].version /\ shown(i).rows = rows
    BY <2>1 DEF DraftSet
  <2> HIDE DEF shown
  <2> QED
    BY <2>1, <2>2, <2>3
<1>2. DOMAIN Saved = 1 .. Len(drafts) /\ DOMAIN drafts = 1 .. Len(drafts) /\ Len(drafts) \in Nat
  BY DEF Saved
<1>3. Saved = [i \in 1 .. Len(drafts) |-> Saved[i]]
  BY <1>2 DEF Saved
<1>4. Saved \in Seq(DraftSet) /\ Len(Saved) = Len(drafts)
  <2>1. Saved \in [1 .. Len(drafts) -> DraftSet]
    BY <1>1, <1>2, <1>3
  <2> QED
    BY <1>2, <2>1
<1> QED
  BY <1>1, <1>2, <1>4

\* The steps of Among, up to the first n elements, and what they have.
Takes(n, s, S, g) ==
  g = [k \in 0 .. n |-> IF k = 0 THEN <<>> ELSE IF s[k] \in S THEN Append(g[k - 1], s[k]) ELSE g[k - 1]]

Selects(t, n, s, S) == \A x : (\E i \in DOMAIN t : t[i] = x) <=> x \in S /\ \E i \in 1 .. n : s[i] = x

LEMMA TakesExists == ASSUME NEW s, NEW S PROVE \A n \in Nat : \E g : Takes(n, s, S, g)
<1> DEFINE E == {n \in Nat : \E g : Takes(n, s, S, g)}
<1>1. 0 \in E
  <2>1. Takes(0, s, S, [k \in 0 .. 0 |-> <<>>])
    BY DEF Takes
  <2> QED
    BY <2>1
<1>2. ASSUME NEW n \in Nat, n \in E PROVE n + 1 \in E
  <2>1. PICK g : Takes(n, s, S, g)
    BY <1>2
  <2> DEFINE h == [k \in 0 .. n + 1 |-> IF k = n + 1 THEN IF s[n + 1] \in S THEN Append(g[n], s[n + 1]) ELSE g[n]
                                        ELSE g[k]]
  <2>2. \A k \in 0 .. n + 1 : k # n + 1 => h[k] = g[k] /\ k \in 0 .. n
    OBVIOUS
  <2>3. h[n + 1] = IF s[n + 1] \in S THEN Append(g[n], s[n + 1]) ELSE g[n]
    OBVIOUS
  <2>4. h = [k \in 0 .. n + 1 |-> h[k]]
    OBVIOUS
  <2> HIDE DEF h
  <2>5. ASSUME NEW k \in 0 .. n + 1
        PROVE  h[k] = IF k = 0 THEN <<>> ELSE IF s[k] \in S THEN Append(h[k - 1], s[k]) ELSE h[k - 1]
    <3>1. CASE k = 0
      <4>1. h[k] = g[k] /\ k \in 0 .. n
        BY <2>2, <3>1
      <4> QED
        BY <2>1, <3>1, <4>1 DEF Takes
    <3>2. CASE k \in 1 .. n
      <4>1. h[k] = g[k] /\ h[k - 1] = g[k - 1] /\ k # 0 /\ k \in 0 .. n
        BY <2>2, <3>2
      <4>2. g[k] = IF s[k] \in S THEN Append(g[k - 1], s[k]) ELSE g[k - 1]
        BY <2>1, <4>1 DEF Takes
      <4> QED
        BY <4>1, <4>2
    <3>3. CASE k = n + 1
      <4>1. h[n] = g[n] /\ k - 1 = n /\ k # 0
        BY <2>2, <3>3
      <4> QED
        BY <2>3, <3>3, <4>1
    <3> QED
      BY <3>1, <3>2, <3>3
  <2>6. Takes(n + 1, s, S, h)
    BY <2>4, <2>5, Zenon DEF Takes
  <2> QED
    BY <2>6
<1> HIDE DEF E
<1>3. \A n \in Nat : n \in E
  BY <1>1, <1>2, SetInduction
<1> QED
  BY <1>3 DEF E

\* One more element.
LEMMA SelectsOn ==
  ASSUME NEW T, NEW s, NEW S, NEW n \in Nat, NEW t \in Seq(T), Selects(t, n, s, S), s[n + 1] \in T
  PROVE  LET u == IF s[n + 1] \in S THEN Append(t, s[n + 1]) ELSE t IN u \in Seq(T) /\ Selects(u, n + 1, s, S)
<1> DEFINE u == IF s[n + 1] \in S THEN Append(t, s[n + 1]) ELSE t
<1>1. \A x : (\E i \in 1 .. n + 1 : s[i] = x) <=> x = s[n + 1] \/ \E i \in 1 .. n : s[i] = x
  <2>1. \A i \in 1 .. n + 1 : i = n + 1 \/ i \in 1 .. n
    OBVIOUS
  <2>2. n + 1 \in 1 .. n + 1 /\ \A i \in 1 .. n : i \in 1 .. n + 1
    OBVIOUS
  <2> QED
    BY <2>1, <2>2
<1>2. CASE s[n + 1] \in S
  <2> DEFINE k == Len(t)
  <2>1. k \in Nat /\ u \in Seq(T) /\ DOMAIN u = 1 .. k + 1 /\ u[k + 1] = s[n + 1] /\ DOMAIN t = 1 .. k
        /\ \A i \in 1 .. k : u[i] = t[i]
    BY <1>2
  <2> HIDE DEF u, k
  <2>2. ASSUME NEW x PROVE (\E i \in DOMAIN u : u[i] = x) <=> x = s[n + 1] \/ \E i \in DOMAIN t : t[i] = x
    BY <2>1
  <2>3. Selects(u, n + 1, s, S)
    BY <1>1, <1>2, <2>2 DEF Selects
  <2> QED
    BY <2>1, <2>3 DEF u
<1>3. CASE s[n + 1] \notin S
  <2>1. u = t
    BY <1>3
  <2> HIDE DEF u
  <2>2. Selects(t, n + 1, s, S)
    BY <1>1, <1>3 DEF Selects
  <2> QED
    BY <2>1, <2>2 DEF u
<1> QED
  BY <1>2, <1>3

\* Among(s, S) has the elements of s that are in S.
Chosen(t, s, S, T) ==
  /\ t \in Seq(T)
  /\ \A x : (\E i \in DOMAIN t : t[i] = x) <=> x \in S /\ \E i \in DOMAIN s : s[i] = x

LEMMA AmongIs == ASSUME NEW T, NEW s \in Seq(T), NEW S PROVE Chosen(Among(s, S), s, S, T)
<1> DEFINE m == Len(s)
           f == CHOOSE g : g = [k \in 0 .. m |-> IF k = 0 THEN <<>> ELSE IF s[k] \in S THEN Append(g[k - 1], s[k])
                                                ELSE g[k - 1]]
           R == {n \in Nat : n <= m => f[n] \in Seq(T) /\ Selects(f[n], n, s, S)}
<1>1. m \in Nat /\ DOMAIN s = 1 .. m
  OBVIOUS
<1>2. Takes(m, s, S, f)
  <2>1. \E g : Takes(m, s, S, g)
    BY <1>1, TakesExists
  <2> QED
    BY <2>1, Zenon DEF Takes
<1>3. Among(s, S) = f[m]
  BY DEF Among
<1> HIDE DEF f
<1>4. f[0] = <<>>
  BY <1>1, <1>2 DEF Takes
<1>5. ASSUME NEW n \in Nat, n + 1 <= m
      PROVE  f[n + 1] = (IF s[n + 1] \in S THEN Append(f[n], s[n + 1]) ELSE f[n]) /\ s[n + 1] \in T
  <2>1. n + 1 \in 0 .. m /\ n + 1 # 0 /\ (n + 1) - 1 = n /\ n + 1 \in 1 .. m
    BY <1>1, <1>5
  <2>2. s[n + 1] \in T
    BY <2>1, ElementOfSeq
  <2> QED
    BY <1>2, <2>1, <2>2 DEF Takes
<1>6. 0 \in R
  <2>1. f[0] \in Seq(T) /\ Selects(f[0], 0, s, S)
    BY <1>4 DEF Selects
  <2> QED
    BY <2>1
<1>7. ASSUME NEW n \in Nat, n \in R PROVE n + 1 \in R
  <2> SUFFICES ASSUME n + 1 <= m PROVE f[n + 1] \in Seq(T) /\ Selects(f[n + 1], n + 1, s, S)
    OBVIOUS
  <2>1. f[n] \in Seq(T) /\ Selects(f[n], n, s, S)
    BY <1>1, <1>7
  <2>2. f[n + 1] = (IF s[n + 1] \in S THEN Append(f[n], s[n + 1]) ELSE f[n]) /\ s[n + 1] \in T
    BY <1>5
  <2>3. CASE s[n + 1] \in S
    BY <2>1, <2>2, <2>3, SelectsOn
  <2>4. CASE s[n + 1] \notin S
    BY <2>1, <2>2, <2>4, SelectsOn
  <2> QED
    BY <2>3, <2>4
<1> HIDE DEF R
<1>8. \A n \in Nat : n \in R
  BY <1>6, <1>7, SetInduction
<1>9. f[m] \in Seq(T) /\ Selects(f[m], m, s, S)
  BY <1>1, <1>8 DEF R
<1> QED
  BY <1>1, <1>3, <1>9 DEF Selects, Chosen

\* Every capture on the page has its place in the order.
LEMMA OrderHasAll == Order \in Seq(Receipts) /\ \A c \in Receipts : \E i \in DOMAIN Order : Order[i] = c
<1> DEFINE k == Cardinality(Receipts)
<1>1. IsFiniteSet(Receipts) /\ k \in Nat /\ ExistsBijection(1 .. k, Receipts)
  BY ReviewAssumption, FS_CardinalityType
<1>2. PICK f : f \in Bijection(1 .. k, Receipts)
  BY <1>1 DEF ExistsBijection
<1>3. f \in [1 .. k -> Receipts] /\ IsInjective(f)
  BY <1>2 DEF Bijection, Injection, IsInjective
<1>4. Order \in [1 .. k -> Receipts] /\ IsInjective(Order)
  BY <1>3, Zenon DEF Order, SetToSeq
<1>5. Order \in Injection(1 .. k, Receipts)
  BY <1>4 DEF Injection, IsInjective
<1>6. IsFiniteSet(1 .. k) /\ Cardinality(1 .. k) = k
  BY <1>1, FS_Interval
<1>7. Order \in Surjection(1 .. k, Receipts)
  BY <1>1, <1>5, <1>6, FS_Injection
<1>8. \A c \in Receipts : \E i \in 1 .. k : Order[i] = c
  BY <1>7 DEF Surjection
<1> QED
  BY <1>1, <1>4, <1>8

\* A draft of drafts with one for each key that is shown as it is kept.
LEMMA Activated ==
  ASSUME drafts' \in Seq(DraftSet), OnePerKey(drafts'), NEW i \in DOMAIN drafts', Activate(drafts'[i].key, drafts')
  PROVE  /\ activeDraft' = drafts'[i].key /\ rows' = drafts'[i].rows /\ rows' \in RowSet
         /\ Saved' = drafts' /\ ActiveFits'
<1> DEFINE ds == drafts'
<1>1. ds[i] \in DraftSet /\ \A j \in DOMAIN ds : ds[j] \in DraftSet
  OBVIOUS
<1>2. activeDraft' = ds[i].key /\ rows' = (CHOOSE d \in ToSet(ds) : d.key = ds[i].key).rows
  BY DEF Activate
<1>3. (CHOOSE d \in ToSet(ds) : d.key = ds[i].key) = ds[i]
  <2>1. ds[i] \in ToSet(ds) /\ \A d \in ToSet(ds) : d.key = ds[i].key => d = ds[i]
    BY DEF ToSet, OnePerKey
  <2> HIDE DEF ds
  <2> QED
    BY <2>1
<1>4. rows' = ds[i].rows /\ rows' \in RowSet
  BY <1>1, <1>2, <1>3 DEF DraftSet
<1>5. ASSUME NEW j \in DOMAIN ds
      PROVE  (IF ds[j].key = activeDraft' THEN [ds[j] EXCEPT !.rows = rows'] ELSE ds[j]) = ds[j]
  <2>1. CASE ds[j].key = activeDraft'
    <3>1. ds[j] = ds[i] /\ rows' = ds[j].rows
      BY <1>2, <1>4, <2>1 DEF OnePerKey
    <3>2. [ds[j] EXCEPT !.rows = ds[j].rows] = ds[j]
      BY <1>1 DEF DraftSet
    <3> QED
      BY <2>1, <3>1, <3>2
  <2> QED
    BY <2>1
<1>6. Saved' = [j \in DOMAIN ds |-> IF ds[j].key = activeDraft' THEN [ds[j] EXCEPT !.rows = rows'] ELSE ds[j]]
  BY DEF Saved, IsActive
<1>7. ds = [j \in DOMAIN ds |-> ds[j]]
  OBVIOUS
<1> HIDE DEF ds
<1>8. Saved' = ds
  BY <1>5, <1>6, <1>7
<1>9. ActiveFits'
  BY <1>1, <1>2 DEF ActiveFits, DraftSet, ds
<1> QED
  BY <1>2, <1>4, <1>8, <1>9 DEF ds

\* The rows shown are those of the draft that is shown.
LEMMA ShownRows ==
  ASSUME ReviewInv, activeDraft # NoReceipt
  PROVE  /\ activeDraft \in Receipts /\ activeDraft \in pending /\ Apart(rows, activeDraft)
         /\ \E i \in DOMAIN drafts : drafts[i].key = activeDraft
         /\ \A l \in typed : l.of = activeDraft => \E j \in DOMAIN rows.items : rows.items[j] = l
<1>1. drafts \in Seq(DraftSet) /\ rows \in RowSet
  BY DEF ReviewInv, ReviewTypes
<1>2. PICK i \in DOMAIN drafts : activeDraft \in Receipts /\ drafts[i].key = activeDraft
  BY DEF ReviewInv, ActiveFits
<1>3. /\ DOMAIN Saved = DOMAIN drafts
      /\ \A k \in DOMAIN drafts : /\ Saved[k].key = drafts[k].key
                                  /\ Saved[k].rows = IF drafts[k].key = activeDraft THEN rows ELSE drafts[k].rows
  BY <1>1, SavedIs
<1>4. Saved[i].key = activeDraft /\ Saved[i].rows = rows
  BY <1>2, <1>3
<1>5. Holds(Saved, pending, resultOf, typed)
  BY DEF ReviewInv
<1>6. activeDraft \in pending /\ Apart(rows, activeDraft)
  BY <1>2, <1>3, <1>4, <1>5 DEF Holds
<1>7. ASSUME NEW l \in typed, l.of = activeDraft PROVE \E j \in DOMAIN rows.items : rows.items[j] = l
  <2>1. l.of # NoReceipt
    BY <1>7
  <2>2. PICK k \in DOMAIN Saved : Saved[k].key = l.of /\ \E j \in DOMAIN Saved[k].rows.items : Saved[k].rows.items[j] = l
    BY <1>5, <2>1 DEF Holds
  <2>3. Saved[k].rows = rows
    BY <1>3, <1>7, <2>2
  <2> QED
    BY <2>2, <2>3
<1> QED
  BY <1>2, <1>6, <1>7

\* A change of the rows shown is one of their draft, and of no other.
LEMMA RowsChange ==
  ASSUME ReviewInv, activeDraft # NoReceipt, rows' \in RowSet, Apart(rows', activeDraft),
         UNCHANGED <<pending, resultOf, drafts, activeDraft>>,
         \A l \in typed' : l.of # NoReceipt =>
           IF l.of = activeDraft THEN \E j \in DOMAIN rows'.items : rows'.items[j] = l ELSE l \in typed
  PROVE  ActiveFits' /\ Holds(Saved', pending', resultOf', typed')
<1>1. drafts \in Seq(DraftSet) /\ rows \in RowSet /\ OnePerKey(drafts) /\ drafts' \in Seq(DraftSet)
  BY DEF ReviewInv, ReviewTypes
<1>2. /\ DOMAIN Saved = DOMAIN drafts
      /\ \A k \in DOMAIN drafts :
           /\ Saved[k].key = drafts[k].key /\ Saved[k].version = drafts[k].version
           /\ Saved[k].rows = IF drafts[k].key = activeDraft THEN rows ELSE drafts[k].rows
           /\ drafts[k].key # activeDraft => Saved[k] = drafts[k]
  BY <1>1, SavedIs
<1>3. /\ Saved' \in Seq(DraftSet) /\ DOMAIN Saved' = DOMAIN drafts
      /\ \A k \in DOMAIN drafts :
           /\ Saved'[k].key = drafts[k].key /\ Saved'[k].version = drafts[k].version
           /\ Saved'[k].rows = IF drafts[k].key = activeDraft THEN rows' ELSE drafts[k].rows
           /\ drafts[k].key # activeDraft => Saved'[k] = drafts[k]
  <2> DEFINE shown(i) == [drafts[i] EXCEPT !.rows = rows']
  <2>1. Saved' = [k \in DOMAIN drafts |-> IF drafts[k].key = activeDraft THEN shown(k) ELSE drafts[k]]
    BY DEF Saved, IsActive
  <2>2. ASSUME NEW k \in DOMAIN drafts
        PROVE  /\ drafts[k] \in DraftSet /\ shown(k) \in DraftSet
               /\ shown(k).key = drafts[k].key /\ shown(k).version = drafts[k].version /\ shown(k).rows = rows'
    <3>1. drafts[k] \in DraftSet
      BY <1>1
    <3> QED
      BY <3>1 DEF DraftSet
  <2> HIDE DEF shown
  <2>3. DOMAIN drafts = 1 .. Len(drafts) /\ Len(drafts) \in Nat
    BY <1>1
  <2>4. Saved' \in [1 .. Len(drafts) -> DraftSet]
    BY <2>1, <2>2, <2>3
  <2>5. Saved' \in Seq(DraftSet)
    BY <2>3, <2>4
  <2> QED
    BY <2>1, <2>2, <2>5
<1>4. Holds(Saved, pending, resultOf, typed)
  BY DEF ReviewInv
<1>5. ASSUME NEW i \in DOMAIN drafts, NEW j \in DOMAIN drafts, Saved'[i].key = Saved'[j].key
      PROVE  Saved'[i] = Saved'[j]
  <2>1. drafts[i] = drafts[j]
    BY <1>1, <1>3, <1>5 DEF OnePerKey
  <2>2. Saved' = [k \in DOMAIN drafts |-> IF drafts[k].key = activeDraft THEN [drafts[k] EXCEPT !.rows = rows'] ELSE drafts[k]]
    BY DEF Saved, IsActive
  <2> QED
    BY <2>1, <2>2
<1>6. ASSUME NEW i \in DOMAIN drafts
      PROVE  /\ Saved'[i].key \in pending /\ Saved'[i].version = resultOf[Saved'[i].key] /\ resultOf[Saved'[i].key] > 0
             /\ Apart(Saved'[i].rows, Saved'[i].key)
  <2>1. /\ Saved[i].key \in pending /\ Saved[i].version = resultOf[Saved[i].key] /\ resultOf[Saved[i].key] > 0
        /\ Apart(Saved[i].rows, Saved[i].key)
    BY <1>2, <1>4 DEF Holds
  <2>2. CASE drafts[i].key = activeDraft
    BY <1>2, <1>3, <2>1, <2>2
  <2>3. CASE drafts[i].key # activeDraft
    BY <1>2, <1>3, <2>1, <2>3
  <2> QED
    BY <2>2, <2>3
<1>7. ASSUME NEW l \in typed', l.of # NoReceipt
      PROVE  \E i \in DOMAIN drafts : Saved'[i].key = l.of /\ \E j \in DOMAIN Saved'[i].rows.items : Saved'[i].rows.items[j] = l
  <2>1. CASE l.of = activeDraft
    <3>1. PICK i \in DOMAIN drafts : drafts[i].key = activeDraft
      BY ShownRows
    <3>2. Saved'[i].key = l.of /\ Saved'[i].rows = rows'
      BY <1>3, <2>1, <3>1
    <3>3. \E j \in DOMAIN rows'.items : rows'.items[j] = l
      BY <1>7, <2>1
    <3> QED
      BY <3>2, <3>3
  <2>2. CASE l.of # activeDraft
    <3>1. l \in typed
      BY <1>7, <2>2
    <3>2. PICK i \in DOMAIN Saved : Saved[i].key = l.of /\ \E j \in DOMAIN Saved[i].rows.items : Saved[i].rows.items[j] = l
      BY <1>4, <1>7, <3>1 DEF Holds
    <3>3. i \in DOMAIN drafts /\ Saved'[i] = Saved[i]
      BY <1>2, <1>3, <2>2, <3>2
    <3> QED
      BY <3>2, <3>3
  <2> QED
    BY <2>1, <2>2
<1>8. Holds(Saved', pending', resultOf', typed')
  BY <1>3, <1>5, <1>6, <1>7 DEF Holds, OnePerKey
<1>9. ActiveFits'
  BY ShownRows DEF ActiveFits
<1> QED
  BY <1>8, <1>9

\* What a step that changes the rows shown, and no draft, has to keep.
LEMMA RowsKeep ==
  ASSUME ReviewInv, activeDraft # NoReceipt, rows' \in RowSet, Apart(rows', activeDraft),
         UNCHANGED <<pending, resultOf, drafts, activeDraft, imports>>,
         reviewActs' \in 0 .. MaxReviewActs, typed' \subseteq {l \in Line : l.edited},
         \A l \in typed' : l.of # NoReceipt =>
           IF l.of = activeDraft THEN \E j \in DOMAIN rows'.items : rows'.items[j] = l ELSE l \in typed,
         UndoFits', ConfirmFits'
  PROVE  ReviewInv'
<1>1. ActiveFits' /\ Holds(Saved', pending', resultOf', typed')
  BY RowsChange
<1>2. ReviewTypes'
  BY DEF ReviewInv, ReviewTypes
<1>3. ImportsFit'
  BY DEF ReviewInv, ImportsFit
<1> QED
  BY <1>1, <1>2, <1>3 DEF ReviewInv

\* Rows belong to a draft.
LEMMA RowsBelong == ASSUME ReviewInv, rows.items # <<>> PROVE activeDraft # NoReceipt
<1>1. activeDraft \in Receipts => activeDraft # NoReceipt
  BY ReviewAssumption
<1>2. rows # NoRows
  BY DEF NoRows
<1> QED
  BY <1>1, <1>2 DEF ReviewInv, ActiveFits

LEMMA EditLineKeeps == ASSUME ReviewInv, NEW i \in 1 .. 4, EditLine(i), ~WorksOnMeanwhile PROVE ReviewInv'
<1> DEFINE e == [rows.items[i] EXCEPT !.edited = TRUE]
<1>1. /\ rows \in RowSet /\ rows.items \in Seq(Line) /\ rows.originals \in Seq(Line) /\ i \in DOMAIN rows.items
      /\ typed \subseteq {l \in Line : l.edited}
  BY DEF ReviewInv, ReviewTypes, EditLine, RowSet
<1>2. activeDraft # NoReceipt
  BY <1>1, RowsBelong
<1>3. rows.items[i] \in Line /\ ~rows.items[i].edited
  BY <1>1 DEF EditLine
<1>4. e \in Line /\ e.of = rows.items[i].of /\ e.n = rows.items[i].n /\ e.edited
  BY <1>3 DEF Line
<1>5. rows' = [rows EXCEPT !.items = [rows.items EXCEPT ![i] = e]]
  BY DEF EditLine
<1> HIDE DEF e
<1> DEFINE its == [rows.items EXCEPT ![i] = e]
<1>6. its \in Seq(Line) /\ DOMAIN its = DOMAIN rows.items /\ Len(its) = Len(rows.items) /\ its[i] = e
      /\ \A j \in DOMAIN its : j # i => its[j] = rows.items[j]
  BY <1>1, <1>4
<1>7. rows' = [rows EXCEPT !.items = its]
  BY <1>5
<1> HIDE DEF its
<1>8. rows' \in RowSet /\ rows'.items = its /\ rows'.originals = rows.originals
  BY <1>1, <1>6, <1>7 DEF RowSet
<1>9. Apart(rows', activeDraft)
  <2>1. Apart(rows, activeDraft)
    BY <1>2, ShownRows
  <2>2. \A j \in DOMAIN its : its[j].of = rows.items[j].of /\ its[j].n = rows.items[j].n
    BY <1>4, <1>6
  <2>3. DOMAIN rows.originals \subseteq DOMAIN its
    BY <1>1, <1>6, <2>1 DEF Apart
  <2> QED
    BY <1>6, <1>8, <2>1, <2>2, <2>3 DEF Apart
<1>10. typed' = typed \cup {e}
  BY <1>6, <1>8 DEF EditLine
<1>11. ASSUME NEW l \in typed', l.of # NoReceipt
       PROVE  IF l.of = activeDraft THEN \E j \in DOMAIN rows'.items : rows'.items[j] = l ELSE l \in typed
  <2>1. CASE l = e
    <3>1. l.of = activeDraft
      BY <1>1, <1>2, <1>4, <1>11, <2>1, ShownRows DEF Apart
    <3> QED
      BY <1>1, <1>6, <1>8, <2>1, <3>1
  <2>2. CASE l \in typed /\ l.of = activeDraft
    <3>1. PICK j \in DOMAIN rows.items : rows.items[j] = l
      BY <1>2, <2>2, ShownRows
    <3>2. l.edited /\ j # i
      BY <1>1, <1>3, <2>2, <3>1
    <3> QED
      BY <1>6, <1>8, <2>2, <3>1, <3>2
  <2> QED
    BY <1>10, <1>11, <2>1, <2>2
<1>12. UndoFits'
  BY <1>6, <1>8 DEF ReviewInv, UndoFits, EditLine
<1>13. ConfirmFits'
  BY DEF ReviewInv, ConfirmFits, EditLine, Editable
<1>14. reviewActs' \in 0 .. MaxReviewActs
  BY ReviewAssumption DEF ReviewInv, ReviewTypes, EditLine, Acts
<1>15. typed' \subseteq {l \in Line : l.edited}
  BY <1>1, <1>4, <1>10
<1>16. UNCHANGED <<pending, resultOf, drafts, activeDraft, imports>>
  BY DEF EditLine
<1> QED
  BY <1>2, <1>8, <1>9, <1>11, <1>12, <1>13, <1>14, <1>15, <1>16, RowsKeep

\* A sequence with its i-th element taken out, and with one put in at its i-th place.
Closed(t, s, i, T) ==
  /\ t \in Seq(T) /\ Len(t) = Len(s) - 1
  /\ \A j \in 1 .. Len(s) - 1 : t[j] = IF j < i THEN s[j] ELSE s[j + 1]

Opened(t, s, i, e, T) ==
  /\ t \in Seq(T) /\ Len(t) = Len(s) + 1
  /\ \A j \in 1 .. Len(s) + 1 : t[j] = IF j < i THEN s[j] ELSE IF j = i THEN e ELSE s[j - 1]

LEMMA RemovedIs == ASSUME NEW T, NEW s \in Seq(T), NEW i \in DOMAIN s PROVE Closed(RemovedAt(s, i), s, i, T)
<1> DEFINE a == SubSeq(s, 1, i - 1)
           b == SubSeq(s, i + 1, Len(s))
<1>1. Len(s) \in Nat /\ DOMAIN s = 1 .. Len(s) /\ i \in 1 .. Len(s)
  OBVIOUS
<1>2. a \in Seq(T) /\ Len(a) = i - 1 /\ \A j \in 1 .. i - 1 : a[j] = s[j]
  BY <1>1, SubSeqProperties
<1>3. b \in Seq(T) /\ Len(b) = Len(s) - i /\ \A j \in 1 .. Len(s) - i : b[j] = s[i + j]
  BY <1>1, SubSeqProperties, SMTT(30)
<1> HIDE DEF a, b
<1>4. a \o b \in Seq(T) /\ Len(a \o b) = Len(s) - 1
      /\ \A j \in 1 .. Len(s) - 1 : (a \o b)[j] = IF j <= i - 1 THEN a[j] ELSE b[j - (i - 1)]
  <2>1. Len(a) + Len(b) = Len(s) - 1
    BY <1>1, <1>2, <1>3
  <2>2. a \o b \in Seq(T) /\ Len(a \o b) = Len(a) + Len(b)
        /\ \A j \in 1 .. Len(a) + Len(b) : (a \o b)[j] = IF j <= Len(a) THEN a[j] ELSE b[j - Len(a)]
    BY <1>2, <1>3, ConcatProperties, Zenon
  <2>3. Len(a) = i - 1
    BY <1>2
  <2> QED
    BY ONLY <2>1, <2>2, <2>3
<1>5. ASSUME NEW j \in 1 .. Len(s) - 1 PROVE (a \o b)[j] = IF j < i THEN s[j] ELSE s[j + 1]
  <2>1. CASE j < i
    BY <1>1, <1>2, <1>4, <2>1
  <2>2. CASE ~(j < i)
    <3>1. j - (i - 1) \in 1 .. Len(s) - i /\ i + (j - (i - 1)) = j + 1 /\ ~(j <= i - 1)
      BY <1>1, <2>2
    <3> QED
      BY <1>3, <1>4, <2>2, <3>1
  <2> QED
    BY <2>1, <2>2
<1>6. RemovedAt(s, i) = a \o b
  BY DEF RemovedAt, a, b
<1> QED
  BY <1>4, <1>5, <1>6 DEF Closed

LEMMA InsertedIs ==
  ASSUME NEW T, NEW s \in Seq(T), NEW e \in T, NEW i \in 1 .. Len(s) + 1
  PROVE  Opened(Insert(s, i, e), s, i, e, T)
<1> DEFINE a == SubSeq(s, 1, i - 1)
           b == SubSeq(s, i, Len(s))
<1>1. Len(s) \in Nat /\ DOMAIN s = 1 .. Len(s)
  OBVIOUS
<1>2. CASE i > Len(s)
  <2>1. Insert(s, i, e) = Append(s, e) /\ i = Len(s) + 1
    BY <1>1, <1>2 DEF Insert
  <2> QED
    BY <1>1, <2>1 DEF Opened
<1>3. CASE i <= Len(s)
  <2>1. a \in Seq(T) /\ Len(a) = i - 1 /\ \A j \in 1 .. i - 1 : a[j] = s[j]
    BY <1>1, <1>3, SubSeqProperties
  <2>2. b \in Seq(T) /\ Len(b) = Len(s) - i + 1 /\ \A j \in 1 .. Len(s) - i + 1 : b[j] = s[i + j - 1]
    BY <1>1, <1>3, SubSeqProperties
  <2>3. Insert(s, i, e) = (a \o <<e>>) \o b
    BY <1>1, <1>3 DEF Insert, InsertAt
  <2> HIDE DEF a, b
  <2> DEFINE c == a \o <<e>>
  <2>4. <<e>> \in Seq(T) /\ Len(<<e>>) = 1
    OBVIOUS
  <2>5. c \in Seq(T) /\ Len(c) = i /\ \A j \in 1 .. i : c[j] = IF j < i THEN a[j] ELSE e
    BY <1>1, <2>1, <2>4, ConcatProperties
  <2> HIDE DEF c
  <2>6. c \o b \in Seq(T) /\ Len(c \o b) = Len(s) + 1
        /\ \A j \in 1 .. Len(s) + 1 : (c \o b)[j] = IF j <= i THEN c[j] ELSE b[j - i]
    <3>1. Len(c) + Len(b) = Len(s) + 1
      BY <1>1, <2>2, <2>5
    <3>2. c \o b \in Seq(T) /\ Len(c \o b) = Len(c) + Len(b)
          /\ \A j \in 1 .. Len(c) + Len(b) : (c \o b)[j] = IF j <= Len(c) THEN c[j] ELSE b[j - Len(c)]
      BY <2>2, <2>5, ConcatProperties, Zenon
    <3>3. Len(c) = i
      BY <2>5
    <3> QED
      BY ONLY <3>1, <3>2, <3>3
  <2>7. ASSUME NEW j \in 1 .. Len(s) + 1
        PROVE  (c \o b)[j] = IF j < i THEN s[j] ELSE IF j = i THEN e ELSE s[j - 1]
    <3>1. CASE j <= i
      BY <1>1, <2>1, <2>5, <2>6, <3>1, SMTT(30)
    <3>2. CASE j > i
      <4>1. j - i \in 1 .. Len(s) - i + 1 /\ i + (j - i) - 1 = j - 1 /\ ~(j <= i) /\ ~(j < i) /\ j # i
        BY <1>1, <3>2
      <4>2. b[j - i] = s[j - 1]
        BY <2>2, <4>1
      <4> QED
        BY <2>6, <4>1, <4>2
    <3>3. j <= i \/ j > i
      BY <1>1
    <3> QED
      BY <3>1, <3>2, <3>3, Zenon
  <2>8. Insert(s, i, e) = c \o b
    BY <2>3 DEF c
  <2> QED
    BY <2>6, <2>7, <2>8 DEF Opened
<1> QED
  BY <1>1, <1>2, <1>3

LEMMA DeleteLineKeeps == ASSUME ReviewInv, NEW i \in 1 .. 4, DeleteReceiptLine(i), ~WorksOnMeanwhile PROVE ReviewInv'
<1> DEFINE its == rows.items
           orig == rows.originals
           its2 == RemovedAt(its, i)
           orig2 == IF i \in DOMAIN orig THEN RemovedAt(orig, i) ELSE orig
<1>1. /\ rows \in RowSet /\ its \in Seq(Line) /\ orig \in Seq(Line) /\ i \in DOMAIN its
      /\ typed \subseteq {l \in Line : l.edited}
  BY DEF ReviewInv, ReviewTypes, DeleteReceiptLine, RowSet
<1>2. activeDraft # NoReceipt
  BY <1>1, RowsBelong
<1>3. Apart(rows, activeDraft)
  BY <1>2, ShownRows
<1>4. /\ \A j \in DOMAIN its : its[j].of \in {activeDraft, NoReceipt}
      /\ Len(orig) <= Len(its)
      /\ \A j \in DOMAIN orig : its[j].of = orig[j].of /\ its[j].n = orig[j].n
  BY <1>3 DEF Apart
<1>5. rows' = [rows EXCEPT !.items = its2, !.originals = orig2]
  BY DEF DeleteReceiptLine
<1>6. its2 \in Seq(Line) /\ Len(its2) = Len(its) - 1
      /\ \A j \in 1 .. Len(its) - 1 : its2[j] = IF j < i THEN its[j] ELSE its[j + 1]
  <2> HIDE DEF its
  <2>1. Closed(its2, its, i, Line)
    BY <1>1, RemovedIs
  <2> HIDE DEF its2
  <2> QED
    BY <2>1 DEF Closed
<1>7. i \in DOMAIN orig => /\ orig2 \in Seq(Line) /\ Len(orig2) = Len(orig) - 1
                           /\ \A j \in 1 .. Len(orig) - 1 : orig2[j] = IF j < i THEN orig[j] ELSE orig[j + 1]
  <2> HIDE DEF orig
  <2>1. i \in DOMAIN orig => Closed(orig2, orig, i, Line)
    BY <1>1, RemovedIs
  <2> HIDE DEF orig2
  <2> QED
    BY <2>1 DEF Closed
<1>8. i \notin DOMAIN orig => orig2 = orig
  OBVIOUS
<1>9. undo' = [index |-> i, item |-> its[i], original |-> At(orig, i)] /\ typed' = typed \ {its[i]}
  BY DEF DeleteReceiptLine
<1>10. its[i] \in Line /\ \A j \in DOMAIN orig : orig[j] \in Line
  BY <1>1
<1> HIDE DEF its2, orig2
<1>11. rows' \in RowSet /\ rows'.items = its2 /\ rows'.originals = orig2
  <2>1. orig2 \in Seq(Line)
    BY <1>1, <1>7, <1>8
  <2> QED
    BY <1>1, <1>5, <1>6, <2>1 DEF RowSet
<1> HIDE DEF its, orig
<1>12. Len(its) \in Nat /\ Len(orig) \in Nat /\ DOMAIN its = 1 .. Len(its) /\ DOMAIN orig = 1 .. Len(orig)
       /\ i \in 1 .. Len(its) /\ DOMAIN its2 = 1 .. Len(its) - 1
  BY <1>1, <1>6
<1>13. Apart(rows', activeDraft)
  <2> DEFINE from(j) == IF j < i THEN j ELSE j + 1
  <2>1. ASSUME NEW j \in DOMAIN its2 PROVE from(j) \in DOMAIN its /\ its2[j] = its[from(j)]
    <3>1. CASE j < i
      BY <1>6, <1>12, <3>1
    <3>2. CASE ~(j < i)
      BY <1>6, <1>12, <3>2
    <3> QED
      BY <3>1, <3>2
  <2>2. ASSUME NEW j \in 1 .. Len(orig) - 1 PROVE from(j) \in DOMAIN orig
    BY <1>12
  <2>3. \A j \in DOMAIN its2 : its2[j].of \in {activeDraft, NoReceipt}
    BY <1>4, <2>1, Zenon
  <2>4. CASE i \in DOMAIN orig
    <3>1. Len(orig2) = Len(orig) - 1 /\ DOMAIN orig2 = 1 .. Len(orig) - 1
          /\ \A j \in 1 .. Len(orig) - 1 : orig2[j] = IF j < i THEN orig[j] ELSE orig[j + 1]
      BY <1>7, <1>12, <2>4
    <3>2. ASSUME NEW j \in DOMAIN orig2 PROVE its2[j].of = orig2[j].of /\ its2[j].n = orig2[j].n
      <4>1. orig2[j] = orig[from(j)] /\ from(j) \in DOMAIN orig
        <5>1. CASE j < i
          BY <2>2, <3>1, <5>1
        <5>2. CASE ~(j < i)
          BY <2>2, <3>1, <5>2
        <5> QED
          BY <5>1, <5>2
      <4>2. j \in DOMAIN its2
        BY <1>4, <1>12, <3>1
      <4>3. its2[j] = its[from(j)]
        BY <2>1, <4>2
      <4> HIDE DEF from
      <4> QED
        BY <1>4, <4>1, <4>3
    <3> QED
      BY <1>4, <1>6, <1>11, <1>12, <2>3, <3>1, <3>2 DEF Apart
  <2>5. CASE i \notin DOMAIN orig
    <3>1. orig2 = orig /\ Len(orig) <= Len(its) - 1 /\ \A j \in DOMAIN orig : j < i /\ j \in 1 .. Len(its) - 1
      BY <1>4, <1>8, <1>12, <2>5
    <3>2. ASSUME NEW j \in DOMAIN orig2 PROVE its2[j].of = orig2[j].of /\ its2[j].n = orig2[j].n
      BY <1>4, <1>6, <3>1
    <3> QED
      BY <1>6, <1>11, <2>3, <3>1, <3>2 DEF Apart
  <2> QED
    BY <2>4, <2>5
<1>14. ASSUME NEW l \in typed', l.of # NoReceipt
       PROVE  IF l.of = activeDraft THEN \E j \in DOMAIN rows'.items : rows'.items[j] = l ELSE l \in typed
  <2>1. CASE l.of = activeDraft
    <3>1. PICK j \in DOMAIN its : its[j] = l
      BY <1>2, <1>9, <2>1, ShownRows DEF its
    <3>2. j # i
      BY <1>9, <3>1
    <3>3. CASE j < i
      <4>1. j \in DOMAIN its2 /\ its2[j] = l
        BY <1>6, <1>12, <3>1, <3>3
      <4> QED
        BY <1>11, <2>1, <4>1
    <3>4. CASE j > i
      <4>1. j - 1 \in DOMAIN its2 /\ ~(j - 1 < i) /\ (j - 1) + 1 = j /\ j - 1 \in 1 .. Len(its) - 1
        BY <1>12, <3>1, <3>4
      <4>2. its2[j - 1] = l
        BY <1>6, <3>1, <4>1
      <4> QED
        BY <1>11, <2>1, <4>1, <4>2
    <3> QED
      BY <1>12, <3>1, <3>2, <3>3, <3>4
  <2>2. CASE l.of # activeDraft
    BY <1>9, <2>2
  <2> QED
    BY <2>1, <2>2
<1>15. UndoFits'
  <2>1. undo'.index = i /\ undo'.item = its[i] /\ undo'.original = At(orig, i) /\ activeDraft' = activeDraft
    BY <1>9 DEF DeleteReceiptLine
  <2>2. i \in 1 .. Len(its2) + 1 /\ its[i].of \in {activeDraft, NoReceipt}
    BY <1>4, <1>6, <1>12
  <2>3. CASE i \in DOMAIN orig
    <3>1. At(orig, i) = <<orig[i]>> /\ orig[i] \in Line /\ orig[i].of = its[i].of /\ orig[i].n = its[i].n
      BY <1>4, <1>10, <2>3 DEF At, orig
    <3>2. i <= Len(orig2) + 1
      BY <1>7, <1>12, <2>3
    <3> QED
      BY <1>2, <1>10, <1>11, <2>1, <2>2, <3>1, <3>2 DEF UndoFits
  <2>4. CASE i \notin DOMAIN orig
    <3>1. At(orig, i) = <<>> /\ i > Len(orig2)
      BY <1>8, <1>12, <2>4 DEF At
    <3> QED
      BY <1>2, <1>10, <1>11, <2>1, <2>2, <3>1 DEF UndoFits
  <2> QED
    BY <2>3, <2>4
<1>16. ConfirmFits'
  BY DEF ReviewInv, ConfirmFits, DeleteReceiptLine, Editable
<1>17. reviewActs' \in 0 .. MaxReviewActs
  BY ReviewAssumption DEF ReviewInv, ReviewTypes, DeleteReceiptLine, Acts
<1>18. typed' \subseteq {l \in Line : l.edited}
  BY <1>1, <1>9
<1>19. UNCHANGED <<pending, resultOf, drafts, activeDraft, imports>>
  BY DEF DeleteReceiptLine
<1> QED
  BY <1>2, <1>11, <1>13, <1>14, <1>15, <1>16, <1>17, <1>18, <1>19, RowsKeep

LEMMA RestoreLineKeeps == ASSUME ReviewInv, RestoreReceiptLine, ~WorksOnMeanwhile PROVE ReviewInv'
<1> DEFINE its == rows.items
           orig == rows.originals
           k == undo.index
           u == undo.item
           its2 == Insert(its, k, u)
           orig2 == IF undo.original = <<>> THEN orig ELSE Insert(orig, k, undo.original[1])
<1>1. /\ rows \in RowSet /\ its \in Seq(Line) /\ orig \in Seq(Line) /\ typed \subseteq {l \in Line : l.edited}
  BY DEF ReviewInv, ReviewTypes, RowSet
<1>2. /\ activeDraft # NoReceipt /\ k \in 1 .. Len(its) + 1
      /\ u \in Line /\ u.of \in {activeDraft, NoReceipt}
      /\ \/ undo.original = <<>> /\ k > Len(orig)
         \/ \E o \in Line : undo.original = <<o>> /\ o.of = u.of /\ o.n = u.n /\ k <= Len(orig) + 1
  <2>1. k # 0
    BY DEF RestoreReceiptLine
  <2> QED
    BY <2>1 DEF ReviewInv, UndoFits
<1>3. Apart(rows, activeDraft)
  BY <1>2, ShownRows
<1>4. /\ \A j \in DOMAIN its : its[j].of \in {activeDraft, NoReceipt}
      /\ Len(orig) <= Len(its)
      /\ \A j \in DOMAIN orig : its[j].of = orig[j].of /\ its[j].n = orig[j].n
  BY <1>3 DEF Apart
<1>5. rows' = [rows EXCEPT !.items = its2, !.originals = orig2]
  BY DEF RestoreReceiptLine
<1>6. its2 \in Seq(Line) /\ Len(its2) = Len(its) + 1
      /\ \A j \in 1 .. Len(its) + 1 : its2[j] = IF j < k THEN its[j] ELSE IF j = k THEN u ELSE its[j - 1]
  <2>1. its \in Seq(Line) /\ u \in Line /\ k \in 1 .. Len(its) + 1
    BY <1>1, <1>2
  <2> HIDE DEF its, k, u
  <2>2. Opened(its2, its, k, u, Line)
    BY <2>1, InsertedIs
  <2> HIDE DEF its2
  <2> QED
    BY <2>2 DEF Opened
<1>7. typed' = IF u.edited THEN typed \cup {u} ELSE typed
  BY DEF RestoreReceiptLine
<1>8. Len(its) \in Nat /\ Len(orig) \in Nat /\ DOMAIN its = 1 .. Len(its) /\ DOMAIN orig = 1 .. Len(orig)
      /\ DOMAIN its2 = 1 .. Len(its) + 1 /\ k \in Nat
  <2> HIDE DEF its2, its, orig, k
  <2>1. Len(its) \in Nat /\ DOMAIN its = 1 .. Len(its) /\ Len(orig) \in Nat /\ DOMAIN orig = 1 .. Len(orig)
    BY <1>1
  <2>2. DOMAIN its2 = 1 .. Len(its) + 1
    BY <1>6
  <2>3. k \in Nat
    BY <1>2, <2>1
  <2> QED
    BY <2>1, <2>2, <2>3
<1>9. orig2 \in Seq(Line) /\ Len(orig2) <= Len(its) + 1
      /\ \A j \in DOMAIN orig2 : its2[j].of = orig2[j].of /\ its2[j].n = orig2[j].n
  <2>1. CASE undo.original = <<>> /\ k > Len(orig)
    <3>1. orig2 = orig
      BY <2>1
    <3> HIDE DEF its2, its, orig, k, u, orig2
    <3>2. ASSUME NEW j \in DOMAIN orig PROVE its2[j] = its[j]
      BY <1>4, <1>6, <1>8, <2>1
    <3> QED
      BY <1>1, <1>4, <1>8, <3>1, <3>2
  <2>2. CASE \E o \in Line : undo.original = <<o>> /\ o.of = u.of /\ o.n = u.n /\ k <= Len(orig) + 1
    <3>1. PICK o \in Line : undo.original = <<o>> /\ o.of = u.of /\ o.n = u.n /\ k <= Len(orig) + 1
      BY <2>2
    <3>2. orig2 = Insert(orig, k, o)
      BY <3>1
    <3>3. k \in 1 .. Len(orig) + 1
      BY <1>2, <1>8, <3>1
    <3> HIDE DEF its2, its, orig, k, u, orig2
    <3>4. orig2 \in Seq(Line) /\ Len(orig2) = Len(orig) + 1
          /\ \A j \in 1 .. Len(orig) + 1 : orig2[j] = IF j < k THEN orig[j] ELSE IF j = k THEN o ELSE orig[j - 1]
      <4>1. Opened(orig2, orig, k, o, Line)
        BY <1>1, <3>2, <3>3, InsertedIs
      <4> QED
        BY <4>1 DEF Opened
    <3>5. DOMAIN orig2 = 1 .. Len(orig) + 1
      BY <3>4
    <3>6. ASSUME NEW j \in DOMAIN orig2 PROVE its2[j].of = orig2[j].of /\ its2[j].n = orig2[j].n
      <4>1. j \in 1 .. Len(its) + 1 /\ j \in 1 .. Len(orig) + 1
        BY <1>4, <1>8, <3>5
      <4>2. CASE j < k
        <5>1. its2[j] = its[j] /\ orig2[j] = orig[j] /\ j \in DOMAIN orig
          BY <1>6, <1>8, <3>3, <3>4, <4>1, <4>2
        <5> QED
          BY <1>4, <5>1
      <4>3. CASE j = k
        BY <1>6, <1>8, <3>1, <3>4, <4>1, <4>3
      <4>4. CASE j > k
        <5>1. j - 1 \in DOMAIN orig /\ ~(j < k) /\ j # k
          BY <1>8, <3>3, <4>1, <4>4
        <5>2. its2[j] = its[j - 1] /\ orig2[j] = orig[j - 1]
          BY <1>6, <3>4, <4>1, <5>1
        <5> QED
          BY <1>4, <5>1, <5>2
      <4>5. j < k \/ j = k \/ j > k
        BY <1>8, <4>1
      <4> QED
        BY <4>2, <4>3, <4>4, <4>5, Zenon
    <3>7. Len(orig2) <= Len(its) + 1
      BY <1>4, <1>8, <3>4
    <3> QED
      BY <3>4, <3>6, <3>7
  <2> QED
    BY <1>2, <2>1, <2>2
<1> HIDE DEF its2, orig2
<1>10. rows' \in RowSet /\ rows'.items = its2 /\ rows'.originals = orig2
  BY <1>1, <1>5, <1>6, <1>9 DEF RowSet
<1> HIDE DEF its, orig, k, u
<1>11. Apart(rows', activeDraft)
  <2>1. ASSUME NEW j \in DOMAIN its2 PROVE its2[j].of \in {activeDraft, NoReceipt}
    <3>1. CASE j < k
      <4>1. its2[j] = its[j] /\ j \in DOMAIN its
        BY <1>2, <1>6, <1>8, <3>1
      <4> QED
        BY <1>4, <4>1
    <3>2. CASE j = k
      BY <1>2, <1>6, <1>8, <3>2
    <3>3. CASE j > k
      <4>1. j - 1 \in DOMAIN its /\ ~(j < k) /\ j # k /\ j \in 1 .. Len(its) + 1
        BY <1>2, <1>8, <3>3
      <4>2. its2[j] = its[j - 1]
        BY <1>6, <4>1
      <4> QED
        BY <1>4, <4>1, <4>2
    <3>4. j < k \/ j = k \/ j > k
      BY <1>8
    <3> QED
      BY <3>1, <3>2, <3>3, <3>4, Zenon
  <2>2. Len(orig2) <= Len(its2)
    BY <1>6, <1>9
  <2> QED
    BY <1>9, <1>10, <2>1, <2>2 DEF Apart
<1>12. ASSUME NEW l \in typed', l.of # NoReceipt
       PROVE  IF l.of = activeDraft THEN \E j \in DOMAIN rows'.items : rows'.items[j] = l ELSE l \in typed
  <2>1. CASE l = u
    <3>1. k \in DOMAIN its2 /\ its2[k] = u /\ u.of = activeDraft
      BY <1>2, <1>6, <1>8, <1>12, <2>1
    <3> QED
      BY <1>10, <2>1, <3>1
  <2>2. CASE l \in typed /\ l.of = activeDraft
    <3>1. PICK j \in DOMAIN its : its[j] = l
      BY <1>2, <2>2, ShownRows DEF its
    <3>2. CASE j < k
      <4>1. j \in DOMAIN its2 /\ its2[j] = l
        BY <1>6, <1>8, <3>1, <3>2
      <4> QED
        BY <1>10, <2>2, <4>1
    <3>3. CASE j >= k
      <4>1. j + 1 \in 1 .. Len(its) + 1 /\ ~(j + 1 < k) /\ j + 1 # k /\ (j + 1) - 1 = j
        BY <1>8, <3>3
      <4>2. its2[j + 1] = l
        BY <1>6, <3>1, <4>1
      <4> QED
        BY <1>8, <1>10, <2>2, <4>1, <4>2
    <3> QED
      BY <1>8, <3>2, <3>3
  <2> QED
    BY <1>7, <1>12, <2>1, <2>2
<1>13. UndoFits'
  BY DEF RestoreReceiptLine, NoUndo, UndoFits
<1>14. ConfirmFits'
  BY DEF ReviewInv, ConfirmFits, RestoreReceiptLine, Editable
<1>15. reviewActs' \in 0 .. MaxReviewActs
  BY ReviewAssumption DEF ReviewInv, ReviewTypes, RestoreReceiptLine, Acts
<1>16. typed' \subseteq {l \in Line : l.edited}
  BY <1>1, <1>2, <1>7
<1>17. UNCHANGED <<pending, resultOf, drafts, activeDraft, imports>>
  BY DEF RestoreReceiptLine
<1> QED
  BY <1>2, <1>10, <1>11, <1>12, <1>13, <1>14, <1>15, <1>16, <1>17, RowsKeep

LEMMA AddLineKeeps == ASSUME ReviewInv, AddBlankLine, ~WorksOnMeanwhile PROVE ReviewInv'
<1> DEFINE its == rows.items
           blank == [of |-> NoReceipt, n |-> 0, edited |-> FALSE]
           its2 == Append(its, blank)
<1>1. rows \in RowSet /\ its \in Seq(Line) /\ rows.originals \in Seq(Line) /\ activeDraft # NoReceipt
      /\ typed \subseteq {l \in Line : l.edited} /\ typed' = typed
  BY DEF ReviewInv, ReviewTypes, RowSet, AddBlankLine
<1>2. blank \in Line /\ blank.of = NoReceipt
  BY DEF Line
<1>3. rows' = [rows EXCEPT !.items = its2]
  BY DEF AddBlankLine
<1> HIDE DEF blank
<1>4. its2 \in Seq(Line) /\ Len(its2) = Len(its) + 1 /\ DOMAIN its2 = 1 .. Len(its) + 1 /\ Len(its) \in Nat
      /\ DOMAIN its = 1 .. Len(its) /\ its2[Len(its) + 1] = blank /\ \A j \in DOMAIN its : its2[j] = its[j]
  BY <1>1, <1>2
<1> HIDE DEF its2
<1>5. rows' \in RowSet /\ rows'.items = its2 /\ rows'.originals = rows.originals
  BY <1>1, <1>3, <1>4 DEF RowSet
<1>6. Apart(rows', activeDraft)
  <2>1. Apart(rows, activeDraft) /\ Len(rows.originals) \in Nat /\ DOMAIN rows.originals = 1 .. Len(rows.originals)
    BY <1>1, ShownRows
  <2>2. ASSUME NEW j \in DOMAIN its2 PROVE its2[j].of \in {activeDraft, NoReceipt}
    BY <1>2, <1>4, <2>1 DEF Apart
  <2>3. Len(rows.originals) <= Len(its2) /\ \A j \in DOMAIN rows.originals : j \in DOMAIN its
    BY <1>4, <2>1 DEF Apart
  <2> HIDE DEF its
  <2> QED
    BY <1>4, <1>5, <2>1, <2>2, <2>3 DEF Apart, its
<1>7. ASSUME NEW l \in typed', l.of # NoReceipt
      PROVE  IF l.of = activeDraft THEN \E j \in DOMAIN rows'.items : rows'.items[j] = l ELSE l \in typed
  <2>1. CASE l.of = activeDraft
    <3>1. PICK j \in DOMAIN its : its[j] = l
      BY <1>1, <1>7, <2>1, ShownRows
    <3>2. j \in DOMAIN its2 /\ its2[j] = l
      BY <1>4, <3>1
    <3> QED
      BY <1>5, <2>1, <3>2
  <2> QED
    BY <1>1, <1>7, <2>1
<1>8. UndoFits'
  BY <1>4, <1>5 DEF ReviewInv, UndoFits, AddBlankLine
<1>9. ConfirmFits'
  BY DEF ReviewInv, ConfirmFits, AddBlankLine, Editable
<1>10. reviewActs' \in 0 .. MaxReviewActs
  BY ReviewAssumption DEF ReviewInv, ReviewTypes, AddBlankLine, Acts
<1>11. typed' \subseteq {l \in Line : l.edited}
  BY <1>1
<1>12. UNCHANGED <<pending, resultOf, drafts, activeDraft, imports>>
  BY DEF AddBlankLine
<1> QED
  BY <1>1, <1>5, <1>6, <1>7, <1>8, <1>9, <1>10, <1>11, <1>12, RowsKeep

LEMMA ValidateStartsKeeps ==
  ASSUME ReviewInv, NEW stage \in {"validating", "confirming"}, ValidateStarts(stage)
  PROVE  ReviewInv'
<1>1. activeDraft # NoReceipt
  BY RowsBelong DEF ValidateStarts
<1>2. confirming'.stage = stage /\ confirming'.items = rows.items
  BY DEF ValidateStarts, NotWaiting
<1>3. ConfirmFits'
  BY <1>1, <1>2 DEF ConfirmFits, ValidateStarts
<1>4. reviewActs' \in 0 .. MaxReviewActs
  BY ReviewAssumption DEF ReviewInv, ReviewTypes, ValidateStarts, Acts
<1>5. UNCHANGED <<pending, resultOf, drafts, activeDraft, rows, undo, imports, typed>>
  BY DEF ValidateStarts
<1>6. ReviewTypes' /\ ActiveFits' /\ UndoFits' /\ ImportsFit'
  BY <1>4, <1>5 DEF ReviewInv, ReviewTypes, ActiveFits, UndoFits, ImportsFit
<1>7. Saved' = Saved
  BY <1>5 DEF Saved, IsActive
<1>8. Holds(Saved', pending', resultOf', typed')
  BY <1>5, <1>7 DEF ReviewInv
<1> QED
  BY <1>3, <1>6, <1>8 DEF ReviewInv

LEMMA ValidateEndsKeeps == ASSUME ReviewInv, NEW ok \in BOOLEAN, ValidateEnds(ok) PROVE ReviewInv'
<1>1. rows \in RowSet /\ confirming.items = rows.items
  BY DEF ReviewInv, ReviewTypes, ConfirmFits, ValidateEnds
<1>2. [rows EXCEPT !.items = rows.items] = rows
  BY <1>1 DEF RowSet
<1>3. UNCHANGED <<pending, resultOf, drafts, activeDraft, rows, undo, imports, typed, reviewActs>>
  BY <1>1, <1>2 DEF ValidateEnds
<1>4. ReviewTypes' /\ ActiveFits' /\ UndoFits' /\ ImportsFit'
  BY <1>3 DEF ReviewInv, ReviewTypes, ActiveFits, UndoFits, ImportsFit
<1>5. Saved' = Saved
  BY <1>3 DEF Saved, IsActive
<1>6. Holds(Saved', pending', resultOf', typed')
  BY <1>3, <1>5 DEF ReviewInv
<1>7. ConfirmFits'
  BY DEF ConfirmFits, ValidateEnds, NotWaiting
<1> QED
  BY <1>4, <1>6, <1>7 DEF ReviewInv

LEMMA ConfirmValidatedKeeps ==
  ASSUME ReviewInv, NEW linesOk \in BOOLEAN, NEW totalOk \in BOOLEAN, ConfirmValidated(linesOk, totalOk)
  PROVE  ReviewInv'
<1>1. rows \in RowSet /\ confirming.items = rows.items /\ activeDraft # NoReceipt
      /\ typed \subseteq {l \in Line : l.edited} /\ reviewActs \in 0 .. MaxReviewActs
  BY DEF ReviewInv, ReviewTypes, ConfirmFits, ConfirmValidated
<1> DEFINE approves == rows.approved \/ (linesOk /\ ~totalOk)
<1>2. rows' = [rows EXCEPT !.items = rows.items, !.approved = approves]
  BY <1>1 DEF ConfirmValidated
<1>3. approves \in BOOLEAN
  OBVIOUS
<1> HIDE DEF approves
<1>4. rows' \in RowSet /\ rows'.items = rows.items /\ rows'.originals = rows.originals
  BY <1>1, <1>2, <1>3 DEF RowSet
<1>5. UNCHANGED <<pending, resultOf, drafts, activeDraft, undo, imports, typed, reviewActs>>
  BY DEF ConfirmValidated
<1>6. Apart(rows', activeDraft)
  BY <1>1, <1>4, ShownRows DEF Apart
<1>7. ASSUME NEW l \in typed', l.of # NoReceipt
      PROVE  IF l.of = activeDraft THEN \E j \in DOMAIN rows'.items : rows'.items[j] = l ELSE l \in typed
  BY <1>1, <1>4, <1>5, <1>7, ShownRows
<1>8. UndoFits'
  BY <1>4, <1>5 DEF ReviewInv, UndoFits
<1>9. ConfirmFits'
  <2>1. CASE confirming' = NotWaiting
    BY <2>1 DEF ConfirmFits, NotWaiting
  <2>2. CASE \E d \in Draft :
              confirming' = [stage |-> "posted", items |-> confirming.items,
                             sent |-> <<[key |-> ImportKey(d), of |-> d.key, items |-> confirming.items,
                                         corrections |-> Corrections(confirming.items, rows.originals),
                                         mismatch |-> ~totalOk]>>]
    <3>1. PICK d \in Draft :
              confirming' = [stage |-> "posted", items |-> confirming.items,
                             sent |-> <<[key |-> ImportKey(d), of |-> d.key, items |-> confirming.items,
                                         corrections |-> Corrections(confirming.items, rows.originals),
                                         mismatch |-> ~totalOk]>>]
      BY <2>2
    <3>2. d.key = activeDraft
      BY DEF Draft, IsActive
    <3>3. confirming'.stage = "posted" /\ Len(confirming'.sent) = 1 /\ confirming'.sent[1].of = activeDraft
          /\ confirming'.sent[1].items = rows.items
      BY <1>1, <3>1, <3>2
    <3> QED
      BY <1>1, <1>4, <1>5, <3>3 DEF ConfirmFits
  <2> QED
    BY <2>1, <2>2 DEF ConfirmValidated
<1>10. typed' \subseteq {l \in Line : l.edited} /\ reviewActs' \in 0 .. MaxReviewActs
  BY <1>1, <1>5
<1> QED
  BY <1>1, <1>4, <1>5, <1>6, <1>7, <1>8, <1>9, <1>10, RowsKeep

\* What the server imports are the lines that are shown.
LEMMA ImportKeeps ==
  ASSUME ReviewInv, confirming.stage = "posted", Import(confirming.sent[1]) \/ UNCHANGED imports
  PROVE  ImportsFit'
<1> DEFINE p == confirming.sent[1]
<1>1. activeDraft # NoReceipt /\ p.of = activeDraft /\ p.items = rows.items
  BY DEF ReviewInv, ConfirmFits
<1>2. \A i \in DOMAIN p.items : p.items[i].of \in {p.of, NoReceipt}
  BY <1>1, ShownRows DEF Apart
<1>3. imports \in Seq(ToSet(imports))
      /\ \A k \in DOMAIN imports : \A i \in DOMAIN imports[k].items : imports[k].items[i].of \in {imports[k].of, NoReceipt}
  BY DEF ReviewInv, ImportsFit
<1> HIDE DEF p
<1>4. CASE UNCHANGED imports
  BY <1>3, <1>4 DEF ImportsFit
<1>5. CASE imports' = Append(imports, p)
  <2> DEFINE U == ToSet(imports) \cup {p}
             n == Len(imports)
  <2>1. imports \in Seq(U) /\ p \in U
    BY <1>3
  <2> HIDE DEF U
  <2>2. imports' \in Seq(U) /\ Len(imports') = n + 1 /\ n \in Nat /\ DOMAIN imports' = 1 .. n + 1
        /\ DOMAIN imports = 1 .. n
        /\ imports'[n + 1] = p /\ \A k \in 1 .. n : imports'[k] = imports[k]
    BY <1>5, <2>1
  <2>3. imports' \in Seq(ToSet(imports'))
    <3>1. \A k \in DOMAIN imports' : imports'[k] \in ToSet(imports')
      BY DEF ToSet
    <3> QED
      BY <2>2, <3>1
  <2>4. ASSUME NEW k \in DOMAIN imports', NEW i \in DOMAIN imports'[k].items
        PROVE  imports'[k].items[i].of \in {imports'[k].of, NoReceipt}
    <3>1. CASE k = n + 1
      BY <1>2, <2>2, <2>4, <3>1
    <3>2. CASE k \in 1 .. n
      BY <1>3, <2>2, <2>4, <3>2
    <3> QED
      BY <2>2, <3>1, <3>2
  <2> QED
    BY <2>3, <2>4 DEF ImportsFit
<1> QED
  BY <1>4, <1>5 DEF Import, p

LEMMA ConfirmFailsKeeps == ASSUME ReviewInv, ConfirmFails PROVE ReviewInv'
<1>1. ImportsFit'
  BY ImportKeeps DEF ConfirmFails
<1>2. UNCHANGED <<pending, resultOf, drafts, activeDraft, rows, undo, typed, reviewActs>>
  BY DEF ConfirmFails
<1>3. ReviewTypes' /\ ActiveFits' /\ UndoFits'
  BY <1>2 DEF ReviewInv, ReviewTypes, ActiveFits, UndoFits
<1>4. Saved' = Saved
  BY <1>2 DEF Saved, IsActive
<1>5. Holds(Saved', pending', resultOf', typed')
  BY <1>2, <1>4 DEF ReviewInv
<1>6. ConfirmFits'
  BY DEF ConfirmFits, ConfirmFails, NotWaiting
<1> QED
  BY <1>1, <1>3, <1>5, <1>6 DEF ReviewInv

LEMMA SelectKeeps ==
  ASSUME ReviewInv, NEW c \in Receipts, SelectDraft(c), ~WorksOnMeanwhile
  PROVE  ReviewInv'
<1>1. drafts \in Seq(DraftSet) /\ rows \in RowSet /\ Holds(Saved, pending, resultOf, typed)
  BY DEF ReviewInv, ReviewTypes
<1>2. drafts' = Saved /\ Activate(c, drafts') /\ UNCHANGED <<pending, resultOf, confirming, imports, typed>>
  BY DEF SelectDraft
<1>3. DOMAIN Saved = DOMAIN drafts /\ \A i \in DOMAIN drafts : Saved[i].key = drafts[i].key
  BY <1>1, SavedIs
<1>4. PICK i \in DOMAIN drafts' : drafts'[i].key = c
  <2>1. \E i \in DOMAIN drafts : drafts[i].key = c
    BY DEF SelectDraft, ToSet
  <2> QED
    BY <1>2, <1>3, <2>1
<1>5. drafts' \in Seq(DraftSet) /\ OnePerKey(drafts')
  BY <1>1, <1>2 DEF Holds
<1>6. rows' \in RowSet /\ Saved' = drafts' /\ ActiveFits'
  BY <1>2, <1>4, <1>5, Activated
<1>7. Holds(Saved', pending', resultOf', typed')
  BY <1>1, <1>2, <1>6
<1>8. reviewActs' \in 0 .. MaxReviewActs
  BY ReviewAssumption DEF ReviewInv, ReviewTypes, SelectDraft, Acts
<1>9. ReviewTypes'
  BY <1>2, <1>5, <1>6, <1>8 DEF ReviewInv, ReviewTypes
<1>10. UndoFits' /\ ImportsFit' /\ ConfirmFits'
  <2>1. undo' = NoUndo /\ confirming.stage = "none"
    BY DEF SelectDraft, UndoAfter, Editable
  <2> QED
    BY <1>2, <2>1 DEF ReviewInv, UndoFits, ImportsFit, ConfirmFits, NoUndo
<1> QED
  BY <1>6, <1>7, <1>9, <1>10 DEF ReviewInv

LEMMA ConfirmedKeeps == ASSUME ReviewInv, Confirmed, ~WorksOnMeanwhile PROVE ReviewInv'
<1> DEFINE a == activeDraft
           others == {d \in ToSet(drafts) : d.key # a}
           left == Among(drafts, others)
<1>1. confirming.stage = "posted" /\ a # NoReceipt /\ confirming.sent[1].of = a
  BY DEF Confirmed, ReviewInv, ConfirmFits
<1>2. /\ pending' = pending \ {a} /\ drafts' = left /\ undo' = UndoAfter /\ confirming' = NotWaiting
      /\ typed' = {l \in typed : l.of # a} /\ UNCHANGED <<resultOf, reviewActs>>
      /\ IF left = <<>> THEN activeDraft' = NoReceipt /\ rows' = NoRows ELSE Activate(left[1].key, left)
  BY <1>1 DEF Confirmed
<1>3. ImportsFit'
  BY <1>1, ImportKeeps DEF Confirmed
<1>4. drafts \in Seq(DraftSet) /\ rows \in RowSet /\ OnePerKey(drafts) /\ Holds(Saved, pending, resultOf, typed)
      /\ pending \subseteq Receipts /\ resultOf \in [Receipts -> 0 .. MaxResults] /\ reviewActs \in 0 .. MaxReviewActs
      /\ typed \subseteq {l \in Line : l.edited}
  BY DEF ReviewInv, ReviewTypes
<1>5. /\ DOMAIN Saved = DOMAIN drafts
      /\ \A i \in DOMAIN drafts : Saved[i].key = drafts[i].key /\ (drafts[i].key # a => Saved[i] = drafts[i])
  BY <1>4, SavedIs
<1>6. left \in Seq(DraftSet)
      /\ \A x : (\E i \in DOMAIN left : left[i] = x) <=> x \in others /\ \E i \in DOMAIN drafts : drafts[i] = x
  <2>1. drafts \in Seq(DraftSet)
    BY <1>4
  <2> HIDE DEF others
  <2>2. Chosen(left, drafts, others, DraftSet)
    BY <2>1, AmongIs
  <2> HIDE DEF left
  <2> QED
    BY <2>2 DEF Chosen
<1>7. ASSUME NEW i \in DOMAIN left PROVE \E k \in DOMAIN drafts : drafts[k] = left[i] /\ drafts[k].key # a /\ Saved[k] = left[i]
  <2>1. left[i] \in others /\ \E k \in DOMAIN drafts : drafts[k] = left[i]
    <3> HIDE DEF left, others
    <3> QED
      BY <1>6, <1>7
  <2>2. PICK k \in DOMAIN drafts : drafts[k] = left[i]
    BY <2>1
  <2>3. drafts[k].key # a
    BY <2>1, <2>2
  <2> QED
    BY <1>5, <2>2, <2>3
<1>8. ASSUME NEW k \in DOMAIN drafts, drafts[k].key # a PROVE \E i \in DOMAIN left : left[i] = Saved[k]
  <2>1. drafts[k] \in others
    BY <1>8 DEF ToSet
  <2>2. Saved[k] = drafts[k]
    BY <1>5, <1>8
  <2> HIDE DEF left, others
  <2>3. \E i \in DOMAIN left : left[i] = drafts[k]
    BY <1>6, <2>1
  <2> QED
    BY <2>2, <2>3
<1> HIDE DEF left, a, others
<1>9. OnePerKey(left)
  <2>1. ASSUME NEW i \in DOMAIN left, NEW j \in DOMAIN left, left[i].key = left[j].key PROVE left[i] = left[j]
    <3>1. PICK k \in DOMAIN drafts : drafts[k] = left[i]
      BY <1>7
    <3>2. PICK m \in DOMAIN drafts : drafts[m] = left[j]
      BY <1>7
    <3> QED
      BY <1>4, <2>1, <3>1, <3>2 DEF OnePerKey
  <2> QED
    BY <2>1 DEF OnePerKey
<1>10. ASSUME NEW i \in DOMAIN left
       PROVE  /\ left[i].key \in pending' /\ left[i].version = resultOf'[left[i].key] /\ resultOf'[left[i].key] > 0
              /\ Apart(left[i].rows, left[i].key)
  <2>1. PICK k \in DOMAIN drafts : drafts[k] = left[i] /\ drafts[k].key # a /\ Saved[k] = left[i]
    BY <1>7
  <2>2. /\ Saved[k].key \in pending /\ Saved[k].version = resultOf[Saved[k].key] /\ resultOf[Saved[k].key] > 0
        /\ Apart(Saved[k].rows, Saved[k].key)
    BY <1>4, <1>5 DEF Holds
  <2> QED
    BY <1>2, <2>1, <2>2
<1>11. ASSUME NEW l \in typed', l.of # NoReceipt
       PROVE  \E i \in DOMAIN left : left[i].key = l.of /\ \E j \in DOMAIN left[i].rows.items : left[i].rows.items[j] = l
  <2>1. l \in typed /\ l.of # a
    BY <1>2
  <2>2. PICK k \in DOMAIN Saved : Saved[k].key = l.of /\ \E j \in DOMAIN Saved[k].rows.items : Saved[k].rows.items[j] = l
    BY <1>4, <1>11, <2>1 DEF Holds
  <2>3. k \in DOMAIN drafts /\ drafts[k].key # a
    BY <1>5, <2>1, <2>2
  <2>4. PICK i \in DOMAIN left : left[i] = Saved[k]
    BY <1>8, <2>3
  <2> QED
    BY <2>2, <2>4
<1>12. Holds(left, pending', resultOf', typed')
  BY <1>6, <1>9, <1>10, <1>11 DEF Holds
<1>13. rows' \in RowSet /\ Saved' = left /\ ActiveFits'
  <2>1. CASE left = <<>>
    <3>1. activeDraft' = NoReceipt /\ rows' = NoRows /\ drafts' = <<>>
      BY <1>2, <2>1
    <3>2. NoRows \in RowSet
      BY DEF NoRows, RowSet
    <3>3. Saved' = <<>>
      BY <3>1 DEF Saved
    <3> QED
      BY <2>1, <3>1, <3>2, <3>3 DEF ActiveFits
  <2>2. CASE left # <<>>
    <3>1. 1 \in DOMAIN left
      BY <1>6, <2>2
    <3>2. drafts' = left /\ Activate(drafts'[1].key, drafts')
      BY <1>2, <2>2
    <3>3. drafts' \in Seq(DraftSet) /\ OnePerKey(drafts') /\ 1 \in DOMAIN drafts'
      BY <1>6, <1>9, <3>1, <3>2
    <3> QED
      BY <3>2, <3>3, Activated
  <2> QED
    BY <2>1, <2>2
<1>14. ReviewTypes'
  BY <1>2, <1>4, <1>6, <1>9, <1>13 DEF ReviewTypes
<1>15. UndoFits' /\ ConfirmFits'
  BY <1>2 DEF UndoFits, ConfirmFits, UndoAfter, NoUndo, NotWaiting
<1> QED
  BY <1>3, <1>12, <1>13, <1>14, <1>15 DEF ReviewInv

\* The draft of a capture: the one there is if its result is the same, or a fresh one.
LEMMA DraftIs ==
  ASSUME NEW ds \in Seq(DraftSet), OnePerKey(ds), \A i \in DOMAIN ds : Apart(ds[i].rows, ds[i].key),
         NEW k \in Receipts, resultOf'[k] \in Nat
  PROVE  /\ DraftOf(k, ds) \in DraftSet /\ DraftOf(k, ds).key = k /\ DraftOf(k, ds).version = resultOf'[k]
         /\ Apart(DraftOf(k, ds).rows, k)
         /\ \A i \in DOMAIN ds : ds[i].key = k /\ ds[i].version = resultOf'[k] => DraftOf(k, ds) = ds[i]
<1> DEFINE kept == {d \in ToSet(ds) : d.key = k}
           approves == \E d \in kept : d.rows.approved
           fresh == [key |-> k, version |-> resultOf'[k],
                     rows |-> [items |-> LinesRead(k), originals |-> LinesRead(k), approved |-> approves]]
           same == \E d \in kept : d.version = resultOf'[k]
<1>1. DraftOf(k, ds) = IF same THEN CHOOSE d \in kept : TRUE ELSE fresh
  BY DEF DraftOf
<1>2. CASE same
  <2>1. PICK d \in kept : d.version = resultOf'[k]
    BY <1>2
  <2>2. \A e \in kept : e = d
    BY DEF ToSet, OnePerKey
  <2>3. PICK i \in DOMAIN ds : ds[i] = d
    BY DEF ToSet
  <2>4. d.key = k
    OBVIOUS
  <2>5. \A j \in DOMAIN ds : ds[j].key = k => ds[j] = d
    BY <2>3, <2>4 DEF OnePerKey
  <2> HIDE DEF kept
  <2>6. (CHOOSE e \in kept : TRUE) = d
    BY <2>2
  <2>7. DraftOf(k, ds) = d
    BY <1>1, <1>2, <2>6
  <2>8. d \in DraftSet /\ Apart(d.rows, k)
    BY <2>3, <2>4
  <2> QED
    BY <2>1, <2>4, <2>5, <2>7, <2>8
<1>3. CASE ~same
  <2>1. \A i \in DOMAIN ds : ~(ds[i].key = k /\ ds[i].version = resultOf'[k])
    BY <1>3 DEF ToSet
  <2>2. DraftOf(k, ds) = fresh
    BY <1>1, <1>3
  <2> HIDE DEF kept, same
  <2>3. approves \in BOOLEAN
    OBVIOUS
  <2> HIDE DEF approves
  <2>4. LinesRead(k) \in Seq(Line) /\ Len(LinesRead(k)) = 2 /\ DOMAIN LinesRead(k) = 1 .. 2
        /\ \A i \in 1 .. 2 : LinesRead(k)[i].of = k
    <3>1. LinesRead(k) \in [1 .. 2 -> Line]
      BY DEF LinesRead, Line
    <3> QED
      BY <3>1 DEF LinesRead
  <2>5. fresh.rows.items = LinesRead(k) /\ fresh.rows.originals = LinesRead(k) /\ fresh.key = k /\ fresh.version = resultOf'[k]
    OBVIOUS
  <2>6. fresh \in DraftSet
    BY <2>3, <2>4 DEF DraftSet, RowSet
  <2> HIDE DEF fresh
  <2>7. Apart(fresh.rows, k)
    BY <2>4, <2>5 DEF Apart
  <2> QED
    BY <2>1, <2>2, <2>5, <2>6, <2>7
<1> QED
  BY <1>2, <1>3

LEMMA PageReadKeeps ==
  ASSUME ReviewInv, NEW c \in Receipts, PageRead(c), ~WorksOnMeanwhile
  PROVE  ReviewInv'
<1> DEFINE have == {k \in pending : resultOf'[k] > 0}
           keys == Among(Order, have)
<1>1. /\ drafts \in Seq(DraftSet) /\ rows \in RowSet /\ pending \subseteq Receipts
      /\ resultOf \in [Receipts -> 0 .. MaxResults] /\ Holds(Saved, pending, resultOf, typed)
      /\ typed \subseteq {l \in Line : l.edited} /\ MaxResults \in Nat
  BY ReviewAssumption DEF ReviewInv, ReviewTypes
<1>2. /\ c \in pending /\ resultOf[c] < MaxResults /\ resultOf' = [resultOf EXCEPT ![c] = @ + 1]
      /\ typed' = {l \in typed : l.of # c} /\ undo' = NoUndo /\ confirming.stage = "none"
      /\ UNCHANGED <<pending, confirming, imports>>
  BY DEF PageRead, UndoAfter, Editable
<1>3. /\ drafts' = [i \in DOMAIN keys |-> DraftOf(keys[i], Saved)]
      /\ Activate(IF activeDraft \in ToSet(keys) THEN activeDraft ELSE keys[1], drafts')
  BY DEF PageRead, ApplyCaptureDrafts
<1>4. keys \in Seq(Receipts) /\ \A x : (\E i \in DOMAIN keys : keys[i] = x) <=> x \in have
  <2>1. Order \in Seq(Receipts) /\ \A x \in Receipts : \E i \in DOMAIN Order : Order[i] = x
    BY OrderHasAll
  <2>2. have \subseteq Receipts
    BY <1>1
  <2> HIDE DEF have
  <2>3. Chosen(keys, Order, have, Receipts)
    BY <2>1, AmongIs
  <2> HIDE DEF keys
  <2> QED
    BY <2>1, <2>2, <2>3 DEF Chosen
<1> HIDE DEF keys
<1>5. /\ resultOf' \in [Receipts -> 0 .. MaxResults] /\ resultOf'[c] > 0
      /\ \A k \in Receipts : resultOf'[k] \in Nat /\ (k # c => resultOf'[k] = resultOf[k])
  BY <1>1, <1>2
<1>6. /\ Saved \in Seq(DraftSet) /\ OnePerKey(Saved)
      /\ \A i \in DOMAIN Saved :
           /\ Saved[i].key \in pending /\ Saved[i].version = resultOf[Saved[i].key] /\ resultOf[Saved[i].key] > 0
           /\ Apart(Saved[i].rows, Saved[i].key)
  BY <1>1 DEF Holds
<1> DEFINE ds == drafts'
<1>7. DOMAIN ds = DOMAIN keys /\ DOMAIN keys = 1 .. Len(keys) /\ Len(keys) \in Nat
  BY <1>3, <1>4
<1>8. ASSUME NEW i \in DOMAIN keys
      PROVE  /\ ds[i] \in DraftSet /\ ds[i].key = keys[i] /\ ds[i].version = resultOf'[keys[i]]
             /\ Apart(ds[i].rows, keys[i]) /\ keys[i] \in pending /\ resultOf'[keys[i]] > 0
             /\ \A j \in DOMAIN Saved : Saved[j].key = keys[i] /\ Saved[j].version = resultOf'[keys[i]] => ds[i] = Saved[j]
  <2>1. keys[i] \in have /\ keys[i] \in Receipts
    BY <1>1, <1>4
  <2>2. ds[i] = DraftOf(keys[i], Saved)
    BY <1>3
  <2>3. resultOf'[keys[i]] \in Nat
    BY <1>5, <2>1
  <2> HIDE DEF ds
  <2> DEFINE k == keys[i]
  <2>4. k \in Receipts /\ resultOf'[k] \in Nat
    BY <2>1, <2>3
  <2> HIDE DEF k
  <2>5. /\ DraftOf(k, Saved) \in DraftSet /\ DraftOf(k, Saved).key = k /\ DraftOf(k, Saved).version = resultOf'[k]
        /\ Apart(DraftOf(k, Saved).rows, k)
        /\ \A j \in DOMAIN Saved : Saved[j].key = k /\ Saved[j].version = resultOf'[k] => DraftOf(k, Saved) = Saved[j]
    BY <1>6, <2>4, DraftIs
  <2> QED
    BY <2>1, <2>2, <2>5 DEF k
<1>9. ds \in Seq(DraftSet) /\ OnePerKey(ds)
  <2>1. ds = [i \in 1 .. Len(keys) |-> ds[i]]
    BY <1>3, <1>7
  <2>2. ds \in [1 .. Len(keys) -> DraftSet]
    BY <1>7, <1>8, <2>1
  <2>3. \A i, j \in DOMAIN ds : ds[i].key = ds[j].key => ds[i] = ds[j]
    <3>1. ASSUME NEW i \in DOMAIN keys, NEW j \in DOMAIN keys, ds[i].key = ds[j].key PROVE ds[i] = ds[j]
      <4>1. keys[i] = keys[j]
        BY <1>8, <3>1
      <4> QED
        BY <1>3, <4>1
    <3> QED
      BY <1>7, <3>1
  <2> HIDE DEF ds
  <2> QED
    BY <1>7, <2>2, <2>3 DEF OnePerKey
<1>10. ASSUME NEW l \in typed', l.of # NoReceipt
       PROVE  \E i \in DOMAIN ds : ds[i].key = l.of /\ \E j \in DOMAIN ds[i].rows.items : ds[i].rows.items[j] = l
  <2>1. l \in typed /\ l.of # c
    BY <1>2
  <2>2. PICK m \in DOMAIN Saved : Saved[m].key = l.of /\ \E j \in DOMAIN Saved[m].rows.items : Saved[m].rows.items[j] = l
    BY <1>1, <1>10, <2>1 DEF Holds
  <2>3. l.of \in pending /\ l.of \in Receipts /\ resultOf'[l.of] = resultOf[l.of] /\ resultOf'[l.of] > 0
        /\ Saved[m].version = resultOf'[l.of]
    <3>1. l.of \in pending /\ Saved[m].version = resultOf[l.of] /\ resultOf[l.of] > 0
      BY <1>6, <2>2
    <3>2. l.of \in Receipts
      BY <1>1, <3>1
    <3>3. resultOf'[l.of] = resultOf[l.of]
      BY <1>5, <2>1, <3>2
    <3> QED
      BY <3>1, <3>2, <3>3
  <2>4. PICK i \in DOMAIN keys : keys[i] = l.of
    BY <1>4, <2>3
  <2>5. ds[i] = Saved[m]
    BY <1>8, <2>2, <2>3, <2>4
  <2> QED
    BY <1>7, <2>2, <2>4, <2>5
<1>11. Holds(ds, pending', resultOf', typed')
  <2>1. ASSUME NEW i \in DOMAIN ds
        PROVE  /\ ds[i].key \in pending' /\ ds[i].version = resultOf'[ds[i].key] /\ resultOf'[ds[i].key] > 0
               /\ Apart(ds[i].rows, ds[i].key)
    BY <1>2, <1>7, <1>8
  <2> HIDE DEF ds
  <2> QED
    BY <1>9, <1>10, <2>1 DEF Holds
<1>12. PICK i \in DOMAIN keys : keys[i] = IF activeDraft \in ToSet(keys) THEN activeDraft ELSE keys[1]
  <2>1. \E i \in DOMAIN keys : keys[i] = c
    BY <1>2, <1>4, <1>5
  <2>2. 1 \in DOMAIN keys
    BY <1>7, <2>1
  <2> QED
    BY <2>2 DEF ToSet
<1>13. i \in DOMAIN drafts' /\ Activate(drafts'[i].key, drafts')
  BY <1>3, <1>7, <1>8, <1>12
<1>14. rows' \in RowSet /\ Saved' = drafts' /\ ActiveFits'
  BY <1>9, <1>13, Activated
<1>15. reviewActs' \in 0 .. MaxReviewActs
  BY ReviewAssumption DEF ReviewInv, ReviewTypes, PageRead, Acts
<1>16. ReviewTypes'
  BY <1>1, <1>2, <1>5, <1>9, <1>14, <1>15 DEF ReviewTypes
<1>17. UndoFits' /\ ConfirmFits' /\ ImportsFit'
  BY <1>2 DEF ReviewInv, UndoFits, ConfirmFits, ImportsFit, NoUndo
<1> QED
  BY <1>11, <1>14, <1>16, <1>17 DEF ReviewInv

LEMMA ReviewStarts == ASSUME ReviewInit PROVE ReviewInv
<1>1. drafts = <<>> /\ rows = NoRows /\ activeDraft = NoReceipt /\ typed = {} /\ imports = <<>> /\ undo = NoUndo
      /\ confirming = NotWaiting /\ reviewActs = 0 /\ pending = Receipts /\ resultOf = [c \in Receipts |-> 0]
  BY DEF ReviewInit
<1>2. NoRows \in RowSet
  BY DEF NoRows, RowSet
<1>3. ReviewTypes
  BY <1>1, <1>2, ReviewAssumption DEF ReviewTypes, OnePerKey
<1>4. ActiveFits /\ UndoFits /\ ConfirmFits
  BY <1>1 DEF ActiveFits, UndoFits, ConfirmFits, NoUndo, NotWaiting
<1>5. ImportsFit
  BY <1>1 DEF ImportsFit
<1>6. Saved = <<>>
  BY <1>1 DEF Saved
<1>7. Holds(Saved, pending, resultOf, typed)
  BY <1>1, <1>6 DEF Holds, OnePerKey
<1> QED
  BY <1>3, <1>4, <1>5, <1>7 DEF ReviewInv

LEMMA ReviewStays == ASSUME ReviewInv, UNCHANGED reviewVars PROVE ReviewInv'
<1>1. UNCHANGED <<pending, resultOf, drafts, activeDraft, rows, undo, confirming, imports, typed, reviewActs>>
  BY DEF reviewVars
<1>2. ReviewTypes' /\ ActiveFits' /\ UndoFits' /\ ConfirmFits' /\ ImportsFit'
  BY <1>1 DEF ReviewInv, ReviewTypes, ActiveFits, UndoFits, ConfirmFits, ImportsFit
<1>3. Saved' = Saved
  BY <1>1 DEF Saved, IsActive
<1>4. Holds(Saved', pending', resultOf', typed')
  BY <1>1, <1>3 DEF ReviewInv
<1> QED
  BY <1>2, <1>4 DEF ReviewInv

\* What is saved of the drafts is what the review shows of them.
LEMMA ReviewShows == ASSUME ReviewInv PROVE ReviewSound
<1>1. drafts \in Seq(DraftSet) /\ rows \in RowSet /\ Holds(Saved, pending, resultOf, typed)
  BY DEF ReviewInv, ReviewTypes
<1>2. /\ DOMAIN Saved = DOMAIN drafts
      /\ \A i \in DOMAIN drafts : /\ Saved[i].key = drafts[i].key /\ Saved[i].rows = RowsOf(drafts[i])
                                  /\ Saved[i].rows \in RowSet
  <2>1. /\ DOMAIN Saved = DOMAIN drafts
        /\ \A i \in DOMAIN drafts : /\ Saved[i].key = drafts[i].key
                                    /\ Saved[i].rows = IF drafts[i].key = activeDraft THEN rows ELSE drafts[i].rows
    BY <1>1, SavedIs
  <2>2. \A i \in DOMAIN drafts : drafts[i].rows \in RowSet
    <3>1. \A i \in DOMAIN drafts : drafts[i] \in DraftSet
      BY <1>1
    <3> QED
      BY <3>1 DEF DraftSet
  <2>3. \A i \in DOMAIN drafts : RowsOf(drafts[i]) = IF drafts[i].key = activeDraft THEN rows ELSE drafts[i].rows
    BY DEF RowsOf, IsActive
  <2> QED
    BY <1>1, <2>1, <2>2, <2>3
<1>3. EditsAreKept
  <2>1. ASSUME NEW l \in typed, l.of # NoReceipt
        PROVE  \E d \in ToSet(drafts) : d.key = l.of /\ l \in ToSet(RowsOf(d).items)
    <3>1. PICK i \in DOMAIN Saved : Saved[i].key = l.of /\ \E j \in DOMAIN Saved[i].rows.items : Saved[i].rows.items[j] = l
      BY <1>1, <2>1 DEF Holds
    <3>2. drafts[i] \in ToSet(drafts) /\ drafts[i].key = l.of
      BY <1>2, <3>1 DEF ToSet
    <3>3. \E j \in DOMAIN RowsOf(drafts[i]).items : RowsOf(drafts[i]).items[j] = l
      BY <1>2, <3>1
    <3>4. l \in ToSet(RowsOf(drafts[i]).items)
      BY <3>3 DEF ToSet
    <3> QED
      BY <3>2, <3>4
  <2> QED
    BY <2>1 DEF EditsAreKept
<1>4. DraftsAreApart
  <2>1. ASSUME NEW d \in ToSet(drafts)
        PROVE  /\ \A l \in ToSet(RowsOf(d).items) : l.of \in {d.key, NoReceipt}
               /\ \A i \in DOMAIN RowsOf(d).items \cap DOMAIN RowsOf(d).originals :
                    RowsOf(d).items[i].of = RowsOf(d).originals[i].of /\ RowsOf(d).items[i].n = RowsOf(d).originals[i].n
    <3>1. PICK k \in DOMAIN drafts : drafts[k] = d
      BY DEF ToSet
    <3>2. Apart(RowsOf(d), d.key)
      <4>1. Apart(Saved[k].rows, Saved[k].key)
        BY <1>1, <1>2 DEF Holds
      <4> QED
        BY <1>2, <3>1, <4>1
    <3> QED
      BY <3>2 DEF Apart, ToSet
  <2> QED
    BY <2>1 DEF DraftsAreApart
<1>5. ImportsAreOfTheirReceipts
  BY DEF ReviewInv, ImportsFit, ImportsAreOfTheirReceipts, ToSet
<1> QED
  BY <1>3, <1>4, <1>5 DEF ReviewSound

LEMMA ReviewKeeps == ASSUME WorksOnMeanwhile = FALSE PROVE ReviewInv /\ [ReviewNext]_reviewVars => ReviewInv'
<1> SUFFICES ASSUME ReviewInv, [ReviewNext]_reviewVars PROVE ReviewInv'
  OBVIOUS
<1>1. ~WorksOnMeanwhile
  OBVIOUS
<1>2. ASSUME NEW c \in Receipts, PageRead(c) PROVE ReviewInv'
  BY <1>1, <1>2, PageReadKeeps
<1>3. ASSUME NEW c \in Receipts, SelectDraft(c) PROVE ReviewInv'
  BY <1>1, <1>3, SelectKeeps
<1>4. ASSUME NEW i \in 1 .. 4, EditLine(i) PROVE ReviewInv'
  BY <1>1, <1>4, EditLineKeeps
<1>5. ASSUME NEW i \in 1 .. 4, DeleteReceiptLine(i) PROVE ReviewInv'
  BY <1>1, <1>5, DeleteLineKeeps
<1>6. CASE RestoreReceiptLine
  BY <1>1, <1>6, RestoreLineKeeps
<1>7. CASE AddBlankLine
  BY <1>1, <1>7, AddLineKeeps
<1>8. ASSUME NEW stage \in {"validating", "confirming"}, ValidateStarts(stage) PROVE ReviewInv'
  BY <1>8, ValidateStartsKeeps
<1>9. ASSUME NEW ok \in BOOLEAN, ValidateEnds(ok) PROVE ReviewInv'
  BY <1>9, ValidateEndsKeeps
<1>10. ASSUME NEW linesOk \in BOOLEAN, NEW totalOk \in BOOLEAN, ConfirmValidated(linesOk, totalOk) PROVE ReviewInv'
  BY <1>10, ConfirmValidatedKeeps
<1>11. CASE Confirmed
  BY <1>1, <1>11, ConfirmedKeeps
<1>12. CASE ConfirmFails
  BY <1>12, ConfirmFailsKeeps
<1>13. CASE UNCHANGED reviewVars
  BY <1>13, ReviewStays
<1> QED
  BY <1>2, <1>3, <1>4, <1>5, <1>6, <1>7, <1>8, <1>9, <1>10, <1>11, <1>12, <1>13 DEF ReviewNext

\* Whatever is read again, edited, deleted, put back, added, selected and confirmed, and
\* whether or not an answer is lost: what the user typed into a draft stays with it, no line
\* gets into the draft of another receipt, and what is imported are the lines of its own
\* capture (saveActiveDraft, applyCaptureDrafts and confirmReceipt of receipt-review.js).
\* It is so for a user who waits for the answer of a validation and does not use the toast of
\* a deletion once other rows are shown, and for no other.
THEOREM ReviewIsSound == ASSUME WorksOnMeanwhile = FALSE PROVE ReviewSpec => []ReviewSound
<1>1. ReviewInit => ReviewInv
  BY ReviewStarts
<1>2. ReviewInv /\ [ReviewNext]_reviewVars => ReviewInv'
  BY ReviewKeeps
<1>3. ReviewInv => ReviewSound
  BY ReviewShows
<1> QED
  BY <1>1, <1>2, <1>3, PTL DEF ReviewSpec

--------------------------------------------------------------------------------
(* The captures of a receipt. The state is one record; what the invariants *)
(* need of it is kept in parts, so that an operation answers for those     *)
(* whose fields it changes.                                                *)

PageEntry   == [key : Captures, ai : BOOLEAN, mode : {"full", "ai-only"}]
PageTask    == [key : Captures, ai : BOOLEAN, mode : {"full", "ai-only"}, valid : BOOLEAN, at : {"ocr", "ai"}]
JobStatuses == {"queued", "running", "completed", "failed", "cancelled"}
CaptureSeqs == Seq(Captures)
ServerJob   == [caps : CaptureSeqs, st : JobStatuses]
JobPost     == [kind : {"start", "retry"}, caps : CaptureSeqs, token : BOOLEAN, latest : BOOLEAN, id : Nat]
ReadOfJob   == [id : Nat, caps : CaptureSeqs, st : JobStatuses \cup {"none"}, latest : BOOLEAN]
FileUpload  == [had : BOOLEAN, added : CaptureSeqs]
CaptureSets == SUBSET Captures
PageMaps    == [Captures -> CapturePage]
EntrySeqs   == Seq(PageEntry)
TaskSeqs    == Seq(PageTask)
SeqsOfSeqs  == Seq(CaptureSeqs)
DraftSeqs   == Seq(CaptureSeqs \ {<<>>})
DraftNames  == Captures \cup {"none"}
PostSets    == SUBSET JobPost
ReadSets    == SUBSET ReadOfJob
IdSets      == SUBSET Nat
UploadSets  == SUBSET FileUpload
Confirms    == [at : {"no", "validating", "importing"}, keys : CaptureSeqs]

CaptureState ==
  [aiConfigured : BOOLEAN, stored : CaptureSets, captures : CaptureSeqs, page : PageMaps,
   queue : EntrySeqs, tasks : TaskSeqs, ghosts : Nat,
   processing : BOOLEAN, finalizing : BOOLEAN, visible : BOOLEAN, verifyWithAi : BOOLEAN,
   assembly : SeqsOfSeqs, extraction : CaptureSeqs, drafts : DraftSeqs, draft : DraftNames,
   activeJobId : Nat, jobKeys : CaptureSeqs, failed : BOOLEAN, pendingScope : CaptureSeqs,
   posts : PostSets, reads : ReadSets, deletes : IdSets, uploads : UploadSets, recovering : BOOLEAN,
   confirm : Confirms]

\* The captures are files stored once each, and so are those of an upload and of the queue.
CapturesFit(s) ==
  /\ IsInjective(s.captures) /\ ToSet(s.captures) \subseteq s.stored
  /\ \A u \in s.uploads : IsInjective(u.added) /\ ToSet(u.added) \subseteq s.stored
  /\ \A i \in DOMAIN s.queue : s.queue[i].key \in s.stored

\* What is asked of the server is asked of the n jobs it has created, and one retry at a time.
IdsKnown(s, n) ==
  /\ s.activeJobId <= n
  /\ IsFiniteSet(s.posts) /\ \A p \in s.posts : p.id <= n
  /\ \A r \in s.reads : r.id \in 1 .. n
  /\ \A p, q \in s.posts : p.kind = "retry" /\ q.kind = "retry" => p = q

\* Before the queue is pumped: no page has two tasks, or two places in the queue if it is still
\* of the receipt; a page of the queue is not new, and no task works for a page that was
\* cancelled or taken over.
WorkFits(s) ==
  /\ Len(s.tasks) <= PAGE_CONCURRENCY
  /\ \A i, j \in DOMAIN s.tasks : s.tasks[i].key = s.tasks[j].key => i = j
  /\ \A i, j \in DOMAIN s.queue : IsCapture(s, s.queue[i].key) /\ s.queue[i].key = s.queue[j].key => i = j
  /\ \A i \in DOMAIN s.queue : IsCapture(s, s.queue[i].key) => Under(s, s.queue[i].key) # "ready"
  /\ \A i \in DOMAIN s.tasks : s.tasks[i].valid => Under(s, s.tasks[i].key) \notin {"cancelled", "manual"}
  /\ s.finalizing => s.assembly # <<>>

\* After it: no page has two places, and one waits beside a free slot only for its own task.
QueueFits(s) ==
  /\ \A i, j \in DOMAIN s.queue : s.queue[i].key = s.queue[j].key => i = j
  /\ s.queue # <<>> => s.tasks # <<>>
  /\ Len(s.tasks) < PAGE_CONCURRENCY /\ (\E i \in DOMAIN s.queue : Under(s, s.queue[i].key) = "pending")
       => \/ \E i \in DOMAIN s.queue, j \in DOMAIN s.tasks : s.queue[i].key = s.tasks[j].key
          \/ s.aiConfigured /\ \E j \in DOMAIN s.tasks : ~s.tasks[j].valid

Heads(s)     == {Head(s.drafts[i]) : i \in DOMAIN s.drafts}
LiveHeads(s) == Heads(s) \cap ToSet(s.captures)

\* Without AI nothing is asked of the server, a draft is of one capture, one of them is
\* selected, and an assembly is of the only capture whose draft is shown.
DraftsFit(s) ==
  /\ s.posts = {} /\ s.reads = {} /\ s.activeJobId = 0 /\ ~s.verifyWithAi
  /\ \A u \in s.uploads : ~u.had
  /\ \A i \in DOMAIN s.drafts : Len(s.drafts[i]) = 1
  /\ Heads(s) \subseteq s.stored
  /\ s.drafts # <<>> => s.draft \in Heads(s)
  /\ s.assembly # <<>> => s.finalizing /\ \A h, k \in LiveHeads(s) : h = k
  /\ s.confirm.at = "importing" /\ (Len(s.captures) <= 1 \/ s.assembly # <<>>) => LiveHeads(s) \subseteq {s.confirm.keys[1]}

\* Nothing is left processing with nothing under way, unless only stale drafts are shown.
WorkGoesOn(s) ==
  s.processing => \/ s.tasks # <<>> \/ s.ghosts > 0 \/ s.assembly # <<>>
                  \/ s.drafts # <<>> /\ LiveHeads(s) = {}

\* Before the queue is pumped, and after.
PumpReady(s)   == s \in CaptureState /\ CapturesFit(s) /\ WorkFits(s) /\ (~s.aiConfigured => DraftsFit(s))
RunFits(s)     == PumpReady(s) /\ QueueFits(s) /\ (~s.aiConfigured => WorkGoesOn(s))

CaptureInv ==
  /\ RunFits(state)
  /\ jobs \in Seq(ServerJob) /\ Len(jobs) <= MaxJobs /\ IdsKnown(state, Len(jobs))
  /\ ~state.aiConfigured => jobs = <<>>

\* No operation on the pages changes one that the user has cancelled or taken over.
PagesHold(s, t) == \A c \in Captures : Under(s, c) \in {"cancelled", "manual"} => t.page[c] = s.page[c]

\* Groups of fields.
SameJob(s, t)      == /\ t.posts = s.posts /\ t.reads = s.reads /\ t.activeJobId = s.activeJobId
SameMode(s, t)     == t.aiConfigured = s.aiConfigured /\ t.verifyWithAi = s.verifyWithAi
SameCaptures(s, t) == t.stored = s.stored /\ t.captures = s.captures /\ t.uploads = s.uploads
SameWork(s, t)     == t.queue = s.queue /\ t.tasks = s.tasks /\ t.ghosts = s.ghosts
SameDrafts(s, t)   == /\ t.drafts = s.drafts /\ t.draft = s.draft
SameAssembly(s, t) == t.assembly = s.assembly /\ t.finalizing = s.finalizing /\ t.confirm = s.confirm

--------------------------------------------------------------------------------
(* What is selected from a sequence.                                       *)

KeptIf(before, x, S) == IF x \in S THEN Append(before, x) ELSE before

\* The selection from the first n elements.
KeptUpTo(n, s, S, g) == g = [i \in 0 .. n |-> IF i = 0 THEN <<>> ELSE KeptIf(g[i - 1], s[i], S)]

LEMMA KeptExist == ASSUME NEW s, NEW S PROVE \A n \in Nat : \E g : KeptUpTo(n, s, S, g)
<1> DEFINE N == {n \in Nat : \E g : KeptUpTo(n, s, S, g)}
<1>1. 0 \in N
  <2>1. KeptUpTo(0, s, S, [i \in 0 .. 0 |-> <<>>])
    BY DEF KeptUpTo
  <2> QED
    BY <2>1
<1>2. ASSUME NEW n \in Nat, n \in N PROVE n + 1 \in N
  <2>1. PICK g : KeptUpTo(n, s, S, g)
    BY <1>2
  <2> DEFINE h == [i \in 0 .. n + 1 |-> IF i = n + 1 THEN KeptIf(g[n], s[n + 1], S) ELSE g[i]]
  <2>2. KeptUpTo(n + 1, s, S, h)
    BY <2>1 DEF KeptUpTo
  <2> QED
    BY <2>2
<1> HIDE DEF N
<1>3. \A n \in Nat : n \in N
  BY <1>1, <1>2, SetInduction
<1> QED
  BY <1>3 DEF N

\* r keeps what is in S of the first k elements of s, each where m says.
KeepsOf(r, s, k, S, m) ==
  /\ m \in [1 .. Len(r) -> 1 .. k]
  /\ \A i, j \in 1 .. Len(r) : m[i] = m[j] => i = j
  /\ \A i \in 1 .. Len(r) : r[i] = s[m[i]] /\ r[i] \in S
  /\ \A i \in 1 .. k : s[i] \in S => \E j \in 1 .. Len(r) : r[j] = s[i]

LEMMA ThoseKept ==
  ASSUME NEW T, NEW s \in Seq(T), NEW S
  PROVE  Those(s, S) \in Seq(T) /\ \E m : KeepsOf(Those(s, S), s, Len(s), S, m)
<1> DEFINE f == CHOOSE g : g = [i \in 0 .. Len(s) |->
                  IF i = 0 THEN <<>> ELSE IF s[i] \in S THEN Append(g[i - 1], s[i]) ELSE g[i - 1]]
<1>1. Len(s) \in Nat /\ \A i \in 1 .. Len(s) : s[i] \in T
  OBVIOUS
<1>2. KeptUpTo(Len(s), s, S, f)
  <2>1. \E g : KeptUpTo(Len(s), s, S, g)
    BY <1>1, KeptExist
  <2> QED
    BY <2>1 DEF KeptUpTo, KeptIf
<1>3. Those(s, S) = f[Len(s)]
  BY DEF Those
<1> HIDE DEF f
<1>4. f[0] = <<>>
  BY <1>1, <1>2 DEF KeptUpTo
<1>5. ASSUME NEW k \in Nat, k + 1 <= Len(s)
      PROVE  f[k + 1] = IF s[k + 1] \in S THEN Append(f[k], s[k + 1]) ELSE f[k]
  <2>1. k + 1 \in 0 .. Len(s) /\ k + 1 # 0 /\ (k + 1) - 1 = k
    BY <1>1, <1>5
  <2> QED
    BY <1>2, <2>1 DEF KeptUpTo, KeptIf
<1> DEFINE N == {k \in Nat : k <= Len(s) => f[k] \in Seq(T) /\ \E m : KeepsOf(f[k], s, k, S, m)}
<1>6. 0 \in N
  <2>1. <<>> \in Seq(T) /\ KeepsOf(<<>>, s, 0, S, <<>>)
    BY DEF KeepsOf
  <2> QED
    BY <1>4, <2>1
<1>7. ASSUME NEW k \in Nat, k \in N PROVE k + 1 \in N
  <2> SUFFICES ASSUME k + 1 <= Len(s)
               PROVE  f[k + 1] \in Seq(T) /\ \E m : KeepsOf(f[k + 1], s, k + 1, S, m)
    OBVIOUS
  <2>0. k <= Len(s)
    BY <1>1
  <2>1. PICK m : f[k] \in Seq(T) /\ KeepsOf(f[k], s, k, S, m)
    BY <1>7, <2>0
  <2>2. k + 1 \in 1 .. Len(s) /\ s[k + 1] \in T
    BY <1>1
  <2>3. CASE s[k + 1] \notin S
    <3>1. f[k + 1] = f[k]
      BY <1>5, <2>3
    <3>2. KeepsOf(f[k], s, k + 1, S, m)
      <4>1. m \in [1 .. Len(f[k]) -> 1 .. k + 1]
        <5>1. 1 .. k \subseteq 1 .. k + 1
          OBVIOUS
        <5>2. m \in [1 .. Len(f[k]) -> 1 .. k]
          BY <2>1 DEF KeepsOf
        <5> QED
          BY <5>1, <5>2, Zenon
      <4>2. \A i \in 1 .. k + 1 : s[i] \in S => \E j \in 1 .. Len(f[k]) : f[k][j] = s[i]
        <5>1. \A i \in 1 .. k + 1 : i = k + 1 \/ i \in 1 .. k
          OBVIOUS
        <5> QED
          BY <2>1, <2>3, <5>1 DEF KeepsOf
      <4> QED
        BY <2>1, <4>1, <4>2, Zenon DEF KeepsOf
    <3> QED
      BY <2>1, <3>1, <3>2
  <2>4. CASE s[k + 1] \in S
    <3> DEFINE r == f[k]
               x == s[k + 1]
               q == Append(r, x)
               h == [i \in 1 .. Len(r) + 1 |-> IF i = Len(r) + 1 THEN k + 1 ELSE m[i]]
    <3>1. f[k + 1] = q
      BY <1>5, <2>4
    <3>2. r \in Seq(T) /\ x \in T
      BY <2>1, <2>2
    <3>3. q \in Seq(T) /\ Len(q) = Len(r) + 1 /\ q[Len(r) + 1] = x /\ \A i \in 1 .. Len(r) : q[i] = r[i]
      BY <3>2, AppendProperties
    <3>4. Len(r) \in Nat
      BY <3>2
    <3> HIDE DEF r, x, q
    <3>5. KeepsOf(r, s, k, S, m) /\ x = s[k + 1] /\ x \in S
      BY <2>1, <2>4 DEF r, x
    <3>6. KeepsOf(q, s, k + 1, S, h)
      <4>1. h \in [1 .. Len(q) -> 1 .. k + 1]
        BY <3>3, <3>4, <3>5 DEF KeepsOf
      <4>2. \A i \in 1 .. Len(q) : i \in 1 .. Len(r) \/ i = Len(r) + 1
        BY <3>3, <3>4
      <4>3. \A i \in 1 .. Len(r) : i \in 1 .. Len(q) /\ i # Len(r) + 1 /\ h[i] = m[i] /\ m[i] \in 1 .. k /\ m[i] # k + 1
        BY <3>3, <3>4, <3>5 DEF KeepsOf
      <4>4. Len(r) + 1 \in 1 .. Len(q) /\ h[Len(r) + 1] = k + 1
        BY <3>3, <3>4
      <4> HIDE DEF h
      <4>8. \A i, j \in 1 .. Len(r) : m[i] = m[j] => i = j
        BY <3>5 DEF KeepsOf
      <4>5. ASSUME NEW i \in 1 .. Len(q), NEW j \in 1 .. Len(q), h[i] = h[j] PROVE i = j
        BY <4>2, <4>3, <4>4, <4>5, <4>8
      <4>6. \A i \in 1 .. Len(q) : q[i] = s[h[i]] /\ q[i] \in S
        BY <3>3, <3>5, <4>2, <4>3, <4>4 DEF KeepsOf
      <4>7. ASSUME NEW i \in 1 .. k + 1, s[i] \in S PROVE \E j \in 1 .. Len(q) : q[j] = s[i]
        <5>1. CASE i = k + 1
          BY <3>3, <3>5, <4>4, <5>1
        <5>2. CASE i \in 1 .. k
          BY <3>3, <3>5, <4>3, <4>7, <5>2 DEF KeepsOf
        <5> QED
          BY <5>1, <5>2
      <4> QED
        BY <4>1, <4>5, <4>6, <4>7 DEF KeepsOf
    <3> QED
      BY <3>1, <3>3, <3>6
  <2> QED
    BY <2>3, <2>4
<1> HIDE DEF N
<1>8. \A k \in Nat : k \in N
  BY <1>6, <1>7, SetInduction
<1> QED
  BY <1>1, <1>3, <1>8 DEF N

\* The selection has the elements selected, and no element twice that the sequence has once.
LEMMA ThoseOf ==
  ASSUME NEW T, NEW s \in Seq(T), NEW S
  PROVE  /\ Those(s, S) \in Seq(T) /\ ToSet(Those(s, S)) = ToSet(s) \cap S
         /\ IsInjective(s) => IsInjective(Those(s, S))
<1>1. PICK m : Those(s, S) \in Seq(T) /\ KeepsOf(Those(s, S), s, Len(s), S, m)
  BY ThoseKept
<1> DEFINE r == Those(s, S)
<1>2. r \in Seq(T) /\ KeepsOf(r, s, Len(s), S, m)
  BY <1>1
<1> HIDE DEF r
<1>3. DOMAIN r = 1 .. Len(r) /\ DOMAIN s = 1 .. Len(s)
  BY <1>2
<1>4. ToSet(r) = ToSet(s) \cap S
  BY <1>2, <1>3, SMTT(30) DEF ToSet, KeepsOf
<1>5. IsInjective(s) => IsInjective(r)
  BY <1>2, <1>3 DEF IsInjective, KeepsOf
<1> QED
  BY <1>2, <1>4, <1>5 DEF r

LEMMA ConcatParts ==
  ASSUME NEW T, NEW a \in Seq(T), NEW b \in Seq(T)
  PROVE  /\ a \o b \in Seq(T) /\ Len(a \o b) = Len(a) + Len(b)
         /\ \A i \in 1 .. Len(a) : (a \o b)[i] = a[i]
         /\ \A i \in 1 .. Len(b) : (a \o b)[Len(a) + i] = b[i]
         /\ \A i \in 1 .. Len(a \o b) : i \in 1 .. Len(a) \/ \E j \in 1 .. Len(b) : i = Len(a) + j
<1>1. Len(a) \in Nat /\ Len(b) \in Nat
  OBVIOUS
<1>2. \A i \in 1 .. Len(a) + Len(b) : i \in 1 .. Len(a) \/ (i - Len(a) \in 1 .. Len(b) /\ i = Len(a) + (i - Len(a)))
  BY <1>1
<1>3. a \o b \in Seq(T) /\ Len(a \o b) = Len(a) + Len(b)
  OBVIOUS
<1>4. \A i \in 1 .. Len(a \o b) : i \in 1 .. Len(a) \/ \E j \in 1 .. Len(b) : i = Len(a) + j
  BY <1>2, <1>3
<1>5. /\ \A i \in 1 .. Len(a) : (a \o b)[i] = a[i]
      /\ \A i \in 1 .. Len(b) : (a \o b)[Len(a) + i] = b[i]
  OBVIOUS
<1> QED
  BY <1>3, <1>4, <1>5

LEMMA FiniteImage ==
  ASSUME NEW S, IsFiniteSet(S), NEW f, NEW T, T = {f[x] : x \in S}
  PROVE  IsFiniteSet(T)
<1> DEFINE g == [x \in S |-> f[x]]
<1>1. g \in Surjection(S, T)
  BY DEF Surjection
<1> QED
  BY <1>1, FS_Surjection

--------------------------------------------------------------------------------
(* The end of a run.                                                       *)

\* An invariant speaks of the fields it is about.
LEMMA SameCapturesFit ==
  ASSUME NEW s, NEW t, CapturesFit(s), SameCaptures(s, t), t.queue = s.queue
  PROVE  CapturesFit(t)
BY Zenon DEF CapturesFit, SameCaptures

LEMMA SameWorkFits ==
  ASSUME NEW s, NEW t, WorkFits(s), SameCaptures(s, t), SameWork(s, t), t.page = s.page, t.finalizing => t.assembly # <<>>
  PROVE  WorkFits(t)
BY DEF WorkFits, SameCaptures, SameWork, IsCapture, Under

LEMMA SameQueueFits ==
  ASSUME NEW s, NEW t, QueueFits(s), SameWork(s, t), SameMode(s, t), t.page = s.page
  PROVE  QueueFits(t)
BY DEF QueueFits, SameWork, SameMode, Under

LEMMA SameDraftsFit ==
  ASSUME NEW s, NEW t, DraftsFit(s), SameCaptures(s, t), SameJob(s, t), SameMode(s, t), SameDrafts(s, t), SameAssembly(s, t)
  PROVE  DraftsFit(t)
BY DEF DraftsFit, SameCaptures, SameJob, SameMode, SameDrafts, SameAssembly, Heads, LiveHeads

\* The pages of a receipt that have been read, as the drafts of a review.
LEMMA DraftsOf ==
  ASSUME NEW read \in CaptureSeqs
  PROVE  /\ Drafts(read) \in DraftSeqs /\ Len(Drafts(read)) = Len(read)
         /\ \A i \in DOMAIN Drafts(read) : i \in 1 .. Len(read) /\ Len(Drafts(read)[i]) = 1 /\ Head(Drafts(read)[i]) = read[i]
         /\ \A i \in 1 .. Len(read) : i \in DOMAIN Drafts(read)
<1>1. Len(read) \in Nat /\ \A i \in 1 .. Len(read) : read[i] \in Captures
  BY DEF CaptureSeqs
<1>2. \A c \in Captures : <<c>> \in CaptureSeqs \ {<<>>} /\ Len(<<c>>) = 1 /\ Head(<<c>>) = c
  BY DEF CaptureSeqs
<1>3. \A i \in 1 .. Len(read) : <<read[i]>> \in CaptureSeqs \ {<<>>} /\ Len(<<read[i]>>) = 1 /\ Head(<<read[i]>>) = read[i]
  BY <1>1, <1>2
<1> DEFINE ds == [i \in 1 .. Len(read) |-> <<read[i]>>]
<1>4. ds \in DraftSeqs /\ Len(ds) = Len(read) /\ DOMAIN ds = 1 .. Len(read)
  <2>1. ds \in [1 .. Len(read) -> CaptureSeqs \ {<<>>}]
    BY <1>3
  <2> QED
    BY <1>1, <2>1 DEF DraftSeqs
<1>5. \A i \in 1 .. Len(read) : ds[i] = <<read[i]>>
  OBVIOUS
<1>6. Drafts(read) = ds
  BY Zenon DEF Drafts
<1> HIDE DEF ds
<1> QED
  BY <1>3, <1>4, <1>5, <1>6

ReadPages(s)     == Those(s.captures, {c \in Captures : s.page[c].text = "result"})
ShowsDrafts(s)   == s.verifyWithAi \/ Len(s.captures) > 1
FirstShown(s)    == IF s.draft \in ToSet(ReadPages(s)) \/ ReadPages(s) = <<>> THEN s.draft ELSE Head(ReadPages(s))

LEMMA ReadPagesOf ==
  ASSUME NEW s \in CaptureState
  PROVE  ReadPages(s) \in CaptureSeqs /\ ToSet(ReadPages(s)) \subseteq ToSet(s.captures) /\ FirstShown(s) \in DraftNames
<1>1. s.captures \in Seq(Captures) /\ s.draft \in DraftNames
  BY DEF CaptureState, CaptureSeqs
<1>2. ReadPages(s) \in Seq(Captures) /\ ToSet(ReadPages(s)) \subseteq ToSet(s.captures)
  BY <1>1, ThoseOf DEF ReadPages
<1>3. ReadPages(s) # <<>> => Head(ReadPages(s)) \in Captures
  BY <1>2
<1> QED
  BY <1>1, <1>2, <1>3 DEF FirstShown, CaptureSeqs, DraftNames

LEMMA AssembledDrafts ==
  ASSUME NEW s \in CaptureState, ShowsDrafts(s), NEW t, t = AssembleCompletedPages(s)
  PROVE  /\ t \in CaptureState /\ SameJob(s, t) /\ SameMode(s, t) /\ SameCaptures(s, t) /\ SameWork(s, t) /\ SameAssembly(s, t)
         /\ t.page = s.page /\ t.processing = FALSE
         /\ t.drafts = Drafts(ReadPages(s)) /\ t.draft = FirstShown(s)
<1> DEFINE ds == Drafts(ReadPages(s))
           d  == FirstShown(s)
<1>1. ds \in DraftSeqs /\ d \in DraftNames
  BY ReadPagesOf, DraftsOf
<1>2. t = [s EXCEPT !.drafts = ds, !.processing = FALSE, !.visible = FALSE, !.draft = d]
  BY DEF AssembleCompletedPages, ShowsDrafts, ReadPages, FirstShown
<1> HIDE DEF ds, d
<1>3. t \in CaptureState
  BY <1>1, <1>2, ZenonT(60) DEF CaptureState
<1>4. /\ SameJob(s, t) /\ SameMode(s, t) /\ SameCaptures(s, t) /\ SameWork(s, t) /\ SameAssembly(s, t)
      /\ t.page = s.page /\ t.processing = FALSE /\ t.drafts = ds /\ t.draft = d
  BY <1>2 DEF CaptureState, SameJob, SameMode, SameCaptures, SameWork, SameAssembly
<1> QED
  BY <1>3, <1>4 DEF ds, d

LEMMA AssembledOnServer ==
  ASSUME NEW s \in CaptureState, ~ShowsDrafts(s), NEW t, t = AssembleCompletedPages(s)
  PROVE  /\ t \in CaptureState /\ SameJob(s, t) /\ SameMode(s, t) /\ SameCaptures(s, t) /\ SameWork(s, t) /\ SameDrafts(s, t)
         /\ t.page = s.page /\ t.processing = s.processing /\ t.confirm = s.confirm
         /\ t.finalizing = TRUE /\ t.assembly # <<>>
<1> DEFINE a == <<s.captures>>
<1>1. a \in SeqsOfSeqs /\ a # <<>>
  BY DEF SeqsOfSeqs, CaptureState
<1>2. t = [s EXCEPT !.finalizing = TRUE, !.assembly = a]
  BY DEF AssembleCompletedPages, ShowsDrafts
<1> HIDE DEF a
<1>3. t \in CaptureState
  BY <1>1, <1>2, ZenonT(60) DEF CaptureState
<1>4. /\ SameJob(s, t) /\ SameMode(s, t) /\ SameCaptures(s, t) /\ SameWork(s, t) /\ SameDrafts(s, t)
      /\ t.page = s.page /\ t.processing = s.processing /\ t.confirm = s.confirm /\ t.finalizing = TRUE /\ t.assembly = a
  BY <1>2 DEF CaptureState, SameJob, SameMode, SameCaptures, SameWork, SameDrafts
<1> QED
  BY <1>1, <1>3, <1>4

\* The drafts shown without AI, of several captures or of one under assembly.
LEMMA ShownDraftsFit ==
  ASSUME NEW s \in CaptureState, CapturesFit(s), DraftsFit(s), ~s.finalizing,
         NEW t, t = AssembleCompletedPages(s)
  PROVE  DraftsFit(t)
<1>0. s.verifyWithAi = FALSE /\ s.assembly = <<>> /\ ToSet(s.captures) \subseteq s.stored
  BY DEF DraftsFit, CapturesFit, CaptureState
<1>1. CASE ShowsDrafts(s)
  <2>1. Len(s.captures) > 1 /\ Len(s.captures) \in Nat
    BY <1>0, <1>1 DEF ShowsDrafts, CaptureState, CaptureSeqs
  <2>2. /\ t \in CaptureState /\ SameJob(s, t) /\ SameMode(s, t) /\ SameCaptures(s, t) /\ SameAssembly(s, t)
        /\ t.drafts = Drafts(ReadPages(s)) /\ t.draft = FirstShown(s)
    BY <1>1, AssembledDrafts
  <2> DEFINE read == ReadPages(s)
  <2>3. read \in CaptureSeqs /\ ToSet(read) \subseteq ToSet(s.captures)
    BY ReadPagesOf
  <2>4. /\ Len(t.drafts) = Len(read) /\ t.drafts \in DraftSeqs
        /\ \A i \in DOMAIN t.drafts : i \in 1 .. Len(read) /\ Len(t.drafts[i]) = 1 /\ Head(t.drafts[i]) = read[i]
        /\ \A i \in 1 .. Len(read) : i \in DOMAIN t.drafts
    BY <2>2, <2>3, DraftsOf
  <2>5. t.draft = IF s.draft \in ToSet(read) \/ read = <<>> THEN s.draft ELSE Head(read)
    BY <2>2 DEF FirstShown
  <2> HIDE DEF read
  <2>6. Heads(t) = ToSet(read)
    BY <2>3, <2>4 DEF Heads, ToSet, CaptureSeqs
  <2>7. t.drafts # <<>> => read # <<>>
    BY <2>3, <2>4 DEF CaptureSeqs, DraftSeqs
  <2>8. read # <<>> => Head(read) \in ToSet(read)
    BY <2>3 DEF CaptureSeqs, ToSet
  <2>9. t.drafts # <<>> => t.draft \in Heads(t)
    BY <2>5, <2>6, <2>7, <2>8
  <2>10. /\ t.posts = {} /\ t.reads = {} /\ t.activeJobId = 0 /\ ~t.verifyWithAi
         /\ \A u \in t.uploads : ~u.had
    BY <2>2 DEF DraftsFit, SameJob, SameMode, SameCaptures
  <2>11. t.assembly = <<>> /\ t.captures = s.captures /\ t.stored = s.stored
    BY <1>0, <2>2 DEF SameAssembly, SameCaptures
  <2> QED
    BY <1>0, <2>1, <2>3, <2>4, <2>6, <2>9, <2>10, <2>11 DEF DraftsFit
<1>2. CASE ~ShowsDrafts(s)
  <2>1. /\ SameJob(s, t) /\ SameMode(s, t) /\ SameCaptures(s, t) /\ SameDrafts(s, t)
        /\ t.confirm = s.confirm /\ t.finalizing = TRUE /\ t.assembly # <<>>
    BY <1>2, AssembledOnServer
  <2>2. s.captures \in Seq(Captures) /\ Len(s.captures) <= 1
    BY <1>0, <1>2 DEF ShowsDrafts, CaptureState, CaptureSeqs
  <2>3. \A h, k \in ToSet(s.captures) : h = k
    BY <2>2 DEF ToSet
  <2>4. Heads(t) = Heads(s) /\ LiveHeads(t) = LiveHeads(s)
    BY <2>1 DEF Heads, LiveHeads, SameDrafts, SameCaptures
  <2>5. \A h, k \in LiveHeads(t) : h = k
    BY <2>3, <2>4 DEF LiveHeads
  <2>6. t.confirm.at = "importing" => LiveHeads(t) \subseteq {t.confirm.keys[1]}
    BY <2>1, <2>2, <2>4 DEF DraftsFit
  <2>7. /\ t.posts = {} /\ t.reads = {} /\ t.activeJobId = 0 /\ ~t.verifyWithAi
        /\ \A u \in t.uploads : ~u.had
    BY <2>1 DEF DraftsFit, SameJob, SameMode, SameCaptures
  <2>8. /\ \A i \in DOMAIN t.drafts : Len(t.drafts[i]) = 1
        /\ Heads(t) \subseteq t.stored
        /\ t.drafts # <<>> => t.draft \in Heads(t)
    BY <2>1, <2>4 DEF DraftsFit, SameDrafts, SameCaptures
  <2> QED
    BY <2>1, <2>5, <2>6, <2>7, <2>8 DEF DraftsFit
<1> QED
  BY <1>1, <1>2

LEMMA AssembledRun ==
  ASSUME NEW s, PumpReady(s), ~s.finalizing, NEW t, t = AssembleCompletedPages(s)
  PROVE  /\ PumpReady(t) /\ SameJob(s, t) /\ SameMode(s, t) /\ SameCaptures(s, t) /\ SameWork(s, t) /\ t.page = s.page
         /\ WorkGoesOn(t)
<1>0. s \in CaptureState /\ CapturesFit(s) /\ WorkFits(s) /\ (~s.aiConfigured => DraftsFit(s))
  BY DEF PumpReady
<1>1. /\ t \in CaptureState /\ SameJob(s, t) /\ SameMode(s, t) /\ SameCaptures(s, t) /\ SameWork(s, t) /\ t.page = s.page
      /\ t.finalizing => t.assembly # <<>>
      /\ t.processing => t.assembly # <<>>
  <2>1. CASE ShowsDrafts(s)
    BY <1>0, <2>1, AssembledDrafts DEF SameAssembly
  <2>2. CASE ~ShowsDrafts(s)
    BY <1>0, <2>2, AssembledOnServer
  <2> QED
    BY <2>1, <2>2
<1>2. CapturesFit(t) /\ WorkFits(t)
  BY <1>0, <1>1, SameCapturesFit, SameWorkFits DEF SameWork
<1>3. ~t.aiConfigured => DraftsFit(t)
  BY <1>0, <1>1, ShownDraftsFit DEF SameMode
<1> QED
  BY <1>1, <1>2, <1>3 DEF PumpReady, WorkGoesOn

LEMMA FinishedRun ==
  ASSUME NEW s, PumpReady(s), s.queue # <<>> => s.tasks # <<>>, NEW t, t = FinishCurrentRunWhenIdle(s)
  PROVE  /\ PumpReady(t) /\ SameJob(s, t) /\ SameMode(s, t) /\ SameCaptures(s, t) /\ SameWork(s, t) /\ t.page = s.page
         /\ WorkGoesOn(t)
<1>0. s \in CaptureState /\ CapturesFit(s) /\ WorkFits(s) /\ (~s.aiConfigured => DraftsFit(s))
  BY DEF PumpReady
<1>1. CASE ~s.processing \/ s.finalizing \/ s.tasks # <<>> \/ s.queue # <<>>
  <2>1. t = s
    BY <1>1 DEF FinishCurrentRunWhenIdle
  <2>2. WorkGoesOn(s)
    BY <1>0, <1>1 DEF WorkGoesOn, WorkFits
  <2> QED
    BY <2>1, <2>2 DEF SameJob, SameMode, SameCaptures, SameWork
<1>2. CASE ~(~s.processing \/ s.finalizing \/ s.tasks # <<>> \/ s.queue # <<>>)
  <2>1. CASE t = AssembleCompletedPages(s)
    BY <1>2, <2>1, AssembledRun
  <2>2. CASE t = [s EXCEPT !.processing = FALSE]
    <3>1. t \in CaptureState
      BY <1>0, <2>2, ZenonT(60) DEF CaptureState
    <3>2. /\ SameJob(s, t) /\ SameMode(s, t) /\ SameCaptures(s, t) /\ SameWork(s, t) /\ SameDrafts(s, t) /\ SameAssembly(s, t)
          /\ t.page = s.page /\ t.processing = FALSE
      BY <1>0, <2>2 DEF CaptureState, SameJob, SameMode, SameCaptures, SameWork, SameDrafts, SameAssembly
    <3>3. CapturesFit(t)
      BY <1>0, <3>2, SameCapturesFit DEF SameWork
    <3>4. WorkFits(t)
      <4>1. t.finalizing => t.assembly # <<>>
        BY <1>0, <3>2 DEF WorkFits, SameAssembly
      <4> QED
        BY <1>0, <3>2, <4>1, SameWorkFits
    <3>5. ~t.aiConfigured => DraftsFit(t)
      BY <1>0, <3>2, SameDraftsFit DEF SameMode
    <3> QED
      BY <3>1, <3>2, <3>3, <3>4, <3>5 DEF PumpReady, WorkGoesOn
  <2> QED
    BY <1>2, <2>1, <2>2 DEF FinishCurrentRunWhenIdle
<1> QED
  BY <1>1, <1>2

--------------------------------------------------------------------------------
(* The pump of the queue.                                                  *)

LiveEntries(s)  == Those(s.queue, {e \in ToSet(s.queue) : IsCapture(s, e.key) /\ Under(s, e.key) = "pending"})
FreeFor(s)      == LeastOf(PAGE_CONCURRENCY - Len(s.tasks), Len(LiveEntries(s)))
FirstBlocked(s) == SelectInSubSeq(LiveEntries(s), 1, FreeFor(s), LAMBDA e : Blocked(s, e))
StartedNow(s)   == SubSeq(LiveEntries(s), 1, IF FirstBlocked(s) = 0 THEN FreeFor(s) ELSE FirstBlocked(s) - 1)
StillQueued(s)  == IF FirstBlocked(s) = 0 THEN SubSeq(LiveEntries(s), FreeFor(s) + 1, Len(LiveEntries(s)))
                   ELSE Append(SubSeq(LiveEntries(s), FirstBlocked(s) + 1, Len(LiveEntries(s))), LiveEntries(s)[FirstBlocked(s)])
TasksNow(s)     == s.tasks \o [i \in DOMAIN StartedNow(s) |-> Task(StartedNow(s)[i])]
KeysNow(s)      == {e.key : e \in ToSet(StartedNow(s))}
EntryOf(s, c)   == CHOOSE e \in ToSet(StartedNow(s)) : e.key = c
PagesNow(s)     == [c \in Captures |-> IF c \in KeysNow(s) /\ IsCapture(s, c) THEN TaskPage(EntryOf(s, c), s.page[c]) ELSE s.page[c]]
Pumped(s)       == [s EXCEPT !.queue = StillQueued(s), !.tasks = TasksNow(s), !.page = PagesNow(s)]

\* The entries of the queue that are still of the receipt, in their order.
LEMMA LiveEntriesOf ==
  ASSUME NEW s \in CaptureState
  PROVE  /\ LiveEntries(s) \in EntrySeqs
         /\ \E m \in [1 .. Len(LiveEntries(s)) -> 1 .. Len(s.queue)] :
              /\ \A i, j \in 1 .. Len(LiveEntries(s)) : m[i] = m[j] => i = j
              /\ \A i \in 1 .. Len(LiveEntries(s)) :
                   /\ LiveEntries(s)[i] = s.queue[m[i]] /\ LiveEntries(s)[i] \in PageEntry
                   /\ IsCapture(s, LiveEntries(s)[i].key) /\ Under(s, LiveEntries(s)[i].key) = "pending"
<1> DEFINE S == {e \in ToSet(s.queue) : IsCapture(s, e.key) /\ Under(s, e.key) = "pending"}
           r == LiveEntries(s)
<1>1. s.queue \in Seq(PageEntry)
  BY DEF CaptureState, EntrySeqs
<1>2. r = Those(s.queue, S)
  BY DEF LiveEntries
<1>3. PICK m : r \in Seq(PageEntry) /\ KeepsOf(r, s.queue, Len(s.queue), S, m)
  BY <1>1, <1>2, ThoseKept, ZenonT(60)
<1>4. \A e \in S : IsCapture(s, e.key) /\ Under(s, e.key) = "pending"
  OBVIOUS
<1> HIDE DEF r, S
<1>5. \A i \in 1 .. Len(r) : r[i] \in PageEntry
  BY <1>3
<1> QED
  BY <1>3, <1>4, <1>5, SMTT(30) DEF KeepsOf, r, EntrySeqs

\* The first blocked entry among those there is room for, if any.
LEMMA FirstBlockedOf ==
  ASSUME NEW s \in CaptureState, Len(s.tasks) <= PAGE_CONCURRENCY
  PROVE  /\ FreeFor(s) \in Nat /\ FreeFor(s) <= Len(LiveEntries(s)) /\ Len(s.tasks) + FreeFor(s) <= PAGE_CONCURRENCY
         /\ FreeFor(s) = Len(LiveEntries(s)) \/ Len(s.tasks) + FreeFor(s) = PAGE_CONCURRENCY
         /\ \/ FirstBlocked(s) = 0 /\ \A i \in 1 .. FreeFor(s) : ~Blocked(s, LiveEntries(s)[i])
            \/ /\ FirstBlocked(s) \in 1 .. FreeFor(s) /\ Blocked(s, LiveEntries(s)[FirstBlocked(s)])
               /\ \A i \in 1 .. FirstBlocked(s) - 1 : ~Blocked(s, LiveEntries(s)[i])
<1> USE CaptureAssumption
<1>1. Len(s.tasks) \in Nat /\ Len(LiveEntries(s)) \in Nat
  BY LiveEntriesOf DEF CaptureState, TaskSeqs, EntrySeqs
<1>2. /\ FreeFor(s) \in Nat /\ FreeFor(s) <= Len(LiveEntries(s)) /\ Len(s.tasks) + FreeFor(s) <= PAGE_CONCURRENCY
      /\ FreeFor(s) = Len(LiveEntries(s)) \/ Len(s.tasks) + FreeFor(s) = PAGE_CONCURRENCY
  <2> DEFINE a == PAGE_CONCURRENCY - Len(s.tasks)
             b == Len(LiveEntries(s))
  <2>1. a \in Nat /\ b \in Nat /\ Len(s.tasks) + a = PAGE_CONCURRENCY
    BY <1>1
  <2>2. FreeFor(s) = IF a <= b THEN a ELSE b
    BY DEF FreeFor, LeastOf
  <2> HIDE DEF a, b
  <2>3. CASE a <= b
    BY <2>1, <2>2, <2>3 DEF b
  <2>4. CASE ~(a <= b)
    <3>1. FreeFor(s) = b /\ b <= a
      BY <2>1, <2>2, <2>4
    <3> QED
      BY <1>1, <2>1, <3>1 DEF b
  <2> QED
    BY <2>3, <2>4
<1> DEFINE n == FreeFor(s)
           I == {i \in 1 .. n : Blocked(s, LiveEntries(s)[i])}
<1>3. FirstBlocked(s) = IF I # {} THEN CHOOSE x \in I : \A y \in I : x <= y ELSE 0
  BY DEF FirstBlocked, SelectInSubSeq, Min
<1>4. CASE I = {}
  BY <1>2, <1>3, <1>4
<1>5. CASE I # {}
  <2>1. I \in SUBSET Nat
    BY <1>2
  <2>2. \E x \in I : \A y \in I : x <= y
    BY <1>5, <2>1, NatLeast
  <2> DEFINE f == FirstBlocked(s)
  <2>3. f \in I /\ \A y \in I : f <= y
    BY <1>3, <1>5, <2>2
  <2> HIDE DEF f
  <2>4. f \in 1 .. n /\ Blocked(s, LiveEntries(s)[f])
    BY <2>3
  <2>5. ASSUME NEW i \in 1 .. f - 1, Blocked(s, LiveEntries(s)[i]) PROVE FALSE
    <3>1. i \in I
      BY <1>2, <2>4, <2>5
    <3>2. f <= i
      BY <2>3, <3>1
    <3> QED
      BY <1>2, <2>4, <3>2
  <2> QED
    BY <1>2, <2>4, <2>5 DEF f
<1> QED
  BY <1>4, <1>5

LEMMA FirstOnes ==
  ASSUME NEW T, NEW s \in Seq(T), NEW n \in Nat, n <= Len(s) + 1
  PROVE  /\ n <= Len(s) => SubSeq(s, 1, n) \in Seq(T) /\ Len(SubSeq(s, 1, n)) = n /\ \A i \in 1 .. n : SubSeq(s, 1, n)[i] = s[i]
         /\ n # 0 => /\ SubSeq(s, 1, n - 1) \in Seq(T) /\ Len(SubSeq(s, 1, n - 1)) = n - 1
                     /\ \A i \in 1 .. n - 1 : SubSeq(s, 1, n - 1)[i] = s[i]
<1>1. ASSUME NEW m \in Nat, m <= Len(s)
      PROVE  SubSeq(s, 1, m) \in Seq(T) /\ Len(SubSeq(s, 1, m)) = m /\ \A i \in 1 .. m : SubSeq(s, 1, m)[i] = s[i]
  BY <1>1
<1> QED
  BY <1>1

LEMMA LastOnes ==
  ASSUME NEW T, NEW s \in Seq(T), NEW n \in Nat, n <= Len(s)
  PROVE  /\ SubSeq(s, n + 1, Len(s)) \in Seq(T) /\ Len(SubSeq(s, n + 1, Len(s))) = Len(s) - n
         /\ \A i \in 1 .. Len(s) - n : SubSeq(s, n + 1, Len(s))[i] = s[n + i]
OBVIOUS

\* What starts are unblocked entries, for which there is room; the others stay queued, and if
\* there is room one of those is blocked.
LEMMA StartedAndQueued ==
  ASSUME NEW s \in CaptureState, Len(s.tasks) <= PAGE_CONCURRENCY
  PROVE  LET live == LiveEntries(s)
             now  == StartedNow(s)
             left == StillQueued(s)
         IN /\ now \in EntrySeqs /\ left \in EntrySeqs /\ Len(now) <= Len(live) /\ Len(s.tasks) + Len(now) <= PAGE_CONCURRENCY
            /\ \A i \in 1 .. Len(now) : now[i] = live[i] /\ ~Blocked(s, live[i])
            /\ \E m \in [1 .. Len(left) -> 1 .. Len(live)] :
                 /\ \A i, j \in 1 .. Len(left) : m[i] = m[j] => i = j
                 /\ \A i \in 1 .. Len(left) : left[i] = live[m[i]] /\ m[i] > Len(now)
            /\ \/ left = <<>> \/ Len(s.tasks) + Len(now) = PAGE_CONCURRENCY
               \/ \E i \in 1 .. Len(left) : Blocked(s, left[i])
<1> DEFINE live == LiveEntries(s)
           now  == StartedNow(s)
           left == StillQueued(s)
           n    == FreeFor(s)
           f    == FirstBlocked(s)
<1>1. live \in Seq(PageEntry) /\ Len(live) \in Nat /\ Len(s.tasks) \in Nat
  BY LiveEntriesOf DEF CaptureState, TaskSeqs, EntrySeqs
<1>2. /\ n \in Nat /\ n <= Len(live) /\ Len(s.tasks) + n <= PAGE_CONCURRENCY
      /\ n = Len(live) \/ Len(s.tasks) + n = PAGE_CONCURRENCY
  BY FirstBlockedOf
<1>3. \/ f = 0 /\ \A i \in 1 .. n : ~Blocked(s, live[i])
      \/ /\ f \in 1 .. n /\ Blocked(s, live[f])
         /\ \A i \in 1 .. f - 1 : ~Blocked(s, live[i])
  BY FirstBlockedOf
<1>4. /\ now = SubSeq(live, 1, IF f = 0 THEN n ELSE f - 1)
      /\ left = IF f = 0 THEN SubSeq(live, n + 1, Len(live)) ELSE Append(SubSeq(live, f + 1, Len(live)), live[f])
  BY DEF StartedNow, StillQueued
<1> HIDE DEF live, now, left, n, f
<1> SUFFICES /\ now \in EntrySeqs /\ left \in EntrySeqs /\ Len(now) <= Len(live) /\ Len(s.tasks) + Len(now) <= PAGE_CONCURRENCY
             /\ \A i \in 1 .. Len(now) : now[i] = live[i] /\ ~Blocked(s, live[i])
             /\ \E m \in [1 .. Len(left) -> 1 .. Len(live)] :
                  /\ \A i, j \in 1 .. Len(left) : m[i] = m[j] => i = j
                  /\ \A i \in 1 .. Len(left) : left[i] = live[m[i]] /\ m[i] > Len(now)
             /\ \/ left = <<>> \/ Len(s.tasks) + Len(now) = PAGE_CONCURRENCY
                \/ \E i \in 1 .. Len(left) : Blocked(s, left[i])
  BY DEF live, now, left
<1>5. CASE f = 0
  <2>1. now = SubSeq(live, 1, n) /\ left = SubSeq(live, n + 1, Len(live))
    BY <1>4, <1>5
  <2>2. now \in EntrySeqs /\ Len(now) = n /\ \A i \in 1 .. Len(now) : now[i] = live[i]
    BY <1>1, <1>2, <2>1, FirstOnes DEF EntrySeqs
  <2>3. left \in EntrySeqs /\ Len(left) = Len(live) - n /\ \A i \in 1 .. Len(left) : left[i] = live[n + i]
    BY <1>1, <1>2, <2>1, LastOnes DEF EntrySeqs
  <2>4. \A i \in 1 .. Len(now) : ~Blocked(s, live[i])
    BY <1>2, <1>3, <1>5, <2>2
  <2> DEFINE m == [i \in 1 .. Len(left) |-> n + i]
  <2>5. /\ m \in [1 .. Len(left) -> 1 .. Len(live)]
        /\ \A i, j \in 1 .. Len(left) : m[i] = m[j] => i = j
        /\ \A i \in 1 .. Len(left) : left[i] = live[m[i]] /\ m[i] > Len(now)
    BY <1>1, <1>2, <2>2, <2>3
  <2>6. left = <<>> \/ Len(s.tasks) + Len(now) = PAGE_CONCURRENCY
    BY <1>1, <1>2, <2>2, <2>3 DEF EntrySeqs
  <2> HIDE DEF m
  <2> QED
    BY <1>2, <2>2, <2>3, <2>4, <2>5, <2>6
<1>6. CASE f \in 1 .. n /\ Blocked(s, live[f]) /\ \A i \in 1 .. f - 1 : ~Blocked(s, live[i])
  <2> DEFINE rest == SubSeq(live, f + 1, Len(live))
             x    == live[f]
  <2>0. f \in Nat /\ f # 0 /\ f \in 1 .. Len(live)
    BY <1>1, <1>2, <1>6
  <2>1. now = SubSeq(live, 1, f - 1) /\ left = Append(rest, x) /\ f \in 1 .. Len(live) /\ x \in PageEntry
    <3>1. now = SubSeq(live, 1, f - 1)
      BY <1>4, <2>0
    <3>2. left = Append(rest, x)
      BY <1>4, <2>0, Zenon
    <3>3. x \in PageEntry
      BY <1>1, <2>0
    <3> QED
      BY <2>0, <3>1, <3>2, <3>3
  <2>2. now \in EntrySeqs /\ Len(now) = f - 1 /\ \A i \in 1 .. Len(now) : now[i] = live[i]
    BY <1>1, <2>0, <2>1, FirstOnes DEF EntrySeqs
  <2>3. rest \in Seq(PageEntry) /\ Len(rest) = Len(live) - f /\ \A i \in 1 .. Len(rest) : rest[i] = live[f + i]
    BY <1>1, <2>0, LastOnes, SMTT(30)
  <2> HIDE DEF rest, x
  <2>4. left \in EntrySeqs /\ Len(left) = Len(rest) + 1 /\ left[Len(rest) + 1] = x /\ \A i \in 1 .. Len(rest) : left[i] = rest[i]
    <3>1. /\ Append(rest, x) \in Seq(PageEntry) /\ Len(Append(rest, x)) = Len(rest) + 1
          /\ Append(rest, x)[Len(rest) + 1] = x /\ \A i \in 1 .. Len(rest) : Append(rest, x)[i] = rest[i]
      <4>1. x \in PageEntry /\ rest \in Seq(PageEntry)
        BY <2>1, <2>3
      <4> QED
        BY <4>1, AppendProperties
    <3> QED
      BY <2>1, <3>1, Zenon DEF EntrySeqs
  <2> DEFINE m == [i \in 1 .. Len(left) |-> IF i = Len(left) THEN f ELSE f + i]
  <2>11. x = live[f]
    BY DEF x
  <2>12. Len(rest) \in Nat
    BY <2>3
  <2>5. ASSUME NEW i \in 1 .. Len(left)
        PROVE  \/ i = Len(left) /\ m[i] = f /\ left[i] = live[f]
               \/ i \in 1 .. Len(rest) /\ m[i] = f + i /\ left[i] = live[f + i]
    <3>1. m[i] = IF i = Len(left) THEN f ELSE f + i
      OBVIOUS
    <3> HIDE DEF m
    <3>2. CASE i = Len(left)
      BY <2>4, <2>11, <3>1, <3>2
    <3>3. CASE i # Len(left)
      <4>1. i \in 1 .. Len(rest)
        BY <2>4, <2>12, <3>3
      <4> QED
        BY <2>3, <2>4, <3>1, <3>3, <4>1
    <3> QED
      BY <3>2, <3>3
  <2>7. m \in [1 .. Len(left) -> 1 .. Len(live)]
    <3>1. ASSUME NEW i \in 1 .. Len(left) PROVE (IF i = Len(left) THEN f ELSE f + i) \in 1 .. Len(live)
      <4>1. Len(left) = Len(rest) + 1 /\ Len(rest) = Len(live) - f
        BY <2>3, <2>4
      <4>2. CASE i = Len(left)
        BY <2>0, <4>2
      <4>3. CASE i # Len(left)
        <5>1. i \in 1 .. Len(live) - f
          BY <2>12, <4>1, <4>3
        <5> QED
          BY <1>1, <2>0, <4>3, <5>1
      <4> QED
        BY <4>2, <4>3
    <3> QED
      BY <3>1, Zenon
  <2> HIDE DEF m
  <2>8. \A i, j \in 1 .. Len(left) : m[i] = m[j] => i = j
    BY <1>1, <2>0, <2>3, <2>4, <2>5, <2>12, SMTT(30)
  <2>9. \A i \in 1 .. Len(left) : left[i] = live[m[i]] /\ m[i] > Len(now)
    BY <1>1, <2>0, <2>2, <2>3, <2>5, <2>12, SMTT(30)
  <2>6. \E i \in 1 .. Len(left) : Blocked(s, left[i])
    <3>1. Len(rest) + 1 \in 1 .. Len(left) /\ Blocked(s, left[Len(rest) + 1])
      BY <1>6, <2>4, <2>11, <2>12
    <3> QED
      BY <3>1
  <2>10. Len(now) <= Len(live) /\ Len(s.tasks) + Len(now) <= PAGE_CONCURRENCY
    BY <1>1, <1>2, <1>6, <2>2, CaptureAssumption
  <2> QED
    BY <1>6, <2>2, <2>4, <2>6, <2>7, <2>8, <2>9, <2>10
<1> QED
  BY <1>3, <1>5, <1>6

LEMMA TaskTyped ==
  ASSUME NEW e \in PageEntry, NEW pg \in CapturePage
  PROVE  /\ Task(e) \in PageTask /\ Task(e).key = e.key
         /\ TaskPage(e, pg) \in CapturePage /\ TaskPage(e, pg).status \in {"ocr", "ai"}
<1>1. e.key \in Captures /\ e.ai \in BOOLEAN /\ e.mode \in {"full", "ai-only"}
  BY DEF PageEntry
<1>2. Task(e) \in PageTask /\ Task(e).key = e.key
  BY <1>1 DEF Task, PageTask
<1>3. TaskPage(e, pg) \in CapturePage /\ TaskPage(e, pg).status \in {"ocr", "ai"}
  BY <1>1 DEF TaskPage, CapturePage, ActiveStatuses
<1> QED
  BY <1>2, <1>3

LEMMA PagesNowOf ==
  ASSUME NEW s \in CaptureState, Len(s.tasks) <= PAGE_CONCURRENCY
  PROVE  /\ PagesNow(s) \in PageMaps
         /\ \A c \in Captures : c \in KeysNow(s) /\ IsCapture(s, c) => PagesNow(s)[c].status \in {"ocr", "ai"}
         /\ \A c \in Captures : c \notin KeysNow(s) => PagesNow(s)[c] = s.page[c]
<1>1. StartedNow(s) \in Seq(PageEntry)
  BY StartedAndQueued DEF EntrySeqs
<1>2. s.page \in [Captures -> CapturePage]
  BY DEF CaptureState, PageMaps
<1>3. ASSUME NEW c \in KeysNow(s), NEW pg \in CapturePage
      PROVE  TaskPage(EntryOf(s, c), pg) \in CapturePage /\ TaskPage(EntryOf(s, c), pg).status \in {"ocr", "ai"}
  <2> DEFINE e == EntryOf(s, c)
  <2>1. e \in ToSet(StartedNow(s))
    BY DEF KeysNow, EntryOf
  <2> HIDE DEF e
  <2>2. e \in PageEntry
    BY <1>1, <2>1 DEF ToSet
  <2> QED
    BY <2>2, TaskTyped DEF e
<1>4. \A c \in Captures : PagesNow(s)[c] \in CapturePage
  BY <1>2, <1>3 DEF PagesNow
<1> QED
  BY <1>2, <1>3, <1>4 DEF PagesNow, PageMaps

LEMMA TasksNowOf ==
  ASSUME NEW s \in CaptureState, Len(s.tasks) <= PAGE_CONCURRENCY
  PROVE  /\ TasksNow(s) \in TaskSeqs /\ Len(TasksNow(s)) = Len(s.tasks) + Len(StartedNow(s))
         /\ \A i \in 1 .. Len(s.tasks) : TasksNow(s)[i] = s.tasks[i]
         /\ \A i \in 1 .. Len(StartedNow(s)) : TasksNow(s)[Len(s.tasks) + i].key = StartedNow(s)[i].key
<1> DEFINE now == StartedNow(s)
           new == [i \in DOMAIN now |-> Task(now[i])]
<1>1. now \in Seq(PageEntry) /\ DOMAIN now = 1 .. Len(now) /\ Len(now) \in Nat
  BY StartedAndQueued DEF EntrySeqs
<1>2. \A i \in 1 .. Len(now) : Task(now[i]) \in PageTask /\ Task(now[i]).key = now[i].key
  <2>1. \A e \in PageEntry : Task(e) \in PageTask /\ Task(e).key = e.key
    <3> SUFFICES ASSUME NEW e \in PageEntry PROVE Task(e) \in PageTask /\ Task(e).key = e.key
      OBVIOUS
    <3>1. e.key \in Captures /\ e.ai \in BOOLEAN /\ e.mode \in {"full", "ai-only"}
      BY DEF PageEntry
    <3> QED
      BY <3>1 DEF Task, PageTask
  <2> QED
    BY <1>1, <2>1
<1>3. new \in Seq(PageTask) /\ Len(new) = Len(now) /\ \A i \in 1 .. Len(now) : new[i] = Task(now[i])
  <2>1. new \in [1 .. Len(now) -> PageTask]
    BY <1>1, <1>2
  <2> QED
    BY <1>1, <2>1
<1>4. s.tasks \in Seq(PageTask) /\ TasksNow(s) = s.tasks \o new
  BY DEF CaptureState, TaskSeqs, TasksNow
<1> HIDE DEF new, now
<1>5. /\ s.tasks \o new \in Seq(PageTask) /\ Len(s.tasks \o new) = Len(s.tasks) + Len(new)
      /\ \A i \in 1 .. Len(s.tasks) : (s.tasks \o new)[i] = s.tasks[i]
      /\ \A i \in 1 .. Len(new) : (s.tasks \o new)[Len(s.tasks) + i] = new[i]
  <2> DEFINE a == s.tasks
  <2>1. a \in Seq(PageTask) /\ new \in Seq(PageTask)
    BY <1>3, <1>4
  <2> HIDE DEF a
  <2>2. /\ a \o new \in Seq(PageTask) /\ Len(a \o new) = Len(a) + Len(new)
        /\ \A i \in 1 .. Len(a) : (a \o new)[i] = a[i]
        /\ \A i \in 1 .. Len(new) : (a \o new)[Len(a) + i] = new[i]
    BY <2>1, ConcatParts
  <2> QED
    BY <2>2 DEF a
<1> QED
  BY <1>2, <1>3, <1>4, <1>5 DEF now, TaskSeqs

LEMMA PumpedOf ==
  ASSUME NEW s \in CaptureState, Len(s.tasks) <= PAGE_CONCURRENCY, NEW t, t = Pumped(s)
  PROVE  /\ t \in CaptureState /\ SameJob(s, t) /\ SameMode(s, t) /\ SameCaptures(s, t) /\ SameDrafts(s, t) /\ SameAssembly(s, t)
         /\ t.queue = StillQueued(s) /\ t.tasks = TasksNow(s) /\ t.page = PagesNow(s)
<1> DEFINE q == StillQueued(s)
           k == TasksNow(s)
           p == PagesNow(s)
<1>1. q \in EntrySeqs /\ k \in TaskSeqs /\ p \in PageMaps
  BY StartedAndQueued, TasksNowOf, PagesNowOf
<1>2. t = [s EXCEPT !.queue = q, !.tasks = k, !.page = p]
  BY DEF Pumped
<1> HIDE DEF q, k, p
<1>3. t \in CaptureState
  BY <1>1, <1>2, ZenonT(60) DEF CaptureState
<1>4. /\ SameJob(s, t) /\ SameMode(s, t) /\ SameCaptures(s, t) /\ SameDrafts(s, t) /\ SameAssembly(s, t)
      /\ t.queue = q /\ t.tasks = k /\ t.page = p
  BY <1>2 DEF CaptureState, SameJob, SameMode, SameCaptures, SameDrafts, SameAssembly
<1> QED
  BY <1>3, <1>4 DEF q, k, p

LEMMA PumpFinishes ==
  ASSUME NEW s \in CaptureState
  PROVE  PumpPageQueue(s) = FinishCurrentRunWhenIdle(Pumped(s))
<1> DEFINE now  == StartedNow(s)
           live == LiveEntries(s)
           n    == FreeFor(s)
           f    == FirstBlocked(s)
           b    == [s EXCEPT !.queue = StillQueued(s), !.tasks = TasksNow(s)]
           u    == Pages(b, KeysNow(s), LAMBDA c, pg : TaskPage(CHOOSE e \in ToSet(StartedNow(s)) : e.key = c, pg))
<1>1. PumpPageQueue(s) = FinishCurrentRunWhenIdle(u)
  BY Zenon DEF PumpPageQueue, LiveEntries, FreeFor, FirstBlocked, StartedNow, StillQueued, TasksNow, KeysNow
<1>2. b.page = s.page /\ b.captures = s.captures
  BY DEF CaptureState
<1>3. u = [b EXCEPT !.page = PagesNow(s)]
  <2>1. u = [b EXCEPT !.page = [c \in Captures |->
               IF c \in KeysNow(s) /\ IsCapture(b, c) THEN TaskPage(EntryOf(s, c), b.page[c]) ELSE b.page[c]]]
    BY Zenon DEF Pages, EntryOf
  <2>2. \A c : IsCapture(b, c) <=> IsCapture(s, c)
    BY <1>2 DEF IsCapture
  <2> HIDE DEF b, u
  <2>3. PagesNow(s) = [c \in Captures |->
               IF c \in KeysNow(s) /\ IsCapture(b, c) THEN TaskPage(EntryOf(s, c), b.page[c]) ELSE b.page[c]]
    BY <1>2, <2>2 DEF PagesNow
  <2> QED
    BY <2>1, <2>3
<1>4. u = Pumped(s)
  BY <1>3, Zenon DEF Pumped
<1> HIDE DEF u
<1> QED
  BY <1>1, <1>4

\* An entry that is still of the receipt is in the queue once.
LEMMA LiveKeys ==
  ASSUME NEW s \in CaptureState, WorkFits(s), NEW i \in 1 .. Len(LiveEntries(s)), NEW j \in 1 .. Len(LiveEntries(s)),
         LiveEntries(s)[i].key = LiveEntries(s)[j].key
  PROVE  i = j
<1> DEFINE live == LiveEntries(s)
<1>1. PICK m \in [1 .. Len(live) -> 1 .. Len(s.queue)] :
        /\ \A x, y \in 1 .. Len(live) : m[x] = m[y] => x = y
        /\ \A x \in 1 .. Len(live) : live[x] = s.queue[m[x]] /\ IsCapture(s, live[x].key)
  BY LiveEntriesOf
<1>2. DOMAIN s.queue = 1 .. Len(s.queue)
  BY DEF CaptureState, EntrySeqs
<1> HIDE DEF live
<1>3. m[i] \in DOMAIN s.queue /\ m[j] \in DOMAIN s.queue /\ live[i] = s.queue[m[i]] /\ live[j] = s.queue[m[j]] /\ IsCapture(s, live[i].key)
  BY <1>1, <1>2 DEF live
<1>4. m[i] = m[j]
  BY <1>3 DEF WorkFits, live
<1> QED
  BY <1>1, <1>4 DEF live

\* What a pump works with: the entries that start, and those that do not, by their keys.
LEMMA PumpKeys ==
  ASSUME NEW s \in CaptureState, WorkFits(s)
  PROVE  LET now  == StartedNow(s)
             left == StillQueued(s)
         IN /\ \A i, j \in 1 .. Len(now) : now[i].key = now[j].key => i = j
            /\ \A i, j \in 1 .. Len(left) : left[i].key = left[j].key => i = j
            /\ \A i \in 1 .. Len(now) : /\ now[i].key \in KeysNow(s) /\ ~HasPageTask(s, now[i].key) /\ now[i].key \in Captures
                                        /\ IsCapture(s, now[i].key) /\ Under(s, now[i].key) = "pending"
            /\ \A i \in 1 .. Len(left) : /\ left[i].key \notin KeysNow(s) /\ left[i].key \in Captures
                                         /\ IsCapture(s, left[i].key) /\ Under(s, left[i].key) = "pending"
            /\ \A c \in KeysNow(s) : \E i \in 1 .. Len(now) : now[i].key = c
<1> DEFINE live == LiveEntries(s)
           now  == StartedNow(s)
           left == StillQueued(s)
<1>1. \A i, j \in 1 .. Len(live) : live[i].key = live[j].key => i = j
  BY LiveKeys
<1>2. /\ now \in EntrySeqs /\ Len(now) \in Nat /\ Len(live) \in Nat /\ Len(now) <= Len(live)
      /\ \A i \in 1 .. Len(now) : now[i] = live[i] /\ ~Blocked(s, live[i])
      /\ \E m \in [1 .. Len(left) -> 1 .. Len(live)] :
           /\ \A i, j \in 1 .. Len(left) : m[i] = m[j] => i = j
           /\ \A i \in 1 .. Len(left) : left[i] = live[m[i]] /\ m[i] > Len(now)
  <2>1. Len(s.tasks) <= PAGE_CONCURRENCY
    BY DEF WorkFits
  <2>2. live \in EntrySeqs
    BY LiveEntriesOf
  <2>3. /\ now \in EntrySeqs /\ Len(now) <= Len(live)
        /\ \A i \in 1 .. Len(now) : now[i] = live[i] /\ ~Blocked(s, live[i])
        /\ \E m \in [1 .. Len(left) -> 1 .. Len(live)] :
             /\ \A i, j \in 1 .. Len(left) : m[i] = m[j] => i = j
             /\ \A i \in 1 .. Len(left) : left[i] = live[m[i]] /\ m[i] > Len(now)
    BY <2>1, StartedAndQueued, ZenonT(60)
  <2> HIDE DEF live, now, left
  <2>4. Len(now) \in Nat /\ Len(live) \in Nat
    BY <2>2, <2>3 DEF EntrySeqs
  <2> QED
    BY <2>3, <2>4
<1>3. \A i \in 1 .. Len(live) : /\ IsCapture(s, live[i].key) /\ Under(s, live[i].key) = "pending" /\ live[i] \in PageEntry
                                /\ live[i].key \in Captures
  BY LiveEntriesOf DEF PageEntry
<1>4. KeysNow(s) = {now[i].key : i \in 1 .. Len(now)}
  BY <1>2 DEF KeysNow, ToSet, EntrySeqs
<1> HIDE DEF live, now, left
<1>5. \A i \in 1 .. Len(now) : i \in 1 .. Len(live)
  BY <1>2
<1>6. PICK m \in [1 .. Len(left) -> 1 .. Len(live)] :
           /\ \A i, j \in 1 .. Len(left) : m[i] = m[j] => i = j
           /\ \A i \in 1 .. Len(left) : left[i] = live[m[i]] /\ m[i] > Len(now)
  BY <1>2
<1>7. \A i, j \in 1 .. Len(now) : now[i].key = now[j].key => i = j
  BY <1>1, <1>2, <1>5
<1>8. ASSUME NEW i \in 1 .. Len(left), NEW j \in 1 .. Len(left), left[i].key = left[j].key PROVE i = j
  <2>1. m[i] \in 1 .. Len(live) /\ m[j] \in 1 .. Len(live) /\ live[m[i]].key = live[m[j]].key
    BY <1>6, <1>8, Zenon
  <2>2. m[i] = m[j]
    BY <1>1, <2>1, Zenon
  <2> QED
    BY <1>6, <2>2, Zenon
<1>9. \A i \in 1 .. Len(now) : /\ now[i].key \in KeysNow(s) /\ ~HasPageTask(s, now[i].key) /\ now[i].key \in Captures
                               /\ IsCapture(s, now[i].key) /\ Under(s, now[i].key) = "pending"
  BY <1>2, <1>3, <1>4, <1>5 DEF Blocked
<1>10. ASSUME NEW i \in 1 .. Len(left)
       PROVE  /\ left[i].key \notin KeysNow(s) /\ left[i].key \in Captures
              /\ IsCapture(s, left[i].key) /\ Under(s, left[i].key) = "pending"
  <2>1. m[i] \in 1 .. Len(live) /\ left[i] = live[m[i]] /\ m[i] > Len(now)
    BY <1>6
  <2>2. ASSUME NEW j \in 1 .. Len(now), now[j].key = left[i].key PROVE FALSE
    <3>1. now[j] = live[j] /\ j \in 1 .. Len(live)
      BY <1>2, <1>5
    <3>2. j = m[i]
      BY <1>1, <2>1, <2>2, <3>1
    <3> QED
      BY <1>2, <2>1, <3>2
  <2> QED
    BY <1>3, <1>4, <2>1, <2>2
<1>11. \A c \in KeysNow(s) : \E i \in 1 .. Len(now) : now[i].key = c
  BY <1>4
<1> QED
  BY <1>7, <1>8, <1>9, <1>10, <1>11 DEF now, left

LEMMA PumpedWork ==
  ASSUME NEW s \in CaptureState, CapturesFit(s), WorkFits(s), NEW t, t = Pumped(s)
  PROVE  CapturesFit(t) /\ WorkFits(t) /\ QueueFits(t) /\ PagesHold(s, t)
<1> DEFINE now  == StartedNow(s)
           left == StillQueued(s)
           n    == Len(s.tasks)
<1>0. n \in Nat /\ n <= PAGE_CONCURRENCY /\ s.tasks \in Seq(PageTask) /\ DOMAIN s.tasks = 1 .. n
  BY DEF WorkFits, CaptureState, TaskSeqs
<1>1. /\ t \in CaptureState /\ SameMode(s, t) /\ SameCaptures(s, t) /\ SameAssembly(s, t)
      /\ t.queue = left /\ t.tasks = TasksNow(s) /\ t.page = PagesNow(s)
  BY <1>0, PumpedOf
<1>2. /\ now \in EntrySeqs /\ left \in EntrySeqs /\ n + Len(now) <= PAGE_CONCURRENCY
      /\ \/ left = <<>> \/ n + Len(now) = PAGE_CONCURRENCY
         \/ \E i \in 1 .. Len(left) : Blocked(s, left[i])
  BY <1>0, StartedAndQueued
<1>3. /\ \A i, j \in 1 .. Len(now) : now[i].key = now[j].key => i = j
      /\ \A i, j \in 1 .. Len(left) : left[i].key = left[j].key => i = j
      /\ \A i \in 1 .. Len(now) : /\ now[i].key \in KeysNow(s) /\ ~HasPageTask(s, now[i].key) /\ now[i].key \in Captures
                                  /\ IsCapture(s, now[i].key) /\ Under(s, now[i].key) = "pending"
      /\ \A i \in 1 .. Len(left) : /\ left[i].key \notin KeysNow(s) /\ left[i].key \in Captures
                                   /\ IsCapture(s, left[i].key) /\ Under(s, left[i].key) = "pending"
      /\ \A c \in KeysNow(s) : \E i \in 1 .. Len(now) : now[i].key = c
  BY PumpKeys
<1>4. /\ t.tasks \in TaskSeqs /\ Len(t.tasks) = n + Len(now)
      /\ \A i \in 1 .. n : t.tasks[i] = s.tasks[i]
      /\ \A i \in 1 .. Len(now) : t.tasks[n + i].key = now[i].key
  BY <1>0, <1>1, TasksNowOf
<1>5. /\ \A c \in Captures : c \in KeysNow(s) /\ IsCapture(s, c) => t.page[c].status \in {"ocr", "ai"}
      /\ \A c \in Captures : c \notin KeysNow(s) => t.page[c] = s.page[c]
  BY <1>0, <1>1, PagesNowOf
<1>6. \A c : IsCapture(t, c) <=> IsCapture(s, c)
  BY <1>1 DEF SameCaptures, IsCapture
<1>7. \A i \in 1 .. n : s.tasks[i].key \in Captures /\ s.tasks[i].key \notin KeysNow(s)
  <2>1. \A i \in 1 .. n : s.tasks[i] \in PageTask /\ s.tasks[i] \in ToSet(s.tasks)
    BY <1>0 DEF ToSet
  <2>2. \A e \in PageTask : e.key \in Captures
    BY DEF PageTask
  <2>3. \A i \in 1 .. n : HasPageTask(s, s.tasks[i].key)
    BY <2>1 DEF HasPageTask
  <2> QED
    BY <1>3, <2>1, <2>2, <2>3
<1> HIDE DEF now, left
<1>8. Len(now) \in Nat /\ DOMAIN t.tasks = 1 .. n + Len(now) /\ DOMAIN t.queue = 1 .. Len(left) /\ Len(left) \in Nat
  BY <1>1, <1>2, <1>4 DEF EntrySeqs, TaskSeqs
<1>9. \A i \in DOMAIN t.tasks : i \in 1 .. n \/ \E j \in 1 .. Len(now) : i = n + j
  <2>1. \A i \in 1 .. n + Len(now) : i \in 1 .. n \/ (i - n \in 1 .. Len(now) /\ i = n + (i - n))
    BY <1>0, <1>8
  <2> QED
    BY <1>8, <2>1
<1>10. PagesHold(s, t)
  BY <1>3, <1>5 DEF PagesHold
<1>11. CapturesFit(t)
  <2>1. \A i \in DOMAIN t.queue : t.queue[i].key \in t.stored
    BY <1>1, <1>3, <1>8 DEF CapturesFit, SameCaptures, IsCapture
  <2> QED
    BY <1>1, <2>1 DEF CapturesFit, SameCaptures
<1>12. \A i, j \in DOMAIN t.tasks : t.tasks[i].key = t.tasks[j].key => i = j
  <2>1. ASSUME NEW i \in 1 .. n, NEW j \in 1 .. Len(now) PROVE t.tasks[i].key # t.tasks[n + j].key
    <3>1. t.tasks[i].key \notin KeysNow(s)
      BY <1>4, <1>7
    <3>2. t.tasks[n + j].key \in KeysNow(s)
      BY <1>3, <1>4
    <3> QED
      BY <3>1, <3>2
  <2>2. \A i, j \in 1 .. n : t.tasks[i].key = t.tasks[j].key => i = j
    BY <1>0, <1>4, ZenonT(60) DEF WorkFits
  <2>3. \A i, j \in 1 .. Len(now) : t.tasks[n + i].key = t.tasks[n + j].key => i = j
    BY <1>3, <1>4
  <2> DEFINE key == [i \in DOMAIN t.tasks |-> t.tasks[i].key]
  <2>4. \A i \in 1 .. n : i \in DOMAIN t.tasks
    BY <1>0, <1>8
  <2>5. \A i \in 1 .. Len(now) : n + i \in DOMAIN t.tasks
    BY <1>0, <1>8
  <2>6. /\ \A i \in 1 .. n, j \in 1 .. Len(now) : key[i] # key[n + j]
        /\ \A i, j \in 1 .. n : key[i] = key[j] => i = j
        /\ \A i, j \in 1 .. Len(now) : key[n + i] = key[n + j] => i = j
    BY <2>1, <2>2, <2>3, <2>4, <2>5
  <2>7. \A i \in DOMAIN t.tasks : key[i] = t.tasks[i].key
    OBVIOUS
  <2> HIDE DEF key
  <2>8. ASSUME NEW i \in DOMAIN t.tasks, NEW j \in DOMAIN t.tasks, key[i] = key[j] PROVE i = j
    BY <1>9, <2>6, <2>8
  <2> QED
    BY <2>7, <2>8
<1>13. \A i, j \in DOMAIN t.queue : t.queue[i].key = t.queue[j].key => i = j
  BY <1>1, <1>3, <1>8
<1>14. \A i \in DOMAIN t.queue : Under(t, t.queue[i].key) # "ready"
  BY <1>1, <1>3, <1>5, <1>8 DEF Under
<1>15. \A i \in DOMAIN t.tasks : t.tasks[i].valid => Under(t, t.tasks[i].key) \notin {"cancelled", "manual"}
  <2>1. ASSUME NEW i \in 1 .. n, t.tasks[i].valid PROVE Under(t, t.tasks[i].key) \notin {"cancelled", "manual"}
    BY <1>0, <1>4, <1>5, <1>7, <2>1, SMTT(30) DEF WorkFits, Under
  <2>2. ASSUME NEW j \in 1 .. Len(now) PROVE Under(t, t.tasks[n + j].key) \notin {"cancelled", "manual"}
    BY <1>3, <1>4, <1>5, ZenonT(60) DEF Under
  <2> QED
    BY <1>9, <2>1, <2>2
<1>16. t.finalizing => t.assembly # <<>>
  BY <1>1 DEF WorkFits, SameAssembly
<1>17. WorkFits(t)
  BY <1>2, <1>4, <1>12, <1>13, <1>14, <1>15, <1>16 DEF WorkFits
<1>18. ASSUME left = <<>> PROVE QueueFits(t)
  BY <1>1, <1>13, <1>18 DEF QueueFits
<1>19. ASSUME n + Len(now) = PAGE_CONCURRENCY PROVE QueueFits(t)
  <2>1. Len(t.tasks) = PAGE_CONCURRENCY /\ t.tasks # <<>> /\ ~(Len(t.tasks) < PAGE_CONCURRENCY)
    BY <1>4, <1>19, CaptureAssumption DEF TaskSeqs
  <2> QED
    BY <1>13, <2>1 DEF QueueFits
<1>20. ASSUME \E i \in 1 .. Len(left) : Blocked(s, left[i]) PROVE QueueFits(t)
  <2>1. PICK i \in 1 .. Len(left) : HasPageTask(s, left[i].key)
    BY <1>20 DEF Blocked
  <2>2. PICK j \in 1 .. n : s.tasks[j].key = left[i].key
    BY <1>0, <2>1 DEF HasPageTask, ToSet
  <2>3. i \in DOMAIN t.queue /\ j \in DOMAIN t.tasks /\ t.queue[i].key = t.tasks[j].key
    BY <1>0, <1>1, <1>4, <1>8, <2>2
  <2>4. t.tasks # <<>>
    BY <2>3
  <2> QED
    BY <1>13, <2>3, <2>4 DEF QueueFits
<1>21. QueueFits(t)
  BY <1>2, <1>18, <1>19, <1>20
<1> QED
  BY <1>10, <1>11, <1>17, <1>21

\* The pump leaves the queue and the run as the invariant has them.
LEMMA PumpedRun ==
  ASSUME NEW s, PumpReady(s), NEW t, t = PumpPageQueue(s)
  PROVE  RunFits(t) /\ SameJob(s, t) /\ SameMode(s, t) /\ SameCaptures(s, t) /\ PagesHold(s, t)
<1> DEFINE u == Pumped(s)
<1>0. s \in CaptureState /\ CapturesFit(s) /\ WorkFits(s) /\ (~s.aiConfigured => DraftsFit(s)) /\ Len(s.tasks) <= PAGE_CONCURRENCY
  BY DEF PumpReady, WorkFits
<1>1. t = FinishCurrentRunWhenIdle(u)
  BY <1>0, PumpFinishes
<1>2. u \in CaptureState /\ SameJob(s, u) /\ SameMode(s, u) /\ SameCaptures(s, u) /\ SameDrafts(s, u) /\ SameAssembly(s, u)
  BY <1>0, PumpedOf
<1>3. CapturesFit(u) /\ WorkFits(u) /\ QueueFits(u) /\ PagesHold(s, u)
  BY <1>0, PumpedWork
<1> HIDE DEF u
<1>4. ~u.aiConfigured => DraftsFit(u)
  BY <1>0, <1>2, SameDraftsFit DEF SameMode
<1>5. PumpReady(u) /\ (u.queue # <<>> => u.tasks # <<>>)
  BY <1>2, <1>3, <1>4 DEF PumpReady, QueueFits
<1>6. /\ PumpReady(t) /\ SameJob(u, t) /\ SameMode(u, t) /\ SameCaptures(u, t) /\ SameWork(u, t) /\ t.page = u.page
      /\ WorkGoesOn(t)
  BY <1>1, <1>5, FinishedRun
<1>7. QueueFits(t)
  BY <1>3, <1>6, SameQueueFits
<1>8. PagesHold(s, t)
  BY <1>3, <1>6 DEF PagesHold
<1> QED
  BY <1>2, <1>6, <1>7, <1>8 DEF RunFits, SameJob, SameMode, SameCaptures

--------------------------------------------------------------------------------
(* What the operations on the state leave alone.                           *)

AllSame(s, t) ==
  /\ SameJob(s, t) /\ SameMode(s, t) /\ SameCaptures(s, t) /\ SameWork(s, t) /\ SameDrafts(s, t) /\ SameAssembly(s, t)

\* The pages that change are neither waiting nor new, and not settled by the user.
PagesMove(s, t) == \A c \in Captures : t.page[c] = s.page[c] \/ t.page[c].status \notin {"pending", "ready", "cancelled", "manual"}

LEMMA SameRunFits ==
  ASSUME NEW s, NEW t, RunFits(s), t \in CaptureState, AllSame(s, t), t.page = s.page,
         ~s.aiConfigured => t.processing = s.processing
  PROVE  RunFits(t)
<1>1. /\ SameJob(s, t) /\ SameMode(s, t) /\ SameCaptures(s, t) /\ SameWork(s, t) /\ SameDrafts(s, t) /\ SameAssembly(s, t)
      /\ CapturesFit(s) /\ WorkFits(s) /\ QueueFits(s) /\ t.aiConfigured = s.aiConfigured
      /\ ~s.aiConfigured => DraftsFit(s) /\ WorkGoesOn(s)
  BY DEF AllSame, RunFits, PumpReady, SameMode
<1>2. t.finalizing => t.assembly # <<>>
  BY <1>1 DEF WorkFits, SameAssembly
<1>3. CapturesFit(t) /\ WorkFits(t) /\ QueueFits(t)
  BY <1>1, <1>2, SameCapturesFit, SameWorkFits, SameQueueFits DEF SameWork
<1>4. ~t.aiConfigured => DraftsFit(t)
  BY <1>1, SameDraftsFit
<1>5. ~t.aiConfigured => WorkGoesOn(t)
  BY <1>1 DEF WorkGoesOn, SameWork, SameDrafts, SameAssembly, SameCaptures, Heads, LiveHeads
<1> QED
  BY <1>3, <1>4, <1>5 DEF RunFits, PumpReady

LEMMA SamePumpReady ==
  ASSUME NEW s, NEW t, PumpReady(s), t \in CaptureState, AllSame(s, t), t.page = s.page
  PROVE  PumpReady(t)
<1>1. /\ SameJob(s, t) /\ SameMode(s, t) /\ SameCaptures(s, t) /\ SameWork(s, t) /\ SameDrafts(s, t) /\ SameAssembly(s, t)
      /\ CapturesFit(s) /\ WorkFits(s) /\ t.aiConfigured = s.aiConfigured
      /\ ~s.aiConfigured => DraftsFit(s)
  BY DEF AllSame, PumpReady, SameMode
<1>2. t.finalizing => t.assembly # <<>>
  BY <1>1 DEF WorkFits, SameAssembly
<1>3. CapturesFit(t) /\ WorkFits(t)
  BY <1>1, <1>2, SameCapturesFit, SameWorkFits DEF SameWork
<1>4. ~t.aiConfigured => DraftsFit(t)
  BY <1>1, SameDraftsFit
<1> QED
  BY <1>3, <1>4 DEF PumpReady

\* With AI a run fits if the queue and the tasks are as they were and pages only move on.
LEMMA MovedRun ==
  ASSUME NEW s, NEW t, RunFits(s), t.aiConfigured = TRUE, s.aiConfigured = TRUE, t \in CaptureState,
         SameCaptures(s, t), t.queue = s.queue, t.tasks = s.tasks, PagesMove(s, t), t.finalizing => t.assembly # <<>>
  PROVE  RunFits(t)
<1>1. CapturesFit(s) /\ WorkFits(s) /\ QueueFits(s)
  BY DEF RunFits, PumpReady
<1>2. /\ \A i \in DOMAIN s.queue : s.queue[i].key \in Captures
      /\ \A i \in DOMAIN s.tasks : s.tasks[i].key \in Captures
  <2>1. s.queue \in Seq(PageEntry) /\ s.tasks \in Seq(PageTask)
    BY DEF RunFits, PumpReady, CaptureState, EntrySeqs, TaskSeqs
  <2>2. (\A e \in PageEntry : e.key \in Captures) /\ (\A e \in PageTask : e.key \in Captures)
    BY DEF PageEntry, PageTask
  <2>3. (\A i \in DOMAIN s.queue : s.queue[i] \in PageEntry) /\ (\A i \in DOMAIN s.tasks : s.tasks[i] \in PageTask)
    BY <2>1
  <2> QED
    BY <2>2, <2>3
<1>3. CapturesFit(t)
  BY <1>1, SameCapturesFit
<1>4. \A c \in Captures : /\ Under(t, c) = "pending" => Under(s, c) = "pending"
                          /\ Under(t, c) = "ready" => Under(s, c) = "ready"
                          /\ Under(t, c) \in {"cancelled", "manual"} => Under(s, c) \in {"cancelled", "manual"}
  BY DEF PagesMove, Under
<1>5. \A c : IsCapture(t, c) <=> IsCapture(s, c)
  BY DEF IsCapture, SameCaptures
<1>6. WorkFits(t)
  BY <1>1, <1>2, <1>4, <1>5 DEF WorkFits
<1>7. QueueFits(t)
  BY <1>1, <1>2, <1>4 DEF QueueFits
<1> QED
  BY <1>3, <1>6, <1>7 DEF RunFits, PumpReady

\* So it does when nothing is queued and no task counts any more.
LEMMA ClearedRun ==
  ASSUME NEW t, t \in CaptureState, t.queue = <<>>, t.tasks = <<>>, t.finalizing => t.assembly # <<>>,
         IsInjective(t.captures), ToSet(t.captures) \subseteq t.stored,
         \A u \in t.uploads : IsInjective(u.added) /\ ToSet(u.added) \subseteq t.stored,
         ~t.aiConfigured => DraftsFit(t) /\ WorkGoesOn(t)
  PROVE  RunFits(t)
<1>1. DOMAIN t.queue = {} /\ DOMAIN t.tasks = {} /\ Len(t.tasks) = 0
  OBVIOUS
<1>2. CapturesFit(t)
  BY <1>1 DEF CapturesFit
<1>3. WorkFits(t)
  BY <1>1, CaptureAssumption DEF WorkFits
<1>4. QueueFits(t)
  BY <1>1 DEF QueueFits
<1> QED
  BY <1>2, <1>3, <1>4 DEF RunFits, PumpReady

LEMMA SameIdsFit ==
  ASSUME NEW s, NEW t, NEW n, IdsKnown(s, n), SameJob(s, t)
  PROVE  IdsKnown(t, n)
BY Zenon DEF IdsKnown, SameJob

--------------------------------------------------------------------------------
(* The operations of the durable job.                                      *)

\* The pages that an operation changes, by what it makes of each.
ChangedPages(s, keys, page) ==
  \A c \in Captures : page[c] = s.page[c] \/ c \in keys

LEMMA SetPagesOf ==
  ASSUME NEW s \in CaptureState, NEW st, NEW caps, NEW t, t = SetPagesForBackgroundJob(s, st, caps)
  PROVE  /\ t \in CaptureState /\ AllSame(s, t) /\ PagesMove(s, t) /\ PagesHold(s, t) /\ ChangedPages(s, ToSet(caps), t.page)
<1> DEFINE b    == [s EXCEPT !.failed = FALSE]
           keys == {c \in ToSet(caps) : Under(s, c) \notin TerminalStatuses}
           p    == [c \in Captures |-> IF c \in keys /\ IsCapture(b, c)
                                       THEN [b.page[c] EXCEPT !.status = JobPageStatus(st), !.code = "none"] ELSE b.page[c]]
<1>1. t = [b EXCEPT !.page = p]
  BY Zenon DEF SetPagesForBackgroundJob, Pages
<1>2. b \in CaptureState
  BY ZenonT(60) DEF CaptureState
<1>3. AllSame(s, b) /\ b.page = s.page
  BY DEF CaptureState, AllSame, SameJob, SameMode, SameCaptures, SameWork, SameDrafts, SameAssembly
<1> HIDE DEF b
<1>4. s.page \in [Captures -> CapturePage]
  BY DEF CaptureState, PageMaps
<1>5. JobPageStatus(st) \in {"queued", "ai", "submitting"}
  BY DEF JobPageStatus
<1>6. \A pg \in CapturePage : [pg EXCEPT !.status = JobPageStatus(st), !.code = "none"] \in CapturePage
  BY <1>5, ZenonT(60) DEF CapturePage, ActiveStatuses, QueuedStatuses
<1>7. \A pg \in CapturePage : [pg EXCEPT !.status = JobPageStatus(st), !.code = "none"].status = JobPageStatus(st)
  BY DEF CapturePage
<1>8. p \in PageMaps
  BY <1>3, <1>4, <1>6 DEF PageMaps
<1>9. \A c \in Captures : \/ p[c] = s.page[c]
                          \/ c \in keys /\ p[c].status = JobPageStatus(st)
  BY <1>3, <1>4, <1>7
<1>10. \A c \in keys : c \in ToSet(caps) /\ Under(s, c) \notin {"cancelled", "manual"}
  BY DEF TerminalStatuses
<1> HIDE DEF p, keys
<1>11. t \in CaptureState
  BY <1>1, <1>2, <1>8, ZenonT(60) DEF CaptureState
<1>12. AllSame(b, t) /\ t.page = p
  BY <1>1, <1>2 DEF CaptureState, AllSame, SameJob, SameMode, SameCaptures, SameWork, SameDrafts, SameAssembly
<1>13. AllSame(s, t)
  BY <1>3, <1>12 DEF AllSame, SameJob, SameMode, SameCaptures, SameWork, SameDrafts, SameAssembly
<1>14. PagesMove(s, t)
  BY <1>5, <1>9, <1>12 DEF PagesMove
<1>15. PagesHold(s, t) /\ ChangedPages(s, ToSet(caps), t.page)
  BY <1>9, <1>10, <1>12 DEF PagesHold, ChangedPages
<1> QED
  BY <1>11, <1>13, <1>14, <1>15

LEMMA StagePageTyped ==
  ASSUME NEW c, NEW pg \in CapturePage, NEW stage \in Stages, stage # "none"
  PROVE  /\ StagePage(c, pg, stage) \in CapturePage
         /\ StagePage(c, pg, stage).status \notin {"pending", "ready", "cancelled", "manual"}
<1>1. /\ pg.text \in {"none", "raw", "result"}
      /\ pg.ai \in {"idle", "running", "completed", "error"}
  BY DEF CapturePage
<1> DEFINE st == IF stage = "ocr" /\ c \in PdfCaptures THEN "ai" ELSE stage
           tx == CASE stage = "completed" -> "result"
                   [] stage \in {"ai", "error"} /\ pg.text = "none" -> "raw"
                   [] OTHER -> pg.text
           ai == CASE stage = "completed" -> "completed"
                   [] stage = "error" -> "error" [] OTHER -> "idle"
           cd == IF stage = "error" THEN "other" ELSE "none"
<1>2. /\ st \in {"queued", "ocr", "ai", "completed", "error"}
      /\ tx \in {"none", "raw", "result"} /\ ai \in {"idle", "completed", "error"} /\ cd \in {"none", "other"}
  BY <1>1 DEF Stages
<1>3. StagePage(c, pg, stage) = [pg EXCEPT !.status = st, !.text = tx, !.ai = ai, !.code = cd]
  BY DEF StagePage
<1> HIDE DEF st, tx, ai, cd
<1>4. StagePage(c, pg, stage) \in CapturePage
  <2>1. /\ st \in ActiveStatuses \cup QueuedStatuses \cup TerminalStatuses \cup {"ready"}
        /\ tx \in {"none", "raw", "result"} /\ ai \in {"idle", "running", "completed", "error"}
        /\ cd \in {"none", "ai", "create", "manual", "other"}
    BY <1>2 DEF ActiveStatuses, QueuedStatuses, TerminalStatuses
  <2> QED
    BY <1>3, <2>1, ZenonT(60) DEF CapturePage
<1>5. StagePage(c, pg, stage).status = st
  BY <1>3 DEF CapturePage
<1> QED
  BY <1>2, <1>4, <1>5

LEMMA ProgressOf ==
  ASSUME NEW s \in CaptureState, NEW caps, NEW stages \in [ToSet(caps) -> Stages], NEW t, t = ApplyProgress(s, caps, stages)
  PROVE  t \in CaptureState /\ AllSame(s, t) /\ PagesMove(s, t) /\ PagesHold(s, t)
<1> DEFINE keys == {c \in ToSet(caps) : stages[c] # "none" /\ CanApplyDurableUpdate(s, c)}
           p    == [c \in Captures |-> IF c \in keys /\ IsCapture(s, c) THEN StagePage(c, s.page[c], stages[c]) ELSE s.page[c]]
<1>1. t = [s EXCEPT !.page = p]
  BY Zenon DEF ApplyProgress, Pages
<1>2. s.page \in [Captures -> CapturePage]
  BY DEF CaptureState, PageMaps
<1>3. \A c \in keys : stages[c] \in Stages /\ stages[c] # "none" /\ Under(s, c) \notin {"cancelled", "manual"}
  BY DEF CanApplyDurableUpdate, TerminalStatuses
<1>4. ASSUME NEW c \in Captures, c \in keys
      PROVE  /\ StagePage(c, s.page[c], stages[c]) \in CapturePage
             /\ StagePage(c, s.page[c], stages[c]).status \notin {"pending", "ready", "cancelled", "manual"}
  BY <1>2, <1>3, <1>4, StagePageTyped
<1>5. p \in PageMaps
  BY <1>2, <1>4 DEF PageMaps
<1>6. \A c \in Captures : \/ p[c] = s.page[c]
                          \/ c \in keys /\ p[c].status \notin {"pending", "ready", "cancelled", "manual"}
  BY <1>4
<1> HIDE DEF p, keys
<1>7. t \in CaptureState
  BY <1>1, <1>5, ZenonT(60) DEF CaptureState
<1>8. AllSame(s, t) /\ t.page = p
  BY <1>1 DEF CaptureState, AllSame, SameJob, SameMode, SameCaptures, SameWork, SameDrafts, SameAssembly
<1>9. PagesMove(s, t) /\ PagesHold(s, t)
  BY <1>3, <1>6, <1>8 DEF PagesMove, PagesHold
<1> QED
  BY <1>7, <1>8, <1>9

LEMMA ProgressOrStatusOf ==
  ASSUME NEW s \in CaptureState, NEW st, NEW caps, NEW stages \in [ToSet(caps) -> Stages],
         NEW t, t = ApplyProgressOrStatus(s, st, caps, stages)
  PROVE  t \in CaptureState /\ AllSame(s, t) /\ PagesMove(s, t) /\ PagesHold(s, t)
<1>1. t = ApplyProgress(s, caps, stages) \/ t = SetPagesForBackgroundJob(s, st, caps)
  BY Zenon DEF ApplyProgressOrStatus
<1> QED
  BY <1>1, ProgressOf, SetPagesOf

LEMMA FailedPages ==
  ASSUME NEW s \in CaptureState, NEW caps, NEW code \in Codes, NEW t, t = FailBackgroundJob(s, caps, code)
  PROVE  /\ t \in CaptureState /\ PagesMove(s, t)
         /\ SameJob(s, t) /\ SameMode(s, t) /\ SameCaptures(s, t) /\ SameWork(s, t) /\ t.finalizing = FALSE
<1> DEFINE keys == {c \in ToSet(caps) : Under(s, c) # "error" /\ ~(Under(s, c) = "completed" /\ s.page[c].ai = "completed")}
           p    == [c \in Captures |-> IF c \in keys /\ IsCapture(s, c)
                                       THEN [s.page[c] EXCEPT !.status = "error", !.code = code] ELSE s.page[c]]
           b    == [s EXCEPT !.page = p]
           f    == code = "ai"
<1>1. t = [b EXCEPT !.failed = f, !.processing = FALSE, !.finalizing = FALSE]
  BY Zenon DEF FailBackgroundJob, Pages
<1>2. s.page \in [Captures -> CapturePage]
  BY DEF CaptureState, PageMaps
<1>3. \A pg \in CapturePage : /\ [pg EXCEPT !.status = "error", !.code = code] \in CapturePage
                              /\ [pg EXCEPT !.status = "error", !.code = code].status = "error"
  BY DEF CapturePage, TerminalStatuses, Codes
<1>4. p \in PageMaps
  BY <1>2, <1>3 DEF PageMaps
<1>5. \A c \in Captures : p[c] = s.page[c] \/ p[c].status = "error"
  BY <1>2, <1>3
<1>6. f \in BOOLEAN
  OBVIOUS
<1> HIDE DEF p, f
<1>7. b \in CaptureState
  BY <1>4, ZenonT(60) DEF CaptureState
<1>8. AllSame(s, b) /\ b.page = p
  BY DEF CaptureState, AllSame, SameJob, SameMode, SameCaptures, SameWork, SameDrafts, SameAssembly
<1> HIDE DEF b
<1>9. t \in CaptureState
  BY <1>1, <1>6, <1>7, ZenonT(60) DEF CaptureState
<1>10. SameJob(b, t) /\ SameMode(b, t) /\ SameCaptures(b, t) /\ SameWork(b, t) /\ t.finalizing = FALSE /\ t.page = b.page
  BY <1>1, <1>7 DEF CaptureState, SameJob, SameMode, SameCaptures, SameWork
<1>11. SameJob(s, t) /\ SameMode(s, t) /\ SameCaptures(s, t) /\ SameWork(s, t)
  BY <1>8, <1>10 DEF AllSame, SameJob, SameMode, SameCaptures, SameWork
<1>12. PagesMove(s, t)
  BY <1>5, <1>8, <1>10 DEF PagesMove
<1> QED
  BY <1>9, <1>10, <1>11, <1>12

\* The request of a job is out of date.
LEMMA OutdatedOf ==
  ASSUME NEW P \in PostSets, NEW R \in ReadSets
  PROVE  /\ Outdated(P) \in PostSets /\ (P = {} => Outdated(P) = {})
         /\ Outdated(R) \in ReadSets /\ (R = {} => Outdated(R) = {})
         /\ \A p \in Outdated(P) : \E q \in P : p = [q EXCEPT !.latest = FALSE] /\ p.kind = q.kind /\ p.id = q.id
         /\ \A r \in Outdated(R) : \E q \in R : r.id = q.id
         /\ IsFiniteSet(P) => IsFiniteSet(Outdated(P))
<1>1. \A p \in JobPost : /\ [p EXCEPT !.latest = FALSE] \in JobPost
                         /\ [p EXCEPT !.latest = FALSE].kind = p.kind /\ [p EXCEPT !.latest = FALSE].id = p.id
  BY DEF JobPost
<1>2. \A r \in ReadOfJob : /\ [r EXCEPT !.latest = FALSE] \in ReadOfJob /\ [r EXCEPT !.latest = FALSE].id = r.id
  BY DEF ReadOfJob
<1>3. P \subseteq JobPost /\ R \subseteq ReadOfJob
  BY DEF PostSets, ReadSets
<1>4. /\ \A p \in Outdated(P) : \E q \in P : p = [q EXCEPT !.latest = FALSE]
      /\ \A r \in Outdated(R) : \E q \in R : r = [q EXCEPT !.latest = FALSE]
      /\ (P = {} => Outdated(P) = {}) /\ (R = {} => Outdated(R) = {})
  BY DEF Outdated
<1>5. Outdated(P) \in PostSets /\ Outdated(R) \in ReadSets
  BY <1>1, <1>2, <1>3, <1>4 DEF PostSets, ReadSets
<1>6. ASSUME IsFiniteSet(P) PROVE IsFiniteSet(Outdated(P))
  <2> DEFINE f == [p \in P |-> [p EXCEPT !.latest = FALSE]]
  <2>1. Outdated(P) = {f[p] : p \in P}
    BY DEF Outdated
  <2> HIDE DEF f
  <2> QED
    BY <1>6, <2>1, FiniteImage
<1>7. ASSUME NEW p \in Outdated(P) PROVE \E q \in P : p = [q EXCEPT !.latest = FALSE] /\ p.kind = q.kind /\ p.id = q.id
  <2>1. PICK q \in P : p = [q EXCEPT !.latest = FALSE]
    BY <1>4
  <2> QED
    BY <1>1, <1>3, <2>1
<1>8. ASSUME NEW r \in Outdated(R) PROVE \E q \in R : r.id = q.id
  <2>1. PICK q \in R : r = [q EXCEPT !.latest = FALSE]
    BY <1>4
  <2> QED
    BY <1>2, <1>3, <2>1
<1> QED
  BY <1>4, <1>5, <1>6, <1>7, <1>8

\* The job is no longer followed.
LEMMA ClearedJobOf ==
  ASSUME NEW s \in CaptureState, NEW cancel \in BOOLEAN, NEW t, t = ClearReceiptExtractionJob(s, cancel)
  PROVE  /\ t \in CaptureState /\ SameMode(s, t) /\ SameCaptures(s, t) /\ SameWork(s, t) /\ SameDrafts(s, t) /\ SameAssembly(s, t)
         /\ t.page = s.page /\ t.processing = s.processing /\ t.activeJobId = 0
         /\ t.posts = (IF cancel THEN Outdated(s.posts) ELSE s.posts)
         /\ t.reads = (IF cancel THEN Outdated(s.reads) ELSE s.reads)
<1> DEFINE scope == IF cancel THEN <<>> ELSE s.pendingScope
           ps    == IF cancel THEN Outdated(s.posts) ELSE s.posts
           rs    == IF cancel THEN Outdated(s.reads) ELSE s.reads
           ds    == IF cancel /\ s.activeJobId # 0 THEN s.deletes \cup {s.activeJobId} ELSE s.deletes
           none  == <<>>
<1>1. scope \in CaptureSeqs /\ ps \in PostSets /\ rs \in ReadSets /\ ds \in IdSets /\ none \in CaptureSeqs /\ 0 \in Nat
  <2>1. s.posts \in PostSets /\ s.reads \in ReadSets /\ s.deletes \in IdSets /\ s.activeJobId \in Nat /\ s.pendingScope \in CaptureSeqs
    BY DEF CaptureState
  <2>2. none \in CaptureSeqs
    BY DEF CaptureSeqs
  <2>3. s.deletes \cup {s.activeJobId} \in IdSets
    BY <2>1 DEF IdSets
  <2> QED
    BY <2>1, <2>2, <2>3, OutdatedOf
<1>2. t = [s EXCEPT !.activeJobId = 0, !.jobKeys = none, !.failed = FALSE, !.pendingScope = scope,
                    !.posts = ps, !.reads = rs, !.deletes = ds]
  BY Zenon DEF ClearReceiptExtractionJob
<1> HIDE DEF scope, ps, rs, ds, none
<1>3. t \in CaptureState
  BY <1>1, <1>2, ZenonT(60) DEF CaptureState
<1>4. /\ SameMode(s, t) /\ SameCaptures(s, t) /\ SameWork(s, t) /\ SameDrafts(s, t) /\ SameAssembly(s, t)
      /\ t.page = s.page /\ t.processing = s.processing /\ t.activeJobId = 0 /\ t.posts = ps /\ t.reads = rs
  BY <1>2 DEF CaptureState, SameMode, SameCaptures, SameWork, SameDrafts, SameAssembly
<1> QED
  BY <1>3, <1>4 DEF ps, rs

LEMMA ClearedIdsFit ==
  ASSUME NEW s \in CaptureState, NEW t, NEW n \in Nat, IdsKnown(s, n), t.activeJobId = 0,
         t.posts = Outdated(s.posts) \/ t.posts = s.posts, t.reads = Outdated(s.reads) \/ t.reads = s.reads
  PROVE  IdsKnown(t, n)
<1>0. s.posts \in PostSets /\ s.reads \in ReadSets
  BY DEF CaptureState
<1>1. /\ IsFiniteSet(t.posts) /\ \A p \in t.posts : p.id <= n
      /\ \A p, q \in t.posts : p.kind = "retry" /\ q.kind = "retry" => p = q
  <2>1. CASE t.posts = s.posts
    BY <2>1 DEF IdsKnown
  <2>2. CASE t.posts = Outdated(s.posts)
    <3>1. /\ \A p \in t.posts : \E q \in s.posts : p = [q EXCEPT !.latest = FALSE] /\ p.kind = q.kind /\ p.id = q.id
          /\ IsFiniteSet(t.posts)
      BY <1>0, <2>2, OutdatedOf DEF IdsKnown
    <3> QED
      BY <3>1, ZenonT(60) DEF IdsKnown
  <2> QED
    BY <2>1, <2>2
<1>2. \A r \in t.reads : r.id \in 1 .. n
  BY <1>0, OutdatedOf DEF IdsKnown
<1> QED
  BY <1>1, <1>2 DEF IdsKnown

\* What the run works on is dropped, and nothing under way is of it any more.
Untokened(P) == {[p EXCEPT !.token = FALSE] : p \in P}

LEMMA UntokenedOf ==
  ASSUME NEW P \in PostSets
  PROVE  /\ Untokened(P) \in PostSets /\ (P = {} => Untokened(P) = {})
         /\ \A p \in Untokened(P) : \E q \in P : p = [q EXCEPT !.token = FALSE] /\ p.kind = q.kind /\ p.id = q.id
         /\ IsFiniteSet(P) => IsFiniteSet(Untokened(P))
<1>1. \A p \in JobPost : /\ [p EXCEPT !.token = FALSE] \in JobPost
                         /\ [p EXCEPT !.token = FALSE].kind = p.kind /\ [p EXCEPT !.token = FALSE].id = p.id
  BY DEF JobPost
<1>2. P \subseteq JobPost
  BY DEF PostSets
<1>3. /\ \A p \in Untokened(P) : \E q \in P : p = [q EXCEPT !.token = FALSE]
      /\ P = {} => Untokened(P) = {}
  BY DEF Untokened
<1>4. Untokened(P) \in PostSets
  BY <1>1, <1>2, <1>3 DEF PostSets
<1>5. ASSUME IsFiniteSet(P) PROVE IsFiniteSet(Untokened(P))
  <2> DEFINE f == [p \in P |-> [p EXCEPT !.token = FALSE]]
  <2>1. Untokened(P) = {f[p] : p \in P}
    BY DEF Untokened
  <2> HIDE DEF f
  <2> QED
    BY <1>5, <2>1, FiniteImage
<1>6. \A p \in Untokened(P) : \E q \in P : p = [q EXCEPT !.token = FALSE] /\ p.kind = q.kind /\ p.id = q.id
  BY <1>1, <1>2, <1>3, Zenon
<1> QED
  BY <1>3, <1>4, <1>5, <1>6

LEMMA StopPageTyped ==
  ASSUME NEW pg \in CapturePage
  PROVE  StopPage(pg) \in CapturePage /\ StopPage(pg).status \in {"completed", "cancelled"}
<1>1. [pg EXCEPT !.status = "completed", !.ai = "idle", !.code = "none"] \in CapturePage
  BY DEF CapturePage, TerminalStatuses
<1>2. [pg EXCEPT !.status = "cancelled", !.code = "none"] \in CapturePage
  BY DEF CapturePage, TerminalStatuses
<1>3. StopPage(pg) \in CapturePage
  BY <1>1, <1>2 DEF StopPage
<1>4. StopPage(pg).status \in {"completed", "cancelled"}
  BY DEF StopPage, CapturePage
<1> QED
  BY <1>3, <1>4

\* The work of the run is dropped, before any page is marked.
Dropped(s) ==
  [s EXCEPT !.queue = <<>>, !.tasks = <<>>, !.ghosts = LeastOf(2, s.ghosts + Len(s.tasks)), !.finalizing = FALSE,
            !.assembly = <<>>, !.posts = Untokened(s.posts)]

LEMMA DroppedOf ==
  ASSUME NEW s \in CaptureState, NEW t, t = Dropped(s)
  PROVE  /\ t \in CaptureState /\ SameMode(s, t) /\ SameCaptures(s, t) /\ SameDrafts(s, t)
         /\ t.page = s.page /\ t.processing = s.processing /\ t.confirm = s.confirm
         /\ t.queue = <<>> /\ t.tasks = <<>> /\ t.finalizing = FALSE /\ t.assembly = <<>>
         /\ t.activeJobId = s.activeJobId /\ t.reads = s.reads /\ t.posts = Untokened(s.posts)
         /\ (s.tasks # <<>> \/ s.ghosts > 0) => t.ghosts > 0
<1> DEFINE g  == LeastOf(2, s.ghosts + Len(s.tasks))
           ps == Untokened(s.posts)
           none == <<>>
<1>1. s.ghosts \in Nat /\ Len(s.tasks) \in Nat /\ s.posts \in PostSets /\ (s.tasks # <<>> => Len(s.tasks) > 0)
  BY DEF CaptureState, TaskSeqs
<1>2. g \in Nat /\ (s.tasks # <<>> \/ s.ghosts > 0 => g > 0)
  BY <1>1 DEF LeastOf
<1>3. ps \in PostSets
  BY <1>1, UntokenedOf
<1>4. none \in EntrySeqs /\ none \in TaskSeqs /\ none \in SeqsOfSeqs
  BY DEF EntrySeqs, TaskSeqs, SeqsOfSeqs
<1>5. t = [s EXCEPT !.queue = none, !.tasks = none, !.ghosts = g, !.finalizing = FALSE, !.assembly = none, !.posts = ps]
  BY Zenon DEF Dropped
<1> HIDE DEF g, ps, none
<1>6. t \in CaptureState
  BY <1>2, <1>3, <1>4, <1>5, ZenonT(60) DEF CaptureState
<1>7. /\ SameMode(s, t) /\ SameCaptures(s, t) /\ SameDrafts(s, t)
      /\ t.page = s.page /\ t.processing = s.processing /\ t.confirm = s.confirm
      /\ t.queue = none /\ t.tasks = none /\ t.finalizing = FALSE /\ t.assembly = none
      /\ t.activeJobId = s.activeJobId /\ t.reads = s.reads /\ t.posts = ps /\ t.ghosts = g
  BY <1>5 DEF CaptureState, SameMode, SameCaptures, SameDrafts
<1> QED
  BY <1>2, <1>6, <1>7 DEF none, ps

LEMMA AbortIs ==
  ASSUME NEW s \in CaptureState
  PROVE  /\ AbortPageWork(s, FALSE) = Dropped(s)
         /\ AbortPageWork(s, TRUE) = Pages(Dropped(s), {c \in Captures : Under(s, c) \in QueuedStatuses \cup ActiveStatuses},
                                           LAMBDA c, pg : StopPage(pg))
BY Zenon DEF AbortPageWork, Dropped, Untokened

LEMMA UntokenedIdsFit ==
  ASSUME NEW s \in CaptureState, NEW t, NEW n \in Nat, IdsKnown(s, n), t.activeJobId = s.activeJobId,
         t.posts = Untokened(s.posts), t.reads = s.reads
  PROVE  IdsKnown(t, n)
<1>0. s.posts \in PostSets
  BY DEF CaptureState
<1>1. /\ IsFiniteSet(t.posts)
      /\ \A p \in t.posts : \E q \in s.posts : p = [q EXCEPT !.token = FALSE] /\ p.kind = q.kind /\ p.id = q.id
  BY <1>0, UntokenedOf DEF IdsKnown
<1>2. \A p \in t.posts : p.id <= n
  BY <1>1 DEF IdsKnown
<1>3. ASSUME NEW p \in t.posts, NEW q \in t.posts, p.kind = "retry", q.kind = "retry" PROVE p = q
  <2>1. PICK x \in s.posts : p = [x EXCEPT !.token = FALSE] /\ p.kind = x.kind
    BY <1>1
  <2>2. PICK y \in s.posts : q = [y EXCEPT !.token = FALSE] /\ q.kind = y.kind
    BY <1>1
  <2>3. x = y
    BY <1>3, <2>1, <2>2 DEF IdsKnown
  <2> QED
    BY <2>1, <2>2, <2>3
<1> QED
  BY <1>1, <1>2, <1>3, Zenon DEF IdsKnown

LEMMA DroppedDraftsFit ==
  ASSUME NEW s, NEW t, DraftsFit(s), SameCaptures(s, t), SameMode(s, t), SameDrafts(s, t), t.confirm = s.confirm,
         t.assembly = <<>>, t.posts = {}, t.reads = {}, t.activeJobId = 0
  PROVE  DraftsFit(t)
BY DEF DraftsFit, SameCaptures, SameMode, SameDrafts, Heads, LiveHeads

LEMMA SomeStoppedOf ==
  ASSUME NEW s \in CaptureState, NEW d \in CaptureState, d.page = s.page, NEW t,
         t = Pages(d, {c \in Captures : Under(s, c) \in QueuedStatuses \cup ActiveStatuses}, LAMBDA c, pg : StopPage(pg))
  PROVE  t \in CaptureState /\ AllSame(d, t) /\ PagesHold(s, t)
<1> DEFINE keys == {c \in Captures : Under(s, c) \in QueuedStatuses \cup ActiveStatuses}
           p    == [c \in Captures |-> IF c \in keys /\ IsCapture(d, c) THEN StopPage(d.page[c]) ELSE d.page[c]]
<1>1. t = [d EXCEPT !.page = p]
  BY Zenon DEF Pages
<1>2. s.page \in [Captures -> CapturePage]
  BY DEF CaptureState, PageMaps
<1>3. p \in PageMaps
  BY <1>2, StopPageTyped DEF PageMaps
<1>4. \A c \in Captures : p[c] = s.page[c] \/ c \in keys
  OBVIOUS
<1>5. \A c \in keys : Under(s, c) \notin {"cancelled", "manual"}
  BY DEF QueuedStatuses, ActiveStatuses
<1> HIDE DEF p, keys
<1>6. t \in CaptureState
  BY <1>1, <1>3, ZenonT(60) DEF CaptureState
<1>7. AllSame(d, t) /\ t.page = p
  BY <1>1 DEF CaptureState, AllSame, SameJob, SameMode, SameCaptures, SameWork, SameDrafts, SameAssembly
<1> QED
  BY <1>4, <1>5, <1>6, <1>7 DEF PagesHold

\* Everything of the run is cancelled.
LEMMA CancelledRun ==
  ASSUME NEW s, RunFits(s), NEW n \in Nat, IdsKnown(s, n), NEW t, t = CancelReceiptExtraction(s)
  PROVE  RunFits(t) /\ IdsKnown(t, n) /\ t.aiConfigured = s.aiConfigured /\ PagesHold(s, t)
<1> DEFINE b == ClearReceiptExtractionJob(s, TRUE)
           d == Dropped(b)
           e == Pages(d, {c \in Captures : Under(b, c) \in QueuedStatuses \cup ActiveStatuses}, LAMBDA c, pg : StopPage(pg))
<1>0. s \in CaptureState /\ CapturesFit(s) /\ (~s.aiConfigured => DraftsFit(s))
  BY DEF RunFits, PumpReady
<1>1. /\ b \in CaptureState /\ SameMode(s, b) /\ SameCaptures(s, b) /\ SameWork(s, b) /\ SameDrafts(s, b) /\ SameAssembly(s, b)
      /\ b.page = s.page /\ b.activeJobId = 0 /\ b.posts = Outdated(s.posts) /\ b.reads = Outdated(s.reads)
  BY <1>0, ClearedJobOf
<1>2. t = [e EXCEPT !.processing = FALSE, !.finalizing = FALSE, !.visible = FALSE]
  BY <1>1, AbortIs, Zenon DEF CancelReceiptExtraction
<1> HIDE DEF b
<1>3. /\ d \in CaptureState /\ SameMode(b, d) /\ SameCaptures(b, d) /\ SameDrafts(b, d)
      /\ d.page = b.page /\ d.confirm = b.confirm
      /\ d.queue = <<>> /\ d.tasks = <<>> /\ d.finalizing = FALSE /\ d.assembly = <<>>
      /\ d.activeJobId = b.activeJobId /\ d.reads = b.reads /\ d.posts = Untokened(b.posts)
  BY <1>1, DroppedOf
<1> HIDE DEF d
<1>4. e \in CaptureState /\ AllSame(d, e) /\ PagesHold(b, e)
  BY <1>1, <1>3, SomeStoppedOf
<1> HIDE DEF e
<1>5. t \in CaptureState
  BY <1>2, <1>4, ZenonT(60) DEF CaptureState
<1>6. /\ SameJob(e, t) /\ SameMode(e, t) /\ SameCaptures(e, t) /\ SameWork(e, t) /\ SameDrafts(e, t)
      /\ t.assembly = e.assembly /\ t.confirm = e.confirm /\ t.finalizing = FALSE /\ t.processing = FALSE /\ t.page = e.page
  BY <1>2, <1>4 DEF CaptureState, SameJob, SameMode, SameCaptures, SameWork, SameDrafts
<1>7. /\ SameMode(s, t) /\ SameCaptures(s, t) /\ SameDrafts(s, t) /\ t.confirm = s.confirm /\ t.assembly = <<>>
      /\ t.queue = <<>> /\ t.tasks = <<>> /\ t.activeJobId = 0 /\ t.posts = Untokened(Outdated(s.posts)) /\ t.reads = Outdated(s.reads)
  BY <1>1, <1>3, <1>4, <1>6 DEF AllSame, SameJob, SameMode, SameCaptures, SameWork, SameDrafts, SameAssembly
<1>8. IdsKnown(t, n)
  <2>1. IdsKnown(b, n)
    BY <1>0, <1>1, ClearedIdsFit
  <2>2. t.posts = Untokened(b.posts) /\ t.reads = b.reads /\ t.activeJobId = b.activeJobId
    BY <1>1, <1>7
  <2> QED
    BY <1>1, <2>1, <2>2, UntokenedIdsFit
<1>9. ~t.aiConfigured => DraftsFit(t)
  <2> SUFFICES ASSUME ~t.aiConfigured PROVE DraftsFit(t)
    OBVIOUS
  <2>1. DraftsFit(s) /\ s.posts \in PostSets /\ s.reads \in ReadSets
    BY <1>0, <1>7 DEF SameMode, CaptureState
  <2>2. Outdated(s.posts) = {} /\ Outdated(s.reads) = {}
    BY <2>1, OutdatedOf DEF DraftsFit
  <2>3. t.posts = {} /\ t.reads = {}
    BY <1>7, <2>2 DEF Untokened
  <2> QED
    BY <1>7, <2>1, <2>3, DroppedDraftsFit
<1>10. RunFits(t)
  <2>1. IsInjective(t.captures) /\ ToSet(t.captures) \subseteq t.stored
        /\ \A u \in t.uploads : IsInjective(u.added) /\ ToSet(u.added) \subseteq t.stored
    BY <1>0, <1>7 DEF CapturesFit, SameCaptures
  <2>2. WorkGoesOn(t)
    BY <1>6 DEF WorkGoesOn
  <2> QED
    BY <1>5, <1>6, <1>7, <1>9, <2>1, <2>2, ClearedRun
<1>11. PagesHold(s, t)
  BY <1>1, <1>4, <1>6 DEF PagesHold, Under
<1> QED
  BY <1>7, <1>8, <1>10, <1>11 DEF SameMode

LEMMA ActiveJobCapturesOf ==
  ASSUME NEW s \in CaptureState
  PROVE  ActiveJobCaptures(s) \in CaptureSeqs
<1>1. s.jobKeys \in Seq(Captures) /\ s.captures \in Seq(Captures)
  BY DEF CaptureState, CaptureSeqs
<1> QED
  BY <1>1, ThoseOf DEF ActiveJobCaptures, CaptureSeqs

\* A read of the job that is followed.
LEMMA RefreshedRun ==
  ASSUME NEW s, RunFits(s), NEW n \in Nat, IdsKnown(s, n), NEW latest \in BOOLEAN, NEW t, t = Refresh(s, latest)
  PROVE  RunFits(t) /\ IdsKnown(t, n) /\ t.aiConfigured = s.aiConfigured /\ t.page = s.page
         /\ t.posts = s.posts /\ s.reads \subseteq t.reads
<1> DEFINE scope == IF latest THEN <<>> ELSE s.pendingScope
           r     == [id |-> s.activeJobId, caps |-> ActiveJobCaptures(s), st |-> "none", latest |-> latest]
           rs    == s.reads \cup {r}
<1>0. s \in CaptureState /\ s.reads \in ReadSets /\ s.activeJobId \in Nat /\ s.pendingScope \in CaptureSeqs
      /\ (~s.aiConfigured => s.activeJobId = 0)
  BY DEF RunFits, PumpReady, CaptureState, DraftsFit
<1>1. scope \in CaptureSeqs
  BY <1>0 DEF CaptureSeqs
<1>2. r \in ReadOfJob /\ r.id = s.activeJobId
  BY <1>0, ActiveJobCapturesOf DEF ReadOfJob
<1>3. rs \in ReadSets
  BY <1>0, <1>2 DEF ReadSets
<1>4. CASE t = [s EXCEPT !.pendingScope = scope]
  <2> HIDE DEF scope
  <2>1. t \in CaptureState
    BY <1>0, <1>1, <1>4, ZenonT(60) DEF CaptureState
  <2>2. AllSame(s, t) /\ t.page = s.page /\ t.processing = s.processing
    BY <1>0, <1>4 DEF CaptureState, AllSame, SameJob, SameMode, SameCaptures, SameWork, SameDrafts, SameAssembly
  <2>3. RunFits(t)
    BY <2>1, <2>2, SameRunFits
  <2>4. IdsKnown(t, n)
    BY <2>2, SameIdsFit DEF AllSame
  <2> QED
    BY <2>2, <2>3, <2>4 DEF AllSame, SameMode, SameJob
<1>5. CASE s.activeJobId # 0 /\ t = [s EXCEPT !.reads = rs]
  <2>0. r.id \in 1 .. n
    BY <1>0, <1>2, <1>5 DEF IdsKnown
  <2> HIDE DEF rs, r
  <2>1. t \in CaptureState
    BY <1>0, <1>3, <1>5, ZenonT(60) DEF CaptureState
  <2>2. /\ SameMode(s, t) /\ SameCaptures(s, t) /\ SameWork(s, t) /\ SameDrafts(s, t) /\ SameAssembly(s, t)
        /\ t.page = s.page /\ t.processing = s.processing /\ t.posts = s.posts /\ t.activeJobId = s.activeJobId /\ t.reads = rs
    BY <1>0, <1>5 DEF CaptureState, SameMode, SameCaptures, SameWork, SameDrafts, SameAssembly
  <2>3. s.aiConfigured = TRUE /\ t.aiConfigured = TRUE
    BY <1>0, <1>5, <2>2 DEF SameMode, CaptureState
  <2>4. RunFits(t)
    <3>1. PagesMove(s, t)
      BY <2>2 DEF PagesMove
    <3>2. t.finalizing => t.assembly # <<>>
      BY <2>2 DEF RunFits, PumpReady, WorkFits, SameAssembly
    <3> QED
      BY <2>1, <2>2, <2>3, <3>1, <3>2, MovedRun DEF SameWork
  <2>5. IdsKnown(t, n)
    BY <2>0, <2>2 DEF IdsKnown, rs
  <2> QED
    BY <2>2, <2>4, <2>5 DEF SameMode, rs
<1> QED
  BY <1>4, <1>5 DEF Refresh, MayRefresh

LEMMA FollowedOf ==
  ASSUME NEW s \in CaptureState, NEW id \in Nat, NEW keys \in CaptureSeqs, NEW t, t = FollowJob(s, id, keys)
  PROVE  /\ t \in CaptureState /\ SameMode(s, t) /\ SameCaptures(s, t) /\ SameWork(s, t) /\ SameDrafts(s, t) /\ SameAssembly(s, t)
         /\ t.page = s.page /\ t.posts = s.posts /\ t.reads = s.reads /\ t.activeJobId = id
<1>1. t = [s EXCEPT !.activeJobId = id, !.jobKeys = keys, !.failed = FALSE]
  BY DEF FollowJob
<1>2. t \in CaptureState
  BY <1>1, ZenonT(60) DEF CaptureState
<1>3. /\ SameMode(s, t) /\ SameCaptures(s, t) /\ SameWork(s, t) /\ SameDrafts(s, t) /\ SameAssembly(s, t)
      /\ t.page = s.page /\ t.posts = s.posts /\ t.reads = s.reads /\ t.activeJobId = id
  BY <1>1 DEF CaptureState, SameMode, SameCaptures, SameWork, SameDrafts, SameAssembly
<1> QED
  BY <1>2, <1>3

\* The job of a receipt has read all of it.
LEMMA CompletedRun ==
  ASSUME NEW s, RunFits(s), s.aiConfigured = TRUE, NEW n \in Nat, IdsKnown(s, n), NEW caps \in CaptureSeqs,
         NEW t, t = CompleteBackgroundJob(s, caps)
  PROVE  RunFits(t) /\ IdsKnown(t, n) /\ t.aiConfigured = TRUE /\ t.reads = s.reads
<1> DEFINE done == [status |-> "completed", text |-> "result", ai |-> "completed", code |-> "none"]
           p    == [c \in Captures |-> IF c \in ToSet(caps) /\ IsCapture(s, c) THEN done ELSE s.page[c]]
           b    == [s EXCEPT !.page = p]
           ds   == IF caps = <<>> THEN <<>> ELSE <<caps>>
           dr   == IF caps = <<>> THEN "none" ELSE Head(caps)
           e    == [b EXCEPT !.drafts = ds, !.draft = dr, !.processing = FALSE, !.finalizing = FALSE, !.visible = FALSE]
<1>0. s \in CaptureState
  BY DEF RunFits, PumpReady
<1>1. t = ClearReceiptExtractionJob(e, FALSE)
  BY Zenon DEF CompleteBackgroundJob, Pages
<1>2. s.page \in [Captures -> CapturePage]
  BY <1>0 DEF CaptureState, PageMaps
<1>3. done \in CapturePage /\ done.status = "completed"
  BY DEF CapturePage, TerminalStatuses
<1> HIDE DEF done
<1>4. p \in PageMaps /\ \A c \in Captures : p[c] = s.page[c] \/ p[c].status = "completed"
  BY <1>2, <1>3 DEF PageMaps
<1>5. ds \in DraftSeqs /\ dr \in DraftNames
  <2>1. caps # <<>> => caps \in CaptureSeqs \ {<<>>} /\ Head(caps) \in Captures
    BY DEF CaptureSeqs
  <2>2. \A x \in CaptureSeqs \ {<<>>} : <<x>> \in DraftSeqs
    BY DEF DraftSeqs
  <2>3. <<>> \in DraftSeqs
    BY DEF DraftSeqs
  <2> QED
    BY <2>1, <2>2, <2>3 DEF DraftNames
<1> HIDE DEF p, ds, dr
<1>6. b \in CaptureState
  BY <1>0, <1>4, ZenonT(60) DEF CaptureState
<1>7. AllSame(s, b) /\ b.page = p
  BY <1>0 DEF CaptureState, AllSame, SameJob, SameMode, SameCaptures, SameWork, SameDrafts, SameAssembly
<1> HIDE DEF b
<1>8. e \in CaptureState
  BY <1>5, <1>6, ZenonT(60) DEF CaptureState
<1>9. SameJob(b, e) /\ SameMode(b, e) /\ SameCaptures(b, e) /\ SameWork(b, e) /\ e.page = b.page /\ e.finalizing = FALSE
  BY <1>6 DEF CaptureState, SameJob, SameMode, SameCaptures, SameWork
<1> HIDE DEF e
<1>10. /\ t \in CaptureState /\ SameMode(e, t) /\ SameCaptures(e, t) /\ SameWork(e, t) /\ SameAssembly(e, t)
       /\ t.page = e.page /\ t.activeJobId = 0 /\ t.posts = e.posts /\ t.reads = e.reads
  BY <1>1, <1>8, ClearedJobOf
<1>11. /\ SameMode(s, t) /\ SameCaptures(s, t) /\ SameWork(s, t) /\ t.page = p /\ t.finalizing = FALSE
       /\ t.posts = s.posts /\ t.reads = s.reads
  BY <1>7, <1>9, <1>10 DEF AllSame, SameJob, SameMode, SameCaptures, SameWork, SameAssembly
<1>12. PagesMove(s, t)
  BY <1>4, <1>11 DEF PagesMove
<1>13. RunFits(t)
  BY <1>10, <1>11, <1>12, MovedRun DEF SameMode, SameWork
<1>14. IdsKnown(t, n)
  BY <1>0, <1>10, <1>11, ClearedIdsFit
<1> QED
  BY <1>11, <1>13, <1>14 DEF SameMode

LEMMA MovedIds ==
  ASSUME NEW s, NEW t, NEW n, IdsKnown(s, n), t.activeJobId = s.activeJobId, t.posts \subseteq s.posts, t.reads \subseteq s.reads
  PROVE  IdsKnown(t, n)
BY FS_Subset DEF IdsKnown

LEMMA ClearedReviewOf ==
  ASSUME NEW s \in CaptureState, NEW t, t = ClearCombinedReview(s)
  PROVE  /\ t \in CaptureState /\ SameJob(s, t) /\ SameMode(s, t) /\ SameCaptures(s, t) /\ SameWork(s, t)
         /\ t.page = s.page /\ t.processing = s.processing /\ t.confirm = s.confirm
         /\ t.finalizing = FALSE /\ t.assembly = <<>> /\ t.drafts = <<>> /\ t.draft = "none"
<1> DEFINE none == <<>>
           no   == "none"
<1>1. none \in SeqsOfSeqs /\ none \in CaptureSeqs /\ none \in DraftSeqs /\ no \in DraftNames
  BY DEF SeqsOfSeqs, CaptureSeqs, DraftSeqs, DraftNames
<1>2. t = [s EXCEPT !.finalizing = FALSE, !.assembly = none, !.extraction = none, !.drafts = none, !.draft = no]
  BY Zenon DEF ClearCombinedReview
<1> HIDE DEF none, no
<1>3. t \in CaptureState
  BY <1>1, <1>2, ZenonT(60) DEF CaptureState
<1>4. /\ SameJob(s, t) /\ SameMode(s, t) /\ SameCaptures(s, t) /\ SameWork(s, t)
      /\ t.page = s.page /\ t.processing = s.processing /\ t.confirm = s.confirm
      /\ t.finalizing = FALSE /\ t.assembly = none /\ t.drafts = none /\ t.draft = no
  BY <1>2 DEF CaptureState, SameJob, SameMode, SameCaptures, SameWork
<1> QED
  BY <1>3, <1>4 DEF none, no

\* Some of the pages are new again.
LEMMA RenewedOf ==
  ASSUME NEW s \in CaptureState, NEW keys, NEW t, t = Pages(s, keys, LAMBDA c, pg : NewPage)
  PROVE  t \in CaptureState /\ AllSame(s, t) /\ t.processing = s.processing /\ ChangedPages(s, keys, t.page)
         /\ \A c \in Captures : t.page[c] = s.page[c] \/ t.page[c] = NewPage
<1> DEFINE p == [c \in Captures |-> IF c \in keys /\ IsCapture(s, c) THEN NewPage ELSE s.page[c]]
<1>1. t = [s EXCEPT !.page = p]
  BY Zenon DEF Pages
<1>2. s.page \in [Captures -> CapturePage]
  BY DEF CaptureState, PageMaps
<1>3. NewPage \in CapturePage
  BY DEF NewPage, CapturePage
<1>4. p \in PageMaps
  BY <1>2, <1>3 DEF PageMaps
<1>5. \A c \in Captures : p[c] = s.page[c] \/ (p[c] = NewPage /\ c \in keys)
  OBVIOUS
<1> HIDE DEF p
<1>6. t \in CaptureState
  BY <1>1, <1>4, ZenonT(60) DEF CaptureState
<1>7. AllSame(s, t) /\ t.page = p /\ t.processing = s.processing
  BY <1>1 DEF CaptureState, AllSame, SameJob, SameMode, SameCaptures, SameWork, SameDrafts, SameAssembly
<1> QED
  BY <1>5, <1>6, <1>7 DEF ChangedPages

LEMMA ResetRun ==
  ASSUME NEW s \in CaptureState, CapturesFit(s), s.aiConfigured = TRUE, NEW n \in Nat, IdsKnown(s, n), NEW t, t = ResetAll(s)
  PROVE  RunFits(t) /\ IdsKnown(t, n) /\ t.aiConfigured = TRUE /\ t.captures = s.captures /\ t.stored = s.stored
<1> DEFINE d == Dropped(s)
           e == Pages(d, Captures, LAMBDA c, pg : NewPage)
<1>1. t = ClearCombinedReview(e)
  BY AbortIs, Zenon DEF ResetAll
<1>2. /\ d \in CaptureState /\ SameMode(s, d) /\ SameCaptures(s, d) /\ d.queue = <<>> /\ d.tasks = <<>>
      /\ d.activeJobId = s.activeJobId /\ d.reads = s.reads /\ d.posts = Untokened(s.posts)
  BY DroppedOf
<1> HIDE DEF d
<1>3. e \in CaptureState /\ AllSame(d, e)
  BY <1>2, RenewedOf
<1> HIDE DEF e
<1>4. /\ t \in CaptureState /\ SameJob(e, t) /\ SameMode(e, t) /\ SameCaptures(e, t) /\ SameWork(e, t) /\ t.finalizing = FALSE
  BY <1>1, <1>3, ClearedReviewOf
<1>5. /\ SameMode(s, t) /\ SameCaptures(s, t) /\ t.queue = <<>> /\ t.tasks = <<>>
      /\ t.activeJobId = s.activeJobId /\ t.reads = s.reads /\ t.posts = Untokened(s.posts)
  BY <1>2, <1>3, <1>4 DEF AllSame, SameJob, SameMode, SameCaptures, SameWork
<1>6. IdsKnown(t, n)
  BY <1>5, UntokenedIdsFit
<1>7. t.aiConfigured = TRUE /\ t.captures = s.captures /\ t.stored = s.stored /\ t.uploads = s.uploads
  BY <1>5 DEF SameMode, SameCaptures
<1>8. RunFits(t)
  BY <1>4, <1>5, <1>7, ClearedRun DEF CapturesFit
<1> QED
  BY <1>6, <1>7, <1>8

\* A job is asked for.
LEMMA DurableRun ==
  ASSUME NEW s, RunFits(s), s.aiConfigured = TRUE, NEW n \in Nat, IdsKnown(s, n), NEW caps \in CaptureSeqs,
         NEW t, t = StartDurable(s, caps)
  PROVE  /\ RunFits(t) /\ IdsKnown(t, n) /\ t.aiConfigured = TRUE /\ PagesHold(s, t) /\ ChangedPages(s, ToSet(caps), t.page)
<1>0. s \in CaptureState /\ s.posts \in PostSets /\ s.reads \in ReadSets
  BY DEF RunFits, PumpReady, CaptureState
<1>1. CASE t = s
  BY <1>1 DEF PagesHold, ChangedPages
<1>2. CASE s.pendingScope # caps
  <2> DEFINE b  == SetPagesForBackgroundJob(s, "submitting", caps)
             p  == [kind |-> "start", caps |-> caps, token |-> TRUE, latest |-> TRUE, id |-> 0]
             ps == Outdated(b.posts) \cup {p}
             rs == Outdated(b.reads)
  <2>1. b \in CaptureState /\ AllSame(s, b) /\ PagesMove(s, b) /\ PagesHold(s, b) /\ ChangedPages(s, ToSet(caps), b.page)
    BY <1>0, SetPagesOf
  <2>2. t = [b EXCEPT !.verifyWithAi = TRUE, !.processing = TRUE, !.visible = TRUE, !.pendingScope = caps,
                      !.reads = rs, !.posts = ps]
    BY <1>2, Zenon DEF StartDurable
  <2> HIDE DEF b
  <2>3. b.posts = s.posts /\ b.reads = s.reads
    BY <2>1 DEF AllSame, SameJob
  <2>4. p \in JobPost /\ p.kind = "start" /\ p.id = 0
    BY DEF JobPost
  <2> HIDE DEF p
  <2>5. ps \in PostSets /\ rs \in ReadSets
    <3>1. Outdated(s.posts) \in PostSets /\ Outdated(s.reads) \in ReadSets
      BY <1>0, OutdatedOf
    <3> QED
      BY <2>3, <2>4, <3>1 DEF PostSets
  <2>6. /\ IsFiniteSet(ps) /\ \A q \in ps : q.id <= n
        /\ \A x, y \in ps : x.kind = "retry" /\ y.kind = "retry" => x = y
        /\ \A r \in rs : r.id \in 1 .. n
    <3>1. /\ \A x \in Outdated(s.posts) : \E q \in s.posts : x = [q EXCEPT !.latest = FALSE] /\ x.kind = q.kind /\ x.id = q.id
          /\ \A r \in Outdated(s.reads) : \E q \in s.reads : r.id = q.id
          /\ IsFiniteSet(Outdated(s.posts))
      BY <1>0, OutdatedOf DEF IdsKnown
    <3>2. IsFiniteSet(ps)
      BY <2>3, <3>1, FS_AddElement
    <3>3. \A x \in Outdated(s.posts) : x.id <= n
      BY <3>1 DEF IdsKnown
    <3>4. ASSUME NEW x \in Outdated(s.posts), NEW y \in Outdated(s.posts), x.kind = "retry", y.kind = "retry" PROVE x = y
      <4>1. PICK a \in s.posts : x = [a EXCEPT !.latest = FALSE] /\ x.kind = a.kind
        BY <3>1
      <4>2. PICK e \in s.posts : y = [e EXCEPT !.latest = FALSE] /\ y.kind = e.kind
        BY <3>1
      <4>3. a = e
        BY <3>4, <4>1, <4>2 DEF IdsKnown
      <4> QED
        BY <4>1, <4>2, <4>3
    <3>5. \A r \in rs : r.id \in 1 .. n
      BY <2>3, <3>1 DEF IdsKnown
    <3> QED
      BY <2>3, <2>4, <3>2, <3>3, <3>4, <3>5
  <2> HIDE DEF ps, rs
  <2>7. t \in CaptureState
    BY <2>1, <2>2, <2>5, ZenonT(60) DEF CaptureState
  <2>8. /\ SameCaptures(b, t) /\ SameWork(b, t) /\ SameDrafts(b, t) /\ SameAssembly(b, t) /\ t.aiConfigured = b.aiConfigured
        /\ t.page = b.page /\ t.activeJobId = b.activeJobId /\ t.posts = ps /\ t.reads = rs
    BY <2>1, <2>2 DEF CaptureState, SameCaptures, SameWork, SameDrafts, SameAssembly
  <2>9. /\ SameCaptures(s, t) /\ SameWork(s, t) /\ t.aiConfigured = TRUE /\ t.activeJobId = s.activeJobId
        /\ t.finalizing = s.finalizing /\ t.assembly = s.assembly
    BY <2>1, <2>8 DEF AllSame, SameJob, SameMode, SameCaptures, SameWork, SameAssembly
  <2>10. PagesMove(s, t) /\ PagesHold(s, t) /\ ChangedPages(s, ToSet(caps), t.page)
    BY <2>1, <2>8 DEF PagesMove, PagesHold, ChangedPages
  <2>11. RunFits(t)
    <3>1. t.finalizing => t.assembly # <<>>
      BY <2>9 DEF RunFits, PumpReady, WorkFits
    <3> QED
      BY <2>7, <2>9, <2>10, <3>1, MovedRun DEF SameWork
  <2>12. IdsKnown(t, n)
    BY <2>6, <2>8, <2>9 DEF IdsKnown
  <2> QED
    BY <2>9, <2>10, <2>11, <2>12
<1> QED
  BY <1>1, <1>2 DEF StartDurable

--------------------------------------------------------------------------------
(* What enters and leaves the queue.                                       *)

\* Pages enter the queue that are new, and in it for no other reason.
Entered(s, t, keys) ==
  /\ t.queue \in EntrySeqs /\ Len(t.queue) \in Nat /\ Len(t.queue) >= Len(s.queue)
  /\ \A i \in 1 .. Len(s.queue) : t.queue[i] = s.queue[i]
  /\ \A i \in Len(s.queue) + 1 .. Len(t.queue) : t.queue[i].key \in keys
  /\ \A i, j \in Len(s.queue) + 1 .. Len(t.queue) : t.queue[i].key = t.queue[j].key => i = j
  /\ \A c \in Captures : IF c \in keys THEN t.page[c].status = "pending" ELSE t.page[c] = s.page[c]

LEMMA EnteredFits ==
  ASSUME NEW s \in CaptureState, CapturesFit(s), WorkFits(s), NEW keys \in SUBSET Captures, keys \subseteq s.stored,
         NEW t, SameCaptures(s, t), SameAssembly(s, t), t.tasks = s.tasks, Entered(s, t, keys),
         \A i \in DOMAIN s.queue : IsCapture(s, s.queue[i].key) => s.queue[i].key \notin keys
  PROVE  CapturesFit(t) /\ WorkFits(t)
<1> DEFINE n == Len(s.queue)
<1>1. n \in Nat /\ DOMAIN s.queue = 1 .. n /\ \A i \in 1 .. n : s.queue[i].key \in Captures
  <2>1. s.queue \in Seq(PageEntry)
    BY DEF CaptureState, EntrySeqs
  <2>2. \A e \in PageEntry : e.key \in Captures
    BY DEF PageEntry
  <2> QED
    BY <2>1, <2>2
<1>2. \A i \in DOMAIN s.tasks : s.tasks[i].key \in Captures
  <2>1. s.tasks \in Seq(PageTask)
    BY DEF CaptureState, TaskSeqs
  <2>2. \A e \in PageTask : e.key \in Captures
    BY DEF PageTask
  <2> QED
    BY <2>1, <2>2
<1>3. DOMAIN t.queue = 1 .. Len(t.queue) /\ Len(t.queue) \in Nat
  BY DEF Entered, EntrySeqs
<1>4. \A i \in DOMAIN t.queue : \/ i \in 1 .. n /\ t.queue[i] = s.queue[i]
                                \/ i \in n + 1 .. Len(t.queue) /\ t.queue[i].key \in keys
  BY <1>1, <1>3 DEF Entered
<1>5. \A c : IsCapture(t, c) <=> IsCapture(s, c)
  BY DEF IsCapture, SameCaptures
<1>6. CapturesFit(t)
  BY <1>1, <1>4 DEF CapturesFit, SameCaptures
<1>7. ASSUME NEW i \in DOMAIN t.queue, NEW j \in DOMAIN t.queue, IsCapture(t, t.queue[i].key), t.queue[i].key = t.queue[j].key
      PROVE  i = j
  <2>1. CASE i \in 1 .. n /\ j \in 1 .. n
    BY <1>1, <1>5, <1>7, <2>1 DEF WorkFits, Entered
  <2>2. CASE i \in n + 1 .. Len(t.queue) /\ j \in n + 1 .. Len(t.queue)
    BY <1>7, <2>2 DEF Entered
  <2>3. CASE i \in 1 .. n /\ j \in n + 1 .. Len(t.queue)
    BY <1>1, <1>5, <1>7, <2>3 DEF Entered
  <2>4. CASE j \in 1 .. n /\ i \in n + 1 .. Len(t.queue)
    BY <1>1, <1>5, <1>7, <2>4 DEF Entered
  <2> QED
    BY <1>4, <2>1, <2>2, <2>3, <2>4
<1>8. ASSUME NEW i \in DOMAIN t.queue, IsCapture(t, t.queue[i].key) PROVE Under(t, t.queue[i].key) # "ready"
  <2>1. CASE i \in 1 .. n
    BY <1>1, <1>5, <1>8, <2>1, SMTT(30) DEF WorkFits, Entered, Under
  <2>2. CASE t.queue[i].key \in keys
    BY <2>2 DEF Entered, Under
  <2> QED
    BY <1>4, <2>1, <2>2
<1>9. ASSUME NEW i \in DOMAIN t.tasks, t.tasks[i].valid PROVE Under(t, t.tasks[i].key) \notin {"cancelled", "manual"}
  BY <1>2, <1>9 DEF WorkFits, Entered, Under
<1>10. WorkFits(t)
  BY <1>7, <1>8, <1>9 DEF WorkFits, SameAssembly
<1> QED
  BY <1>6, <1>10

EntriesOf(keys) == [i \in 1 .. Len(keys) |-> [key |-> keys[i], ai |-> FALSE, mode |-> "full"]]

LEMMA ReadyPumpReady ==
  ASSUME NEW s, PumpReady(s), NEW caps \in CaptureSeqs, IsInjective(caps), ToSet(caps) \subseteq s.stored,
         NEW t, t = EnqueueReady(s, caps)
  PROVE  PumpReady(t) /\ SameJob(s, t) /\ SameMode(s, t) /\ SameCaptures(s, t) /\ PagesHold(s, t)
<1> DEFINE ready == Those(caps, {c \in Captures : Under(s, c) = "ready"})
           p     == [c \in Captures |-> IF c \in ToSet(ready) THEN [s.page[c] EXCEPT !.status = "pending"] ELSE s.page[c]]
           new   == EntriesOf(ready)
           q     == s.queue \o new
<1>0. s \in CaptureState /\ CapturesFit(s) /\ WorkFits(s) /\ (~s.aiConfigured => DraftsFit(s))
  BY DEF PumpReady
<1>1. t = [s EXCEPT !.page = p, !.queue = q]
  BY Zenon DEF EnqueueReady, EntriesOf
<1>2. /\ ready \in Seq(Captures) /\ IsInjective(ready) /\ ToSet(ready) \subseteq ToSet(caps)
      /\ \A c \in ToSet(ready) : Under(s, c) = "ready"
  BY ThoseOf DEF CaptureSeqs
<1> HIDE DEF ready
<1>3. s.page \in [Captures -> CapturePage] /\ s.queue \in Seq(PageEntry)
  BY <1>0 DEF CaptureState, PageMaps, EntrySeqs
<1>4. \A pg \in CapturePage : /\ [pg EXCEPT !.status = "pending"] \in CapturePage
                              /\ [pg EXCEPT !.status = "pending"].status = "pending"
  BY DEF CapturePage, QueuedStatuses
<1>5. p \in PageMaps /\ \A c \in Captures : IF c \in ToSet(ready) THEN p[c].status = "pending" ELSE p[c] = s.page[c]
  BY <1>3, <1>4 DEF PageMaps
<1>6. \A i \in 1 .. Len(ready) : /\ [key |-> ready[i], ai |-> FALSE, mode |-> "full"] \in PageEntry
                                 /\ [key |-> ready[i], ai |-> FALSE, mode |-> "full"].key = ready[i]
  BY <1>2 DEF PageEntry
<1>7. new \in Seq(PageEntry) /\ Len(new) = Len(ready) /\ Len(ready) \in Nat /\ \A i \in 1 .. Len(ready) : new[i].key = ready[i]
  <2>1. new \in [1 .. Len(ready) -> PageEntry] /\ \A i \in 1 .. Len(ready) : new[i].key = ready[i]
    BY <1>6 DEF EntriesOf
  <2>2. Len(ready) \in Nat
    BY <1>2
  <2> QED
    BY <2>1, <2>2
<1> HIDE DEF new
<1>8. /\ q \in Seq(PageEntry) /\ Len(q) = Len(s.queue) + Len(ready)
      /\ \A i \in 1 .. Len(s.queue) : q[i] = s.queue[i]
      /\ \A i \in 1 .. Len(ready) : q[Len(s.queue) + i].key = ready[i]
      /\ \A i \in 1 .. Len(q) : i \in 1 .. Len(s.queue) \/ \E j \in 1 .. Len(ready) : i = Len(s.queue) + j
  <2>1. /\ q \in Seq(PageEntry) /\ Len(q) = Len(s.queue) + Len(new)
        /\ \A i \in 1 .. Len(s.queue) : q[i] = s.queue[i]
        /\ \A i \in 1 .. Len(new) : q[Len(s.queue) + i] = new[i]
        /\ \A i \in 1 .. Len(q) : i \in 1 .. Len(s.queue) \/ \E j \in 1 .. Len(new) : i = Len(s.queue) + j
    <3> DEFINE old == s.queue
    <3>1. old \in Seq(PageEntry) /\ new \in Seq(PageEntry)
      BY <1>3, <1>7
    <3>2. q = old \o new
      OBVIOUS
    <3> HIDE DEF old
    <3>3. /\ old \o new \in Seq(PageEntry) /\ Len(old \o new) = Len(old) + Len(new)
          /\ \A i \in 1 .. Len(old) : (old \o new)[i] = old[i]
          /\ \A i \in 1 .. Len(new) : (old \o new)[Len(old) + i] = new[i]
          /\ \A i \in 1 .. Len(old \o new) : i \in 1 .. Len(old) \/ \E j \in 1 .. Len(new) : i = Len(old) + j
      BY <3>1, ConcatParts
    <3> HIDE DEF q
    <3> QED
      BY <3>2, <3>3 DEF old
  <2> HIDE DEF q
  <2> QED
    BY <1>7, <2>1
<1> HIDE DEF p, q
<1>9. t \in CaptureState
  BY <1>0, <1>1, <1>5, <1>8, ZenonT(60) DEF CaptureState, EntrySeqs
<1>10. /\ SameJob(s, t) /\ SameMode(s, t) /\ SameCaptures(s, t) /\ SameDrafts(s, t) /\ SameAssembly(s, t)
       /\ t.page = p /\ t.queue = q /\ t.tasks = s.tasks
  BY <1>0, <1>1 DEF CaptureState, SameJob, SameMode, SameCaptures, SameDrafts, SameAssembly
<1>11. Entered(s, t, ToSet(ready))
  <2>0. Len(s.queue) \in Nat /\ Len(ready) \in Nat
    BY <1>3, <1>7
  <2>1. \A i \in Len(s.queue) + 1 .. Len(q) : \E j \in 1 .. Len(ready) : i = Len(s.queue) + j /\ q[i].key = ready[j]
    <3>1. \A i \in Len(s.queue) + 1 .. Len(q) : i \in 1 .. Len(q) /\ i \notin 1 .. Len(s.queue)
      BY <1>8, <2>0
    <3> QED
      BY <1>8, <3>1
  <2>2. \A i \in Len(s.queue) + 1 .. Len(q) : q[i].key \in ToSet(ready)
    <3>1. DOMAIN ready = 1 .. Len(ready)
      BY <1>2
    <3>2. \A j \in 1 .. Len(ready) : ready[j] \in ToSet(ready)
      BY <3>1, Zenon DEF ToSet
    <3> QED
      BY <2>1, <3>2
  <2>3. ASSUME NEW i \in Len(s.queue) + 1 .. Len(q), NEW j \in Len(s.queue) + 1 .. Len(q), q[i].key = q[j].key PROVE i = j
    <3>1. PICK x \in 1 .. Len(ready) : i = Len(s.queue) + x /\ q[i].key = ready[x]
      BY <2>1
    <3>2. PICK y \in 1 .. Len(ready) : j = Len(s.queue) + y /\ q[j].key = ready[y]
      BY <2>1
    <3>3. x = y
      BY <1>2, <2>3, <3>1, <3>2 DEF IsInjective
    <3> QED
      BY <3>1, <3>2, <3>3
  <2> QED
    BY <1>5, <1>8, <1>10, <2>0, <2>2, <2>3, SMTT(30) DEF Entered, EntrySeqs
<1>12. CapturesFit(t) /\ WorkFits(t)
  <2>1. ToSet(ready) \in SUBSET Captures /\ ToSet(ready) \subseteq s.stored
    <3>1. ToSet(caps) \subseteq Captures
      BY DEF ToSet, CaptureSeqs
    <3> QED
      BY <1>2, <3>1
  <2>2. \A i \in DOMAIN s.queue : IsCapture(s, s.queue[i].key) => s.queue[i].key \notin ToSet(ready)
    BY <1>0, <1>2 DEF WorkFits
  <2> QED
    BY <1>0, <1>10, <1>11, <2>1, <2>2, EnteredFits
<1>13. ~t.aiConfigured => DraftsFit(t)
  BY <1>0, <1>10, SameDraftsFit DEF SameMode
<1>14. PagesHold(s, t)
  BY <1>2, <1>5, <1>10 DEF PagesHold
<1> QED
  BY <1>9, <1>10, <1>12, <1>13, <1>14 DEF PumpReady

\* The pages that can be read are.
LEMMA StartedRun ==
  ASSUME NEW s, RunFits(s), NEW n \in Nat, IdsKnown(s, n), NEW caps \in CaptureSeqs, IsInjective(caps), ToSet(caps) \subseteq s.stored,
         NEW t, t = StartAutomaticCaptureProcessing(s, caps)
  PROVE  RunFits(t) /\ IdsKnown(t, n) /\ t.aiConfigured = s.aiConfigured /\ PagesHold(s, t)
<1>0. s \in CaptureState /\ s.aiConfigured \in BOOLEAN
  BY DEF RunFits, PumpReady, CaptureState
<1>1. CASE caps = <<>>
  <2>1. t = s
    BY <1>1, Zenon DEF StartAutomaticCaptureProcessing
  <2> QED
    BY <2>1 DEF PagesHold
<1>2. CASE caps # <<>> /\ s.aiConfigured
  <2>1. t = StartDurable(s, caps)
    BY <1>2, Zenon DEF StartAutomaticCaptureProcessing
  <2> QED
    BY <1>0, <1>2, <2>1, DurableRun
<1>3. CASE caps # <<>> /\ ~s.aiConfigured
  <2> DEFINE a == [s EXCEPT !.verifyWithAi = FALSE, !.processing = TRUE, !.visible = TRUE]
             b == EnqueueReady(a, caps)
  <2>1. t = PumpPageQueue(b)
    BY <1>3, Zenon DEF StartAutomaticCaptureProcessing
  <2>2. a \in CaptureState
    BY <1>0, ZenonT(60) DEF CaptureState
  <2>3. ~s.verifyWithAi /\ s.verifyWithAi \in BOOLEAN
    BY <1>0, <1>3 DEF RunFits, PumpReady, DraftsFit, CaptureState
  <2>4. AllSame(s, a) /\ a.page = s.page
    BY <1>0, <2>3 DEF CaptureState, AllSame, SameJob, SameMode, SameCaptures, SameWork, SameDrafts, SameAssembly
  <2> HIDE DEF a
  <2>5. PumpReady(a)
    BY <2>2, <2>4, SamePumpReady DEF RunFits
  <2>6. ToSet(caps) \subseteq a.stored
    BY <2>4 DEF AllSame, SameCaptures
  <2>7. PumpReady(b) /\ SameJob(a, b) /\ SameMode(a, b) /\ SameCaptures(a, b) /\ PagesHold(a, b)
    BY <2>5, <2>6, ReadyPumpReady
  <2> HIDE DEF b
  <2>8. RunFits(t) /\ SameJob(b, t) /\ SameMode(b, t) /\ SameCaptures(b, t) /\ PagesHold(b, t)
    BY <2>1, <2>7, PumpedRun
  <2>9. SameJob(s, t) /\ t.aiConfigured = s.aiConfigured
    BY <2>4, <2>7, <2>8 DEF AllSame, SameJob, SameMode
  <2>10. PagesHold(s, t)
    BY <2>4, <2>7, <2>8 DEF PagesHold, Under
  <2> QED
    BY <2>8, <2>9, <2>10, SameIdsFit
<1> QED
  BY <1>0, <1>1, <1>2, <1>3

\* A page leaves the queue.
Leaves(r, q, c, m) ==
  /\ m \in [1 .. Len(r) -> 1 .. Len(q)]
  /\ \A i, j \in 1 .. Len(r) : m[i] = m[j] => i = j
  /\ \A i \in 1 .. Len(r) : r[i] = q[m[i]] /\ r[i].key # c

LeavesOthers(r, q, c) == \A i \in 1 .. Len(q) : q[i].key # c => \E j \in 1 .. Len(r) : r[j] = q[i]

TasksLeft(r, ts, c) ==
  \A i \in DOMAIN ts : r[i].key = ts[i].key /\ (r[i].valid => ts[i].valid /\ ts[i].key # c)

LEMMA WithdrawnOf ==
  ASSUME NEW s \in CaptureState, NEW c \in Captures, NEW t, t = Withdraw(s, c)
  PROVE  /\ t \in CaptureState /\ SameJob(s, t) /\ SameMode(s, t) /\ SameCaptures(s, t) /\ SameDrafts(s, t) /\ SameAssembly(s, t)
         /\ t.page = s.page /\ t.processing = s.processing /\ t.ghosts = s.ghosts
         /\ Len(t.tasks) = Len(s.tasks) /\ DOMAIN t.tasks = DOMAIN s.tasks
         /\ TasksLeft(t.tasks, s.tasks, c) /\ LeavesOthers(t.queue, s.queue, c) /\ \E m : Leaves(t.queue, s.queue, c, m)
<1> DEFINE S  == {e \in ToSet(s.queue) : e.key # c}
           q  == Those(s.queue, S)
           ts == [i \in DOMAIN s.tasks |-> IF s.tasks[i].key = c THEN [s.tasks[i] EXCEPT !.valid = FALSE] ELSE s.tasks[i]]
<1>1. t = [s EXCEPT !.queue = q, !.tasks = ts]
  BY Zenon DEF Withdraw
<1>2. s.queue \in Seq(PageEntry) /\ s.tasks \in Seq(PageTask) /\ Len(s.queue) \in Nat /\ Len(s.tasks) \in Nat
  BY DEF CaptureState, EntrySeqs, TaskSeqs
<1>3. /\ \A i \in DOMAIN s.tasks : /\ ts[i] \in PageTask /\ ts[i].key = s.tasks[i].key
                                   /\ ts[i].valid => s.tasks[i].valid /\ s.tasks[i].key # c
      /\ DOMAIN ts = DOMAIN s.tasks
  <2>1. \A x \in PageTask : /\ [x EXCEPT !.valid = FALSE] \in PageTask /\ [x EXCEPT !.valid = FALSE].key = x.key
                            /\ [x EXCEPT !.valid = FALSE].valid = FALSE
    BY DEF PageTask
  <2>2. \A i \in DOMAIN s.tasks : s.tasks[i] \in PageTask
    BY <1>2
  <2> QED
    BY <2>1, <2>2
<1>4. ts \in TaskSeqs /\ Len(ts) = Len(s.tasks)
  <2>1. DOMAIN ts = 1 .. Len(s.tasks)
    BY <1>2
  <2> HIDE DEF ts
  <2>2. ts \in [1 .. Len(s.tasks) -> PageTask]
    <3>1. ts = [i \in DOMAIN s.tasks |-> ts[i]]
      BY Zenon DEF ts
    <3> QED
      BY <1>3, <2>1, <3>1
  <2> QED
    BY <1>2, <2>2 DEF TaskSeqs
<1>5. q \in Seq(PageEntry) /\ ToSet(q) = ToSet(s.queue) \cap S /\ \E m : KeepsOf(q, s.queue, Len(s.queue), S, m)
  <2> HIDE DEF S
  <2>1. q = Those(s.queue, S)
    OBVIOUS
  <2>2. Those(s.queue, S) \in Seq(PageEntry) /\ \E m : KeepsOf(Those(s.queue, S), s.queue, Len(s.queue), S, m)
    BY <1>2, ThoseKept, Zenon
  <2>3. ToSet(Those(s.queue, S)) = ToSet(s.queue) \cap S
    BY <1>2, ThoseOf, Zenon
  <2> HIDE DEF q
  <2> QED
    BY <2>1, <2>2, <2>3
<1> HIDE DEF q, ts
<1>6. q \in EntrySeqs
  BY <1>5 DEF EntrySeqs
<1>7. t \in CaptureState
  BY <1>1, <1>4, <1>6, ZenonT(60) DEF CaptureState
<1>8. /\ SameJob(s, t) /\ SameMode(s, t) /\ SameCaptures(s, t) /\ SameDrafts(s, t) /\ SameAssembly(s, t)
      /\ t.page = s.page /\ t.processing = s.processing /\ t.ghosts = s.ghosts /\ t.queue = q /\ t.tasks = ts
  BY <1>1 DEF CaptureState, SameJob, SameMode, SameCaptures, SameDrafts, SameAssembly
<1>9. \E m : Leaves(q, s.queue, c, m)
  <2>1. PICK m : KeepsOf(q, s.queue, Len(s.queue), S, m)
    BY <1>5
  <2>2. Leaves(q, s.queue, c, m)
    BY <1>2, <1>5, <2>1 DEF KeepsOf, Leaves
  <2> QED
    BY <2>2
<1>10. ASSUME NEW i \in 1 .. Len(s.queue), s.queue[i].key # c PROVE \E j \in 1 .. Len(q) : q[j] = s.queue[i]
  <2>1. s.queue[i] \in ToSet(s.queue)
    BY <1>2 DEF ToSet
  <2>2. s.queue[i] \in ToSet(q)
    BY <1>5, <1>10, <2>1
  <2>3. DOMAIN q = 1 .. Len(q)
    BY <1>5
  <2> QED
    BY <2>2, <2>3, Zenon DEF ToSet
<1> QED
  <2>1. TasksLeft(ts, s.tasks, c)
    BY <1>3 DEF TasksLeft
  <2>2. LeavesOthers(q, s.queue, c)
    BY <1>10 DEF LeavesOthers
  <2> QED
    BY <1>3, <1>4, <1>7, <1>8, <1>9, <2>1, <2>2

\* What is left when a page has left the queue.
LEMMA WithdrawnFits ==
  ASSUME NEW s \in CaptureState, CapturesFit(s), WorkFits(s), NEW c \in Captures, NEW w, w = Withdraw(s, c),
         NEW t, SameCaptures(w, t), SameAssembly(w, t), t.queue = w.queue, t.tasks = w.tasks,
         \A d \in Captures : d # c => t.page[d] = s.page[d]
  PROVE  CapturesFit(t) /\ WorkFits(t) /\ \A i \in DOMAIN t.queue : t.queue[i].key # c
<1>1. /\ w \in CaptureState /\ SameCaptures(s, w) /\ SameAssembly(s, w)
      /\ Len(w.tasks) = Len(s.tasks) /\ DOMAIN w.tasks = DOMAIN s.tasks
      /\ TasksLeft(w.tasks, s.tasks, c)
  BY WithdrawnOf
<1>2. PICK m : Leaves(w.queue, s.queue, c, m)
  BY WithdrawnOf
<1>3. w.queue \in Seq(PageEntry) /\ s.queue \in Seq(PageEntry) /\ s.tasks \in Seq(PageTask)
  BY <1>1 DEF CaptureState, EntrySeqs, TaskSeqs
<1>4. (\A e \in PageEntry : e.key \in Captures) /\ \A e \in PageTask : e.key \in Captures
  BY DEF PageEntry, PageTask
<1>5. DOMAIN w.queue = 1 .. Len(w.queue) /\ DOMAIN s.queue = 1 .. Len(s.queue)
  BY <1>3
<1>6. (\A i \in DOMAIN w.queue : w.queue[i].key \in Captures) /\ \A i \in DOMAIN s.tasks : s.tasks[i].key \in Captures
  BY <1>3, <1>4
<1>7. \A d : IsCapture(t, d) <=> IsCapture(s, d)
  BY <1>1 DEF IsCapture, SameCaptures
<1>8. CapturesFit(t)
  BY <1>1, <1>2, <1>5 DEF CapturesFit, SameCaptures, Leaves
<1>9. /\ Len(t.tasks) <= PAGE_CONCURRENCY
      /\ \A i, j \in DOMAIN t.tasks : t.tasks[i].key = t.tasks[j].key => i = j
      /\ t.finalizing => t.assembly # <<>>
  BY <1>1 DEF WorkFits, SameAssembly, TasksLeft
<1>10. ASSUME NEW i \in DOMAIN t.queue, NEW j \in DOMAIN t.queue, IsCapture(t, t.queue[i].key), t.queue[i].key = t.queue[j].key
       PROVE  i = j
  <2>1. m[i] \in DOMAIN s.queue /\ m[j] \in DOMAIN s.queue /\ w.queue[i] = s.queue[m[i]] /\ w.queue[j] = s.queue[m[j]]
    BY <1>2, <1>5 DEF Leaves
  <2>2. m[i] = m[j]
    BY <1>7, <1>10, <2>1 DEF WorkFits
  <2> QED
    BY <1>2, <1>5, <2>2 DEF Leaves
<1>11. ASSUME NEW i \in DOMAIN t.queue, IsCapture(t, t.queue[i].key) PROVE Under(t, t.queue[i].key) # "ready"
  <2>1. m[i] \in DOMAIN s.queue /\ w.queue[i] = s.queue[m[i]] /\ w.queue[i].key # c
    BY <1>2, <1>5 DEF Leaves
  <2> QED
    BY <1>6, <1>7, <1>11, <2>1 DEF WorkFits, Under
<1>12. ASSUME NEW i \in DOMAIN t.tasks, t.tasks[i].valid PROVE Under(t, t.tasks[i].key) \notin {"cancelled", "manual"}
  BY <1>1, <1>6, <1>12 DEF WorkFits, Under, TasksLeft
<1>13. WorkFits(t)
  BY <1>9, <1>10, <1>11, <1>12 DEF WorkFits
<1> QED
  BY <1>2, <1>5, <1>8, <1>13 DEF Leaves

LEMMA WithdrawnReady ==
  ASSUME NEW s, PumpReady(s), NEW c \in Captures, NEW w, w = Withdraw(s, c), NEW t \in CaptureState,
         SameJob(w, t), t.aiConfigured = w.aiConfigured, ~s.aiConfigured => t.verifyWithAi = w.verifyWithAi,
         SameCaptures(w, t), SameDrafts(w, t), SameAssembly(w, t), t.queue = w.queue, t.tasks = w.tasks,
         \A d \in Captures : d # c => t.page[d] = s.page[d]
  PROVE  /\ PumpReady(t) /\ SameJob(s, t) /\ t.aiConfigured = s.aiConfigured /\ SameCaptures(s, t)
         /\ \A i \in DOMAIN t.queue : t.queue[i].key # c
<1>0. s \in CaptureState /\ CapturesFit(s) /\ WorkFits(s) /\ (~s.aiConfigured => DraftsFit(s))
  BY DEF PumpReady
<1>1. /\ SameJob(s, w) /\ SameMode(s, w) /\ SameCaptures(s, w) /\ SameDrafts(s, w) /\ SameAssembly(s, w)
  BY <1>0, WithdrawnOf
<1>2. CapturesFit(t) /\ WorkFits(t) /\ \A i \in DOMAIN t.queue : t.queue[i].key # c
  BY <1>0, WithdrawnFits
<1>3. SameJob(s, t) /\ t.aiConfigured = s.aiConfigured /\ SameCaptures(s, t) /\ SameDrafts(s, t) /\ SameAssembly(s, t)
  BY <1>1 DEF SameJob, SameMode, SameCaptures, SameDrafts, SameAssembly
<1>4. ASSUME ~t.aiConfigured PROVE DraftsFit(t)
  <2>1. DraftsFit(s) /\ SameMode(s, t)
    BY <1>0, <1>1, <1>3, <1>4 DEF SameMode
  <2> QED
    BY <1>3, <2>1, SameDraftsFit
<1> QED
  BY <1>2, <1>3, <1>4 DEF PumpReady

\* With AI the queue need not be pumped, for its free slot is beside a task that works for nobody.
LEMMA WithdrawnRun ==
  ASSUME NEW s, RunFits(s), s.aiConfigured = TRUE, NEW c \in Captures, NEW w, w = Withdraw(s, c), NEW t \in CaptureState,
         SameJob(w, t), t.aiConfigured = w.aiConfigured,
         SameCaptures(w, t), SameDrafts(w, t), SameAssembly(w, t), t.queue = w.queue, t.tasks = w.tasks,
         \A d \in Captures : d # c => t.page[d] = s.page[d]
  PROVE  RunFits(t) /\ SameJob(s, t) /\ t.aiConfigured = TRUE /\ SameCaptures(s, t)
<1>0. PumpReady(s) /\ s \in CaptureState /\ QueueFits(s)
  BY DEF RunFits, PumpReady
<1>1. PumpReady(t) /\ SameJob(s, t) /\ t.aiConfigured = TRUE /\ SameCaptures(s, t)
  BY <1>0, WithdrawnReady
<1>2. /\ w \in CaptureState /\ DOMAIN w.tasks = DOMAIN s.tasks /\ Len(w.tasks) = Len(s.tasks)
      /\ TasksLeft(w.tasks, s.tasks, c) /\ LeavesOthers(w.queue, s.queue, c)
  BY <1>0, WithdrawnOf
<1>3. PICK m : Leaves(w.queue, s.queue, c, m)
  BY <1>0, WithdrawnOf
<1>4. /\ w.queue \in Seq(PageEntry) /\ s.queue \in Seq(PageEntry) /\ s.tasks \in Seq(PageTask) /\ w.tasks \in Seq(PageTask)
      /\ DOMAIN w.queue = 1 .. Len(w.queue) /\ DOMAIN s.queue = 1 .. Len(s.queue)
  BY <1>0, <1>2 DEF CaptureState, EntrySeqs, TaskSeqs
<1>5. \A i \in DOMAIN w.queue : w.queue[i].key \in Captures
  <2>1. \A e \in PageEntry : e.key \in Captures
    BY DEF PageEntry
  <2> QED
    BY <1>4, <2>1
<1>6. \A i, j \in DOMAIN t.queue : t.queue[i].key = t.queue[j].key => i = j
  BY <1>0, <1>3, <1>4, SMTT(30) DEF QueueFits, Leaves
<1>7. t.queue # <<>> => t.tasks # <<>>
  <2>1. t.queue # <<>> => 1 \in DOMAIN w.queue
    BY <1>4
  <2>2. t.queue # <<>> => s.queue # <<>>
    BY <1>3, <1>4, <2>1, SMTT(30) DEF Leaves
  <2>3. s.tasks # <<>> => w.tasks # <<>>
    BY <1>2, <1>4
  <2> QED
    BY <1>0, <2>2, <2>3 DEF QueueFits
<1>8. ASSUME Len(t.tasks) < PAGE_CONCURRENCY, NEW i \in DOMAIN t.queue, Under(t, t.queue[i].key) = "pending"
      PROVE  \/ \E k \in DOMAIN t.queue, j \in DOMAIN t.tasks : t.queue[k].key = t.tasks[j].key
             \/ \E j \in DOMAIN t.tasks : ~t.tasks[j].valid
  <2>1. m[i] \in DOMAIN s.queue /\ Under(s, s.queue[m[i]].key) = "pending" /\ Len(s.tasks) < PAGE_CONCURRENCY
    BY <1>2, <1>3, <1>4, <1>5, <1>8, SMTT(30) DEF Under, Leaves
  <2>2. CASE \E j \in DOMAIN s.tasks : ~s.tasks[j].valid
    BY <1>2, <2>2 DEF TasksLeft
  <2>3. CASE \E k \in DOMAIN s.queue, j \in DOMAIN s.tasks : s.queue[k].key = s.tasks[j].key
    <3>1. PICK k \in DOMAIN s.queue, j \in DOMAIN s.tasks : s.queue[k].key = s.tasks[j].key
      BY <2>3
    <3>2. CASE s.tasks[j].key = c
      BY <1>2, <3>1, <3>2 DEF TasksLeft
    <3>3. CASE s.tasks[j].key # c
      <4>1. PICK l \in DOMAIN w.queue : w.queue[l] = s.queue[k]
        BY <1>2, <1>4, <3>1, <3>3 DEF LeavesOthers
      <4>2. w.queue[l].key = w.tasks[j].key /\ j \in DOMAIN w.tasks
        BY <1>2, <3>1, <4>1 DEF TasksLeft
      <4> QED
        BY <4>1, <4>2
    <3> QED
      BY <3>2, <3>3
  <2> QED
    BY <1>0, <2>1, <2>2, <2>3 DEF QueueFits
<1>9. QueueFits(t)
  BY <1>1, <1>6, <1>7, <1>8 DEF QueueFits
<1> QED
  BY <1>1, <1>9 DEF RunFits

\* A page enters the queue.
LEMMA EnqueuedReady ==
  ASSUME NEW s, PumpReady(s), NEW c \in s.stored, \A i \in DOMAIN s.queue : s.queue[i].key # c,
         NEW ai \in BOOLEAN, NEW mode \in {"full", "ai-only"}, NEW t, t = EnqueueCapture(s, c, ai, mode)
  PROVE  /\ PumpReady(t) /\ SameJob(s, t) /\ SameMode(s, t) /\ SameCaptures(s, t)
         /\ \A d \in Captures : d # c => t.page[d] = s.page[d]
<1>0. s \in CaptureState /\ CapturesFit(s) /\ WorkFits(s) /\ (~s.aiConfigured => DraftsFit(s))
  BY DEF PumpReady
<1>1. s.page \in [Captures -> CapturePage] /\ s.queue \in Seq(PageEntry) /\ c \in Captures
  BY <1>0 DEF CaptureState, PageMaps, EntrySeqs, CaptureSets
<1> DEFINE e == [key |-> c, ai |-> ai, mode |-> mode]
           q == Append(s.queue, e)
           p == [s.page EXCEPT ![c] = [@ EXCEPT !.status = "pending"]]
<1>2. t = [s EXCEPT !.page = p, !.queue = q]
  BY DEF EnqueueCapture
<1>3. e \in PageEntry /\ e.key = c
  BY <1>1 DEF PageEntry
<1> HIDE DEF e
<1>4. /\ q \in Seq(PageEntry) /\ Len(q) = Len(s.queue) + 1 /\ Len(s.queue) \in Nat
      /\ \A i \in 1 .. Len(s.queue) : q[i] = s.queue[i]
      /\ q[Len(s.queue) + 1] = e
  BY <1>1, <1>3
<1>5. p \in PageMaps /\ p[c].status = "pending" /\ \A d \in Captures : d # c => p[d] = s.page[d]
  <2>1. \A pg \in CapturePage : /\ [pg EXCEPT !.status = "pending"] \in CapturePage
                                /\ [pg EXCEPT !.status = "pending"].status = "pending"
    BY DEF CapturePage, QueuedStatuses
  <2> QED
    BY <1>1, <2>1 DEF PageMaps
<1> HIDE DEF p, q
<1>6. t \in CaptureState
  BY <1>0, <1>2, <1>4, <1>5, ZenonT(60) DEF CaptureState, EntrySeqs
<1>7. /\ SameJob(s, t) /\ SameMode(s, t) /\ SameCaptures(s, t) /\ SameDrafts(s, t) /\ SameAssembly(s, t)
      /\ t.page = p /\ t.queue = q /\ t.tasks = s.tasks
  BY <1>0, <1>2 DEF CaptureState, SameJob, SameMode, SameCaptures, SameDrafts, SameAssembly
<1>8. Entered(s, t, {c})
  BY <1>1, <1>3, <1>4, <1>5, <1>7 DEF Entered, EntrySeqs
<1>9. CapturesFit(t) /\ WorkFits(t)
  <2>1. {c} \in SUBSET Captures /\ {c} \subseteq s.stored
    BY <1>1
  <2> QED
    BY <1>0, <1>7, <1>8, <2>1, EnteredFits
<1>10. ~t.aiConfigured => DraftsFit(t)
  BY <1>0, <1>7, SameDraftsFit DEF SameMode
<1> QED
  BY <1>5, <1>6, <1>7, <1>9, <1>10 DEF PumpReady

--------------------------------------------------------------------------------
(* The steps.                                                              *)

LEMMA InvParts ==
  ASSUME CaptureInv
  PROVE  /\ state \in CaptureState /\ RunFits(state) /\ PumpReady(state) /\ CapturesFit(state) /\ WorkFits(state)
         /\ Len(jobs) \in Nat /\ jobs \in Seq(ServerJob) /\ Len(jobs) <= MaxJobs /\ IdsKnown(state, Len(jobs))
         /\ state.aiConfigured \in BOOLEAN /\ (~state.aiConfigured => DraftsFit(state) /\ jobs = <<>>)
<1>1. RunFits(state) /\ PumpReady(state) /\ state \in CaptureState /\ jobs \in Seq(ServerJob)
  BY DEF CaptureInv, RunFits, PumpReady
<1>2. state.aiConfigured \in BOOLEAN
  BY <1>1 DEF CaptureState
<1> QED
  BY <1>1, <1>2 DEF CaptureInv, PumpReady

LEMMA StepInv ==
  ASSUME CaptureInv, RunFits(state'), IdsKnown(state', Len(jobs)), state'.aiConfigured = state.aiConfigured, jobs' = jobs
  PROVE  CaptureInv'
BY DEF CaptureInv

\* Files are stored, and nothing that was captured is captured again.
LEMMA StoredRun ==
  ASSUME NEW s, RunFits(s), NEW t \in CaptureState, SameJob(s, t), SameMode(s, t), SameWork(s, t), SameDrafts(s, t),
         SameAssembly(s, t), t.page = s.page, t.processing = s.processing, s.stored \subseteq t.stored,
         IsInjective(t.captures), ToSet(t.captures) \subseteq t.stored, Len(t.captures) >= Len(s.captures),
         \A c \in s.stored : IsCapture(t, c) <=> IsCapture(s, c),
         \A u \in t.uploads : /\ IsInjective(u.added) /\ ToSet(u.added) \subseteq t.stored
                              /\ ~s.aiConfigured => ~u.had
  PROVE  RunFits(t)
<1>0. s \in CaptureState /\ CapturesFit(s) /\ WorkFits(s) /\ QueueFits(s)
  BY DEF RunFits, PumpReady
<1>1. CapturesFit(t)
  BY <1>0 DEF CapturesFit, SameWork
<1>2. WorkFits(t)
  BY <1>0 DEF WorkFits, CapturesFit, SameWork, SameAssembly, Under
<1>3. QueueFits(t)
  BY <1>0, SameQueueFits
<1>4. ASSUME ~s.aiConfigured PROVE DraftsFit(t) /\ WorkGoesOn(t)
  <2>1. DraftsFit(s) /\ WorkGoesOn(s)
    BY <1>4 DEF RunFits, PumpReady
  <2>2. Heads(t) = Heads(s)
    BY DEF Heads, SameDrafts
  <2>3. LiveHeads(t) = LiveHeads(s)
    BY <2>1, <2>2 DEF LiveHeads, DraftsFit, IsCapture
  <2>4. Len(s.captures) \in Nat /\ Len(t.captures) \in Nat
    BY <1>0 DEF CaptureState, CaptureSeqs
  <2>5. Len(t.captures) <= 1 => Len(s.captures) <= 1
    BY <2>4
  <2>6. DraftsFit(t)
    BY <1>4, <2>1, <2>2, <2>3, <2>5 DEF DraftsFit, SameJob, SameMode, SameDrafts, SameAssembly
  <2>7. WorkGoesOn(t)
    BY <2>1, <2>3 DEF WorkGoesOn, SameWork, SameDrafts, SameAssembly
  <2> QED
    BY <2>6, <2>7
<1> QED
  BY <1>1, <1>2, <1>3, <1>4 DEF RunFits, PumpReady, SameMode

LEMMA UploadStartsStep ==
  ASSUME CaptureInv, UploadStarts
  PROVE  CaptureInv'
<1> DEFINE u == [had |-> HadBackgroundJob(state), added |-> <<>>]
           U == state.uploads \cup {u}
<1>0. /\ state \in CaptureState /\ RunFits(state) /\ CapturesFit(state) /\ IdsKnown(state, Len(jobs))
      /\ (~state.aiConfigured => DraftsFit(state))
  BY InvParts
<1>1. state' = [state EXCEPT !.uploads = U] /\ jobs' = jobs
  BY DEF UploadStarts
<1>2. u \in FileUpload /\ IsInjective(u.added) /\ ToSet(u.added) = {} /\ (~state.aiConfigured => ~u.had)
  <2>1. HadBackgroundJob(state) \in BOOLEAN
    BY <1>0 DEF HadBackgroundJob, CaptureState
  <2>2. ~state.aiConfigured => ~HadBackgroundJob(state)
    BY <1>0 DEF HadBackgroundJob, DraftsFit
  <2>3. ToSet(<<>>) = {} /\ IsInjective(<<>>) /\ <<>> \in CaptureSeqs
    BY DEF ToSet, IsInjective, CaptureSeqs
  <2> QED
    BY <2>1, <2>2, <2>3 DEF FileUpload
<1> HIDE DEF u
<1>3. U \in UploadSets
  BY <1>0, <1>2 DEF CaptureState, UploadSets
<1>4. \A v \in U : /\ IsInjective(v.added) /\ ToSet(v.added) \subseteq state.stored
                   /\ ~state.aiConfigured => ~v.had
  BY <1>0, <1>2 DEF CapturesFit, DraftsFit
<1> HIDE DEF U
<1>5. state' \in CaptureState
  BY <1>0, <1>1, <1>3, ZenonT(60) DEF CaptureState
<1>6. /\ SameJob(state, state') /\ SameMode(state, state') /\ SameWork(state, state') /\ SameDrafts(state, state')
      /\ SameAssembly(state, state') /\ state'.page = state.page /\ state'.processing = state.processing
      /\ state'.stored = state.stored /\ state'.captures = state.captures /\ state'.uploads = U
  BY <1>0, <1>1 DEF CaptureState, SameJob, SameMode, SameWork, SameDrafts, SameAssembly
<1>7. Len(state.captures) \in Nat /\ \A c : IsCapture(state', c) <=> IsCapture(state, c)
  BY <1>0, <1>6 DEF CaptureState, CaptureSeqs, IsCapture
<1>8. RunFits(state')
  BY <1>0, <1>4, <1>5, <1>6, <1>7, StoredRun DEF CapturesFit
<1> QED
  BY <1>0, <1>1, <1>6, <1>8, SameIdsFit, StepInv DEF SameMode

\* An upload is over.
LEMMA UploadGone ==
  ASSUME CaptureInv, NEW u \in state.uploads, NEW t, t = [state EXCEPT !.uploads = @ \ {u}]
  PROVE  RunFits(t) /\ IdsKnown(t, Len(jobs)) /\ t.aiConfigured = state.aiConfigured /\ t.stored = state.stored
<1> DEFINE U == state.uploads \ {u}
<1>0. /\ state \in CaptureState /\ RunFits(state) /\ CapturesFit(state) /\ IdsKnown(state, Len(jobs))
      /\ (~state.aiConfigured => DraftsFit(state))
  BY InvParts
<1>1. t = [state EXCEPT !.uploads = U]
  OBVIOUS
<1>2. U \in UploadSets
  BY <1>0 DEF CaptureState, UploadSets
<1>3. \A v \in U : /\ IsInjective(v.added) /\ ToSet(v.added) \subseteq state.stored
                   /\ ~state.aiConfigured => ~v.had
  BY <1>0 DEF CapturesFit, DraftsFit
<1> HIDE DEF U
<1>4. t \in CaptureState
  BY <1>0, <1>1, <1>2, ZenonT(60) DEF CaptureState
<1>5. /\ SameJob(state, t) /\ SameMode(state, t) /\ SameWork(state, t) /\ SameDrafts(state, t)
      /\ SameAssembly(state, t) /\ t.page = state.page /\ t.processing = state.processing
      /\ t.stored = state.stored /\ t.captures = state.captures /\ t.uploads = U
  BY <1>0, <1>1 DEF CaptureState, SameJob, SameMode, SameWork, SameDrafts, SameAssembly
<1>6. Len(state.captures) \in Nat /\ \A c : IsCapture(t, c) <=> IsCapture(state, c)
  BY <1>0, <1>5 DEF CaptureState, CaptureSeqs, IsCapture
<1>7. /\ state.stored \subseteq t.stored /\ IsInjective(t.captures) /\ ToSet(t.captures) \subseteq t.stored
      /\ Len(t.captures) >= Len(state.captures)
      /\ \A v \in t.uploads : /\ IsInjective(v.added) /\ ToSet(v.added) \subseteq t.stored
                              /\ ~state.aiConfigured => ~v.had
  BY <1>0, <1>3, <1>5, <1>6 DEF CapturesFit
<1>8. RunFits(t)
  BY <1>0, <1>4, <1>5, <1>6, <1>7, StoredRun
<1> QED
  BY <1>0, <1>5, <1>8, SameIdsFit DEF SameMode

LEMMA UploadFailsStep ==
  ASSUME CaptureInv, NEW u \in state.uploads, UploadFails(u)
  PROVE  CaptureInv'
<1>1. state' = [state EXCEPT !.uploads = @ \ {u}] /\ jobs' = jobs
  BY DEF UploadFails
<1> QED
  BY <1>1, UploadGone, StepInv

LEMMA UploadEndsStep ==
  ASSUME CaptureInv, NEW u \in state.uploads, UploadEnds(u)
  PROVE  CaptureInv'
<1> DEFINE s == [state EXCEPT !.uploads = @ \ {u}]
           k == ClearReceiptExtractionJob(s, TRUE)
           t == ResetAll(k)
           n == Len(jobs)
<1>1. /\ state' = IF u.had THEN StartAutomaticCaptureProcessing(t, t.captures) ELSE StartAutomaticCaptureProcessing(s, u.added)
      /\ jobs' = jobs
  BY Zenon DEF UploadEnds
<1>2. RunFits(s) /\ IdsKnown(s, n) /\ s.aiConfigured = state.aiConfigured /\ s.stored = state.stored /\ n \in Nat
  BY UploadGone, InvParts
<1>3. u.added \in CaptureSeqs /\ IsInjective(u.added) /\ ToSet(u.added) \subseteq state.stored /\ (~state.aiConfigured => ~u.had)
  <2>1. u \in FileUpload /\ (~state.aiConfigured => DraftsFit(state)) /\ CapturesFit(state)
    BY InvParts DEF CaptureState, UploadSets
  <2> QED
    BY <2>1 DEF FileUpload, CapturesFit, DraftsFit
<1> HIDE DEF s
<1>4. CASE ~u.had
  <2>1. state' = StartAutomaticCaptureProcessing(s, u.added)
    BY <1>1, <1>4, Zenon
  <2>2. RunFits(state') /\ IdsKnown(state', n) /\ state'.aiConfigured = s.aiConfigured
    BY <1>2, <1>3, <2>1, StartedRun
  <2> QED
    BY <1>1, <1>2, <2>2, StepInv
<1>5. CASE u.had
  <2>1. state' = StartAutomaticCaptureProcessing(t, t.captures)
    BY <1>1, <1>5, Zenon
  <2>2. s \in CaptureState /\ CapturesFit(s) /\ s.aiConfigured = TRUE
    <3>1. state.aiConfigured = TRUE
      BY <1>3, <1>5, InvParts
    <3> QED
      BY <1>2, <3>1 DEF RunFits, PumpReady
  <2>3. /\ k \in CaptureState /\ SameMode(s, k) /\ SameCaptures(s, k) /\ SameWork(s, k) /\ k.activeJobId = 0
        /\ k.posts = Outdated(s.posts) /\ k.reads = Outdated(s.reads)
    BY <2>2, ClearedJobOf
  <2> HIDE DEF k
  <2>4. IdsKnown(k, n)
    BY <1>2, <2>2, <2>3, ClearedIdsFit
  <2>5. CapturesFit(k) /\ k.aiConfigured = TRUE
    BY <2>2, <2>3, SameCapturesFit DEF SameWork, SameMode
  <2>6. RunFits(t) /\ IdsKnown(t, n) /\ t.aiConfigured = TRUE
    BY <1>2, <2>3, <2>4, <2>5, ResetRun
  <2> HIDE DEF t
  <2>7. t.captures \in CaptureSeqs /\ IsInjective(t.captures) /\ ToSet(t.captures) \subseteq t.stored
    BY <2>6 DEF RunFits, PumpReady, CapturesFit, CaptureState
  <2>8. RunFits(state') /\ IdsKnown(state', n) /\ state'.aiConfigured = TRUE
    BY <1>2, <2>1, <2>6, <2>7, StartedRun
  <2> QED
    BY <1>1, <1>2, <2>2, <2>8, StepInv
<1> QED
  BY <1>4, <1>5

\* What Append adds to a sequence without repetitions.
LEMMA AppendedCapture ==
  ASSUME NEW s \in CaptureSeqs, IsInjective(s), NEW c \in Captures, c \notin ToSet(s)
  PROVE  /\ Append(s, c) \in CaptureSeqs /\ IsInjective(Append(s, c)) /\ Len(Append(s, c)) = Len(s) + 1 /\ Len(s) \in Nat
         /\ ToSet(Append(s, c)) = ToSet(s) \cup {c}
<1> DEFINE r == Append(s, c)
<1>1. /\ s \in Seq(Captures) /\ r \in Seq(Captures) /\ Len(r) = Len(s) + 1 /\ Len(s) \in Nat /\ r[Len(s) + 1] = c
      /\ DOMAIN s = 1 .. Len(s) /\ DOMAIN r = 1 .. Len(s) + 1
      /\ \A i \in 1 .. Len(s) : r[i] = s[i]
  BY DEF CaptureSeqs
<1> HIDE DEF r
<1>2. \A i \in 1 .. Len(s) : s[i] \in ToSet(s)
  BY <1>1, Zenon DEF ToSet
<1>3. IsInjective(r)
  BY <1>1, <1>2 DEF IsInjective
<1>4. ToSet(r) = ToSet(s) \cup {c}
  BY <1>1, <1>2 DEF ToSet
<1> QED
  BY <1>1, <1>3, <1>4 DEF r, CaptureSeqs

LEMMA FileStoredStep ==
  ASSUME CaptureInv, NEW u \in state.uploads, NEW c \in Captures, FileStored(u, c)
  PROVE  CaptureInv'
<1> DEFINE v  == [u EXCEPT !.added = Append(@, c)]
           U  == (state.uploads \ {u}) \cup {v}
           cs == Append(state.captures, c)
           S  == state.stored \cup {c}
<1>0. /\ state \in CaptureState /\ RunFits(state) /\ CapturesFit(state) /\ IdsKnown(state, Len(jobs))
      /\ (~state.aiConfigured => DraftsFit(state))
  BY InvParts
<1>1. state' = [state EXCEPT !.uploads = U, !.captures = cs, !.stored = S] /\ jobs' = jobs /\ c \notin state.stored
  BY DEF FileStored
<1>2. u \in FileUpload /\ state.captures \in CaptureSeqs /\ state.stored \in CaptureSets /\ state.uploads \in UploadSets
  BY <1>0 DEF CaptureState, UploadSets
<1>3. /\ cs \in CaptureSeqs /\ IsInjective(cs) /\ Len(cs) = Len(state.captures) + 1 /\ Len(state.captures) \in Nat
      /\ ToSet(cs) = ToSet(state.captures) \cup {c}
  BY <1>0, <1>1, <1>2, AppendedCapture DEF CapturesFit
<1>4. v \in FileUpload /\ IsInjective(v.added) /\ ToSet(v.added) \subseteq S /\ v.had = u.had
  <2>1. u.added \in CaptureSeqs /\ IsInjective(u.added) /\ ToSet(u.added) \subseteq state.stored
    BY <1>0, <1>2 DEF FileUpload, CapturesFit
  <2>2. /\ Append(u.added, c) \in CaptureSeqs /\ IsInjective(Append(u.added, c))
        /\ ToSet(Append(u.added, c)) = ToSet(u.added) \cup {c}
    BY <1>1, <2>1, AppendedCapture
  <2> DEFINE a == Append(u.added, c)
  <2> HIDE DEF a
  <2>3. v = [u EXCEPT !.added = a]
    BY DEF a
  <2>4. v \in FileUpload /\ v.added = a /\ v.had = u.had
    BY <1>2, <2>2, <2>3 DEF FileUpload, a
  <2> QED
    BY <2>1, <2>2, <2>4 DEF a
<1> HIDE DEF v, cs
<1>5. U \in UploadSets /\ S \in CaptureSets
  BY <1>2, <1>4 DEF UploadSets, CaptureSets
<1>6. \A w \in U : /\ IsInjective(w.added) /\ ToSet(w.added) \subseteq S
                   /\ ~state.aiConfigured => ~w.had
  BY <1>0, <1>4 DEF CapturesFit, DraftsFit
<1>7. state.stored \subseteq S /\ ToSet(cs) \subseteq S
  BY <1>0, <1>3 DEF CapturesFit
<1>8. \A d \in state.stored : d \in ToSet(cs) <=> d \in ToSet(state.captures)
  BY <1>1, <1>3
<1> HIDE DEF U, S
<1>9. state' \in CaptureState
  BY <1>0, <1>1, <1>3, <1>5, ZenonT(60) DEF CaptureState
<1>10. /\ SameJob(state, state') /\ SameMode(state, state') /\ SameWork(state, state') /\ SameDrafts(state, state')
       /\ SameAssembly(state, state') /\ state'.page = state.page /\ state'.processing = state.processing
       /\ state'.stored = S /\ state'.captures = cs /\ state'.uploads = U
  BY <1>0, <1>1 DEF CaptureState, SameJob, SameMode, SameWork, SameDrafts, SameAssembly
<1>11. Len(cs) >= Len(state.captures) /\ \A d \in state.stored : IsCapture(state', d) <=> IsCapture(state, d)
  BY <1>3, <1>8, <1>10 DEF IsCapture
<1>12. RunFits(state')
  BY <1>0, <1>3, <1>6, <1>7, <1>9, <1>10, <1>11, StoredRun
<1> QED
  BY <1>0, <1>1, <1>10, <1>12, SameIdsFit, StepInv DEF SameMode

\* A sequence without its i-th element.
Past(i, j) == IF j < i THEN j ELSE j + 1

LEMMA RemovedOf ==
  ASSUME NEW T, NEW s \in Seq(T), NEW i \in 1 .. Len(s), NEW r, r = RemoveAt(s, i)
  PROVE  /\ r \in Seq(T) /\ Len(r) = Len(s) - 1 /\ DOMAIN r = 1 .. Len(s) - 1
         /\ \A j \in DOMAIN r : r[j] = s[Past(i, j)] /\ Past(i, j) \in DOMAIN s
<1>1. Len(s) \in Nat /\ DOMAIN s = 1 .. Len(s)
  OBVIOUS
<1> DEFINE a == SubSeq(s, 1, i - 1)
           b == SubSeq(s, i + 1, Len(s))
<1>2. /\ a \in Seq(T) /\ Len(a) = i - 1
      /\ \A j \in 1 .. i - 1 : a[j] = s[j]
  <2>1. \A j \in 1 .. i - 1 : s[j] \in T /\ j \in 1 .. Len(s)
    BY <1>1
  <2> QED
    BY <1>1, <2>1
<1>3. /\ b \in Seq(T) /\ Len(b) = Len(s) - i
      /\ \A j \in 1 .. Len(s) - i : b[j] = s[i + j]
  <2>1. i \in Nat /\ i <= Len(s)
    BY <1>1
  <2> DEFINE m == i + 1
             n == Len(s)
  <2>2. m \in Int /\ n \in Int /\ \A j \in m .. n : s[j] \in T
    BY <1>1, <2>1
  <2>3. b = SubSeq(s, m, n)
    OBVIOUS
  <2>4. (IF m <= n THEN n - m + 1 ELSE 0) = Len(s) - i
    <3>1. CASE m <= n
      BY <1>1, <2>1, <3>1
    <3>2. CASE n < m
      <4>0. \A x, y \in Nat : x <= y /\ y < x + 1 => x = y
        OBVIOUS
      <4>1. n = i
        BY <1>1, <2>1, <3>2, <4>0
      <4> QED
        BY <1>1, <2>1, <3>2, <4>1
    <3> QED
      BY <2>2, <3>1, <3>2
  <2>6. n - m + 1 = Len(s) - i
    BY <1>1, <2>1
  <2>7. \A j \in 1 .. Len(s) - i : m + j - 1 = i + j
    BY <1>1, <2>1
  <2> HIDE DEF m, n
  <2>5. /\ SubSeq(s, m, n) \in Seq(T)
        /\ Len(SubSeq(s, m, n)) = IF m <= n THEN n - m + 1 ELSE 0
        /\ \A j \in 1 .. n - m + 1 : SubSeq(s, m, n)[j] = s[m + j - 1]
    BY <2>2, SubSeqProperties
  <2> HIDE DEF b
  <2> QED
    BY <2>3, <2>4, <2>5, <2>6, <2>7
<1>4. r = a \o b
  BY DEF RemoveAt
<1> HIDE DEF a, b
<1>5. r \in Seq(T) /\ Len(r) = Len(s) - 1
  <2>1. a \o b \in Seq(T) /\ Len(a \o b) = Len(a) + Len(b)
    BY <1>2, <1>3, ConcatParts, Zenon
  <2>2. (i - 1) + (Len(s) - i) = Len(s) - 1
    BY <1>1
  <2> QED
    BY <1>2, <1>3, <1>4, <2>1, <2>2
<1>6. ASSUME NEW j \in 1 .. Len(s) - 1 PROVE r[j] = s[Past(i, j)] /\ Past(i, j) \in DOMAIN s
  <2>1. CASE j < i
    BY <1>1, <1>2, <1>3, <1>4, <2>1 DEF Past
  <2>2. CASE j >= i
    <3>1. j - (i - 1) \in 1 .. Len(s) - i /\ i + (j - (i - 1)) = j + 1
      BY <1>1, <2>2
    <3>2. r[j] = b[j - (i - 1)]
      BY <1>1, <1>2, <1>3, <1>4, <2>2
    <3> QED
      BY <1>1, <1>3, <2>2, <3>1, <3>2 DEF Past
  <2> QED
    BY <1>1, <2>1, <2>2
<1> QED
  BY <1>5, <1>6

\* A task is over.
LEMMA TaskGone ==
  ASSUME NEW s, PumpReady(s), NEW i \in DOMAIN s.tasks, NEW t \in CaptureState,
         SameJob(s, t), SameMode(s, t), SameCaptures(s, t), SameDrafts(s, t), SameAssembly(s, t),
         t.queue = s.queue, t.tasks = RemoveAt(s.tasks, i),
         \A c \in Captures : \/ t.page[c] = s.page[c]
                             \/ c = s.tasks[i].key /\ s.tasks[i].valid /\ t.page[c].status # "ready"
  PROVE  PumpReady(t) /\ PagesHold(s, t)
<1>0. s \in CaptureState /\ CapturesFit(s) /\ WorkFits(s) /\ (~s.aiConfigured => DraftsFit(s))
  BY DEF PumpReady
<1>1. s.tasks \in Seq(PageTask) /\ Len(s.tasks) \in Nat /\ DOMAIN s.tasks = 1 .. Len(s.tasks) /\ s.queue \in Seq(PageEntry)
  BY <1>0 DEF CaptureState, TaskSeqs, EntrySeqs
<1>2. /\ Len(t.tasks) = Len(s.tasks) - 1 /\ DOMAIN t.tasks = 1 .. Len(s.tasks) - 1
      /\ \A j \in DOMAIN t.tasks : t.tasks[j] = s.tasks[Past(i, j)] /\ Past(i, j) \in DOMAIN s.tasks
  BY <1>1, RemovedOf, SMTT(30)
<1>3. (\A j \in DOMAIN s.tasks : s.tasks[j].key \in Captures) /\ \A j \in DOMAIN s.queue : s.queue[j].key \in Captures
  <2>1. (\A e \in PageEntry : e.key \in Captures) /\ \A e \in PageTask : e.key \in Captures
    BY DEF PageEntry, PageTask
  <2> QED
    BY <1>1, <2>1
<1>4. \A c : IsCapture(t, c) <=> IsCapture(s, c)
  BY DEF IsCapture, SameCaptures
<1>5. \A j, k \in DOMAIN s.tasks : s.tasks[j].key = s.tasks[k].key => j = k
  BY <1>0 DEF WorkFits
<1>6. ASSUME NEW j \in DOMAIN t.tasks, NEW k \in DOMAIN t.tasks, t.tasks[j].key = t.tasks[k].key PROVE j = k
  <2>1. Past(i, j) = Past(i, k)
    BY <1>2, <1>5, <1>6
  <2> QED
    BY <1>1, <1>2, <2>1 DEF Past
<1>7. ASSUME NEW j \in DOMAIN t.tasks, t.tasks[j].valid PROVE Under(t, t.tasks[j].key) \notin {"cancelled", "manual"}
  <2>1. Past(i, j) # i
    BY <1>1, <1>2 DEF Past
  <2>2. PICK k \in DOMAIN s.tasks : k # i /\ t.tasks[j] = s.tasks[k]
    BY <1>2, <2>1
  <2>3. t.page[s.tasks[k].key] = s.page[s.tasks[k].key]
    BY <1>3, <1>5, <2>2
  <2> QED
    BY <1>0, <1>7, <2>2, <2>3 DEF WorkFits, Under
<1>8. \A j \in DOMAIN t.queue : IsCapture(t, t.queue[j].key) => Under(t, t.queue[j].key) # "ready"
  BY <1>0, <1>3, <1>4 DEF WorkFits, Under
<1>9. /\ \A j, k \in DOMAIN t.queue : IsCapture(t, t.queue[j].key) /\ t.queue[j].key = t.queue[k].key => j = k
      /\ Len(t.tasks) <= PAGE_CONCURRENCY /\ (t.finalizing => t.assembly # <<>>)
  BY <1>0, <1>1, <1>2, <1>4, CaptureAssumption DEF WorkFits, SameAssembly
<1>10. WorkFits(t)
  BY <1>6, <1>7, <1>8, <1>9 DEF WorkFits
<1>11. CapturesFit(t)
  BY <1>0, SameCapturesFit
<1>12. ~t.aiConfigured => DraftsFit(t)
  BY <1>0, SameDraftsFit DEF SameMode
<1>13. PagesHold(s, t)
  BY <1>0 DEF PagesHold, WorkFits, Under
<1> QED
  BY <1>10, <1>11, <1>12, <1>13 DEF PumpReady

LEMMA AnsweredPageTyped ==
  ASSUME NEW t \in PageTask, NEW pg \in CapturePage, NEW ok \in BOOLEAN, NEW code \in Codes
  PROVE  AnsweredPage(t, pg, ok, code) \in CapturePage /\ AnsweredPage(t, pg, ok, code).status \in {"error", "ai", "completed"}
BY ZenonT(60) DEF AnsweredPage, CapturePage, ActiveStatuses, QueuedStatuses, TerminalStatuses, Codes, PageTask

\* A task of the run is over, and the queue is pumped.
LEMMA TaskGoneStep ==
  ASSUME CaptureInv, NEW i \in DOMAIN state.tasks, NEW p \in PageMaps,
         \A c \in Captures : \/ p[c] = state.page[c]
                             \/ c = state.tasks[i].key /\ state.tasks[i].valid /\ p[c].status # "ready",
         state' = PumpPageQueue([state EXCEPT !.page = p, !.tasks = RemoveAt(state.tasks, i)]), jobs' = jobs
  PROVE  CaptureInv' /\ PagesHold(state, state')
<1> DEFINE ts == RemoveAt(state.tasks, i)
           t  == [state EXCEPT !.page = p, !.tasks = ts]
<1>0. state \in CaptureState /\ PumpReady(state) /\ IdsKnown(state, Len(jobs))
  BY InvParts
<1>1. ts \in TaskSeqs
  <2>1. state.tasks \in Seq(PageTask) /\ i \in 1 .. Len(state.tasks)
    BY <1>0 DEF CaptureState, TaskSeqs
  <2> QED
    BY <2>1, RemovedOf DEF TaskSeqs
<1>2. state' = PumpPageQueue(t)
  OBVIOUS
<1>3. t = [state EXCEPT !.page = p, !.tasks = ts]
  OBVIOUS
<1> HIDE DEF t
<1>4. t \in CaptureState
  <2> HIDE DEF ts
  <2> QED
    BY <1>0, <1>1, <1>3, ZenonT(60) DEF CaptureState
<1>5. /\ SameJob(state, t) /\ SameMode(state, t) /\ SameCaptures(state, t) /\ SameDrafts(state, t) /\ SameAssembly(state, t)
      /\ t.queue = state.queue /\ t.tasks = ts /\ t.page = p
  <2> HIDE DEF ts
  <2> QED
    BY <1>0, <1>3 DEF CaptureState, SameJob, SameMode, SameCaptures, SameDrafts, SameAssembly
<1>6. PumpReady(t) /\ PagesHold(state, t)
  BY <1>0, <1>4, <1>5, TaskGone
<1>7. RunFits(state') /\ SameJob(t, state') /\ SameMode(t, state') /\ PagesHold(t, state')
  BY <1>2, <1>6, PumpedRun
<1>8. SameJob(state, state') /\ state'.aiConfigured = state.aiConfigured /\ PagesHold(state, state')
  BY <1>5, <1>6, <1>7 DEF SameJob, SameMode, PagesHold, Under
<1> QED
  BY <1>0, <1>7, <1>8, SameIdsFit, StepInv

\* The correction of a page begins where its recognition ended.
LEMMA TaskGoesOn ==
  ASSUME CaptureInv, NEW i \in DOMAIN state.tasks, state.tasks[i].valid, NEW p \in PageMaps,
         \A c \in Captures : \/ p[c] = state.page[c]
                             \/ c = state.tasks[i].key /\ p[c].status \in {"error", "ai", "completed"},
         NEW t, t = [state EXCEPT !.page = p, !.tasks[i].at = "ai"]
  PROVE  RunFits(t) /\ SameJob(state, t) /\ t.aiConfigured = state.aiConfigured /\ PagesHold(state, t)
<1> DEFINE ts == [state.tasks EXCEPT ![i].at = "ai"]
<1>0. /\ state \in CaptureState /\ CapturesFit(state) /\ WorkFits(state) /\ QueueFits(state) /\ IdsKnown(state, Len(jobs))
      /\ (~state.aiConfigured => DraftsFit(state) /\ WorkGoesOn(state))
  BY InvParts DEF RunFits
<1>1. state.tasks \in Seq(PageTask) /\ state.queue \in Seq(PageEntry) /\ i \in 1 .. Len(state.tasks)
  BY <1>0 DEF CaptureState, TaskSeqs, EntrySeqs
<1>2. /\ ts \in Seq(PageTask) /\ Len(ts) = Len(state.tasks) /\ DOMAIN ts = DOMAIN state.tasks
      /\ \A j \in DOMAIN state.tasks : ts[j].key = state.tasks[j].key /\ ts[j].valid = state.tasks[j].valid
  <2>1. \A x \in PageTask : /\ [x EXCEPT !.at = "ai"] \in PageTask /\ [x EXCEPT !.at = "ai"].key = x.key
                            /\ [x EXCEPT !.at = "ai"].valid = x.valid
    BY DEF PageTask
  <2> QED
    BY <1>1, <2>1
<1>3. t = [state EXCEPT !.page = p, !.tasks = ts]
  OBVIOUS
<1>4. (\A j \in DOMAIN state.tasks : state.tasks[j].key \in Captures) /\ \A j \in DOMAIN state.queue : state.queue[j].key \in Captures
  <2>1. (\A e \in PageEntry : e.key \in Captures) /\ \A e \in PageTask : e.key \in Captures
    BY DEF PageEntry, PageTask
  <2> QED
    BY <1>1, <2>1
<1> HIDE DEF ts
<1>5. t \in CaptureState
  <2>1. ts \in TaskSeqs
    BY <1>2 DEF TaskSeqs
  <2> QED
    BY <1>0, <1>3, <2>1, ZenonT(60) DEF CaptureState
<1>6. /\ SameJob(state, t) /\ SameMode(state, t) /\ SameCaptures(state, t) /\ SameDrafts(state, t)
      /\ SameAssembly(state, t) /\ t.processing = state.processing /\ t.ghosts = state.ghosts
      /\ t.queue = state.queue /\ t.tasks = ts /\ t.page = p
  BY <1>0, <1>3, ZenonT(60) DEF CaptureState, SameJob, SameMode, SameCaptures, SameDrafts, SameAssembly
<1>7. \A c : IsCapture(t, c) <=> IsCapture(state, c)
  BY <1>6 DEF IsCapture, SameCaptures
<1>8. CapturesFit(t)
  BY <1>0, <1>6, SameCapturesFit
<1>9. WorkFits(t)
  <2>1. /\ Len(t.tasks) <= PAGE_CONCURRENCY
        /\ \A j, k \in DOMAIN t.tasks : t.tasks[j].key = t.tasks[k].key => j = k
        /\ t.finalizing => t.assembly # <<>>
    BY <1>0, <1>2, <1>6 DEF WorkFits, SameAssembly
  <2>2. \A j, k \in DOMAIN t.queue : IsCapture(t, t.queue[j].key) /\ t.queue[j].key = t.queue[k].key => j = k
    BY <1>0, <1>6, <1>7 DEF WorkFits
  <2>3. \A j \in DOMAIN t.queue : IsCapture(t, t.queue[j].key) => Under(t, t.queue[j].key) # "ready"
    BY <1>0, <1>4, <1>6, <1>7 DEF WorkFits, Under
  <2>4. \A j \in DOMAIN t.tasks : t.tasks[j].valid => Under(t, t.tasks[j].key) \notin {"cancelled", "manual"}
    BY <1>0, <1>2, <1>4, <1>6 DEF WorkFits, Under
  <2> QED
    BY <2>1, <2>2, <2>3, <2>4 DEF WorkFits
<1>10. QueueFits(t)
  <2>1. \A c \in Captures : Under(t, c) = "pending" => Under(state, c) = "pending"
    BY <1>6 DEF Under
  <2>2. state.tasks # <<>> /\ ts # <<>>
    BY <1>1, <1>2
  <2> QED
    BY <1>0, <1>2, <1>4, <1>6, <2>1, <2>2 DEF QueueFits, SameMode
<1>11. ASSUME ~state.aiConfigured PROVE DraftsFit(t) /\ WorkGoesOn(t)
  <2>1. DraftsFit(t)
    BY <1>0, <1>6, <1>11, SameDraftsFit
  <2>2. ts # <<>>
    BY <1>1, <1>2
  <2> QED
    BY <1>6, <2>1, <2>2 DEF WorkGoesOn
<1>12. RunFits(t)
  BY <1>5, <1>6, <1>8, <1>9, <1>10, <1>11 DEF RunFits, PumpReady, SameMode
<1>13. PagesHold(state, t)
  BY <1>0, <1>6 DEF PagesHold, WorkFits, Under
<1> QED
  BY <1>6, <1>12, <1>13 DEF SameMode

LEMMA TaskAnsweredStep ==
  ASSUME CaptureInv, NEW i, NEW ok \in BOOLEAN, NEW code \in Codes, TaskAnswered(i, ok, code)
  PROVE  CaptureInv' /\ PagesHold(state, state')
<1> DEFINE k == state.tasks[i]
           a == AnsweredPage(k, state.page[k.key], ok, code)
           p == IF IsCurrentPageEntry(k) THEN [state.page EXCEPT ![k.key] = a] ELSE state.page
           s == IF IsCurrentPageEntry(k) THEN [state EXCEPT !.page = [state.page EXCEPT ![k.key] = a]] ELSE state
<1>0. state \in CaptureState /\ PumpReady(state) /\ IdsKnown(state, Len(jobs)) /\ i \in DOMAIN state.tasks /\ jobs' = jobs
  BY InvParts DEF TaskAnswered
<1>1. k \in PageTask /\ k.key \in Captures /\ k.valid \in BOOLEAN /\ state.page \in [Captures -> CapturePage]
  <2>1. state.tasks \in Seq(PageTask) /\ state.page \in [Captures -> CapturePage]
    BY <1>0 DEF CaptureState, TaskSeqs, PageMaps
  <2>2. \A x \in PageTask : x.key \in Captures /\ x.valid \in BOOLEAN
    BY DEF PageTask
  <2>3. k \in PageTask
    BY <1>0, <2>1
  <2> QED
    BY <2>1, <2>2, <2>3
<1>2. state' = IF GoesOnToAi(k, ok) THEN [s EXCEPT !.tasks[i].at = "ai"] ELSE PumpPageQueue([s EXCEPT !.tasks = RemoveAt(s.tasks, i)])
  BY Zenon DEF TaskAnswered
<1> HIDE DEF k
<1>3. a \in CapturePage /\ a.status \in {"error", "ai", "completed"}
  BY <1>1, AnsweredPageTyped
<1> HIDE DEF a
<1>4. p \in PageMaps /\ \A c \in Captures : p[c] = state.page[c] \/ (c = k.key /\ k.valid /\ p[c].status \in {"error", "ai", "completed"})
  BY <1>1, <1>3 DEF PageMaps, IsCurrentPageEntry
<1>5. s = [state EXCEPT !.page = p]
  <2>1. CASE IsCurrentPageEntry(k)
    BY <2>1
  <2>2. CASE ~IsCurrentPageEntry(k)
    <3>1. s = state /\ p = state.page
      BY <2>2
    <3> HIDE DEF s, p
    <3>2. state = [state EXCEPT !.page = state.page]
      BY <1>0 DEF CaptureState
    <3> QED
      BY <3>1, <3>2
  <2> QED
    BY <2>1, <2>2
<1> HIDE DEF s, p
<1>6. s.tasks = state.tasks
  BY <1>0, <1>5 DEF CaptureState
<1>7. CASE GoesOnToAi(k, ok)
  <2>1. state' = [s EXCEPT !.tasks[i].at = "ai"]
    BY <1>2, <1>7
  <2>2. state' = [state EXCEPT !.page = p, !.tasks[i].at = "ai"]
    BY <1>5, <2>1
  <2>3. state.tasks[i].valid
    BY <1>7 DEF GoesOnToAi, k
  <2>4. \A c \in Captures : p[c] = state.page[c] \/ (c = state.tasks[i].key /\ p[c].status \in {"error", "ai", "completed"})
    BY <1>4 DEF k
  <2>5. RunFits(state') /\ SameJob(state, state') /\ state'.aiConfigured = state.aiConfigured /\ PagesHold(state, state')
    BY <1>0, <1>4, <2>2, <2>3, <2>4, TaskGoesOn
  <2> QED
    BY <1>0, <2>5, SameIdsFit, StepInv
<1>8. CASE ~GoesOnToAi(k, ok)
  <2>1. state' = PumpPageQueue([s EXCEPT !.tasks = RemoveAt(s.tasks, i)])
    BY <1>2, <1>8, Zenon
  <2>2. [s EXCEPT !.tasks = RemoveAt(s.tasks, i)] = [state EXCEPT !.page = p, !.tasks = RemoveAt(state.tasks, i)]
    BY <1>5, <1>6
  <2>3. \A c \in Captures : p[c] = state.page[c] \/ (c = state.tasks[i].key /\ state.tasks[i].valid /\ p[c].status # "ready")
    BY <1>4 DEF k
  <2>4. state' = PumpPageQueue([state EXCEPT !.page = p, !.tasks = RemoveAt(state.tasks, i)])
    BY <2>1, <2>2, Zenon
  <2> QED
    BY <1>0, <1>4, <2>3, <2>4, TaskGoneStep
<1> QED
  BY <1>7, <1>8

LEMMA CorrectionCancelledStep ==
  ASSUME CaptureInv, NEW i, CorrectionCancelled(i)
  PROVE  CaptureInv' /\ PagesHold(state, state')
<1> DEFINE key == state.tasks[i].key
           st  == IF state.page[key].text # "none" THEN "completed" ELSE "cancelled"
           a   == [state.page[key] EXCEPT !.status = st, !.ai = "idle"]
           p   == [state.page EXCEPT ![key] = a]
<1>0. state \in CaptureState /\ i \in DOMAIN state.tasks /\ state.tasks[i].valid /\ jobs' = jobs
  BY InvParts DEF CorrectionCancelled
<1>1. key \in Captures /\ state.page \in [Captures -> CapturePage]
  <2>1. state.tasks \in Seq(PageTask) /\ state.page \in [Captures -> CapturePage]
    BY <1>0 DEF CaptureState, TaskSeqs, PageMaps
  <2>2. \A x \in PageTask : x.key \in Captures
    BY DEF PageTask
  <2> QED
    BY <1>0, <2>1, <2>2
<1>2. st \in {"completed", "cancelled"}
  OBVIOUS
<1>3. /\ state' = PumpPageQueue([[state EXCEPT !.page[key].status = st, !.page[key].ai = "idle"] EXCEPT !.tasks = RemoveAt(@, i)])
  BY Zenon DEF CorrectionCancelled
<1> HIDE DEF key, st
<1>4. a \in CapturePage /\ a.status = st
  <2>1. \A pg \in CapturePage : /\ [pg EXCEPT !.status = st, !.ai = "idle"] \in CapturePage
                                /\ [pg EXCEPT !.status = st, !.ai = "idle"].status = st
    BY <1>2, ZenonT(60) DEF CapturePage, TerminalStatuses
  <2> QED
    BY <1>1, <2>1
<1>5. p \in PageMaps /\ \A c \in Captures : p[c] = state.page[c] \/ (c = key /\ p[c].status # "ready")
  <2> HIDE DEF a
  <2> QED
    BY <1>1, <1>2, <1>4 DEF PageMaps
<1>6. [[state EXCEPT !.page[key].status = st, !.page[key].ai = "idle"] EXCEPT !.tasks = RemoveAt(@, i)]
      = [state EXCEPT !.page = p, !.tasks = RemoveAt(state.tasks, i)]
  BY <1>0, <1>1, ZenonT(60) DEF CaptureState
<1> HIDE DEF p
<1>7. state' = PumpPageQueue([state EXCEPT !.page = p, !.tasks = RemoveAt(state.tasks, i)])
  BY <1>3, <1>6, Zenon
<1>8. \A c \in Captures : p[c] = state.page[c] \/ (c = state.tasks[i].key /\ state.tasks[i].valid /\ p[c].status # "ready")
  BY <1>0, <1>5 DEF key
<1> QED
  BY <1>0, <1>5, <1>7, <1>8, TaskGoneStep

LEMMA GhostEndsStep ==
  ASSUME CaptureInv, GhostEnds
  PROVE  CaptureInv' /\ PagesHold(state, state')
<1> DEFINE g == state.ghosts - 1
           t == [state EXCEPT !.ghosts = g]
<1>0. /\ state \in CaptureState /\ CapturesFit(state) /\ WorkFits(state) /\ (~state.aiConfigured => DraftsFit(state))
      /\ IdsKnown(state, Len(jobs))
  BY InvParts
<1>1. state' = PumpPageQueue(t) /\ jobs' = jobs /\ state.ghosts > 0
  BY DEF GhostEnds
<1>2. g \in Nat
  BY <1>0, <1>1 DEF CaptureState
<1> HIDE DEF g
<1>3. t \in CaptureState
  BY <1>0, <1>2, ZenonT(60) DEF CaptureState
<1>4. /\ SameJob(state, t) /\ SameMode(state, t) /\ SameCaptures(state, t) /\ SameDrafts(state, t) /\ SameAssembly(state, t)
      /\ t.queue = state.queue /\ t.tasks = state.tasks /\ t.page = state.page
  BY <1>0 DEF CaptureState, SameJob, SameMode, SameCaptures, SameDrafts, SameAssembly
<1> HIDE DEF t
<1>5. CapturesFit(t) /\ WorkFits(t)
  BY <1>0, <1>4, SameCapturesFit DEF WorkFits, SameCaptures, SameAssembly, IsCapture, Under
<1>6. ~t.aiConfigured => DraftsFit(t)
  BY <1>0, <1>4, SameDraftsFit DEF SameMode
<1>7. PumpReady(t)
  BY <1>3, <1>5, <1>6 DEF PumpReady
<1>8. RunFits(state') /\ SameJob(t, state') /\ SameMode(t, state') /\ PagesHold(t, state')
  BY <1>1, <1>7, PumpedRun
<1>9. SameJob(state, state') /\ state'.aiConfigured = state.aiConfigured /\ PagesHold(state, state')
  BY <1>4, <1>8 DEF SameJob, SameMode, PagesHold, Under
<1> QED
  BY <1>0, <1>1, <1>8, <1>9, SameIdsFit, StepInv

LEMMA AssemblyAnsweredStep ==
  ASSUME CaptureInv, NEW ok \in BOOLEAN, AssemblyAnswered(ok)
  PROVE  CaptureInv' /\ PagesHold(state, state')
<1> DEFINE none == <<>>
           ex   == IF ok THEN Head(state.assembly) ELSE state.extraction
           t    == [state EXCEPT !.assembly = none, !.processing = FALSE, !.finalizing = FALSE, !.visible = FALSE, !.extraction = ex]
<1>0. /\ state \in CaptureState /\ CapturesFit(state) /\ WorkFits(state) /\ QueueFits(state) /\ (~state.aiConfigured => DraftsFit(state))
      /\ IdsKnown(state, Len(jobs))
  BY InvParts DEF RunFits
<1>1. state' = t /\ jobs' = jobs /\ state.assembly # <<>>
  BY DEF AssemblyAnswered
<1>2. none \in SeqsOfSeqs /\ ex \in CaptureSeqs
  BY <1>0, <1>1 DEF CaptureState, SeqsOfSeqs
<1> HIDE DEF none, ex
<1>3. t \in CaptureState
  BY <1>0, <1>2, ZenonT(60) DEF CaptureState
<1>4. /\ SameJob(state, t) /\ SameMode(state, t) /\ SameCaptures(state, t) /\ SameWork(state, t) /\ SameDrafts(state, t)
      /\ t.page = state.page /\ t.processing = FALSE /\ t.finalizing = FALSE /\ t.assembly = <<>> /\ t.confirm = state.confirm
  BY <1>0 DEF CaptureState, SameJob, SameMode, SameCaptures, SameWork, SameDrafts, none
<1> HIDE DEF t
<1>5. CapturesFit(t) /\ WorkFits(t) /\ QueueFits(t)
  BY <1>0, <1>4, SameCapturesFit, SameWorkFits, SameQueueFits DEF SameWork
<1>6. ~t.aiConfigured => DraftsFit(t)
  BY <1>0, <1>4 DEF SameMode, DraftsFit, SameJob, SameCaptures, SameDrafts, Heads, LiveHeads
<1>7. RunFits(t)
  BY <1>3, <1>4, <1>5, <1>6 DEF RunFits, PumpReady, WorkGoesOn
<1>8. PagesHold(state, t)
  BY <1>4 DEF PagesHold
<1> QED
  BY <1>0, <1>1, <1>4, <1>7, <1>8, SameIdsFit, StepInv DEF SameMode

--------------------------------------------------------------------------------

HoldsBut(s, t, c) ==
  \A d \in Captures \ {c} : Under(s, d) \in {"cancelled", "manual"} => t.page[d] = s.page[d]

\* What the user does to a page: it leaves the queue, and what is left of it is pumped.
LEMMA CancelCaptureStep ==
  ASSUME CaptureInv, NEW c \in Captures, CancelCaptureProcessing(c)
  PROVE  CaptureInv' /\ HoldsBut(state, state', c)
<1> DEFINE w == Withdraw(state, c)
           p == [w.page EXCEPT ![c] = StopPage(w.page[c])]
           t == [w EXCEPT !.page = p]
<1>0. state \in CaptureState /\ PumpReady(state) /\ IdsKnown(state, Len(jobs))
  BY InvParts
<1>1. state' = PumpPageQueue(t) /\ jobs' = jobs
  BY DEF CancelCaptureProcessing
<1>2. w \in CaptureState /\ w.page = state.page
  BY <1>0, WithdrawnOf
<1> HIDE DEF w
<1>3. w.page \in [Captures -> CapturePage]
  BY <1>2 DEF CaptureState, PageMaps
<1>4. p \in PageMaps /\ \A d \in Captures : d # c => p[d] = state.page[d]
  BY <1>2, <1>3, StopPageTyped DEF PageMaps
<1> HIDE DEF p
<1>5. t \in CaptureState
  BY <1>2, <1>4, ZenonT(60) DEF CaptureState
<1>6. /\ SameJob(w, t) /\ SameMode(w, t) /\ SameCaptures(w, t) /\ SameDrafts(w, t) /\ SameAssembly(w, t)
      /\ t.queue = w.queue /\ t.tasks = w.tasks /\ t.page = p
  BY <1>2 DEF CaptureState, SameJob, SameMode, SameCaptures, SameDrafts, SameAssembly
<1> HIDE DEF t
<1>7. PumpReady(t) /\ SameJob(state, t) /\ t.aiConfigured = state.aiConfigured
  BY <1>0, <1>4, <1>5, <1>6, WithdrawnReady DEF w, SameMode
<1>8. RunFits(state') /\ SameJob(t, state') /\ SameMode(t, state') /\ PagesHold(t, state')
  BY <1>1, <1>7, PumpedRun
<1>9. SameJob(state, state') /\ state'.aiConfigured = state.aiConfigured
  BY <1>7, <1>8 DEF SameJob, SameMode
<1>10. HoldsBut(state, state', c)
  BY <1>4, <1>6, <1>8 DEF PagesHold, HoldsBut, Under
<1> QED
  BY <1>0, <1>1, <1>8, <1>9, <1>10, SameIdsFit, StepInv

\* A page that is captured is stored.
LEMMA CaptureStored ==
  ASSUME NEW s \in CaptureState, CapturesFit(s), NEW c, IsCapture(s, c)
  PROVE  /\ c \in s.stored /\ c \in Captures
         /\ <<c>> \in CaptureSeqs /\ IsInjective(<<c>>) /\ ToSet(<<c>>) = {c}
<1>1. c \in s.stored /\ c \in Captures
  BY DEF CapturesFit, IsCapture, CaptureState, CaptureSets
<1>2. <<c>> \in CaptureSeqs /\ IsInjective(<<c>>) /\ ToSet(<<c>>) = {c}
  BY <1>1 DEF CaptureSeqs, IsInjective, ToSet
<1> QED
  BY <1>1, <1>2

\* A page that has left the queue enters it again, in a run that goes on.
LEMMA RequeuedStep ==
  ASSUME CaptureInv, NEW c \in Captures, IsCapture(state, c), NEW t \in CaptureState, NEW w, w = Withdraw(state, c),
         SameJob(w, t), t.aiConfigured = w.aiConfigured, ~state.aiConfigured => t.verifyWithAi = w.verifyWithAi,
         SameCaptures(w, t), SameDrafts(w, t), SameAssembly(w, t), t.queue = w.queue, t.tasks = w.tasks,
         \A d \in Captures : d # c => t.page[d] = state.page[d],
         NEW ai \in BOOLEAN, NEW mode \in {"full", "ai-only"},
         state' = PumpPageQueue(EnqueueCapture(t, c, ai, mode)), jobs' = jobs
  PROVE  CaptureInv' /\ HoldsBut(state, state', c)
<1> DEFINE e == EnqueueCapture(t, c, ai, mode)
<1>0. state \in CaptureState /\ PumpReady(state) /\ CapturesFit(state) /\ IdsKnown(state, Len(jobs))
  BY InvParts
<1>1. /\ PumpReady(t) /\ SameJob(state, t) /\ t.aiConfigured = state.aiConfigured /\ SameCaptures(state, t)
      /\ \A i \in DOMAIN t.queue : t.queue[i].key # c
  BY <1>0, WithdrawnReady
<1>2. c \in t.stored
  BY <1>0, <1>1, CaptureStored DEF SameCaptures
<1>3. /\ PumpReady(e) /\ SameJob(t, e) /\ SameMode(t, e)
      /\ \A d \in Captures : d # c => e.page[d] = t.page[d]
  BY <1>1, <1>2, EnqueuedReady
<1>4. state' = PumpPageQueue(e)
  OBVIOUS
<1> HIDE DEF e
<1>5. RunFits(state') /\ SameJob(e, state') /\ SameMode(e, state') /\ PagesHold(e, state')
  BY <1>3, <1>4, PumpedRun
<1>6. SameJob(state, state') /\ state'.aiConfigured = state.aiConfigured
  BY <1>1, <1>3, <1>5 DEF SameJob, SameMode
<1>7. HoldsBut(state, state', c)
  BY <1>3, <1>5 DEF PagesHold, HoldsBut, Under
<1> QED
  BY <1>0, <1>5, <1>6, <1>7, SameIdsFit, StepInv

LEMMA RetryCaptureStep ==
  ASSUME CaptureInv, NEW c \in Captures, RetryCaptureProcessing(c)
  PROVE  CaptureInv' /\ HoldsBut(state, state', c)
<1> DEFINE w == Withdraw(state, c)
           p == [w.page EXCEPT ![c] = NewPage]
           s == [w EXCEPT !.page = p]
           v == s.aiConfigured
           t == [s EXCEPT !.verifyWithAi = v, !.processing = TRUE, !.visible = TRUE]
<1>0. /\ state \in CaptureState /\ RunFits(state) /\ CapturesFit(state) /\ IdsKnown(state, Len(jobs)) /\ Len(jobs) \in Nat
      /\ IsCapture(state, c) /\ jobs' = jobs /\ (~state.aiConfigured => DraftsFit(state)) /\ state.aiConfigured \in BOOLEAN
  BY InvParts DEF RetryCaptureProcessing
<1>1. state' = IF c \in PdfCaptures /\ s.aiConfigured THEN StartAutomaticCaptureProcessing(s, <<c>>)
               ELSE PumpPageQueue(EnqueueCapture(t, c, s.aiConfigured, "full"))
  BY DEF RetryCaptureProcessing
<1>2. w \in CaptureState /\ w.page = state.page /\ SameMode(state, w)
  BY <1>0, WithdrawnOf
<1> HIDE DEF w
<1>3. w.page \in [Captures -> CapturePage] /\ NewPage \in CapturePage /\ w.aiConfigured \in BOOLEAN
  BY <1>2 DEF CaptureState, PageMaps, NewPage, CapturePage
<1>4. p \in PageMaps /\ \A d \in Captures : d # c => p[d] = state.page[d]
  BY <1>2, <1>3 DEF PageMaps
<1> HIDE DEF p
<1>5. s \in CaptureState
  BY <1>2, <1>4, ZenonT(60) DEF CaptureState
<1>6. /\ SameJob(w, s) /\ SameMode(w, s) /\ SameCaptures(w, s) /\ SameDrafts(w, s) /\ SameAssembly(w, s)
      /\ s.queue = w.queue /\ s.tasks = w.tasks /\ s.page = p /\ s.aiConfigured = w.aiConfigured
  BY <1>2 DEF CaptureState, SameJob, SameMode, SameCaptures, SameDrafts, SameAssembly
<1> HIDE DEF s
<1>7. CASE c \in PdfCaptures /\ s.aiConfigured
  <2>1. state' = StartAutomaticCaptureProcessing(s, <<c>>)
    BY <1>1, <1>7
  <2>2. state.aiConfigured = TRUE
    BY <1>0, <1>2, <1>6, <1>7 DEF SameMode
  <2>3. RunFits(s) /\ SameJob(state, s) /\ s.aiConfigured = TRUE /\ SameCaptures(state, s)
    BY <1>0, <1>4, <1>5, <1>6, <2>2, WithdrawnRun DEF w
  <2>4. <<c>> \in CaptureSeqs /\ IsInjective(<<c>>) /\ ToSet(<<c>>) \subseteq s.stored
    <3>1. /\ c \in state.stored /\ <<c>> \in CaptureSeqs /\ IsInjective(<<c>>) /\ ToSet(<<c>>) = {c}
      BY <1>0, CaptureStored
    <3> QED
      BY <2>3, <3>1 DEF SameCaptures
  <2>5. IdsKnown(s, Len(jobs))
    BY <1>0, <2>3, SameIdsFit
  <2>6. RunFits(state') /\ IdsKnown(state', Len(jobs)) /\ state'.aiConfigured = s.aiConfigured /\ PagesHold(s, state')
    BY <1>0, <2>1, <2>3, <2>4, <2>5, StartedRun
  <2>7. HoldsBut(state, state', c)
    BY <1>4, <1>6, <2>6 DEF PagesHold, HoldsBut, Under
  <2> QED
    BY <1>0, <2>2, <2>3, <2>6, <2>7, StepInv
<1>8. CASE ~(c \in PdfCaptures /\ s.aiConfigured)
  <2>1. state' = PumpPageQueue(EnqueueCapture(t, c, s.aiConfigured, "full"))
    BY <1>1, <1>8
  <2>2. v \in BOOLEAN /\ (~state.aiConfigured => v = w.verifyWithAi)
    BY <1>0, <1>2, <1>3, <1>6 DEF SameMode, DraftsFit, CaptureState
  <2> HIDE DEF v
  <2>3. t \in CaptureState
    BY <1>5, <2>2, ZenonT(60) DEF CaptureState
  <2>4. /\ SameJob(s, t) /\ t.aiConfigured = s.aiConfigured /\ t.verifyWithAi = v /\ SameCaptures(s, t) /\ SameDrafts(s, t)
        /\ SameAssembly(s, t) /\ t.queue = s.queue /\ t.tasks = s.tasks /\ t.page = s.page
    BY <1>5 DEF CaptureState, SameJob, SameCaptures, SameDrafts, SameAssembly
  <2> HIDE DEF t
  <2>5. /\ SameJob(w, t) /\ t.aiConfigured = w.aiConfigured /\ (~state.aiConfigured => t.verifyWithAi = w.verifyWithAi)
        /\ SameCaptures(w, t) /\ SameDrafts(w, t)
        /\ SameAssembly(w, t) /\ t.queue = w.queue /\ t.tasks = w.tasks /\ t.page = p
    BY <1>6, <2>2, <2>4 DEF SameJob, SameCaptures, SameDrafts, SameAssembly
  <2>6. s.aiConfigured \in BOOLEAN
    BY <1>3, <1>6
  <2> QED
    BY <1>0, <1>4, <2>1, <2>3, <2>5, <2>6, RequeuedStep DEF w
<1> QED
  BY <1>7, <1>8

LEMMA RetryAiStep ==
  ASSUME CaptureInv, NEW c \in Captures, RetryAiCorrection(c)
  PROVE  CaptureInv' /\ HoldsBut(state, state', c)
<1> DEFINE w == Withdraw(state, c)
           p == [w.page EXCEPT ![c] = [w.page[c] EXCEPT !.code = "none", !.ai = "idle"]]
           t == [w EXCEPT !.page = p, !.processing = TRUE, !.visible = TRUE]
<1>0. state \in CaptureState /\ PumpReady(state) /\ IsCapture(state, c) /\ jobs' = jobs
  BY InvParts DEF RetryAiCorrection
<1>2. w \in CaptureState /\ w.page = state.page
  BY <1>0, WithdrawnOf
<1>1. state' = PumpPageQueue(EnqueueCapture(t, c, TRUE, "ai-only"))
  <2>1. state' = PumpPageQueue(EnqueueCapture([w EXCEPT !.page[c].code = "none", !.page[c].ai = "idle",
                                  !.processing = TRUE, !.visible = TRUE], c, TRUE, "ai-only"))
    BY Zenon DEF RetryAiCorrection
  <2> HIDE DEF w
  <2>2. [w EXCEPT !.page[c].code = "none", !.page[c].ai = "idle", !.processing = TRUE, !.visible = TRUE] = t
    <3>1. w.page \in [Captures -> CapturePage]
      BY <1>2 DEF CaptureState, PageMaps
    <3> QED
      BY <1>2, <3>1, ZenonT(60) DEF CaptureState
  <2> HIDE DEF t
  <2> QED
    BY <2>1, <2>2, Zenon
<1> HIDE DEF w
<1>3. w.page \in [Captures -> CapturePage]
  BY <1>2 DEF CaptureState, PageMaps
<1>4. p \in PageMaps /\ \A d \in Captures : d # c => p[d] = state.page[d]
  <2>1. \A pg \in CapturePage : [pg EXCEPT !.code = "none", !.ai = "idle"] \in CapturePage
    BY DEF CapturePage
  <2> QED
    BY <1>2, <1>3, <2>1 DEF PageMaps
<1> HIDE DEF p
<1>5. t \in CaptureState
  BY <1>2, <1>4, ZenonT(60) DEF CaptureState
<1>6. /\ SameJob(w, t) /\ SameMode(w, t) /\ SameCaptures(w, t) /\ SameDrafts(w, t) /\ SameAssembly(w, t)
      /\ t.queue = w.queue /\ t.tasks = w.tasks /\ t.page = p
  BY <1>2 DEF CaptureState, SameJob, SameMode, SameCaptures, SameDrafts, SameAssembly
<1> HIDE DEF t
<1> QED
  BY <1>0, <1>1, <1>4, <1>5, <1>6, RequeuedStep DEF w, SameMode

LEMMA UseManualReviewStep ==
  ASSUME CaptureInv, NEW c \in Captures, UseManualReview(c)
  PROVE  CaptureInv' /\ HoldsBut(state, state', c)
<1> DEFINE w == Withdraw(state, c)
           p == [w.page EXCEPT ![c] = [w.page[c] EXCEPT !.status = "manual"]]
           t == [w EXCEPT !.page = p, !.processing = TRUE, !.visible = TRUE]
<1>0. state \in CaptureState /\ PumpReady(state) /\ IdsKnown(state, Len(jobs))
  BY InvParts
<1>1. state' = PumpPageQueue(t) /\ jobs' = jobs
  BY DEF UseManualReview
<1>2. w \in CaptureState /\ w.page = state.page
  BY <1>0, WithdrawnOf
<1> HIDE DEF w
<1>3. w.page \in [Captures -> CapturePage]
  BY <1>2 DEF CaptureState, PageMaps
<1>4. p \in PageMaps /\ \A d \in Captures : d # c => p[d] = state.page[d]
  <2>1. \A pg \in CapturePage : [pg EXCEPT !.status = "manual"] \in CapturePage
    BY DEF CapturePage, TerminalStatuses
  <2> QED
    BY <1>2, <1>3, <2>1 DEF PageMaps
<1> HIDE DEF p
<1>5. t \in CaptureState
  BY <1>2, <1>4, ZenonT(60) DEF CaptureState
<1>6. /\ SameJob(w, t) /\ SameMode(w, t) /\ SameCaptures(w, t) /\ SameDrafts(w, t) /\ SameAssembly(w, t)
      /\ t.queue = w.queue /\ t.tasks = w.tasks /\ t.page = p
  BY <1>2 DEF CaptureState, SameJob, SameMode, SameCaptures, SameDrafts, SameAssembly
<1> HIDE DEF t
<1>7. PumpReady(t) /\ SameJob(state, t) /\ t.aiConfigured = state.aiConfigured
  BY <1>0, <1>4, <1>5, <1>6, WithdrawnReady DEF w, SameMode
<1>8. RunFits(state') /\ SameJob(t, state') /\ SameMode(t, state') /\ PagesHold(t, state')
  BY <1>1, <1>7, PumpedRun
<1>9. SameJob(state, state') /\ state'.aiConfigured = state.aiConfigured
  BY <1>7, <1>8 DEF SameJob, SameMode
<1>10. HoldsBut(state, state', c)
  BY <1>4, <1>6, <1>8 DEF PagesHold, HoldsBut, Under
<1> QED
  BY <1>0, <1>1, <1>8, <1>9, <1>10, SameIdsFit, StepInv

LEMMA UserActsStep ==
  ASSUME CaptureInv, NEW c \in Captures, UserActs(c)
  PROVE  CaptureInv' /\ HoldsBut(state, state', c)
BY CancelCaptureStep, RetryCaptureStep, RetryAiStep, UseManualReviewStep DEF UserActs

LEMMA CancelAllStep ==
  ASSUME CaptureInv, CancelAll
  PROVE  CaptureInv' /\ PagesHold(state, state')
<1>1. state' = CancelReceiptExtraction(state) /\ jobs' = jobs
  BY DEF CancelAll
<1>2. RunFits(state) /\ IdsKnown(state, Len(jobs)) /\ Len(jobs) \in Nat
  BY InvParts
<1>3. RunFits(state') /\ IdsKnown(state', Len(jobs)) /\ state'.aiConfigured = state.aiConfigured /\ PagesHold(state, state')
  BY <1>1, <1>2, CancelledRun
<1> QED
  BY <1>1, <1>3, StepInv

\* The requests change, and nothing else does: without AI there are none.
LEMMA RequestsStep ==
  ASSUME CaptureInv, state.aiConfigured = TRUE, state' \in CaptureState, SameMode(state, state'), SameCaptures(state, state'),
         SameWork(state, state'), SameAssembly(state, state'), state'.page = state.page,
         IdsKnown(state', Len(jobs)), jobs' = jobs
  PROVE  CaptureInv' /\ PagesHold(state, state')
<1> DEFINE t == state'
<1>0. RunFits(state) /\ WorkFits(state)
  BY InvParts
<1>1. t \in CaptureState /\ t.aiConfigured = TRUE /\ SameCaptures(state, t) /\ t.queue = state.queue /\ t.tasks = state.tasks
      /\ PagesMove(state, t) /\ (t.finalizing => t.assembly # <<>>) /\ IdsKnown(t, Len(jobs)) /\ PagesHold(state, t)
  BY <1>0 DEF SameMode, SameWork, PagesMove, WorkFits, SameAssembly, PagesHold
<1> HIDE DEF t
<1>2. RunFits(t)
  BY <1>0, <1>1, MovedRun
<1>3. RunFits(state') /\ IdsKnown(state', Len(jobs)) /\ state'.aiConfigured = state.aiConfigured /\ PagesHold(state, state')
  BY <1>1, <1>2 DEF t
<1> QED
  BY <1>3, StepInv

LEMMA RetryFailedJobStep ==
  ASSUME CaptureInv, NEW c \in Captures, RetryFailedJob(c)
  PROVE  CaptureInv' /\ PagesHold(state, state')
<1> DEFINE p == [kind |-> "retry", caps |-> ActiveJobCaptures(state), token |-> TRUE, latest |-> TRUE, id |-> 0]
           P == state.posts \cup {p}
<1>0. state \in CaptureState /\ IdsKnown(state, Len(jobs)) /\ Len(jobs) \in Nat
  BY InvParts
<1>1. /\ state' = [state EXCEPT !.posts = P] /\ jobs' = jobs /\ state.aiConfigured = TRUE
      /\ \A q \in state.posts : q.kind # "retry"
  BY <1>0 DEF RetryFailedJob, CaptureState
<1>2. p \in JobPost /\ p.id = 0
  BY <1>0, ActiveJobCapturesOf DEF JobPost
<1> HIDE DEF p
<1>3. P \in PostSets
  BY <1>0, <1>2 DEF CaptureState, PostSets
<1>4. IsFiniteSet(P) /\ (\A q \in P : q.id <= Len(jobs)) /\ \A q, r \in P : q.kind = "retry" /\ r.kind = "retry" => q = r
  <2>1. IsFiniteSet(P)
    BY <1>0, FS_AddElement DEF IdsKnown
  <2> QED
    BY <1>0, <1>1, <1>2, <2>1 DEF IdsKnown
<1> HIDE DEF P
<1>5. state' \in CaptureState
  BY <1>0, <1>1, <1>3, ZenonT(60) DEF CaptureState
<1>6. /\ SameMode(state, state') /\ SameCaptures(state, state') /\ SameWork(state, state') /\ SameAssembly(state, state')
      /\ state'.page = state.page /\ state'.posts = P /\ state'.reads = state.reads /\ state'.activeJobId = state.activeJobId
  BY <1>0, <1>1 DEF CaptureState, SameMode, SameCaptures, SameWork, SameAssembly
<1>7. IdsKnown(state', Len(jobs))
  BY <1>0, <1>4, <1>6 DEF IdsKnown
<1> QED
  BY <1>1, <1>5, <1>6, <1>7, RequestsStep

LEMMA JobNewsStep ==
  ASSUME CaptureInv, JobNews
  PROVE  CaptureInv' /\ PagesHold(state, state')
<1>1. state' = Refresh(state, FALSE) /\ jobs' = jobs
  BY DEF JobNews, RefreshReceiptExtractionJob
<1>2. RunFits(state) /\ IdsKnown(state, Len(jobs)) /\ Len(jobs) \in Nat
  BY InvParts
<1>3. RunFits(state') /\ IdsKnown(state', Len(jobs)) /\ state'.aiConfigured = state.aiConfigured /\ state'.page = state.page
  BY <1>1, <1>2, RefreshedRun
<1> QED
  BY <1>1, <1>3, StepInv DEF PagesHold

\* Where a request is under way, AI is configured.
LEMMA RequestsAreOfAi ==
  ASSUME CaptureInv
  PROVE  /\ state.posts # {} \/ state.reads # {} \/ state.activeJobId # 0 \/ jobs # <<>> => state.aiConfigured = TRUE
BY InvParts DEF DraftsFit

LEMMA ServerReadsStep ==
  ASSUME CaptureInv, NEW r \in state.reads, ServerReads(r)
  PROVE  CaptureInv' /\ PagesHold(state, state')
<1> DEFINE st == jobs[r.id].st
           a  == [r EXCEPT !.st = st]
           R  == (state.reads \ {r}) \cup {a}
<1>0. state \in CaptureState /\ IdsKnown(state, Len(jobs)) /\ jobs \in Seq(ServerJob) /\ state.aiConfigured = TRUE
  BY InvParts, RequestsAreOfAi
<1>1. state' = [state EXCEPT !.reads = R] /\ jobs' = jobs
  BY DEF ServerReads
<1>2. r \in ReadOfJob /\ state.reads \in SUBSET ReadOfJob
  BY <1>0 DEF CaptureState, ReadSets
<1>3. st \in JobStatuses
  <2>1. r.id \in DOMAIN jobs
    BY <1>0 DEF IdsKnown
  <2>2. \A j \in ServerJob : j.st \in JobStatuses
    BY DEF ServerJob
  <2> QED
    BY <1>0, <2>1, <2>2
<1> HIDE DEF st
<1>4. a \in ReadOfJob /\ a.id = r.id
  BY <1>2, <1>3 DEF ReadOfJob
<1> HIDE DEF a
<1>5. R \in ReadSets /\ \A q \in R : q.id \in 1 .. Len(jobs)
  BY <1>0, <1>2, <1>4 DEF ReadSets, IdsKnown
<1> HIDE DEF R
<1>6. state' \in CaptureState
  BY <1>0, <1>1, <1>5, ZenonT(60) DEF CaptureState
<1>7. /\ SameMode(state, state') /\ SameCaptures(state, state') /\ SameWork(state, state') /\ SameAssembly(state, state')
      /\ state'.page = state.page /\ state'.posts = state.posts /\ state'.reads = R /\ state'.activeJobId = state.activeJobId
  BY <1>0, <1>1 DEF CaptureState, SameMode, SameCaptures, SameWork, SameAssembly
<1>8. IdsKnown(state', Len(jobs))
  BY <1>0, <1>5, <1>7 DEF IdsKnown
<1> QED
  BY <1>0, <1>1, <1>6, <1>7, <1>8, RequestsStep

\* A read, or a request for a job, is no longer waited for.
LEMMA ReadGoneOf ==
  ASSUME NEW s \in CaptureState, NEW r, NEW t, t = ReadGone(s, r)
  PROVE  /\ t \in CaptureState /\ SameMode(s, t) /\ SameCaptures(s, t) /\ SameWork(s, t) /\ SameDrafts(s, t) /\ SameAssembly(s, t)
         /\ t.page = s.page /\ t.processing = s.processing /\ t.posts = s.posts /\ t.reads = s.reads \ {r} /\ t.activeJobId = s.activeJobId
<1> DEFINE R  == s.reads \ {r}
           sc == IF r.latest THEN <<>> ELSE s.pendingScope
<1>1. t = [s EXCEPT !.reads = R, !.pendingScope = sc]
  BY Zenon DEF ReadGone
<1>2. R \in ReadSets /\ sc \in CaptureSeqs
  BY DEF CaptureState, ReadSets, CaptureSeqs
<1> HIDE DEF R, sc
<1>3. t \in CaptureState
  BY <1>1, <1>2, ZenonT(60) DEF CaptureState
<1>4. /\ SameMode(s, t) /\ SameCaptures(s, t) /\ SameWork(s, t) /\ SameDrafts(s, t) /\ SameAssembly(s, t)
      /\ t.page = s.page /\ t.processing = s.processing /\ t.posts = s.posts /\ t.reads = R /\ t.activeJobId = s.activeJobId
  BY <1>1 DEF CaptureState, SameMode, SameCaptures, SameWork, SameDrafts, SameAssembly
<1> QED
  BY <1>3, <1>4 DEF R

LEMMA PostGoneOf ==
  ASSUME NEW s \in CaptureState, NEW p, NEW t, t = PostGone(s, p)
  PROVE  /\ t \in CaptureState /\ SameMode(s, t) /\ SameCaptures(s, t) /\ SameWork(s, t) /\ SameDrafts(s, t) /\ SameAssembly(s, t)
         /\ t.page = s.page /\ t.processing = s.processing /\ t.posts = s.posts \ {p} /\ t.reads = s.reads /\ t.activeJobId = s.activeJobId
<1> DEFINE P  == s.posts \ {p}
           sc == IF p.latest THEN <<>> ELSE s.pendingScope
<1>1. t = [s EXCEPT !.posts = P, !.pendingScope = sc]
  BY Zenon DEF PostGone
<1>2. P \in PostSets /\ sc \in CaptureSeqs
  BY DEF CaptureState, PostSets, CaptureSeqs
<1> HIDE DEF P, sc
<1>3. t \in CaptureState
  BY <1>1, <1>2, ZenonT(60) DEF CaptureState
<1>4. /\ SameMode(s, t) /\ SameCaptures(s, t) /\ SameWork(s, t) /\ SameDrafts(s, t) /\ SameAssembly(s, t)
      /\ t.page = s.page /\ t.processing = s.processing /\ t.posts = P /\ t.reads = s.reads /\ t.activeJobId = s.activeJobId
  BY <1>1 DEF CaptureState, SameMode, SameCaptures, SameWork, SameDrafts, SameAssembly
<1> QED
  BY <1>3, <1>4 DEF P

LEMMA ReadFailsStep ==
  ASSUME CaptureInv, NEW r \in state.reads, ReadFails(r)
  PROVE  CaptureInv' /\ PagesHold(state, state')
<1>0. state \in CaptureState /\ IdsKnown(state, Len(jobs)) /\ state.aiConfigured = TRUE
  BY InvParts, RequestsAreOfAi
<1>1. state' = ReadGone(state, r) /\ jobs' = jobs
  BY DEF ReadFails
<1>2. /\ state' \in CaptureState /\ SameMode(state, state') /\ SameCaptures(state, state') /\ SameWork(state, state')
      /\ SameAssembly(state, state') /\ state'.page = state.page /\ state'.posts = state.posts
      /\ state'.reads = state.reads \ {r} /\ state'.activeJobId = state.activeJobId
  BY <1>0, <1>1, ReadGoneOf
<1>3. IdsKnown(state', Len(jobs))
  BY <1>0, <1>2 DEF IdsKnown
<1> QED
  BY <1>0, <1>1, <1>2, <1>3, RequestsStep

\* The server's jobs move on.
JobMoved(js, id, st) == [js EXCEPT ![id].st = st]

LEMMA JobMoves ==
  ASSUME NEW js \in Seq(ServerJob), NEW id, NEW st \in JobStatuses, NEW ks, ks = JobMoved(js, id, st)
  PROVE  ks \in Seq(ServerJob) /\ Len(ks) = Len(js) /\ (js = <<>> => ks = <<>>)
<1>1. \A j \in ServerJob : [j EXCEPT !.st = st] \in ServerJob
  BY DEF ServerJob
<1>2. js \in [1 .. Len(js) -> ServerJob] /\ Len(js) \in Nat /\ DOMAIN js = 1 .. Len(js)
  OBVIOUS
<1>3. ks \in [1 .. Len(js) -> ServerJob]
  BY <1>1, <1>2 DEF JobMoved
<1>4. ks \in Seq(ServerJob) /\ Len(ks) = Len(js)
  BY <1>2, <1>3
<1> QED
  BY <1>4

LEMMA JobRunsStep ==
  ASSUME CaptureInv, NEW id, NEW st \in {"running", "completed", "failed", "cancelled"}, JobRuns(id, st)
  PROVE  CaptureInv' /\ PagesHold(state, state')
<1>0. jobs \in Seq(ServerJob) /\ IdsKnown(state, Len(jobs)) /\ RunFits(state) /\ Len(jobs) <= MaxJobs
      /\ (~state.aiConfigured => jobs = <<>>)
  BY InvParts
<1>1. jobs' = [jobs EXCEPT ![id].st = st] /\ state' = state
  BY DEF JobRuns
<1>2. jobs' \in Seq(ServerJob) /\ Len(jobs') = Len(jobs) /\ (jobs = <<>> => jobs' = <<>>)
  <2>1. st \in JobStatuses
    BY DEF JobStatuses
  <2>2. jobs' = JobMoved(jobs, id, st)
    BY <1>1 DEF JobMoved
  <2> QED
    BY <1>0, <2>1, <2>2, JobMoves
<1>3. CaptureInv'
  BY <1>0, <1>1, <1>2 DEF CaptureInv
<1> QED
  BY <1>1, <1>3 DEF PagesHold

LEMMA ServerDeletesStep ==
  ASSUME CaptureInv, NEW id, NEW ok \in BOOLEAN, ServerDeletes(id, ok)
  PROVE  CaptureInv' /\ PagesHold(state, state')
<1> DEFINE D  == state.deletes \ {id}
           st == IF ok /\ jobs[id].st \in {"queued", "running"} THEN "cancelled" ELSE jobs[id].st
<1>0. /\ state \in CaptureState /\ jobs \in Seq(ServerJob) /\ IdsKnown(state, Len(jobs)) /\ RunFits(state) /\ Len(jobs) <= MaxJobs
      /\ (~state.aiConfigured => jobs = <<>>)
  BY InvParts
<1>1. jobs' = [jobs EXCEPT ![id].st = st] /\ state' = [state EXCEPT !.deletes = D]
  BY DEF ServerDeletes
<1>2. jobs' \in Seq(ServerJob) /\ Len(jobs') = Len(jobs) /\ (jobs = <<>> => jobs' = <<>>)
  <2>1. CASE id \in DOMAIN jobs
    <3>1. st \in JobStatuses
      <4>1. \A j \in ServerJob : j.st \in JobStatuses
        BY DEF ServerJob
      <4> QED
        BY <1>0, <2>1, <4>1 DEF JobStatuses
    <3> HIDE DEF st
    <3>2. jobs' = JobMoved(jobs, id, st)
      BY <1>1 DEF JobMoved
    <3> QED
      BY <1>0, <3>1, <3>2, JobMoves
  <2>2. CASE id \notin DOMAIN jobs
    <3>1. jobs' = jobs
      <4> HIDE DEF st
      <4>1. \A j \in DOMAIN jobs : j # id
        BY <2>2
      <4> QED
        BY <1>0, <1>1, <4>1
    <3> QED
      BY <1>0, <3>1
  <2> QED
    BY <2>1, <2>2
<1>3. D \in IdSets
  BY <1>0 DEF CaptureState, IdSets
<1> HIDE DEF D
<1>4. state' \in CaptureState
  BY <1>0, <1>1, <1>3, ZenonT(60) DEF CaptureState
<1>5. AllSame(state, state') /\ state'.page = state.page /\ state'.processing = state.processing
  BY <1>0, <1>1 DEF CaptureState, AllSame, SameJob, SameMode, SameCaptures, SameWork, SameDrafts, SameAssembly
<1>6. RunFits(state')
  BY <1>0, <1>4, <1>5, SameRunFits
<1>7. IdsKnown(state', Len(jobs)) /\ state'.aiConfigured = state.aiConfigured
  BY <1>0, <1>5, SameIdsFit DEF AllSame, SameMode
<1>8. CaptureInv'
  BY <1>0, <1>2, <1>6, <1>7 DEF CaptureInv
<1> QED
  BY <1>5, <1>8 DEF PagesHold

--------------------------------------------------------------------------------

\* The review changes: which draft is selected, and what is confirmed.
LEMMA ReviewStep ==
  ASSUME CaptureInv, NEW t \in CaptureState, SameJob(state, t), SameMode(state, t), SameCaptures(state, t), SameWork(state, t),
         t.page = state.page, t.processing = state.processing, t.drafts = state.drafts,
         t.assembly = state.assembly, t.finalizing = state.finalizing,
         ~state.aiConfigured => DraftsFit(t), state' = t, jobs' = jobs
  PROVE  CaptureInv' /\ PagesHold(state, state')
<1>0. RunFits(state) /\ WorkFits(state) /\ CapturesFit(state) /\ QueueFits(state) /\ IdsKnown(state, Len(jobs))
  BY InvParts DEF RunFits
<1>1. t.finalizing => t.assembly # <<>>
  BY <1>0 DEF WorkFits
<1>2. CapturesFit(t) /\ WorkFits(t) /\ QueueFits(t)
  BY <1>0, <1>1, SameCapturesFit, SameWorkFits, SameQueueFits DEF SameWork
<1>3. ~state.aiConfigured => WorkGoesOn(t)
  BY <1>0 DEF RunFits, WorkGoesOn, SameWork, SameCaptures, LiveHeads, Heads
<1>4. RunFits(t)
  BY <1>2, <1>3 DEF RunFits, PumpReady, SameMode
<1> QED
  BY <1>0, <1>4, SameIdsFit, StepInv DEF SameMode, PagesHold

LEMMA SelectStep ==
  ASSUME CaptureInv, NEW k \in Captures, SelectReceiptDraft(k)
  PROVE  CaptureInv' /\ PagesHold(state, state')
<1> DEFINE t == [state EXCEPT !.draft = k]
<1>0. state \in CaptureState /\ (~state.aiConfigured => DraftsFit(state))
  BY InvParts
<1>1. state' = t /\ jobs' = jobs /\ k \in {Head(d) : d \in ToSet(state.drafts)} /\ k \in DraftNames
  BY DEF SelectReceiptDraft, DraftNames
<1>2. k \in Heads(state)
  BY <1>1 DEF Heads, ToSet
<1>3. t \in CaptureState
  BY <1>0, <1>1, ZenonT(60) DEF CaptureState
<1>4. /\ SameJob(state, t) /\ SameMode(state, t) /\ SameCaptures(state, t) /\ SameWork(state, t) /\ SameAssembly(state, t)
      /\ t.page = state.page /\ t.processing = state.processing /\ t.drafts = state.drafts /\ t.draft = k
  BY <1>0 DEF CaptureState, SameJob, SameMode, SameCaptures, SameWork, SameAssembly
<1> HIDE DEF t
<1>5. Heads(t) = Heads(state) /\ LiveHeads(t) = LiveHeads(state)
  BY <1>4 DEF Heads, LiveHeads, SameCaptures
<1>6. ~state.aiConfigured => DraftsFit(t)
  BY <1>0, <1>2, <1>4, <1>5 DEF DraftsFit, SameJob, SameMode, SameCaptures, SameAssembly
<1> QED
  BY <1>1, <1>3, <1>4, <1>6, ReviewStep DEF SameAssembly

\* A confirmation starts, waits for its import, or is refused.
LEMMA ConfirmStep ==
  ASSUME CaptureInv, NEW cf \in Confirms, state' = [state EXCEPT !.confirm = cf], jobs' = jobs,
         /\ ~state.aiConfigured /\ DraftsFit(state) /\ cf.at = "importing"
         /\ (Len(state.captures) <= 1 \/ state.assembly # <<>>)
         => LiveHeads(state) \subseteq {cf.keys[1]}
  PROVE  CaptureInv' /\ PagesHold(state, state')
<1> DEFINE t == [state EXCEPT !.confirm = cf]
<1>0. state \in CaptureState /\ (~state.aiConfigured => DraftsFit(state))
  BY InvParts
<1>3. t \in CaptureState
  BY <1>0, ZenonT(60) DEF CaptureState
<1>4. /\ SameJob(state, t) /\ SameMode(state, t) /\ SameCaptures(state, t) /\ SameWork(state, t) /\ SameDrafts(state, t)
      /\ t.page = state.page /\ t.processing = state.processing /\ t.assembly = state.assembly /\ t.finalizing = state.finalizing
      /\ t.confirm = cf
  BY <1>0 DEF CaptureState, SameJob, SameMode, SameCaptures, SameWork, SameDrafts
<1>1. state' = t
  OBVIOUS
<1> HIDE DEF t
<1>5. Heads(t) = Heads(state) /\ LiveHeads(t) = LiveHeads(state)
  BY <1>4 DEF Heads, LiveHeads, SameCaptures, SameDrafts
<1>6. ~state.aiConfigured => DraftsFit(t)
  BY <1>0, <1>4, <1>5 DEF DraftsFit, SameJob, SameMode, SameCaptures, SameDrafts
<1> QED
  BY <1>1, <1>3, <1>4, <1>6, ReviewStep DEF SameDrafts

LEMMA ConfirmStartsStep ==
  ASSUME CaptureInv, ConfirmStarts
  PROVE  CaptureInv' /\ PagesHold(state, state')
<1> DEFINE cf == [state.confirm EXCEPT !.at = "validating"]
<1>1. state' = [state EXCEPT !.confirm = cf] /\ jobs' = jobs
  BY DEF ConfirmStarts
<1>2. cf \in Confirms /\ cf.at = "validating"
  BY InvParts DEF CaptureState, Confirms
<1> HIDE DEF cf
<1> QED
  BY <1>1, <1>2, ConfirmStep

\* What is confirmed is the draft that is selected, or all there is.
LEMMA DraftKeysOf ==
  ASSUME NEW s \in CaptureState
  PROVE  /\ DraftKeys(s) \in CaptureSeqs
         /\ DraftsFit(s) /\ DraftKeys(s) # <<>> /\ s.drafts # <<>> =>
              DraftKeys(s)[1] = s.draft /\ IsCapture(s, s.draft)
<1> DEFINE S  == {d \in ToSet(s.drafts) : Head(d) = s.draft}
           ds == Those(s.drafts, S)
           ks == Those(Head(ds), ToSet(s.captures))
<1>1. s.drafts \in Seq(CaptureSeqs \ {<<>>}) /\ s.captures \in CaptureSeqs
  BY DEF CaptureState, DraftSeqs
<1>2. ds \in Seq(CaptureSeqs \ {<<>>}) /\ ToSet(ds) = ToSet(s.drafts) \cap S
  <2> HIDE DEF S
  <2>1. ds = Those(s.drafts, S)
    OBVIOUS
  <2>2. Those(s.drafts, S) \in Seq(CaptureSeqs \ {<<>>}) /\ ToSet(Those(s.drafts, S)) = ToSet(s.drafts) \cap S
    BY <1>1, ThoseOf, Zenon
  <2> QED
    BY <2>1, <2>2, Zenon
<1>3. DraftKeys(s) = IF ds = <<>> THEN s.captures ELSE ks
  BY Zenon DEF DraftKeys
<1> HIDE DEF ds
<1>4. ASSUME ds # <<>>
      PROVE  /\ Head(ds) \in Seq(Captures) /\ Head(ds) # <<>> /\ Head(ds) \in ToSet(ds) /\ Head(ds) \in S
             /\ ks \in CaptureSeqs /\ ToSet(ks) = ToSet(Head(ds)) \cap ToSet(s.captures)
  <2>1. Head(ds) \in CaptureSeqs \ {<<>>} /\ Head(ds) = ds[1] /\ 1 \in DOMAIN ds
    BY <1>2, <1>4
  <2>2. Head(ds) \in ToSet(ds)
    BY <2>1 DEF ToSet
  <2>3. Head(ds) \in S
    BY <1>2, <2>2
  <2>4. Head(ds) \in Seq(Captures) /\ Head(ds) # <<>>
    BY <2>1 DEF CaptureSeqs
  <2>5. ks \in Seq(Captures) /\ ToSet(ks) = ToSet(Head(ds)) \cap ToSet(s.captures)
    BY <2>4, ThoseOf
  <2> QED
    BY <2>2, <2>3, <2>4, <2>5 DEF CaptureSeqs
<1>5. DraftKeys(s) \in CaptureSeqs
  BY <1>1, <1>3, <1>4
<1>6. ASSUME DraftsFit(s), DraftKeys(s) # <<>>, s.drafts # <<>> PROVE DraftKeys(s)[1] = s.draft /\ IsCapture(s, s.draft)
  <2>1. ds # <<>>
    <3>1. PICK i \in DOMAIN s.drafts : Head(s.drafts[i]) = s.draft
      BY <1>6 DEF DraftsFit, Heads
    <3>2. s.drafts[i] \in ToSet(ds)
      BY <1>2, <3>1 DEF ToSet
    <3> QED
      BY <3>2 DEF ToSet
  <2>2. Len(Head(ds)) = 1 /\ Head(Head(ds)) = s.draft
    <3>1. PICK i \in DOMAIN s.drafts : Head(ds) = s.drafts[i]
      BY <1>2, <1>4, <2>1 DEF ToSet
    <3> QED
      BY <1>4, <1>6, <2>1, <3>1 DEF DraftsFit
  <2>3. ToSet(Head(ds)) = {s.draft}
    <3>1. DOMAIN Head(ds) = {1} /\ Head(ds)[1] = s.draft
      BY <1>4, <2>1, <2>2
    <3> QED
      BY <3>1 DEF ToSet
  <2>4. ks # <<>> /\ ks \in Seq(Captures) /\ DraftKeys(s) = ks
    BY <1>3, <1>4, <1>6, <2>1 DEF CaptureSeqs
  <2>5. ks[1] \in ToSet(ks)
    <3>1. 1 \in DOMAIN ks
      BY <2>4
    <3> QED
      BY <3>1, Zenon DEF ToSet
  <2> QED
    BY <1>4, <2>1, <2>3, <2>4, <2>5 DEF IsCapture
<1> QED
  BY <1>5, <1>6

LEMMA ReceiptValidatedStep ==
  ASSUME CaptureInv, NEW ok \in BOOLEAN, ReceiptValidated(ok)
  PROVE  CaptureInv' /\ PagesHold(state, state')
<1> DEFINE cf == IF ok THEN [at |-> "importing", keys |-> DraftKeys(state)] ELSE NoConfirm
<1>0. state \in CaptureState /\ CapturesFit(state)
  BY InvParts
<1>1. state' = [state EXCEPT !.confirm = cf] /\ jobs' = jobs /\ (ok => DraftKeys(state) # <<>>)
  BY DEF ReceiptValidated
<1>2. cf \in Confirms /\ (cf.at = "importing" => ok /\ cf.keys = DraftKeys(state))
  BY <1>0, DraftKeysOf DEF Confirms, NoConfirm, CaptureSeqs
<1> HIDE DEF cf
<1>3. ASSUME ~state.aiConfigured, DraftsFit(state), cf.at = "importing", Len(state.captures) <= 1 \/ state.assembly # <<>>,
             NEW h \in LiveHeads(state)
      PROVE  h = cf.keys[1]
  <2>1. state.drafts # <<>> /\ IsCapture(state, h)
    BY <1>3 DEF LiveHeads, Heads, IsCapture
  <2>2. cf.keys[1] = state.draft /\ IsCapture(state, state.draft) /\ state.draft \in LiveHeads(state)
    BY <1>0, <1>1, <1>2, <1>3, <2>1, DraftKeysOf DEF LiveHeads, DraftsFit, IsCapture
  <2>3. CASE state.assembly # <<>>
    BY <1>3, <2>2, <2>3 DEF DraftsFit
  <2>4. CASE Len(state.captures) <= 1
    <3>1. state.captures \in Seq(Captures)
      BY <1>0 DEF CaptureState, CaptureSeqs
    <3>2. \A i, j \in DOMAIN state.captures : i = j
      BY <2>4, <3>1
    <3> QED
      BY <2>1, <2>2, <3>2 DEF IsCapture, ToSet
  <2> QED
    BY <1>3, <2>3, <2>4
<1> QED
  BY <1>1, <1>2, <1>3, ConfirmStep

LEMMA RecoverFailsStep ==
  ASSUME CaptureInv, RecoverFails
  PROVE  CaptureInv' /\ PagesHold(state, state')
<1> DEFINE t == [state EXCEPT !.recovering = FALSE]
<1>0. state \in CaptureState /\ (~state.aiConfigured => DraftsFit(state))
  BY InvParts
<1>1. state' = t /\ jobs' = jobs
  BY DEF RecoverFails
<1>3. t \in CaptureState
  BY <1>0, ZenonT(60) DEF CaptureState
<1>4. /\ SameJob(state, t) /\ SameMode(state, t) /\ SameCaptures(state, t) /\ SameWork(state, t) /\ SameDrafts(state, t)
      /\ SameAssembly(state, t) /\ t.page = state.page /\ t.processing = state.processing
  BY <1>0 DEF CaptureState, SameJob, SameMode, SameCaptures, SameWork, SameDrafts, SameAssembly
<1> HIDE DEF t
<1>5. ~state.aiConfigured => DraftsFit(t)
  BY <1>0, <1>4, SameDraftsFit
<1> QED
  BY <1>1, <1>3, <1>4, <1>5, ReviewStep DEF SameDrafts, SameAssembly

--------------------------------------------------------------------------------

\* The captures are moved or taken away, and the review of all of them is made again.
LEMMA MutateStep ==
  ASSUME CaptureInv, NEW cs \in CaptureSeqs, IsInjective(cs), ToSet(cs) \subseteq ToSet(state.captures), NEW pg \in PageMaps,
         \A c \in Captures : pg[c] = state.page[c] \/ (c \notin ToSet(cs) /\ pg[c] = NewPage),
         MutateCaptures(cs, pg)
  PROVE  CaptureInv' /\ state'.page = pg
<1> DEFINE s == IF state.activeJobId # 0 THEN ClearReceiptExtractionJob(state, TRUE) ELSE state
           m == [s EXCEPT !.captures = cs, !.page = pg]
           t == ClearCombinedReview(m)
           n == Len(jobs)
<1>0. /\ state \in CaptureState /\ CapturesFit(state) /\ WorkFits(state) /\ QueueFits(state) /\ (~state.aiConfigured => DraftsFit(state))
      /\ IdsKnown(state, n) /\ n \in Nat /\ state.processing = FALSE /\ jobs' = jobs
  BY InvParts DEF RunFits, MutateCaptures, CaptureState
<1>1. state' = IF cs = <<>> THEN [t EXCEPT !.visible = FALSE]
               ELSE FinishCurrentRunWhenIdle([t EXCEPT !.processing = TRUE, !.visible = TRUE])
  BY Zenon DEF MutateCaptures
<1>2. /\ s \in CaptureState /\ SameMode(state, s) /\ SameCaptures(state, s) /\ SameWork(state, s)
      /\ s.page = state.page /\ s.processing = FALSE /\ s.confirm = state.confirm /\ IdsKnown(s, n)
      /\ ~state.aiConfigured => SameJob(state, s)
  <2>1. CASE state.activeJobId # 0
    <3>1. s = ClearReceiptExtractionJob(state, TRUE) /\ (~state.aiConfigured => SameJob(state, s))
      BY <1>0, <2>1 DEF DraftsFit
    <3>2. /\ s \in CaptureState /\ SameMode(state, s) /\ SameCaptures(state, s) /\ SameWork(state, s) /\ SameAssembly(state, s)
          /\ s.page = state.page /\ s.processing = state.processing /\ s.activeJobId = 0
          /\ s.posts = Outdated(state.posts) /\ s.reads = Outdated(state.reads)
      BY <1>0, <3>1, ClearedJobOf
    <3> HIDE DEF s
    <3>3. IdsKnown(s, n)
      BY <1>0, <3>2, ClearedIdsFit
    <3> QED
      BY <1>0, <3>1, <3>2, <3>3 DEF SameAssembly
  <2>2. CASE state.activeJobId = 0
    <3>1. s = state
      BY <2>2
    <3> HIDE DEF s
    <3> QED
      BY <1>0, <3>1 DEF SameJob, SameMode, SameCaptures, SameWork
  <2> QED
    BY <2>1, <2>2
<1> HIDE DEF s
<1>3. m \in CaptureState
  BY <1>2, ZenonT(60) DEF CaptureState
<1>4. /\ SameJob(s, m) /\ SameMode(s, m) /\ SameWork(s, m) /\ m.stored = s.stored /\ m.uploads = s.uploads
      /\ m.captures = cs /\ m.page = pg /\ m.processing = s.processing /\ m.confirm = s.confirm
  BY <1>2 DEF CaptureState, SameJob, SameMode, SameWork
<1> HIDE DEF m
<1>5. /\ t \in CaptureState /\ SameJob(m, t) /\ SameMode(m, t) /\ SameCaptures(m, t) /\ SameWork(m, t)
      /\ t.page = m.page /\ t.processing = m.processing /\ t.confirm = m.confirm
      /\ t.finalizing = FALSE /\ t.assembly = <<>> /\ t.drafts = <<>>
  BY <1>3, ClearedReviewOf
<1> HIDE DEF t
<1>6. /\ SameMode(state, t) /\ SameWork(state, t) /\ t.stored = state.stored /\ t.uploads = state.uploads
      /\ t.captures = cs /\ t.page = pg /\ t.processing = FALSE
      /\ ~state.aiConfigured => SameJob(state, t)
  BY <1>2, <1>4, <1>5 DEF SameJob, SameMode, SameCaptures, SameWork
<1>7. IdsKnown(t, n)
  BY <1>2, <1>4, <1>5, SameIdsFit
<1>8. CapturesFit(t)
  BY <1>0, <1>6 DEF CapturesFit, SameWork
<1>9. (\A j \in DOMAIN state.tasks : state.tasks[j].key \in Captures) /\ \A j \in DOMAIN state.queue : state.queue[j].key \in Captures
  <2>1. (\A e \in PageEntry : e.key \in Captures) /\ \A e \in PageTask : e.key \in Captures
    BY DEF PageEntry, PageTask
  <2>2. state.tasks \in Seq(PageTask) /\ state.queue \in Seq(PageEntry)
    BY <1>0 DEF CaptureState, TaskSeqs, EntrySeqs
  <2> QED
    BY <2>1, <2>2
<1>10. /\ \A c \in Captures : IsCapture(t, c) => IsCapture(state, c) /\ t.page[c] = state.page[c]
       /\ \A c \in Captures : t.page[c] = state.page[c] \/ t.page[c].status = "ready"
  BY <1>6 DEF IsCapture, NewPage
<1>11. WorkFits(t)
  <2>1. /\ Len(t.tasks) <= PAGE_CONCURRENCY
        /\ \A i, j \in DOMAIN t.tasks : t.tasks[i].key = t.tasks[j].key => i = j
    BY <1>0, <1>6 DEF WorkFits, SameWork
  <2>2. /\ \A i, j \in DOMAIN t.queue : IsCapture(t, t.queue[i].key) /\ t.queue[i].key = t.queue[j].key => i = j
    BY <1>0, <1>6, <1>9, <1>10 DEF WorkFits, SameWork
  <2>3. \A i \in DOMAIN t.queue : IsCapture(t, t.queue[i].key) => Under(t, t.queue[i].key) # "ready"
    BY <1>0, <1>6, <1>9, <1>10 DEF WorkFits, SameWork, Under
  <2>4. \A i \in DOMAIN t.tasks : t.tasks[i].valid => Under(t, t.tasks[i].key) \notin {"cancelled", "manual"}
    BY <1>0, <1>6, <1>9, <1>10 DEF WorkFits, SameWork, Under
  <2> QED
    BY <1>5, <2>1, <2>2, <2>3, <2>4 DEF WorkFits
<1>12. QueueFits(t)
  <2>1. \A c \in Captures : Under(t, c) = "pending" => Under(state, c) = "pending"
    BY <1>10 DEF Under
  <2> QED
    BY <1>0, <1>6, <1>9, <2>1 DEF QueueFits, SameWork, SameMode
<1>13. ~state.aiConfigured => DraftsFit(t)
  <2>1. Heads(t) = {} /\ LiveHeads(t) = {}
    BY <1>5 DEF Heads, LiveHeads
  <2> QED
    BY <1>0, <1>5, <1>6, <2>1 DEF DraftsFit, SameJob, SameMode
<1>14. PumpReady(t) /\ (t.queue # <<>> => t.tasks # <<>>)
  BY <1>0, <1>5, <1>6, <1>8, <1>11, <1>13 DEF PumpReady, SameMode, QueueFits, SameWork
<1>15. CASE cs = <<>>
  <2> DEFINE u == [t EXCEPT !.visible = FALSE]
  <2>1. u \in CaptureState
    BY <1>5, ZenonT(60) DEF CaptureState
  <2>2. AllSame(t, u) /\ u.page = t.page /\ u.processing = t.processing
    BY <1>5 DEF CaptureState, AllSame, SameJob, SameMode, SameCaptures, SameWork, SameDrafts, SameAssembly
  <2>3. state' = u
    BY <1>1, <1>15
  <2> HIDE DEF u
  <2>4. RunFits(t)
    BY <1>6, <1>12, <1>14 DEF RunFits, WorkGoesOn
  <2>5. RunFits(u)
    BY <2>1, <2>2, <2>4, SameRunFits
  <2>6. IdsKnown(u, n) /\ u.aiConfigured = state.aiConfigured
    BY <1>6, <1>7, <2>2, SameIdsFit DEF AllSame, SameMode
  <2> QED
    BY <1>0, <1>6, <2>2, <2>3, <2>5, <2>6, StepInv
<1>16. CASE cs # <<>>
  <2> DEFINE u == [t EXCEPT !.processing = TRUE, !.visible = TRUE]
  <2>1. u \in CaptureState
    BY <1>5, ZenonT(60) DEF CaptureState
  <2>2. AllSame(t, u) /\ u.page = t.page
    BY <1>5 DEF CaptureState, AllSame, SameJob, SameMode, SameCaptures, SameWork, SameDrafts, SameAssembly
  <2>3. state' = FinishCurrentRunWhenIdle(u)
    BY <1>1, <1>16
  <2> HIDE DEF u
  <2>4. PumpReady(u) /\ (u.queue # <<>> => u.tasks # <<>>)
    BY <1>14, <2>1, <2>2, SamePumpReady DEF AllSame, SameWork
  <2>5. PumpReady(state') /\ SameJob(u, state') /\ SameMode(u, state') /\ SameWork(u, state') /\ state'.page = u.page /\ WorkGoesOn(state')
    BY <2>3, <2>4, FinishedRun
  <2>6. QueueFits(state')
    BY <1>12, <2>2, <2>5, SameQueueFits DEF AllSame
  <2>7. RunFits(state')
    BY <2>5, <2>6 DEF RunFits
  <2>8. IdsKnown(state', n) /\ state'.aiConfigured = state.aiConfigured
    BY <1>6, <1>7, <2>2, <2>5, SameIdsFit DEF AllSame, SameMode
  <2> QED
    BY <1>0, <1>6, <2>2, <2>5, <2>7, <2>8, StepInv
<1> QED
  BY <1>15, <1>16

LEMMA MoveCaptureStep ==
  ASSUME CaptureInv, NEW i, MoveCapture(i)
  PROVE  CaptureInv' /\ PagesHold(state, state')
<1> DEFINE s  == state.captures
           cs == [s EXCEPT ![i] = s[i + 1], ![i + 1] = s[i]]
<1>0. state \in CaptureState /\ CapturesFit(state) /\ s \in Seq(Captures) /\ IsInjective(s)
  BY InvParts DEF CaptureState, CapturesFit, CaptureSeqs
<1>1. i \in 1 .. Len(s) - 1 /\ MutateCaptures(cs, state.page)
  BY DEF MoveCapture
<1>2. Len(s) \in Nat /\ i \in 1 .. Len(s) /\ i + 1 \in 1 .. Len(s) /\ i # i + 1 /\ DOMAIN s = 1 .. Len(s)
  BY <1>0, <1>1
<1> HIDE DEF s
<1>3. /\ cs \in [1 .. Len(s) -> Captures]
      /\ cs[i] = s[i + 1] /\ cs[i + 1] = s[i] /\ \A j \in 1 .. Len(s) : j # i /\ j # i + 1 => cs[j] = s[j]
  BY <1>0, <1>2
<1> HIDE DEF cs
<1>4. cs \in CaptureSeqs /\ DOMAIN cs = 1 .. Len(s)
  BY <1>2, <1>3 DEF CaptureSeqs
<1>5. IsInjective(cs)
  BY <1>0, <1>2, <1>3, <1>4 DEF IsInjective
<1>6. ToSet(cs) \subseteq ToSet(s)
  BY <1>2, <1>3, <1>4 DEF ToSet
<1>7. state.page \in PageMaps
  BY <1>0 DEF CaptureState
<1>8. CaptureInv' /\ state'.page = state.page
  BY <1>1, <1>4, <1>5, <1>6, <1>7, MutateStep DEF s
<1> QED
  BY <1>8 DEF PagesHold

LEMMA DeleteCaptureStep ==
  ASSUME CaptureInv, NEW i, DeleteCapture(i)
  PROVE  CaptureInv'
<1> DEFINE s  == state.captures
           cs == RemoveAt(s, i)
           c  == s[i]
           pg == [state.page EXCEPT ![c] = NewPage]
<1>0. /\ state \in CaptureState /\ s \in Seq(Captures) /\ IsInjective(s) /\ i \in DOMAIN s
      /\ state.page \in [Captures -> CapturePage] /\ MutateCaptures(cs, pg)
  BY InvParts DEF CaptureState, CapturesFit, CaptureSeqs, PageMaps, DeleteCapture
<1>1. Len(s) \in Nat /\ DOMAIN s = 1 .. Len(s) /\ c \in Captures
  BY <1>0
<1>2. i \in 1 .. Len(s)
  BY <1>0, <1>1
<1> HIDE DEF s
<1>3. /\ cs \in Seq(Captures) /\ DOMAIN cs = 1 .. Len(s) - 1
      /\ \A j \in DOMAIN cs : cs[j] = s[Past(i, j)] /\ Past(i, j) \in DOMAIN s
  BY <1>0, <1>2, RemovedOf
<1> HIDE DEF cs
<1>4. IsInjective(cs)
  <2>1. \A j, k \in DOMAIN cs : Past(i, j) = Past(i, k) => j = k
    BY <1>1, <1>2, <1>3 DEF Past
  <2> QED
    BY <1>0, <1>3, <2>1 DEF IsInjective
<1>5. ToSet(cs) \subseteq ToSet(s) /\ c \notin ToSet(cs)
  <2>1. \A j \in DOMAIN cs : Past(i, j) # i
    BY <1>1, <1>2, <1>3 DEF Past
  <2>2. \A j \in DOMAIN cs : cs[j] # c
    BY <1>0, <1>3, <2>1 DEF IsInjective
  <2>3. \A j \in DOMAIN cs : cs[j] \in ToSet(s)
    BY <1>3 DEF ToSet
  <2> QED
    BY <2>2, <2>3 DEF ToSet
<1> HIDE DEF c
<1>6. pg \in PageMaps /\ \A d \in Captures : pg[d] = state.page[d] \/ (d \notin ToSet(cs) /\ pg[d] = NewPage)
  <2>1. NewPage \in CapturePage
    BY DEF NewPage, CapturePage
  <2> QED
    BY <1>0, <1>1, <1>5, <2>1 DEF PageMaps
<1> HIDE DEF pg
<1>7. cs \in CaptureSeqs /\ ToSet(cs) \subseteq ToSet(state.captures)
  BY <1>3, <1>5 DEF CaptureSeqs, s
<1> QED
  BY <1>0, <1>4, <1>6, <1>7, MutateStep

--------------------------------------------------------------------------------
(* The answers of the server.                                              *)

\* As StepInv, where the server has created jobs.
LEMMA JobStepInv ==
  ASSUME CaptureInv, RunFits(state'), state'.aiConfigured = TRUE, jobs' \in Seq(ServerJob), Len(jobs') <= MaxJobs,
         IdsKnown(state', Len(jobs'))
  PROVE  CaptureInv'
BY DEF CaptureInv

LEMMA MoreIds ==
  ASSUME NEW s \in CaptureState, NEW n \in Nat, NEW m \in Nat, n <= m, IdsKnown(s, n)
  PROVE  IdsKnown(s, m)
<1>1. s.activeJobId \in Nat /\ (\A p \in s.posts : p.id \in Nat) /\ \A r \in s.reads : r.id \in Nat
  BY DEF CaptureState, PostSets, ReadSets, JobPost, ReadOfJob
<1> QED
  BY <1>1 DEF IdsKnown

LEMMA JobAppended ==
  ASSUME CaptureInv, Len(jobs) < MaxJobs, NEW caps \in CaptureSeqs, jobs' = Append(jobs, [caps |-> caps, st |-> "queued"])
  PROVE  jobs' \in Seq(ServerJob) /\ Len(jobs') = Len(jobs) + 1 /\ Len(jobs') <= MaxJobs /\ Len(jobs) \in Nat
<1> DEFINE j == [caps |-> caps, st |-> "queued"]
<1>1. j \in ServerJob
  BY DEF ServerJob, JobStatuses
<1>2. jobs \in Seq(ServerJob) /\ Len(jobs) \in Nat
  BY InvParts
<1>3. jobs' = Append(jobs, j)
  OBVIOUS
<1> HIDE DEF j
<1>4. jobs' \in Seq(ServerJob) /\ Len(jobs') = Len(jobs) + 1
  BY <1>1, <1>2, <1>3
<1> QED
  BY <1>2, <1>4, CaptureAssumption

\* The requests change, and what is followed; the pages as a job has them.
LEMMA RequestsRun ==
  ASSUME CaptureInv, state.aiConfigured = TRUE, NEW t \in CaptureState, t.aiConfigured = TRUE, SameCaptures(state, t),
         SameWork(state, t), SameAssembly(state, t), PagesMove(state, t)
  PROVE  RunFits(t)
<1>0. RunFits(state) /\ WorkFits(state)
  BY InvParts
<1>1. t.queue = state.queue /\ t.tasks = state.tasks /\ (t.finalizing => t.assembly # <<>>)
  BY <1>0 DEF SameWork, WorkFits, SameAssembly
<1> QED
  BY <1>0, <1>1, MovedRun

\* A request is answered.
Answered(s, p) == [s EXCEPT !.posts = @ \ {p}]

LEMMA PostAnswered ==
  ASSUME NEW s \in CaptureState, NEW n \in Nat, IdsKnown(s, n), NEW p, NEW t, t = Answered(s, p)
  PROVE  /\ t \in CaptureState /\ SameMode(s, t) /\ SameCaptures(s, t) /\ SameWork(s, t) /\ SameDrafts(s, t) /\ SameAssembly(s, t)
         /\ t.page = s.page /\ t.processing = s.processing /\ t.posts = s.posts \ {p} /\ t.reads = s.reads /\ t.activeJobId = s.activeJobId
         /\ IdsKnown(t, n)
<1> DEFINE P == s.posts \ {p}
<1>1. t = [s EXCEPT !.posts = P]
  BY DEF Answered
<1>2. P \in PostSets /\ P \subseteq s.posts
  BY DEF CaptureState, PostSets
<1> HIDE DEF P
<1>3. t \in CaptureState
  BY <1>1, <1>2, ZenonT(60) DEF CaptureState
<1>4. /\ SameMode(s, t) /\ SameCaptures(s, t) /\ SameWork(s, t) /\ SameDrafts(s, t) /\ SameAssembly(s, t)
      /\ t.page = s.page /\ t.processing = s.processing /\ t.posts = P /\ t.reads = s.reads /\ t.activeJobId = s.activeJobId
  BY <1>1 DEF CaptureState, SameMode, SameCaptures, SameWork, SameDrafts, SameAssembly
<1>5. IdsKnown(t, n)
  BY <1>2, <1>4, MovedIds
<1> QED
  BY <1>3, <1>4, <1>5 DEF P

\* A job is followed: its pages wait for it.
LEMMA FollowedJob ==
  ASSUME NEW s \in CaptureState, NEW n \in Nat, IdsKnown(s, n), NEW id \in 1 .. n, NEW caps \in CaptureSeqs,
         NEW t, t = SetPagesForBackgroundJob(FollowJob(s, id, caps), "queued", caps)
  PROVE  /\ t \in CaptureState /\ SameMode(s, t) /\ SameCaptures(s, t) /\ SameWork(s, t) /\ SameDrafts(s, t) /\ SameAssembly(s, t)
         /\ PagesMove(s, t) /\ PagesHold(s, t) /\ ChangedPages(s, ToSet(caps), t.page) /\ t.posts = s.posts /\ IdsKnown(t, n)
<1> DEFINE f == FollowJob(s, id, caps)
<1>1. /\ f \in CaptureState /\ SameMode(s, f) /\ SameCaptures(s, f) /\ SameWork(s, f) /\ SameDrafts(s, f) /\ SameAssembly(s, f)
      /\ f.page = s.page /\ f.posts = s.posts /\ f.reads = s.reads /\ f.activeJobId = id
  BY FollowedOf
<1>2. t = SetPagesForBackgroundJob(f, "queued", caps)
  OBVIOUS
<1> HIDE DEF f
<1>3. t \in CaptureState /\ AllSame(f, t) /\ PagesMove(f, t) /\ PagesHold(f, t) /\ ChangedPages(f, ToSet(caps), t.page)
  BY <1>1, <1>2, SetPagesOf
<1>4. /\ SameMode(s, t) /\ SameCaptures(s, t) /\ SameWork(s, t) /\ SameDrafts(s, t) /\ SameAssembly(s, t)
      /\ t.posts = s.posts /\ t.reads = s.reads /\ t.activeJobId = id
  BY <1>1, <1>3 DEF AllSame, SameJob, SameMode, SameCaptures, SameWork, SameDrafts, SameAssembly
<1>5. PagesMove(s, t) /\ PagesHold(s, t) /\ ChangedPages(s, ToSet(caps), t.page)
  BY <1>1, <1>3 DEF PagesMove, PagesHold, ChangedPages, Under
<1>6. IdsKnown(t, n)
  BY <1>4 DEF IdsKnown
<1> QED
  BY <1>3, <1>4, <1>5, <1>6

LEMMA JobCreatedStep ==
  ASSUME CaptureInv, NEW p \in state.posts, JobCreated(p)
  PROVE  CaptureInv' /\ PagesHold(state, state')
<1> DEFINE n == Len(jobs) + 1
           s == Answered(state, p)
           g == SetPagesForBackgroundJob(FollowJob(s, n, p.caps), "queued", p.caps)
           a == [p EXCEPT !.id = n]
           P == (state.posts \ {p}) \cup {a}
<1>0. /\ state \in CaptureState /\ state.aiConfigured = TRUE /\ IdsKnown(state, Len(jobs)) /\ Len(jobs) \in Nat
      /\ Len(jobs) < MaxJobs /\ p.kind = "start"
  BY InvParts, RequestsAreOfAi DEF JobCreated
<1>1. /\ jobs' = Append(jobs, [caps |-> p.caps, st |-> "queued"])
      /\ state' = IF p.token /\ p.latest THEN Refresh(g, TRUE) ELSE [state EXCEPT !.posts = P]
  BY Zenon DEF JobCreated, Answered
<1>2. p \in JobPost /\ p.caps \in CaptureSeqs /\ state.posts \in SUBSET JobPost
  BY <1>0 DEF CaptureState, PostSets, JobPost
<1>3. jobs' \in Seq(ServerJob) /\ Len(jobs') = n /\ Len(jobs') <= MaxJobs /\ n \in Nat /\ n \in 1 .. n
  BY <1>0, <1>1, <1>2, JobAppended
<1>4. IdsKnown(state, n)
  BY <1>0, <1>3, MoreIds
<1> HIDE DEF n
<1>5. CASE p.token /\ p.latest
  <2>1. state' = Refresh(g, TRUE)
    BY <1>1, <1>5, Zenon
  <2>2. /\ s \in CaptureState /\ SameMode(state, s) /\ SameCaptures(state, s) /\ SameWork(state, s) /\ SameAssembly(state, s)
        /\ s.page = state.page /\ IdsKnown(s, n)
    BY <1>0, <1>3, <1>4, PostAnswered
  <2> HIDE DEF s
  <2>3. /\ g \in CaptureState /\ SameMode(s, g) /\ SameCaptures(s, g) /\ SameWork(s, g) /\ SameAssembly(s, g)
        /\ PagesMove(s, g) /\ PagesHold(s, g) /\ IdsKnown(g, n)
    BY <1>2, <1>3, <2>2, FollowedJob
  <2> HIDE DEF g
  <2>4. /\ g.aiConfigured = TRUE /\ SameCaptures(state, g) /\ SameWork(state, g) /\ SameAssembly(state, g)
        /\ PagesMove(state, g) /\ PagesHold(state, g)
    BY <1>0, <2>2, <2>3 DEF SameMode, SameCaptures, SameWork, SameAssembly, PagesMove, PagesHold, Under
  <2>5. RunFits(g)
    BY <1>0, <2>3, <2>4, RequestsRun
  <2>6. RunFits(state') /\ IdsKnown(state', n) /\ state'.aiConfigured = TRUE /\ state'.page = g.page
    BY <1>3, <2>1, <2>3, <2>4, <2>5, RefreshedRun
  <2> QED
    BY <1>3, <2>4, <2>6, JobStepInv DEF PagesHold
<1>6. CASE ~(p.token /\ p.latest)
  <2>1. state' = [state EXCEPT !.posts = P]
    BY <1>1, <1>6, Zenon
  <2>2. a \in JobPost /\ a.id = n /\ a.kind = "start"
    BY <1>0, <1>2, <1>3 DEF JobPost
  <2> HIDE DEF a
  <2>3. P \in PostSets
    BY <1>2, <2>2 DEF PostSets
  <2>4. /\ IsFiniteSet(P) /\ (\A q \in P : q.id <= n)
        /\ \A q, r \in P : q.kind = "retry" /\ r.kind = "retry" => q = r
    <3>1. IsFiniteSet(state.posts \ {p})
      BY <1>4, FS_RemoveElement DEF IdsKnown
    <3>2. IsFiniteSet(P)
      BY <3>1, FS_AddElement
    <3> QED
      BY <1>3, <1>4, <2>2, <3>2 DEF IdsKnown
  <2> HIDE DEF P
  <2>5. state' \in CaptureState
    BY <1>0, <2>1, <2>3, ZenonT(60) DEF CaptureState
  <2>6. /\ SameMode(state, state') /\ SameCaptures(state, state') /\ SameWork(state, state') /\ SameAssembly(state, state')
        /\ state'.page = state.page /\ state'.posts = P /\ state'.reads = state.reads /\ state'.activeJobId = state.activeJobId
    BY <1>0, <2>1 DEF CaptureState, SameMode, SameCaptures, SameWork, SameAssembly
  <2>7. PagesMove(state, state') /\ PagesHold(state, state') /\ state'.aiConfigured = TRUE
    BY <1>0, <2>6 DEF PagesMove, PagesHold, SameMode
  <2>8. IdsKnown(state', n)
    BY <1>4, <2>4, <2>6 DEF IdsKnown
  <2>9. RunFits(state')
    BY <1>0, <2>5, <2>6, <2>7, RequestsRun
  <2> QED
    BY <1>3, <2>7, <2>8, <2>9, JobStepInv
<1> QED
  BY <1>5, <1>6

LEMMA ObsoleteJobDeletedStep ==
  ASSUME CaptureInv, NEW p \in state.posts, NEW ok \in BOOLEAN, ObsoleteJobDeleted(p, ok)
  PROVE  CaptureInv' /\ PagesHold(state, state')
<1> DEFINE n  == Len(jobs)
           g  == PostGone(state, p)
           st == IF jobs[p.id].st \in {"queued", "running"} THEN "cancelled" ELSE jobs[p.id].st
           id == IF p.token THEN g.activeJobId ELSE p.id
           t  == [g EXCEPT !.activeJobId = id]
<1>0. /\ state \in CaptureState /\ state.aiConfigured = TRUE /\ IdsKnown(state, n) /\ n \in Nat /\ jobs \in Seq(ServerJob)
      /\ p.id # 0 /\ n <= MaxJobs
  BY InvParts, RequestsAreOfAi DEF ObsoleteJobDeleted
<1>1. IF ok THEN jobs' = [jobs EXCEPT ![p.id].st = st] /\ state' = g ELSE state' = t /\ jobs' = jobs
  BY DEF ObsoleteJobDeleted
<1>2. p.id \in 1 .. n /\ p.id \in Nat
  <2>1. p \in JobPost /\ p.id <= n
    BY <1>0 DEF CaptureState, PostSets, IdsKnown
  <2>2. p.id \in Nat
    BY <2>1 DEF JobPost
  <2> QED
    BY <1>0, <2>1, <2>2
<1>3. /\ g \in CaptureState /\ SameMode(state, g) /\ SameCaptures(state, g) /\ SameWork(state, g) /\ SameAssembly(state, g)
      /\ g.page = state.page /\ g.posts = state.posts \ {p} /\ g.reads = state.reads /\ g.activeJobId = state.activeJobId
  BY <1>0, PostGoneOf
<1> HIDE DEF g
<1>4. IdsKnown(g, n)
  BY <1>0, <1>3, MovedIds
<1>5. CASE ok
  <2>1. st \in JobStatuses
    <3>1. \A j \in ServerJob : j.st \in JobStatuses
      BY DEF ServerJob
    <3> QED
      BY <1>0, <1>2, <3>1 DEF JobStatuses
  <2>2. jobs' = JobMoved(jobs, p.id, st) /\ state' = g
    BY <1>1, <1>5 DEF JobMoved
  <2> HIDE DEF st
  <2>3. jobs' \in Seq(ServerJob) /\ Len(jobs') = n
    BY <1>0, <2>1, <2>2, JobMoves
  <2>4. g.aiConfigured = TRUE /\ PagesMove(state, g) /\ PagesHold(state, g)
    BY <1>0, <1>3 DEF SameMode, PagesMove, PagesHold
  <2>5. RunFits(g)
    BY <1>0, <1>3, <2>4, RequestsRun
  <2> QED
    BY <1>0, <1>4, <2>2, <2>3, <2>4, <2>5, JobStepInv
<1>6. CASE ~ok
  <2>1. state' = t /\ jobs' = jobs
    BY <1>1, <1>6
  <2>2. id \in Nat /\ id <= n
    BY <1>0, <1>2, <1>3 DEF IdsKnown, CaptureState
  <2> HIDE DEF id
  <2>3. t \in CaptureState
    BY <1>3, <2>2, ZenonT(60) DEF CaptureState
  <2>4. /\ SameMode(g, t) /\ SameCaptures(g, t) /\ SameWork(g, t) /\ SameAssembly(g, t)
        /\ t.page = g.page /\ t.posts = g.posts /\ t.reads = g.reads /\ t.activeJobId = id
    BY <1>3 DEF CaptureState, SameMode, SameCaptures, SameWork, SameAssembly
  <2> HIDE DEF t
  <2>5. IdsKnown(t, n)
    BY <1>4, <2>2, <2>4 DEF IdsKnown
  <2>6. /\ SameMode(state, t) /\ SameCaptures(state, t) /\ SameWork(state, t) /\ SameAssembly(state, t) /\ t.page = state.page
    BY <1>3, <2>4 DEF SameMode, SameCaptures, SameWork, SameAssembly
  <2> QED
    BY <1>0, <2>1, <2>3, <2>5, <2>6, RequestsStep
<1> QED
  BY <1>5, <1>6

\* A job is refused: its pages say so.
HoldsOutside(s, t, keys) ==
  \A c \in Captures : Under(s, c) \in {"cancelled", "manual"} => t.page[c] = s.page[c] \/ c \in keys

LEMMA JobRefusedStep ==
  ASSUME CaptureInv, NEW p \in state.posts, NEW code \in {"create", "other"}, JobRefused(p, code)
  PROVE  CaptureInv' /\ HoldsOutside(state, state', ToSet(p.caps)) /\ p \notin state'.posts
<1> DEFINE n == Len(jobs)
           g == PostGone(state, p)
           m == [g EXCEPT !.processing = FALSE]
           q == [c \in Captures |-> IF c \in ToSet(p.caps) /\ IsCapture(m, c) THEN [m.page[c] EXCEPT !.status = "error", !.code = code]
                                    ELSE m.page[c]]
           t == [m EXCEPT !.page = q]
<1>0. /\ state \in CaptureState /\ state.aiConfigured = TRUE /\ IdsKnown(state, n) /\ jobs' = jobs
  BY InvParts, RequestsAreOfAi DEF JobRefused
<1>1. state' = IF state.activeJobId = 0 /\ p.token /\ p.latest THEN t ELSE g
  BY Zenon DEF JobRefused, Pages
<1>3. /\ g \in CaptureState /\ SameMode(state, g) /\ SameCaptures(state, g) /\ SameWork(state, g) /\ SameAssembly(state, g)
      /\ g.page = state.page /\ g.posts = state.posts \ {p} /\ g.reads = state.reads /\ g.activeJobId = state.activeJobId
  BY <1>0, PostGoneOf
<1> HIDE DEF g
<1>4. IdsKnown(g, n)
  BY <1>0, <1>3, MovedIds
<1>5. CASE state' = g
  <2>1. /\ SameMode(state, state') /\ SameCaptures(state, state') /\ SameWork(state, state') /\ SameAssembly(state, state')
        /\ state'.page = state.page /\ IdsKnown(state', n) /\ state' \in CaptureState /\ p \notin state'.posts
    BY <1>3, <1>4, <1>5
  <2>2. CaptureInv' /\ PagesHold(state, state')
    BY <1>0, <2>1, RequestsStep
  <2> QED
    BY <2>1, <2>2 DEF HoldsOutside
<1>6. CASE state' = t
  <2>1. m \in CaptureState
    BY <1>3, ZenonT(60) DEF CaptureState
  <2>2. /\ SameMode(g, m) /\ SameCaptures(g, m) /\ SameWork(g, m) /\ SameAssembly(g, m)
        /\ m.page = g.page /\ m.posts = g.posts /\ m.reads = g.reads /\ m.activeJobId = g.activeJobId
    BY <1>3 DEF CaptureState, SameMode, SameCaptures, SameWork, SameAssembly
  <2> HIDE DEF m
  <2>3. m.page \in [Captures -> CapturePage]
    BY <2>1 DEF CaptureState, PageMaps
  <2>4. /\ q \in PageMaps
        /\ \A c \in Captures : q[c] = state.page[c] \/ (c \in ToSet(p.caps) /\ q[c].status = "error")
    <3>1. \A pg \in CapturePage : /\ [pg EXCEPT !.status = "error", !.code = code] \in CapturePage
                                  /\ [pg EXCEPT !.status = "error", !.code = code].status = "error"
      BY DEF CapturePage, TerminalStatuses
    <3> QED
      BY <1>3, <2>2, <2>3, <3>1 DEF PageMaps
  <2> HIDE DEF q
  <2>5. t \in CaptureState
    BY <2>1, <2>4, ZenonT(60) DEF CaptureState
  <2>6. /\ SameMode(m, t) /\ SameCaptures(m, t) /\ SameWork(m, t) /\ SameAssembly(m, t)
        /\ t.page = q /\ t.posts = m.posts /\ t.reads = m.reads /\ t.activeJobId = m.activeJobId
    BY <2>1 DEF CaptureState, SameMode, SameCaptures, SameWork, SameAssembly
  <2> HIDE DEF t
  <2>7. /\ SameMode(state, t) /\ SameCaptures(state, t) /\ SameWork(state, t) /\ SameAssembly(state, t)
        /\ t.posts = g.posts /\ t.reads = g.reads /\ t.activeJobId = g.activeJobId
    BY <1>3, <2>2, <2>6 DEF SameMode, SameCaptures, SameWork, SameAssembly
  <2>8. t.aiConfigured = TRUE /\ PagesMove(state, t) /\ HoldsOutside(state, t, ToSet(p.caps)) /\ p \notin t.posts
    BY <1>0, <1>3, <2>4, <2>6, <2>7 DEF SameMode, PagesMove, HoldsOutside
  <2>9. RunFits(t)
    BY <1>0, <2>5, <2>7, <2>8, RequestsRun
  <2>10. IdsKnown(t, n)
    BY <1>4, <2>7 DEF IdsKnown
  <2> QED
    BY <1>0, <1>6, <2>8, <2>9, <2>10, StepInv
<1> QED
  BY <1>1, <1>5, <1>6, Zenon

LEMMA RetryAnsweredStep ==
  ASSUME CaptureInv, NEW p \in state.posts, NEW ok \in BOOLEAN, RetryAnswered(p, ok)
  PROVE  CaptureInv' /\ HoldsOutside(state, state', ToSet(p.caps)) /\ p \notin state'.posts
<1> DEFINE n == Len(jobs) + 1
           s == Answered(state, p)
           d == Dropped(s)
           r == Pages(d, ToSet(p.caps), LAMBDA c, pg : NewPage)
           f == FollowJob(r, n, p.caps)
           j == [f EXCEPT !.verifyWithAi = TRUE, !.processing = TRUE, !.visible = TRUE]
           g == SetPagesForBackgroundJob(j, "queued", p.caps)
<1>0. /\ state \in CaptureState /\ state.aiConfigured = TRUE /\ IdsKnown(state, Len(jobs)) /\ Len(jobs) \in Nat
      /\ p.kind = "retry" /\ CapturesFit(state)
  BY InvParts, RequestsAreOfAi DEF RetryAnswered
<1>1. /\ s \in CaptureState /\ SameMode(state, s) /\ SameCaptures(state, s) /\ SameWork(state, s) /\ SameAssembly(state, s)
      /\ s.page = state.page /\ s.posts = state.posts \ {p} /\ s.reads = state.reads /\ s.activeJobId = state.activeJobId
      /\ IdsKnown(s, Len(jobs))
  BY <1>0, PostAnswered
<1>2. CASE ~ok
  <2>1. state' = s /\ jobs' = jobs
    BY <1>2 DEF RetryAnswered, Answered
  <2> HIDE DEF s
  <2>2. CaptureInv' /\ PagesHold(state, state')
    BY <1>0, <1>1, <2>1, RequestsStep
  <2> QED
    BY <1>1, <2>1, <2>2 DEF PagesHold, HoldsOutside
<1>3. CASE ok
  <2>1. /\ jobs' = Append(jobs, [caps |-> p.caps, st |-> "queued"]) /\ Len(jobs) < MaxJobs
        /\ state' = Refresh(g, FALSE)
    <3>1. AbortPageWork(s, FALSE) = d
      BY <1>1, AbortIs, Zenon
    <3> HIDE DEF d
    <3> QED
      BY <1>3, <3>1, Zenon DEF RetryAnswered, RefreshReceiptExtractionJob, Answered
  <2>2. p \in JobPost /\ p.caps \in CaptureSeqs
    BY <1>0 DEF CaptureState, PostSets, JobPost
  <2>3. jobs' \in Seq(ServerJob) /\ Len(jobs') = n /\ Len(jobs') <= MaxJobs /\ n \in Nat /\ n \in 1 .. n
    BY <1>0, <2>1, <2>2, JobAppended
  <2>4. IdsKnown(s, n)
    BY <1>0, <1>1, <2>3, MoreIds
  <2> HIDE DEF n, s
  <2>5. /\ d \in CaptureState /\ SameMode(s, d) /\ SameCaptures(s, d)
        /\ d.page = s.page /\ d.queue = <<>> /\ d.tasks = <<>> /\ d.finalizing = FALSE /\ d.assembly = <<>>
        /\ d.activeJobId = s.activeJobId /\ d.reads = s.reads /\ d.posts = Untokened(s.posts)
    BY <1>1, DroppedOf
  <2> HIDE DEF d
  <2>6. IdsKnown(d, n)
    BY <1>1, <2>3, <2>4, <2>5, UntokenedIdsFit
  <2>7. p \notin d.posts
    <3>1. s.posts \in PostSets /\ \A q \in s.posts : q.kind # "retry"
      BY <1>0, <1>1 DEF IdsKnown, CaptureState
    <3>2. \A q \in Untokened(s.posts) : \E o \in s.posts : q.kind = o.kind
      BY <3>1, UntokenedOf
    <3> QED
      BY <1>0, <2>5, <3>1, <3>2
  <2>8. r \in CaptureState /\ AllSame(d, r) /\ ChangedPages(d, ToSet(p.caps), r.page)
    BY <2>5, RenewedOf
  <2> HIDE DEF r
  <2>9. IdsKnown(r, n)
    BY <2>6, <2>8, SameIdsFit DEF AllSame
  <2>10. /\ f \in CaptureState /\ SameMode(r, f) /\ SameCaptures(r, f) /\ SameWork(r, f) /\ SameAssembly(r, f)
         /\ f.page = r.page /\ f.posts = r.posts /\ f.reads = r.reads /\ f.activeJobId = n
    BY <2>2, <2>3, <2>8, FollowedOf
  <2> HIDE DEF f
  <2>11. j \in CaptureState
    BY <2>10, ZenonT(60) DEF CaptureState
  <2>12. /\ j.aiConfigured = f.aiConfigured /\ SameCaptures(f, j) /\ SameWork(f, j) /\ SameAssembly(f, j)
         /\ j.page = f.page /\ j.posts = f.posts /\ j.reads = f.reads /\ j.activeJobId = n
    BY <2>10 DEF CaptureState, SameCaptures, SameWork, SameAssembly
  <2> HIDE DEF j
  <2>13. g \in CaptureState /\ AllSame(j, g) /\ ChangedPages(j, ToSet(p.caps), g.page)
    BY <2>11, SetPagesOf
  <2> HIDE DEF g
  <2>14. /\ g.aiConfigured = TRUE /\ SameCaptures(state, g) /\ g.queue = <<>> /\ g.tasks = <<>> /\ g.finalizing = FALSE
         /\ g.posts = d.posts /\ g.reads = r.reads /\ g.activeJobId = n
    BY <1>0, <1>1, <2>5, <2>8, <2>10, <2>12, <2>13 DEF AllSame, SameJob, SameMode, SameCaptures, SameWork, SameAssembly
  <2>15. ChangedPages(state, ToSet(p.caps), g.page)
    BY <1>1, <2>5, <2>8, <2>10, <2>12, <2>13 DEF ChangedPages
  <2>16. IdsKnown(g, n)
    <3>1. g.posts = r.posts /\ g.reads = r.reads
      BY <2>8, <2>14 DEF AllSame, SameJob
    <3> QED
      BY <2>3, <2>9, <2>14, <3>1 DEF IdsKnown
  <2>17. RunFits(g)
    BY <1>0, <2>13, <2>14, ClearedRun DEF CapturesFit, SameCaptures
  <2>18. /\ RunFits(state') /\ IdsKnown(state', n) /\ state'.aiConfigured = TRUE /\ state'.page = g.page /\ state'.posts = g.posts
    BY <2>1, <2>3, <2>14, <2>16, <2>17, RefreshedRun, ZenonT(60)
  <2>19. CaptureInv'
    BY <2>3, <2>18, JobStepInv
  <2> QED
    BY <2>7, <2>14, <2>15, <2>18, <2>19 DEF HoldsOutside, ChangedPages
<1> QED
  BY <1>2, <1>3

\* A read of the followed job is answered.
LEMMA ReadOfFollowedJob ==
  ASSUME CaptureInv, NEW r \in state.reads, r.st # "none", NEW s, s = ReadGone(state, r),
         NEW stages \in [ToSet(r.caps) -> Stages], NEW code \in Codes
  PROVE  /\ r.caps \in CaptureSeqs /\ r.st \in JobStatuses
         /\ s \in CaptureState /\ RunFits(s) /\ IdsKnown(s, Len(jobs)) /\ s.aiConfigured = TRUE
         /\ s.page = state.page /\ s.reads = state.reads \ {r}
<1>0. /\ state \in CaptureState /\ state.aiConfigured = TRUE /\ IdsKnown(state, Len(jobs))
  BY InvParts, RequestsAreOfAi
<1>1. /\ s \in CaptureState /\ SameMode(state, s) /\ SameCaptures(state, s) /\ SameWork(state, s) /\ SameAssembly(state, s)
      /\ s.page = state.page /\ s.posts = state.posts /\ s.reads = state.reads \ {r} /\ s.activeJobId = state.activeJobId
  BY <1>0, ReadGoneOf
<1>2. s.aiConfigured = TRUE /\ PagesMove(state, s)
  BY <1>0, <1>1 DEF SameMode, PagesMove
<1>3. RunFits(s)
  BY <1>0, <1>1, <1>2, RequestsRun
<1>4. IdsKnown(s, Len(jobs))
  BY <1>0, <1>1, MovedIds
<1>5. r \in ReadOfJob
  BY <1>0 DEF CaptureState, ReadSets
<1>6. r.caps \in CaptureSeqs /\ r.st \in JobStatuses
  BY <1>5 DEF ReadOfJob
<1> QED
  BY <1>1, <1>2, <1>3, <1>4, <1>6

LEMMA ProgressRun ==
  ASSUME NEW s, RunFits(s), s.aiConfigured = TRUE, NEW n, IdsKnown(s, n), NEW st, NEW caps,
         NEW stages \in [ToSet(caps) -> Stages],
         NEW t, t = ApplyProgressOrStatus([s EXCEPT !.processing = TRUE, !.visible = TRUE], st, caps, stages)
  PROVE  RunFits(t) /\ IdsKnown(t, n) /\ t.aiConfigured = TRUE /\ PagesHold(s, t)
<1> DEFINE b == [s EXCEPT !.processing = TRUE, !.visible = TRUE]
<1>0. s \in CaptureState
  BY DEF RunFits, PumpReady
<1>1. b \in CaptureState
  BY <1>0, ZenonT(60) DEF CaptureState
<1>2. AllSame(s, b) /\ b.page = s.page
  BY <1>0 DEF CaptureState, AllSame, SameJob, SameMode, SameCaptures, SameWork, SameDrafts, SameAssembly
<1> HIDE DEF b
<1>3. t \in CaptureState /\ AllSame(b, t) /\ PagesMove(b, t) /\ PagesHold(b, t)
  <2>1. t = ApplyProgressOrStatus(b, st, caps, stages)
    BY Zenon DEF b
  <2> QED
    BY <1>1, <2>1, ProgressOrStatusOf
<1>4. /\ SameJob(s, t) /\ SameMode(s, t) /\ SameCaptures(s, t) /\ SameWork(s, t) /\ SameAssembly(s, t)
  BY <1>2, <1>3 DEF AllSame, SameJob, SameMode, SameCaptures, SameWork, SameAssembly
<1>5. PagesMove(s, t) /\ PagesHold(s, t)
  BY <1>2, <1>3 DEF PagesMove, PagesHold, Under
<1>6. t.finalizing => t.assembly # <<>>
  BY <1>4 DEF RunFits, PumpReady, WorkFits, SameAssembly
<1>7. RunFits(t)
  BY <1>3, <1>4, <1>5, <1>6, MovedRun DEF SameMode, SameWork
<1>8. IdsKnown(t, n)
  BY <1>4, SameIdsFit
<1> QED
  BY <1>4, <1>5, <1>7, <1>8 DEF SameMode

LEMMA FailedRun ==
  ASSUME NEW s, RunFits(s), s.aiConfigured = TRUE, NEW n, IdsKnown(s, n), NEW caps,
         NEW stages \in [ToSet(caps) -> Stages], NEW code \in Codes,
         NEW t, t = FailBackgroundJob(ApplyProgress(s, caps, stages), caps, code)
  PROVE  RunFits(t) /\ IdsKnown(t, n) /\ t.aiConfigured = TRUE /\ t.reads = s.reads
<1> DEFINE b == ApplyProgress(s, caps, stages)
<1>0. s \in CaptureState
  BY DEF RunFits, PumpReady
<1>1. b \in CaptureState /\ AllSame(s, b) /\ PagesMove(s, b)
  BY <1>0, ProgressOf
<1> HIDE DEF b
<1>2. /\ t \in CaptureState /\ PagesMove(b, t)
      /\ SameJob(b, t) /\ SameMode(b, t) /\ SameCaptures(b, t) /\ SameWork(b, t) /\ t.finalizing = FALSE
  <2>1. t = FailBackgroundJob(b, caps, code)
    BY Zenon DEF b
  <2> QED
    BY <1>1, <2>1, FailedPages
<1>3. /\ SameJob(s, t) /\ SameMode(s, t) /\ SameCaptures(s, t) /\ SameWork(s, t)
  BY <1>1, <1>2 DEF AllSame, SameJob, SameMode, SameCaptures, SameWork
<1>4. PagesMove(s, t)
  BY <1>1, <1>2 DEF PagesMove
<1>5. RunFits(t)
  BY <1>2, <1>3, <1>4, MovedRun DEF SameMode, SameWork
<1>6. IdsKnown(t, n)
  BY <1>3, SameIdsFit
<1> QED
  BY <1>3, <1>5, <1>6 DEF SameMode, SameJob

LEMMA CancelledJobRun ==
  ASSUME NEW s, RunFits(s), s.aiConfigured = TRUE, NEW n \in Nat, IdsKnown(s, n),
         NEW t, t = CancelReceiptExtraction(ClearReceiptExtractionJob(s, FALSE))
  PROVE  RunFits(t) /\ IdsKnown(t, n) /\ t.aiConfigured = TRUE /\ PagesHold(s, t)
<1> DEFINE b == ClearReceiptExtractionJob(s, FALSE)
<1>0. s \in CaptureState
  BY DEF RunFits, PumpReady
<1>1. /\ b \in CaptureState /\ SameMode(s, b) /\ SameCaptures(s, b) /\ SameWork(s, b) /\ SameAssembly(s, b)
      /\ b.page = s.page /\ b.activeJobId = 0 /\ b.posts = s.posts /\ b.reads = s.reads
  BY <1>0, ClearedJobOf
<1> HIDE DEF b
<1>2. IdsKnown(b, n)
  BY <1>0, <1>1, ClearedIdsFit
<1>3. RunFits(b)
  <2>1. PagesMove(s, b)
    BY <1>1 DEF PagesMove
  <2>2. b.finalizing => b.assembly # <<>>
    BY <1>1 DEF RunFits, PumpReady, WorkFits, SameAssembly
  <2> QED
    BY <1>1, <2>1, <2>2, MovedRun DEF SameMode, SameWork
<1>4. RunFits(t) /\ IdsKnown(t, n) /\ t.aiConfigured = b.aiConfigured /\ PagesHold(b, t)
  <2>1. t = CancelReceiptExtraction(b)
    BY Zenon DEF b
  <2> QED
    BY <1>2, <1>3, <2>1, CancelledRun
<1> QED
  BY <1>1, <1>4 DEF SameMode, PagesHold, Under

LEMMA JobReadStep ==
  ASSUME CaptureInv, NEW r \in state.reads, NEW stages \in [ToSet(r.caps) -> Stages], NEW code \in Codes, JobRead(r, stages, code)
  PROVE  CaptureInv' /\ (PagesHold(state, state') \/ (r \notin state'.reads /\ r.st \in {"completed", "failed"}))
<1> DEFINE s == ReadGone(state, r)
           n == Len(jobs)
<1>0. r.st # "none" /\ jobs' = jobs /\ n \in Nat /\ state.aiConfigured = TRUE
  BY InvParts, RequestsAreOfAi DEF JobRead
<1>1. /\ r.caps \in CaptureSeqs /\ r.st \in JobStatuses
      /\ s \in CaptureState /\ RunFits(s) /\ IdsKnown(s, n) /\ s.aiConfigured = TRUE
      /\ s.page = state.page /\ s.reads = state.reads \ {r}
  BY <1>0, ReadOfFollowedJob
<1>2. \/ state' = s
      \/ r.st \in {"queued", "running"}
         /\ state' = ApplyProgressOrStatus([s EXCEPT !.processing = TRUE, !.visible = TRUE], r.st, r.caps, stages)
      \/ r.st = "completed" /\ state' = CompleteBackgroundJob(s, r.caps)
      \/ r.st = "cancelled" /\ state' = CancelReceiptExtraction(ClearReceiptExtractionJob(s, FALSE))
      \/ r.st = "failed" /\ state' = FailBackgroundJob(ApplyProgress(s, r.caps, stages), r.caps, code)
  <2>1. r.st \in {"queued", "running", "completed", "cancelled", "failed"}
    BY <1>1 DEF JobStatuses
  <2> HIDE DEF s
  <2>2. s = ReadGone(state, r)
    BY DEF s
  <2> QED
    BY <2>1, <2>2, Zenon DEF JobRead
<1> HIDE DEF s
<1>3. \A t : PagesHold(s, t) => PagesHold(state, t)
  BY <1>1 DEF PagesHold, Under
<1>4. CASE state' = s
  <2>1. PagesHold(state, state')
    BY <1>1, <1>4 DEF PagesHold
  <2> QED
    BY <1>0, <1>1, <1>4, <2>1, StepInv
<1>5. CASE state' = ApplyProgressOrStatus([s EXCEPT !.processing = TRUE, !.visible = TRUE], r.st, r.caps, stages)
  <2>1. RunFits(state') /\ IdsKnown(state', n) /\ state'.aiConfigured = TRUE /\ PagesHold(s, state')
    BY <1>1, <1>5, ProgressRun
  <2> QED
    BY <1>0, <1>3, <2>1, StepInv
<1>6. CASE r.st = "completed" /\ state' = CompleteBackgroundJob(s, r.caps)
  <2>1. RunFits(state') /\ IdsKnown(state', n) /\ state'.aiConfigured = TRUE /\ state'.reads = s.reads
    BY <1>0, <1>1, <1>6, CompletedRun
  <2> QED
    BY <1>0, <1>1, <1>6, <2>1, StepInv
<1>7. CASE state' = CancelReceiptExtraction(ClearReceiptExtractionJob(s, FALSE))
  <2>1. RunFits(state') /\ IdsKnown(state', n) /\ state'.aiConfigured = TRUE /\ PagesHold(s, state')
    BY <1>0, <1>1, <1>7, CancelledJobRun
  <2> QED
    BY <1>0, <1>3, <2>1, StepInv
<1>8. CASE r.st = "failed" /\ state' = FailBackgroundJob(ApplyProgress(s, r.caps, stages), r.caps, code)
  <2>1. RunFits(state') /\ IdsKnown(state', n) /\ state'.aiConfigured = TRUE /\ state'.reads = s.reads
    <3>1. state' = FailBackgroundJob(ApplyProgress(s, r.caps, stages), r.caps, code)
      BY <1>8
    <3> QED
      BY <1>1, <3>1, FailedRun, ZenonT(60)
  <2> QED
    BY <1>0, <1>1, <1>8, <2>1, StepInv
<1> QED
  BY <1>2, <1>4, <1>5, <1>6, <1>7, <1>8

\* A receipt nothing has been done about yet.
LEMMA NewStateOf ==
  ASSUME NEW ai \in BOOLEAN, NEW t, t = NewState(ai)
  PROVE  /\ t \in CaptureState /\ t.aiConfigured = ai /\ t.captures = <<>> /\ t.stored = {} /\ t.uploads = {}
         /\ t.queue = <<>> /\ t.tasks = <<>> /\ t.finalizing = FALSE /\ t.processing = FALSE /\ t.assembly = <<>>
         /\ t.posts = {} /\ t.reads = {} /\ t.activeJobId = 0 /\ t.verifyWithAi = FALSE
         /\ t.drafts = <<>> /\ t.confirm.at = "no"
<1> DEFINE pg == [c \in Captures |-> NewPage]
<1>1. /\ {} \in CaptureSets /\ {} \in PostSets /\ {} \in ReadSets /\ {} \in IdSets /\ {} \in UploadSets
  BY DEF CaptureSets, PostSets, ReadSets, IdSets, UploadSets
<1>2. /\ <<>> \in CaptureSeqs /\ <<>> \in EntrySeqs /\ <<>> \in TaskSeqs /\ <<>> \in SeqsOfSeqs /\ <<>> \in DraftSeqs
  BY DEF CaptureSeqs, EntrySeqs, TaskSeqs, SeqsOfSeqs, DraftSeqs
<1>3. pg \in PageMaps
  BY DEF PageMaps, NewPage, CapturePage
<1>4. "none" \in DraftNames /\ 0 \in Nat /\ FALSE \in BOOLEAN
  BY DEF DraftNames
<1>5. NoConfirm \in Confirms /\ NoConfirm.at = "no"
  BY <1>2 DEF NoConfirm, Confirms
<1> HIDE DEF pg
<1>6. t = [aiConfigured |-> ai, stored |-> {}, captures |-> <<>>, page |-> pg,
           queue |-> <<>>, tasks |-> <<>>, ghosts |-> 0,
           processing |-> FALSE, finalizing |-> FALSE, visible |-> FALSE, verifyWithAi |-> FALSE,
           assembly |-> <<>>, extraction |-> <<>>, drafts |-> <<>>, draft |-> "none",
           activeJobId |-> 0, jobKeys |-> <<>>, failed |-> FALSE, pendingScope |-> <<>>,
           posts |-> {}, reads |-> {}, deletes |-> {}, uploads |-> {}, recovering |-> FALSE,
           confirm |-> NoConfirm]
  BY Zenon DEF NewState, pg
<1>7. t \in CaptureState
  BY <1>1, <1>2, <1>3, <1>4, <1>5, <1>6, SMTT(60) DEF CaptureState
<1> QED
  BY <1>5, <1>6, <1>7

LEMMA CaptureInitOK == CaptureInit => CaptureInv
<1> SUFFICES ASSUME CaptureInit PROVE CaptureInv
  OBVIOUS
<1>1. PICK ai \in Modes : state = NewState(ai)
  BY DEF CaptureInit
<1>2. ai \in BOOLEAN
  BY <1>1, CaptureAssumption
<1>3. /\ state \in CaptureState /\ state.aiConfigured = ai /\ state.captures = <<>> /\ state.stored = {} /\ state.uploads = {}
      /\ state.queue = <<>> /\ state.tasks = <<>> /\ state.finalizing = FALSE /\ state.processing = FALSE /\ state.assembly = <<>>
      /\ state.posts = {} /\ state.reads = {} /\ state.activeJobId = 0 /\ state.verifyWithAi = FALSE
      /\ state.drafts = <<>> /\ state.confirm.at = "no"
  BY <1>1, <1>2, NewStateOf
<1>4. DraftsFit(state) /\ WorkGoesOn(state)
  BY <1>3 DEF DraftsFit, WorkGoesOn, Heads
<1>5. IsInjective(state.captures) /\ ToSet(state.captures) \subseteq state.stored
  BY <1>3 DEF IsInjective, ToSet
<1>6. RunFits(state)
  BY <1>3, <1>4, <1>5, ClearedRun
<1>7. jobs = <<>> /\ jobs \in Seq(ServerJob) /\ Len(jobs) = 0 /\ Len(jobs) <= MaxJobs
  BY CaptureAssumption DEF CaptureInit
<1>8. IdsKnown(state, Len(jobs))
  BY <1>3, <1>7, FS_EmptySet DEF IdsKnown
<1> QED
  BY <1>6, <1>7, <1>8 DEF CaptureInv

\* The jobs that the server still creates for requests nobody waits for.
LEMMA InSomeOrder ==
  ASSUME NEW S, IsFiniteSet(S)
  PROVE  Cardinality(S) \in Nat /\ \A i \in 1 .. Cardinality(S) : SetToSeq(S)[i] \in S
<1>1. Cardinality(S) \in Nat /\ ExistsBijection(1 .. Cardinality(S), S)
  BY FS_CardinalityType
<1>2. \E f \in [1 .. Cardinality(S) -> S] : IsInjective(f)
  BY <1>1 DEF ExistsBijection, Bijection, Injection, IsInjective
<1>3. SetToSeq(S) \in [1 .. Cardinality(S) -> S]
  BY <1>2 DEF SetToSeq
<1> QED
  BY <1>1, <1>3

LateJobs(late) == [i \in 1 .. Cardinality(late) |-> [caps |-> SetToSeq(late)[i].caps, st |-> "queued"]]

LEMMA LateJobsOf ==
  ASSUME NEW late \in PostSets, IsFiniteSet(late), NEW js \in Seq(ServerJob)
  PROVE  /\ js \o LateJobs(late) \in Seq(ServerJob) /\ Len(js \o LateJobs(late)) = Len(js) + Cardinality(late)
         /\ Cardinality(late) \in Nat /\ Len(js) \in Nat
         /\ late = {} /\ js = <<>> => js \o LateJobs(late) = <<>>
<1>1. Cardinality(late) \in Nat /\ \A i \in 1 .. Cardinality(late) : SetToSeq(late)[i] \in late
  BY InSomeOrder
<1>2. \A p \in late : [caps |-> p.caps, st |-> "queued"] \in ServerJob
  BY DEF PostSets, JobPost, ServerJob, JobStatuses
<1>3. \A i \in 1 .. Cardinality(late) : [caps |-> SetToSeq(late)[i].caps, st |-> "queued"] \in ServerJob
  BY <1>1, <1>2
<1>4. LateJobs(late) \in Seq(ServerJob) /\ Len(LateJobs(late)) = Cardinality(late)
  BY <1>1, <1>3 DEF LateJobs
<1>5. late = {} => Cardinality(late) = 0
  BY FS_EmptySet
<1> HIDE DEF LateJobs
<1> QED
  BY <1>1, <1>4, <1>5

ReloadedState(captures) == [NewState(state.aiConfigured) EXCEPT !.captures = captures, !.stored = state.stored]

LEMMA ReloadedRun ==
  ASSUME CaptureInv, NEW S, NEW captures, captures = Those(state.captures, S), NEW n \in Nat,
         NEW s, s = ReloadedState(captures)
  PROVE  RunFits(s) /\ IdsKnown(s, n) /\ s.aiConfigured = state.aiConfigured /\ captures \in CaptureSeqs
<1> DEFINE b == NewState(state.aiConfigured)
<1>0. state \in CaptureState /\ CapturesFit(state) /\ state.aiConfigured \in BOOLEAN
      /\ state.captures \in Seq(Captures) /\ state.stored \in CaptureSets
  BY InvParts DEF CaptureState, CaptureSeqs
<1>1. /\ b \in CaptureState /\ b.aiConfigured = state.aiConfigured /\ b.uploads = {}
      /\ b.queue = <<>> /\ b.tasks = <<>> /\ b.finalizing = FALSE /\ b.processing = FALSE /\ b.assembly = <<>>
      /\ b.posts = {} /\ b.reads = {} /\ b.activeJobId = 0 /\ b.verifyWithAi = FALSE
      /\ b.drafts = <<>> /\ b.confirm.at = "no"
  BY <1>0, NewStateOf
<1>2. /\ captures \in CaptureSeqs /\ IsInjective(captures) /\ ToSet(captures) \subseteq state.stored
  BY <1>0, ThoseOf DEF CapturesFit, CaptureSeqs
<1>3. s = [b EXCEPT !.captures = captures, !.stored = state.stored]
  BY DEF ReloadedState
<1> HIDE DEF b
<1>4. s \in CaptureState
  BY <1>0, <1>1, <1>2, <1>3, ZenonT(60) DEF CaptureState
<1>6. /\ s.captures = captures /\ s.stored = state.stored
      /\ s.aiConfigured = state.aiConfigured /\ s.uploads = {}
      /\ s.queue = <<>> /\ s.tasks = <<>> /\ s.finalizing = FALSE /\ s.processing = FALSE /\ s.assembly = <<>>
      /\ s.posts = {} /\ s.reads = {} /\ s.activeJobId = 0 /\ s.verifyWithAi = FALSE
      /\ s.drafts = <<>> /\ s.confirm.at = "no"
  BY <1>1, <1>3 DEF CaptureState
<1>7. DraftsFit(s) /\ WorkGoesOn(s)
  BY <1>6 DEF DraftsFit, WorkGoesOn, Heads
<1>8. RunFits(s)
  BY <1>2, <1>4, <1>6, <1>7, ClearedRun
<1>9. IdsKnown(s, n)
  BY <1>6, FS_EmptySet DEF IdsKnown
<1> QED
  BY <1>2, <1>6, <1>8, <1>9

\* Whether the run of stored captures still has to be looked for is of no account.
LEMMA RecoveringRun ==
  ASSUME NEW s, RunFits(s), NEW n, IdsKnown(s, n), NEW recovering \in BOOLEAN, NEW t, t = [s EXCEPT !.recovering = recovering]
  PROVE  RunFits(t) /\ IdsKnown(t, n) /\ t.aiConfigured = s.aiConfigured /\ t.captures = s.captures /\ t.stored = s.stored /\ t.page = s.page
<1>0. s \in CaptureState
  BY DEF RunFits, PumpReady
<1>1. t \in CaptureState
  BY <1>0, ZenonT(60) DEF CaptureState
<1>2. AllSame(s, t) /\ t.page = s.page /\ t.processing = s.processing
  BY <1>0 DEF CaptureState, AllSame, SameJob, SameMode, SameCaptures, SameWork, SameDrafts, SameAssembly
<1>3. RunFits(t)
  BY <1>1, <1>2, SameRunFits
<1>4. IdsKnown(t, n)
  BY <1>2, SameIdsFit DEF AllSame
<1> QED
  BY <1>2, <1>3, <1>4 DEF AllSame, SameMode, SameCaptures

LEMMA ReloadStep ==
  ASSUME CaptureInv, NEW lost, NEW late, Reload(lost, late)
  PROVE  CaptureInv'
<1> DEFINE captures == Those(state.captures, Captures \ lost)
           s  == ReloadedState(captures)
           id == state.activeJobId
           keys == IF state.jobKeys = <<>> THEN captures ELSE state.jobKeys
           f  == FollowJob(s, id, keys)
           n  == Len(jobs')
<1>0. /\ state \in CaptureState /\ IdsKnown(state, Len(jobs)) /\ Len(jobs) \in Nat /\ jobs \in Seq(ServerJob)
      /\ state.posts \in PostSets /\ state.jobKeys \in CaptureSeqs /\ id \in Nat /\ (~state.aiConfigured => state.posts = {} /\ id = 0 /\ jobs = <<>>)
      /\ state.aiConfigured \in BOOLEAN
  BY InvParts DEF CaptureState, DraftsFit
<1>1. /\ late \subseteq state.posts /\ Len(jobs) + Cardinality(late) <= MaxJobs /\ jobs' = jobs \o LateJobs(late)
      /\ state' = IF id # 0 THEN Refresh(f, FALSE) ELSE [s EXCEPT !.recovering = captures # <<>>]
  BY Zenon DEF Reload, LateJobs, RefreshReceiptExtractionJob, ReloadedState
<1>2. IsFiniteSet(late) /\ late \in PostSets
  BY <1>0, <1>1, FS_Subset DEF IdsKnown, PostSets
<1>3. /\ jobs' \in Seq(ServerJob) /\ n = Len(jobs) + Cardinality(late) /\ Cardinality(late) \in Nat
      /\ (late = {} /\ jobs = <<>> => jobs' = <<>>)
  BY <1>0, <1>1, <1>2, LateJobsOf
<1>4. n \in Nat /\ Len(jobs) <= n /\ n <= MaxJobs
  BY <1>0, <1>1, <1>3
<1>5. ~state.aiConfigured => jobs' = <<>>
  BY <1>0, <1>1, <1>3
<1> HIDE DEF n
<1>6. RunFits(s) /\ IdsKnown(s, n) /\ s.aiConfigured = state.aiConfigured /\ captures \in CaptureSeqs
  BY <1>4, ReloadedRun
<1>7. CASE id = 0
  <2> DEFINE waiting == captures # <<>>
  <2>1. state' = [s EXCEPT !.recovering = waiting]
    BY <1>1, <1>7
  <2>2. waiting \in BOOLEAN
    OBVIOUS
  <2> HIDE DEF waiting, captures, s
  <2>3. RunFits(state') /\ IdsKnown(state', n) /\ state'.aiConfigured = state.aiConfigured
    BY <1>6, <2>1, <2>2, RecoveringRun
  <2> QED
    BY <1>3, <1>4, <1>5, <2>3 DEF CaptureInv, n
<1>8. CASE id # 0
  <2>1. state' = Refresh(f, FALSE) /\ state.aiConfigured = TRUE /\ id <= n
    BY <1>0, <1>1, <1>4, <1>8 DEF IdsKnown
  <2>2. keys \in CaptureSeqs
    BY <1>0, <1>6
  <2> HIDE DEF s, captures, keys, id
  <2>3. s \in CaptureState
    BY <1>6 DEF RunFits, PumpReady
  <2>4. /\ f \in CaptureState /\ SameMode(s, f) /\ SameCaptures(s, f) /\ SameWork(s, f) /\ SameAssembly(s, f)
        /\ f.page = s.page /\ f.posts = s.posts /\ f.reads = s.reads /\ f.activeJobId = id
    <3>1. f = FollowJob(s, id, keys) /\ id \in Nat
      BY <1>0
    <3> HIDE DEF f
    <3> QED
      BY <2>2, <2>3, <3>1, FollowedOf
  <2> HIDE DEF f
  <2>5. RunFits(f)
    <3>1. PagesMove(s, f)
      BY <2>4 DEF PagesMove
    <3>2. f.finalizing => f.assembly # <<>>
      BY <1>6, <2>4 DEF RunFits, PumpReady, WorkFits, SameAssembly
    <3> QED
      BY <1>6, <2>1, <2>4, <3>1, <3>2, MovedRun DEF SameMode, SameWork
  <2>6. IdsKnown(f, n)
    BY <1>6, <2>1, <2>4 DEF IdsKnown
  <2>7. RunFits(state') /\ IdsKnown(state', n) /\ state'.aiConfigured = f.aiConfigured
    BY <1>4, <2>1, <2>5, <2>6, RefreshedRun
  <2>8. state'.aiConfigured = TRUE
    BY <1>6, <2>1, <2>4, <2>7 DEF SameMode
  <2> QED
    BY <1>3, <1>4, <2>7, <2>8, JobStepInv DEF n
<1> QED
  BY <1>7, <1>8

\* The job that is adopted is one of those that may be.
LEMMA AdoptedOf ==
  ASSUME NEW caps, jobs \in Seq(ServerJob), Adoptable(caps) # {}
  PROVE  Adopted(caps) \in Adoptable(caps) /\ Adopted(caps) \in 1 .. Len(jobs)
<1> DEFINE S == Adoptable(caps)
           R == {AdoptionRank(j) : j \in S}
<1>1. S \subseteq 1 .. Len(jobs) /\ Len(jobs) \in Nat
  BY DEF Adoptable
<1>2. \A j \in S : AdoptionRank(j) \in Nat
  BY DEF AdoptionRank
<1>3. R \in SUBSET Nat /\ R # {}
  BY <1>2
<1> HIDE DEF S
<1>4. PICK m \in R : \A k \in R : m <= k
  <2> HIDE DEF R
  <2> QED
    BY <1>3, NatLeast
<1> DEFINE D == {Len(jobs) - j : j \in {k \in S : AdoptionRank(k) = m}}
<1>5. D \in SUBSET Nat /\ D # {}
  BY <1>1, <1>4
<1>6. PICK d \in D : \A e \in D : d <= e
  <2> HIDE DEF D
  <2> QED
    BY <1>5, NatLeast
<1>7. PICK j \in S : AdoptionRank(j) = m /\ d = Len(jobs) - j
  BY <1>6
<1>8. ASSUME NEW k \in S
      PROVE  AdoptionRank(j) < AdoptionRank(k) \/ (AdoptionRank(j) = AdoptionRank(k) /\ j >= k)
  <2>1. AdoptionRank(k) \in R /\ m <= AdoptionRank(k) /\ AdoptionRank(k) \in Nat /\ m \in Nat
    BY <1>2, <1>4, <1>7, <1>8 DEF S
  <2>2. CASE AdoptionRank(k) = m
    <3>1. Len(jobs) - k \in D
      BY <2>2
    <3>2. Len(jobs) - j <= Len(jobs) - k
      BY <1>6, <1>7, <3>1
    <3>3. j >= k
      BY <1>1, <3>2
    <3> QED
      BY <1>7, <2>1, <2>2, <3>3
  <2>3. CASE AdoptionRank(k) # m
    <3>1. m < AdoptionRank(k)
      BY <2>1, <2>3
    <3> QED
      BY <1>7, <3>1
  <2> QED
    BY <2>2, <2>3
<1>9. Adopted(caps) \in S
  <2>1. \E a \in S : \A k \in S : AdoptionRank(a) < AdoptionRank(k) \/ (AdoptionRank(a) = AdoptionRank(k) /\ a >= k)
    BY <1>8
  <2> QED
    BY <2>1, Zenon DEF Adopted, S
<1> QED
  BY <1>1, <1>9 DEF S

LEMMA AdoptedRun ==
  ASSUME NEW s, RunFits(s), s.aiConfigured = TRUE, NEW n \in Nat, IdsKnown(s, n), Adopted(s.captures) \in 1 .. n,
         NEW t, t = FollowAdopted(s)
  PROVE  RunFits(t) /\ IdsKnown(t, n) /\ t.aiConfigured = TRUE /\ PagesHold(s, t)
<1> DEFINE id == Adopted(s.captures)
           f  == FollowJob(s, id, s.captures)
           g  == [f EXCEPT !.verifyWithAi = TRUE]
<1>0. s \in CaptureState /\ s.captures \in CaptureSeqs /\ id \in Nat /\ id <= n
  BY DEF RunFits, PumpReady, CaptureState
<1>1. t = Refresh(g, FALSE)
  BY Zenon DEF FollowAdopted, RefreshReceiptExtractionJob
<1>2. /\ f \in CaptureState /\ SameMode(s, f) /\ SameCaptures(s, f) /\ SameWork(s, f) /\ SameAssembly(s, f)
      /\ f.page = s.page /\ f.posts = s.posts /\ f.reads = s.reads /\ f.activeJobId = id
  <2>1. f = FollowJob(s, id, s.captures)
    OBVIOUS
  <2> HIDE DEF f, id
  <2> QED
    BY <1>0, <2>1, FollowedOf
<1> HIDE DEF f, id
<1>3. g \in CaptureState
  BY <1>2, ZenonT(60) DEF CaptureState
<1>4. /\ g.aiConfigured = f.aiConfigured /\ SameCaptures(f, g) /\ SameWork(f, g) /\ SameAssembly(f, g)
      /\ g.page = f.page /\ g.posts = f.posts /\ g.reads = f.reads /\ g.activeJobId = f.activeJobId
  BY <1>2 DEF CaptureState, SameCaptures, SameWork, SameAssembly
<1> HIDE DEF g
<1>5. /\ g.aiConfigured = TRUE /\ SameCaptures(s, g) /\ SameWork(s, g) /\ SameAssembly(s, g) /\ PagesMove(s, g) /\ g.page = s.page
  BY <1>2, <1>4 DEF SameMode, SameCaptures, SameWork, SameAssembly, PagesMove
<1>6. RunFits(g)
  <2>1. g.finalizing => g.assembly # <<>>
    BY <1>5 DEF RunFits, PumpReady, WorkFits, SameAssembly
  <2> QED
    BY <1>3, <1>5, <2>1, MovedRun DEF SameWork
<1>7. IdsKnown(g, n)
  BY <1>0, <1>2, <1>4 DEF IdsKnown
<1>8. RunFits(t) /\ IdsKnown(t, n) /\ t.aiConfigured = g.aiConfigured /\ t.page = g.page
  BY <1>1, <1>6, <1>7, RefreshedRun
<1> QED
  BY <1>5, <1>8 DEF PagesHold

LEMMA RecoverPersistedStep ==
  ASSUME CaptureInv, RecoverPersistedReceiptDraft
  PROVE  CaptureInv' /\ PagesHold(state, state')
<1> DEFINE s == [state EXCEPT !.recovering = FALSE]
           n == Len(jobs)
<1>0. RunFits(state) /\ IdsKnown(state, n) /\ jobs \in Seq(ServerJob) /\ n \in Nat /\ jobs' = jobs
      /\ CapturesFit(state) /\ state.captures \in CaptureSeqs
  BY InvParts DEF RecoverPersistedReceiptDraft, CaptureState
<1>1. state' = IF Adoptable(s.captures) = {} THEN StartAutomaticCaptureProcessing(s, s.captures) ELSE FollowAdopted(s)
  BY Zenon DEF RecoverPersistedReceiptDraft
<1>2. /\ RunFits(s) /\ IdsKnown(s, n) /\ s.aiConfigured = state.aiConfigured
      /\ s.captures = state.captures /\ s.stored = state.stored /\ s.page = state.page
  BY <1>0, RecoveringRun
<1> HIDE DEF s
<1>3. CASE Adoptable(s.captures) = {}
  <2>1. state' = StartAutomaticCaptureProcessing(s, s.captures)
    BY <1>1, <1>3
  <2>2. s.captures \in CaptureSeqs /\ IsInjective(s.captures) /\ ToSet(s.captures) \subseteq s.stored
    BY <1>0, <1>2 DEF CapturesFit
  <2>3. RunFits(state') /\ IdsKnown(state', n) /\ state'.aiConfigured = s.aiConfigured /\ PagesHold(s, state')
    BY <1>0, <1>2, <2>1, <2>2, StartedRun
  <2>4. CaptureInv'
    BY <1>0, <1>2, <2>3, StepInv
  <2> QED
    BY <1>2, <2>3, <2>4 DEF PagesHold, Under
<1>4. CASE Adoptable(s.captures) # {}
  <2>1. state' = FollowAdopted(s)
    BY <1>1, <1>4
  <2>2. Adopted(s.captures) \in 1 .. n
    BY <1>0, <1>4, AdoptedOf
  <2>3. s.aiConfigured = TRUE
    <3>1. jobs # <<>>
      BY <1>4 DEF Adoptable
    <3> QED
      BY <1>2, <3>1, RequestsAreOfAi
  <2>4. RunFits(state') /\ IdsKnown(state', n) /\ state'.aiConfigured = TRUE /\ PagesHold(s, state')
    BY <1>0, <1>2, <2>1, <2>2, <2>3, AdoptedRun
  <2>5. CaptureInv'
    BY <1>0, <1>2, <2>3, <2>4, StepInv
  <2> QED
    BY <1>2, <2>4, <2>5 DEF PagesHold, Under
<1> QED
  BY <1>3, <1>4

\* A receipt is confirmed: what was under way is dropped, and its captures and its draft go.
OtherDrafts(s) == Those(s.drafts, {d \in ToSet(s.drafts) : Head(d) # s.confirm.keys[1]})
OtherCaptures(s) == Those(s.captures, Captures \ ToSet(s.confirm.keys))

LEMMA OthersOf ==
  ASSUME NEW s \in CaptureState, CapturesFit(s)
  PROVE  /\ OtherDrafts(s) \in DraftSeqs
         /\ \A i \in DOMAIN OtherDrafts(s) :
              /\ Head(OtherDrafts(s)[i]) # s.confirm.keys[1]
              /\ \E j \in DOMAIN s.drafts : OtherDrafts(s)[i] = s.drafts[j]
         /\ OtherDrafts(s) # <<>> => Head(OtherDrafts(s)[1]) \in DraftNames /\ 1 \in DOMAIN OtherDrafts(s)
         /\ OtherCaptures(s) \in CaptureSeqs /\ IsInjective(OtherCaptures(s)) /\ ToSet(OtherCaptures(s)) \subseteq ToSet(s.captures)
<1> DEFINE T == CaptureSeqs \ {<<>>}
           S == {d \in ToSet(s.drafts) : Head(d) # s.confirm.keys[1]}
           o == OtherDrafts(s)
<1>1. s.drafts \in Seq(T) /\ s.captures \in Seq(Captures) /\ IsInjective(s.captures)
  BY DEF CaptureState, DraftSeqs, CaptureSeqs, CapturesFit
<1>2. OtherCaptures(s) \in Seq(Captures) /\ IsInjective(OtherCaptures(s)) /\ ToSet(OtherCaptures(s)) \subseteq ToSet(s.captures)
  BY <1>1, ThoseOf DEF OtherCaptures
<1>3. o \in Seq(T) /\ ToSet(o) = ToSet(s.drafts) \cap S
  <2>1. o = Those(s.drafts, S)
    BY DEF OtherDrafts
  <2> HIDE DEF T, S, o
  <2> QED
    BY <1>1, <2>1, ThoseOf
<1> HIDE DEF o
<1>4. \A i \in DOMAIN o : o[i] \in ToSet(o)
  BY <1>3 DEF ToSet
<1>5. \A i \in DOMAIN o : o[i] \in ToSet(s.drafts) /\ Head(o[i]) # s.confirm.keys[1]
  BY <1>3, <1>4
<1>6. \A x \in ToSet(s.drafts) : \E j \in DOMAIN s.drafts : x = s.drafts[j]
  BY DEF ToSet
<1>7. ASSUME o # <<>> PROVE Head(o[1]) \in DraftNames /\ 1 \in DOMAIN o
  <2>1. 1 \in DOMAIN o /\ o[1] \in T
    BY <1>3, <1>7
  <2>2. \A x \in T : Head(x) \in Captures
    BY DEF CaptureSeqs
  <2> QED
    BY <2>1, <2>2 DEF DraftNames
<1>8. o \in DraftSeqs
  BY <1>3 DEF DraftSeqs
<1> QED
  BY <1>2, <1>5, <1>6, <1>7, <1>8 DEF o, CaptureSeqs

\* What is left of the receipt, before a draft of it is selected.
ConfirmedState(t, captures, ds) == [t EXCEPT !.captures = captures, !.drafts = ds, !.confirm = NoConfirm]

LEMMA ConfirmedOf ==
  ASSUME NEW t \in CaptureState, NEW captures \in CaptureSeqs, NEW ds \in DraftSeqs,
         NEW a, a = ConfirmedState(t, captures, ds)
  PROVE  /\ a \in CaptureState /\ SameJob(t, a) /\ SameMode(t, a) /\ SameWork(t, a)
         /\ a.stored = t.stored /\ a.uploads = t.uploads /\ a.processing = t.processing
         /\ a.assembly = t.assembly /\ a.finalizing = t.finalizing
         /\ a.captures = captures /\ a.drafts = ds /\ a.confirm.at = "no"
<1>1. a = [t EXCEPT !.captures = captures, !.drafts = ds, !.confirm = NoConfirm]
  BY DEF ConfirmedState
<1>2. NoConfirm \in Confirms /\ NoConfirm.at = "no"
  BY DEF NoConfirm, Confirms, CaptureSeqs
<1>3. a \in CaptureState
  BY <1>1, <1>2, ZenonT(60) DEF CaptureState
<1>4. /\ SameJob(t, a) /\ SameMode(t, a) /\ SameWork(t, a)
      /\ a.stored = t.stored /\ a.uploads = t.uploads /\ a.processing = t.processing
      /\ a.assembly = t.assembly /\ a.finalizing = t.finalizing
      /\ a.captures = captures /\ a.drafts = ds /\ a.confirm = NoConfirm
  BY <1>1 DEF CaptureState, SameJob, SameMode, SameWork
<1> QED
  BY <1>2, <1>3, <1>4

\* What any state that is left has of the one before.
ConfirmedFrom(s, a) ==
  /\ a \in CaptureState /\ a.aiConfigured = s.aiConfigured /\ a.verifyWithAi = s.verifyWithAi
  /\ a.stored = s.stored /\ a.uploads = s.uploads
  /\ a.queue = <<>> /\ a.tasks = <<>> /\ a.finalizing = FALSE /\ a.assembly = <<>>
  /\ a.captures = OtherCaptures(s) /\ a.drafts = OtherDrafts(s) /\ a.confirm.at = "no"
  /\ a.posts = Untokened(s.posts) /\ a.reads = s.reads

LEMMA ConfirmedRun ==
  ASSUME NEW s, RunFits(s), s.confirm.at = "importing", NEW n \in Nat, IdsKnown(s, n),
         NEW a, ConfirmedFrom(s, a), a.activeJobId = s.activeJobId \/ a.activeJobId = 0,
         a.drafts # <<>> => a.draft = Head(a.drafts[1]),
         \/ a.processing = FALSE
         \/ /\ a.drafts # <<>> /\ a.processing = s.processing
            /\ (s.tasks # <<>> \/ s.ghosts > 0) => a.ghosts > 0
  PROVE  RunFits(a) /\ IdsKnown(a, n) /\ a.aiConfigured = s.aiConfigured
<1>0. /\ s \in CaptureState /\ CapturesFit(s) /\ (~s.aiConfigured => DraftsFit(s) /\ WorkGoesOn(s))
      /\ s.posts \in PostSets /\ s.reads \in ReadSets
  BY DEF RunFits, PumpReady, CaptureState
<1> DEFINE o == OtherDrafts(s)
<1>1. /\ \A i \in DOMAIN o : Head(o[i]) # s.confirm.keys[1] /\ \E j \in DOMAIN s.drafts : o[i] = s.drafts[j]
      /\ o # <<>> => Head(o[1]) \in DraftNames /\ 1 \in DOMAIN o
      /\ IsInjective(a.captures) /\ ToSet(a.captures) \subseteq ToSet(s.captures) /\ a.drafts = o
  BY <1>0, OthersOf DEF ConfirmedFrom
<1> HIDE DEF o
<1>2. Heads(a) \subseteq Heads(s) /\ s.confirm.keys[1] \notin Heads(a) /\ (a.drafts # <<>> => a.draft \in Heads(a))
  BY <1>1 DEF Heads
<1>3. LiveHeads(a) \subseteq LiveHeads(s) /\ s.confirm.keys[1] \notin LiveHeads(a)
  BY <1>1, <1>2 DEF LiveHeads
<1>4. ASSUME ~a.aiConfigured PROVE DraftsFit(a)
  <2>1. DraftsFit(s)
    BY <1>0, <1>4 DEF ConfirmedFrom
  <2>2. a.posts = {} /\ a.reads = {} /\ a.activeJobId = 0 /\ ~a.verifyWithAi
    BY <1>0, <2>1, UntokenedOf DEF DraftsFit, ConfirmedFrom
  <2>3. \A u \in a.uploads : ~u.had
    BY <2>1 DEF DraftsFit, ConfirmedFrom
  <2>4. \A i \in DOMAIN a.drafts : Len(a.drafts[i]) = 1
    BY <1>1, <2>1 DEF DraftsFit
  <2>5. Heads(a) \subseteq a.stored
    BY <1>2, <2>1 DEF DraftsFit, ConfirmedFrom
  <2> QED
    BY <1>2, <2>2, <2>3, <2>4, <2>5 DEF DraftsFit, ConfirmedFrom
<1>5. ASSUME ~a.aiConfigured PROVE WorkGoesOn(a)
  <2>1. DraftsFit(s) /\ WorkGoesOn(s)
    BY <1>0, <1>5 DEF ConfirmedFrom
  <2>2. CASE a.processing = FALSE
    BY <2>2 DEF WorkGoesOn
  <2>3. CASE a.drafts # <<>> /\ a.processing = s.processing /\ ((s.tasks # <<>> \/ s.ghosts > 0) => a.ghosts > 0)
    <3>1. ASSUME s.assembly # <<>> PROVE LiveHeads(a) = {}
      <4>1. LiveHeads(s) \subseteq {s.confirm.keys[1]}
        BY <2>1, <3>1 DEF DraftsFit
      <4> QED
        BY <1>3, <4>1
    <3>2. LiveHeads(s) = {} => LiveHeads(a) = {}
      BY <1>3
    <3> QED
      BY <2>1, <2>3, <3>1, <3>2 DEF WorkGoesOn
  <2> QED
    BY <2>2, <2>3
<1>6. RunFits(a)
  <2>1. /\ ToSet(a.captures) \subseteq a.stored /\ \A u \in a.uploads : IsInjective(u.added) /\ ToSet(u.added) \subseteq a.stored
    BY <1>0, <1>1 DEF CapturesFit, ConfirmedFrom
  <2>2. a \in CaptureState /\ a.queue = <<>> /\ a.tasks = <<>> /\ a.finalizing = FALSE
    BY DEF ConfirmedFrom
  <2> QED
    BY <1>1, <1>4, <1>5, <2>1, <2>2, ClearedRun
<1>7. IdsKnown(a, n)
  <2> DEFINE b == [posts |-> a.posts, reads |-> a.reads, activeJobId |-> s.activeJobId]
  <2>1. b.activeJobId = s.activeJobId /\ b.posts = Untokened(s.posts) /\ b.reads = s.reads
    BY DEF ConfirmedFrom
  <2>2. b.posts = a.posts /\ b.reads = a.reads
    OBVIOUS
  <2> HIDE DEF b
  <2>3. IdsKnown(b, n)
    BY <1>0, <2>1, UntokenedIdsFit
  <2> QED
    BY <2>1, <2>2, <2>3 DEF IdsKnown
<1> QED
  BY <1>6, <1>7 DEF ConfirmedFrom

LEMMA ReceiptConfirmedStep ==
  ASSUME CaptureInv, ReceiptConfirmed
  PROVE  CaptureInv'
<1> DEFINE n    == Len(jobs)
           keys == ToSet(state.confirm.keys)
           d    == Dropped(state)
           t    == Pages(d, keys, LAMBDA c, pg : NewPage)
           a    == ConfirmedState(t, OtherCaptures(state), OtherDrafts(state))
           o    == OtherDrafts(state)
           k    == ClearReceiptExtractionJob(a, FALSE)
<1>0. /\ state \in CaptureState /\ RunFits(state) /\ CapturesFit(state) /\ IdsKnown(state, n) /\ n \in Nat /\ jobs' = jobs
      /\ state.confirm.at = "importing"
  BY InvParts DEF ReceiptConfirmed
<1>1. /\ d \in CaptureState /\ SameMode(state, d) /\ SameCaptures(state, d) /\ SameDrafts(state, d)
      /\ d.page = state.page /\ d.processing = state.processing /\ d.confirm = state.confirm
      /\ d.queue = <<>> /\ d.tasks = <<>> /\ d.finalizing = FALSE /\ d.assembly = <<>>
      /\ d.activeJobId = state.activeJobId /\ d.reads = state.reads /\ d.posts = Untokened(state.posts)
      /\ (state.tasks # <<>> \/ state.ghosts > 0) => d.ghosts > 0
  <2> HIDE DEF d
  <2>1. d = Dropped(state)
    BY DEF d
  <2> QED
    BY <1>0, <2>1, DroppedOf
<1>2. t \in CaptureState /\ AllSame(d, t) /\ t.processing = d.processing
  <2>1. t = Pages(d, keys, LAMBDA c, pg : NewPage)
    OBVIOUS
  <2> HIDE DEF t, d
  <2> QED
    BY <1>1, <2>1, RenewedOf
<1>3. t.captures = state.captures /\ t.drafts = state.drafts /\ t.confirm = state.confirm
  BY <1>1, <1>2 DEF AllSame, SameCaptures, SameDrafts, SameAssembly
<1>4. state' = IF o # <<>> THEN [a EXCEPT !.draft = Head(o[1])]
               ELSE [k EXCEPT !.extraction = <<>>, !.processing = FALSE, !.visible = FALSE, !.draft = "none"]
  <2>1. AbortPageWork(state, FALSE) = d
    BY <1>0, AbortIs
  <2>2. /\ OtherDrafts(state) = Those(t.drafts, {x \in ToSet(t.drafts) : Head(x) # state.confirm.keys[1]})
        /\ OtherCaptures(state) = Those(t.captures, Captures \ keys)
    BY <1>3, Zenon DEF OtherDrafts, OtherCaptures
  <2> HIDE DEF d
  <2>3. a = [t EXCEPT !.captures = Those(t.captures, Captures \ keys), !.drafts = o, !.confirm = NoConfirm]
    BY <2>2 DEF ConfirmedState
  <2> QED
    BY <2>1, <2>2, <2>3, Zenon DEF ReceiptConfirmed
<1>5. /\ o \in DraftSeqs /\ OtherCaptures(state) \in CaptureSeqs
      /\ o # <<>> => Head(o[1]) \in DraftNames
  BY <1>0, OthersOf
<1>6. /\ a \in CaptureState /\ SameJob(t, a) /\ SameMode(t, a) /\ SameWork(t, a)
      /\ a.stored = t.stored /\ a.uploads = t.uploads /\ a.processing = t.processing
      /\ a.assembly = t.assembly /\ a.finalizing = t.finalizing
      /\ a.captures = OtherCaptures(state) /\ a.drafts = o /\ a.confirm.at = "no"
  <2>1. a = ConfirmedState(t, OtherCaptures(state), OtherDrafts(state))
    OBVIOUS
  <2> HIDE DEF a, t
  <2> QED
    BY <1>2, <1>5, <2>1, ConfirmedOf
<1> HIDE DEF a, t, d, keys
<1>7. /\ ConfirmedFrom(state, a) /\ a.activeJobId = state.activeJobId /\ a.processing = state.processing
      /\ (state.tasks # <<>> \/ state.ghosts > 0) => a.ghosts > 0
  BY <1>1, <1>2, <1>6 DEF ConfirmedFrom, AllSame, SameJob, SameMode, SameCaptures, SameWork, SameAssembly
<1>8. /\ k \in CaptureState /\ SameMode(a, k) /\ SameCaptures(a, k) /\ SameWork(a, k) /\ SameDrafts(a, k) /\ SameAssembly(a, k)
      /\ k.page = a.page /\ k.activeJobId = 0 /\ k.posts = a.posts /\ k.reads = a.reads
  <2>1. k = ClearReceiptExtractionJob(a, FALSE)
    OBVIOUS
  <2> HIDE DEF k
  <2> QED
    BY <1>6, <2>1, ClearedJobOf
<1> HIDE DEF k
<1>9. CASE o # <<>>
  <2> DEFINE h == Head(o[1])
  <2>1. state' = [a EXCEPT !.draft = h] /\ h \in DraftNames
    BY <1>4, <1>5, <1>9
  <2>2. state' \in CaptureState
    <3> HIDE DEF h
    <3> QED
      BY <1>6, <2>1, ZenonT(60) DEF CaptureState
  <2>3. /\ ConfirmedFrom(state, state') /\ state'.activeJobId = state.activeJobId /\ state'.processing = state.processing
        /\ state'.ghosts = a.ghosts /\ state'.drafts = o /\ state'.draft = h
    <3> HIDE DEF h, o
    <3> QED
      BY <1>6, <1>7, <2>1, <2>2 DEF ConfirmedFrom, CaptureState
  <2>4. RunFits(state') /\ IdsKnown(state', n) /\ state'.aiConfigured = state.aiConfigured
    BY <1>0, <1>7, <1>9, <2>3, ConfirmedRun
  <2> QED
    BY <1>0, <2>4, StepInv
<1>10. CASE o = <<>>
  <2>1. state' = [k EXCEPT !.extraction = <<>>, !.processing = FALSE, !.visible = FALSE, !.draft = "none"]
    BY <1>4, <1>10
  <2>2. state' \in CaptureState
    <3>1. "none" \in DraftNames /\ <<>> \in CaptureSeqs
      BY DEF DraftNames, CaptureSeqs
    <3> QED
      BY <1>8, <2>1, <3>1, ZenonT(60) DEF CaptureState
  <2>3. /\ SameJob(k, state') /\ SameMode(k, state') /\ SameCaptures(k, state') /\ SameWork(k, state') /\ SameAssembly(k, state')
        /\ state'.drafts = k.drafts /\ state'.processing = FALSE
    BY <1>8, <2>1 DEF CaptureState, SameJob, SameMode, SameCaptures, SameWork, SameAssembly
  <2>4. ConfirmedFrom(state, state') /\ state'.activeJobId = 0
    BY <1>7, <1>8, <2>2, <2>3 DEF ConfirmedFrom, SameJob, SameMode, SameCaptures, SameWork, SameDrafts, SameAssembly
  <2>5. state'.drafts = <<>>
    BY <1>6, <1>8, <1>10, <2>3 DEF SameDrafts
  <2>6. RunFits(state') /\ IdsKnown(state', n) /\ state'.aiConfigured = state.aiConfigured
    BY <1>0, <2>3, <2>4, <2>5, ConfirmedRun
  <2> QED
    BY <1>0, <2>6, StepInv
<1> QED
  BY <1>9, <1>10

--------------------------------------------------------------------------------
(* Every step, and what follows.                                           *)

SettledPagesHeld == \A c \in Captures : SettledPageHeld(c)

LEMMA HeldPages ==
  ASSUME PagesHold(state, state')
  PROVE  SettledPagesHeld
BY Zenon DEF PagesHold, SettledPagesHeld, SettledPageHeld

LEMMA UserActsHold ==
  ASSUME NEW c \in Captures, UserActs(c), HoldsBut(state, state', c)
  PROVE  SettledPagesHeld
BY Zenon DEF HoldsBut, SettledPagesHeld, SettledPageHeld

LEMMA AnswersHold ==
  ASSUME NEW p \in state.posts, HoldsOutside(state, state', ToSet(p.caps)), p \notin state'.posts
  PROVE  SettledPagesHeld
BY Zenon DEF HoldsOutside, SettledPagesHeld, SettledPageHeld

LEMMA EndedJobsHold ==
  ASSUME NEW r \in state.reads, r \notin state'.reads, r.st \in {"completed", "failed"}
  PROVE  SettledPagesHeld
BY Zenon DEF SettledPagesHeld, SettledPageHeld

LEMMA UploadStep ==
  ASSUME CaptureInv, Upload
  PROVE  CaptureInv' /\ SettledPagesHeld
<1>1. CaptureInv'
  BY UploadStartsStep, FileStoredStep, UploadEndsStep, UploadFailsStep DEF Upload
<1>2. SettledPagesHeld
  BY Zenon DEF SettledPagesHeld, SettledPageHeld
<1> QED
  BY <1>1, <1>2

LEMMA LocalWorkStep ==
  ASSUME CaptureInv, LocalWork
  PROVE  CaptureInv' /\ SettledPagesHeld
<1>1. ASSUME NEW i, TaskEnds(i) PROVE CaptureInv' /\ PagesHold(state, state')
  BY <1>1, TaskAnsweredStep, CorrectionCancelledStep DEF TaskEnds
<1> QED
  BY <1>1, GhostEndsStep, AssemblyAnsweredStep, HeldPages DEF LocalWork

LEMMA CaptureActsStep ==
  ASSUME CaptureInv, NEW c \in Captures, UserActs(c) \/ RetryFailedJob(c) \/ SelectReceiptDraft(c)
  PROVE  CaptureInv' /\ SettledPagesHeld
<1>1. CASE UserActs(c)
  BY <1>1, UserActsStep, UserActsHold
<1>2. CASE RetryFailedJob(c)
  BY <1>2, RetryFailedJobStep, HeldPages
<1>3. CASE SelectReceiptDraft(c)
  BY <1>3, SelectStep, HeldPages
<1> QED
  BY <1>1, <1>2, <1>3

LEMMA CapturesChangeStep ==
  ASSUME CaptureInv, NEW i \in 1 .. Cardinality(Captures), MoveCapture(i) \/ DeleteCapture(i)
  PROVE  CaptureInv' /\ SettledPagesHeld
<1>1. CASE MoveCapture(i)
  BY <1>1, MoveCaptureStep, HeldPages
<1>2. CASE DeleteCapture(i)
  <2>1. SettledPagesHeld
    BY <1>2, Zenon DEF SettledPagesHeld, SettledPageHeld
  <2> QED
    BY <1>2, <2>1, DeleteCaptureStep
<1> QED
  BY <1>1, <1>2

LEMMA PostAnsweredStep ==
  ASSUME CaptureInv, NEW p \in state.posts, StartAnswered(p) \/ \E ok \in BOOLEAN : RetryAnswered(p, ok)
  PROVE  CaptureInv' /\ SettledPagesHeld
<1>1. CASE JobCreated(p)
  BY <1>1, JobCreatedStep, HeldPages
<1>2. ASSUME NEW ok \in BOOLEAN, ObsoleteJobDeleted(p, ok) PROVE CaptureInv' /\ SettledPagesHeld
  BY <1>2, ObsoleteJobDeletedStep, HeldPages
<1>3. ASSUME NEW code \in {"create", "other"}, JobRefused(p, code) PROVE CaptureInv' /\ SettledPagesHeld
  BY <1>3, JobRefusedStep, AnswersHold
<1>4. ASSUME NEW ok \in BOOLEAN, RetryAnswered(p, ok) PROVE CaptureInv' /\ SettledPagesHeld
  BY <1>4, RetryAnsweredStep, AnswersHold
<1> QED
  BY <1>1, <1>2, <1>3, <1>4 DEF StartAnswered

LEMMA ReadAnsweredStep ==
  ASSUME CaptureInv, NEW r \in state.reads, ReadAnswered(r)
  PROVE  CaptureInv' /\ SettledPagesHeld
<1>1. CASE ServerReads(r)
  BY <1>1, ServerReadsStep, HeldPages
<1>2. ASSUME NEW stages \in [ToSet(r.caps) -> Stages], NEW code \in Codes, JobRead(r, stages, code)
      PROVE  CaptureInv' /\ SettledPagesHeld
  BY <1>2, JobReadStep, HeldPages, EndedJobsHold
<1>3. CASE ReadFails(r)
  BY <1>3, ReadFailsStep, HeldPages
<1> QED
  BY <1>1, <1>2, <1>3 DEF ReadAnswered

LEMMA ServerStep ==
  ASSUME CaptureInv, NEW id,
         \/ \E st \in {"running", "completed", "failed", "cancelled"} : JobRuns(id, st)
         \/ \E ok \in BOOLEAN : ServerDeletes(id, ok)
  PROVE  CaptureInv' /\ SettledPagesHeld
BY JobRunsStep, ServerDeletesStep, HeldPages

LEMMA ConfirmedStep ==
  ASSUME CaptureInv, ReceiptConfirmed
  PROVE  CaptureInv' /\ SettledPagesHeld
<1>1. SettledPagesHeld
  BY Zenon DEF SettledPagesHeld, SettledPageHeld
<1> QED
  BY <1>1, ReceiptConfirmedStep

LEMMA ReloadedStep ==
  ASSUME CaptureInv, NEW lost \in SUBSET Captures, NEW late \in SUBSET state.posts, Reload(lost, late)
  PROVE  CaptureInv' /\ SettledPagesHeld
<1>1. SettledPagesHeld
  BY Zenon DEF SettledPagesHeld, SettledPageHeld
<1> QED
  BY <1>1, ReloadStep

LEMMA CaptureStep ==
  ASSUME CaptureInv, CaptureNext
  PROVE  CaptureInv' /\ SettledPagesHeld
<1>1. CASE CancelAll
  BY <1>1, CancelAllStep, HeldPages
<1>2. CASE JobNews
  BY <1>2, JobNewsStep, HeldPages
<1>3. CASE ConfirmStarts
  BY <1>3, ConfirmStartsStep, HeldPages
<1>4. ASSUME NEW ok \in BOOLEAN, ReceiptValidated(ok) PROVE CaptureInv' /\ SettledPagesHeld
  BY <1>4, ReceiptValidatedStep, HeldPages
<1>5. CASE RecoverPersistedReceiptDraft
  BY <1>5, RecoverPersistedStep, HeldPages
<1>6. CASE RecoverFails
  BY <1>6, RecoverFailsStep, HeldPages
<1> QED
  BY <1>1, <1>2, <1>3, <1>4, <1>5, <1>6, UploadStep, LocalWorkStep, CaptureActsStep, CapturesChangeStep,
     PostAnsweredStep, ReadAnsweredStep, ServerStep, ConfirmedStep, ReloadedStep, Zenon DEF CaptureNext

LEMMA CaptureStarts == CaptureInit => CaptureInv
BY CaptureInitOK

LEMMA CaptureKeeps ==
  CaptureInv /\ [CaptureNext]_captureVars => CaptureInv' /\ [SettledPagesHeld]_captureVars
<1>1. CASE CaptureNext
  BY <1>1, CaptureStep
<1>2. ASSUME CaptureInv, UNCHANGED captureVars PROVE CaptureInv'
  BY <1>2, Zenon DEF captureVars, CaptureInv
<1> QED
  BY <1>1, <1>2

LEMMA CaptureTyped == CaptureInv => CaptureTypeOK
<1> SUFFICES ASSUME CaptureInv PROVE CaptureTypeOK
  OBVIOUS
<1>1. /\ state \in CaptureState /\ CapturesFit(state) /\ IdsKnown(state, Len(jobs)) /\ Len(jobs) \in Nat /\ Len(jobs) <= MaxJobs
  BY InvParts
<1>2. state.page \in [Captures -> CapturePage] /\ state.captures \in Seq(Captures) /\ state.activeJobId \in Nat
      /\ state.queue \in Seq(PageEntry) /\ state.tasks \in Seq(PageTask)
  BY <1>1 DEF CaptureState, PageMaps, CaptureSeqs, EntrySeqs, TaskSeqs
<1>3. IsInjective(state.captures) /\ ToSet(state.captures) \subseteq Captures
  BY <1>1, <1>2 DEF CapturesFit, ToSet
<1>4. state.activeJobId \in 0 .. Len(jobs)
  BY <1>1, <1>2 DEF IdsKnown
<1>5. ASSUME NEW e \in ToSet(state.queue) \cup ToSet(state.tasks) PROVE e.key \in Captures
  <2>1. e \in PageEntry \/ e \in PageTask
    BY <1>2 DEF ToSet
  <2> QED
    BY <2>1 DEF PageEntry, PageTask
<1> QED
  BY <1>1, <1>2, <1>3, <1>4, <1>5 DEF CaptureTypeOK

LEMMA CaptureWorks == CaptureInv => PageWorkSound
<1> SUFFICES ASSUME CaptureInv PROVE QueueSound /\ RunHasWork
  BY DEF PageWorkSound
<1>1. /\ state \in CaptureState /\ WorkFits(state) /\ QueueFits(state) /\ (~state.aiConfigured => WorkGoesOn(state))
      /\ state.aiConfigured \in BOOLEAN
  BY InvParts DEF CaptureInv, RunFits
<1>2. RunHasWork
  <2>1. ASSUME LiveHeads(state) = {}, NEW d \in ToSet(state.drafts) PROVE ~IsCapture(state, Head(d))
    BY <2>1 DEF LiveHeads, Heads, ToSet, IsCapture
  <2> QED
    BY <1>1, <2>1 DEF RunHasWork, WorkGoesOn
<1>3. QueueSound
  <2>1. Len(state.tasks) <= PAGE_CONCURRENCY
    BY <1>1 DEF WorkFits
  <2>2. IsInjective([i \in DOMAIN state.tasks |-> state.tasks[i].key])
    BY <1>1 DEF WorkFits, IsInjective
  <2>3. IsInjective([i \in DOMAIN state.queue |-> state.queue[i].key])
    BY <1>1 DEF QueueFits, IsInjective
  <2>4. ASSUME Len(state.tasks) < PAGE_CONCURRENCY, NEW e \in ToSet(state.queue), Under(state, e.key) = "pending"
        PROVE  \/ \E x \in ToSet(state.queue) : HasPageTask(state, x.key)
               \/ state.aiConfigured /\ \E t \in ToSet(state.tasks) : ~t.valid
    <3>1. \E i \in DOMAIN state.queue : Under(state, state.queue[i].key) = "pending"
      BY <2>4 DEF ToSet
    <3>2. \/ \E i \in DOMAIN state.queue, j \in DOMAIN state.tasks : state.queue[i].key = state.tasks[j].key
          \/ state.aiConfigured /\ \E j \in DOMAIN state.tasks : ~state.tasks[j].valid
      BY <1>1, <2>4, <3>1 DEF QueueFits
    <3> QED
      BY <3>2 DEF ToSet, HasPageTask
  <2> QED
    BY <2>1, <2>2, <2>3, <2>4 DEF QueueSound
<1> QED
  BY <1>2, <1>3

\* The state of the scan screen is well typed.
THEOREM CapturesAreTyped == CaptureSpec => []CaptureTypeOK
BY CaptureStarts, CaptureKeeps, CaptureTyped, PTL DEF CaptureSpec

\* The queue of the pages and the state of the run agree, whatever is uploaded, cancelled,
\* retried, confirmed or reloaded, and whatever answers late.
THEOREM PageWorkIsSound == CaptureSpec => []PageWorkSound
BY CaptureStarts, CaptureKeeps, CaptureWorks, PTL DEF CaptureSpec

\* No late answer and no progress changes a page that the user has cancelled or taken over.
THEOREM SettledPagesAreHeld == CaptureSpec => SettledPagesHold
<1>1. SettledPagesHold <=> [][SettledPagesHeld]_captureVars
  BY PTL DEF SettledPagesHold, SettledPagesHeld
<1> QED
  BY <1>1, CaptureStarts, CaptureKeeps, PTL DEF CaptureSpec

================================================================================
