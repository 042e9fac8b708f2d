----------------------------- MODULE Services_proofs -----------------------------
(***************************************************************************)
(* Theorems about the parts of the server that run beside the records: the *)
(* slots of the responses and those of the pages, the staged restore of a  *)
(* backup, the calls to the AI provider and the log, for any jobs, limits, *)
(* backups, settings, calls and events, and any order of answers, failures *)
(* and aborts. The invariant of the slots is stated of any books of a      *)
(* client, so that it also holds between what a call changes and what      *)
(* scheduleResponseSlots does with it; the queues of the pages go along    *)
(* the same lines: what a call leaves behind is Placed, and schedule keeps *)
(* that.                                                                   *)
(***************************************************************************)
EXTENDS MCServices, AiRuntime, ApplicationLog, Induction, FiniteSetTheorems, SequenceTheorems, TLAPS

Steps == {"idle", "waiting", "posting", "retry", "poll", "getting", "cancel", "cancelling", "done"}

\* Where a caller can be whose response holds a slot.
Holding == {"poll", "getting", "cancel", "cancelling", "done"}

SlotTypes ==
  /\ setting \in 1 .. MaxLimit /\ provider \in Providers /\ changes \in 0 .. MaxChanges
  /\ made \in Seq(Providers) /\ Len(made) <= MaxClients /\ current \in 0 .. Len(made)
  /\ limit \in [Client -> 1 .. MaxLimit] /\ active \in [Client -> Int]
  /\ queue \in [Client -> Seq(Callers)] /\ held \in [Client -> SUBSET Callers]
  /\ pc \in [Callers -> Steps] /\ at \in [Callers -> 0 .. Len(made)]
  /\ home \in [Callers -> Providers] /\ remote \in [Callers -> Status] /\ expired \subseteq Deadlines

Posters(p, t, c) == {r \in Callers : p[r] = "posting" /\ t[r] = c}

\* The slots a client has given out, a, of which h are held by responses.
Count(a, h, c, p, t) ==
  /\ a = Cardinality(Posters(p, t, c)) + Cardinality(h)
  /\ \A r \in h : p[r] \in Holding

Counted(ac, he, p, t) ==
  /\ \A c \in Client : Count(ac[c], he[c], c, p, t)
  /\ \A r \in Callers : p[r] = "posting" => t[r] \in Client

\* The callers that wait for one of its slots, once each.
Line(q, c, p, t) ==
  /\ \A i \in 1 .. Len(q) : p[q[i]] = "waiting" /\ t[q[i]] = c
  /\ \A i, j \in 1 .. Len(q) : q[i] = q[j] => i = j
  /\ \A r \in Callers : p[r] = "waiting" /\ t[r] = c => \E i \in 1 .. Len(q) : q[i] = r

Lines(qu, p, t) ==
  /\ \A c \in Client : Line(qu[c], c, p, t)
  /\ \A r \in Callers : p[r] = "waiting" => t[r] \in Client

SlotsInv == SlotTypes /\ Counted(active, held, pc, at) /\ Lines(queue, pc, at) /\ NoIdleSlot

LEMMA CallersAreFinite ==
  ASSUME NEW S, S \subseteq Callers
  PROVE  IsFiniteSet(S) /\ Cardinality(S) \in Nat
BY CallersAssumption, FS_Subset, FS_CardinalityType

LEMMA SlotsStart == Init => SlotsInv
<1> SUFFICES ASSUME Init PROVE SlotsInv
  OBVIOUS
<1> USE BoundsAssumption DEF Init, Client
<1>1. SlotTypes
  <2>1. made \in Seq(Providers) /\ Len(made) = 0 /\ queue \in [Client -> Seq(Callers)]
    OBVIOUS
  <2>2. limit \in [Client -> 1 .. MaxLimit] /\ active \in [Client -> Int] /\ held \in [Client -> SUBSET Callers]
    OBVIOUS
  <2>3. pc \in [Callers -> Steps] /\ home \in [Callers -> Providers] /\ remote \in [Callers -> Status]
    BY DEF Steps, Status
  <2>4. at \in [Callers -> 0 .. Len(made)]
    BY <2>1
  <2> QED
    BY <2>1, <2>2, <2>3, <2>4 DEF SlotTypes
<1>2. \A c \in Client : Posters(pc, at, c) = {} /\ held[c] = {}
  BY DEF Posters
<1>3. Counted(active, held, pc, at)
  <2>1. \A c \in Client : active[c] = 0 /\ Cardinality(Posters(pc, at, c)) = 0 /\ Cardinality(held[c]) = 0
    BY <1>2, FS_EmptySet
  <2> QED
    BY <1>2, <2>1 DEF Counted, Count
<1>4. Lines(queue, pc, at) /\ NoIdleSlot
  BY DEF Lines, Line, NoIdleSlot
<1> QED
  BY <1>1, <1>3, <1>4 DEF SlotsInv

--------------------------------------------------------------------------------
(* scheduleResponseSlots.                                                  *)

\* The callers at the front of a queue.
Front(q, n) == {q[i] : i \in 1 .. n}

LEMMA FrontCounts ==
  ASSUME NEW q \in Seq(Callers), NEW n \in 0 .. Len(q), \A i, j \in 1 .. Len(q) : q[i] = q[j] => i = j
  PROVE  Front(q, n) \subseteq Callers /\ Cardinality(Front(q, n)) = n
<1>1. /\ Len(q) \in Nat /\ 1 .. n \subseteq 1 .. Len(q) /\ \A i \in 1 .. Len(q) : q[i] \in Callers
  OBVIOUS
<1> DEFINE f == [i \in 1 .. n |-> q[i]]
<1>2. f \in Bijection(1 .. n, Front(q, n))
  <2>1. f \in [1 .. n -> Front(q, n)] /\ \A t \in Front(q, n) : \E i \in 1 .. n : f[i] = t
    BY DEF Front
  <2>2. \A i, j \in 1 .. n : f[i] = f[j] => i = j
    BY <1>1
  <2> QED
    BY <2>1, <2>2 DEF Bijection, Injection, Surjection, IsInjective
<1>3. IsFiniteSet(1 .. n) /\ Cardinality(1 .. n) = n
  BY <1>1, FS_Interval
<1>4. ExistsBijection(1 .. n, Front(q, n))
  BY <1>2 DEF ExistsBijection
<1> QED
  BY <1>1, <1>3, <1>4, FS_Bijection DEF Front

\* The first n of a queue are served, the others stay.
Served(q, n, p, pp) == \A r \in Callers : pp[r] = IF r \in Front(q, n) THEN "posting" ELSE p[r]

Rest(q, n, u) == Len(u) = Len(q) - n /\ \A i \in 1 .. Len(q) - n : u[i] = q[n + i]

\* What one call of scheduleResponseSlots does with the queue of its client: n callers get
\* a slot.
Gives(c, q, a, lim, pcs, n) ==
  /\ limit' \in [Client -> 1 .. MaxLimit] /\ limit'[c] = lim /\ \A d \in Client \ {c} : limit'[d] = limit[d]
  /\ active' \in [Client -> Int] /\ active'[c] = a + n /\ \A d \in Client \ {c} : active'[d] = active[d]
  /\ queue' \in [Client -> Seq(Callers)] /\ \A d \in Client \ {c} : queue'[d] = queue[d]
  /\ Rest(q, n, queue'[c])
  /\ pc' \in [Callers -> Steps] /\ Served(q, n, pcs, pc')
  /\ n > 0 => a + n <= lim
  /\ n < Len(q) => a + n >= lim

LEMMA ScheduleEffect ==
  ASSUME SlotTypes, NEW c \in Client, NEW q \in Seq(Callers), NEW a \in Int, NEW lim \in 1 .. MaxLimit,
         NEW pcs \in [Callers -> Steps], Schedule(c, q, a, lim, pcs)
  PROVE  \E n \in 0 .. Len(q) : Gives(c, q, a, lim, pcs, n)
<1> DEFINE n == IF FreeSlots(a, lim) < Len(q) THEN FreeSlots(a, lim) ELSE Len(q)
<1>1. Len(q) \in Nat /\ lim \in Int
  BY BoundsAssumption
<1>2. /\ n \in 0 .. Len(q) /\ (n > 0 => a + n <= lim) /\ (n < Len(q) => a + n >= lim)
  BY <1>1 DEF FreeSlots
<1>3. /\ limit' = [limit EXCEPT ![c] = lim] /\ active' = [active EXCEPT ![c] = a + n]
      /\ queue' = [queue EXCEPT ![c] = SubSeq(q, n + 1, Len(q))]
      /\ pc' = [p \in Callers |-> IF \E i \in 1 .. n : q[i] = p THEN "posting" ELSE pcs[p]]
  BY DEF Schedule
<1> HIDE DEF n
<1>4. /\ SubSeq(q, n + 1, Len(q)) \in Seq(Callers) /\ Len(SubSeq(q, n + 1, Len(q))) = Len(q) - n
      /\ \A i \in 1 .. Len(q) - n : SubSeq(q, n + 1, Len(q))[i] = q[n + i]
  <2>1. n + 1 \in Int /\ Len(q) \in Int /\ \A i \in n + 1 .. Len(q) : q[i] \in Callers
    BY <1>1, <1>2
  <2> QED
    <3> DEFINE m == n + 1
               l == Len(q)
               u == SubSeq(q, m, l)
    <3>1. m \in Int /\ l \in Int /\ \A i \in m .. l : q[i] \in Callers
      BY <2>1
    <3> HIDE DEF m, l
    <3>2. /\ u \in Seq(Callers) /\ Len(u) = IF m <= l THEN l - m + 1 ELSE 0
          /\ \A i \in 1 .. l - m + 1 : u[i] = q[m + i - 1]
      BY <3>1, SubSeqProperties
    <3> HIDE DEF u
    <3>3. /\ Len(u) = l - n /\ \A i \in 1 .. l - n : u[i] = q[n + i]
      BY <1>1, <1>2, <3>2 DEF m, l
    <3> QED
      BY <3>2, <3>3 DEF u, m, l
<1>5. \A r \in Callers : pc'[r] = IF r \in Front(q, n) THEN "posting" ELSE pcs[r]
  BY <1>3 DEF Front
<1>6. /\ pc' \in [Callers -> Steps] /\ limit' \in [Client -> 1 .. MaxLimit]
      /\ active' \in [Client -> Int] /\ queue' \in [Client -> Seq(Callers)]
  BY <1>1, <1>2, <1>3, <1>4 DEF SlotTypes, Steps
<1>7. /\ limit'[c] = lim /\ (\A d \in Client \ {c} : limit'[d] = limit[d])
      /\ active'[c] = a + n /\ (\A d \in Client \ {c} : active'[d] = active[d])
      /\ queue'[c] = SubSeq(q, n + 1, Len(q)) /\ (\A d \in Client \ {c} : queue'[d] = queue[d])
  BY <1>3 DEF SlotTypes
<1>8. Gives(c, q, a, lim, pcs, n)
  BY <1>2, <1>4, <1>5, <1>6, <1>7 DEF Gives, Rest, Served
<1> QED
  BY <1>2, <1>8

\* The books of a client do not change with callers that are not its own.
LEMMA SameLine ==
  ASSUME NEW q \in Seq(Callers), NEW c, NEW p, NEW t, NEW pp, NEW tt, Line(q, c, p, t),
         \A r \in Callers : pp[r] = "waiting" /\ tt[r] = c <=> p[r] = "waiting" /\ t[r] = c
  PROVE  Line(q, c, pp, tt)
<1>1. \A i \in 1 .. Len(q) : q[i] \in Callers
  OBVIOUS
<1> QED
  BY <1>1 DEF Line

LEMMA SameCount ==
  ASSUME NEW h \in SUBSET Callers, NEW a, NEW c, NEW p, NEW t, NEW pp, NEW tt, Count(a, h, c, p, t),
         \A r \in Callers : pp[r] = "posting" /\ tt[r] = c <=> p[r] = "posting" /\ t[r] = c,
         \A r \in h : pp[r] \in Holding
  PROVE  Count(a, h, c, pp, tt)
<1>1. Posters(pp, tt, c) = Posters(p, t, c)
  BY DEF Posters
<1> QED
  BY <1>1 DEF Count

\* The first n of a queue get a slot.
LEMMA LineGives ==
  ASSUME NEW q \in Seq(Callers), NEW n \in 0 .. Len(q), NEW c, NEW p, NEW t, NEW pp, Line(q, c, p, t),
         NEW u \in Seq(Callers), Rest(q, n, u), Served(q, n, p, pp)
  PROVE  Line(u, c, pp, t)
<1> USE DEF Served, Rest
<1>1. /\ Len(q) \in Nat /\ n \in Nat /\ \A i \in 1 .. Len(q) : q[i] \in Callers
      /\ \A i \in 1 .. Len(u) : n + i \in 1 .. Len(q) /\ u[i] = q[n + i]
  OBVIOUS
<1>2. /\ \A i \in 1 .. Len(q) : p[q[i]] = "waiting" /\ t[q[i]] = c
      /\ \A i, j \in 1 .. Len(q) : q[i] = q[j] => i = j
      /\ \A r \in Callers : p[r] = "waiting" /\ t[r] = c => \E i \in 1 .. Len(q) : q[i] = r
  BY DEF Line
<1>3. ASSUME NEW i \in 1 .. Len(u) PROVE pp[u[i]] = "waiting" /\ t[u[i]] = c
  <2>1. n + i \in 1 .. Len(q) /\ u[i] = q[n + i] /\ n + i > n
    BY <1>1
  <2>2. \A k \in 1 .. n : k \in 1 .. Len(q) /\ k # n + i
    BY <1>1, <2>1
  <2>3. q[n + i] \notin Front(q, n)
    BY <1>2, <2>1, <2>2 DEF Front
  <2> QED
    BY <1>1, <1>2, <2>1, <2>3
<1>4. ASSUME NEW i \in 1 .. Len(u), NEW j \in 1 .. Len(u), u[i] = u[j] PROVE i = j
  <2>1. n + i \in 1 .. Len(q) /\ n + j \in 1 .. Len(q) /\ q[n + i] = q[n + j]
    BY <1>1, <1>4
  <2>2. n + i = n + j
    BY <1>2, <2>1
  <2> QED
    BY <1>1, <2>2
<1>5. ASSUME NEW r \in Callers, pp[r] = "waiting", t[r] = c PROVE \E i \in 1 .. Len(u) : u[i] = r
  <2>1. p[r] = "waiting" /\ r \notin Front(q, n)
    BY <1>5
  <2>2. PICK i \in 1 .. Len(q) : q[i] = r
    BY <1>2, <1>5, <2>1
  <2>3. i \notin 1 .. n
    BY <2>1, <2>2 DEF Front
  <2>4. i - n \in 1 .. Len(u) /\ u[i - n] = q[n + (i - n)] /\ n + (i - n) = i
    BY <1>1, <2>3
  <2> QED
    BY <2>2, <2>4
<1> QED
  BY <1>3, <1>4, <1>5 DEF Line

LEMMA CountGives ==
  ASSUME NEW q \in Seq(Callers), NEW n \in 0 .. Len(q), NEW c, NEW p, NEW t, NEW pp, Line(q, c, p, t),
         NEW a \in Int, NEW h \in SUBSET Callers, Count(a, h, c, p, t), Served(q, n, p, pp)
  PROVE  Count(a + n, h, c, pp, t)
<1> USE DEF Served
<1>1. /\ Front(q, n) \subseteq Callers /\ Cardinality(Front(q, n)) = n
      /\ \A r \in Front(q, n) : p[r] = "waiting" /\ t[r] = c
  <2>1. \A i, j \in 1 .. Len(q) : q[i] = q[j] => i = j
    BY DEF Line
  <2>2. \A i \in 1 .. n : i \in 1 .. Len(q)
    OBVIOUS
  <2>3. \A r \in Front(q, n) : p[r] = "waiting" /\ t[r] = c
    BY <2>2 DEF Line, Front
  <2> QED
    BY <2>1, <2>3, FrontCounts
<1> DEFINE P == Posters(p, t, c)
           F == Front(q, n)
<1>2. Posters(pp, t, c) = P \cup F /\ P \cap F = {}
  BY <1>1 DEF Posters
<1>3. IsFiniteSet(P) /\ Cardinality(P) \in Nat /\ IsFiniteSet(F) /\ Cardinality(h) \in Nat
  BY <1>1, CallersAreFinite DEF Posters
<1> HIDE DEF P, F
<1>4. Cardinality(P \cup F) = Cardinality(P) + Cardinality(F) - Cardinality(P \cap F) /\ Cardinality({}) = 0
  BY <1>3, FS_Union, FS_EmptySet
<1>5. Cardinality(P \cup F) = Cardinality(P) + n
  <2>1. Cardinality(F) = n
    BY <1>1 DEF F
  <2>2. Cardinality(P \cap F) = 0
    BY <1>2, <1>4, Zenon
  <2> QED
    BY <1>3, <1>4, <2>1, <2>2
<1>6. \A r \in h : pp[r] \in Holding
  BY <1>1 DEF Count, Holding
<1>7. a = Cardinality(P) + Cardinality(h)
  BY DEF Count, P
<1> QED
  BY <1>2, <1>3, <1>5, <1>6, <1>7 DEF Count

\* Books that are in order before a call of scheduleResponseSlots are so after it.
LEMMA ScheduleKeeps ==
  ASSUME SlotTypes, NoIdleSlot, NEW c \in Client, NEW q \in Seq(Callers), NEW a \in Int, NEW lim \in 1 .. MaxLimit,
         NEW pcs \in [Callers -> Steps], NEW t, NEW he, Schedule(c, q, a, lim, pcs),
         \A d \in Client : he[d] \subseteq Callers,
         NEW ac, ac[c] = a, \A d \in Client \ {c} : ac[d] = active[d], Counted(ac, he, pcs, t),
         NEW qu, qu[c] = q, \A d \in Client \ {c} : qu[d] = queue[d], Lines(qu, pcs, t)
  PROVE  /\ Counted(active', he, pc', t) /\ Lines(queue', pc', t) /\ NoIdleSlot'
         /\ limit' \in [Client -> 1 .. MaxLimit] /\ active' \in [Client -> Int]
         /\ queue' \in [Client -> Seq(Callers)] /\ pc' \in [Callers -> Steps]
<1>1. PICK n \in 0 .. Len(q) : Gives(c, q, a, lim, pcs, n)
  BY ScheduleEffect
<1>2. /\ \A r \in Callers : pc'[r] = IF r \in Front(q, n) THEN "posting" ELSE pcs[r]
      /\ active'[c] = a + n /\ \A d \in Client \ {c} : active'[d] = active[d]
      /\ \A d \in Client \ {c} : queue'[d] = queue[d]
      /\ queue' \in [Client -> Seq(Callers)]
  BY <1>1 DEF Gives, Served
<1>3. Line(q, c, pcs, t) /\ Count(a, he[c], c, pcs, t)
  BY DEF Lines, Counted
<1>4. \A r \in Front(q, n) : r \in Callers /\ pcs[r] = "waiting" /\ t[r] = c
  <2>1. \A i \in 1 .. n : i \in 1 .. Len(q) /\ q[i] \in Callers
    OBVIOUS
  <2> QED
    BY <1>3, <2>1 DEF Line, Front
<1>5. Line(queue'[c], c, pc', t)
  <2>1. Rest(q, n, queue'[c]) /\ queue'[c] \in Seq(Callers) /\ Served(q, n, pcs, pc')
    BY <1>1 DEF Gives
  <2> QED
    BY <1>3, <2>1, LineGives
<1>6. Count(active'[c], he[c], c, pc', t)
  <2>1. he[c] \in SUBSET Callers /\ Served(q, n, pcs, pc')
    BY <1>1 DEF Gives
  <2>2. Count(a + n, he[c], c, pc', t)
    BY <1>3, <2>1, CountGives
  <2> QED
    BY <1>2, <2>2
<1>7. ASSUME NEW d \in Client \ {c} PROVE Line(queue'[d], d, pc', t) /\ Count(active'[d], he[d], d, pc', t)
  <2>1. /\ Line(queue[d], d, pcs, t) /\ Count(active[d], he[d], d, pcs, t)
        /\ queue[d] \in Seq(Callers) /\ he[d] \in SUBSET Callers
    BY <1>7 DEF Lines, Counted, SlotTypes
  <2>2. \A r \in Callers : t[r] = d => pc'[r] = pcs[r]
    BY <1>2, <1>4, <1>7
  <2>3. \A r \in he[d] : pc'[r] \in Holding
    BY <1>2, <1>4, <2>1 DEF Count, Holding
  <2>4. Line(queue[d], d, pc', t)
    BY <2>1, <2>2, SameLine
  <2>5. Count(active[d], he[d], d, pc', t)
    BY <2>1, <2>2, <2>3, SameCount
  <2> QED
    BY <1>2, <2>4, <2>5
<1>8. /\ \A r \in Callers : pc'[r] = "posting" => t[r] \in Client
      /\ \A r \in Callers : pc'[r] = "waiting" => t[r] \in Client
  BY <1>2, <1>4 DEF Counted, Lines
<1>9. Counted(active', he, pc', t) /\ Lines(queue', pc', t)
  BY <1>5, <1>6, <1>7, <1>8 DEF Counted, Lines
<1>10. NoIdleSlot'
  <2>1. ASSUME queue'[c] # <<>> PROVE active'[c] >= limit'[c]
    <3>1. Len(queue'[c]) > 0 /\ Len(queue'[c]) = Len(q) - n
      BY <1>1, <2>1, EmptySeq DEF Gives, Rest
    <3>2. n < Len(q)
      BY <3>1
    <3> QED
      BY <1>1, <3>2 DEF Gives
  <2>2. \A d \in Client \ {c} : queue'[d] # <<>> => active'[d] >= limit'[d]
    BY <1>1 DEF NoIdleSlot, Gives
  <2> QED
    BY <2>1, <2>2 DEF NoIdleSlot
<1> QED
  BY <1>1, <1>9, <1>10 DEF Gives

--------------------------------------------------------------------------------
(* What the calls do to the books before scheduleResponseSlots.            *)

Books(ac, qu, he, p, t) == Counted(ac, he, p, t) /\ Lines(qu, p, t)

\* Callers that do not wait for a slot and do not post with it may go on.
LEMMA BooksGoOn ==
  ASSUME SlotTypes, Books(active, queue, held, pc, at), NEW p, NEW t,
         \A r \in Callers : /\ p[r] = "posting" <=> pc[r] = "posting"
                            /\ p[r] = "waiting" <=> pc[r] = "waiting"
                            /\ pc[r] \in {"posting", "waiting"} => t[r] = at[r]
                            /\ pc[r] \in Holding => p[r] \in Holding
  PROVE  Books(active, queue, held, p, t)
<1>1. ASSUME NEW c \in Client PROVE Line(queue[c], c, p, t) /\ Count(active[c], held[c], c, p, t)
  <2>1. /\ Line(queue[c], c, pc, at) /\ Count(active[c], held[c], c, pc, at)
        /\ queue[c] \in Seq(Callers) /\ held[c] \in SUBSET Callers
    BY DEF Books, Lines, Counted, SlotTypes
  <2>2. \A r \in held[c] : p[r] \in Holding
    BY <2>1 DEF Count
  <2>3. Line(queue[c], c, p, t)
    BY <2>1, SameLine
  <2>4. Count(active[c], held[c], c, p, t)
    BY <2>1, <2>2, SameCount
  <2> QED
    BY <2>3, <2>4
<1>2. \A r \in Callers : /\ p[r] = "posting" => t[r] \in Client
                         /\ p[r] = "waiting" => t[r] \in Client
  BY DEF Books, Lines, Counted
<1> QED
  BY <1>1, <1>2 DEF Books, Lines, Counted

\* A create ends: its slot is free again, or held by its response.
LEMMA PostingEnds ==
  ASSUME SlotTypes, Books(active, queue, held, pc, at), NEW k \in Callers, pc[k] = "posting",
         NEW p, \A r \in Callers \ {k} : p[r] = pc[r], p[k] \notin {"waiting", "posting"},
         NEW ac, NEW he, \A d \in Client \ {at[k]} : ac[d] = active[d] /\ he[d] = held[d],
         \/ ac[at[k]] = active[at[k]] - 1 /\ he[at[k]] = held[at[k]]
         \/ ac[at[k]] = active[at[k]] /\ he[at[k]] = held[at[k]] \cup {k} /\ p[k] \in Holding
  PROVE  Books(ac, queue, he, p, at)
<1> DEFINE c == at[k]
<1>1. c \in Client /\ active[c] \in Int /\ held[c] \in SUBSET Callers
  BY DEF Books, Counted, SlotTypes
<1>2. ASSUME NEW d \in Client PROVE Line(queue[d], d, p, at)
  <2>1. Line(queue[d], d, pc, at) /\ queue[d] \in Seq(Callers)
    BY DEF Books, Lines, SlotTypes
  <2> QED
    BY <2>1, SameLine
<1>3. ASSUME NEW d \in Client \ {c} PROVE Count(ac[d], he[d], d, p, at)
  <2>1. Count(active[d], held[d], d, pc, at) /\ held[d] \in SUBSET Callers /\ ac[d] = active[d] /\ he[d] = held[d]
    BY <1>3 DEF Books, Counted, SlotTypes
  <2>2. \A r \in held[d] : p[r] \in Holding
    BY <2>1 DEF Count, Holding
  <2>3. Count(active[d], held[d], d, p, at)
    BY <1>3, <2>1, <2>2, SameCount
  <2> QED
    BY <2>1, <2>3
<1>4. Count(ac[c], he[c], c, p, at)
  <2> DEFINE P == Posters(pc, at, c)
             h == held[c]
  <2>1. active[c] = Cardinality(P) + Cardinality(h) /\ k \in P /\ k \notin h /\ \A r \in h : pc[r] \in Holding
    BY <1>1 DEF Books, Counted, Count, Posters, Holding
  <2>2. Posters(p, at, c) = P \ {k}
    BY DEF Posters
  <2>3. IsFiniteSet(P) /\ IsFiniteSet(h) /\ Cardinality(P) \in Nat /\ Cardinality(h) \in Nat
    BY <1>1, CallersAreFinite DEF Posters
  <2>4. \A r \in h : p[r] \in Holding
    BY <1>1, <2>1 DEF Holding
  <2> HIDE DEF P, h
  <2>5. Cardinality(P \ {k}) = Cardinality(P) - 1 /\ Cardinality(h \cup {k}) = Cardinality(h) + 1
    BY <2>1, <2>3, FS_RemoveElement, FS_AddElement
  <2>6. CASE ac[c] = active[c] - 1 /\ he[c] = h
    BY <2>1, <2>2, <2>3, <2>4, <2>5, <2>6 DEF Count
  <2>7. CASE ac[c] = active[c] /\ he[c] = h \cup {k} /\ p[k] \in Holding
    BY <2>1, <2>2, <2>3, <2>4, <2>5, <2>7 DEF Count
  <2> QED
    BY <2>6, <2>7 DEF h
<1>5. \A r \in Callers : /\ p[r] = "posting" => at[r] \in Client
                         /\ p[r] = "waiting" => at[r] \in Client
  BY DEF Books, Lines, Counted
<1> QED
  BY <1>2, <1>3, <1>4, <1>5 DEF Books, Lines, Counted

\* A client sees the end of a response it may hold a slot for.
LEMMA HolderEnds ==
  ASSUME SlotTypes, Books(active, queue, held, pc, at), NEW k \in Callers, pc[k] \in {"getting", "cancelling"},
         NEW p, \A r \in Callers \ {k} : p[r] = pc[r], p[k] = "done",
         NEW c \in Client, NEW ac, NEW he, \A d \in Client \ {c} : ac[d] = active[d] /\ he[d] = held[d],
         he[c] = held[c] \ {k}, ac[c] = IF k \in held[c] THEN active[c] - 1 ELSE active[c]
  PROVE  Books(ac, queue, he, p, at)
<1>1. Books(active, queue, held, p, at)
  BY BooksGoOn DEF Holding
<1>2. active[c] \in Int /\ held[c] \in SUBSET Callers
  BY DEF SlotTypes
<1>3. Count(ac[c], he[c], c, p, at)
  <2> DEFINE h == held[c]
  <2>1. active[c] = Cardinality(Posters(p, at, c)) + Cardinality(h) /\ \A r \in h : p[r] \in Holding
    BY <1>1 DEF Books, Counted, Count
  <2>2. Cardinality(Posters(p, at, c)) \in Nat /\ IsFiniteSet(h) /\ Cardinality(h) \in Nat
    BY <1>2, CallersAreFinite DEF Posters
  <2> HIDE DEF h
  <2>3. Cardinality(h \ {k}) = IF k \in h THEN Cardinality(h) - 1 ELSE Cardinality(h)
    BY <2>2, FS_RemoveElement
  <2>4. he[c] = h \ {k} /\ ac[c] = IF k \in h THEN active[c] - 1 ELSE active[c]
    BY DEF h
  <2>5. ac[c] = Cardinality(Posters(p, at, c)) + Cardinality(h \ {k})
    <3>1. CASE k \in h
      BY <1>2, <2>1, <2>2, <2>3, <2>4, <3>1
    <3>2. CASE k \notin h
      BY <1>2, <2>1, <2>2, <2>3, <2>4, <3>2
    <3> QED
      BY <3>1, <3>2
  <2>6. \A r \in h \ {k} : p[r] \in Holding
    BY <2>1
  <2> QED
    BY <2>4, <2>5, <2>6, Zenon DEF Count
<1> QED
  BY <1>1, <1>3 DEF Books, Counted

\* A create gets in line at the client it goes to.
LEMMA CallerQueues ==
  ASSUME SlotTypes, Books(active, queue, held, pc, at), NEW k \in Callers, pc[k] \in {"idle", "retry"},
         NEW c \in Client,
         NEW p, \A r \in Callers \ {k} : p[r] = pc[r], p[k] = "waiting",
         NEW t, \A r \in Callers \ {k} : t[r] = at[r], t[k] = c,
         NEW qu, \A d \in Client \ {c} : qu[d] = queue[d], qu[c] = Append(queue[c], k)
  PROVE  Books(active, qu, held, p, t)
<1>1. ASSUME NEW d \in Client PROVE Count(active[d], held[d], d, p, t)
  <2>1. Count(active[d], held[d], d, pc, at) /\ held[d] \in SUBSET Callers
    BY DEF Books, Counted, SlotTypes
  <2>2. \A r \in held[d] : p[r] \in Holding
    BY <2>1 DEF Count, Holding
  <2> QED
    BY <2>1, <2>2, SameCount
<1>2. ASSUME NEW d \in Client \ {c} PROVE Line(qu[d], d, p, t)
  <2>1. Line(queue[d], d, pc, at) /\ queue[d] \in Seq(Callers) /\ qu[d] = queue[d]
    BY <1>2 DEF Books, Lines, SlotTypes
  <2>2. Line(queue[d], d, p, t)
    BY <1>2, <2>1, SameLine
  <2> QED
    BY <2>1, <2>2
<1>3. Line(qu[c], c, p, t)
  <2> DEFINE q == queue[c]
             l == Len(queue[c])
  <2>1. /\ l \in Nat /\ q \in Seq(Callers) /\ \A i \in 1 .. l : q[i] \in Callers
        /\ Line(q, c, pc, at)
    BY DEF Books, Lines, SlotTypes
  <2>2. /\ \A i \in 1 .. l : pc[q[i]] = "waiting" /\ at[q[i]] = c
        /\ \A i, j \in 1 .. l : q[i] = q[j] => i = j
        /\ \A r \in Callers : pc[r] = "waiting" /\ at[r] = c => \E i \in 1 .. l : q[i] = r
    BY <2>1 DEF Line
  <2>3. Len(qu[c]) = l + 1 /\ qu[c][l + 1] = k /\ \A i \in 1 .. l : qu[c][i] = q[i]
    BY <2>1
  <2> HIDE DEF q, l
  <2>4. \A i \in 1 .. l : q[i] # k
    BY <2>2
  <2>a. \A i \in 1 .. l + 1 : i = l + 1 \/ i \in 1 .. l
    BY <2>1
  <2>5. ASSUME NEW i \in 1 .. l + 1 PROVE p[qu[c][i]] = "waiting" /\ t[qu[c][i]] = c
    <3>1. CASE i = l + 1
      BY <2>3, <3>1
    <3>2. CASE i \in 1 .. l
      <4>1. qu[c][i] \in Callers \ {k} /\ qu[c][i] = q[i]
        BY <2>1, <2>3, <2>4, <3>2
      <4> QED
        BY <2>2, <3>2, <4>1
    <3> QED
      BY <2>a, <3>1, <3>2
  <2>6. \A i, j \in 1 .. l + 1 : qu[c][i] = qu[c][j] => i = j
    BY <2>1, <2>2, <2>3, <2>4
  <2>7. \A r \in Callers : p[r] = "waiting" /\ t[r] = c => \E i \in 1 .. l + 1 : qu[c][i] = r
    BY <2>1, <2>2, <2>3
  <2> QED
    BY <2>3, <2>5, <2>6, <2>7 DEF Line
<1>4. \A r \in Callers : /\ p[r] = "posting" => t[r] \in Client
                         /\ p[r] = "waiting" => t[r] \in Client
  BY DEF Books, Lines, Counted
<1> QED
  BY <1>1, <1>2, <1>3, <1>4 DEF Books, Lines, Counted

LEMMA DequeueEffect ==
  ASSUME NEW q \in Seq(Callers), NEW k, \E i \in 1 .. Len(q) : q[i] = k
  PROVE  \E m \in 1 .. Len(q) :
           /\ q[m] = k /\ Dequeue(q, k) \in Seq(Callers) /\ Len(Dequeue(q, k)) = Len(q) - 1
           /\ \A i \in 1 .. Len(q) - 1 : Dequeue(q, k)[i] = IF i < m THEN q[i] ELSE q[i + 1]
<1> DEFINE m == CHOOSE i \in 1 .. Len(q) : q[i] = k
           l == Len(q)
           front == SubSeq(q, 1, m - 1)
           back == SubSeq(q, m + 1, l)
<1>1. m \in 1 .. l /\ q[m] = k /\ l \in Nat /\ \A i \in 1 .. l : q[i] \in Callers
  OBVIOUS
<1>2. Dequeue(q, k) = front \o back
  BY DEF Dequeue
<1> HIDE DEF m, l
<1>3. /\ front \in Seq(Callers) /\ Len(front) = m - 1 /\ \A i \in 1 .. m - 1 : front[i] = q[i]
  <2> DEFINE z == m - 1
  <2>1. z \in Int /\ 1 \in Int /\ \A i \in 1 .. z : q[i] \in Callers
    BY <1>1
  <2> HIDE DEF z
  <2>2. /\ SubSeq(q, 1, z) \in Seq(Callers) /\ Len(SubSeq(q, 1, z)) = (IF 1 <= z THEN z - 1 + 1 ELSE 0)
        /\ \A i \in 1 .. z - 1 + 1 : SubSeq(q, 1, z)[i] = q[1 + i - 1]
    BY <2>1, SubSeqProperties
  <2>3. /\ SubSeq(q, 1, z) \in Seq(Callers) /\ Len(SubSeq(q, 1, z)) = z
        /\ \A i \in 1 .. z : SubSeq(q, 1, z)[i] = q[i]
    BY <1>1, <2>1, <2>2 DEF z
  <2> QED
    BY <2>3 DEF z
<1>4. /\ back \in Seq(Callers) /\ Len(back) = l - m /\ \A i \in 1 .. l - m : back[i] = q[m + i]
  <2> DEFINE z == m + 1
  <2>1. z \in Int /\ l \in Int /\ \A i \in z .. l : q[i] \in Callers
    BY <1>1
  <2> HIDE DEF z
  <2>2. /\ SubSeq(q, z, l) \in Seq(Callers) /\ Len(SubSeq(q, z, l)) = (IF z <= l THEN l - z + 1 ELSE 0)
        /\ \A i \in 1 .. l - z + 1 : SubSeq(q, z, l)[i] = q[z + i - 1]
    BY <2>1, SubSeqProperties
  <2>3. /\ SubSeq(q, z, l) \in Seq(Callers) /\ Len(SubSeq(q, z, l)) = l - m
        /\ \A i \in 1 .. l - m : SubSeq(q, z, l)[i] = q[m + i]
    BY <1>1, <2>1, <2>2 DEF z
  <2> QED
    BY <2>3 DEF z
<1> HIDE DEF front, back
<1>5. /\ front \o back \in Seq(Callers) /\ Len(front \o back) = Len(front) + Len(back)
      /\ \A i \in 1 .. Len(front) + Len(back) :
           (front \o back)[i] = IF i <= Len(front) THEN front[i] ELSE back[i - Len(front)]
  BY <1>3, <1>4, ConcatProperties
<1>6. Len(front \o back) = l - 1
  BY <1>1, <1>3, <1>4, <1>5
<1>7. ASSUME NEW i \in 1 .. l - 1 PROVE (front \o back)[i] = IF i < m THEN q[i] ELSE q[i + 1]
  <2>1. CASE i < m
    BY <1>1, <1>3, <1>4, <1>5, <2>1
  <2>2. CASE i >= m
    <3>1. i - (m - 1) \in 1 .. l - m /\ m + (i - (m - 1)) = i + 1
      BY <1>1, <2>2
    <3>2. (front \o back)[i] = back[i - (m - 1)]
      BY <1>1, <1>3, <1>4, <1>5, <2>2
    <3> DEFINE j == i - (m - 1)
    <3>3. j \in 1 .. l - m /\ m + j = i + 1 /\ (front \o back)[i] = back[j]
      BY <3>1, <3>2
    <3> HIDE DEF j
    <3>4. (front \o back)[i] = q[i + 1]
      BY <1>4, <3>3
    <3>5. ~(i < m)
      BY <1>1, <2>2
    <3> QED
      BY <3>4, <3>5
  <2>3. i \in Int /\ m \in Int
    BY <1>1
  <2>4. i < m \/ i >= m
    BY <2>3
  <2> QED
    BY <2>1, <2>2, <2>4
<1> QED
  BY <1>1, <1>2, <1>5, <1>6, <1>7 DEF l

\* An abort takes its caller out of the line.
LEMMA WaiterLeaves ==
  ASSUME SlotTypes, Books(active, queue, held, pc, at), NEW k \in Callers, pc[k] = "waiting",
         NEW p, \A r \in Callers \ {k} : p[r] = pc[r], p[k] = "done",
         NEW qu, \A d \in Client \ {at[k]} : qu[d] = queue[d], qu[at[k]] = Dequeue(queue[at[k]], k)
  PROVE  Books(active, qu, held, p, at) /\ qu[at[k]] \in Seq(Callers)
<1> DEFINE c == at[k]
<1>1. ASSUME NEW d \in Client PROVE Count(active[d], held[d], d, p, at)
  <2>1. Count(active[d], held[d], d, pc, at) /\ held[d] \in SUBSET Callers
    BY DEF Books, Counted, SlotTypes
  <2>2. \A r \in held[d] : p[r] \in Holding
    BY <2>1 DEF Count, Holding
  <2> QED
    BY <2>1, <2>2, SameCount
<1>2. ASSUME NEW d \in Client \ {c} PROVE Line(qu[d], d, p, at)
  <2>1. Line(queue[d], d, pc, at) /\ queue[d] \in Seq(Callers) /\ qu[d] = queue[d]
    BY <1>2 DEF Books, Lines, SlotTypes
  <2>2. Line(queue[d], d, p, at)
    BY <1>2, <2>1, SameLine
  <2> QED
    BY <2>1, <2>2
<1>3. c \in Client /\ Line(qu[c], c, p, at) /\ qu[c] \in Seq(Callers)
  <2> DEFINE q == queue[c]
             u == qu[c]
             l == Len(queue[c])
  <2>1. /\ c \in Client /\ l \in Nat /\ q \in Seq(Callers) /\ \A i \in 1 .. l : q[i] \in Callers
        /\ Line(q, c, pc, at)
    BY DEF Books, Lines, SlotTypes
  <2>2. /\ \A i \in 1 .. l : pc[q[i]] = "waiting" /\ at[q[i]] = c
        /\ \A i, j \in 1 .. l : q[i] = q[j] => i = j
        /\ \A r \in Callers : pc[r] = "waiting" /\ at[r] = c => \E i \in 1 .. l : q[i] = r
    BY <2>1 DEF Line
  <2>3. \E i \in 1 .. Len(q) : q[i] = k
    BY <2>2
  <2>4. PICK m \in 1 .. Len(q) :
           /\ q[m] = k /\ Dequeue(q, k) \in Seq(Callers) /\ Len(Dequeue(q, k)) = Len(q) - 1
           /\ \A i \in 1 .. Len(q) - 1 : Dequeue(q, k)[i] = IF i < m THEN q[i] ELSE q[i + 1]
    <3>1. q \in Seq(Callers) /\ \E i \in 1 .. Len(q) : q[i] = k
      BY <2>1, <2>3
    <3> HIDE DEF q, u, l
    <3> QED
      BY <3>1, DequeueEffect
  <2>5. /\ m \in 1 .. l /\ q[m] = k /\ u \in Seq(Callers) /\ Len(u) = l - 1
        /\ \A i \in 1 .. l - 1 : u[i] = IF i < m THEN q[i] ELSE q[i + 1]
    BY <2>4
  <2> HIDE DEF q, u, l
  <2>6. \A i \in 1 .. l : i # m => q[i] # k
    BY <2>2, <2>5
  <2>7. ASSUME NEW i \in 1 .. l - 1 PROVE p[u[i]] = "waiting" /\ at[u[i]] = c
    <3>1. PICK j \in 1 .. l : j # m /\ u[i] = q[j]
      <4>1. i \in 1 .. l /\ i + 1 \in 1 .. l /\ m \in Int /\ i \in Int
        BY <2>1, <2>5
      <4>2. CASE i < m
        BY <2>5, <4>1, <4>2
      <4>3. CASE ~(i < m)
        <5>1. i + 1 # m /\ u[i] = q[i + 1]
          BY <2>5, <4>1, <4>3
        <5> QED
          BY <4>1, <5>1
      <4> QED
        BY <4>2, <4>3
    <3>2. u[i] \in Callers \ {k}
      BY <2>1, <2>6, <3>1
    <3> QED
      BY <2>2, <3>1, <3>2
  <2>8. \A i, j \in 1 .. l - 1 : u[i] = u[j] => i = j
    BY <2>1, <2>2, <2>5
  <2>9. ASSUME NEW r \in Callers, p[r] = "waiting", at[r] = c PROVE \E i \in 1 .. l - 1 : u[i] = r
    <3>1. r # k /\ pc[r] = "waiting"
      BY <2>9
    <3>2. PICK i \in 1 .. l : q[i] = r
      BY <2>2, <2>9, <3>1
    <3>3. CASE i < m
      BY <2>1, <2>5, <3>2, <3>3
    <3>4. CASE i > m
      <4>1. i - 1 \in 1 .. l - 1 /\ ~(i - 1 < m) /\ (i - 1) + 1 = i
        BY <2>1, <2>5, <3>4
      <4> QED
        BY <2>5, <3>2, <4>1
    <3> QED
      BY <2>5, <3>1, <3>2, <3>3, <3>4
  <2>10. Line(u, c, p, at)
    BY <2>5, <2>7, <2>8, <2>9 DEF Line
  <2> QED
    BY <2>1, <2>5, <2>10 DEF u
<1>4. \A r \in Callers : /\ p[r] = "posting" => at[r] \in Client
                         /\ p[r] = "waiting" => at[r] \in Client
  BY DEF Books, Lines, Counted
<1> QED
  BY <1>1, <1>2, <1>3, <1>4 DEF Books, Lines, Counted

--------------------------------------------------------------------------------
(* The steps.                                                              *)

\* The variables that scheduleResponseSlots does not change.
OtherTypes ==
  /\ setting \in 1 .. MaxLimit /\ provider \in Providers /\ changes \in 0 .. MaxChanges
  /\ made \in Seq(Providers) /\ Len(made) <= MaxClients /\ current \in 0 .. Len(made)
  /\ held \in [Client -> SUBSET Callers] /\ at \in [Callers -> 0 .. Len(made)]
  /\ home \in [Callers -> Providers] /\ remote \in [Callers -> Status] /\ expired \subseteq Deadlines

LEMMA InvAfter ==
  ASSUME OtherTypes', Counted(active', held', pc', at'), Lines(queue', pc', at'), NoIdleSlot',
         limit' \in [Client -> 1 .. MaxLimit], active' \in [Client -> Int],
         queue' \in [Client -> Seq(Callers)], pc' \in [Callers -> Steps]
  PROVE  SlotsInv'
BY DEF SlotsInv, SlotTypes, OtherTypes

\* Nothing is scheduled: the clients stay as they are.
LEMMA NothingScheduled ==
  ASSUME SlotsInv, UNCHANGED <<limit, slots>>, OtherTypes', pc' \in [Callers -> Steps],
         Counted(active', held', pc', at'), Lines(queue', pc', at')
  PROVE  SlotsInv'
<1>1. limit' = limit /\ active' = active /\ queue' = queue
  BY DEF slots
<1> QED
  BY <1>1, InvAfter DEF SlotsInv, SlotTypes, NoIdleSlot

LEMMA ClientIsUsed ==
  ASSUME SlotTypes, NEW k \in Callers, UseClient, at' = [at EXCEPT ![k] = Target]
  PROVE  /\ Target \in Client /\ made' \in Seq(Providers) /\ Len(made') <= MaxClients
         /\ current' \in 0 .. Len(made') /\ at' \in [Callers -> 0 .. Len(made')]
         /\ at'[k] = Target /\ \A r \in Callers \ {k} : at'[r] = at[r]
<1>1. /\ Target \in 1 .. MaxClients /\ current' = Target
      /\ made' = IF Fresh THEN Append(made, provider) ELSE made
      /\ Target = IF Fresh THEN Len(made) + 1 ELSE current
  BY DEF UseClient, Client, Target
<1>2. /\ made \in Seq(Providers) /\ provider \in Providers /\ Len(made) \in Nat /\ current \in 0 .. Len(made)
      /\ at \in [Callers -> 0 .. Len(made)] /\ Len(made) <= MaxClients /\ MaxClients \in Nat
  BY BoundsAssumption DEF SlotTypes
<1>3. /\ made' \in Seq(Providers) /\ Len(made') \in Nat /\ Len(made) <= Len(made') /\ Target \in 0 .. Len(made')
      /\ Len(made') <= MaxClients
  <2>1. CASE Fresh
    <3>1. made' = Append(made, provider) /\ Len(made') = Len(made) + 1 /\ Target = Len(made) + 1
      BY <1>1, <1>2, <2>1
    <3> QED
      BY <1>1, <1>2, <3>1
  <2>2. CASE ~Fresh
    BY <1>1, <1>2, <2>2
  <2> QED
    BY <2>1, <2>2
<1> QED
  BY <1>1, <1>2, <1>3 DEF Client

\* What is known of every step.
LEMMA InvFacts ==
  ASSUME SlotsInv
  PROVE  /\ SlotTypes /\ NoIdleSlot /\ Books(active, queue, held, pc, at) /\ OtherTypes
         /\ \A c \in Client : active[c] \in Int /\ queue[c] \in Seq(Callers) /\ held[c] \subseteq Callers
                              /\ limit[c] \in 1 .. MaxLimit
         /\ \A r \in Callers : pc[r] = "posting" => at[r] \in Client
BY DEF SlotsInv, SlotTypes, Books, Counted, OtherTypes

LEMMA CreateKeeps ==
  ASSUME SlotsInv, NEW k \in Callers, Create(k) PROVE SlotsInv'
<1> DEFINE c == Target
           pcs == [pc EXCEPT ![k] = "waiting"]
           q == Append(queue[c], k)
           qu == [queue EXCEPT ![c] = q]
<1>1. /\ pc[k] \in {"idle", "retry"} /\ UseClient /\ at' = [at EXCEPT ![k] = Target]
      /\ Schedule(c, q, active[c], setting, pcs)
      /\ UNCHANGED <<settings, held, home, remote, expired>>
  BY DEF Create, Enqueue
<1>2. /\ c \in Client /\ made' \in Seq(Providers) /\ Len(made') <= MaxClients
      /\ current' \in 0 .. Len(made') /\ at' \in [Callers -> 0 .. Len(made')]
      /\ at'[k] = c /\ \A r \in Callers \ {k} : at'[r] = at[r]
  BY <1>1, InvFacts, ClientIsUsed
<1>3. /\ pcs \in [Callers -> Steps] /\ q \in Seq(Callers) /\ setting \in 1 .. MaxLimit /\ active[c] \in Int
      /\ (\A r \in Callers \ {k} : pcs[r] = pc[r]) /\ pcs[k] = "waiting"
      /\ qu[c] = q /\ \A d \in Client \ {c} : qu[d] = queue[d]
  BY <1>2, InvFacts DEF SlotTypes, Steps
<1> HIDE DEF c, pcs, qu
<1>4. Books(active, qu, held, pcs, at')
  BY <1>1, <1>2, <1>3, InvFacts, CallerQueues
<1> HIDE DEF q
<1>7. SlotTypes /\ NoIdleSlot /\ \A d \in Client : held[d] \subseteq Callers
  BY InvFacts
<1>8. Counted(active, held, pcs, at') /\ Lines(qu, pcs, at')
  BY <1>4 DEF Books
<1>9. Schedule(c, q, active[c], setting, pcs) /\ c \in Client
  BY <1>1, <1>2
<1>5. /\ Counted(active', held, pc', at') /\ Lines(queue', pc', at') /\ NoIdleSlot'
      /\ limit' \in [Client -> 1 .. MaxLimit] /\ active' \in [Client -> Int]
      /\ queue' \in [Client -> Seq(Callers)] /\ pc' \in [Callers -> Steps]
  BY <1>3, <1>7, <1>8, <1>9, ScheduleKeeps
<1>6. OtherTypes' /\ held' = held
  BY <1>1, <1>2, InvFacts DEF OtherTypes, settings
<1> QED
  BY <1>5, <1>6, InvAfter

\* A get or a cancel is sent.
LEMMA CallKeeps ==
  ASSUME SlotsInv, NEW k \in Callers, NEW to \in {"getting", "cancelling"}, NEW from \in {"poll", "cancel"},
         Call(k, from, to)
  PROVE  SlotsInv'
<1> DEFINE c == Target
           pcs == [pc EXCEPT ![k] = to]
<1>1. /\ pc[k] \in {"poll", "cancel"} /\ UseClient /\ at' = [at EXCEPT ![k] = Target]
      /\ Schedule(c, queue[c], active[c], setting, pcs)
      /\ UNCHANGED <<settings, held, home, remote, expired>>
  BY DEF Call, Request
<1>2. /\ c \in Client /\ made' \in Seq(Providers) /\ Len(made') <= MaxClients
      /\ current' \in 0 .. Len(made') /\ at' \in [Callers -> 0 .. Len(made')]
      /\ at'[k] = c /\ \A r \in Callers \ {k} : at'[r] = at[r]
  BY <1>1, InvFacts, ClientIsUsed
<1>3. /\ pcs \in [Callers -> Steps] /\ setting \in 1 .. MaxLimit
      /\ (\A r \in Callers \ {k} : pcs[r] = pc[r]) /\ pcs[k] = to
  BY <1>2, InvFacts DEF SlotTypes, Steps
<1> HIDE DEF c, pcs
<1>4. Books(active, queue, held, pcs, at')
  BY <1>1, <1>2, <1>3, InvFacts, BooksGoOn DEF Holding
<1>5. /\ Counted(active', held, pc', at') /\ Lines(queue', pc', at') /\ NoIdleSlot'
      /\ limit' \in [Client -> 1 .. MaxLimit] /\ active' \in [Client -> Int]
      /\ queue' \in [Client -> Seq(Callers)] /\ pc' \in [Callers -> Steps]
  BY <1>1, <1>2, <1>3, <1>4, InvFacts, ScheduleKeeps DEF Books
<1>6. OtherTypes' /\ held' = held
  BY <1>1, <1>2, InvFacts DEF OtherTypes, settings
<1> QED
  BY <1>5, <1>6, InvAfter

\* A create ends and gives its slot back.
LEMMA ReleaseKeeps ==
  ASSUME SlotsInv, NEW k \in Callers, pc[k] = "posting", NEW to \in {"done", "retry"}, ReleasePosting(k, to),
         OtherTypes', held' = held, at' = at
  PROVE  SlotsInv'
<1> DEFINE c == at[k]
           pcs == [pc EXCEPT ![k] = to]
           ac == [active EXCEPT ![c] = active[c] - 1]
<1>1. c \in Client /\ Schedule(c, queue[c], active[c] - 1, limit[c], pcs)
  BY InvFacts DEF ReleasePosting
<1>2. /\ pcs \in [Callers -> Steps] /\ limit[c] \in 1 .. MaxLimit /\ active[c] - 1 \in Int /\ queue[c] \in Seq(Callers)
      /\ (\A r \in Callers \ {k} : pcs[r] = pc[r]) /\ pcs[k] = to
      /\ ac[c] = active[c] - 1 /\ \A d \in Client \ {c} : ac[d] = active[d]
  BY <1>1, InvFacts DEF SlotTypes, Steps
<1> HIDE DEF pcs, ac
<1>3. Books(ac, queue, held, pcs, at)
  BY <1>2, InvFacts, PostingEnds
<1> HIDE DEF c
<1>4. /\ Counted(active', held, pc', at) /\ Lines(queue', pc', at) /\ NoIdleSlot'
      /\ limit' \in [Client -> 1 .. MaxLimit] /\ active' \in [Client -> Int]
      /\ queue' \in [Client -> Seq(Callers)] /\ pc' \in [Callers -> Steps]
  BY <1>1, <1>2, <1>3, InvFacts, ScheduleKeeps DEF Books
<1> QED
  BY <1>4, InvAfter

\* A response has ended and its slot is given back if the client holds it.
LEMMA ReleaseHeldKeeps ==
  ASSUME SlotsInv, NEW k \in Callers, pc[k] \in {"getting", "cancelling"}, NEW c \in Client, ReleaseHeld(c, k, "done"),
         OtherTypes', at' = at
  PROVE  SlotsInv'
<1> DEFINE pcs == [pc EXCEPT ![k] = "done"]
           a == IF k \in held[c] THEN active[c] - 1 ELSE active[c]
           ac == [active EXCEPT ![c] = a]
           he == [held EXCEPT ![c] = @ \ {k}]
<1>1. held' = he /\ Schedule(c, queue[c], a, limit[c], pcs)
  BY DEF ReleaseHeld
<1>2. /\ pcs \in [Callers -> Steps] /\ limit[c] \in 1 .. MaxLimit /\ a \in Int /\ queue[c] \in Seq(Callers)
      /\ (\A r \in Callers \ {k} : pcs[r] = pc[r]) /\ pcs[k] = "done"
      /\ ac[c] = a /\ (\A d \in Client \ {c} : ac[d] = active[d])
      /\ he[c] = held[c] \ {k} /\ (\A d \in Client \ {c} : he[d] = held[d])
      /\ \A d \in Client : he[d] \subseteq Callers
  BY InvFacts DEF SlotTypes, Steps
<1> HIDE DEF pcs, ac, he
<1>3. Books(ac, queue, he, pcs, at)
  BY <1>2, InvFacts, HolderEnds
<1> HIDE DEF a
<1>4. /\ Counted(active', he, pc', at) /\ Lines(queue', pc', at) /\ NoIdleSlot'
      /\ limit' \in [Client -> 1 .. MaxLimit] /\ active' \in [Client -> Int]
      /\ queue' \in [Client -> Seq(Callers)] /\ pc' \in [Callers -> Steps]
  BY <1>1, <1>2, <1>3, InvFacts, ScheduleKeeps DEF Books
<1> QED
  BY <1>1, <1>4, InvAfter

LEMMA PostReplyKeeps ==
  ASSUME SlotsInv, NEW k \in Callers, PostReply(k) PROVE SlotsInv'
<1>1. /\ pc[k] = "posting" /\ at[k] \in Client /\ at' = at
      /\ home' = [home EXCEPT ![k] = made[at[k]]]
      /\ UNCHANGED <<settings, made, current, at, expired>>
  BY InvFacts DEF PostReply
<1>2. PICK s \in Reported :
        /\ remote' = [remote EXCEPT ![k] = s]
        /\ \/ s = "ended" /\ ReleasePosting(k, "done") /\ UNCHANGED held
           \/ /\ s = "pending"
              /\ held' = [held EXCEPT ![at[k]] = @ \cup {k}]
              /\ pc' = [pc EXCEPT ![k] = "poll"]
              /\ UNCHANGED <<limit, slots>>
  BY DEF PostReply
<1>3. made[at[k]] \in Providers
  <2>1. at[k] \in 1 .. Len(made) /\ made \in Seq(Providers)
    BY <1>1, InvFacts DEF OtherTypes, Client
  <2> QED
    BY <2>1
<1>4. held' \in [Client -> SUBSET Callers]
  BY <1>2, InvFacts DEF OtherTypes
<1>5. OtherTypes'
  <2>1. home' \in [Callers -> Providers] /\ remote' \in [Callers -> Status]
    BY <1>1, <1>2, <1>3, InvFacts DEF OtherTypes, Reported, Status
  <2> QED
    BY <1>1, <1>4, <2>1, InvFacts DEF OtherTypes, settings
<1>6. CASE s = "ended" /\ ReleasePosting(k, "done") /\ UNCHANGED held
  BY <1>1, <1>5, <1>6, ReleaseKeeps
<1>7. CASE /\ s = "pending"
           /\ held' = [held EXCEPT ![at[k]] = @ \cup {k}]
           /\ pc' = [pc EXCEPT ![k] = "poll"]
           /\ UNCHANGED <<limit, slots>>
  <2>1. /\ pc' \in [Callers -> Steps] /\ pc'[k] = "poll" /\ (\A r \in Callers \ {k} : pc'[r] = pc[r])
        /\ held'[at[k]] = held[at[k]] \cup {k} /\ (\A d \in Client \ {at[k]} : held'[d] = held[d])
        /\ active' = active /\ queue' = queue
    BY <1>1, <1>7, InvFacts DEF SlotTypes, Steps, slots
  <2>2. Books(active, queue, held', pc', at)
    BY <1>1, <2>1, InvFacts, PostingEnds DEF Holding
  <2> QED
    BY <1>1, <1>5, <1>7, <2>1, <2>2, NothingScheduled DEF Books
<1> QED
  BY <1>2, <1>6, <1>7

LEMMA PostFailsKeeps ==
  ASSUME SlotsInv, NEW k \in Callers, PostFails(k) PROVE SlotsInv'
<1>1. /\ pc[k] = "posting" /\ at[k] \in Client /\ at' = at /\ held' = held
      /\ UNCHANGED <<settings, made, current, held, at, expired>>
  BY InvFacts DEF PostFails
<1>2. made[at[k]] \in Providers
  <2>1. at[k] \in 1 .. Len(made) /\ made \in Seq(Providers)
    BY <1>1, InvFacts DEF OtherTypes, Client
  <2> QED
    BY <2>1
<1>3. home' \in [Callers -> Providers] /\ remote' \in [Callers -> Status]
  <2>1. CASE UNCHANGED <<home, remote>>
    BY <2>1, InvFacts DEF OtherTypes
  <2>2. CASE home' = [home EXCEPT ![k] = made[at[k]]] /\ remote' = [remote EXCEPT ![k] = "pending"]
    BY <1>2, <2>2, InvFacts DEF OtherTypes, Status
  <2> QED
    BY <2>1, <2>2 DEF PostFails
<1>4. OtherTypes'
  BY <1>1, <1>3, InvFacts DEF OtherTypes, settings
<1>5. \E to \in {"done", "retry"} : ReleasePosting(k, to)
  BY DEF PostFails, AfterFailure
<1> QED
  BY <1>1, <1>4, <1>5, ReleaseKeeps

\* A caller goes on that neither waits nor posts.
LEMMA GoesOnKeeps ==
  ASSUME SlotsInv, NEW k \in Callers, NEW to \in {"poll", "cancel", "done"}, pc[k] \notin {"posting", "waiting"},
         pc' = [pc EXCEPT ![k] = to], UNCHANGED <<limit, slots, held, at>>, OtherTypes'
  PROVE  SlotsInv'
<1>1. /\ pc' \in [Callers -> Steps] /\ pc'[k] = to /\ \A r \in Callers \ {k} : pc'[r] = pc[r]
      /\ active' = active /\ queue' = queue /\ held' = held /\ at' = at
  BY InvFacts DEF SlotTypes, Steps, slots
<1>2. Books(active, queue, held, pc', at)
  BY <1>1, InvFacts, BooksGoOn DEF Holding
<1> QED
  BY <1>1, <1>2, NothingScheduled DEF Books

\* Who asked did so at a client.
Asked == \A r \in Callers : pc[r] \in {"getting", "cancelling"} => at[r] \in Client

LEMMA ReplyKeeps ==
  ASSUME SlotsInv, Asked, NEW k \in Callers, GetReply(k) \/ CancelReply(k) PROVE SlotsInv'
<1>1. /\ pc[k] \in {"getting", "cancelling"} /\ at[k] \in Client /\ at' = at
      /\ UNCHANGED <<settings, made, current, at, home, expired>>
      /\ remote' \in [Callers -> Status]
  BY InvFacts DEF GetReply, CancelReply, OtherTypes, Status, Asked
<1>2. ASSUME held' \in [Client -> SUBSET Callers] PROVE OtherTypes'
  BY <1>1, <1>2, InvFacts DEF OtherTypes, settings
<1>3. CASE ReleaseHeld(at[k], k, "done")
  <2>1. held' \in [Client -> SUBSET Callers]
    BY <1>3, InvFacts DEF ReleaseHeld, OtherTypes
  <2> QED
    BY <1>1, <1>2, <1>3, <2>1, ReleaseHeldKeeps
<1>4. ASSUME UNCHANGED <<limit, slots, held>>, NEW to \in {"poll", "done"}, pc' = [pc EXCEPT ![k] = to]
      PROVE  SlotsInv'
  <2>1. held' \in [Client -> SUBSET Callers]
    BY <1>4, InvFacts DEF OtherTypes
  <2> QED
    BY <1>1, <1>2, <1>4, <2>1, GoesOnKeeps
<1>5. CASE GetReply(k)
  BY <1>3, <1>4, <1>5 DEF GetReply
<1>6. CASE CancelReply(k)
  BY <1>3, <1>4, <1>6 DEF CancelReply
<1> QED
  BY <1>5, <1>6

LEMMA AbortKeeps ==
  ASSUME SlotsInv, NEW k \in Callers, Abort(k) PROVE SlotsInv'
<1>1. /\ UNCHANGED <<settings, made, current, held, at, home, remote, expired>>
      /\ OtherTypes' /\ held' = held /\ at' = at
  BY InvFacts DEF Abort, OtherTypes, settings
<1>2. CASE /\ pc[k] = "waiting"
           /\ queue' = [queue EXCEPT ![at[k]] = Dequeue(@, k)]
           /\ pc' = [pc EXCEPT ![k] = "done"]
           /\ UNCHANGED <<limit, active>>
  <2> DEFINE c == at[k]
             u == Dequeue(queue[c], k)
  <2>1. c \in Client /\ limit' = limit /\ active' = active
    BY <1>2, InvFacts DEF Books, Lines
  <2>2. /\ pc' \in [Callers -> Steps] /\ pc'[k] = "done" /\ (\A r \in Callers \ {k} : pc'[r] = pc[r])
        /\ queue'[c] = u /\ \A d \in Client \ {c} : queue'[d] = queue[d]
    BY <1>2, <2>1, InvFacts DEF SlotTypes, Steps
  <2>3. Books(active, queue', held, pc', at) /\ queue'[c] \in Seq(Callers)
    <3> DEFINE qu == queue'
               p  == pc'
    <3>1. pc[k] = "waiting" /\ SlotTypes /\ Books(active, queue, held, pc, at)
      BY <1>2, InvFacts
    <3>2. (\A r \in Callers \ {k} : p[r] = pc[r]) /\ p[k] = "done"
      BY <2>2
    <3>3. (\A d \in Client \ {at[k]} : qu[d] = queue[d]) /\ qu[at[k]] = Dequeue(queue[at[k]], k)
      BY <2>2
    <3> HIDE DEF qu, p
    <3>4. Books(active, qu, held, p, at) /\ qu[at[k]] \in Seq(Callers)
      BY <3>1, <3>2, <3>3, WaiterLeaves
    <3> QED
      BY <3>4 DEF qu, p
  <2>4. queue' \in [Client -> Seq(Callers)]
    BY <1>2, <2>1, <2>2, <2>3, InvFacts DEF SlotTypes
  <2>5. NoIdleSlot'
    <3>1. queue[c] # <<>>
      <4>1. PICK i \in 1 .. Len(queue[c]) : queue[c][i] = k
        BY <1>2, InvFacts DEF Books, Lines, Line
      <4>2. Len(queue[c]) > 0
        BY <2>1, <4>1, InvFacts
      <4> QED
        BY <4>2, EmptySeq
    <3> QED
      BY <2>1, <2>2, <3>1, InvFacts DEF NoIdleSlot
  <2> QED
    BY <1>1, <2>1, <2>2, <2>3, <2>4, <2>5, InvFacts, InvAfter DEF Books, SlotTypes
<1>3. CASE pc[k] = "posting" /\ ReleasePosting(k, "done")
  BY <1>1, <1>3, ReleaseKeeps
<1>4. CASE pc[k] \in {"poll", "getting"} /\ pc' = [pc EXCEPT ![k] = "cancel"] /\ UNCHANGED <<limit, slots>>
  BY <1>1, <1>4, GoesOnKeeps
<1>5. CASE pc[k] \in {"idle", "retry"} /\ pc' = [pc EXCEPT ![k] = "done"] /\ UNCHANGED <<limit, slots>>
  BY <1>1, <1>5, GoesOnKeeps
<1> QED
  BY <1>2, <1>3, <1>4, <1>5 DEF Abort

\* A step that touches no call.
LEMMA OutsideKeeps ==
  ASSUME SlotsInv, UNCHANGED <<limit, slots, held, pc, at>>, OtherTypes' PROVE SlotsInv'
<1>1. active' = active /\ queue' = queue /\ limit' = limit /\ held' = held /\ pc' = pc /\ at' = at
  BY DEF slots
<1> QED
  BY <1>1, NothingScheduled DEF SlotsInv, SlotTypes

LEMMA SlotsStep ==
  ASSUME SlotsInv, Asked, [Next]_vars PROVE SlotsInv'
<1> USE DEF settings
<1>1. ASSUME NEW k \in Callers, RunnerStep(k) PROVE SlotsInv'
  <2>1. ASSUME Resume(k) \/ GiveUp(k) \/ GetFails(k) PROVE SlotsInv'
    <3>1. /\ UNCHANGED <<settings, made, current, limit, slots, held, at, home, remote, expired>>
          /\ pc[k] \notin {"posting", "waiting"} /\ \E to \in {"poll", "done"} : pc' = [pc EXCEPT ![k] = to]
      BY <2>1 DEF Resume, GiveUp, GetFails
    <3>2. OtherTypes'
      BY <3>1, InvFacts DEF OtherTypes
    <3> QED
      BY <3>1, <3>2, GoesOnKeeps
  <2>2. ASSUME Get(k) \/ Cancel(k) PROVE SlotsInv'
    BY <2>2, CallKeeps DEF Get, Cancel
  <2> QED
    BY <1>1, <2>1, <2>2, CreateKeeps, PostReplyKeeps, PostFailsKeeps, ReplyKeeps DEF RunnerStep
<1>2. ASSUME NEW k \in Callers, Abort(k) PROVE SlotsInv'
  BY <1>2, AbortKeeps
<1>3. ASSUME NEW k \in Callers, RemoteEnds(k) \/ DeadlinePasses(k) PROVE SlotsInv'
  <2>1. UNCHANGED <<limit, slots, held, pc, at>>
    BY <1>3 DEF RemoteEnds, DeadlinePasses
  <2>2. OtherTypes'
    BY <1>3, InvFacts DEF RemoteEnds, DeadlinePasses, OtherTypes, Status
  <2> QED
    BY <2>1, <2>2, OutsideKeeps
<1>4. ASSUME NEW n \in 1 .. MaxLimit, ChangeLimit(n) PROVE SlotsInv'
  <2>1. UNCHANGED <<limit, slots, held, pc, at>>
    BY <1>4 DEF ChangeLimit
  <2>2. OtherTypes'
    BY <1>4, InvFacts, BoundsAssumption DEF ChangeLimit, OtherTypes
  <2> QED
    BY <2>1, <2>2, OutsideKeeps
<1>5. ASSUME NEW n \in Providers, ChangeProvider(n) PROVE SlotsInv'
  <2>1. UNCHANGED <<limit, slots, held, pc, at>>
    BY <1>5 DEF ChangeProvider
  <2>2. OtherTypes'
    BY <1>5, InvFacts, BoundsAssumption DEF ChangeProvider, OtherTypes
  <2> QED
    BY <2>1, <2>2, OutsideKeeps
<1>6. CASE Hibernate \/ UNCHANGED vars
  <2>1. UNCHANGED <<limit, slots, held, pc, at>>
    BY <1>6 DEF Hibernate, vars, slots
  <2>2. OtherTypes'
    BY <1>6, InvFacts DEF Hibernate, vars, OtherTypes
  <2> QED
    BY <2>1, <2>2, OutsideKeeps
<1> QED
  BY <1>1, <1>2, <1>3, <1>4, <1>5, <1>6 DEF Next

--------------------------------------------------------------------------------
(* What a step does to the queues, whichever it is.                        *)

\* Nobody queues, leaves or gets a slot.
Quiet ==
  /\ at' = at /\ queue' = queue /\ active' = active
  /\ \A r \in Callers : pc'[r] = pc[r] \/ pc'[r] \in {"retry", "poll", "cancel", "done"}

\* An aborted wait.
Leaves(k) ==
  /\ pc[k] = "waiting" /\ at' = at /\ active' = active
  /\ queue' = [queue EXCEPT ![at[k]] = Dequeue(queue[at[k]], k)]
  /\ pc' = [pc EXCEPT ![k] = "done"]

\* A call, an answer or a failure of k at client c, and a look at its queue.
Turn(k, c, q, a, lim, to) ==
  /\ a <= active[c] /\ pc[k] # "waiting"
  /\ Schedule(c, q, a, lim, [pc EXCEPT ![k] = to])
  /\ at'[k] = c /\ \A r \in Callers \ {k} : at'[r] = at[r]

Turns(k) ==
  \E c \in Client, a \in Int, lim \in 1 .. MaxLimit, to \in Steps \ {"posting"} :
    \E q \in {queue[c], Append(queue[c], k)} : Turn(k, c, q, a, lim, to)

LEMMA CreateTurns ==
  ASSUME SlotsInv, NEW k \in Callers, Create(k) PROVE Turns(k)
<1>1. /\ UseClient /\ at' = [at EXCEPT ![k] = Target] /\ pc[k] # "waiting"
      /\ Schedule(Target, Append(queue[Target], k), active[Target], setting, [pc EXCEPT ![k] = "waiting"])
  BY DEF Create, Enqueue
<1>2. Target \in Client /\ at'[k] = Target /\ \A r \in Callers \ {k} : at'[r] = at[r]
  BY <1>1, InvFacts, ClientIsUsed
<1>3. active[Target] \in Int /\ active[Target] <= active[Target] /\ setting \in 1 .. MaxLimit
      /\ "waiting" \in Steps \ {"posting"}
  BY <1>2, InvFacts DEF SlotTypes, Steps
<1>4. Turn(k, Target, Append(queue[Target], k), active[Target], setting, "waiting")
  BY <1>1, <1>2, <1>3 DEF Turn
<1> QED
  BY <1>2, <1>3, <1>4 DEF Turns

LEMMA CallTurns ==
  ASSUME SlotsInv, NEW k \in Callers, Get(k) \/ Cancel(k) PROVE Turns(k)
<1>1. PICK to \in {"getting", "cancelling"} :
        /\ UseClient /\ at' = [at EXCEPT ![k] = Target] /\ pc[k] # "waiting"
        /\ Schedule(Target, queue[Target], active[Target], setting, [pc EXCEPT ![k] = to])
  BY DEF Get, Cancel, Call, Request
<1>2. Target \in Client /\ at'[k] = Target /\ \A r \in Callers \ {k} : at'[r] = at[r]
  BY <1>1, InvFacts, ClientIsUsed
<1>3. active[Target] \in Int /\ active[Target] <= active[Target] /\ setting \in 1 .. MaxLimit
      /\ to \in Steps \ {"posting"}
  BY <1>2, InvFacts DEF SlotTypes, Steps
<1>4. Turn(k, Target, queue[Target], active[Target], setting, to)
  BY <1>1, <1>2, <1>3 DEF Turn
<1> QED
  BY <1>2, <1>3, <1>4 DEF Turns

LEMMA ReleaseTurns ==
  ASSUME SlotsInv, NEW k \in Callers, pc[k] = "posting", NEW to \in {"retry", "done"},
         ReleasePosting(k, to), at' = at
  PROVE  Turns(k)
<1>1. /\ at[k] \in Client /\ active[at[k]] - 1 \in Int /\ active[at[k]] - 1 <= active[at[k]]
      /\ limit[at[k]] \in 1 .. MaxLimit /\ to \in Steps \ {"posting"}
  BY InvFacts DEF Steps
<1>2. Turn(k, at[k], queue[at[k]], active[at[k]] - 1, limit[at[k]], to)
  BY <1>1 DEF Turn, ReleasePosting
<1> QED
  BY <1>1, <1>2 DEF Turns

LEMMA ReplyTurns ==
  ASSUME SlotsInv, NEW k \in Callers, pc[k] \in {"getting", "cancelling"}, at[k] \in Client,
         ReleaseHeld(at[k], k, "done"), at' = at
  PROVE  Turns(k)
<1> DEFINE a == IF k \in held[at[k]] THEN active[at[k]] - 1 ELSE active[at[k]]
<1>1. /\ a \in Int /\ a <= active[at[k]] /\ limit[at[k]] \in 1 .. MaxLimit /\ "done" \in Steps \ {"posting"}
  BY InvFacts DEF Steps
<1>2. Turn(k, at[k], queue[at[k]], a, limit[at[k]], "done")
  BY <1>1 DEF Turn, ReleaseHeld
<1> QED
  BY <1>1, <1>2 DEF Turns

LEMMA StepKinds ==
  ASSUME SlotsInv, Asked, [Next]_vars
  PROVE  Quiet \/ \E k \in Callers : Leaves(k) \/ Turns(k)
<1> DEFINE Goal == Quiet \/ \E k \in Callers : Leaves(k) \/ Turns(k)
<1> USE DEF slots
<1>0. pc \in [Callers -> Steps]
  BY InvFacts DEF SlotTypes
<1>1. ASSUME NEW k \in Callers, Create(k) \/ Get(k) \/ Cancel(k) PROVE Goal
  BY <1>1, CreateTurns, CallTurns
<1>2. ASSUME NEW k \in Callers, Resume(k) \/ GiveUp(k) \/ GetFails(k) PROVE Goal
  BY <1>0, <1>2 DEF Resume, GiveUp, GetFails, Quiet
<1>3. ASSUME NEW k \in Callers, PostReply(k) PROVE Goal
  <2>1. pc[k] = "posting" /\ at' = at
    BY <1>3 DEF PostReply
  <2>2. CASE ReleasePosting(k, "done")
    BY <2>1, <2>2, ReleaseTurns
  <2>3. CASE pc' = [pc EXCEPT ![k] = "poll"] /\ UNCHANGED <<limit, slots>>
    BY <1>0, <2>1, <2>3 DEF Quiet
  <2> QED
    BY <1>3, <2>2, <2>3 DEF PostReply
<1>4. ASSUME NEW k \in Callers, PostFails(k) PROVE Goal
  <2>1. pc[k] = "posting" /\ at' = at /\ \E to \in {"retry", "done"} : ReleasePosting(k, to)
    BY <1>4 DEF PostFails, AfterFailure
  <2> QED
    BY <2>1, ReleaseTurns
<1>5. ASSUME NEW k \in Callers, GetReply(k) \/ CancelReply(k) PROVE Goal
  <2>1. pc[k] \in {"getting", "cancelling"} /\ at[k] \in Client /\ at' = at
    BY <1>5 DEF GetReply, CancelReply, Asked
  <2>2. CASE ReleaseHeld(at[k], k, "done")
    BY <2>1, <2>2, ReplyTurns
  <2>3. CASE (\E to \in {"poll", "done"} : pc' = [pc EXCEPT ![k] = to]) /\ UNCHANGED <<limit, slots>>
    BY <1>0, <2>1, <2>3 DEF Quiet
  <2> QED
    BY <1>5, <2>2, <2>3 DEF GetReply, CancelReply
<1>6. ASSUME NEW k \in Callers, Abort(k) PROVE Goal
  <2>1. at' = at
    BY <1>6 DEF Abort
  <2>2. CASE pc[k] = "waiting"
    <3>1. /\ queue' = [queue EXCEPT ![at[k]] = Dequeue(queue[at[k]], k)]
          /\ pc' = [pc EXCEPT ![k] = "done"] /\ active' = active
      BY <1>6, <2>2 DEF Abort
    <3> QED
      BY <2>1, <2>2, <3>1 DEF Leaves
  <2>3. CASE pc[k] = "posting" /\ ReleasePosting(k, "done")
    BY <2>1, <2>3, ReleaseTurns
  <2>4. CASE (\E to \in {"cancel", "done"} : pc' = [pc EXCEPT ![k] = to]) /\ UNCHANGED <<limit, slots>>
    BY <1>0, <2>1, <2>4 DEF Quiet
  <2> QED
    BY <1>6, <2>2, <2>3, <2>4 DEF Abort
<1>7. ASSUME NEW k \in Callers, RemoteEnds(k) \/ DeadlinePasses(k) PROVE Goal
  BY <1>7 DEF RemoteEnds, DeadlinePasses, Quiet
<1>8. CASE \/ \E n \in 1 .. MaxLimit : ChangeLimit(n)
           \/ \E n \in Providers : ChangeProvider(n)
           \/ Hibernate \/ UNCHANGED vars
  BY <1>8 DEF ChangeLimit, ChangeProvider, Hibernate, vars, Quiet
<1> QED
  BY <1>1, <1>2, <1>3, <1>4, <1>5, <1>6, <1>7, <1>8 DEF Next, RunnerStep

--------------------------------------------------------------------------------
(* The invariant of the runs.                                              *)

LEMMA AskedStep ==
  ASSUME SlotsInv, Asked, [Next]_vars PROVE Asked'
<1>0. pc \in [Callers -> Steps]
  BY InvFacts DEF SlotTypes
<1>1. CASE Quiet
  BY <1>1 DEF Quiet, Asked
<1>2. ASSUME NEW k \in Callers, Leaves(k) PROVE Asked'
  BY <1>0, <1>2 DEF Leaves, Asked
<1>3. ASSUME NEW k \in Callers, Turns(k) PROVE Asked'
  <2>1. PICK c \in Client, a \in Int, lim \in 1 .. MaxLimit, to \in Steps \ {"posting"} :
          \E q \in {queue[c], Append(queue[c], k)} : Turn(k, c, q, a, lim, to)
    BY <1>3 DEF Turns
  <2>2. at'[k] = c /\ (\A r \in Callers \ {k} : at'[r] = at[r])
        /\ \A r \in Callers \ {k} : pc'[r] \in {"posting", pc[r]}
    BY <1>0, <2>1 DEF Turn, Schedule
  <2> QED
    BY <2>1, <2>2 DEF Asked
<1> QED
  BY <1>1, <1>2, <1>3, StepKinds

LEMMA SlotsAreSound ==
  ASSUME SlotsInv PROVE SlotsAccounted
<1>1. SlotsCounted
  <2>1. \A c \in Client : Posting(c) = Posters(pc, at, c)
    BY DEF Posting, Posters
  <2> QED
    BY <2>1 DEF SlotsInv, Counted, Count, SlotsCounted
<1>2. WaitersQueuedOnce
  <2> SUFFICES ASSUME NEW k \in Callers, NEW c \in Client
               PROVE  Cardinality({i \in 1 .. Len(queue[c]) : queue[c][i] = k})
                        = IF pc[k] = "waiting" /\ at[k] = c THEN 1 ELSE 0
    BY DEF WaitersQueuedOnce
  <2>1. Line(queue[c], c, pc, at)
    BY DEF SlotsInv, Lines
  <2>2. CASE pc[k] = "waiting" /\ at[k] = c
    <3>1. PICK m \in 1 .. Len(queue[c]) : queue[c][m] = k
      BY <2>1, <2>2 DEF Line
    <3>2. {i \in 1 .. Len(queue[c]) : queue[c][i] = k} = {m}
      BY <2>1, <3>1 DEF Line
    <3> QED
      BY <2>2, <3>2, FS_Singleton
  <2>3. CASE ~(pc[k] = "waiting" /\ at[k] = c)
    <3>1. {i \in 1 .. Len(queue[c]) : queue[c][i] = k} = {}
      BY <2>1, <2>3 DEF Line
    <3> QED
      BY <2>3, <3>1, FS_EmptySet
  <2> QED
    BY <2>2, <2>3
<1>3. TypeOK
  <2>1. ASSUME NEW c \in Client PROVE active[c] \in 0 .. Cardinality(Callers)
    <3> DEFINE P == Posters(pc, at, c)
    <3>1. Count(active[c], held[c], c, pc, at) /\ held[c] \subseteq Callers /\ P \subseteq Callers
      BY DEF SlotsInv, SlotTypes, Counted, Posters
    <3>2. P \cap held[c] = {}
      BY <3>1 DEF Count, Posters, Holding
    <3>3. /\ IsFiniteSet(P) /\ IsFiniteSet(held[c]) /\ Cardinality(P) \in Nat /\ Cardinality(held[c]) \in Nat
          /\ P \cup held[c] \subseteq Callers
      BY <3>1, CallersAreFinite
    <3>4. Cardinality(P \cup held[c]) = Cardinality(P) + Cardinality(held[c])
      <4>1. Cardinality(P \cap held[c]) = 0
        BY <3>2, FS_EmptySet
      <4>2. Cardinality(P \cup held[c]) = Cardinality(P) + Cardinality(held[c]) - Cardinality(P \cap held[c])
        BY <3>3, FS_Union
      <4> HIDE DEF P
      <4> QED
        BY <3>3, <4>1, <4>2
    <3>5. Cardinality(P \cup held[c]) <= Cardinality(Callers) /\ Cardinality(Callers) \in Nat
      BY <3>3, CallersAssumption, CallersAreFinite, FS_Subset
    <3>6. active[c] = Cardinality(P) + Cardinality(held[c])
      BY <3>1 DEF Count
    <3> HIDE DEF P
    <3> QED
      BY <3>3, <3>4, <3>5, <3>6
  <2>2. active \in [Client -> 0 .. Cardinality(Callers)]
    BY <2>1 DEF SlotsInv, SlotTypes
  <2> QED
    BY <2>2 DEF SlotsInv, SlotTypes, Steps, TypeOK
<1> QED
  BY <1>1, <1>2, <1>3 DEF SlotsAccounted, SlotsInv

\* A slot is in use exactly for each create under way and each response the client has not
\* seen end, and no slot is free while a caller waits, whatever fails, is aborted or changed.
THEOREM SlotsAreAccounted == Spec => []SlotsAccounted
<1>1. Init => SlotsInv /\ Asked
  BY SlotsStart DEF Init, Asked
<1>2. (SlotsInv /\ Asked) /\ [Next]_vars => (SlotsInv /\ Asked)'
  BY SlotsStep, AskedStep
<1>3. SlotsInv => SlotsAccounted
  BY SlotsAreSound
<1> QED
  BY <1>1, <1>2, <1>3, PTL DEF Spec

--------------------------------------------------------------------------------
(* The order of the grants.                                                *)

InTurn(p) ==
  /\ Ahead(queue'[at[p]], p) \subseteq Ahead(queue[at[p]], p)
  /\ \A r \in Posting(at[p])' \ Posting(at[p]) : r \in Ahead(queue[at[p]], p)

LEMMA AheadMembers ==
  ASSUME NEW q, NEW p, NEW x
  PROVE  x \in Ahead(q, p) <=> \E i \in 1 .. Len(q) : q[i] = x /\ \E n \in i + 1 .. Len(q) : q[n] = p
BY DEF Ahead

\* Whoever is served, or still ahead of p, was ahead of p.
LEMMA FrontIsAhead ==
  ASSUME NEW o \in Seq(Callers), NEW q \in Seq(Callers), NEW k \in Callers, q = o \/ q = Append(o, k),
         NEW n \in 0 .. Len(q), NEW u, Rest(q, n, u),
         NEW p \in Callers, p # k, p \notin Front(q, n), \E m \in 1 .. Len(o) : o[m] = p
  PROVE  /\ Ahead(u, p) \subseteq Ahead(o, p)
         /\ Front(q, n) \subseteq Ahead(o, p)
<1>1. /\ Len(o) \in Nat /\ Len(q) \in Nat /\ Len(o) <= Len(q)
      /\ \A i \in 1 .. Len(o) : q[i] = o[i]
      /\ \A i \in 1 .. Len(q) : i > Len(o) => q[i] = k
  <2>1. CASE q = o
    BY <2>1
  <2>2. CASE q = Append(o, k)
    BY <2>2
  <2> QED
    BY <2>1, <2>2
<1>2. Len(u) = Len(q) - n /\ \A i \in 1 .. Len(q) - n : u[i] = q[n + i]
  BY DEF Rest
<1>3. \A i \in 1 .. n : q[i] # p
  BY DEF Front
<1>4. ASSUME NEW x \in Ahead(u, p) PROVE x \in Ahead(o, p)
  <2>1. PICK i \in 1 .. Len(u) : u[i] = x /\ \E j \in i + 1 .. Len(u) : u[j] = p
    BY <1>4, AheadMembers
  <2>2. PICK j \in i + 1 .. Len(u) : u[j] = p
    BY <2>1
  <2>3. /\ n + i \in 1 .. Len(q) /\ n + j \in n + i + 1 .. Len(q) /\ n + j \in 1 .. Len(q)
        /\ q[n + i] = x /\ q[n + j] = p
    BY <1>1, <1>2, <2>1, <2>2
  <2>4. n + j <= Len(o)
    BY <1>1, <2>3
  <2>5. n + i \in 1 .. Len(o) /\ n + j \in (n + i) + 1 .. Len(o) /\ o[n + i] = x /\ o[n + j] = p
    BY <1>1, <2>3, <2>4
  <2> QED
    BY <2>5, AheadMembers
<1>5. ASSUME NEW x \in Front(q, n) PROVE x \in Ahead(o, p)
  <2>1. PICK i \in 1 .. n : q[i] = x
    BY <1>5 DEF Front
  <2>2. PICK m \in 1 .. Len(o) : o[m] = p
    OBVIOUS
  <2>3. m > n
    BY <1>1, <1>3, <2>2
  <2>4. i \in 1 .. Len(o) /\ m \in i + 1 .. Len(o) /\ o[i] = x
    BY <1>1, <2>1, <2>2, <2>3
  <2> QED
    BY <2>2, <2>4, AheadMembers
<1> QED
  BY <1>4, <1>5

\* The ones that stay keep their order.
LEMMA LeavingKeepsOrder ==
  ASSUME NEW q \in Seq(Callers), NEW k, \E i \in 1 .. Len(q) : q[i] = k, NEW p
  PROVE  Ahead(Dequeue(q, k), p) \subseteq Ahead(q, p)
<1>1. PICK m \in 1 .. Len(q) :
        /\ Len(Dequeue(q, k)) = Len(q) - 1
        /\ \A i \in 1 .. Len(q) - 1 : Dequeue(q, k)[i] = IF i < m THEN q[i] ELSE q[i + 1]
  BY DequeueEffect
<1> DEFINE u == Dequeue(q, k)
<1>2. Len(q) \in Nat /\ Len(u) = Len(q) - 1 /\ \A i \in 1 .. Len(q) - 1 : u[i] = IF i < m THEN q[i] ELSE q[i + 1]
  BY <1>1
<1> HIDE DEF u
<1>3. ASSUME NEW x \in Ahead(u, p) PROVE x \in Ahead(q, p)
  <2>1. PICK i \in 1 .. Len(u) : u[i] = x /\ \E j \in i + 1 .. Len(u) : u[j] = p
    BY <1>3, AheadMembers
  <2>2. PICK j \in i + 1 .. Len(u) : u[j] = p
    BY <2>1
  <2> DEFINE a == IF i < m THEN i ELSE i + 1
             b == IF j < m THEN j ELSE j + 1
  <2>3. a \in 1 .. Len(q) /\ b \in a + 1 .. Len(q) /\ q[a] = x /\ q[b] = p
    BY <1>2, <2>1, <2>2
  <2> QED
    BY <2>3, AheadMembers
<1> QED
  BY <1>3 DEF u

LEMMA TurnIsInOrder ==
  ASSUME SlotsInv, NEW k \in Callers, Turns(k)
  PROVE  NoGrantAboveLimit /\ \A p \in Callers : pc[p] = "waiting" /\ pc'[p] = "waiting" => InTurn(p)
<1>1. PICK c \in Client, a \in Int, lim \in 1 .. MaxLimit, to \in Steps \ {"posting"} :
        \E q \in {queue[c], Append(queue[c], k)} : Turn(k, c, q, a, lim, to)
  BY DEF Turns
<1>2. PICK q \in {queue[c], Append(queue[c], k)} : Turn(k, c, q, a, lim, to)
  BY <1>1
<1>3. /\ queue[c] \in Seq(Callers) /\ q \in Seq(Callers) /\ active[c] \in Int /\ Len(q) \in Nat
      /\ pc \in [Callers -> Steps] /\ [pc EXCEPT ![k] = to] \in [Callers -> Steps] /\ SlotTypes
  <2>1. queue[c] \in Seq(Callers) /\ active[c] \in Int /\ pc \in [Callers -> Steps] /\ SlotTypes
    BY InvFacts DEF SlotTypes
  <2>2. Append(queue[c], k) \in Seq(Callers)
    BY <2>1
  <2>3. q \in Seq(Callers)
    BY <2>1, <2>2
  <2>4. Len(q) \in Nat
    BY <2>3
  <2> QED
    BY <2>1, <2>3, <2>4
<1>4. /\ a <= active[c] /\ pc[k] # "waiting" /\ at'[k] = c /\ \A r \in Callers \ {k} : at'[r] = at[r]
  BY <1>2 DEF Turn
<1>5. PICK n \in 0 .. Len(q) : Gives(c, q, a, lim, [pc EXCEPT ![k] = to], n)
  BY <1>2, <1>3, ScheduleEffect DEF Turn
<1>6. NoGrantAboveLimit
  <2>1. /\ active'[c] = a + n /\ limit'[c] = lim /\ (n > 0 => a + n <= lim)
        /\ \A d \in Client \ {c} : active'[d] = active[d]
    BY <1>5 DEF Gives
  <2>2. \A d \in Client : active[d] \in Int
    BY InvFacts
  <2> QED
    BY <1>3, <1>4, <2>1, <2>2, BoundsAssumption DEF NoGrantAboveLimit
<1>7. /\ Rest(q, n, queue'[c]) /\ \A d \in Client \ {c} : queue'[d] = queue[d]
      /\ \A r \in Callers : pc'[r] = IF r \in Front(q, n) THEN "posting" ELSE IF r = k THEN to ELSE pc[r]
  BY <1>3, <1>5 DEF Gives, Served
<1>8. ASSUME NEW p \in Callers, pc[p] = "waiting", pc'[p] = "waiting" PROVE InTurn(p)
  <2>1. p # k /\ p \notin Front(q, n) /\ at[p] \in Client /\ Line(queue[at[p]], at[p], pc, at)
        /\ Line(queue[c], c, pc, at)
    BY <1>4, <1>7, <1>8, InvFacts DEF Books, Lines
  <2>0. at'[p] = at[p]
    BY <1>4, <2>1
  <2>2. ASSUME NEW r \in Posting(at[p])' \ Posting(at[p])
        PROVE  r \in Callers /\ pc'[r] = "posting" /\ at'[r] = at[p] /\ ~(pc[r] = "posting" /\ at[r] = at[p])
    BY <2>0, <2>2 DEF Posting
  <2>3. CASE at[p] = c
    <3>1. \E m \in 1 .. Len(queue[c]) : queue[c][m] = p
      BY <1>8, <2>1, <2>3 DEF Line
    <3>2. Ahead(queue'[c], p) \subseteq Ahead(queue[c], p) /\ Front(q, n) \subseteq Ahead(queue[c], p)
      <4> DEFINE o == queue[c]
                 u == queue'[c]
      <4>1. /\ o \in Seq(Callers) /\ (q = o \/ q = Append(o, k)) /\ Rest(q, n, u)
            /\ \E m \in 1 .. Len(o) : o[m] = p
        BY <1>3, <1>7, <3>1
      <4> HIDE DEF o, u
      <4>2. Ahead(u, p) \subseteq Ahead(o, p) /\ Front(q, n) \subseteq Ahead(o, p)
        BY <1>3, <2>1, <4>1, FrontIsAhead
      <4> QED
        BY <4>2 DEF o, u
    <3>3. ASSUME NEW r \in Posting(at[p])' \ Posting(at[p]) PROVE r \in Front(q, n)
      BY <1>4, <1>7, <2>2, <2>3, <3>3
    <3> QED
      BY <2>3, <3>2, <3>3 DEF InTurn
  <2>4. CASE at[p] # c
    <3>1. ASSUME NEW r \in Posting(at[p])' \ Posting(at[p]) PROVE FALSE
      <4>1. r # k /\ at[r] = at[p] /\ pc[r] # "posting"
        BY <1>4, <2>2, <2>4, <3>1
      <4>2. r \in Front(q, n)
        BY <1>7, <2>2, <3>1, <4>1
      <4>3. PICK i \in 1 .. n : q[i] = r
        BY <4>2 DEF Front
      <4>4. i \in 1 .. Len(queue[c]) /\ queue[c][i] = r
        <5>1. CASE q = queue[c]
          BY <1>3, <4>3, <5>1
        <5>2. CASE q = Append(queue[c], k)
          BY <1>3, <4>1, <4>3, <5>2
        <5> QED
          BY <5>1, <5>2
      <4>5. at[r] = c
        BY <2>1, <4>4 DEF Line
      <4> QED
        BY <2>4, <4>1, <4>5
    <3>2. queue'[at[p]] = queue[at[p]]
      BY <1>7, <2>1, <2>4
    <3> QED
      BY <3>1, <3>2 DEF InTurn
  <2> QED
    BY <2>3, <2>4
<1> QED
  BY <1>6, <1>8

LEMMA StepsAreInOrder ==
  ASSUME SlotsInv, Asked, [Next]_vars
  PROVE  NoGrantAboveLimit /\ \A p \in Callers : pc[p] = "waiting" /\ pc'[p] = "waiting" => InTurn(p)
<1> DEFINE Goal == NoGrantAboveLimit /\ \A p \in Callers : pc[p] = "waiting" /\ pc'[p] = "waiting" => InTurn(p)
<1>0. pc \in [Callers -> Steps] /\ (\A c \in Client : active[c] \in Int) /\ queue \in [Client -> Seq(Callers)]
  BY InvFacts DEF SlotTypes
<1>1. CASE Quiet
  <2>2. \A p \in Callers : InTurn(p)
    BY <1>1 DEF Quiet, Posting, InTurn
  <2>3. NoGrantAboveLimit
    BY <1>0, <1>1 DEF Quiet, NoGrantAboveLimit
  <2> QED
    BY <2>2, <2>3
<1>2. ASSUME NEW k \in Callers, Leaves(k) PROVE Goal
  <2>1. /\ at[k] \in Client /\ queue[at[k]] \in Seq(Callers) /\ Line(queue[at[k]], at[k], pc, at)
        /\ pc[k] = "waiting"
    BY <1>0, <1>2, InvFacts DEF Leaves, Books, Lines
  <2>2. \E i \in 1 .. Len(queue[at[k]]) : queue[at[k]][i] = k
    BY <2>1 DEF Line
  <2>3. ASSUME NEW p \in Callers, pc[p] = "waiting" PROVE InTurn(p)
    <3>1. at[p] \in Client
      BY <2>3, InvFacts DEF Books, Lines
    <3>2. Ahead(queue'[at[p]], p) \subseteq Ahead(queue[at[p]], p)
      <4>1. CASE at[p] = at[k]
        <5>1. queue'[at[p]] = Dequeue(queue[at[k]], k)
          BY <1>0, <1>2, <2>1, <4>1 DEF Leaves
        <5> QED
          BY <2>1, <2>2, <4>1, <5>1, LeavingKeepsOrder
      <4>2. CASE at[p] # at[k]
        BY <1>0, <1>2, <3>1, <4>2 DEF Leaves
      <4> QED
        BY <4>1, <4>2
    <3>3. \A r \in Posting(at[p])' \ Posting(at[p]) : r \in Ahead(queue[at[p]], p)
      BY <1>0, <1>2 DEF Leaves, Posting
    <3> QED
      BY <3>2, <3>3 DEF InTurn
  <2>4. NoGrantAboveLimit
    BY <1>0, <1>2 DEF Leaves, NoGrantAboveLimit
  <2> QED
    BY <2>3, <2>4
<1>3. ASSUME NEW k \in Callers, Turns(k) PROVE Goal
  BY <1>3, TurnIsInOrder
<1> QED
  BY <1>1, <1>2, <1>3, StepKinds

\* No slot is given out above the limit in force, and nobody is overtaken in the queue, whatever
\* is aborted and however the limit changes in between.
THEOREM SlotsAreGrantedInOrder == Spec => GrantsSound
<1>1. Init => SlotsInv /\ Asked
  BY SlotsStart DEF Init, Asked
<1>2. (SlotsInv /\ Asked) /\ [Next]_vars => (SlotsInv /\ Asked)'
  BY SlotsStep, AskedStep
<1>3. (SlotsInv /\ Asked) /\ [Next]_vars => [NoGrantAboveLimit /\ GrantsInOrder]_vars
  BY StepsAreInOrder DEF GrantsInOrder, InTurn
<1> QED
  BY <1>1, <1>2, <1>3, PTL DEF Spec, GrantsSound

--------------------------------------------------------------------------------
(* The queues of the pages. What a queue holds, and once each.              *)

\* No task stands in a queue twice.
Once(s) == \A i, j \in 1 .. Len(s) : s[i] = s[j] => i = j

LEMMA EntriesOf ==
  ASSUME NEW T, NEW s \in Seq(T)
  PROVE  Entries(s) \subseteq T /\ (Entries(s) = {} <=> s = <<>>) /\ \A x : x \in Entries(s) <=> \E i \in 1 .. Len(s) : s[i] = x
<1>1. Len(s) \in Nat /\ \A i \in 1 .. Len(s) : s[i] \in T
  OBVIOUS
<1>2. s # <<>> => 1 \in 1 .. Len(s)
  OBVIOUS
<1>3. s = <<>> => Entries(s) = {}
  BY DEF Entries
<1>4. s # <<>> => s[1] \in Entries(s)
  BY <1>2 DEF Entries
<1> QED
  BY <1>1, <1>3, <1>4 DEF Entries

LEMMA JoinedEntries ==
  ASSUME NEW T, NEW s \in Seq(T), NEW u \in Seq(T)
  PROVE  /\ s \o u \in Seq(T) /\ Entries(s \o u) = Entries(s) \cup Entries(u)
         /\ Once(s) /\ Once(u) /\ Entries(s) \cap Entries(u) = {} => Once(s \o u)
<1> DEFINE v == s \o u
           n == Len(s)
           m == Len(u)
<1>1. /\ v \in Seq(T) /\ Len(v) = n + m /\ n \in Nat /\ m \in Nat
      /\ \A i \in 1 .. n + m : v[i] = IF i <= n THEN s[i] ELSE u[i - n]
  BY ConcatProperties, LenProperties
<1>2. \A i \in 1 .. n : i \in 1 .. Len(v) /\ v[i] = s[i]
  BY <1>1
<1>3. \A i \in 1 .. m : n + i \in 1 .. Len(v) /\ v[n + i] = u[i]
  BY <1>1
<1>4. \A i \in 1 .. Len(v) : i \notin 1 .. n => i - n \in 1 .. m /\ v[i] = u[i - n]
  BY <1>1
<1>5. \A i, j \in 1 .. Len(v) : i - n = j - n => i = j
  BY <1>1
<1> HIDE DEF v, n, m
<1>6. /\ \A x : x \in Entries(v) <=> \E i \in 1 .. Len(v) : v[i] = x
      /\ \A x : x \in Entries(s) <=> \E i \in 1 .. n : s[i] = x
      /\ \A x : x \in Entries(u) <=> \E i \in 1 .. m : u[i] = x
  BY <1>1, EntriesOf DEF n, m
<1>8. Entries(v) = Entries(s) \cup Entries(u)
  <2>1. ASSUME NEW i \in 1 .. Len(v) PROVE v[i] \in Entries(s) \cup Entries(u)
    BY <1>2, <1>4, <1>6
  <2>2. ASSUME NEW x \in Entries(s) \cup Entries(u) PROVE x \in Entries(v)
    BY <1>2, <1>3, <1>6
  <2>3. \A x \in Entries(v) : x \in Entries(s) \cup Entries(u)
    BY <1>6, <2>1
  <2> QED
    BY <2>2, <2>3
<1>7. ASSUME Once(s), Once(u), Entries(s) \cap Entries(u) = {}, NEW i \in 1 .. Len(v), NEW j \in 1 .. Len(v), v[i] = v[j]
      PROVE  i = j
  <2>1. CASE i \in 1 .. n /\ j \in 1 .. n
    BY <1>2, <1>7, <2>1 DEF Once, n
  <2>2. CASE i \notin 1 .. n /\ j \notin 1 .. n
    BY <1>4, <1>5, <1>7, <2>2 DEF Once, m
  <2>3. CASE i \in 1 .. n /\ j \notin 1 .. n
    BY <1>2, <1>4, <1>6, <1>7, <2>3
  <2>4. CASE i \notin 1 .. n /\ j \in 1 .. n
    BY <1>2, <1>4, <1>6, <1>7, <2>4
  <2> QED
    BY <2>1, <2>2, <2>3, <2>4
<1> QED
  BY <1>1, <1>7, <1>8 DEF Once, v

LEMMA AppendedEntries ==
  ASSUME NEW T, NEW s \in Seq(T), NEW x \in T
  PROVE  /\ Append(s, x) \in Seq(T) /\ Entries(Append(s, x)) = Entries(s) \cup {x}
         /\ Once(s) /\ x \notin Entries(s) => Once(Append(s, x))
<1>1. <<x>> \in Seq(T) /\ Len(<<x>>) = 1 /\ <<x>>[1] = x
  OBVIOUS
<1>2. Entries(<<x>>) = {x} /\ Once(<<x>>)
  BY <1>1 DEF Entries, Once
<1>3. Append(s, x) = s \o <<x>>
  BY AppendIsConcat
<1>4. /\ s \o <<x>> \in Seq(T) /\ Entries(s \o <<x>>) = Entries(s) \cup Entries(<<x>>)
      /\ Once(s) /\ Once(<<x>>) /\ Entries(s) \cap Entries(<<x>>) = {} => Once(s \o <<x>>)
  BY <1>1, JoinedEntries
<1> QED
  BY <1>2, <1>3, <1>4

\* A queue cut in two.
LEMMA CutEntries ==
  ASSUME NEW T, NEW s \in Seq(T), Once(s), NEW n \in 0 .. Len(s)
  PROVE  LET a == SubSeq(s, 1, n)
             b == SubSeq(s, n + 1, Len(s))
         IN /\ a \in Seq(T) /\ b \in Seq(T) /\ Once(a) /\ Once(b)
            /\ Entries(a) \cup Entries(b) = Entries(s) /\ Entries(a) \cap Entries(b) = {}
            /\ Len(a) = n /\ Len(b) = Len(s) - n
<1> DEFINE a == SubSeq(s, 1, n)
           b == SubSeq(s, n + 1, Len(s))
<1>1. Len(s) \in Nat /\ n \in Int /\ n + 1 \in Int /\ \A i \in 1 .. Len(s) : s[i] \in T
  OBVIOUS
<1>2. a \in Seq(T) /\ Len(a) = n /\ \A i \in 1 .. n : a[i] = s[i]
  <2>1. \A i \in 1 .. n : s[i] \in T
    OBVIOUS
  <2>2. a \in Seq(T) /\ Len(a) = (IF 1 <= n THEN n - 1 + 1 ELSE 0) /\ \A i \in 1 .. n - 1 + 1 : a[i] = s[1 + i - 1]
    BY <1>1, <2>1, SubSeqProperties
  <2> QED
    BY <2>2
<1>3. b \in Seq(T) /\ Len(b) = Len(s) - n /\ \A i \in 1 .. Len(s) - n : b[i] = s[n + i]
  <2>1. \A i \in n + 1 .. Len(s) : s[i] \in T
    BY <1>1
  <2>2. /\ b \in Seq(T) /\ Len(b) = (IF n + 1 <= Len(s) THEN Len(s) - (n + 1) + 1 ELSE 0)
        /\ \A i \in 1 .. Len(s) - (n + 1) + 1 : b[i] = s[n + 1 + i - 1]
    BY <1>1, <2>1, SubSeqProperties
  <2> QED
    BY <1>1, <2>2
<1> HIDE DEF a, b
<1>4. \A i \in 1 .. Len(s) : i \in 1 .. n \/ (i - n \in 1 .. Len(b) /\ b[i - n] = s[i])
  BY <1>3
<1>5. /\ \A i \in 1 .. Len(a) : i \in 1 .. Len(s) /\ a[i] = s[i]
      /\ \A i \in 1 .. Len(b) : n + i \in 1 .. Len(s) /\ b[i] = s[n + i] /\ n + i \notin 1 .. n
      /\ \A i \in 1 .. Len(b), j \in 1 .. Len(b) : n + i = n + j => i = j
  BY <1>1, <1>2, <1>3
<1>9. /\ \A x : x \in Entries(a) <=> \E i \in 1 .. n : a[i] = x
      /\ \A x : x \in Entries(b) <=> \E i \in 1 .. Len(b) : b[i] = x
      /\ \A x : x \in Entries(s) <=> \E i \in 1 .. Len(s) : s[i] = x
  BY <1>2, <1>3, EntriesOf
<1>6. Entries(a) \cup Entries(b) = Entries(s)
  <2>1. ASSUME NEW i \in 1 .. Len(s) PROVE s[i] \in Entries(a) \cup Entries(b)
    BY <1>2, <1>4, <1>9
  <2>2. ASSUME NEW x \in Entries(a) \cup Entries(b) PROVE x \in Entries(s)
    BY <1>2, <1>5, <1>9
  <2>3. \A x \in Entries(s) : x \in Entries(a) \cup Entries(b)
    BY <1>9, <2>1
  <2> QED
    BY <2>2, <2>3
<1>7. Entries(a) \cap Entries(b) = {}
  <2>1. ASSUME NEW i \in 1 .. n, NEW j \in 1 .. Len(b) PROVE a[i] # b[j]
    <3>1. i \in 1 .. Len(s) /\ a[i] = s[i]
      BY <1>2, <1>5
    <3>2. n + j \in 1 .. Len(s) /\ b[j] = s[n + j] /\ n + j # i
      BY <1>5
    <3> QED
      BY <3>1, <3>2 DEF Once
  <2> QED
    BY <1>9, <2>1
<1>8. Once(a) /\ Once(b)
  BY <1>5 DEF Once
<1> QED
  BY <1>2, <1>3, <1>6, <1>7, <1>8 DEF a, b

LEMMA CountedEntries ==
  ASSUME NEW T, NEW s \in Seq(T), Once(s)
  PROVE  IsFiniteSet(Entries(s)) /\ Cardinality(Entries(s)) = Len(s)
<1>1. Len(s) \in Nat
  OBVIOUS
<1> DEFINE f == [i \in 1 .. Len(s) |-> s[i]]
<1>2. f \in Bijection(1 .. Len(s), Entries(s))
  <2>1. f \in [1 .. Len(s) -> Entries(s)] /\ \A x \in Entries(s) : \E i \in 1 .. Len(s) : f[i] = x
    BY DEF Entries
  <2>2. \A i, j \in 1 .. Len(s) : f[i] = f[j] => i = j
    BY DEF Once
  <2> QED
    BY <2>1, <2>2 DEF Bijection, Injection, Surjection, IsInjective
<1>3. IsFiniteSet(1 .. Len(s)) /\ Cardinality(1 .. Len(s)) = Len(s)
  BY <1>1, FS_Interval
<1>4. ExistsBijection(1 .. Len(s), Entries(s))
  BY <1>2 DEF ExistsBijection
<1> QED
  BY <1>3, <1>4, FS_Bijection

LEMMA TailEntries ==
  ASSUME NEW T, NEW s \in Seq(T), Once(s), s # <<>>
  PROVE  /\ Head(s) \in Entries(s) /\ Tail(s) \in Seq(T) /\ Once(Tail(s))
         /\ Entries(Tail(s)) = Entries(s) \ {Head(s)}
<1>1. Len(s) \in Nat /\ 1 \in 1 .. Len(s) /\ Head(s) = s[1]
  OBVIOUS
<1>2. Tail(s) \in Seq(T) /\ Len(Tail(s)) = Len(s) - 1 /\ \A i \in 1 .. Len(Tail(s)) : Tail(s)[i] = s[i + 1]
  BY HeadTailProperties
<1> DEFINE u == Tail(s)
<1> HIDE DEF u
<1>3. /\ \A i \in 1 .. Len(u) : i + 1 \in 1 .. Len(s) /\ i + 1 # 1 /\ u[i] = s[i + 1]
      /\ \A i \in 1 .. Len(s) : i = 1 \/ (i - 1 \in 1 .. Len(u) /\ u[i - 1] = s[i])
      /\ \A i, j \in 1 .. Len(u) : i + 1 = j + 1 => i = j
  BY <1>1, <1>2 DEF u
<1>6. /\ \A x : x \in Entries(u) <=> \E i \in 1 .. Len(u) : u[i] = x
      /\ \A x : x \in Entries(s) <=> \E i \in 1 .. Len(s) : s[i] = x
  BY <1>2, EntriesOf DEF u
<1>4. Entries(u) = Entries(s) \ {s[1]}
  <2>1. ASSUME NEW i \in 1 .. Len(s), s[i] # s[1] PROVE s[i] \in Entries(u)
    BY <1>1, <1>3, <1>6, <2>1
  <2>2. ASSUME NEW i \in 1 .. Len(u) PROVE u[i] \in Entries(s) \ {s[1]}
    BY <1>1, <1>3, <1>6 DEF Once
  <2> QED
    BY <1>6, <2>1, <2>2
<1>5. Once(u)
  BY <1>3 DEF Once
<1> QED
  BY <1>1, <1>2, <1>4, <1>5 DEF u, Entries

--------------------------------------------------------------------------------
(* What is selected from a queue.                                          *)

Selecting(before, x, S) == IF x \in S THEN Append(before, x) ELSE before

\* The selection from the first n tasks of a queue.
Selected(n, s, S, g) ==
  g = [i \in 0 .. n |-> IF i = 0 THEN <<>> ELSE Selecting(g[i - 1], s[i], S)]

LEMMA SelectionsExist == ASSUME NEW s, NEW S PROVE \A n \in Nat : \E g : Selected(n, s, S, g)
<1> DEFINE N == {n \in Nat : \E g : Selected(n, s, S, g)}
<1>1. 0 \in N
  <2>1. Selected(0, s, S, [i \in 0 .. 0 |-> <<>>])
    BY DEF Selected
  <2> QED
    BY <2>1
<1>2. ASSUME NEW n \in Nat, n \in N PROVE n + 1 \in N
  <2>1. PICK g : Selected(n, s, S, g)
    BY <1>2
  <2> DEFINE h == [i \in 0 .. n + 1 |-> IF i = n + 1 THEN Selecting(g[n], s[n + 1], S) ELSE g[i]]
  <2>2. Selected(n + 1, s, S, h)
    BY <2>1 DEF Selected
  <2> QED
    BY <2>2
<1> HIDE DEF N
<1>3. \A n \in Nat : n \in N
  BY <1>1, <1>2, SetInduction
<1> QED
  BY <1>3 DEF N

LEMMA AmongEntries ==
  ASSUME NEW T, NEW s \in Seq(T), NEW S
  PROVE  /\ Among(s, S) \in Seq(T) /\ Entries(Among(s, S)) = Entries(s) \cap S
         /\ Once(s) => Once(Among(s, S))
<1> DEFINE f == CHOOSE g : g = [i \in 0 .. Len(s) |->
                  IF i = 0 THEN <<>> ELSE IF s[i] \in S THEN Append(g[i - 1], s[i]) ELSE g[i - 1]]
<1>1. Len(s) \in Nat /\ \A i \in 1 .. Len(s) : s[i] \in T
  OBVIOUS
<1>2. Selected(Len(s), s, S, f)
  <2>1. \E g : Selected(Len(s), s, S, g)
    BY <1>1, SelectionsExist
  <2> QED
    BY <2>1 DEF Selected, Selecting
<1>3. Among(s, S) = f[Len(s)]
  BY DEF Among
<1> HIDE DEF f
<1>4. f[0] = <<>>
  BY <1>1, <1>2 DEF Selected
<1>5. ASSUME NEW k \in Nat, k + 1 <= Len(s)
      PROVE  f[k + 1] = IF s[k + 1] \in S THEN Append(f[k], s[k + 1]) ELSE f[k]
  <2>1. k + 1 \in 0 .. Len(s) /\ k + 1 # 0 /\ (k + 1) - 1 = k
    BY <1>1, <1>5
  <2> QED
    BY <1>2, <2>1 DEF Selected, Selecting
<1> DEFINE First(k) == {s[i] : i \in 1 .. k}
           N == {k \in Nat : k <= Len(s) =>
                  /\ f[k] \in Seq(T) /\ Entries(f[k]) = First(k) \cap S
                  /\ Once(s) => Once(f[k])}
<1>6. 0 \in N
  <2>1. <<>> \in Seq(T) /\ Entries(<<>>) = {} /\ Once(<<>>)
    BY DEF Entries, Once
  <2>2. First(0) = {}
    OBVIOUS
  <2> QED
    BY <1>4, <2>1, <2>2
<1>7. ASSUME NEW k \in Nat, k \in N PROVE k + 1 \in N
  <2> SUFFICES ASSUME k + 1 <= Len(s)
               PROVE  /\ f[k + 1] \in Seq(T) /\ Entries(f[k + 1]) = First(k + 1) \cap S
                      /\ Once(s) => Once(f[k + 1])
    OBVIOUS
  <2>1. /\ f[k] \in Seq(T) /\ Entries(f[k]) = First(k) \cap S
        /\ Once(s) => Once(f[k])
    BY <1>1, <1>7
  <2>2. k + 1 \in 1 .. Len(s) /\ s[k + 1] \in T
    BY <1>1
  <2>3. First(k + 1) = First(k) \cup {s[k + 1]}
    <3>1. \A i \in 1 .. k + 1 : i \in 1 .. k \/ i = k + 1
      OBVIOUS
    <3>2. \A i \in 1 .. k : i \in 1 .. k + 1
      OBVIOUS
    <3>3. k + 1 \in 1 .. k + 1
      OBVIOUS
    <3> QED
      BY <3>1, <3>2, <3>3, Zenon
  <2>4. Once(s) => s[k + 1] \notin First(k)
    <3>1. \A i \in 1 .. k : i \in 1 .. Len(s) /\ i # k + 1
      BY <1>1, <2>2
    <3> QED
      BY <2>2, <3>1 DEF Once
  <2> HIDE DEF First
  <2>5. CASE s[k + 1] \in S
    <3>1. f[k + 1] = Append(f[k], s[k + 1])
      BY <1>5, <2>5
    <3>2. /\ Append(f[k], s[k + 1]) \in Seq(T)
          /\ Entries(Append(f[k], s[k + 1])) = Entries(f[k]) \cup {s[k + 1]}
          /\ Once(f[k]) /\ s[k + 1] \notin Entries(f[k]) => Once(Append(f[k], s[k + 1]))
      BY <2>1, <2>2, AppendedEntries
    <3> QED
      BY <2>1, <2>3, <2>4, <2>5, <3>1, <3>2
  <2>6. CASE s[k + 1] \notin S
    <3>1. f[k + 1] = f[k]
      BY <1>5, <2>6
    <3> QED
      BY <2>1, <2>3, <2>6, <3>1
  <2> QED
    BY <2>5, <2>6
<1> HIDE DEF N
<1>8. \A k \in Nat : k \in N
  BY <1>6, <1>7, SetInduction
<1> HIDE DEF First
<1>9. /\ f[Len(s)] \in Seq(T) /\ Entries(f[Len(s)]) = First(Len(s)) \cap S
      /\ Once(s) => Once(f[Len(s)])
  BY <1>1, <1>8 DEF N
<1> QED
  BY <1>3, <1>9 DEF Entries, First

--------------------------------------------------------------------------------
(* What a page asks of #aiQueue, and the pages of a request.               *)

AiTask == Requests \X Page \X {"read", "verify"}

LEMMA ReadTasks ==
  /\ \A t \in PageTask : ReadTask(t) \in AiTask /\ ReadTask(t)[1] = t[1] /\ ReadTask(t)[3] = "read"
  /\ \A t, u \in PageTask : ReadTask(t) = ReadTask(u) => t = u
BY DEF ReadTask, AiTask, PageTask

\* A task of #aiQueue that is no verification is the reading of its page.
LEMMA AiTasks ==
  ASSUME NEW q \in AiTask
  PROVE  /\ q[1] \in Requests /\ <<q[1], q[2]>> \in PageTask /\ q[3] \in {"read", "verify"}
         /\ q[3] = "read" => q = ReadTask(<<q[1], q[2]>>)
BY DEF ReadTask, AiTask, PageTask

LEMMA ReadByAiEntries ==
  ASSUME NEW s \in Seq(PageTask), Once(s)
  PROVE  /\ ReadByAi(s) \in Seq(AiTask) /\ Once(ReadByAi(s))
         /\ Entries(ReadByAi(s)) = {ReadTask(t) : t \in Entries(s)}
<1>1. Len(s) \in Nat /\ \A i \in 1 .. Len(s) : s[i] \in PageTask
  OBVIOUS
<1> DEFINE u == ReadByAi(s)
<1>2. u = [i \in 1 .. Len(s) |-> ReadTask(s[i])] /\ \A i \in 1 .. Len(s) : ReadTask(s[i]) \in AiTask
  BY <1>1, ReadTasks DEF ReadByAi
<1>3. u \in Seq(AiTask) /\ Len(u) = Len(s) /\ \A i \in 1 .. Len(s) : u[i] = ReadTask(s[i])
  BY <1>1, <1>2
<1> HIDE DEF u
<1>4. Once(u)
  BY <1>1, <1>3, ReadTasks DEF Once
<1>5. /\ \A x : x \in Entries(u) <=> \E i \in 1 .. Len(s) : u[i] = x
      /\ \A x : x \in Entries(s) <=> \E i \in 1 .. Len(s) : s[i] = x
  BY <1>3, EntriesOf
<1>6. Entries(u) = {ReadTask(t) : t \in Entries(s)}
  <2>1. ASSUME NEW i \in 1 .. Len(s) PROVE u[i] \in {ReadTask(t) : t \in Entries(s)}
    BY <1>3, <1>5
  <2>2. ASSUME NEW t \in Entries(s) PROVE ReadTask(t) \in Entries(u)
    BY <1>3, <1>5
  <2> QED
    BY <1>5, <2>1, <2>2
<1> QED
  BY <1>3, <1>4, <1>6 DEF u

LEMMA PagesOfEntries ==
  ASSUME NEW r \in Requests
  PROVE  /\ PagesOf(r) \in Seq(PageTask) /\ Once(PagesOf(r))
         /\ Entries(PagesOf(r)) = {<<r, p>> : p \in Page}
<1> DEFINE u == PagesOf(r)
<1>1. u = [p \in 1 .. PageCount |-> <<r, p>>] /\ PageCount \in Nat /\ \A p \in 1 .. PageCount : <<r, p>> \in PageTask
  BY QueueAssumption DEF PagesOf, Page, PageTask
<1>2. u \in Seq(PageTask) /\ Len(u) = PageCount /\ \A p \in 1 .. PageCount : u[p] = <<r, p>>
  BY <1>1
<1> HIDE DEF u
<1>3. Once(u)
  BY <1>2 DEF Once
<1>4. Entries(u) = {<<r, p>> : p \in 1 .. PageCount}
  BY <1>2 DEF Entries
<1> QED
  BY <1>2, <1>3, <1>4 DEF u, Page

\* What starts when a queue is scheduled: as many as there are slots for.
LEMMA Admitted ==
  ASSUME NEW T, NEW s \in Seq(T), Once(s), NEW busy, IsFiniteSet(busy), busy \cap Entries(s) = {},
         NEW most \in Nat, Cardinality(busy) <= most
  PROVE  LET n == Startable(s, busy, most)
             started == Entries(SubSeq(s, 1, n))
         IN /\ n \in 0 .. Len(s)
            /\ IsFiniteSet(busy \cup started) /\ Cardinality(busy \cup started) <= most
            /\ SubSeq(s, n + 1, Len(s)) # <<>> => Cardinality(busy \cup started) = most
<1> DEFINE n == Startable(s, busy, most)
           started == Entries(SubSeq(s, 1, n))
<1>1. Len(s) \in Nat /\ Cardinality(busy) \in Nat
  BY FS_CardinalityType
<1>2. n \in 0 .. Len(s) /\ n + Cardinality(busy) <= most /\ (n # Len(s) => n + Cardinality(busy) = most)
  BY <1>1 DEF Startable, Least
<1> HIDE DEF n
<1>3. /\ SubSeq(s, 1, n) \in Seq(T) /\ Once(SubSeq(s, 1, n)) /\ Len(SubSeq(s, 1, n)) = n
      /\ started \subseteq Entries(s) /\ Len(SubSeq(s, n + 1, Len(s))) = Len(s) - n
      /\ SubSeq(s, n + 1, Len(s)) \in Seq(T)
  BY <1>2, CutEntries
<1>4. IsFiniteSet(started) /\ Cardinality(started) = n
  BY <1>3, CountedEntries
<1> HIDE DEF started
<1>5. busy \cap started = {} /\ Cardinality({}) = 0
  BY <1>3, FS_EmptySet
<1>6. IsFiniteSet(busy \cup started) /\ Cardinality(busy \cup started) = Cardinality(busy) + n - 0
  BY <1>4, <1>5, FS_Union
<1>7. SubSeq(s, n + 1, Len(s)) # <<>> => n # Len(s)
  <2>1. Len(SubSeq(s, n + 1, Len(s))) = 0 => SubSeq(s, n + 1, Len(s)) = <<>>
    BY <1>3, EmptySeq
  <2> QED
    BY <1>1, <1>3, <2>1
<1>8. most \in Int /\ n \in Int /\ Cardinality(busy) \in Int
  BY <1>1, <1>2
<1>9. Cardinality(busy \cup started) <= most /\ (n # Len(s) => Cardinality(busy \cup started) = most)
  BY <1>2, <1>6, <1>8
<1> QED
  BY <1>2, <1>6, <1>7, <1>9 DEF n, started

--------------------------------------------------------------------------------
(* schedule of both queues.                                                *)

\* The tasks of the queues stand in one place each: a page that holds a slot waits for
\* Tesseract if it is an image, and if it is a PDF its reading is in #aiQueue.
Placed(wp, ap, ocr, wa, aa) ==
  /\ wp \in Seq(PageTask) /\ ocr \in Seq(PageTask) /\ wa \in Seq(AiTask)
  /\ Once(wp) /\ Once(ocr) /\ Once(wa)
  /\ ap \subseteq PageTask /\ IsFiniteSet(ap) /\ Cardinality(ap) <= PageSlots /\ ap \cap Entries(wp) = {}
  /\ aa \subseteq AiTask /\ IsFiniteSet(aa) /\ Cardinality(aa) <= AiSlots /\ aa \cap Entries(wa) = {}
  /\ \A t \in PageTask : t \in Entries(ocr) <=> t \in ap /\ t \notin Pdf
  /\ \A t \in PageTask : ReadTask(t) \in Entries(wa) \cup aa <=> t \in ap /\ t \in Pdf

LEMMA ScheduleKeepsPlaces ==
  ASSUME NEW wp, NEW ap, NEW ocr, NEW wa, NEW aa,
         Placed(wp, ap, ocr, wa, aa), ScheduleTask(wp, ap, ocr, wa, aa)
  PROVE  /\ Placed(pageWaiting', pageActive', tesseract', aiWaiting', aiActive') /\ NoIdlePageSlot'
         /\ Entries(pageWaiting)' \cup pageActive' = Entries(wp) \cup ap
         /\ Entries(pageWaiting)' \subseteq Entries(wp)
         /\ \A q \in Entries(aiWaiting)' : q \in Entries(wa) \/ \E t \in Entries(wp) : q = ReadTask(t)
<1> DEFINE n       == Startable(wp, ap, PageSlots)
           started == SubSeq(wp, 1, n)
           asked   == ReadByAi(Among(started, Pdf))
           ai      == wa \o asked
           m       == Startable(ai, aa, AiSlots)
           images  == Among(started, PageTask \ Pdf)
           served  == SubSeq(ai, 1, m)
<1>1. /\ pageWaiting' = SubSeq(wp, n + 1, Len(wp)) /\ pageActive' = ap \cup Entries(started)
      /\ tesseract' = ocr \o images
      /\ aiWaiting' = SubSeq(ai, m + 1, Len(ai)) /\ aiActive' = aa \cup Entries(served)
  BY DEF ScheduleTask
<1>2. PageSlots \in Nat /\ AiSlots \in Nat /\ Pdf \subseteq PageTask
  BY QueueAssumption DEF PageTask, Page
<1>3. /\ n \in 0 .. Len(wp)
      /\ IsFiniteSet(ap \cup Entries(started)) /\ Cardinality(ap \cup Entries(started)) <= PageSlots
      /\ SubSeq(wp, n + 1, Len(wp)) # <<>> => Cardinality(ap \cup Entries(started)) = PageSlots
  BY <1>2, Admitted DEF Placed
<1> HIDE DEF n
<1>4. /\ started \in Seq(PageTask) /\ Once(started)
      /\ pageWaiting' \in Seq(PageTask) /\ Once(pageWaiting')
      /\ Entries(started) \cup Entries(pageWaiting)' = Entries(wp)
      /\ Entries(started) \cap Entries(pageWaiting)' = {}
  <2>1. LET a == SubSeq(wp, 1, n)
            b == SubSeq(wp, n + 1, Len(wp))
        IN /\ a \in Seq(PageTask) /\ b \in Seq(PageTask) /\ Once(a) /\ Once(b)
           /\ Entries(a) \cup Entries(b) = Entries(wp) /\ Entries(a) \cap Entries(b) = {}
    BY <1>3, CutEntries DEF Placed
  <2>2. Entries(pageWaiting)' = Entries(SubSeq(wp, n + 1, Len(wp)))
    BY <1>1 DEF Entries
  <2> QED
    BY <1>1, <2>1, <2>2
<1> HIDE DEF started
<1>5. /\ images \in Seq(PageTask) /\ Once(images) /\ Entries(images) = Entries(started) \cap (PageTask \ Pdf)
      /\ Among(started, Pdf) \in Seq(PageTask) /\ Once(Among(started, Pdf))
      /\ Entries(Among(started, Pdf)) = Entries(started) \cap Pdf
  BY <1>4, AmongEntries
<1>6. /\ asked \in Seq(AiTask) /\ Once(asked) /\ Entries(asked) = {ReadTask(t) : t \in Entries(started) \cap Pdf}
  BY <1>5, ReadByAiEntries
<1> HIDE DEF images, asked
<1>7. Entries(started) \subseteq PageTask /\ Entries(started) \cap ap = {}
  BY <1>4, EntriesOf DEF Placed
<1>8. Entries(ocr) \cap Entries(images) = {}
  BY <1>5, <1>7 DEF Placed
<1>9. (Entries(wa) \cup aa) \cap Entries(asked) = {}
  <2>1. ASSUME NEW t \in Entries(started) \cap Pdf PROVE ReadTask(t) \notin Entries(wa) \cup aa
    BY <1>7 DEF Placed
  <2> QED
    BY <1>6, <2>1
<1>10. /\ tesseract' \in Seq(PageTask) /\ Once(tesseract') /\ Entries(tesseract)' = Entries(ocr) \cup Entries(images)
  <2>1. /\ ocr \o images \in Seq(PageTask) /\ Once(ocr \o images)
        /\ Entries(ocr \o images) = Entries(ocr) \cup Entries(images)
    BY <1>5, <1>8, JoinedEntries DEF Placed
  <2>2. Entries(tesseract)' = Entries(ocr \o images)
    BY <1>1 DEF Entries
  <2> QED
    BY <1>1, <2>1, <2>2
<1>11. ai \in Seq(AiTask) /\ Once(ai) /\ Entries(ai) = Entries(wa) \cup Entries(asked)
  BY <1>6, <1>9, JoinedEntries DEF Placed
<1> HIDE DEF ai
<1>12. aa \cap Entries(ai) = {}
  BY <1>9, <1>11 DEF Placed
<1>13. /\ m \in 0 .. Len(ai)
       /\ IsFiniteSet(aa \cup Entries(served)) /\ Cardinality(aa \cup Entries(served)) <= AiSlots
       /\ SubSeq(ai, m + 1, Len(ai)) # <<>> => Cardinality(aa \cup Entries(served)) = AiSlots
  BY <1>2, <1>11, <1>12, Admitted DEF Placed
<1> HIDE DEF m
<1>14. /\ served \in Seq(AiTask)
       /\ aiWaiting' \in Seq(AiTask) /\ Once(aiWaiting')
       /\ Entries(served) \cup Entries(aiWaiting)' = Entries(ai)
       /\ Entries(served) \cap Entries(aiWaiting)' = {}
  <2>1. LET a == SubSeq(ai, 1, m)
            b == SubSeq(ai, m + 1, Len(ai))
        IN /\ a \in Seq(AiTask) /\ b \in Seq(AiTask) /\ Once(a) /\ Once(b)
           /\ Entries(a) \cup Entries(b) = Entries(ai) /\ Entries(a) \cap Entries(b) = {}
    BY <1>11, <1>13, CutEntries
  <2>2. Entries(aiWaiting)' = Entries(SubSeq(ai, m + 1, Len(ai)))
    BY <1>1 DEF Entries
  <2> QED
    BY <1>1, <2>1, <2>2
<1>15. Entries(served) \subseteq AiTask
  BY <1>14, EntriesOf
<1> HIDE DEF served
<1>16. NoIdlePageSlot'
  BY <1>1, <1>3, <1>13 DEF NoIdlePageSlot
<1>17. Entries(aiWaiting)' \cup aiActive' = Entries(wa) \cup aa \cup Entries(asked)
  BY <1>1, <1>11, <1>14
<1>18. ASSUME NEW t \in PageTask
       PROVE  /\ t \in Entries(tesseract)' <=> t \in pageActive' /\ t \notin Pdf
              /\ ReadTask(t) \in Entries(aiWaiting)' \cup aiActive' <=> t \in pageActive' /\ t \in Pdf
  <2>1. ReadTask(t) \in Entries(asked) <=> t \in Entries(started) /\ t \in Pdf
    <3>1. ASSUME NEW u \in Entries(started) \cap Pdf, ReadTask(u) = ReadTask(t) PROVE u = t
      BY <1>7, <3>1, ReadTasks
    <3> QED
      BY <1>6, <3>1
  <2>2. /\ t \in Entries(ocr) <=> t \in ap /\ t \notin Pdf
        /\ ReadTask(t) \in Entries(wa) \cup aa <=> t \in ap /\ t \in Pdf
    BY DEF Placed
  <2>3. t \in Entries(tesseract)' <=> t \in pageActive' /\ t \notin Pdf
    BY <1>1, <1>5, <1>10, <2>2
  <2>4. ReadTask(t) \in Entries(aiWaiting)' \cup aiActive' <=> t \in pageActive' /\ t \in Pdf
    BY <1>1, <1>17, <2>1, <2>2
  <2> QED
    BY <2>3, <2>4
<1>19. Placed(pageWaiting', pageActive', tesseract', aiWaiting', aiActive')
  <2>1. /\ pageActive' \subseteq PageTask /\ IsFiniteSet(pageActive') /\ Cardinality(pageActive') <= PageSlots
        /\ aiActive' \subseteq AiTask /\ IsFiniteSet(aiActive') /\ Cardinality(aiActive') <= AiSlots
    BY <1>1, <1>3, <1>7, <1>13, <1>15 DEF Placed
  <2>2. /\ ap \cap Entries(wp) = {}
    BY DEF Placed
  <2>3. /\ pageActive' \cap Entries(pageWaiting') = {} /\ aiActive' \cap Entries(aiWaiting') = {}
    <3>1. /\ Entries(pageWaiting') = Entries(pageWaiting)' /\ Entries(aiWaiting') = Entries(aiWaiting)'
      BY DEF Entries
    <3> QED
      BY <1>1, <1>4, <1>12, <1>14, <2>2, <3>1
  <2>4. /\ Entries(tesseract') = Entries(tesseract)' /\ Entries(aiWaiting') = Entries(aiWaiting)'
    BY DEF Entries
  <2> QED
    BY <1>4, <1>10, <1>14, <1>18, <2>1, <2>3, <2>4 DEF Placed
<1>20. Entries(pageWaiting)' \cup pageActive' = Entries(wp) \cup ap /\ Entries(pageWaiting)' \subseteq Entries(wp)
  BY <1>1, <1>4
<1>21. ASSUME NEW q \in Entries(aiWaiting)' PROVE q \in Entries(wa) \/ \E t \in Entries(wp) : q = ReadTask(t)
  BY <1>4, <1>6, <1>11, <1>14
<1> QED
  BY <1>16, <1>19, <1>20, <1>21

--------------------------------------------------------------------------------

PageTypes ==
  /\ extraction \in [Requests -> [status : {"none", "running", "ok", "failed", "timeout"},
                                  verify : BOOLEAN, aborted : BOOLEAN, verified : 0 .. PageCount - 1]]
  /\ read \in [PageTask -> {"none", "pending", "read", "failed"}]

\* A request that has not come has asked for nothing.
NothingAsked == \A t \in PageTask : extraction[t[1]].status = "none" => read[t] = "none"

PendingIn(W, given) == \A t \in PageTask : read[t] = "pending" <=> t \in W \cup given

NotQueued(W, Q) == \A r \in Requests : extraction[r].aborted => (\A t \in W : t[1] # r) /\ (\A q \in Q : q[1] # r)

QueuesInv ==
  /\ PageTypes /\ NothingAsked
  /\ Placed(pageWaiting, pageActive, tesseract, aiWaiting, aiActive) /\ NoIdlePageSlot
  /\ PendingIn(Entries(pageWaiting), pageActive) /\ NotQueued(Entries(pageWaiting), Entries(aiWaiting))

LEMMA QueuesAreSound == QueuesInv => PageQueuesSound
<1> SUFFICES ASSUME QueuesInv PROVE PageQueuesSound
  OBVIOUS
<1>1. AbortedRequestNotQueued
  BY DEF QueuesInv, NotQueued, AbortedRequestNotQueued, Aborted
<1>2. ASSUME NEW t \in PageTask
      PROVE  LET waits == {i \in 1 .. Len(pageWaiting) : pageWaiting[i] = t}
                 ocr   == {i \in 1 .. Len(tesseract) : tesseract[i] = t}
                 pdf   == ReadTask(t) \in Entries(aiWaiting) \cup aiActive
             IN /\ read[t] = "pending" <=> (waits # {} \/ t \in pageActive)
                /\ t \in pageActive => (ocr = {} <=> pdf) /\ waits = {}
                /\ Cardinality(waits) <= 1 /\ Cardinality(ocr) <= 1
  <2> DEFINE waits == {i \in 1 .. Len(pageWaiting) : pageWaiting[i] = t}
             ocr   == {i \in 1 .. Len(tesseract) : tesseract[i] = t}
             pdf   == ReadTask(t) \in Entries(aiWaiting) \cup aiActive
  <2>1. waits # {} <=> t \in Entries(pageWaiting)
    BY DEF Entries
  <2>2. ocr # {} <=> t \in Entries(tesseract)
    BY DEF Entries
  <2>3. \A S : (\A i, j \in S : i = j) => Cardinality(S) <= 1
    <3> SUFFICES ASSUME NEW S, \A i, j \in S : i = j PROVE Cardinality(S) <= 1
      OBVIOUS
    <3>1. CASE S = {}
      BY <3>1, FS_EmptySet
    <3>2. CASE S # {}
      <4>1. PICK i \in S : S = {i}
        BY <3>2
      <4>2. Cardinality({i}) = 1
        BY FS_Singleton
      <4> QED
        BY <4>1, <4>2
    <3> QED
      BY <3>1, <3>2
  <2>4. Cardinality(waits) <= 1
    <3>1. \A i, j \in waits : i = j
      BY DEF QueuesInv, Placed, Once
    <3> QED
      BY <2>3, <3>1
  <2>5. Cardinality(ocr) <= 1
    <3>1. \A i, j \in ocr : i = j
      BY DEF QueuesInv, Placed, Once
    <3> QED
      BY <2>3, <3>1
  <2> HIDE DEF waits, ocr
  <2>6. read[t] = "pending" <=> (waits # {} \/ t \in pageActive)
    BY <2>1 DEF QueuesInv, PendingIn
  <2>7. t \in pageActive => (ocr = {} <=> pdf) /\ waits = {}
    BY <2>1, <2>2 DEF QueuesInv, Placed
  <2> QED
    BY <2>4, <2>5, <2>6, <2>7 DEF waits, ocr
<1> QED
  BY <1>1, <1>2 DEF PageQueuesSound, PendingPageHasPlace, QueuesInv

LEMMA QueuesStart == PageQueueInit => QueuesInv
<1> SUFFICES ASSUME PageQueueInit PROVE QueuesInv
  OBVIOUS
<1> USE DEF PageQueueInit
<1>1. <<>> \in Seq(PageTask) /\ <<>> \in Seq(AiTask) /\ Entries(<<>>) = {} /\ Once(<<>>)
  BY DEF Entries, Once
<1>2. IsFiniteSet({}) /\ Cardinality({}) = 0
  BY FS_EmptySet
<1>3. Placed(<<>>, {}, <<>>, <<>>, {})
  <2>1. PageSlots \in Nat \ {0} /\ AiSlots \in Nat \ {0}
    BY QueueAssumption
  <2>2. 0 <= PageSlots /\ 0 <= AiSlots
    BY <2>1
  <2> QED
    BY <1>1, <1>2, <2>2 DEF Placed
<1>4. PageTypes
  BY QueueAssumption DEF PageTypes, NoExtraction
<1>5. NothingAsked
  BY DEF NothingAsked
<1>6. NoIdlePageSlot
  BY DEF NoIdlePageSlot
<1>7. PendingIn({}, {}) /\ NotQueued({}, {})
  BY DEF PendingIn, NotQueued, NoExtraction
<1> QED
  BY <1>1, <1>3, <1>4, <1>5, <1>6, <1>7 DEF QueuesInv

\* What a call has done to the queues before they are scheduled is enough for what they are
\* after.
LEMMA ScheduledInvariance ==
  ASSUME PageTypes', NothingAsked', NEW wp, NEW ap, NEW ocr, NEW wa, NEW aa,
         Placed(wp, ap, ocr, wa, aa), ScheduleTask(wp, ap, ocr, wa, aa),
         \A t \in PageTask : read'[t] = "pending" <=> t \in Entries(wp) \cup ap,
         \A r \in Requests : extraction'[r].aborted =>
           (\A t \in Entries(wp) : t[1] # r) /\ (\A q \in Entries(wa) : q[1] # r)
  PROVE  QueuesInv'
<1>1. /\ Placed(pageWaiting', pageActive', tesseract', aiWaiting', aiActive') /\ NoIdlePageSlot'
      /\ Entries(pageWaiting)' \cup pageActive' = Entries(wp) \cup ap
      /\ Entries(pageWaiting)' \subseteq Entries(wp)
      /\ \A q \in Entries(aiWaiting)' : q \in Entries(wa) \/ \E t \in Entries(wp) : q = ReadTask(t)
  BY ScheduleKeepsPlaces
<1>2. Entries(wp) \subseteq PageTask
  BY EntriesOf DEF Placed
<1>3. PendingIn(Entries(pageWaiting), pageActive)'
  BY <1>1 DEF PendingIn
<1>4. ASSUME NEW r \in Requests, extraction'[r].aborted
      PROVE  (\A t \in Entries(pageWaiting)' : t[1] # r) /\ (\A q \in Entries(aiWaiting)' : q[1] # r)
  <2>1. ASSUME NEW t \in Entries(wp) PROVE ReadTask(t)[1] # r
    BY <1>2, <1>4, ReadTasks
  <2> QED
    BY <1>1, <1>4, <2>1
<1>5. NotQueued(Entries(pageWaiting), Entries(aiWaiting))'
  BY <1>4 DEF NotQueued
<1>6. Placed(pageWaiting, pageActive, tesseract, aiWaiting, aiActive)'
  <2>1. /\ Entries(pageWaiting)' = Entries(pageWaiting') /\ Entries(tesseract)' = Entries(tesseract')
        /\ Entries(aiWaiting)' = Entries(aiWaiting')
    BY DEF Entries
  <2> QED
    BY <1>1
<1> QED
  BY <1>1, <1>3, <1>5, <1>6 DEF QueuesInv

--------------------------------------------------------------------------------
(* The actions.                                                            *)

\* Slots given back leave no more than there were.
LEMMA FewerHeld ==
  ASSUME NEW wp, NEW ap, NEW ocr, NEW wa, NEW aa, Placed(wp, ap, ocr, wa, aa),
         NEW ap2, ap2 \subseteq ap, NEW aa2, aa2 \subseteq aa
  PROVE  /\ ap2 \subseteq PageTask /\ IsFiniteSet(ap2) /\ Cardinality(ap2) <= PageSlots
         /\ aa2 \subseteq AiTask /\ IsFiniteSet(aa2) /\ Cardinality(aa2) <= AiSlots
<1>1. PageSlots \in Int /\ AiSlots \in Int
  BY QueueAssumption
<1>2. IsFiniteSet(ap2) /\ Cardinality(ap2) <= Cardinality(ap) /\ Cardinality(ap2) \in Int /\ Cardinality(ap) \in Int
  BY FS_Subset, FS_CardinalityType DEF Placed
<1>3. IsFiniteSet(aa2) /\ Cardinality(aa2) <= Cardinality(aa) /\ Cardinality(aa2) \in Int /\ Cardinality(aa) \in Int
  BY FS_Subset, FS_CardinalityType DEF Placed
<1>4. Cardinality(ap) <= PageSlots /\ Cardinality(aa) <= AiSlots /\ ap \subseteq PageTask /\ aa \subseteq AiTask
  BY DEF Placed
<1> QED
  BY <1>1, <1>2, <1>3, <1>4

LEMMA TaskPairs ==
  /\ \A r \in Requests, p \in Page : <<r, p>> \in PageTask /\ <<r, p>>[1] = r
  /\ \A t \in PageTask : t[1] \in Requests /\ t[2] \in Page /\ t = <<t[1], t[2]>>
BY DEF PageTask

LEMMA ExtractKeeps ==
  ASSUME QueuesInv, NEW r \in Requests, NEW verify \in BOOLEAN, Extract(r, verify)
  PROVE  QueuesInv'
<1> DEFINE wp == pageWaiting \o PagesOf(r)
<1>1. PagesOf(r) \in Seq(PageTask) /\ Once(PagesOf(r)) /\ Entries(PagesOf(r)) = {<<r, p>> : p \in Page}
  BY PagesOfEntries
<1>2. /\ Placed(pageWaiting, pageActive, tesseract, aiWaiting, aiActive)
      /\ PendingIn(Entries(pageWaiting), pageActive) /\ NotQueued(Entries(pageWaiting), Entries(aiWaiting))
      /\ PageTypes /\ NothingAsked
  BY DEF QueuesInv
<1>3. \A t \in Entries(PagesOf(r)) : t \in PageTask /\ t[1] = r /\ t \notin Entries(pageWaiting) \cup pageActive
  <2>1. ASSUME NEW p \in Page PROVE <<r, p>> \notin Entries(pageWaiting) \cup pageActive
    <3>1. read[<<r, p>>] = "none"
      BY <1>2, TaskPairs DEF Extract, NothingAsked
    <3> QED
      BY <1>2, <3>1, TaskPairs DEF PendingIn
  <2> QED
    BY <1>1, <2>1, TaskPairs
<1>4. wp \in Seq(PageTask) /\ Once(wp) /\ Entries(wp) = Entries(pageWaiting) \cup Entries(PagesOf(r))
  BY <1>1, <1>2, <1>3, JoinedEntries DEF Placed
<1> HIDE DEF wp
<1>5. Placed(wp, pageActive, tesseract, aiWaiting, aiActive)
  BY <1>2, <1>3, <1>4 DEF Placed
<1>6. ScheduleTask(wp, pageActive, tesseract, aiWaiting, aiActive)
  BY DEF Extract, wp
<1>7. \A t \in PageTask : read'[t] = IF t[1] = r THEN "pending" ELSE read[t]
  BY DEF Extract
<1>8. \A s \in Requests : extraction'[s] = IF s = r THEN [NoExtraction EXCEPT !.status = "running", !.verify = verify] ELSE extraction[s]
  BY <1>2 DEF Extract, PageTypes
<1>9. PageTypes'
  <2>1. [NoExtraction EXCEPT !.status = "running", !.verify = verify] \in
          [status : {"none", "running", "ok", "failed", "timeout"}, verify : BOOLEAN, aborted : BOOLEAN,
           verified : 0 .. PageCount - 1]
    <3>1. 0 \in 0 .. PageCount - 1
      BY QueueAssumption
    <3>2. NoExtraction \in [status : {"none", "running", "ok", "failed", "timeout"}, verify : BOOLEAN,
                             aborted : BOOLEAN, verified : 0 .. PageCount - 1]
      BY <3>1 DEF NoExtraction
    <3> QED
      BY <3>2
  <2>2. extraction' \in [Requests -> [status : {"none", "running", "ok", "failed", "timeout"},
                                       verify : BOOLEAN, aborted : BOOLEAN, verified : 0 .. PageCount - 1]]
    BY <1>2, <2>1 DEF PageTypes, Extract
  <2>3. read' \in [PageTask -> {"none", "pending", "read", "failed"}]
    BY <1>2 DEF PageTypes, Extract
  <2> QED
    BY <2>2, <2>3 DEF PageTypes
<1>10. extraction'[r].status = "running" /\ extraction'[r].aborted = FALSE
  BY <1>8 DEF NoExtraction
<1>11. NothingAsked'
  BY <1>2, <1>7, <1>8, <1>10, TaskPairs DEF NothingAsked
<1>12. \A t \in PageTask : read'[t] = "pending" <=> t \in Entries(wp) \cup pageActive
  <2> SUFFICES ASSUME NEW t \in PageTask PROVE read'[t] = "pending" <=> t \in Entries(wp) \cup pageActive
    OBVIOUS
  <2>1. t[1] = r => t \in Entries(wp)
    BY <1>1, <1>4, TaskPairs
  <2>2. t[1] # r => (t \in Entries(wp) <=> t \in Entries(pageWaiting))
    BY <1>3, <1>4
  <2> QED
    BY <1>2, <1>7, <2>1, <2>2 DEF PendingIn
<1>13. \A s \in Requests : extraction'[s].aborted =>
         (\A t \in Entries(wp) : t[1] # s) /\ (\A q \in Entries(aiWaiting) : q[1] # s)
  <2> SUFFICES ASSUME NEW s \in Requests, extraction'[s].aborted
               PROVE  (\A t \in Entries(wp) : t[1] # s) /\ (\A q \in Entries(aiWaiting) : q[1] # s)
    OBVIOUS
  <2>1. s # r /\ extraction[s].aborted
    BY <1>8, <1>10
  <2> QED
    BY <1>2, <1>3, <1>4, <2>1 DEF NotQueued
<1> QED
  BY <1>5, <1>6, <1>9, <1>11, <1>12, <1>13, ScheduledInvariance

LEMMA OcrEndsKeeps ==
  ASSUME QueuesInv, NEW t \in PageTask, NEW ok \in BOOLEAN, OcrEnds(t, ok)
  PROVE  QueuesInv'
<1> DEFINE ap == pageActive \ {t}
<1>1. /\ Placed(pageWaiting, pageActive, tesseract, aiWaiting, aiActive)
      /\ PendingIn(Entries(pageWaiting), pageActive) /\ NotQueued(Entries(pageWaiting), Entries(aiWaiting))
      /\ PageTypes /\ NothingAsked
  BY DEF QueuesInv
<1>2. /\ t \in Entries(tesseract) /\ Tail(tesseract) \in Seq(PageTask) /\ Once(Tail(tesseract))
      /\ Entries(Tail(tesseract)) = Entries(tesseract) \ {t}
  BY <1>1, TailEntries DEF Placed, OcrEnds
<1>3. t \in pageActive /\ t \notin Pdf /\ t \notin Entries(pageWaiting)
  BY <1>1, <1>2 DEF Placed
<1>4. /\ ap \subseteq PageTask /\ IsFiniteSet(ap) /\ Cardinality(ap) <= PageSlots
  <2>1. ap \subseteq pageActive /\ aiActive \subseteq aiActive
    OBVIOUS
  <2> QED
    BY <1>1, <2>1, FewerHeld
<1>5. Placed(pageWaiting, ap, Tail(tesseract), aiWaiting, aiActive)
  BY <1>1, <1>2, <1>3, <1>4 DEF Placed
<1>6. ScheduleTask(pageWaiting, ap, Tail(tesseract), aiWaiting, aiActive) /\ extraction' = extraction
  BY DEF OcrEnds, Freed
<1>7. PageTypes'
  <2>1. read' \in [PageTask -> {"none", "pending", "read", "failed"}]
    BY <1>1 DEF PageTypes, OcrEnds
  <2> QED
    BY <1>1, <1>6, <2>1 DEF PageTypes
<1>8. \A u \in PageTask : u # t => read'[u] = read[u]
  BY <1>1 DEF OcrEnds, PageTypes
<1>9. read[t] = "pending" /\ read'[t] # "pending"
  BY <1>1, <1>3 DEF OcrEnds, PageTypes, PendingIn
<1>10. NothingAsked'
  BY <1>1, <1>6, <1>8, <1>9 DEF NothingAsked
<1>11. \A u \in PageTask : read'[u] = "pending" <=> u \in Entries(pageWaiting) \cup ap
  BY <1>1, <1>3, <1>8, <1>9 DEF PendingIn
<1>12. \A s \in Requests : extraction'[s].aborted =>
         (\A u \in Entries(pageWaiting) : u[1] # s) /\ (\A q \in Entries(aiWaiting) : q[1] # s)
  BY <1>1, <1>6 DEF NotQueued
<1> HIDE DEF ap
<1> QED
  BY <1>5, <1>6, <1>7, <1>10, <1>11, <1>12, ScheduledInvariance

LEMMA PdfReadEndsKeeps ==
  ASSUME QueuesInv, NEW t \in PageTask, PdfReadEnds(t)
  PROVE  QueuesInv'
<1> DEFINE ap == pageActive \ {t}
           aa == aiActive \ {ReadTask(t)}
<1>1. /\ Placed(pageWaiting, pageActive, tesseract, aiWaiting, aiActive)
      /\ PendingIn(Entries(pageWaiting), pageActive) /\ NotQueued(Entries(pageWaiting), Entries(aiWaiting))
      /\ PageTypes /\ NothingAsked
  BY DEF QueuesInv
<1>2. ReadTask(t) \in aiActive
  BY DEF PdfReadEnds
<1>3. t \in pageActive /\ t \in Pdf /\ t \notin Entries(pageWaiting) /\ t \notin Entries(tesseract)
  BY <1>1, <1>2 DEF Placed
<1>4. /\ ap \subseteq PageTask /\ IsFiniteSet(ap) /\ Cardinality(ap) <= PageSlots
      /\ aa \subseteq AiTask /\ IsFiniteSet(aa) /\ Cardinality(aa) <= AiSlots
  <2>1. ap \subseteq pageActive /\ aa \subseteq aiActive
    OBVIOUS
  <2> QED
    BY <1>1, <2>1, FewerHeld
<1>5. Placed(pageWaiting, ap, tesseract, aiWaiting, aa)
  <2>1. ASSUME NEW u \in PageTask
        PROVE  ReadTask(u) \in Entries(aiWaiting) \cup aa <=> u \in ap /\ u \in Pdf
    <3>1. ReadTask(u) \in Entries(aiWaiting) \cup aiActive <=> u \in pageActive /\ u \in Pdf
      BY <1>1 DEF Placed
    <3>2. u # t => ReadTask(u) # ReadTask(t)
      BY ReadTasks
    <3>3. ReadTask(t) \notin Entries(aiWaiting)
      BY <1>1, <1>2 DEF Placed
    <3> QED
      BY <3>1, <3>2, <3>3
  <2>2. \A u \in PageTask : u \in Entries(tesseract) <=> u \in ap /\ u \notin Pdf
    BY <1>1, <1>3 DEF Placed
  <2> QED
    BY <1>1, <1>4, <2>1, <2>2 DEF Placed
<1>6. ScheduleTask(pageWaiting, ap, tesseract, aiWaiting, aa) /\ extraction' = extraction
  BY DEF PdfReadEnds, Freed
<1>7. PageTypes'
  <2>1. read' \in [PageTask -> {"none", "pending", "read", "failed"}]
    BY <1>1 DEF PageTypes, PdfReadEnds
  <2> QED
    BY <1>1, <1>6, <2>1 DEF PageTypes
<1>8. \A u \in PageTask : u # t => read'[u] = read[u]
  BY <1>1 DEF PdfReadEnds, PageTypes
<1>9. read[t] = "pending" /\ read'[t] # "pending"
  BY <1>1, <1>3 DEF PdfReadEnds, PageTypes, PendingIn
<1>10. NothingAsked'
  BY <1>1, <1>6, <1>8, <1>9 DEF NothingAsked
<1>11. \A u \in PageTask : read'[u] = "pending" <=> u \in Entries(pageWaiting) \cup ap
  BY <1>1, <1>3, <1>8, <1>9 DEF PendingIn
<1>12. \A s \in Requests : extraction'[s].aborted =>
         (\A u \in Entries(pageWaiting) : u[1] # s) /\ (\A q \in Entries(aiWaiting) : q[1] # s)
  BY <1>1, <1>6 DEF NotQueued
<1> HIDE DEF ap, aa
<1> QED
  BY <1>5, <1>6, <1>7, <1>10, <1>11, <1>12, ScheduledInvariance

LEMMA VerifyNextKeeps ==
  ASSUME QueuesInv, NEW r \in Requests, VerifyNext(r)
  PROVE  QueuesInv'
<1> DEFINE task == <<r, NextPage(r), "verify">>
           wa   == Append(aiWaiting, task)
<1>1. /\ Placed(pageWaiting, pageActive, tesseract, aiWaiting, aiActive)
      /\ PendingIn(Entries(pageWaiting), pageActive) /\ NotQueued(Entries(pageWaiting), Entries(aiWaiting))
      /\ PageTypes /\ NothingAsked
  BY DEF QueuesInv
<1>2. task \in AiTask /\ task[1] = r /\ task[3] = "verify"
  <2>1. extraction[r].verified \in 0 .. PageCount - 1
    BY <1>1 DEF PageTypes
  <2>2. NextPage(r) \in 1 .. PageCount
    BY <2>1, QueueAssumption DEF NextPage
  <2> QED
    BY <2>2 DEF AiTask, Page
<1>3. task \notin Entries(aiWaiting) \cup aiActive
  BY <1>2 DEF VerifyNext, Verifying
<1>4. \A t \in PageTask : ReadTask(t) # task
  BY <1>2, ReadTasks
<1>5. ScheduleTask(pageWaiting, pageActive, tesseract, wa, aiActive) /\ extraction' = extraction /\ read' = read
  BY DEF VerifyNext
<1> HIDE DEF task
<1>6. wa \in Seq(AiTask) /\ Entries(wa) = Entries(aiWaiting) \cup {task} /\ Once(wa)
  BY <1>1, <1>2, <1>3, AppendedEntries DEF Placed
<1> HIDE DEF wa
<1>7. Placed(pageWaiting, pageActive, tesseract, wa, aiActive)
  BY <1>1, <1>3, <1>4, <1>6 DEF Placed
<1>8. PageTypes' /\ NothingAsked'
  BY <1>1, <1>5 DEF PageTypes, NothingAsked
<1>9. ~extraction[r].aborted
  BY DEF VerifyNext, Aborted
<1>10. \A s \in Requests : extraction'[s].aborted =>
         (\A t \in Entries(pageWaiting) : t[1] # s) /\ (\A q \in Entries(wa) : q[1] # s)
  BY <1>1, <1>2, <1>5, <1>6, <1>9 DEF NotQueued
<1>11. \A t \in PageTask : read'[t] = "pending" <=> t \in Entries(pageWaiting) \cup pageActive
  BY <1>1, <1>5 DEF PendingIn
<1> QED
  BY <1>5, <1>7, <1>8, <1>10, <1>11, ScheduledInvariance

LEMMA VerifyEndsKeeps ==
  ASSUME QueuesInv, NEW r \in Requests, NEW ok \in BOOLEAN, VerifyEnds(r, ok)
  PROVE  QueuesInv'
<1> DEFINE task == <<r, NextPage(r), "verify">>
           aa   == aiActive \ {task}
<1>1. /\ Placed(pageWaiting, pageActive, tesseract, aiWaiting, aiActive)
      /\ PendingIn(Entries(pageWaiting), pageActive) /\ NotQueued(Entries(pageWaiting), Entries(aiWaiting))
      /\ PageTypes /\ NothingAsked
  BY DEF QueuesInv
<1>2. task[3] = "verify" /\ ScheduleTask(pageWaiting, pageActive, tesseract, aiWaiting, aa) /\ read' = read
  BY DEF VerifyEnds
<1>3. \A t \in PageTask : ReadTask(t) # task
  BY <1>2, ReadTasks
<1> HIDE DEF task
<1>4. aa \subseteq AiTask /\ IsFiniteSet(aa) /\ Cardinality(aa) <= AiSlots
  <2>1. aa \subseteq aiActive /\ pageActive \subseteq pageActive
    OBVIOUS
  <2> QED
    BY <1>1, <2>1, FewerHeld
<1>5. Placed(pageWaiting, pageActive, tesseract, aiWaiting, aa)
  BY <1>1, <1>3, <1>4 DEF Placed
<1>6. extraction[r] \in [status : {"none", "running", "ok", "failed", "timeout"}, verify : BOOLEAN,
                         aborted : BOOLEAN, verified : 0 .. PageCount - 1]
  BY <1>1 DEF PageTypes
<1>7. PICK st \in {"none", "running", "ok", "failed", "timeout"}, v \in 0 .. PageCount - 1 :
        /\ extraction' = [extraction EXCEPT ![r].status = st, ![r].verified = v]
        /\ st = "none" <=> extraction[r].status = "none"
  <2> DEFINE st == IF extraction[r].status # "running" THEN extraction[r].status
                   ELSE IF ~ok THEN "failed"
                   ELSE IF LastPage(r) THEN "ok" ELSE extraction[r].status
             v  == IF ok /\ ~LastPage(r) THEN extraction[r].verified + 1 ELSE extraction[r].verified
  <2>1. extraction' = [extraction EXCEPT ![r].status = st, ![r].verified = v]
    BY DEF VerifyEnds
  <2>2. st \in {"none", "running", "ok", "failed", "timeout"} /\ (st = "none" <=> extraction[r].status = "none")
    BY <1>6
  <2>3. v \in 0 .. PageCount - 1
    <3>1. extraction[r].verified \in 0 .. PageCount - 1
      BY <1>6
    <3> QED
      BY <3>1, QueueAssumption DEF LastPage, NextPage
  <2> QED
    BY <2>1, <2>2, <2>3
<1>8. /\ extraction' \in [Requests -> [status : {"none", "running", "ok", "failed", "timeout"},
                                       verify : BOOLEAN, aborted : BOOLEAN, verified : 0 .. PageCount - 1]]
      /\ \A s \in Requests : /\ extraction'[s].aborted = extraction[s].aborted
                             /\ extraction'[s].status = "none" <=> extraction[s].status = "none"
  <2> DEFINE answer == [extraction[r] EXCEPT !.status = st, !.verified = v]
  <2>1. /\ answer \in [status : {"none", "running", "ok", "failed", "timeout"},
                       verify : BOOLEAN, aborted : BOOLEAN, verified : 0 .. PageCount - 1]
        /\ answer.aborted = extraction[r].aborted /\ answer.status = st
    BY <1>6
  <2>2. extraction' = [extraction EXCEPT ![r] = answer]
    BY <1>7
  <2> HIDE DEF answer
  <2>3. extraction' \in [Requests -> [status : {"none", "running", "ok", "failed", "timeout"},
                                       verify : BOOLEAN, aborted : BOOLEAN, verified : 0 .. PageCount - 1]]
    BY <1>1, <2>1, <2>2 DEF PageTypes
  <2>4. extraction'[r] = answer /\ \A s \in Requests \ {r} : extraction'[s] = extraction[s]
    BY <1>1, <2>2 DEF PageTypes
  <2> QED
    BY <1>7, <2>1, <2>3, <2>4
<1>9. PageTypes' /\ NothingAsked'
  BY <1>1, <1>2, <1>8, TaskPairs DEF PageTypes, NothingAsked
<1>10. \A s \in Requests : extraction'[s].aborted =>
         (\A t \in Entries(pageWaiting) : t[1] # s) /\ (\A q \in Entries(aiWaiting) : q[1] # s)
  BY <1>1, <1>8 DEF NotQueued
<1>11. \A t \in PageTask : read'[t] = "pending" <=> t \in Entries(pageWaiting) \cup pageActive
  BY <1>1, <1>2 DEF PendingIn
<1> HIDE DEF aa
<1> QED
  BY <1>2, <1>5, <1>9, <1>10, <1>11, ScheduledInvariance

LEMMA WithdrawalKeeps ==
  ASSUME QueuesInv, NEW r \in Requests, NEW status \in {"running", "timeout"}, Running(r),
         AbortExtraction(r, status)
  PROVE  QueuesInv'
<1> DEFINE wp   == Withdrawn(pageWaiting, r)
           wa   == Withdrawn(aiWaiting, r)
           gone == {q \in Entries(aiWaiting) : q[1] = r /\ q \notin Entries(wa)}
           pdfs == {<<q[1], q[2]>> : q \in {a \in gone : a[3] = "read"}}
           lost == pdfs \cup {t \in Entries(pageWaiting) : t[1] = r}
           ap   == pageActive \ pdfs
<1>1. /\ Placed(pageWaiting, pageActive, tesseract, aiWaiting, aiActive)
      /\ PendingIn(Entries(pageWaiting), pageActive) /\ NotQueued(Entries(pageWaiting), Entries(aiWaiting))
      /\ PageTypes /\ NothingAsked
  BY DEF QueuesInv
<1>2. /\ wp \in Seq(PageTask) /\ Once(wp) /\ Entries(wp) = {t \in Entries(pageWaiting) : t[1] # r}
      /\ wa \in Seq(AiTask) /\ Once(wa) /\ Entries(wa) = {q \in Entries(aiWaiting) : q[1] # r}
  <2>1. /\ wp \in Seq(PageTask) /\ Once(wp)
        /\ Entries(wp) = Entries(pageWaiting) \cap {t \in Entries(pageWaiting) : t[1] # r}
    BY <1>1, AmongEntries DEF Placed, Withdrawn
  <2>2. /\ wa \in Seq(AiTask) /\ Once(wa)
        /\ Entries(wa) = Entries(aiWaiting) \cap {q \in Entries(aiWaiting) : q[1] # r}
    BY <1>1, AmongEntries DEF Placed, Withdrawn
  <2> QED
    BY <2>1, <2>2
<1>3. /\ extraction' = [extraction EXCEPT ![r].status = status, ![r].aborted = TRUE]
      /\ read' = [t \in PageTask |-> IF t \in lost THEN "failed" ELSE read[t]]
      /\ ScheduleTask(wp, ap, tesseract, wa, aiActive)
  BY DEF AbortExtraction
<1> HIDE DEF wp, wa
<1>4. Entries(aiWaiting) \subseteq AiTask /\ Entries(pageWaiting) \subseteq PageTask
  BY <1>1, EntriesOf DEF Placed
<1>5. \A t \in PageTask : t \in pdfs <=> t[1] = r /\ ReadTask(t) \in Entries(aiWaiting)
  <2> SUFFICES ASSUME NEW t \in PageTask PROVE t \in pdfs <=> t[1] = r /\ ReadTask(t) \in Entries(aiWaiting)
    OBVIOUS
  <2>1. gone = {q \in Entries(aiWaiting) : q[1] = r}
    BY <1>2
  <2>2. ASSUME NEW q \in gone, q[3] = "read" PROVE q = ReadTask(<<q[1], q[2]>>) /\ <<q[1], q[2]>> \in PageTask /\ q[1] = r
    BY <1>4, <2>1, <2>2, AiTasks
  <2>3. ASSUME t[1] = r, ReadTask(t) \in Entries(aiWaiting) PROVE t \in pdfs
    <3>1. ReadTask(t) \in gone /\ ReadTask(t)[3] = "read"
      BY <2>1, <2>3, ReadTasks
    <3>2. t = <<ReadTask(t)[1], ReadTask(t)[2]>>
      BY TaskPairs DEF ReadTask
    <3> QED
      BY <3>1, <3>2
  <2>4. ASSUME t \in pdfs PROVE t[1] = r /\ ReadTask(t) \in Entries(aiWaiting)
    <3>1. PICK q \in gone : q[3] = "read" /\ t = <<q[1], q[2]>>
      BY <2>4
    <3>2. q = ReadTask(t) /\ t[1] = r
      BY <2>2, <3>1
    <3> QED
      BY <2>1, <3>1, <3>2
  <2> QED
    BY <2>3, <2>4
<1> HIDE DEF gone, pdfs
<1>6. /\ ap \subseteq PageTask /\ IsFiniteSet(ap) /\ Cardinality(ap) <= PageSlots
  <2>1. ap \subseteq pageActive /\ aiActive \subseteq aiActive
    OBVIOUS
  <2> QED
    BY <1>1, <2>1, FewerHeld
<1>7. ap \cap Entries(wp) = {} /\ aiActive \cap Entries(wa) = {}
  BY <1>1, <1>2 DEF Placed
<1>8. ASSUME NEW t \in PageTask
      PROVE  /\ t \in Entries(tesseract) <=> t \in ap /\ t \notin Pdf
             /\ ReadTask(t) \in Entries(wa) \cup aiActive <=> t \in ap /\ t \in Pdf
  <2>1. /\ t \in Entries(tesseract) <=> t \in pageActive /\ t \notin Pdf
        /\ ReadTask(t) \in Entries(aiWaiting) \cup aiActive <=> t \in pageActive /\ t \in Pdf
        /\ aiActive \cap Entries(aiWaiting) = {}
    BY <1>1 DEF Placed
  <2>2. t \in pdfs <=> t[1] = r /\ ReadTask(t) \in Entries(aiWaiting)
    BY <1>5
  <2>3. ReadTask(t) \in Entries(wa) <=> ReadTask(t) \in Entries(aiWaiting) /\ t[1] # r
    BY <1>2, ReadTasks
  <2> QED
    BY <2>1, <2>2, <2>3
<1>9. Placed(wp, ap, tesseract, wa, aiActive)
  BY <1>1, <1>2, <1>6, <1>7, <1>8 DEF Placed
<1>10. \A t \in PageTask : read'[t] = "pending" <=> t \in Entries(wp) \cup ap
  <2> SUFFICES ASSUME NEW t \in PageTask PROVE read'[t] = "pending" <=> t \in Entries(wp) \cup ap
    OBVIOUS
  <2>1. t \in pdfs => t \in pageActive /\ t \notin Entries(pageWaiting)
    BY <1>1, <1>5 DEF Placed
  <2>2. read'[t] = (IF t \in lost THEN "failed" ELSE read[t])
    BY <1>3
  <2>3. read[t] = "pending" <=> t \in Entries(pageWaiting) \cup pageActive
    BY <1>1 DEF PendingIn
  <2>4. pageActive \cap Entries(pageWaiting) = {}
    BY <1>1 DEF Placed
  <2> QED
    BY <1>2, <2>1, <2>2, <2>3, <2>4
<1> HIDE DEF lost, ap
<1>11. PageTypes'
  <2>1. read' \in [PageTask -> {"none", "pending", "read", "failed"}]
    BY <1>1, <1>3 DEF PageTypes
  <2> DEFINE answer == [extraction[r] EXCEPT !.status = status, !.aborted = TRUE]
  <2>2. answer \in [status : {"none", "running", "ok", "failed", "timeout"},
                    verify : BOOLEAN, aborted : BOOLEAN, verified : 0 .. PageCount - 1]
    BY <1>1 DEF PageTypes
  <2>3. extraction' = [extraction EXCEPT ![r] = answer]
    BY <1>3
  <2> HIDE DEF answer
  <2>4. extraction' \in [Requests -> [status : {"none", "running", "ok", "failed", "timeout"},
                                       verify : BOOLEAN, aborted : BOOLEAN, verified : 0 .. PageCount - 1]]
    BY <1>1, <2>2, <2>3 DEF PageTypes
  <2> QED
    BY <2>1, <2>4 DEF PageTypes
<1>12. \A s \in Requests : /\ s # r => extraction'[s] = extraction[s]
                           /\ s = r => extraction'[s].status # "none"
  BY <1>1, <1>3 DEF PageTypes
<1>13. NothingAsked'
  <2> SUFFICES ASSUME NEW t \in PageTask, extraction'[t[1]].status = "none" PROVE read'[t] = "none"
    BY DEF NothingAsked
  <2>1. t[1] \in Requests /\ t[1] # r
    BY <1>12, TaskPairs
  <2>2. read[t] = "none"
    BY <1>1, <1>12, <2>1 DEF NothingAsked
  <2>3. t \notin lost
    BY <1>5, <2>1 DEF lost
  <2> QED
    BY <1>3, <2>2, <2>3
<1>14. \A s \in Requests : extraction'[s].aborted =>
         (\A t \in Entries(wp) : t[1] # s) /\ (\A q \in Entries(wa) : q[1] # s)
  BY <1>1, <1>2, <1>12 DEF NotQueued
<1> QED
  BY <1>3, <1>9, <1>10, <1>11, <1>13, <1>14, ScheduledInvariance

\* What changes a request and no queue.
LEMMA QueuesUntouched ==
  ASSUME QueuesInv, PageTypes', NothingAsked',
         UNCHANGED <<pageWaiting, pageActive, tesseract, aiWaiting, aiActive>>,
         \A t \in PageTask : read'[t] = "pending" <=> read[t] = "pending",
         \A r \in Requests : extraction'[r].aborted => extraction[r].aborted
  PROVE  QueuesInv'
<1>1. /\ Entries(pageWaiting)' = Entries(pageWaiting) /\ Entries(aiWaiting)' = Entries(aiWaiting)
      /\ Entries(tesseract)' = Entries(tesseract)
  BY DEF Entries
<1>2. Placed(pageWaiting, pageActive, tesseract, aiWaiting, aiActive)' /\ NoIdlePageSlot'
  BY DEF QueuesInv, NoIdlePageSlot
<1>3. PendingIn(Entries(pageWaiting), pageActive)' /\ NotQueued(Entries(pageWaiting), Entries(aiWaiting))'
  BY <1>1 DEF QueuesInv, PendingIn, NotQueued
<1> QED
  BY <1>2, <1>3 DEF QueuesInv

LEMMA SettlesKeep ==
  ASSUME QueuesInv, NEW r \in Requests,
         \/ ExtractionFails(r) \/ ExtractionReads(r) \/ Answered(r)
  PROVE  QueuesInv'
<1>1. PageTypes /\ NothingAsked /\ PendingIn(Entries(pageWaiting), pageActive)
  BY DEF QueuesInv
<1>2. CASE ExtractionFails(r) \/ ExtractionReads(r)
  <2>1. PICK status \in {"ok", "failed"} : Settle(r, status)
    BY <1>2 DEF ExtractionFails, ExtractionReads
  <2>2. /\ read' = read /\ UNCHANGED <<pageWaiting, pageActive, tesseract, aiWaiting, aiActive>>
    BY <1>2 DEF ExtractionFails, ExtractionReads
  <2>3. /\ extraction' \in [Requests -> [status : {"none", "running", "ok", "failed", "timeout"},
                                         verify : BOOLEAN, aborted : BOOLEAN, verified : 0 .. PageCount - 1]]
        /\ \A s \in Requests : /\ extraction'[s].aborted = extraction[s].aborted
                               /\ extraction'[s].status = "none" => extraction[s].status = "none"
    BY <1>1, <2>1 DEF PageTypes, Settle
  <2>4. PageTypes' /\ NothingAsked'
    BY <1>1, <2>2, <2>3, TaskPairs DEF PageTypes, NothingAsked
  <2> QED
    BY <2>2, <2>3, <2>4, QueuesUntouched
<1>3. CASE Answered(r)
  <2>1. /\ extraction' = [extraction EXCEPT ![r] = NoExtraction] /\ ~HasTask(r)
        /\ read' = [t \in PageTask |-> IF t[1] = r THEN "none" ELSE read[t]]
        /\ UNCHANGED <<pageWaiting, pageActive, tesseract, aiWaiting, aiActive>>
    BY <1>3 DEF Answered
  <2>2. NoExtraction \in [status : {"none", "running", "ok", "failed", "timeout"}, verify : BOOLEAN,
                          aborted : BOOLEAN, verified : 0 .. PageCount - 1]
    <3>1. 0 \in 0 .. PageCount - 1
      BY QueueAssumption
    <3> QED
      BY <3>1 DEF NoExtraction
  <2>3. /\ extraction' \in [Requests -> [status : {"none", "running", "ok", "failed", "timeout"},
                                         verify : BOOLEAN, aborted : BOOLEAN, verified : 0 .. PageCount - 1]]
        /\ \A s \in Requests : s # r => extraction'[s] = extraction[s]
        /\ extraction'[r] = NoExtraction
    BY <1>1, <2>1, <2>2 DEF PageTypes
  <2>4. read' \in [PageTask -> {"none", "pending", "read", "failed"}]
    BY <1>1, <2>1 DEF PageTypes
  <2>5. NothingAsked'
    BY <1>1, <2>1, <2>3, TaskPairs DEF NothingAsked
  <2>6. ASSUME NEW t \in PageTask PROVE read'[t] = "pending" <=> read[t] = "pending"
    <3>1. t[1] = r => read[t] # "pending"
      BY <2>1, TaskPairs DEF HasTask
    <3> QED
      BY <2>1, <3>1
  <2>7. \A s \in Requests : extraction'[s].aborted => extraction[s].aborted
    BY <2>3 DEF NoExtraction
  <2>8. PageTypes'
    BY <2>3, <2>4 DEF PageTypes
  <2> QED
    BY <2>1, <2>5, <2>6, <2>7, <2>8, QueuesUntouched
<1> QED
  BY <1>2, <1>3

LEMMA QueuesInvariance == QueuesInv /\ [PageQueueNext]_pageQueueVars => QueuesInv'
<1> SUFFICES ASSUME QueuesInv, [PageQueueNext]_pageQueueVars PROVE QueuesInv'
  OBVIOUS
<1>1. CASE UNCHANGED pageQueueVars
  <2>1. PageTypes' /\ NothingAsked'
    BY <1>1 DEF QueuesInv, PageTypes, NothingAsked, pageQueueVars
  <2> QED
    BY <1>1, <2>1, QueuesUntouched DEF pageQueueVars
<1>2. ASSUME NEW r \in Requests, NEW verify \in BOOLEAN, Extract(r, verify) PROVE QueuesInv'
  BY <1>2, ExtractKeeps
<1>3. ASSUME NEW r \in Requests, Deadline(r) PROVE QueuesInv'
  BY <1>3, WithdrawalKeeps DEF Deadline
<1>4. ASSUME NEW r \in Requests, ClientCloses(r) PROVE QueuesInv'
  BY <1>4, WithdrawalKeeps DEF ClientCloses
<1>5. ASSUME NEW r \in Requests, Answered(r) PROVE QueuesInv'
  BY <1>5, SettlesKeep
<1>6. ASSUME NEW r \in Requests, RequestGoesOn(r) PROVE QueuesInv'
  BY <1>6, VerifyNextKeeps, SettlesKeep DEF RequestGoesOn
<1>7. ASSUME NEW r \in Requests, NEW ok \in BOOLEAN, VerifyEnds(r, ok) PROVE QueuesInv'
  BY <1>7, VerifyEndsKeeps
<1>8. ASSUME NEW r \in Requests, NEW p \in Page, PageTaskEnds(<<r, p>>) PROVE QueuesInv'
  <2>1. <<r, p>> \in PageTask
    BY TaskPairs
  <2> QED
    BY <1>8, <2>1, OcrEndsKeeps, PdfReadEndsKeeps DEF PageTaskEnds
<1> QED
  BY <1>1, <1>2, <1>3, <1>4, <1>5, <1>6, <1>7, <1>8 DEF PageQueueNext, RequestStep

\* For any requests, pages, PDF files and numbers of slots, whichever way the tasks end and
\* whenever requests time out or are closed: no slot of ReceiptPageTaskQueue stays free while a
\* task waits for it, a page is pending exactly as long as it waits or holds a slot, and an
\* aborted request stands in no queue.
THEOREM PageQueuesAreSound == PageQueueSpec => []PageQueuesSound
<1>1. PageQueueInit => QueuesInv
  BY QueuesStart
<1>2. QueuesInv /\ [PageQueueNext]_pageQueueVars => QueuesInv'
  BY QueuesInvariance
<1>3. QueuesInv => PageQueuesSound
  BY QueuesAreSound
<1> QED
  BY <1>1, <1>2, <1>3, PTL DEF PageQueueSpec

--------------------------------------------------------------------------------
(* Backups and the staged restore.                                         *)

\* The database holds what it must until its WAL is dropped; then the new one takes its place.
\* A start that finds a marker has looked for the backup the marker names.
Staged ==
  /\ process \in {"up", "down", "check", "copied", "open"} => FileContent = lineage
  /\ process \in {"dropped", "replaced"} => walFile = {}
  /\ process = "replaced" => mainFile.rows = {} /\ lineage = {}
  /\ process \in {"copied", "dropped"} => marker.pre \in DOMAIN backups
  /\ process = "open" => marker = NoMarker

\* Closing the database empties its WAL: only after a crash is there one for a start to drop.
OneCrash ==
  /\ process \in {"down", "check", "copied"} /\ walFile # {} => crashed > 0
  /\ process = "dropped" => mainFile.rows = lineage \/ crashed > 0

\* What the files hold is writes, and no more of them than the bounds allow.
LEMMA BackupBegins == BackupInit => BackupTypeOK
BY BackupAssumption DEF BackupInit, BackupTypeOK

\* Every step keeps them so.
LEMMA BackupStepTyped == ASSUME BackupTypeOK, [BackupNext]_backupVars PROVE BackupTypeOK'
<1> USE BackupAssumption
<1>0. FileContent \subseteq DatabaseWrite
  BY DEF BackupTypeOK, FileContent
<1>1. CASE UNCHANGED backupVars
  BY <1>1 DEF BackupTypeOK, backupVars
<1>2. CASE CommitWrite
  <2>1. written + 1 \in DatabaseWrite /\ written + 1 \in 0 .. MaxWrites
    BY <1>2 DEF BackupTypeOK, CommitWrite, DatabaseWrite
  <2> QED
    BY <1>2, <2>1 DEF BackupTypeOK, CommitWrite
<1>3. ASSUME Checkpoint PROVE mainFile' \in [rows : SUBSET DatabaseWrite, current : BOOLEAN] /\ walFile' \subseteq DatabaseWrite
  BY <1>0, <1>3 DEF BackupTypeOK, Checkpoint
<1>4. CASE AutoCheckpoint
  BY <1>3, <1>4 DEF BackupTypeOK, AutoCheckpoint
<1>5. ASSUME MakeBackup
      PROVE  /\ DOMAIN backups' \subseteq Name /\ \A n \in DOMAIN backups' : backups'[n] \subseteq DatabaseWrite
             /\ named' \in 0 .. MaxNames /\ named + 1 \in Name
             /\ mainFile' \in [rows : SUBSET DatabaseWrite, current : BOOLEAN] /\ walFile' \subseteq DatabaseWrite
  <2>1. named + 1 \in Name /\ named' \in 0 .. MaxNames
    BY <1>5 DEF BackupTypeOK, MakeBackup, Name
  <2>2. DOMAIN backups' = Newest(DOMAIN backups) \cup {named + 1}
        /\ \A n \in DOMAIN backups' : backups'[n] = IF n = named + 1 THEN FileContent ELSE backups[n]
    BY <1>5 DEF MakeBackup
  <2>3. Newest(DOMAIN backups) \subseteq DOMAIN backups
    BY DEF Newest
  <2> QED
    BY <1>0, <1>3, <1>5, <2>1, <2>2, <2>3 DEF BackupTypeOK, MakeBackup
<1>6. CASE CreateBackup
  BY <1>5, <1>6 DEF BackupTypeOK, CreateBackup
<1>7. ASSUME NEW i \in Imports, ImportBackup(i) PROVE BackupTypeOK'
  BY <1>7 DEF BackupTypeOK, ImportBackup
<1>8. ASSUME NEW i \in Imports, StageRestore(i) PROVE BackupTypeOK'
  <2>1. staging' \in [import : Imports, pre : Name]
    BY <1>5, <1>8 DEF StageRestore
  <2> QED
    BY <1>5, <1>8, <2>1 DEF BackupTypeOK, StageRestore
<1>9. CASE WriteMarker
  BY <1>9 DEF BackupTypeOK, WriteMarker
<1>10. CASE CleanShutdown
  BY <1>3, <1>10 DEF BackupTypeOK, CleanShutdown
<1>11. CASE Crash
  <2>1. crashed' \in 0 .. MaxCrashes
    BY <1>11 DEF BackupTypeOK, Crash
  <2> QED
    BY <1>11, <2>1 DEF BackupTypeOK, Crash
<1>12. CASE Start \/ RestoreFails \/ CopyImport \/ RestoreApplied
  BY <1>12 DEF BackupTypeOK, Start, RestoreFails, CopyImport, RestoreApplied, StartUp, SetMarkerAside, ClearMarker
<1>13. CASE DropWal
  BY <1>13 DEF BackupTypeOK, DropWal, StartUp, RemoveWal
<1>14. CASE ReplaceDatabase
  BY <1>14 DEF BackupTypeOK, ReplaceDatabase, StartUp
<1>15. CASE OpenDatabase
  <2>1. /\ process' = "up" /\ UNCHANGED <<imported, backups, marker, staging, written, named, crashed, lineage>>
        /\ \/ UNCHANGED <<mainFile, walFile, migrated>>
           \/ /\ migrated' = migrated \cup {FileContent} /\ walFile' = {}
              /\ mainFile' = [rows |-> FileContent, current |-> TRUE]
    BY <1>15 DEF OpenDatabase, StartUp, PreMigrationBackup
  <2>2. /\ mainFile' \in [rows : SUBSET DatabaseWrite, current : BOOLEAN] /\ walFile' \subseteq DatabaseWrite
        /\ migrated' \subseteq SUBSET DatabaseWrite
    <3>1. [rows |-> FileContent, current |-> TRUE] \in [rows : SUBSET DatabaseWrite, current : BOOLEAN]
      BY <1>0
    <3>2. CASE UNCHANGED <<mainFile, walFile, migrated>>
      BY <3>2 DEF BackupTypeOK
    <3>3. CASE migrated' = migrated \cup {FileContent} /\ walFile' = {} /\ mainFile' = [rows |-> FileContent, current |-> TRUE]
      BY <1>0, <3>1, <3>3 DEF BackupTypeOK
    <3> QED
      BY <2>1, <3>2, <3>3
  <2> QED
    BY <2>1, <2>2 DEF BackupTypeOK
<1> QED
  BY <1>1, <1>2, <1>4, <1>6, <1>7, <1>8, <1>9, <1>10, <1>11, <1>12, <1>13, <1>14, <1>15 DEF BackupNext, StartUpStep

LEMMA BackupTypes == BackupSpec => []BackupTypeOK
BY BackupBegins, BackupStepTyped, PTL DEF BackupSpec

\* Every way of moving the writes between the files keeps them.
LEMMA CheckpointKeeps ==
  ASSUME BackupTypeOK, Checkpoint
  PROVE  FileContent' = FileContent /\ walFile' = {} /\ mainFile'.rows = FileContent
<1> QED
  BY DEF BackupTypeOK, Checkpoint, FileContent

\* The start finds, in every step, what the step before left for it.
LEMMA StagedStep ==
  ASSUME BackupTypeOK, Staged, [BackupNext]_backupVars, process # "dropped" \/ ~Crash \/ mainFile.rows = lineage
  PROVE  Staged'
<1>1. CASE UNCHANGED backupVars
  BY <1>1 DEF Staged, backupVars, FileContent
<1>2. CASE CommitWrite
  <2>1. FileContent' = FileContent \cup {written + 1} /\ lineage' = lineage \cup {written + 1} /\ process = "up" /\ process' = "up"
    BY <1>2 DEF CommitWrite, FileContent
  <2> QED
    BY <2>1 DEF Staged
<1>3. CASE AutoCheckpoint \/ CreateBackup \/ \E i \in Imports : StageRestore(i)
  <2>1. process = "up" /\ process' = "up" /\ lineage' = lineage /\ Checkpoint
    BY <1>3 DEF AutoCheckpoint, CreateBackup, StageRestore, MakeBackup
  <2> QED
    BY <2>1, CheckpointKeeps DEF Staged
<1>4. CASE (\E i \in Imports : ImportBackup(i)) \/ WriteMarker
  BY <1>4 DEF ImportBackup, WriteMarker, Staged, FileContent
<1>5. CASE CleanShutdown
  <2>1. process = "up" /\ process' = "down" /\ lineage' = lineage /\ Checkpoint
    BY <1>5 DEF CleanShutdown
  <2> QED
    BY <2>1, CheckpointKeeps DEF Staged
<1>6. CASE Crash
  <2>1. process' = "down" /\ UNCHANGED <<mainFile, walFile, lineage, marker, backups>>
    BY <1>6 DEF Crash
  <2>2. FileContent = lineage
    BY <1>6 DEF Staged, FileContent, BackupTypeOK
  <2> QED
    BY <2>1, <2>2 DEF Staged, FileContent
<1>7. CASE Start \/ RestoreFails \/ CopyImport
  BY <1>7 DEF Start, RestoreFails, CopyImport, StartUp, SetMarkerAside, PreRestoreExists, Staged, FileContent
<1>8. CASE DropWal \/ ReplaceDatabase \/ RestoreApplied
  BY <1>8 DEF DropWal, ReplaceDatabase, RestoreApplied, StartUp, RemoveWal, ClearMarker, Staged, FileContent
<1>9. CASE OpenDatabase
  <2>1. process = "open" /\ process' = "up" /\ lineage' = lineage
    BY <1>9 DEF OpenDatabase, StartUp
  <2>2. FileContent' = FileContent
    BY <1>9 DEF OpenDatabase, FileContent
  <2> QED
    BY <2>1, <2>2 DEF Staged
<1> QED
  BY <1>1, <1>2, <1>3, <1>4, <1>5, <1>6, <1>7, <1>8, <1>9 DEF BackupNext, StartUpStep

\* RestoreSound, when the process dies no more than once: a server that is up has every write
\* it has acknowledged, and a marker does not outlive the start that finds it. A process that
\* dies before a restore and again during it, between the removal of the WAL and the
\* replacement of the file, loses what was in the WAL only.
THEOREM RestoreIsSound ==
  ASSUME MaxCrashes <= 1
  PROVE  BackupSpec => []RestoreSound
<1>1. BackupInit => Staged /\ OneCrash
  BY DEF BackupInit, Staged, OneCrash, FileContent
<1>2. ASSUME BackupTypeOK, Staged, OneCrash, [BackupNext]_backupVars PROVE Staged'
  <2>1. Crash => crashed = 0
    BY <1>2, BackupAssumption DEF Crash, BackupTypeOK
  <2> QED
    BY <1>2, <2>1, StagedStep DEF OneCrash
<1>3. ASSUME BackupTypeOK, Staged, OneCrash, [BackupNext]_backupVars PROVE OneCrash'
  <2>0. crashed \in Nat
    BY <1>3, BackupAssumption DEF BackupTypeOK
  <2>1. CASE UNCHANGED backupVars
    BY <1>3, <2>1 DEF OneCrash, backupVars
  <2>2. CASE CommitWrite \/ AutoCheckpoint \/ CreateBackup \/ (\E i \in Imports : ImportBackup(i) \/ StageRestore(i)) \/ WriteMarker
    BY <2>2 DEF CommitWrite, AutoCheckpoint, CreateBackup, ImportBackup, StageRestore, WriteMarker, OneCrash
  <2>3. CASE CleanShutdown
    BY <2>3 DEF CleanShutdown, Checkpoint, OneCrash
  <2>4. CASE Crash
    BY <2>0, <2>4 DEF Crash, OneCrash
  <2>5. CASE Start \/ RestoreFails \/ CopyImport
    BY <1>3, <2>5 DEF Start, RestoreFails, CopyImport, StartUp, OneCrash
  <2>6. CASE DropWal
    BY <1>3, <2>6 DEF DropWal, StartUp, OneCrash, Staged, FileContent
  <2>7. CASE ReplaceDatabase \/ RestoreApplied \/ OpenDatabase
    BY <2>7 DEF ReplaceDatabase, RestoreApplied, OpenDatabase, StartUp, OneCrash
  <2> QED
    BY <1>3, <2>1, <2>2, <2>3, <2>4, <2>5, <2>6, <2>7 DEF BackupNext, StartUpStep
<1>4. Staged => RestoreSound
  BY DEF Staged, RestoreSound, DatabaseIsWhole, RestoreAppliedOnce
<1> QED
  BY <1>1, <1>2, <1>3, <1>4, BackupTypes, PTL DEF BackupSpec

\* The same, however often the process dies, when it does not die in that one moment.
THEOREM RestoreIsSoundBut ==
  BackupSpec /\ [][process = "dropped" => ~Crash]_backupVars => []RestoreSound
<1>1. BackupInit => Staged
  BY DEF BackupInit, Staged, FileContent
<1>2. ASSUME BackupTypeOK, Staged, [BackupNext]_backupVars, [process = "dropped" => ~Crash]_backupVars PROVE Staged'
  <2>1. CASE UNCHANGED backupVars
    BY <1>2, <2>1 DEF Staged, backupVars, FileContent
  <2>2. CASE process = "dropped" => ~Crash
    BY <1>2, <2>2, StagedStep
  <2> QED
    BY <1>2, <2>1, <2>2
<1>3. Staged => RestoreSound
  BY DEF Staged, RestoreSound, DatabaseIsWhole, RestoreAppliedOnce
<1> QED
  BY <1>1, <1>2, <1>3, BackupTypes, PTL DEF BackupSpec

\* RestoreOverBackup, however often the process dies: the backup that was made before the
\* restore is still there when the database is replaced, and an old schema is raised over a
\* backup of what was found.
THEOREM RestoreHasBackup == BackupSpec => RestoreOverBackup
<1> DEFINE Kept == process \in {"copied", "dropped"} => marker.pre \in DOMAIN backups
           Guarded == /\ ReplaceDatabase => marker.pre \in DOMAIN backups
                      /\ OpenDatabase /\ ~mainFile.current => FileContent \in migrated'
<1>1. BackupInit => Kept
  BY DEF BackupInit
<1>2. ASSUME Kept, [BackupNext]_backupVars PROVE Kept'
  <2>1. CASE UNCHANGED backupVars
    BY <1>2, <2>1 DEF backupVars
  <2>2. CASE CommitWrite \/ AutoCheckpoint \/ CreateBackup \/ (\E i \in Imports : ImportBackup(i) \/ StageRestore(i)) \/ WriteMarker
    BY <2>2 DEF CommitWrite, AutoCheckpoint, CreateBackup, ImportBackup, StageRestore, WriteMarker
  <2>3. CASE CleanShutdown \/ Crash
    BY <2>3 DEF CleanShutdown, Crash
  <2>4. CASE Start \/ RestoreFails \/ ReplaceDatabase \/ RestoreApplied \/ OpenDatabase
    BY <2>4 DEF Start, RestoreFails, ReplaceDatabase, RestoreApplied, OpenDatabase, StartUp
  <2>5. CASE CopyImport \/ DropWal
    BY <1>2, <2>5 DEF CopyImport, DropWal, StartUp, PreRestoreExists
  <2> QED
    BY <1>2, <2>1, <2>2, <2>3, <2>4, <2>5 DEF BackupNext, StartUpStep
<1>3. ASSUME Kept, [BackupNext]_backupVars PROVE [Guarded]_backupVars
  BY <1>3 DEF ReplaceDatabase, StartUp, OpenDatabase, PreMigrationBackup
<1> HIDE DEF Kept
<1> QED
  BY <1>1, <1>2, <1>3, PTL DEF BackupSpec, RestoreOverBackup

--------------------------------------------------------------------------------
(* Calls to the AI provider.                                               *)

Identities == [base : Values("base"), model : Values("model"), key : Values("key")] \cup {NoIdentity}
Kinds      == {"none", "startup", "manual", "limits", "operation"}
Codes      == {"AI_ATTACHMENT_UPLOAD_FAILED", "AI_REQUEST_REJECTED", "AI_AUTHENTICATION_FAILED", "AI_TIMEOUT",
               "AI_ATTACHMENT_TOO_LARGE", "AI_RATE_LIMITED", "AI_PROVIDER_FAILED", "AI_UNREACHABLE", "AbortError",
               "AI_EMPTY_RESPONSE", "AI_PROBE_TEXT_MISMATCH", "AI_CAPABILITIES_UNAVAILABLE"}
Failures   == [kind : {"failure"}, code : Codes, retryable : BOOLEAN, unsafe : BOOLEAN]
Stated     == [kind : {"limits"}, from : Values("base"), limits : Snapshots]
Unstated   == [kind : {"not asked", "invalid", "missing", "denied", "busy", "lost"}]
Sendable   == Contents \cup {NoLimits, [NoLimits EXCEPT !.image = 1, !.count = 1]}
Records    == [status : Codes \cup {"ok", "AI_NOT_CONFIGURED"}, asked : BOOLEAN, aborted : BOOLEAN]

\* What a call is made of.
CallRow ==
  [phase : {"none", "ready", "capabilities", "request", "over"}, kind : Kinds, by : Identities, wanted : Identities,
   retries : Nat, attempt : Nat, cacheAs : Identities, content : Sendable, aborted : BOOLEAN, posts : Nat,
   afterUnsafe : Nat, unsafe : BOOLEAN, outcome : Codes \cup {"none", "ok", "AI_NOT_CONFIGURED", "RangeError"},
   limits : Stated \cup Unstated, refusal : BOOLEAN]

\* A call that is under way has been rejected by nobody and sent less often than it was begun;
\* the cache it looks at is that of the address it asks; what it sends fits what was stated.
CallSound(call) ==
  /\ call.afterUnsafe = 0 /\ call.posts <= call.retries + 1 /\ call.attempt <= call.retries + 1
  /\ call.refusal => call.outcome = "AI_AUTHENTICATION_FAILED"
  /\ call.phase \in {"ready", "capabilities", "request"} =>
       ~call.unsafe /\ ~call.refusal /\ call.by = call.wanted /\ call.by # NoIdentity /\ call.posts <= call.attempt
  /\ call.phase = "ready" => call.attempt <= call.retries
  /\ call.phase = "capabilities" =>
       /\ call.posts + 1 <= call.attempt
       /\ call.cacheAs # NoIdentity => call.cacheAs.base = call.by.base
  /\ call.phase = "request" =>
       /\ call.posts >= 1
       /\ call.limits.kind = "limits" =>
            call.limits.from = call.by.base /\ Fits(call.content, call.limits.limits)

\* The cache has a place for every provider that was ever saved.
CacheSound ==
  /\ capabilityCache \in [Values("base") \X Values("model") -> Stated \cup Unstated]
  /\ \A k \in Values("base") \X Values("model") : capabilityCache[k].kind = "limits" => capabilityCache[k].from = k[1]

AiInv ==
  /\ AiTypeOK /\ aiProvider \in Identities
  /\ aiCalls \in [AiCalls -> CallRow] /\ \A c \in AiCalls : CallSound(aiCalls[c])
  /\ CacheSound
  /\ probeRecords \in Seq(Records)
  /\ ChecksAreAnswers /\ HibernatesIdle

\* Settings stay settings whatever of them is saved.
LEMMA MergedSettings ==
  ASSUME NEW s \in Settings, NEW p \in Patches
  PROVE  MergeRuntimeSettings(s, p) \in Settings
<1> DEFINE t == MergeRuntimeSettings(s, p)
<1>1. DOMAIN s = {"base", "model", "key", "retries"}
  BY DEF Settings
<1>2. t = [f \in {"base", "model", "key", "retries"} |-> IF f \in DOMAIN p THEN p[f] ELSE s[f]]
  BY <1>1 DEF MergeRuntimeSettings
<1>3. \A f \in {"base", "model", "key", "retries"} : s[f] \in Values(f)
  BY DEF Settings
<1>4. \A f \in {"base", "model", "key", "retries"} : t[f] \in Values(f)
  BY <1>2, <1>3 DEF Values
<1> HIDE DEF t
<1>5. t = [base |-> t.base, model |-> t.model, key |-> t.key, retries |-> t.retries]
  BY <1>2
<1>6. t.base \in Values("base") /\ t.model \in Values("model") /\ t.key \in Values("key") /\ t.retries \in Values("retries")
  BY <1>4
<1>7. t \in Settings
  BY <1>5, <1>6 DEF Settings
<1> QED
  BY <1>7 DEF t

\* What a provider may answer to the read of its limits, and what the cache may say for it.
LEMMA AnswersOfLimits ==
  ASSUME CacheSound, NEW id \in Identities, NEW base \in Values("base"), id # NoIdentity => id.base = base,
         NEW answer \in CapabilityAnswers(base)
  PROVE  /\ answer \in Stated \cup Unstated /\ StandIn(answer, id) \in Stated \cup Unstated
         /\ answer.kind = "limits" => answer.from = base
         /\ StandIn(answer, id).kind = "limits" => StandIn(answer, id).from = base
         /\ answer.kind = "denied" <=> StandIn(answer, id).kind = "denied"
<1>1. answer \in Stated \cup Unstated /\ (answer.kind = "limits" => answer.from = base)
  <2>1. CASE \E l \in Snapshots : answer = [kind |-> "limits", from |-> base, limits |-> l]
    <3>1. PICK l \in Snapshots : answer = [kind |-> "limits", from |-> base, limits |-> l]
      BY <2>1
    <3> QED
      BY <3>1 DEF Stated
  <2>2. CASE \E k \in {"invalid", "missing", "denied", "busy", "lost"} : answer = [kind |-> k]
    <3>1. PICK k \in {"invalid", "missing", "denied", "busy", "lost"} : answer = [kind |-> k]
      BY <2>2
    <3>2. answer \in Unstated /\ answer.kind # "limits"
      BY <3>1 DEF Unstated
    <3> QED
      BY <3>2
  <2> QED
    BY <2>1, <2>2 DEF CapabilityAnswers
<1>2. Recall(id) \in Stated \cup Unstated /\ (Recall(id).kind = "limits" => Recall(id).from = base)
  <2>1. CASE id = NoIdentity
    BY <2>1 DEF Recall, NotAsked, Unstated
  <2>2. CASE id # NoIdentity
    <3>1. <<id.base, id.model>> \in Values("base") \X Values("model") /\ id.base = base
      BY <2>2 DEF Identities
    <3> QED
      BY <2>2, <3>1 DEF Recall, CacheSound
  <2> QED
    BY <2>1, <2>2
<1> QED
  BY <1>1, <1>2 DEF StandIn

\* What the server answers, by status and by the code in the body.
LEMMA HttpRows ==
  ASSUME NEW unsafe \in BOOLEAN
  PROVE  /\ MapProviderHttpError(400, "none", unsafe) = Failure("AI_REQUEST_REJECTED", FALSE, unsafe)
         /\ MapProviderHttpError(401, "none", unsafe) = Failure("AI_AUTHENTICATION_FAILED", FALSE, unsafe)
         /\ MapProviderHttpError(503, "none", unsafe) = Failure("AI_PROVIDER_FAILED", TRUE, unsafe)
         /\ MapProviderHttpError(503, "attachment_upload_failed", unsafe) \in Failures
<1>1. MapProviderHttpError(400, "none", unsafe) = Failure("AI_REQUEST_REJECTED", FALSE, unsafe)
  BY DEF MapProviderHttpError
<1>2. MapProviderHttpError(401, "none", unsafe) = Failure("AI_AUTHENTICATION_FAILED", FALSE, unsafe)
  BY DEF MapProviderHttpError
<1>3. MapProviderHttpError(503, "none", unsafe) = Failure("AI_PROVIDER_FAILED", TRUE, unsafe)
  BY DEF MapProviderHttpError
<1>4. MapProviderHttpError(503, "attachment_upload_failed", unsafe) \in Failures
  <2>1. (503 \in {503, 504}) = TRUE
    OBVIOUS
  <2>2. MapProviderHttpError(503, "attachment_upload_failed", unsafe) = Failure("AI_ATTACHMENT_UPLOAD_FAILED", 503 \in {503, 504}, unsafe)
    BY DEF MapProviderHttpError
  <2>3. MapProviderHttpError(503, "attachment_upload_failed", unsafe) = Failure("AI_ATTACHMENT_UPLOAD_FAILED", TRUE, unsafe)
    BY <2>1, <2>2
  <2>4. Failure("AI_ATTACHMENT_UPLOAD_FAILED", TRUE, unsafe) \in Failures
    BY DEF Failure, Failures, Codes
  <2> QED
    BY <2>3, <2>4
<1> QED
  BY <1>1, <1>2, <1>3, <1>4

\* What may come of a request.
LEMMA RequestRows ==
  ASSUME NEW kind \in Kinds, NEW a \in RequestAnswers \cup ProbeFailures(kind)
  PROVE  a.kind = "answer" \/ a \in Failures
<1>1. HttpFailures \subseteq Failures
  BY DEF HttpFailures, MapProviderHttpError, Failure, Failures, Codes
<1>2. Failure("AI_EMPTY_RESPONSE", TRUE, FALSE) \in Failures /\ Failure("AI_PROBE_TEXT_MISMATCH", FALSE, FALSE) \in Failures
  BY DEF Failure, Failures, Codes
<1>3. [kind |-> "answer"].kind = "answer"
  OBVIOUS
<1> QED
  BY <1>1, <1>2, <1>3 DEF RequestAnswers, ProbeFailures

--------------------------------------------------------------------------------

\* A step of one call.
LEMMA CallStep ==
  ASSUME AiInv, NEW c \in AiCalls, NEW call \in CallRow, CallSound(call), aiCalls' = [aiCalls EXCEPT ![c] = call],
         aiSettings' = aiSettings, gatewayOpen' = gatewayOpen, patches' = patches, aiProvider' \in Identities, CacheSound',
         hibernateTimer' \in BOOLEAN, hibernated' \in BOOLEAN,
         probeRecords' \in Seq(Records),
         ChecksAreAnswers',
         hibernated' => hibernated,
         hibernated' /\ call.kind = "operation" /\ call.phase \in {"ready", "capabilities", "request"} =>
           aiCalls[c].kind = "operation" /\ aiCalls[c].phase \in {"ready", "capabilities", "request"}
  PROVE  AiInv'
<1>1. aiCalls' \in [AiCalls -> CallRow] /\ aiCalls'[c] = call /\ \A d \in AiCalls \ {c} : aiCalls'[d] = aiCalls[d]
  BY DEF AiInv
<1>2. \A d \in AiCalls : CallSound(aiCalls'[d])
  BY <1>1 DEF AiInv
<1>3. AiTypeOK'
  BY <1>1 DEF AiInv, AiTypeOK, CallRow
<1>4. HibernatesIdle'
  <2> SUFFICES ASSUME hibernated', NEW d \in PendingOperations' PROVE FALSE
    BY DEF HibernatesIdle
  <2>1. d \in AiCalls /\ aiCalls'[d].phase \in {"ready", "capabilities", "request"} /\ aiCalls'[d].kind = "operation"
    BY DEF PendingOperations, UnderWay
  <2>2. aiCalls[d].phase \in {"ready", "capabilities", "request"} /\ aiCalls[d].kind = "operation"
    BY <1>1, <2>1
  <2>3. hibernated /\ PendingOperations = {}
    BY DEF AiInv, HibernatesIdle
  <2> QED
    BY <2>1, <2>2, <2>3 DEF PendingOperations, UnderWay
<1>5. \A d \in AiCalls : CallSound(aiCalls[d])'
  BY <1>2 DEF CallSound
<1> QED
  BY <1>1, <1>3, <1>4, <1>5 DEF AiInv

\* A call that has ended says no more than how.
LEMMA OverRows ==
  ASSUME NEW call \in CallRow, NEW outcome \in Codes \cup {"none", "ok", "AI_NOT_CONFIGURED", "RangeError"},
         call.refusal => outcome = "AI_AUTHENTICATION_FAILED"
  PROVE  Over(call, outcome) \in CallRow /\ CallSound(Over(call, outcome)) /\ Over(call, outcome).phase = "over"
<1>1. NoCallYet \in CallRow
  BY DEF NoCallYet, CallRow, Identities, Kinds, Codes, Sendable, NotAsked, Unstated
<1>2. Over(call, outcome) = [NoCallYet EXCEPT !.phase = "over", !.kind = call.kind, !.outcome = outcome, !.refusal = call.refusal]
  BY DEF Over
<1>3. call.kind \in Kinds /\ call.refusal \in BOOLEAN
  BY DEF CallRow
<1>4. /\ Over(call, outcome) \in CallRow
      /\ Over(call, outcome).phase = "over" /\ Over(call, outcome).outcome = outcome /\ Over(call, outcome).refusal = call.refusal
      /\ Over(call, outcome).attempt = NoCallYet.attempt /\ Over(call, outcome).posts = NoCallYet.posts
      /\ Over(call, outcome).retries = NoCallYet.retries /\ Over(call, outcome).afterUnsafe = NoCallYet.afterUnsafe
  BY <1>1, <1>2, <1>3 DEF CallRow
<1>5. NoCallYet.attempt = 0 /\ NoCallYet.posts = 0 /\ NoCallYet.retries = 0 /\ NoCallYet.afterUnsafe = 0
  BY DEF NoCallYet
<1> QED
  BY <1>4, <1>5 DEF CallSound

\* A record of a probe that was answered, or for which nothing was configured, may be kept.
LEMMA RecordKept ==
  ASSUME AiInv, NEW r \in Records, ~r.aborted, r.status = "ok" => r.asked, probeRecords' = Append(probeRecords, r)
  PROVE  probeRecords' \in Seq(Records) /\ ChecksAreAnswers'
<1>1. probeRecords \in Seq(Records) /\ ChecksAreAnswers
  BY DEF AiInv
<1>2. probeRecords' \in Seq(Records) /\ DOMAIN probeRecords' = 1 .. Len(probeRecords) + 1 /\ DOMAIN probeRecords = 1 .. Len(probeRecords)
  BY <1>1
<1>3. \A n \in 1 .. Len(probeRecords) + 1 : probeRecords'[n] = IF n <= Len(probeRecords) THEN probeRecords[n] ELSE r
  BY <1>1
<1>4. ASSUME NEW n \in DOMAIN probeRecords' PROVE ~probeRecords'[n].aborted /\ (probeRecords'[n].status = "ok" => probeRecords'[n].asked)
  <2>1. CASE n <= Len(probeRecords)
    <3>1. n \in DOMAIN probeRecords /\ probeRecords'[n] = probeRecords[n]
      BY <1>2, <1>3, <1>1, <2>1
    <3> QED
      BY <1>1, <3>1 DEF ChecksAreAnswers
  <2>2. CASE ~(n <= Len(probeRecords))
    <3>1. probeRecords'[n] = r
      BY <1>2, <1>3, <2>2
    <3> QED
      BY <3>1
  <2> QED
    BY <2>1, <2>2
<1> QED
  BY <1>2, <1>4 DEF ChecksAreAnswers

\* What becomes of the records when a call ends: it was not given up, or nothing is kept.
LEMMA EndRecorded ==
  ASSUME AiInv, NEW call \in CallRow, NEW status \in Codes \cup {"ok", "AI_NOT_CONFIGURED"},
         call.aborted => status = "AbortError",
         status = "ok" /\ call.kind \in {"startup", "manual"} => call.posts > 0,
         probeRecords' = Recorded(call, status)
  PROVE  probeRecords' \in Seq(Records) /\ ChecksAreAnswers'
<1>1. CASE call.kind \in {"startup", "manual"} /\ status # "AbortError"
  <2> DEFINE r == ProbeRecord(call, status)
  <2>1. call.aborted \in BOOLEAN /\ call.posts \in Nat /\ call.refusal \in BOOLEAN
    BY DEF CallRow
  <2>2. r = [status |-> status, asked |-> call.posts > 0 \/ call.refusal, aborted |-> call.aborted]
    BY DEF ProbeRecord
  <2>3. r \in Records
    BY <2>1, <2>2 DEF Records
  <2>4. ~r.aborted
    BY <1>1, <2>2
  <2>5. ASSUME r.status = "ok" PROVE r.asked
    <3>1. call.posts > 0
      BY <1>1, <2>2, <2>5
    <3>2. r.asked = (call.posts > 0 \/ call.refusal)
      BY <2>2
    <3> QED
      BY <3>1, <3>2
  <2>6. probeRecords' = Append(probeRecords, r)
    BY <1>1 DEF Recorded
  <2> HIDE DEF r
  <2> QED
    BY <2>3, <2>4, <2>5, <2>6, RecordKept
<1>2. CASE ~(call.kind \in {"startup", "manual"} /\ status # "AbortError")
  <2>1. probeRecords' = probeRecords
    BY <1>2 DEF Recorded
  <2> QED
    BY <2>1 DEF AiInv, ChecksAreAnswers
<1> QED
  BY <1>1, <1>2

\* What is left of a step of a call when its other side is the end of an attempt.
Elsewhere == UNCHANGED <<aiSettings, aiProvider, gatewayOpen, hibernateTimer, hibernated, patches>>

\* An attempt fails: the call stands as before it, or has ended with what it was told.
LEMMA FailStep ==
  ASSUME AiInv, NEW c \in AiCalls, UnderWay(c), NEW call \in CallRow, NEW f \in Failures, Fail(c, call, f),
         call.kind = aiCalls[c].kind, ~call.unsafe, call.by = call.wanted, call.by # NoIdentity,
         call.afterUnsafe = 0, call.posts <= call.attempt, call.attempt <= call.retries + 1,
         call.refusal => f.code = "AI_AUTHENTICATION_FAILED" /\ ~f.retryable,
         call.aborted => f.code = "AbortError",
         Elsewhere, CacheSound'
  PROVE  AiInv'
<1> DEFINE failed == [call EXCEPT !.unsafe = @ \/ f.unsafe]
<1>1. f.code \in Codes /\ f.unsafe \in BOOLEAN /\ f.retryable \in BOOLEAN /\ f.code # "ok"
  BY DEF Failures, Codes
<1>2. failed \in CallRow
  BY <1>1 DEF CallRow
<1>3. /\ failed.kind = call.kind /\ failed.aborted = call.aborted /\ failed.posts = call.posts /\ failed.refusal = call.refusal
      /\ failed.attempt = call.attempt /\ failed.retries = call.retries /\ failed.afterUnsafe = call.afterUnsafe
      /\ failed.by = call.by /\ failed.wanted = call.wanted
  BY DEF CallRow
<1>4. failed.unsafe = (call.unsafe \/ f.unsafe)
  BY DEF CallRow
<1>5. \/ MayTryAgain(failed, f) /\ aiCalls' = [aiCalls EXCEPT ![c] = [failed EXCEPT !.phase = "ready"]] /\ UNCHANGED probeRecords
      \/ /\ aiCalls' = [aiCalls EXCEPT ![c] = Over(failed, f.code)]
         /\ probeRecords' = Recorded(failed, f.code)
  BY DEF Fail
<1> HIDE DEF failed
<1>6. /\ aiProvider' \in Identities /\ hibernateTimer' \in BOOLEAN /\ hibernated' \in BOOLEAN /\ hibernated' = hibernated
      /\ aiSettings' = aiSettings /\ gatewayOpen' = gatewayOpen /\ patches' = patches
  BY DEF AiInv, AiTypeOK, Elsewhere
<1>7. CASE MayTryAgain(failed, f) /\ aiCalls' = [aiCalls EXCEPT ![c] = [failed EXCEPT !.phase = "ready"]] /\ UNCHANGED probeRecords
  <2> DEFINE again == [failed EXCEPT !.phase = "ready"]
  <2>1. f.retryable /\ ~f.unsafe /\ failed.attempt <= failed.retries
    BY <1>7 DEF MayTryAgain
  <2>2. ~failed.unsafe /\ ~failed.refusal
    BY <1>3, <1>4, <2>1
  <2>3. again \in CallRow /\ again.phase = "ready"
    BY <1>2 DEF CallRow
  <2>4. /\ again.kind = failed.kind /\ again.posts = failed.posts /\ again.refusal = failed.refusal /\ again.unsafe = failed.unsafe
        /\ again.attempt = failed.attempt /\ again.retries = failed.retries /\ again.afterUnsafe = failed.afterUnsafe
        /\ again.by = failed.by /\ again.wanted = failed.wanted
    BY <1>2 DEF CallRow
  <2> HIDE DEF again
  <2>5. call.posts \in Nat /\ call.attempt \in Nat /\ call.retries \in Nat
    BY DEF CallRow
  <2>6. CallSound(again)
    BY <1>3, <2>1, <2>2, <2>3, <2>4, <2>5 DEF CallSound
  <2>7. probeRecords' \in Seq(Records) /\ ChecksAreAnswers'
    BY <1>7 DEF AiInv, ChecksAreAnswers
  <2>8. aiCalls' = [aiCalls EXCEPT ![c] = again]
    BY <1>7 DEF again
  <2>9. aiCalls[c].phase \in {"ready", "capabilities", "request"} /\ again.kind = aiCalls[c].kind
    BY <1>3, <2>4 DEF UnderWay
  <2> QED
    BY <1>6, <2>3, <2>6, <2>7, <2>8, <2>9, CallStep
<1>8. CASE aiCalls' = [aiCalls EXCEPT ![c] = Over(failed, f.code)] /\ probeRecords' = Recorded(failed, f.code)
  <2>1. Over(failed, f.code) \in CallRow /\ CallSound(Over(failed, f.code)) /\ Over(failed, f.code).phase = "over"
    BY <1>1, <1>2, <1>3, OverRows
  <2>2. probeRecords' \in Seq(Records) /\ ChecksAreAnswers'
    BY <1>1, <1>2, <1>3, <1>8, EndRecorded
  <2> QED
    BY <1>6, <1>8, <2>1, <2>2, CallStep
<1> QED
  BY <1>5, <1>7, <1>8

\* A call ends well: it was not given up, and a probe had sent its request.
LEMMA SucceedStep ==
  ASSUME AiInv, NEW c \in AiCalls, NEW call \in CallRow, Succeed(c, call), ~call.refusal, ~call.aborted,
         call.kind \in {"startup", "manual"} => call.posts > 0,
         Elsewhere, CacheSound'
  PROVE  AiInv'
<1>1. aiCalls' = [aiCalls EXCEPT ![c] = Over(call, "ok")] /\ probeRecords' = Recorded(call, "ok")
  BY DEF Succeed
<1>2. /\ aiProvider' \in Identities /\ hibernateTimer' \in BOOLEAN /\ hibernated' \in BOOLEAN /\ hibernated' = hibernated
      /\ aiSettings' = aiSettings /\ gatewayOpen' = gatewayOpen /\ patches' = patches
  BY DEF AiInv, AiTypeOK, Elsewhere
<1>3. Over(call, "ok") \in CallRow /\ CallSound(Over(call, "ok")) /\ Over(call, "ok").phase = "over"
  BY OverRows
<1>4. probeRecords' \in Seq(Records) /\ ChecksAreAnswers'
  BY <1>1, EndRecorded
<1> QED
  BY <1>1, <1>2, <1>3, <1>4, CallStep

\* A call begins with the settings of that moment.
LEMMA BeginRows ==
  ASSUME AiInv, NEW c \in AiCalls, AiConfigured(aiSettings), NEW kind \in Kinds \ {"none"}, NEW content \in Sendable
  PROVE  /\ ProviderIdentity(aiSettings) \in Identities
         /\ Begin(c, kind, content) \in CallRow /\ CallSound(Begin(c, kind, content))
         /\ Begin(c, kind, content).by = ProviderIdentity(aiSettings)
         /\ Begin(c, kind, content).kind = kind /\ Begin(c, kind, content).phase = "ready"
<1> DEFINE b == Begin(c, kind, content)
           id == ProviderIdentity(aiSettings)
           most == IF kind = "operation" THEN aiSettings.retries ELSE 0
<1>1. aiSettings.base \in Values("base") /\ aiSettings.model \in Values("model") /\ aiSettings.key \in Values("key") /\ aiSettings.retries \in Nat
  BY AiAssumption DEF AiInv, AiTypeOK, Settings
<1>2. id \in Identities /\ id # NoIdentity
  BY <1>1 DEF ProviderIdentity, Identities, NoIdentity, AiConfigured
<1>3. NoCallYet \in CallRow
  BY DEF NoCallYet, CallRow, Identities, Kinds, Codes, Sendable, NotAsked, Unstated
<1>4. most \in Nat
  BY <1>1
<1>5. b = [NoCallYet EXCEPT !.phase = "ready", !.kind = kind, !.by = id, !.wanted = id, !.retries = most, !.content = content]
  BY DEF Begin
<1> HIDE DEF b, id, most
<1>6. b \in CallRow
  BY <1>2, <1>3, <1>4, <1>5 DEF CallRow
<1>7. /\ b.phase = "ready" /\ b.kind = kind /\ b.by = id /\ b.wanted = id /\ b.retries = most
      /\ b.attempt = NoCallYet.attempt /\ b.posts = NoCallYet.posts /\ b.afterUnsafe = NoCallYet.afterUnsafe
      /\ b.unsafe = NoCallYet.unsafe /\ b.refusal = NoCallYet.refusal
  BY <1>3, <1>5 DEF CallRow
<1>8. NoCallYet.attempt = 0 /\ NoCallYet.posts = 0 /\ NoCallYet.afterUnsafe = 0 /\ NoCallYet.unsafe = FALSE /\ NoCallYet.refusal = FALSE
  BY DEF NoCallYet
<1>9. CallSound(b)
  BY <1>2, <1>4, <1>7, <1>8 DEF CallSound
<1> QED
  BY <1>2, <1>6, <1>7, <1>9 DEF b, id

\* Nothing has been asked when the behaviour begins.
LEMMA AiBegins == AiInit => AiInv
<1> SUFFICES ASSUME AiInit PROVE AiInv
  OBVIOUS
<1>1. NoCallYet \in CallRow /\ CallSound(NoCallYet) /\ NoCallYet.phase = "none"
  <2>1. NoCallYet \in CallRow
    BY DEF NoCallYet, CallRow, Identities, Kinds, Codes, Sendable, NotAsked, Unstated
  <2>2. /\ NoCallYet.attempt = 0 /\ NoCallYet.posts = 0 /\ NoCallYet.afterUnsafe = 0 /\ NoCallYet.unsafe = FALSE
        /\ NoCallYet.refusal = FALSE /\ NoCallYet.phase = "none" /\ NoCallYet.retries = 0
    BY DEF NoCallYet
  <2> QED
    BY <2>1, <2>2 DEF CallSound
<1>2. aiCalls \in [AiCalls -> CallRow] /\ \A c \in AiCalls : aiCalls[c] = NoCallYet
  BY <1>1 DEF AiInit
<1>3. AiTypeOK
  <2>1. aiSettings \in Settings
    BY AiAssumption DEF AiInit
  <2>2. patches \in 0 .. MaxPatches
    BY AiAssumption DEF AiInit
  <2>3. \A c \in AiCalls : aiCalls[c].phase = "none"
    BY <1>1, <1>2
  <2>4. gatewayOpen \in BOOLEAN /\ hibernateTimer \in BOOLEAN /\ hibernated \in BOOLEAN
    BY DEF AiInit
  <2> QED
    BY <2>1, <2>2, <2>3, <2>4 DEF AiTypeOK
<1>4. CacheSound
  BY DEF AiInit, CacheSound, NotAsked, Unstated
<1>5. aiProvider \in Identities
  BY DEF AiInit, Identities
<1>6. probeRecords \in Seq(Records) /\ ChecksAreAnswers /\ HibernatesIdle
  BY DEF AiInit, ChecksAreAnswers, HibernatesIdle
<1> QED
  BY <1>1, <1>2, <1>3, <1>4, <1>5, <1>6 DEF AiInv

\* The settings are saved, a timer fires, the gateway closes: no call goes on.
LEMMA AroundCalls ==
  ASSUME AiInv, (\E p \in Patches : UpdateRuntimeSettings(p)) \/ CloseGateway \/ HibernateTimerFires \/ UNCHANGED aiVars
  PROVE  AiInv'
<1>1. ASSUME NEW p \in Patches, UpdateRuntimeSettings(p) PROVE AiInv'
  <2>1. aiSettings' \in Settings
    BY <1>1, MergedSettings DEF UpdateRuntimeSettings, AiInv, AiTypeOK
  <2>2. patches' \in 0 .. MaxPatches
    BY <1>1, AiAssumption DEF UpdateRuntimeSettings, AiInv, AiTypeOK
  <2>3. /\ aiProvider' = aiProvider /\ capabilityCache' = capabilityCache /\ aiCalls' = aiCalls /\ probeRecords' = probeRecords
        /\ gatewayOpen' = gatewayOpen /\ hibernated' = FALSE /\ hibernateTimer' = TRUE
    BY <1>1 DEF UpdateRuntimeSettings, MarkActivity
  <2> QED
    BY <2>1, <2>2, <2>3 DEF AiInv, AiTypeOK, CacheSound, CallSound, ChecksAreAnswers, HibernatesIdle
<1>2. ASSUME CloseGateway PROVE AiInv'
  <2>1. aiCalls' = [c \in AiCalls |-> IF UnderWay(c) /\ aiCalls[c].kind = "startup" THEN [aiCalls[c] EXCEPT !.aborted = TRUE] ELSE aiCalls[c]]
    BY <1>2 DEF CloseGateway
  <2>2. /\ aiProvider' = aiProvider /\ capabilityCache' = capabilityCache /\ aiSettings' = aiSettings /\ probeRecords' = probeRecords
        /\ gatewayOpen' = FALSE /\ hibernated' = hibernated /\ hibernateTimer' = hibernateTimer /\ patches' = patches
    BY <1>2 DEF CloseGateway
  <2>3. ASSUME NEW c \in AiCalls
        PROVE  /\ aiCalls'[c] \in CallRow /\ CallSound(aiCalls'[c])
               /\ aiCalls'[c].phase = aiCalls[c].phase /\ aiCalls'[c].kind = aiCalls[c].kind
    <3>1. aiCalls[c] \in CallRow /\ CallSound(aiCalls[c])
      BY DEF AiInv
    <3>2. CASE aiCalls'[c] = [aiCalls[c] EXCEPT !.aborted = TRUE]
      <4>1. aiCalls'[c] \in CallRow
        BY <3>1, <3>2 DEF CallRow
      <4>2. /\ aiCalls'[c].phase = aiCalls[c].phase /\ aiCalls'[c].kind = aiCalls[c].kind
            /\ aiCalls'[c].by = aiCalls[c].by /\ aiCalls'[c].wanted = aiCalls[c].wanted /\ aiCalls'[c].retries = aiCalls[c].retries
            /\ aiCalls'[c].attempt = aiCalls[c].attempt /\ aiCalls'[c].cacheAs = aiCalls[c].cacheAs
            /\ aiCalls'[c].content = aiCalls[c].content /\ aiCalls'[c].posts = aiCalls[c].posts
            /\ aiCalls'[c].afterUnsafe = aiCalls[c].afterUnsafe /\ aiCalls'[c].unsafe = aiCalls[c].unsafe
            /\ aiCalls'[c].outcome = aiCalls[c].outcome /\ aiCalls'[c].limits = aiCalls[c].limits
            /\ aiCalls'[c].refusal = aiCalls[c].refusal
        BY <3>1, <3>2 DEF CallRow
      <4> QED
        BY <3>1, <4>1, <4>2 DEF CallSound
    <3>3. CASE aiCalls'[c] = aiCalls[c]
      BY <3>1, <3>3
    <3> QED
      BY <2>1, <3>2, <3>3
  <2>4. aiCalls' \in [AiCalls -> CallRow]
    <3>1. DOMAIN aiCalls' = AiCalls /\ aiCalls' = [c \in DOMAIN aiCalls' |-> aiCalls'[c]]
      BY <2>1
    <3> QED
      BY <2>3, <3>1
  <2>5. AiTypeOK'
    BY <2>2, <2>3 DEF AiInv, AiTypeOK, CallRow
  <2>6. HibernatesIdle'
    <3>1. PendingOperations' = PendingOperations
      BY <2>3 DEF PendingOperations, UnderWay
    <3> QED
      BY <2>2, <3>1 DEF AiInv, HibernatesIdle
  <2>7. \A c \in AiCalls : CallSound(aiCalls[c])'
    BY <2>3 DEF CallSound
  <2>8. CacheSound' /\ ChecksAreAnswers'
    BY <2>2 DEF AiInv, CacheSound, ChecksAreAnswers
  <2> QED
    BY <2>2, <2>4, <2>5, <2>6, <2>7, <2>8 DEF AiInv
<1>3. ASSUME HibernateTimerFires PROVE AiInv'
  <2>1. /\ capabilityCache' = capabilityCache /\ aiSettings' = aiSettings /\ probeRecords' = probeRecords /\ aiCalls' = aiCalls
        /\ gatewayOpen' = gatewayOpen /\ hibernateTimer' = FALSE /\ patches' = patches
    BY <1>3 DEF HibernateTimerFires
  <2>2. \/ PendingOperations = {} /\ hibernated' = TRUE /\ aiProvider' = NoIdentity
        \/ hibernated' = hibernated /\ aiProvider' = aiProvider
    BY <1>3 DEF HibernateTimerFires
  <2>3. PendingOperations' = PendingOperations
    BY <2>1 DEF PendingOperations, UnderWay
  <2>4. HibernatesIdle' /\ hibernated' \in BOOLEAN
    <3>1. CASE PendingOperations = {} /\ hibernated' = TRUE
      BY <2>3, <3>1 DEF HibernatesIdle
    <3>2. CASE hibernated' = hibernated
      <4>1. hibernated \in BOOLEAN /\ HibernatesIdle
        BY DEF AiInv, AiTypeOK
      <4> QED
        BY <2>3, <3>2, <4>1 DEF HibernatesIdle
    <3> QED
      BY <2>2, <3>1, <3>2
  <2>5. aiProvider' \in Identities
    BY <2>2 DEF AiInv, Identities
  <2> QED
    BY <2>1, <2>4, <2>5 DEF AiInv, AiTypeOK, CacheSound, CallSound, ChecksAreAnswers
<1>4. ASSUME UNCHANGED aiVars PROVE AiInv'
  BY <1>4 DEF aiVars, AiInv, AiTypeOK, CacheSound, CallSound, ChecksAreAnswers, HibernatesIdle, PendingOperations, UnderWay
<1> QED
  BY <1>1, <1>2, <1>3, <1>4

\* A call begins, or is refused at once.
LEMMA CallsBegin ==
  ASSUME AiInv, NEW c \in AiCalls,
         \/ \E k \in {"startup", "manual"} : StartProbe(c, k)
         \/ ReadLimits(c)
         \/ \E content \in Contents : StartOperation(c, content)
  PROVE  AiInv'
<1>1. NoCallYet \in CallRow /\ NoCallYet.refusal = FALSE /\ NoCallYet.aborted = FALSE /\ NoCallYet.kind = "none" /\ NoCallYet.posts = 0
  BY DEF NoCallYet, CallRow, Identities, Kinds, Codes, Sendable, NotAsked, Unstated
<1>2. AiTypeOK /\ ChecksAreAnswers /\ probeRecords \in Seq(Records) /\ aiProvider \in Identities /\ CacheSound
  BY DEF AiInv
<1>3. ASSUME NEW k \in {"startup", "manual"}, StartProbe(c, k) PROVE AiInv'
  <2> DEFINE n == [NoCallYet EXCEPT !.kind = k]
  <2>1. /\ aiSettings' = aiSettings /\ gatewayOpen' = gatewayOpen /\ patches' = patches /\ aiProvider' = aiProvider
        /\ capabilityCache' = capabilityCache /\ hibernateTimer' = hibernateTimer /\ hibernated' = hibernated
    BY <1>3 DEF StartProbe
  <2>2. aiProvider' \in Identities /\ CacheSound' /\ hibernateTimer' \in BOOLEAN /\ hibernated' \in BOOLEAN
    BY <1>2, <2>1 DEF CacheSound, AiTypeOK
  <2>3. CASE AiConfigured(aiSettings)
    <3> DEFINE b == Begin(c, k, [NoLimits EXCEPT !.image = 1, !.count = 1])
    <3>1. b \in CallRow /\ CallSound(b) /\ b.kind = k
      BY <2>3, BeginRows DEF Kinds, Sendable
    <3>2. aiCalls' = [aiCalls EXCEPT ![c] = b] /\ probeRecords' = probeRecords
      BY <1>3, <2>3 DEF StartProbe
    <3> HIDE DEF b
    <3>3. probeRecords' \in Seq(Records) /\ ChecksAreAnswers'
      BY <1>2, <3>2 DEF ChecksAreAnswers
    <3> QED
      BY <2>1, <2>2, <3>1, <3>2, <3>3, CallStep
  <2>4. CASE ~AiConfigured(aiSettings)
    <3> DEFINE r == [status |-> "AI_NOT_CONFIGURED", asked |-> FALSE, aborted |-> FALSE]
    <3>1. aiCalls' = [aiCalls EXCEPT ![c] = Over(n, "AI_NOT_CONFIGURED")] /\ probeRecords' = Append(probeRecords, r)
      BY <1>3, <2>4 DEF StartProbe
    <3>2. n \in CallRow /\ n.refusal = FALSE
      BY <1>1 DEF CallRow, Kinds
    <3>3. Over(n, "AI_NOT_CONFIGURED") \in CallRow /\ CallSound(Over(n, "AI_NOT_CONFIGURED")) /\ Over(n, "AI_NOT_CONFIGURED").phase = "over"
      BY <3>2, OverRows
    <3>4. r \in Records /\ r.aborted = FALSE /\ r.status # "ok"
      BY DEF Records
    <3> HIDE DEF n, r
    <3>5. probeRecords' \in Seq(Records) /\ ChecksAreAnswers'
      BY <3>1, <3>4, RecordKept
    <3> QED
      BY <2>1, <2>2, <3>1, <3>3, <3>5, CallStep
  <2> QED
    BY <2>3, <2>4
<1>4. ASSUME ReadLimits(c) PROVE AiInv'
  <2> DEFINE n == [NoCallYet EXCEPT !.kind = "limits"]
             b == Begin(c, "limits", NoLimits)
  <2>1. /\ aiSettings' = aiSettings /\ gatewayOpen' = gatewayOpen /\ patches' = patches /\ aiProvider' = aiProvider
        /\ capabilityCache' = capabilityCache /\ hibernateTimer' = hibernateTimer /\ hibernated' = hibernated
        /\ probeRecords' = probeRecords
    BY <1>4 DEF ReadLimits
  <2>2. aiProvider' \in Identities /\ CacheSound' /\ hibernateTimer' \in BOOLEAN /\ hibernated' \in BOOLEAN
    BY <1>2, <2>1 DEF CacheSound, AiTypeOK
  <2>3. probeRecords' \in Seq(Records) /\ ChecksAreAnswers'
    BY <1>2, <2>1 DEF ChecksAreAnswers
  <2>4. CASE AiConfigured(aiSettings)
    <3>1. b \in CallRow /\ CallSound(b) /\ b.kind = "limits"
      BY <2>4, BeginRows DEF Kinds, Sendable
    <3>2. aiCalls' = [aiCalls EXCEPT ![c] = b]
      BY <1>4, <2>4 DEF ReadLimits
    <3> HIDE DEF b
    <3> QED
      BY <2>1, <2>2, <2>3, <3>1, <3>2, CallStep
  <2>5. CASE ~AiConfigured(aiSettings)
    <3>1. aiCalls' = [aiCalls EXCEPT ![c] = Over(n, "AI_NOT_CONFIGURED")]
      BY <1>4, <2>5 DEF ReadLimits
    <3>2. n \in CallRow /\ n.refusal = FALSE
      BY <1>1 DEF CallRow, Kinds
    <3>3. Over(n, "AI_NOT_CONFIGURED") \in CallRow /\ CallSound(Over(n, "AI_NOT_CONFIGURED")) /\ Over(n, "AI_NOT_CONFIGURED").phase = "over"
      BY <3>2, OverRows
    <3> HIDE DEF n
    <3> QED
      BY <2>1, <2>2, <2>3, <3>1, <3>3, CallStep
  <2> QED
    BY <2>4, <2>5
<1>5. ASSUME NEW content \in Contents, StartOperation(c, content) PROVE AiInv'
  <2>1. /\ aiSettings' = aiSettings /\ gatewayOpen' = gatewayOpen /\ patches' = patches
        /\ capabilityCache' = capabilityCache /\ hibernateTimer' = TRUE /\ hibernated' = FALSE /\ probeRecords' = probeRecords
    BY <1>5 DEF StartOperation, MarkActivity
  <2>2. CacheSound' /\ probeRecords' \in Seq(Records) /\ ChecksAreAnswers'
    BY <1>2, <2>1 DEF CacheSound, ChecksAreAnswers
  <2>3. ASSUME NEW outcome \in {"AI_NOT_CONFIGURED", "RangeError"}, aiCalls' = [aiCalls EXCEPT ![c] = Over(NoCallYet, outcome)],
               aiProvider' \in Identities
        PROVE  AiInv'
    <3>1. Over(NoCallYet, outcome) \in CallRow /\ CallSound(Over(NoCallYet, outcome)) /\ Over(NoCallYet, outcome).phase = "over"
      BY <1>1, OverRows
    <3> QED
      BY <2>1, <2>2, <2>3, <3>1, CallStep
  <2>4. CASE ~AiConfigured(aiSettings)
    <3>1. aiCalls' = [aiCalls EXCEPT ![c] = Over(NoCallYet, "AI_NOT_CONFIGURED")] /\ aiProvider' = aiProvider
      BY <1>5, <2>4 DEF StartOperation
    <3> QED
      BY <1>2, <2>3, <3>1
  <2>5. CASE AiConfigured(aiSettings)
    <3> DEFINE b == Begin(c, "operation", content)
               o == [b EXCEPT !.by = aiProvider']
    <3>1. /\ aiProvider' = GetAiProvider(ProviderIdentity(aiSettings))
          /\ \/ aiSettings.retries > MostRetries /\ aiCalls' = [aiCalls EXCEPT ![c] = Over(NoCallYet, "RangeError")]
             \/ aiCalls' = [aiCalls EXCEPT ![c] = o]
      BY <1>5, <2>5 DEF StartOperation
    <3>2. aiProvider' = ProviderIdentity(aiSettings)
      BY <3>1 DEF GetAiProvider, IsCurrent
    <3>3. /\ ProviderIdentity(aiSettings) \in Identities
          /\ b \in CallRow /\ CallSound(b) /\ b.by = ProviderIdentity(aiSettings) /\ b.kind = "operation"
      BY <2>5, BeginRows DEF Kinds, Sendable
    <3> HIDE DEF b
    <3>4. o = b
      BY <3>2, <3>3 DEF CallRow
    <3> HIDE DEF o
    <3>5. CASE aiCalls' = [aiCalls EXCEPT ![c] = Over(NoCallYet, "RangeError")]
      BY <2>3, <3>2, <3>3, <3>5
    <3>6. CASE aiCalls' = [aiCalls EXCEPT ![c] = o]
      BY <2>1, <2>2, <3>2, <3>3, <3>4, <3>6, CallStep
    <3> QED
      BY <3>1, <3>5, <3>6
  <2> QED
    BY <2>4, <2>5
<1> QED
  BY <1>3, <1>4, <1>5

\* An attempt begins, or the caller goes away while one is under way.
LEMMA CallsGoOn ==
  ASSUME AiInv, NEW c \in AiCalls, BeginAttempt(c) \/ CallerLeaves(c)
  PROVE  AiInv'
<1> DEFINE call == aiCalls[c]
<1>1. /\ aiSettings' = aiSettings /\ gatewayOpen' = gatewayOpen /\ patches' = patches /\ aiProvider' = aiProvider
      /\ capabilityCache' = capabilityCache /\ hibernateTimer' = hibernateTimer /\ hibernated' = hibernated
      /\ probeRecords' = probeRecords
  BY DEF BeginAttempt, CallerLeaves
<1>2. aiProvider' \in Identities /\ CacheSound' /\ hibernateTimer' \in BOOLEAN /\ hibernated' \in BOOLEAN
  BY <1>1 DEF AiInv, CacheSound, AiTypeOK
<1>3. probeRecords' \in Seq(Records) /\ ChecksAreAnswers'
  BY <1>1 DEF AiInv, ChecksAreAnswers
<1>4. call \in CallRow /\ CallSound(call)
  BY DEF AiInv
<1>5. ASSUME BeginAttempt(c) PROVE AiInv'
  <2> DEFINE id == IF AiConfigured(aiSettings) /\ aiSettings.base = call.by.base THEN ProviderIdentity(aiSettings) ELSE NoIdentity
             begun == [call EXCEPT !.phase = "capabilities", !.attempt = @ + 1, !.cacheAs = id]
  <2>1. call.phase = "ready" /\ aiCalls' = [aiCalls EXCEPT ![c] = begun]
    BY <1>5 DEF BeginAttempt
  <2>2. id \in Identities /\ (id # NoIdentity => id.base = call.by.base)
    BY DEF AiInv, AiTypeOK, Settings, ProviderIdentity, Identities
  <2> HIDE DEF id
  <2>3. begun \in CallRow
    <3>1. call.attempt + 1 \in Nat
      BY <1>4 DEF CallRow
    <3> QED
      BY <1>4, <2>2, <3>1 DEF CallRow
  <2>4. /\ begun.phase = "capabilities" /\ begun.kind = call.kind /\ begun.by = call.by /\ begun.wanted = call.wanted
        /\ begun.retries = call.retries /\ begun.attempt = call.attempt + 1 /\ begun.cacheAs = id /\ begun.posts = call.posts
        /\ begun.afterUnsafe = call.afterUnsafe /\ begun.unsafe = call.unsafe /\ begun.outcome = call.outcome
        /\ begun.refusal = call.refusal
    BY <1>4 DEF CallRow
  <2>5. call.attempt \in Nat /\ call.posts \in Nat /\ call.retries \in Nat
    BY <1>4 DEF CallRow
  <2> HIDE DEF begun
  <2>6. CallSound(begun)
    BY <1>4, <2>1, <2>2, <2>4, <2>5 DEF CallSound
  <2> QED
    BY <1>1, <1>2, <1>3, <2>1, <2>3, <2>4, <2>6, CallStep
<1>6. ASSUME CallerLeaves(c) PROVE AiInv'
  <2> DEFINE left == [call EXCEPT !.aborted = TRUE]
  <2>1. UnderWay(c) /\ aiCalls' = [aiCalls EXCEPT ![c] = left]
    BY <1>6 DEF CallerLeaves
  <2>2. left \in CallRow
    BY <1>4 DEF CallRow
  <2>3. /\ left.phase = call.phase /\ left.kind = call.kind /\ left.by = call.by /\ left.wanted = call.wanted
        /\ left.retries = call.retries /\ left.attempt = call.attempt /\ left.cacheAs = call.cacheAs /\ left.posts = call.posts
        /\ left.afterUnsafe = call.afterUnsafe /\ left.unsafe = call.unsafe /\ left.outcome = call.outcome
        /\ left.refusal = call.refusal /\ left.content = call.content /\ left.limits = call.limits
    BY <1>4 DEF CallRow
  <2> HIDE DEF left
  <2>4. CallSound(left)
    BY <1>4, <2>3 DEF CallSound
  <2> QED
    BY <1>1, <1>2, <1>3, <2>1, <2>2, <2>3, <2>4, CallStep
<1> QED
  BY <1>5, <1>6

\* A request is answered, or a call that was given up ends.
LEMMA CallsEnd ==
  ASSUME AiInv, NEW c \in AiCalls,
         GivenUp(c) \/ \E a \in RequestAnswers \cup ProbeFailures(aiCalls[c].kind) : RequestAnswered(c, a)
  PROVE  AiInv'
<1> DEFINE call == aiCalls[c]
<1>1. call \in CallRow /\ CallSound(call)
  BY DEF AiInv
<1>2. ASSUME call.phase \in {"ready", "capabilities", "request"}
      PROVE  /\ UnderWay(c) /\ ~call.unsafe /\ ~call.refusal /\ call.by = call.wanted /\ call.by # NoIdentity
             /\ call.afterUnsafe = 0 /\ call.posts <= call.attempt /\ call.attempt <= call.retries + 1
  BY <1>1, <1>2 DEF UnderWay, CallSound
<1>3. ASSUME GivenUp(c) PROVE AiInv'
  <2>1. Elsewhere /\ capabilityCache' = capabilityCache /\ UnderWay(c) /\ Fail(c, call, AbortFailure)
    BY <1>3 DEF GivenUp, Elsewhere
  <2>2. AbortFailure \in Failures /\ AbortFailure.code = "AbortError"
    BY DEF AbortFailure, Failure, Failures, Codes
  <2>3. CacheSound'
    BY <2>1 DEF AiInv, CacheSound
  <2>4. call.phase \in {"ready", "capabilities", "request"}
    BY <2>1 DEF UnderWay
  <2> HIDE DEF call
  <2>5. call.kind = aiCalls[c].kind
    BY DEF call
  <2> QED
    BY <1>1, <1>2, <2>1, <2>2, <2>3, <2>4, <2>5, FailStep
<1>4. ASSUME NEW a \in RequestAnswers \cup ProbeFailures(aiCalls[c].kind), RequestAnswered(c, a) PROVE AiInv'
  <2>1. /\ Elsewhere /\ capabilityCache' = capabilityCache /\ call.phase = "request" /\ ~call.aborted
        /\ IF a.kind = "answer" THEN Succeed(c, call) ELSE Fail(c, call, a)
    BY <1>4 DEF RequestAnswered, Elsewhere
  <2>2. CacheSound'
    BY <2>1 DEF AiInv, CacheSound
  <2>3. call.kind \in Kinds
    BY <1>1 DEF CallRow
  <2>4. a.kind = "answer" \/ a \in Failures
    BY <2>3, RequestRows
  <2>5. call.posts > 0 /\ ~call.refusal
    <3>1. call.posts >= 1 /\ call.posts \in Nat
      BY <1>1, <2>1 DEF CallSound, CallRow
    <3> QED
      BY <1>2, <2>1, <3>1
  <2>6. CASE a.kind = "answer"
    BY <1>1, <2>1, <2>2, <2>5, <2>6, SucceedStep
  <2>7. CASE a.kind # "answer"
    <3>1. Fail(c, call, a) /\ a \in Failures
      BY <2>1, <2>4, <2>7
    <3> HIDE DEF call
    <3>2. call.kind = aiCalls[c].kind
      BY DEF call
    <3> QED
      BY <1>1, <1>2, <2>1, <2>2, <3>1, <3>2, FailStep
  <2> QED
    BY <2>6, <2>7
<1> QED
  BY <1>3, <1>4

\* The limits are answered, kept and used: the call ends, is tried again, or sends its request.
LEMMA LimitsAnswered ==
  ASSUME AiInv, NEW c \in AiCalls, NEW answer \in CapabilityAnswers(aiCalls[c].by.base), CapabilitiesAnswered(c, answer)
  PROVE  AiInv'
<1> DEFINE call == aiCalls[c]
           id   == call.cacheAs
           used == StandIn(answer, id)
           next == [call EXCEPT !.limits = used, !.refusal = @ \/ answer.kind = "denied"]
<1>1. /\ call.phase = "capabilities" /\ ~call.aborted /\ Elsewhere
      /\ capabilityCache' = IF answer.kind = "limits" /\ id # NoIdentity
                              THEN [capabilityCache EXCEPT ![<<id.base, id.model>>] = answer] ELSE capabilityCache
  BY DEF CapabilitiesAnswered, Elsewhere
<1>2. call \in CallRow /\ CallSound(call) /\ UnderWay(c)
  BY <1>1 DEF AiInv, UnderWay
<1>3. /\ ~call.unsafe /\ ~call.refusal /\ call.by = call.wanted /\ call.by # NoIdentity
      /\ call.afterUnsafe = 0 /\ call.posts + 1 <= call.attempt /\ call.attempt <= call.retries + 1
      /\ call.posts \in Nat /\ call.attempt \in Nat /\ call.retries \in Nat
  BY <1>1, <1>2 DEF CallSound, CallRow
<1>4. call.by.base \in Values("base") /\ id \in Identities /\ (id # NoIdentity => id.base = call.by.base)
  BY <1>1, <1>2, <1>3 DEF CallRow, CallSound, Identities
<1>5. /\ answer \in Stated \cup Unstated /\ used \in Stated \cup Unstated
      /\ answer.kind = "limits" => answer.from = call.by.base
      /\ used.kind = "limits" => used.from = call.by.base
      /\ answer.kind = "denied" <=> used.kind = "denied"
  BY <1>4, AnswersOfLimits DEF AiInv
<1>6. CacheSound'
  <2>1. CASE answer.kind = "limits" /\ id # NoIdentity
    <3>1. <<id.base, id.model>> \in Values("base") \X Values("model")
      BY <1>4, <2>1 DEF Identities
    <3>2. capabilityCache' = [capabilityCache EXCEPT ![<<id.base, id.model>>] = answer]
      BY <1>1, <2>1
    <3>3. CacheSound
      BY DEF AiInv
    <3>4. capabilityCache' \in [Values("base") \X Values("model") -> Stated \cup Unstated]
      BY <1>5, <3>1, <3>2, <3>3 DEF CacheSound
    <3>5. ASSUME NEW k \in Values("base") \X Values("model"), capabilityCache'[k].kind = "limits" PROVE capabilityCache'[k].from = k[1]
      <4>1. CASE k = <<id.base, id.model>>
        <5>1. capabilityCache'[k] = answer /\ k[1] = id.base
          BY <3>1, <3>2, <3>3, <4>1 DEF CacheSound
        <5> QED
          BY <1>4, <1>5, <2>1, <5>1
      <4>2. CASE k # <<id.base, id.model>>
        <5>1. capabilityCache'[k] = capabilityCache[k]
          BY <3>2, <3>3, <4>2 DEF CacheSound
        <5> QED
          BY <3>3, <3>5, <5>1 DEF CacheSound
      <4> QED
        BY <4>1, <4>2
    <3> QED
      BY <3>4, <3>5 DEF CacheSound
  <2>2. CASE ~(answer.kind = "limits" /\ id # NoIdentity)
    BY <1>1, <2>2 DEF AiInv, CacheSound
  <2> QED
    BY <2>1, <2>2
<1>7. next \in CallRow
  BY <1>2, <1>5 DEF CallRow
<1>8. /\ next.phase = call.phase /\ next.kind = call.kind /\ next.by = call.by /\ next.wanted = call.wanted
      /\ next.retries = call.retries /\ next.attempt = call.attempt /\ next.posts = call.posts
      /\ next.afterUnsafe = call.afterUnsafe /\ next.unsafe = call.unsafe /\ next.outcome = call.outcome
      /\ next.content = call.content /\ next.aborted = call.aborted /\ next.limits = used
  BY <1>2 DEF CallRow
<1>9. next.refusal = (answer.kind = "denied")
  BY <1>2, <1>3 DEF CallRow
<1>10. /\ MapProviderHttpError(401, "none", FALSE) \in Failures
       /\ MapProviderHttpError(401, "none", FALSE).code = "AI_AUTHENTICATION_FAILED"
       /\ ~MapProviderHttpError(401, "none", FALSE).retryable
       /\ MapProviderHttpError(503, "none", FALSE) \in Failures /\ Unreachable \in Failures /\ TooLarge \in Failures
       /\ Failure("AI_CAPABILITIES_UNAVAILABLE", FALSE, FALSE) \in Failures
  BY DEF MapProviderHttpError, Unreachable, TooLarge, Failure, Failures, Codes
<1>11. \/ used.kind = "denied" /\ Fail(c, next, MapProviderHttpError(401, "none", FALSE))
       \/ used.kind = "busy" /\ Fail(c, next, MapProviderHttpError(503, "none", FALSE))
       \/ used.kind = "lost" /\ Fail(c, next, Unreachable)
       \/ call.kind = "limits" /\ used.kind = "limits" /\ Succeed(c, next)
       \/ used.kind # "denied" /\ Fail(c, next, Failure("AI_CAPABILITIES_UNAVAILABLE", FALSE, FALSE))
       \/ used.kind # "denied" /\ Fail(c, next, TooLarge)
       \/ /\ used.kind # "denied"
          /\ used.kind = "limits" => Fits(call.content, used.limits)
          /\ aiCalls' = [aiCalls EXCEPT ![c] = [next EXCEPT !.phase = "request", !.posts = @ + 1, !.afterUnsafe = @ + IF call.unsafe THEN 1 ELSE 0]]
          /\ probeRecords' = probeRecords
  <2>1. CASE used.kind = "denied"
    BY <2>1 DEF CapabilitiesAnswered
  <2>2. CASE used.kind = "busy"
    BY <2>2 DEF CapabilitiesAnswered
  <2>3. CASE used.kind = "lost"
    BY <2>3 DEF CapabilitiesAnswered
  <2>4. CASE used.kind \notin {"denied", "busy", "lost"} /\ call.kind = "limits" /\ used.kind = "limits"
    BY <2>4 DEF CapabilitiesAnswered
  <2>5. CASE used.kind \notin {"denied", "busy", "lost"} /\ call.kind = "limits" /\ used.kind # "limits"
    BY <2>5 DEF CapabilitiesAnswered
  <2>6. CASE used.kind \notin {"denied", "busy", "lost"} /\ call.kind # "limits" /\ used.kind = "limits" /\ ~Fits(call.content, used.limits)
    BY <2>6 DEF CapabilitiesAnswered
  <2>7. CASE used.kind \notin {"denied", "busy", "lost"} /\ call.kind # "limits" /\ ~(used.kind = "limits" /\ ~Fits(call.content, used.limits))
    BY <2>7 DEF CapabilitiesAnswered
  <2> QED
    BY <2>1, <2>2, <2>3, <2>4, <2>5, <2>6, <2>7
<1> HIDE DEF next, used, id, call
<1>12. call.kind = aiCalls[c].kind
  BY DEF call
<1>13. ASSUME NEW f \in Failures, Fail(c, next, f), used.kind = "denied" => f.code = "AI_AUTHENTICATION_FAILED" /\ ~f.retryable
       PROVE  AiInv'
  <2>1. next.kind = aiCalls[c].kind /\ ~next.unsafe /\ next.by = next.wanted /\ next.by # NoIdentity
    BY <1>3, <1>8, <1>12
  <2>2. next.afterUnsafe = 0 /\ next.posts <= next.attempt /\ next.attempt <= next.retries + 1
    BY <1>3, <1>8
  <2>3. (next.refusal => f.code = "AI_AUTHENTICATION_FAILED" /\ ~f.retryable) /\ (next.aborted => f.code = "AbortError")
    BY <1>1, <1>5, <1>8, <1>9, <1>13
  <2> QED
    BY <1>1, <1>2, <1>6, <1>7, <1>13, <2>1, <2>2, <2>3, FailStep
<1>14. CASE used.kind = "denied" /\ Fail(c, next, MapProviderHttpError(401, "none", FALSE))
  <2> DEFINE f == MapProviderHttpError(401, "none", FALSE)
  <2>1. f \in Failures /\ f.code = "AI_AUTHENTICATION_FAILED" /\ ~f.retryable /\ Fail(c, next, f)
    BY <1>10, <1>14
  <2> HIDE DEF f
  <2> QED
    BY <1>13, <2>1
<1>15. CASE used.kind = "busy" /\ Fail(c, next, MapProviderHttpError(503, "none", FALSE))
  <2> DEFINE f == MapProviderHttpError(503, "none", FALSE)
  <2>1. f \in Failures /\ Fail(c, next, f)
    BY <1>10, <1>15
  <2> HIDE DEF f
  <2> QED
    BY <1>13, <1>15, <2>1
<1>16. CASE used.kind = "lost" /\ Fail(c, next, Unreachable)
  BY <1>10, <1>13, <1>16
<1>17. CASE call.kind = "limits" /\ used.kind = "limits" /\ Succeed(c, next)
  <2>1. ~next.refusal /\ ~next.aborted /\ next.kind \notin {"startup", "manual"}
    BY <1>1, <1>5, <1>8, <1>9, <1>17
  <2> QED
    BY <1>1, <1>6, <1>7, <1>17, <2>1, SucceedStep
<1>18. CASE used.kind # "denied" /\ Fail(c, next, Failure("AI_CAPABILITIES_UNAVAILABLE", FALSE, FALSE))
  <2> DEFINE f == Failure("AI_CAPABILITIES_UNAVAILABLE", FALSE, FALSE)
  <2>1. f \in Failures /\ Fail(c, next, f)
    BY <1>10, <1>18
  <2> HIDE DEF f
  <2> QED
    BY <1>13, <1>18, <2>1
<1>19. CASE used.kind # "denied" /\ Fail(c, next, TooLarge)
  BY <1>10, <1>13, <1>19
<1>20. CASE /\ used.kind # "denied"
            /\ used.kind = "limits" => Fits(call.content, used.limits)
            /\ aiCalls' = [aiCalls EXCEPT ![c] = [next EXCEPT !.phase = "request", !.posts = @ + 1, !.afterUnsafe = @ + IF call.unsafe THEN 1 ELSE 0]]
            /\ probeRecords' = probeRecords
  <2> DEFINE sent == [next EXCEPT !.phase = "request", !.posts = @ + 1, !.afterUnsafe = @ + IF call.unsafe THEN 1 ELSE 0]
  <2>1. next.posts + 1 \in Nat /\ (next.afterUnsafe + IF call.unsafe THEN 1 ELSE 0) = 0
    BY <1>3, <1>8
  <2>2. sent = [next EXCEPT !.phase = "request", !.posts = next.posts + 1, !.afterUnsafe = 0]
    BY <1>7, <2>1 DEF CallRow
  <2> HIDE DEF sent
  <2>3. sent \in CallRow
    BY <1>7, <2>1, <2>2 DEF CallRow
  <2>4. /\ sent.phase = "request" /\ sent.kind = next.kind /\ sent.by = next.by /\ sent.wanted = next.wanted
        /\ sent.retries = next.retries /\ sent.attempt = next.attempt /\ sent.posts = next.posts + 1
        /\ sent.afterUnsafe = 0 /\ sent.unsafe = next.unsafe /\ sent.outcome = next.outcome
        /\ sent.content = next.content /\ sent.limits = next.limits /\ sent.refusal = next.refusal
    BY <1>7, <2>2 DEF CallRow
  <2>5. ~sent.refusal
    BY <1>5, <1>9, <1>20, <2>4
  <2>6. CallSound(sent)
    BY <1>3, <1>5, <1>8, <1>20, <2>4, <2>5 DEF CallSound
  <2>7. aiCalls' = [aiCalls EXCEPT ![c] = sent]
    BY <1>20 DEF sent
  <2>8. probeRecords' \in Seq(Records) /\ ChecksAreAnswers'
    BY <1>20 DEF AiInv, ChecksAreAnswers
  <2>9. /\ aiProvider' \in Identities /\ hibernateTimer' \in BOOLEAN /\ hibernated' \in BOOLEAN /\ hibernated' = hibernated
        /\ aiSettings' = aiSettings /\ gatewayOpen' = gatewayOpen /\ patches' = patches
    BY <1>1 DEF AiInv, AiTypeOK, Elsewhere
  <2>10. aiCalls[c].phase = "capabilities" /\ sent.kind = aiCalls[c].kind
    BY <1>1, <1>8, <1>12, <2>4 DEF call
  <2> QED
    BY <1>6, <2>3, <2>6, <2>7, <2>8, <2>9, <2>10, CallStep
<1> QED
  BY <1>11, <1>14, <1>15, <1>16, <1>17, <1>18, <1>19, <1>20

\* What the invariant says of every call is what the calls promise.
LEMMA AiInvIsSound == AiInv => AiSound
<1> SUFFICES ASSUME AiInv PROVE AiSound
  OBVIOUS
<1>1. \A c \in AiCalls : aiCalls[c] \in CallRow /\ CallSound(aiCalls[c])
  BY DEF AiInv
<1>2. RetriesAreBounded
  BY <1>1 DEF RetriesAreBounded, CallSound
<1>3. CacheIsOfItsProvider
  BY DEF AiInv, CacheSound, CacheIsOfItsProvider
<1>4. RefusalsAreNotHidden
  BY <1>1 DEF RefusalsAreNotHidden, CallSound
<1>5. SavedSettingsApply
  BY <1>1 DEF SavedSettingsApply, CallSound, UnderWay
<1> QED
  BY <1>2, <1>3, <1>4, <1>5 DEF AiSound, AiInv

\* For any calls, settings and providers: no call sends a request it was told not to send
\* again, nor more often than its retries allow; limits are those of the address that is
\* asked, an authentication failure is never hidden by the cache, what is sent fits; a call
\* goes to the provider that was saved when it began; a probe given up is never the last
\* check; and the server sleeps only while no call waits (getAiProvider, StructuredAiExecutor,
\* installAiRuntimeCapabilitiesCache).
THEOREM AiCallsAreSound == AiSpec => []AiSound
<1>1. AiInit => AiInv
  BY AiBegins
<1>2. AiInv /\ [AiNext]_aiVars => AiInv'
  <2> SUFFICES ASSUME AiInv, [AiNext]_aiVars PROVE AiInv'
    OBVIOUS
  <2>1. CASE (\E p \in Patches : UpdateRuntimeSettings(p)) \/ CloseGateway \/ HibernateTimerFires \/ UNCHANGED aiVars
    BY <2>1, AroundCalls
  <2>2. ASSUME NEW c \in AiCalls,
               \/ \E k \in {"startup", "manual"} : StartProbe(c, k)
               \/ ReadLimits(c)
               \/ \E content \in Contents : StartOperation(c, content)
        PROVE  AiInv'
    BY <2>2, CallsBegin
  <2>3. ASSUME NEW c \in AiCalls, BeginAttempt(c) \/ CallerLeaves(c) PROVE AiInv'
    BY <2>3, CallsGoOn
  <2>4. ASSUME NEW c \in AiCalls, GivenUp(c) \/ \E a \in RequestAnswers \cup ProbeFailures(aiCalls[c].kind) : RequestAnswered(c, a) PROVE AiInv'
    BY <2>4, CallsEnd
  <2>5. ASSUME NEW c \in AiCalls, NEW a \in CapabilityAnswers(aiCalls[c].by.base), CapabilitiesAnswered(c, a) PROVE AiInv'
    BY <2>5, LimitsAnswered
  <2> QED
    BY <2>1, <2>2, <2>3, <2>4, <2>5 DEF AiNext
<1>3. AiInv => AiSound
  BY AiInvIsSound
<1> QED
  BY <1>1, <1>2, <1>3, PTL DEF AiSpec

--------------------------------------------------------------------------------
(* The log of the gateway.                                                 *)

\* The lines of n full files.
Archived(n) == n * MaxLines

\* What the files hold when e events were written: the archives that are not empty are
\* full and come first, and each file goes on where the one after it ends.
FilesHold(files, lines, e) ==
  /\ files \in [1 .. MaxFiles -> Seq(1 .. MaxEvents)]
  /\ lines = Len(files[1]) /\ lines <= MaxLines
  /\ e > 0 => lines > 0
  /\ \E m \in 0 .. MaxFiles - 1 :
       /\ \A i \in 2 .. MaxFiles : Len(files[i]) = IF i <= m + 1 THEN MaxLines ELSE 0
       /\ \A i \in 1 .. MaxFiles : \A j \in 1 .. Len(files[i]) : files[i][j] = e - lines - Archived(i - 1) + j
       /\ m < MaxFiles - 1 => e = lines + Archived(m)

LogInv ==
  /\ LogTypeOK
  /\ FilesHold(logFiles, lineCount, events)
  /\ DuplicatesAccounted /\ ClientLogsLimited

LEMMA ArchivedIs ==
  /\ Archived(0) = 0
  /\ \A n \in Nat : Archived(n) \in Nat /\ Archived(n + 1) = Archived(n) + MaxLines
<1>1. ASSUME NEW n \in Nat PROVE n * MaxLines \in Nat /\ (n + 1) * MaxLines = n * MaxLines + MaxLines
  BY LogAssumption
<1> QED
  BY <1>1, LogAssumption DEF Archived

\* One event more, into the current file or into a new one after a rotation.
LEMMA OneEvent ==
  ASSUME NEW files, NEW lines, NEW e \in Nat, e + 1 \in 1 .. MaxEvents, FilesHold(files, lines, e)
  PROVE  LET full == lines + 1 > MaxLines
             base == IF full THEN Rotated(files) ELSE files
         IN FilesHold([base EXCEPT ![1] = Append(@, e + 1)], (IF full THEN 0 ELSE lines) + 1, e + 1)
<1> USE LogAssumption
<1>1. lines = Len(files[1]) /\ lines <= MaxLines /\ 1 \in 1 .. MaxFiles
  BY DEF FilesHold
<1>t. files \in [1 .. MaxFiles -> Seq(1 .. MaxEvents)]
  BY DEF FilesHold
<1>2. PICK m \in 0 .. MaxFiles - 1 :
        /\ \A i \in 2 .. MaxFiles : Len(files[i]) = IF i <= m + 1 THEN MaxLines ELSE 0
        /\ \A i \in 1 .. MaxFiles : \A j \in 1 .. Len(files[i]) : files[i][j] = e - lines - Archived(i - 1) + j
        /\ m < MaxFiles - 1 => e = lines + Archived(m)
  BY DEF FilesHold
<1>3. lines \in Nat /\ \A i \in 1 .. MaxFiles : Len(files[i]) \in Nat
  BY <1>1, <1>t
<1>4. CASE lines + 1 > MaxLines
  <2> DEFINE new == [Rotated(files) EXCEPT ![1] = Append(@, e + 1)]
             more == IF m < MaxFiles - 1 THEN m + 1 ELSE m
  <2>1. lines = MaxLines
    BY <1>1, <1>3, <1>4
  <2>2. new[1] = <<e + 1>> /\ \A i \in 2 .. MaxFiles : new[i] = files[i - 1]
    BY <1>1 DEF Rotated
  <2>t. new \in [1 .. MaxFiles -> Seq(1 .. MaxEvents)]
    <3>1. Rotated(files) \in [1 .. MaxFiles -> Seq(1 .. MaxEvents)]
      <4>1. \A i \in 1 .. MaxFiles : i # 1 => i - 1 \in 1 .. MaxFiles
        OBVIOUS
      <4>2. \A i \in 1 .. MaxFiles : (IF i = 1 THEN <<>> ELSE files[i - 1]) \in Seq(1 .. MaxEvents)
        <5>1. <<>> \in Seq(1 .. MaxEvents) /\ \A i \in 1 .. MaxFiles : files[i] \in Seq(1 .. MaxEvents)
          BY <1>t
        <5> QED
          BY ONLY <4>1, <5>1, Zenon
      <4> QED
        BY <4>2 DEF Rotated
    <3> QED
      BY <3>1
  <2>3. /\ more \in 0 .. MaxFiles - 1 /\ more >= 1
        /\ m < MaxFiles - 1 => more = m + 1
        /\ m >= MaxFiles - 1 => more = m /\ m = MaxFiles - 1
    BY <1>2
  <2> HIDE DEF new, more
  <2>4. ASSUME NEW i \in 2 .. MaxFiles PROVE Len(new[i]) = IF i <= more + 1 THEN MaxLines ELSE 0
    <3>1. CASE i = 2
      <4>1. new[i] = files[1] /\ i <= more + 1
        BY <2>2, <2>3, <3>1
      <4> QED
        BY <1>1, <2>1, <4>1
    <3>2. CASE i > 2
      <4>1. i - 1 \in 2 .. MaxFiles /\ new[i] = files[i - 1]
        BY <2>2, <3>2
      <4>2. Len(files[i - 1]) = IF i - 1 <= m + 1 THEN MaxLines ELSE 0
        BY <1>2, <4>1
      <4> QED
        BY <1>2, <2>3, <4>1, <4>2
    <3> QED
      BY <3>1, <3>2
  <2>5. ASSUME NEW i \in 1 .. MaxFiles PROVE \A j \in 1 .. Len(new[i]) : new[i][j] = (e + 1) - 1 - Archived(i - 1) + j
    <3>1. CASE i = 1
      <4>1. new[i] = <<e + 1>> /\ Archived(i - 1) = 0
        BY <2>2, <3>1, ArchivedIs
      <4> QED
        BY <4>1
    <3>2. CASE i > 1
      <4>1. i - 1 \in 1 .. MaxFiles /\ new[i] = files[i - 1]
        BY <2>2, <3>2
      <4>2. \A j \in 1 .. Len(files[i - 1]) : files[i - 1][j] = e - lines - Archived((i - 1) - 1) + j
        BY <1>2, <4>1
      <4>3. Archived((i - 1) - 1) = Archived(i - 1) - MaxLines /\ Archived(i - 1) \in Nat
        <5>1. (i - 1) - 1 \in Nat /\ ((i - 1) - 1) + 1 = i - 1 /\ i - 1 \in Nat
          BY <3>2
        <5> QED
          BY <5>1, ArchivedIs
      <4>4. Len(files[i - 1]) \in Nat
        BY <1>3, <4>1
      <4> DEFINE a == Archived(i - 1)
                 b == Archived((i - 1) - 1)
                 f == files[i - 1]
      <4>5. f = new[i] /\ b = a - MaxLines /\ a \in Nat /\ Len(f) \in Nat /\ \A j \in 1 .. Len(f) : f[j] = e - lines - b + j
        BY <4>1, <4>2, <4>3, <4>4
      <4> HIDE DEF a, b, f
      <4>6. \A j \in 1 .. Len(f) : f[j] = (e + 1) - 1 - a + j
        <5>1. e \in Nat /\ lines = MaxLines /\ MaxLines \in Nat
          BY <1>3, <2>1, LogAssumption
        <5>2. SUFFICES ASSUME NEW j \in 1 .. Len(f) PROVE f[j] = (e + 1) - 1 - a + j
          OBVIOUS
        <5>3. f[j] = e - lines - b + j /\ b = a - MaxLines /\ a \in Nat /\ j \in Int
          BY <4>5
        <5> QED
          BY <5>1, <5>3
      <4>7. \A j \in 1 .. Len(new[i]) : new[i][j] = (e + 1) - 1 - a + j
        BY <4>5, <4>6
      <4> QED
        BY <4>7 DEF a
    <3> QED
      BY <3>1, <3>2
  <2>6. more < MaxFiles - 1 => e + 1 = 1 + Archived(more)
    <3>1. Archived(m + 1) = Archived(m) + MaxLines /\ Archived(m) \in Nat
      BY ArchivedIs
    <3> QED
      BY <1>2, <2>1, <2>3, <3>1
  <2>7. FilesHold(new, 1, e + 1)
    <3>1. \E k \in 0 .. MaxFiles - 1 :
            /\ \A i \in 2 .. MaxFiles : Len(new[i]) = IF i <= k + 1 THEN MaxLines ELSE 0
            /\ \A i \in 1 .. MaxFiles : \A j \in 1 .. Len(new[i]) : new[i][j] = (e + 1) - 1 - Archived(i - 1) + j
            /\ k < MaxFiles - 1 => e + 1 = 1 + Archived(k)
      BY <2>3, <2>4, <2>5, <2>6
    <3>2. 1 = Len(new[1]) /\ 1 <= MaxLines /\ 1 > 0
      BY <2>2
    <3> QED
      BY ONLY <2>t, <3>1, <3>2, Zenon DEF FilesHold
  <2> QED
    BY <1>4, <2>7 DEF new
<1>5. CASE ~(lines + 1 > MaxLines)
  <2> DEFINE new == [files EXCEPT ![1] = Append(@, e + 1)]
  <2>1. new[1] = Append(files[1], e + 1) /\ \A i \in 2 .. MaxFiles : new[i] = files[i]
    BY <1>1, <1>t
  <2>t. new \in [1 .. MaxFiles -> Seq(1 .. MaxEvents)]
    BY <1>t
  <2> HIDE DEF new
  <2>a. files[1] \in Seq(1 .. MaxEvents)
    BY <1>1, <1>t
  <2>2. Len(new[1]) = lines + 1 /\ lines + 1 <= MaxLines
    BY <1>1, <1>3, <1>5, <2>1, <2>a
  <2>3. ASSUME NEW i \in 1 .. MaxFiles PROVE \A j \in 1 .. Len(new[i]) : new[i][j] = (e + 1) - (lines + 1) - Archived(i - 1) + j
    <3>1. CASE i = 1
      <4>1. Archived(i - 1) = 0
        BY <3>1, ArchivedIs
      <4>2. \A j \in 1 .. lines : files[1][j] = e - lines + j
        <5> DEFINE a == Archived(i - 1)
                   f == files[1]
        <5>1. Len(f) = lines /\ a = 0 /\ \A j \in 1 .. Len(f) : f[j] = e - lines - a + j
          BY <1>1, <1>2, <3>1, <4>1
        <5> HIDE DEF a, f
        <5>2. \A j \in 1 .. lines : f[j] = e - lines + j
          BY ONLY <1>3, <5>1, e \in Nat
        <5> QED
          BY <5>2 DEF f
      <4>3. ASSUME NEW j \in 1 .. lines + 1 PROVE new[1][j] = e - lines + j
        <5>1. new[1][j] = IF j = lines + 1 THEN e + 1 ELSE files[1][j]
          BY <1>1, <2>1, <2>a
        <5> QED
          BY <1>3, <4>2, <5>1
      <4>4. ASSUME NEW j \in 1 .. lines + 1 PROVE new[1][j] = (e + 1) - (lines + 1) - 0 + j
        <5>1. new[1][j] = e - lines + j
          BY <4>3
        <5> QED
          BY ONLY <1>3, <5>1, e \in Nat, j \in 1 .. lines + 1
      <4> QED
        BY ONLY <2>2, <3>1, <4>1, <4>4, Zenon
    <3>2. CASE i > 1
      <4>1. new[i] = files[i] /\ Archived(i - 1) \in Nat
        <5>1. i \in 2 .. MaxFiles /\ i - 1 \in Nat
          BY <3>2
        <5> QED
          BY <2>1, <5>1, ArchivedIs
      <4>2. \A j \in 1 .. Len(files[i]) : files[i][j] = e - lines - Archived(i - 1) + j
        BY <1>2
      <4>3. Len(files[i]) \in Nat
        BY <1>3
      <4> QED
        BY <1>3, <4>1, <4>2, <4>3
    <3> QED
      BY <3>1, <3>2
  <2>4. \A i \in 2 .. MaxFiles : Len(new[i]) = IF i <= m + 1 THEN MaxLines ELSE 0
    BY <1>2, <2>1
  <2>5. m < MaxFiles - 1 => e + 1 = (lines + 1) + Archived(m)
    <3>1. Archived(m) \in Nat
      BY ArchivedIs
    <3> QED
      BY <1>2, <1>3, <3>1
  <2>6. FilesHold(new, lines + 1, e + 1)
    <3>1. \E k \in 0 .. MaxFiles - 1 :
            /\ \A i \in 2 .. MaxFiles : Len(new[i]) = IF i <= k + 1 THEN MaxLines ELSE 0
            /\ \A i \in 1 .. MaxFiles : \A j \in 1 .. Len(new[i]) :
                 new[i][j] = (e + 1) - (lines + 1) - Archived(i - 1) + j
            /\ k < MaxFiles - 1 => e + 1 = (lines + 1) + Archived(k)
      BY <2>3, <2>4, <2>5
    <3>2. lines + 1 > 0
      BY <1>3
    <3> QED
      BY <2>2, <2>t, <3>1, <3>2 DEF FilesHold
  <2> QED
    BY <1>5, <2>6 DEF new
<1> QED
  BY <1>4, <1>5

\* The store after one event more, and after each of the first n events of a batch.
NextStore(before, number) ==
  LET full  == before.lines + 1 > MaxLines
      files == IF full THEN Rotated(before.files) ELSE before.files
  IN [files |-> [files EXCEPT ![1] = Append(@, number)],
      lines |-> (IF full THEN 0 ELSE before.lines) + 1]

Stores(n, g) ==
  g = [k \in 0 .. n |-> IF k = 0 THEN [files |-> logFiles, lines |-> lineCount] ELSE NextStore(g[k - 1], events + k)]

\* One more event has a store if the events before it have.
LEMMA StoresExist == \A n \in Nat : \E g : Stores(n, g)
<1> DEFINE S == {n \in Nat : \E g : Stores(n, g)}
<1>1. 0 \in S
  <2>1. Stores(0, [k \in 0 .. 0 |-> [files |-> logFiles, lines |-> lineCount]])
    BY DEF Stores
  <2> QED
    BY <2>1
<1>2. ASSUME NEW n \in Nat, n \in S PROVE n + 1 \in S
  <2>1. PICK g : Stores(n, g)
    BY <1>2
  <2> DEFINE h == [k \in 0 .. n + 1 |-> IF k = n + 1 THEN NextStore(g[n], events + (n + 1)) ELSE g[k]]
  <2>2. Stores(n + 1, h)
    BY <2>1 DEF Stores
  <2> QED
    BY <2>2
<1> HIDE DEF S
<1>3. \A n \in Nat : n \in S
  BY <1>1, <1>2, SetInduction
<1> QED
  BY <1>3 DEF S

\* A batch, however it is cut by rotations, leaves files that hold every event so far.
LEMMA BatchKeeps ==
  ASSUME NEW n \in Nat, AppendEvents(n), events \in Nat, MaxEvents \in Nat, FilesHold(logFiles, lineCount, events)
  PROVE  FilesHold(logFiles', lineCount', events')
<1> DEFINE f == CHOOSE g : g = [k \in 0 .. n |->
                  IF k = 0 THEN [files |-> logFiles, lines |-> lineCount]
                  ELSE LET before == g[k - 1]
                           full   == before.lines + 1 > MaxLines
                           files  == IF full THEN Rotated(before.files) ELSE before.files
                       IN [files |-> [files EXCEPT ![1] = Append(@, events + k)],
                           lines |-> (IF full THEN 0 ELSE before.lines) + 1]]
<1>1. Stores(n, f)
  BY StoresExist DEF Stores, NextStore
<1>2. Appended(n) = f[n]
  BY DEF Appended
<1> HIDE DEF f
<1>3. f[0] = [files |-> logFiles, lines |-> lineCount]
  BY <1>1 DEF Stores
<1>4. ASSUME NEW k \in Nat, k + 1 <= n PROVE f[k + 1] = NextStore(f[k], events + (k + 1))
  <2>1. k + 1 \in 0 .. n /\ k + 1 # 0 /\ (k + 1) - 1 = k
    BY <1>4
  <2> QED
    BY <1>1, <2>1 DEF Stores
<1> DEFINE S == {k \in Nat : k <= n => FilesHold(f[k].files, f[k].lines, events + k)}
<1>5. 0 \in S
  <2>1. events + 0 = events
    OBVIOUS
  <2> QED
    BY <1>3, <2>1
<1>6. ASSUME NEW k \in Nat, k \in S PROVE k + 1 \in S
  <2> SUFFICES ASSUME k + 1 <= n PROVE FilesHold(f[k + 1].files, f[k + 1].lines, events + (k + 1))
    OBVIOUS
  <2> DEFINE e == events + k
             full == f[k].lines + 1 > MaxLines
             base == IF full THEN Rotated(f[k].files) ELSE f[k].files
  <2>1. e \in Nat /\ e + 1 \in 1 .. MaxEvents /\ e + 1 = events + (k + 1) /\ FilesHold(f[k].files, f[k].lines, e)
    BY <1>6 DEF AppendEvents
  <2>2. f[k + 1] = NextStore(f[k], e + 1)
    BY <1>4, <2>1
  <2> HIDE DEF e
  <2>3. FilesHold([base EXCEPT ![1] = Append(@, e + 1)], (IF full THEN 0 ELSE f[k].lines) + 1, e + 1)
    BY <2>1, OneEvent
  <2> QED
    BY <2>1, <2>2, <2>3 DEF NextStore
<1> HIDE DEF S
<1>7. \A k \in Nat : k \in S
  BY <1>5, <1>6, SetInduction
<1>8. FilesHold(f[n].files, f[n].lines, events + n)
  BY <1>7 DEF S
<1> QED
  BY <1>2, <1>8 DEF AppendEvents

\* The archives that are read before the newest i - 1 of a tail, of which the first are empty.
FullAmong(i, m) == IF i + m + 1 > MaxFiles THEN i + m + 1 - MaxFiles ELSE 0

\* The files joined so far.
Joins(n, g) == g = [i \in 0 .. n |-> IF i = 0 THEN <<>> ELSE g[i - 1] \o logFiles[MaxFiles + 1 - i]]

LEMMA JoinsExist == \A n \in Nat : \E g : Joins(n, g)
<1> DEFINE S == {n \in Nat : \E g : Joins(n, g)}
<1>1. 0 \in S
  <2>1. Joins(0, [i \in 0 .. 0 |-> <<>>])
    BY DEF Joins
  <2> QED
    BY <2>1
<1>2. ASSUME NEW n \in Nat, n \in S PROVE n + 1 \in S
  <2>1. PICK g : Joins(n, g)
    BY <1>2
  <2> DEFINE h == [i \in 0 .. n + 1 |-> IF i = n + 1 THEN g[n] \o logFiles[MaxFiles + 1 - (n + 1)] ELSE g[i]]
  <2>2. Joins(n + 1, h)
    BY <2>1 DEF Joins
  <2> QED
    BY <2>2
<1> HIDE DEF S
<1>3. \A n \in Nat : n \in S
  BY <1>1, <1>2, SetInduction
<1> QED
  BY <1>3 DEF S

\* A sequence of the n numbers after a, which goes on with those after a + n.
Run(s, a, n) == s \in Seq(Int) /\ Len(s) = n /\ \A j \in 1 .. n : s[j] = a + j

LEMMA RunsJoin ==
  ASSUME NEW a \in Int, NEW n \in Nat, NEW k \in Nat, NEW s, NEW t, Run(s, a, n), Run(t, a + n, k)
  PROVE  Run(s \o t, a, n + k)
<1>1. s \o t \in Seq(Int) /\ Len(s \o t) = n + k
  <2>1. s \in Seq(Int) /\ t \in Seq(Int) /\ Len(s) = n /\ Len(t) = k
    BY DEF Run
  <2> QED
    BY ONLY <2>1
<1> USE DEF Run
<1>2. ASSUME NEW j \in 1 .. n + k PROVE (s \o t)[j] = a + j
  <2>1. CASE j <= n
    BY <2>1
  <2>2. CASE j > n
    <3>1. (s \o t)[j] = t[j - n] /\ j - n \in 1 .. k
      BY <2>2
    <3> QED
      BY <3>1
  <2> QED
    BY <2>1, <2>2
<1> QED
  BY <1>1, <1>2

LEMMA ArchivedAdds == ASSUME NEW a \in Nat, NEW b \in Nat PROVE Archived(a + b) = Archived(a) + Archived(b)
<1>1. (a + b) * MaxLines = a * MaxLines + b * MaxLines
  BY LogAssumption
<1> QED
  BY <1>1 DEF Archived

\* Read from the last archive on, such files are the newest events, in order.
LEMMA TailIsSuffix ==
  ASSUME events \in Nat, FilesHold(logFiles, lineCount, events)
  PROVE  LogIsSuffix
<1> USE LogAssumption
<1> DEFINE joined == CHOOSE g : g = [i \in 0 .. MaxFiles |-> IF i = 0 THEN <<>> ELSE g[i - 1] \o logFiles[MaxFiles + 1 - i]]
<1>1. Joins(MaxFiles, joined)
  BY JoinsExist DEF Joins
<1>2. ReadTail = joined[MaxFiles]
  BY DEF ReadTail
<1> HIDE DEF joined
<1>3. joined[0] = <<>>
  BY <1>1 DEF Joins
<1>a. ASSUME NEW i \in Nat, i + 1 <= MaxFiles PROVE joined[i + 1] = joined[i] \o logFiles[MaxFiles - i]
  <2>1. i + 1 \in 0 .. MaxFiles /\ i + 1 # 0 /\ (i + 1) - 1 = i /\ MaxFiles + 1 - (i + 1) = MaxFiles - i
    BY <1>a
  <2> QED
    BY <1>1, <2>1 DEF Joins
<1>4. lineCount = Len(logFiles[1]) /\ (events > 0 => lineCount > 0)
  BY DEF FilesHold
<1>5. \A i \in 1 .. MaxFiles : logFiles[i] \in Seq(Int) /\ Len(logFiles[i]) \in Nat
  <2>1. logFiles \in [1 .. MaxFiles -> Seq(1 .. MaxEvents)]
    BY DEF FilesHold
  <2>2. ASSUME NEW i \in 1 .. MaxFiles PROVE logFiles[i] \in Seq(Int) /\ Len(logFiles[i]) \in Nat
    <3>1. logFiles[i] \in Seq(1 .. MaxEvents)
      BY <2>1
    <3> QED
      BY <3>1
  <2> QED
    BY <2>2
<1>6. PICK m \in 0 .. MaxFiles - 1 :
        /\ \A i \in 2 .. MaxFiles : Len(logFiles[i]) = IF i <= m + 1 THEN MaxLines ELSE 0
        /\ \A i \in 1 .. MaxFiles : \A j \in 1 .. Len(logFiles[i]) : logFiles[i][j] = events - lineCount - Archived(i - 1) + j
        /\ m < MaxFiles - 1 => events = lineCount + Archived(m)
  BY DEF FilesHold
<1>7. lineCount \in Nat /\ m \in Nat /\ Archived(m) \in Nat /\ 1 \in 1 .. MaxFiles
  <2>1. 1 \in 1 .. MaxFiles /\ m \in Nat
    OBVIOUS
  <2> QED
    BY <1>4, <1>5, <2>1, ArchivedIs
<1> DEFINE a == events - lineCount - Archived(m)
           S == {i \in Nat : i <= MaxFiles - 1 => Run(joined[i], a, Archived(FullAmong(i, m)))}
<1>8. a \in Int
  BY <1>7
<1>b. ASSUME NEW i \in 1 .. MaxFiles PROVE Run(logFiles[i], events - lineCount - Archived(i - 1), Len(logFiles[i]))
  BY <1>5, <1>6 DEF Run
<1>9. 0 \in S
  <2>1. FullAmong(0, m) = 0 /\ Archived(0) = 0
    BY ArchivedIs DEF FullAmong
  <2>2. Run(<<>>, a, 0)
    BY DEF Run
  <2> QED
    BY <1>3, <2>1, <2>2
<1>10. ASSUME NEW i \in Nat, i \in S PROVE i + 1 \in S
  <2> SUFFICES ASSUME i + 1 <= MaxFiles - 1 PROVE Run(joined[i + 1], a, Archived(FullAmong(i + 1, m)))
    OBVIOUS
  <2> DEFINE k == MaxFiles - i
             c == FullAmong(i, m)
             f == logFiles[k]
  <2>1. k \in 2 .. MaxFiles /\ k \in 1 .. MaxFiles /\ k - 1 \in Nat
    OBVIOUS
  <2>2. Run(joined[i], a, Archived(c))
    BY <1>10
  <2>3. joined[i + 1] = joined[i] \o f
    <3>1. i + 1 <= MaxFiles
      OBVIOUS
    <3> QED
      BY <1>a, <3>1, Zenon
  <2>4. Len(f) = (IF k <= m + 1 THEN MaxLines ELSE 0) /\ Run(f, events - lineCount - Archived(k - 1), Len(f))
    BY <1>6, <1>b, <2>1
  <2>5. CASE k <= m + 1
    <3>1. c \in Nat /\ c + (k - 1) = m /\ FullAmong(i + 1, m) = c + 1
      BY <2>5 DEF FullAmong
    <3>2. Archived(c + (k - 1)) = Archived(c) + Archived(k - 1)
      BY <2>1, <3>1, ArchivedAdds
    <3>3. Archived(c) \in Nat /\ Archived(k - 1) \in Nat /\ Archived(c + 1) = Archived(c) + MaxLines
      BY <2>1, <3>1, ArchivedIs
    <3>4. events - lineCount - Archived(k - 1) = a + Archived(c)
      BY <1>7, <3>1, <3>2, <3>3
    <3> HIDE DEF a
    <3>5. Run(f, a + Archived(c), MaxLines)
      BY <2>4, <2>5, <3>4
    <3> HIDE DEF k, c, f
    <3>6. Run(joined[i] \o f, a, Archived(c) + MaxLines)
      BY <1>8, <2>2, <3>3, <3>5, RunsJoin
    <3> QED
      BY <2>3, <3>1, <3>3, <3>6
  <2>6. CASE k > m + 1
    <3>1. FullAmong(i + 1, m) = 0 /\ c = 0 /\ Archived(0) = 0
      BY <2>6, ArchivedIs DEF FullAmong
    <3>2. Len(f) = 0
      BY <2>4, <2>6
    <3> HIDE DEF a
    <3>3. Run(f, a + 0, 0)
      BY <2>4, <3>2 DEF Run
    <3> HIDE DEF k, c, f
    <3>4. Run(joined[i] \o f, a, 0 + 0)
      BY <1>8, <2>2, <3>1, <3>3, RunsJoin
    <3> QED
      BY <2>3, <3>1, <3>4
  <2> QED
    BY <2>1, <2>5, <2>6
<1> HIDE DEF S
<1>11. \A i \in Nat : i \in S
  BY <1>9, <1>10, SetInduction
<1>12. Run(joined[MaxFiles - 1], a, Archived(m))
  <2>1. MaxFiles - 1 \in Nat /\ FullAmong(MaxFiles - 1, m) = m
    BY DEF FullAmong
  <2> QED
    BY <1>11, <2>1 DEF S
<1>13. ReadTail = joined[MaxFiles - 1] \o logFiles[1]
  <2>1. MaxFiles - 1 \in Nat /\ (MaxFiles - 1) + 1 = MaxFiles /\ MaxFiles - (MaxFiles - 1) = 1
    OBVIOUS
  <2>2. joined[(MaxFiles - 1) + 1] = joined[MaxFiles - 1] \o logFiles[MaxFiles - (MaxFiles - 1)]
    <3>1. (MaxFiles - 1) + 1 <= MaxFiles
      OBVIOUS
    <3> QED
      BY <1>a, <2>1, <3>1, Zenon
  <2> QED
    BY <1>2, <2>1, <2>2
<1>14. Run(ReadTail, a, Archived(m) + lineCount)
  <2>1. Archived(1 - 1) = 0 /\ events - lineCount - 0 = a + Archived(m)
    BY <1>7, ArchivedIs
  <2>2. Run(logFiles[1], a + Archived(m), lineCount)
    BY <1>4, <1>7, <1>b, <2>1
  <2> HIDE DEF a
  <2> QED
    BY <1>7, <1>8, <1>12, <1>13, <2>2, RunsJoin
<1>15. events - Len(ReadTail) = a
  BY <1>7, <1>14 DEF Run
<1>16. ReadTail = [i \in 1 .. Len(ReadTail) |-> events - Len(ReadTail) + i]
  <2>1. ReadTail \in Seq(Int) /\ \A j \in 1 .. Len(ReadTail) : ReadTail[j] = events - Len(ReadTail) + j
    BY <1>14, <1>15 DEF Run
  <2> QED
    BY <2>1
<1>17. events > Len(ReadTail) => Len(ReadTail) > (MaxFiles - 1) * MaxLines
  <2> SUFFICES ASSUME events > Len(ReadTail) PROVE Len(ReadTail) > Archived(MaxFiles - 1)
    BY DEF Archived
  <2>1. Len(ReadTail) = Archived(m) + lineCount
    BY <1>14 DEF Run
  <2>2. m = MaxFiles - 1 /\ lineCount > 0
    BY <1>4, <1>6, <1>7, <2>1
  <2> QED
    BY <1>7, <2>1, <2>2
<1> QED
  BY <1>16, <1>17 DEF LogIsSuffix

\* Every step keeps the files, the counters and the window.
LEMMA LogStarts == LogInit => LogInv
<1> SUFFICES ASSUME LogInit PROVE LogInv
  OBVIOUS
<1> USE LogAssumption
<1>1. LogTypeOK
  BY DEF LogInit, LogTypeOK, NoBatch
<1>2. FilesHold(logFiles, lineCount, events)
  <2>1. /\ logFiles \in [1 .. MaxFiles -> Seq(1 .. MaxEvents)] /\ 1 \in 1 .. MaxFiles
        /\ \A i \in 1 .. MaxFiles : Len(logFiles[i]) = 0
    BY DEF LogInit
  <2>2. lineCount = 0 /\ events = 0 /\ Archived(0) = 0
    BY ArchivedIs DEF LogInit
  <2>3. \A i \in 2 .. MaxFiles : Len(logFiles[i]) = IF i <= 0 + 1 THEN MaxLines ELSE 0
    BY <2>1
  <2>4. \E m \in 0 .. MaxFiles - 1 :
          /\ \A i \in 2 .. MaxFiles : Len(logFiles[i]) = IF i <= m + 1 THEN MaxLines ELSE 0
          /\ \A i \in 1 .. MaxFiles : \A j \in 1 .. Len(logFiles[i]) : logFiles[i][j] = events - lineCount - Archived(i - 1) + j
          /\ m < MaxFiles - 1 => events = lineCount + Archived(m)
    BY <2>1, <2>2, <2>3
  <2> QED
    BY <2>1, <2>2, <2>4 DEF FilesHold
<1> QED
  BY <1>1, <1>2 DEF LogInv, LogInit, DuplicatesAccounted, ClientLogsLimited

\* What a batch leaves has the types of the log.
LEMMA BatchTypes ==
  ASSUME LogInv, NEW n \in Nat, AppendEvents(n)
  PROVE  /\ logFiles' \in [1 .. MaxFiles -> Seq(1 .. MaxEvents)] /\ lineCount' \in Nat /\ events' \in 0 .. MaxEvents
         /\ FilesHold(logFiles', lineCount', events')
<1>1. events \in Nat /\ MaxEvents \in Nat
  BY LogAssumption DEF LogInv, LogTypeOK
<1>2. FilesHold(logFiles', lineCount', events')
  BY <1>1, BatchKeeps DEF LogInv
<1>3. events' \in 0 .. MaxEvents
  BY <1>1 DEF AppendEvents
<1>4. logFiles' \in [1 .. MaxFiles -> Seq(1 .. MaxEvents)] /\ lineCount' = Len(logFiles'[1])
  BY <1>2 DEF FilesHold
<1>5. lineCount' \in Nat
  <2>1. logFiles'[1] \in Seq(1 .. MaxEvents)
    BY <1>4, LogAssumption
  <2> QED
    BY <1>4, <2>1
<1> QED
  BY <1>2, <1>3, <1>4, <1>5

LEMMA LogStep == LogInv /\ [LogNext]_logVars => LogInv'
<1> SUFFICES ASSUME LogInv, [LogNext]_logVars PROVE LogInv'
  OBVIOUS
<1> USE LogAssumption
<1>0. /\ logFiles \in [1 .. MaxFiles -> Seq(1 .. MaxEvents)] /\ lineCount \in Nat
      /\ events \in 0 .. MaxEvents
      /\ duplicates \in [LogKeys -> [at : 0 .. MaxTime, count : Nat, known : BOOLEAN]]
      /\ calls \in [LogKeys -> [made : Nat, shown : Nat]]
      /\ window \in [started : 0 .. MaxTime, count : Nat]
      /\ openBatches \in [LogRequests -> [size : Batches \cup {0}, seen : Nat]]
      /\ clock \in 0 .. MaxTime
  BY DEF LogInv, LogTypeOK
<1>d. duplicates \in [LogKeys -> [at : 0 .. MaxTime, count : Nat, known : BOOLEAN]] /\ clock \in 0 .. MaxTime
  BY <1>0
<1>c. calls \in [LogKeys -> [made : Nat, shown : Nat]]
  BY <1>0
<1>w. window \in [started : 0 .. MaxTime, count : Nat]
  BY <1>0
<1>1. FilesHold(logFiles, lineCount, events) /\ DuplicatesAccounted /\ ClientLogsLimited
  BY DEF LogInv
<1>2. ASSUME NEW k \in LogKeys, WriteEvent(k) PROVE LogInv'
  <2>1. window' = window /\ openBatches' = openBatches /\ clock' = clock
    BY <1>2 DEF WriteEvent
  <2>2. duplicates[k].count \in Nat /\ calls[k].made = calls[k].shown + duplicates[k].count /\ calls[k].shown \in Nat
    BY <1>0, <1>1 DEF DuplicatesAccounted
  <2>3. CASE duplicates[k].known /\ clock - duplicates[k].at <= DuplicateWindow
    <3>1. /\ duplicates' = [duplicates EXCEPT ![k] = CountDuplicate(k)]
          /\ calls' = [calls EXCEPT ![k].made = @ + 1] /\ UNCHANGED <<logFiles, lineCount, events>>
      BY <1>2, <2>3 DEF WriteEvent
    <3>2. duplicates[k].count + 1 \in Nat /\ calls[k].made + 1 \in Nat
      BY <2>2
    <3>3. duplicates' \in [LogKeys -> [at : 0 .. MaxTime, count : Nat, known : BOOLEAN]]
      <4>1. CountDuplicate(k) \in [at : 0 .. MaxTime, count : Nat, known : BOOLEAN]
        BY <1>d, <3>2 DEF CountDuplicate
      <4> QED
        BY <1>d, <3>1, <4>1
    <3>4. calls' \in [LogKeys -> [made : Nat, shown : Nat]]
      BY <1>c, <3>1, <3>2
    <3>5. DuplicatesAccounted'
      <4> SUFFICES ASSUME NEW x \in LogKeys PROVE calls'[x].made = calls'[x].shown + duplicates'[x].count
        BY DEF DuplicatesAccounted
      <4>1. CASE x = k
        <5>1. calls'[k].made = calls[k].made + 1 /\ calls'[k].shown = calls[k].shown
          BY <1>c, <3>1
        <5>2. duplicates'[k].count = duplicates[k].count + 1
          BY <1>d, <3>1 DEF CountDuplicate
        <5> QED
          BY <2>2, <4>1, <5>1, <5>2
      <4>2. CASE x # k
        BY <1>0, <1>1, <3>1, <4>2 DEF DuplicatesAccounted
      <4> QED
        BY <4>1, <4>2
    <3> QED
      BY <1>0, <1>1, <2>1, <3>1, <3>3, <3>4, <3>5 DEF LogInv, LogTypeOK, ClientLogsLimited
  <2>4. CASE ~(duplicates[k].known /\ clock - duplicates[k].at <= DuplicateWindow)
    <3>1. /\ AppendEvents(1)
          /\ calls' = [calls EXCEPT ![k].made = @ + 1, ![k].shown = @ + 1 + duplicates[k].count]
          /\ duplicates' = [duplicates EXCEPT ![k] = [at |-> clock, count |-> 0, known |-> TRUE]]
      BY <1>2, <2>4 DEF WriteEvent
    <3>2. /\ logFiles' \in [1 .. MaxFiles -> Seq(1 .. MaxEvents)] /\ lineCount' \in Nat /\ events' \in 0 .. MaxEvents
          /\ FilesHold(logFiles', lineCount', events')
      BY <3>1, BatchTypes
    <3>3. calls[k].made + 1 \in Nat /\ calls[k].shown + 1 + duplicates[k].count \in Nat
      BY <2>2
    <3>4. duplicates' \in [LogKeys -> [at : 0 .. MaxTime, count : Nat, known : BOOLEAN]]
      BY <1>d, <3>1
    <3>5. calls' \in [LogKeys -> [made : Nat, shown : Nat]]
      BY <1>c, <3>1, <3>3
    <3>6. DuplicatesAccounted'
      <4> SUFFICES ASSUME NEW x \in LogKeys PROVE calls'[x].made = calls'[x].shown + duplicates'[x].count
        BY DEF DuplicatesAccounted
      <4>1. CASE x = k
        <5>1. calls'[k].made = calls[k].made + 1 /\ calls'[k].shown = calls[k].shown + 1 + duplicates[k].count
          BY <1>c, <3>1
        <5>2. duplicates'[k].count = 0
          BY <1>d, <3>1
        <5> QED
          BY <2>2, <4>1, <5>1, <5>2
      <4>2. CASE x # k
        BY <1>0, <1>1, <3>1, <4>2 DEF DuplicatesAccounted
      <4> QED
        BY <4>1, <4>2
    <3> QED
      BY <1>0, <1>1, <2>1, <3>2, <3>4, <3>5, <3>6 DEF LogInv, LogTypeOK, ClientLogsLimited
  <2> QED
    BY <2>3, <2>4
<1>3. ASSUME NEW r \in LogRequests, NEW n \in Batches, ClientLogsArrive(r, n) PROVE LogInv'
  <2>1. UNCHANGED <<logFiles, lineCount, events, duplicates, calls, clock>>
    BY <1>3 DEF ClientLogsArrive
  <2>2. window' = [started |-> clock, count |-> 0] \/ window' = window
    BY <1>3 DEF ClientLogsArrive
  <2>3. window' \in [started : 0 .. MaxTime, count : Nat] /\ window'.count <= MaxPerMinute
    BY <1>0, <1>1, <2>2 DEF ClientLogsLimited
  <2>4. openBatches' = [openBatches EXCEPT ![r] = [size |-> n, seen |-> window'.count]]
    BY <1>3 DEF ClientLogsArrive
  <2>5. openBatches' \in [LogRequests -> [size : Batches \cup {0}, seen : Nat]]
    BY <1>0, <2>3, <2>4
  <2> QED
    BY <1>0, <1>1, <2>1, <2>3, <2>5 DEF LogInv, LogTypeOK, ClientLogsLimited, DuplicatesAccounted
<1>4. ASSUME NEW r \in LogRequests, NEW valid \in Batches \cup {0}, ClientLogsRead(r, valid) PROVE LogInv'
  <2>1. /\ UNCHANGED <<duplicates, calls, clock>> /\ openBatches' = [openBatches EXCEPT ![r] = NoBatch]
        /\ valid <= openBatches[r].size /\ valid \in Nat
    BY <1>4 DEF ClientLogsRead
  <2>2. openBatches' \in [LogRequests -> [size : Batches \cup {0}, seen : Nat]]
    BY <1>0, <2>1 DEF NoBatch
  <2>3. CASE UNCHANGED <<logFiles, lineCount, events, window>>
    BY <1>0, <1>1, <2>1, <2>2, <2>3 DEF LogInv, LogTypeOK, ClientLogsLimited, DuplicatesAccounted
  <2>4. CASE ~(CountNow(r) + openBatches[r].size > MaxPerMinute) /\ AppendEvents(valid) /\ window' = [window EXCEPT !.count = @ + valid]
    <3>1. /\ logFiles' \in [1 .. MaxFiles -> Seq(1 .. MaxEvents)] /\ lineCount' \in Nat /\ events' \in 0 .. MaxEvents
          /\ FilesHold(logFiles', lineCount', events')
      BY <2>1, <2>4, BatchTypes
    <3>2. openBatches[r].size \in Nat
      <4>1. openBatches[r].size \in Batches \cup {0}
        BY <1>0
      <4>2. Batches \cup {0} \subseteq Nat
        OBVIOUS
      <4> QED
        BY ONLY <4>1, <4>2
    <3>3. window.count \in Nat /\ window.count + valid \in Nat /\ window.count + valid <= MaxPerMinute
      <4>1. window.count \in Nat /\ ~(window.count + openBatches[r].size > MaxPerMinute)
        BY <1>w, <2>4 DEF CountNow
      <4> QED
        BY <2>1, <3>2, <4>1
    <3>4. window' \in [started : 0 .. MaxTime, count : Nat] /\ window'.count <= MaxPerMinute
      BY <1>w, <2>4, <3>3
    <3> QED
      BY <1>0, <1>1, <2>1, <2>2, <3>1, <3>4 DEF LogInv, LogTypeOK, ClientLogsLimited, DuplicatesAccounted
  <2> QED
    BY <1>4, <2>3, <2>4 DEF ClientLogsRead
<1>5. CASE RestartLog
  <2>1. /\ UNCHANGED <<logFiles, events, clock>> /\ lineCount' = Len(logFiles[1])
        /\ window' = [started |-> 0, count |-> 0]
    BY <1>5 DEF RestartLog, CountLines
  <2>2. lineCount' = lineCount
    BY <1>1, <2>1 DEF FilesHold
  <2>3. duplicates' = [k \in LogKeys |-> [at |-> 0, count |-> 0, known |-> FALSE]]
        /\ calls' = [k \in LogKeys |-> [calls[k] EXCEPT !.made = calls[k].shown]]
    BY <1>5 DEF RestartLog
  <2>4. /\ duplicates' \in [LogKeys -> [at : 0 .. MaxTime, count : Nat, known : BOOLEAN]]
        /\ calls' \in [LogKeys -> [made : Nat, shown : Nat]] /\ window' \in [started : 0 .. MaxTime, count : Nat]
    <3>1. ASSUME NEW k \in LogKeys PROVE [calls[k] EXCEPT !.made = calls[k].shown] \in [made : Nat, shown : Nat]
      BY <1>c
    <3>2. calls' \in [LogKeys -> [made : Nat, shown : Nat]]
      BY <2>3, <3>1
    <3>3. 0 \in 0 .. MaxTime
      OBVIOUS
    <3>4. duplicates' \in [LogKeys -> [at : 0 .. MaxTime, count : Nat, known : BOOLEAN]] /\ window' \in [started : 0 .. MaxTime, count : Nat]
      BY <2>1, <2>3, <3>3
    <3> QED
      BY <3>2, <3>4
  <2>5. openBatches' \in [LogRequests -> [size : Batches \cup {0}, seen : Nat]]
    BY <1>5 DEF RestartLog, NoBatch
  <2>6. DuplicatesAccounted'
    <3> SUFFICES ASSUME NEW k \in LogKeys PROVE calls'[k].made = calls'[k].shown + duplicates'[k].count
      BY DEF DuplicatesAccounted
    <3>1. calls[k].shown \in Nat
      BY <1>c
    <3>2. duplicates'[k].count = 0 /\ calls'[k].made = calls[k].shown /\ calls'[k].shown = calls[k].shown
      BY <1>c, <2>3
    <3> QED
      BY <3>1, <3>2
  <2> QED
    BY <1>0, <1>1, <2>1, <2>2, <2>4, <2>5, <2>6 DEF LogInv, LogTypeOK, ClientLogsLimited
<1>6. CASE LogTick
  BY <1>0, <1>1, <1>6 DEF LogTick, LogInv, LogTypeOK, ClientLogsLimited, DuplicatesAccounted
<1>7. CASE UNCHANGED logVars
  BY <1>0, <1>1, <1>7 DEF logVars, LogInv, LogTypeOK, ClientLogsLimited, DuplicatesAccounted
<1> QED
  BY <1>2, <1>3, <1>4, <1>5, <1>6, <1>7 DEF LogNext

\* LogSound, for any number and size of files, any keys, batches and rates: the files hold
\* the newest events in order and without a gap however rotations, restarts and batches fall.
THEOREM LogIsSound == LogSpec => []LogSound
<1>1. LogInit => LogInv
  BY LogStarts
<1>2. LogInv /\ [LogNext]_logVars => LogInv'
  BY LogStep
<1>3. LogInv => LogSound
  <2> SUFFICES ASSUME LogInv PROVE LogSound
    OBVIOUS
  <2>1. LogIsSuffix
    BY TailIsSuffix DEF LogInv, LogTypeOK
  <2>2. LogFileBounded
    <3> SUFFICES ASSUME NEW i \in 1 .. MaxFiles PROVE Len(logFiles[i]) <= MaxLines
      BY DEF LogFileBounded
    <3>1. CASE i = 1
      BY <3>1 DEF LogInv, FilesHold
    <3>2. CASE i # 1
      <4>1. i \in 2 .. MaxFiles
        BY <3>2
      <4>2. Len(logFiles[i]) = MaxLines \/ Len(logFiles[i]) = 0
        BY <4>1 DEF LogInv, FilesHold
      <4> QED
        BY <4>2, LogAssumption
    <3> QED
      BY <3>1, <3>2
  <2> QED
    BY <2>1, <2>2 DEF LogInv, LogSound
<1> QED
  BY <1>1, <1>2, <1>3, PTL DEF LogSpec

--------------------------------------------------------------------------------
(* The services side by side.                                              *)

LEMMA QueuesAreTyped == QueuesInv => PageQueueTypeOK
<1> SUFFICES ASSUME QueuesInv PROVE PageQueueTypeOK
  OBVIOUS
<1>1. /\ pageWaiting \in Seq(PageTask) /\ tesseract \in Seq(PageTask) /\ aiWaiting \in Seq(AiTask)
      /\ pageActive \subseteq PageTask /\ aiActive \subseteq AiTask
  BY DEF QueuesInv, Placed
<1>2. Entries(pageWaiting) \subseteq PageTask /\ Entries(tesseract) \subseteq PageTask /\ Entries(aiWaiting) \subseteq AiTask
  BY <1>1 DEF Entries
<1>3. AiTask = Requests \X Page \X {"read", "verify"}
  BY DEF AiTask
<1> QED
  BY <1>1, <1>2, <1>3 DEF QueuesInv, PageTypes, PageQueueTypeOK

\* A step of one service leaves the variables of the others alone.
LEMMA OneServiceSteps ==
  ASSUME [ServicesNext]_servicesVars
  PROVE  [PageQueueNext]_pageQueueVars /\ [BackupNext]_backupVars
BY DEF ServicesNext, servicesVars, Runs

\* Beside each other, and whichever of them runs, the queues of the pages hold pages that were
\* asked for, and the files of the database hold writes and the names of backups.
THEOREM ServicesAreTyped == ServicesSpec => []ServicesTypeOK
<1>1. ServicesInit => QueuesInv /\ BackupTypeOK
  BY QueuesStart, BackupBegins DEF ServicesInit
<1>2. QueuesInv /\ BackupTypeOK /\ [ServicesNext]_servicesVars => (QueuesInv /\ BackupTypeOK)'
  BY OneServiceSteps, QueuesInvariance, BackupStepTyped
<1>3. QueuesInv /\ BackupTypeOK => ServicesTypeOK
  BY QueuesAreTyped DEF ServicesTypeOK
<1> QED
  BY <1>1, <1>2, <1>3, PTL DEF ServicesSpec

================================================================================
