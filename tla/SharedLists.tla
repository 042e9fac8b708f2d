------------------------------ MODULE SharedLists ------------------------------
(***************************************************************************)
(* What the shared lists promise, without versions and positions: a list   *)
(* is a sequence of entries. It is appended to, its entries are changed in *)
(* place, removed, or put in another order, one list at a time; and an     *)
(* entry that is gone never comes back.                                    *)
(***************************************************************************)
EXTENDS Naturals, Sequences

CONSTANTS Lists, Ids

VARIABLES
  open,    \* lists that exist
  order,   \* of each list, its entries: the id and what the entry says
  unused   \* ids that have not been in a list

vars == <<open, order, unused>>

Init ==
  /\ open = {}
  /\ order = [l \in Lists |-> <<>>]
  /\ unused = Ids

Elements(s) == {s[k] : k \in DOMAIN s}
IdOrder(s)  == [k \in DOMAIN s |-> s[k].id]

\* The ways in which the entries s of a list become t.
ChangedInPlace(s, t) == IdOrder(t) = IdOrder(s)
Permuted(s, t)       == Len(t) = Len(s) /\ Elements(t) = Elements(s)

\* t is what is left of s, in the order of s.
Filtered(s, t) ==
  \E from \in [DOMAIN t -> DOMAIN s] :
    /\ \A k \in DOMAIN t : t[k] = s[from[k]]
    /\ \A j, k \in DOMAIN t : j < k => from[j] < from[k]

\* t is s and an entry i at the end.
Appended(s, t, i) ==
  /\ Len(t) = Len(s) + 1 /\ t[Len(t)].id = i
  /\ \A k \in DOMAIN s : t[k] = s[k]

Create(l) ==
  /\ l \notin open
  /\ open' = open \cup {l}
  /\ UNCHANGED <<order, unused>>

Drop(l) ==
  /\ l \in open
  /\ open' = open \ {l}
  /\ order' = [order EXCEPT ![l] = <<>>]
  /\ UNCHANGED unused

Work(l) ==
  /\ l \in open
  /\ UNCHANGED open
  /\ \A m \in Lists \ {l} : order'[m] = order[m]
  /\ LET s == order[l]
         t == order'[l]
     IN \/ UNCHANGED unused /\ (ChangedInPlace(s, t) \/ Filtered(s, t) \/ Permuted(s, t))
        \/ \E i \in unused : unused' = unused \ {i} /\ Appended(s, t, i)

Next == \E l \in Lists : Create(l) \/ Drop(l) \/ Work(l)

Spec == Init /\ [][Next]_vars
================================================================================
