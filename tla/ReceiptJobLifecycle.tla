-------------------------- MODULE ReceiptJobLifecycle --------------------------
(***************************************************************************)
(* What a client of the extraction-jobs API may rely on, whatever happens  *)
(* behind it: a job is submitted once, its terminal status never changes   *)
(* until retention removes it, and it is completed only when the evidence  *)
(* of every one of its pages is in.                                        *)
(***************************************************************************)
EXTENDS Naturals

CONSTANTS Jobs, PageCount

VARIABLES
  row,      \* public status of a job
  kind,     \* what the job was asked to do; "plain" jobs need no page evidence
  evidence  \* pages whose verified interpretation is checkpointed

lifecycle == <<row, kind, evidence>>

Active == {"queued", "running"}

Exists(j) == row[j] \notin {"absent", "pruned"}

Init ==
  /\ row = [j \in Jobs |-> "absent"]
  /\ kind = [j \in Jobs |-> "plain"]
  /\ evidence = [j \in Jobs |-> {}]

Submit(j) ==
  /\ row[j] = "absent"
  /\ row' = [row EXCEPT ![j] = "queued"]
  /\ \E k \in {"image", "pdf", "plain"} : kind' = [kind EXCEPT ![j] = k]
  /\ UNCHANGED evidence

Begin(j) ==
  /\ row[j] \in Active
  /\ row' = [row EXCEPT ![j] = "running"]
  /\ UNCHANGED <<kind, evidence>>

\* Evidence is only ever added, to one job at a time.
Gather(j) ==
  /\ Exists(j)
  /\ \E S \in SUBSET (1 .. PageCount) :
       evidence' = [evidence EXCEPT ![j] = @ \cup S]
  /\ UNCHANGED <<row, kind>>

Complete(j) ==
  /\ row[j] = "running"
  /\ kind[j] # "plain" => evidence[j] = 1 .. PageCount
  /\ row' = [row EXCEPT ![j] = "completed"]
  /\ UNCHANGED <<kind, evidence>>

Fail(j) ==
  /\ row[j] = "running"
  /\ row' = [row EXCEPT ![j] = "failed"]
  /\ UNCHANGED <<kind, evidence>>

Cancel(j) ==
  /\ row[j] \in Active
  /\ row' = [row EXCEPT ![j] = "cancelled"]
  /\ UNCHANGED <<kind, evidence>>

\* Retention removes the jobs in old; a start may also give up those in lost.
Retire(old, lost) ==
  /\ \A j \in old : Exists(j)
  /\ \A j \in lost : row[j] \in Active
  /\ row' = [j \in Jobs |-> CASE j \in old -> "pruned"
                             [] j \in lost \ old -> "failed"
                             [] OTHER -> row[j]]
  /\ evidence' = [j \in Jobs |-> IF j \in old THEN {} ELSE evidence[j]]
  /\ UNCHANGED kind

Next ==
  \/ \E j \in Jobs : Submit(j) \/ Begin(j) \/ Gather(j) \/ Complete(j) \/ Fail(j) \/ Cancel(j)
  \/ \E old, lost \in SUBSET Jobs : Retire(old, lost)

Spec == Init /\ [][Next]_lifecycle
================================================================================
