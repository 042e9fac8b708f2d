-------------------------- MODULE MCDurableReceiptJob --------------------------
(* The durable receipt job on small instances; see the README for each run. *)
EXTENDS DurableReceiptJob, TLC

CONSTANTS j1, j2

OneJob  == {j1}
TwoJobs == {j1, j2}

OnlyImage == {"image"}

\* The second job is an explicit retry of the first, made once that has failed and
\* the provider is done with it, both in time; with it the process stops once, in the
\* retry, and only the first job is deleted or pruned, before its evidence was copied.
RetryAfterFailure ==
  row[j2] # "absent" =>
    /\ retryOf[j1] = NoJob /\ expired = {} /\ stops <= 1
    /\ retryOf[j2] = j1 /\ row[j2] # "cancelled"
    /\ row[j1] \in {"failed", "pruned"} /\ task[j1] = "none"
    /\ phase[j2] \notin {"none", "queued"} => phase[j1] = "failed" /\ canceller[j1] = "none"
    /\ \A p \in Page : <<j1, p>> \notin wire /\ remote[j1][p] # "pending"

RetryWithoutStops ==
  row[j2] = "absent" /\ row'[j2] # "absent" => stops = 0 /\ canceller[j1] = "none"
================================================================================
