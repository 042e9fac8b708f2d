------------------------------ MODULE MCServices -------------------------------
(***************************************************************************)
(* Parts of the system that share no state and have something to end: each *)
(* behaviour is one of them, and the others keep their initial state.      *)
(***************************************************************************)
EXTENDS PageTaskQueue, BackupRestore, ResponseSlots

CONSTANTS r1, r2, i1, p1, p2, A

TwoRequests == {r1, r2}
OnePdf      == {<<r1, 1>>}
OneImport   == {i1}
TwoCallers  == {p1, p2}
OneProvider == {A}

VARIABLE service

servicesVars == <<service, pageQueueVars, backupVars, vars>>

Services == {"extraction", "backup", "slots"}

ServicesInit ==
  /\ service \in Services
  /\ PageQueueInit /\ BackupInit /\ Init
  /\ service # "slots" => setting = 1 /\ \A p \in Callers : remote[p] = "none"

\* A step of one part.
Runs(s, Step) ==
  /\ service = s /\ Step /\ UNCHANGED service
  /\ IF s = "extraction" THEN TRUE ELSE UNCHANGED pageQueueVars
  /\ IF s = "backup" THEN TRUE ELSE UNCHANGED backupVars
  /\ IF s = "slots" THEN TRUE ELSE UNCHANGED vars

ServicesNext ==
  \/ Runs("extraction", PageQueueNext)
  \/ Runs("backup", BackupNext)
  \/ Runs("slots", Next)

\* The fairness of each module, for the part that runs.
Fairness ==
  /\ \A r \in Requests : WF_pageQueueVars(Runs("extraction", RequestStep(r)))
  /\ WF_backupVars(Runs("backup", StartUpStep)) /\ WF_backupVars(Runs("backup", CleanShutdown))
  /\ \A p \in Callers :
       WF_vars(Runs("slots", RunnerStep(p))) /\ WF_vars(Runs("slots", RemoteEnds(p)))

ServicesSpec == ServicesInit /\ [][ServicesNext]_servicesVars /\ Fairness

\* The type invariants of the modules.
ServicesTypeOK == PageQueueTypeOK /\ BackupTypeOK
================================================================================
