------------------------------ MODULE MCAiRuntime ------------------------------
(* One call to the provider after the settings were saved. *)
EXTENDS AiRuntime

CONSTANTS a1

OneCall    == {a1}
AiOn       == [base |-> "A", model |-> "m", key |-> "k", retries |-> 1]
JustOn     == {AiOn}
SavesOfUse == {[retries |-> n] : n \in {0, 2, 4}}
Upload     == [NoLimits EXCEPT !.image = 2, !.count = 1, !.json = 1]
OneUpload  == {Upload}
SomeLimits == {[image |-> 2, file |-> 1, count |-> 2, json |-> 2]}
================================================================================
