---------------------------- MODULE ReceiptLineTotal ----------------------------
(***************************************************************************)
(* The totals of the lines under review. The server calculates the total   *)
(* of a line a moment after its fields change; meanwhile a button that     *)
(* acts on the lines is deferred, and it is pressed again by the code once *)
(* the calculations it waited for are over.                                *)
(***************************************************************************)
EXTENDS Naturals, FiniteSets

CONSTANTS
  Roots,       \* editors of a line on the page
  Inputs,      \* what the fields of a line may hold
  BadInputs,   \* those that are not complete, or that the server refuses
  MaxEdits     \* bound on the edits

ASSUME LineTotalAssumption == BadInputs \subseteq Inputs /\ BadInputs # Inputs /\ MaxEdits \in Nat

VARIABLES
  fields,      \* of each root: the fields a total is calculated from
  total,       \* lineTotalEuro: the fields it is the total of
  calc,        \* receiptCalculationState of each root
  running,     \* calls of calculateReceiptLine
  button,      \* the button that acts on the lines
  acted        \* what the action saw when it last went through

totalVars == <<fields, total, calc, running, button, acted>>

NoCalculation == [version |-> 0, timer |-> FALSE, pending |-> FALSE, error |-> FALSE, waited |-> FALSE]

TotalInit ==
  /\ fields = [r \in Roots |-> CHOOSE i \in Inputs \ BadInputs : TRUE]
  /\ total = fields
  /\ calc = [r \in Roots |-> NoCalculation]
  /\ running = {}
  /\ button = "enabled"
  /\ acted = [fields |-> fields, total |-> total]

--------------------------------------------------------------------------------

\* The button is pressed again before anything else runs.
Resumable == button = "busy" /\ \A r \in Roots : ~calc[r].waited

\* syncReceiptCalculationActions
Synchronized(states, b) ==
  LET blocked == \E r \in Roots : states[r].error
  IN IF blocked /\ b = "enabled" THEN "blocked"
     ELSE IF ~blocked /\ b = "blocked" THEN "enabled"
     ELSE b

\* A calculation of these fields or of earlier ones.
IsKnown(c) == c.version <= calc[c.root].version

\* It is of the fields as they are.
IsCurrent(c) == c.version = calc[c.root].version

\* scheduleReceiptLineCalculation: the timer starts again, and the calculation
\* under way is aborted.
Edit(r, i) ==
  /\ ~Resumable /\ calc[r].version < MaxEdits
  /\ fields' = [fields EXCEPT ![r] = i]
  /\ calc' = [calc EXCEPT ![r] = [calc[r] EXCEPT !.version = @ + 1, !.timer = TRUE, !.pending = TRUE, !.error = FALSE]]
  /\ button' = Synchronized(calc', button)
  /\ UNCHANGED <<total, running, acted>>

\* The timer of the last edit: calculateReceiptLine begins to read the fields.
TimerFires(r) ==
  /\ ~Resumable /\ calc[r].timer
  /\ calc' = [calc EXCEPT ![r].timer = FALSE]
  /\ running' = running \cup {[root |-> r, version |-> calc[r].version, stage |-> "reading", input |-> fields[r]]}
  /\ UNCHANGED <<fields, total, button, acted>>

\* settleReceiptCalculation, with the error or without: who waited goes on.
SettleCalculation(c, error) ==
  /\ calc' = [calc EXCEPT ![c.root] = [calc[c.root] EXCEPT !.pending = FALSE, !.error = error, !.waited = FALSE]]
  /\ button' = Synchronized(calc', button)
  /\ running' = running \ {c}

Moves(c, stage) == running' = (running \ {c}) \cup {[c EXCEPT !.stage = stage]}

\* readReceiptCalculationInput: a line that is not complete is not asked for.
FieldsRead(c) ==
  /\ c.stage = "reading" /\ IsCurrent(c)
  /\ IF c.input \in BadInputs
       THEN SettleCalculation(c, TRUE)
       ELSE Moves(c, "asked") /\ UNCHANGED <<calc, button>>
  /\ UNCHANGED <<fields, total, acted>>

\* api: the answer, and then the import of the formatter.
TotalAnswered(c) ==
  /\ c.stage = "asked" /\ IsCurrent(c)
  /\ Moves(c, "answered")
  /\ UNCHANGED <<fields, total, calc, button, acted>>

CalculationFails(c) ==
  /\ c.stage = "asked" /\ IsCurrent(c)
  /\ SettleCalculation(c, TRUE)
  /\ UNCHANGED <<fields, total, acted>>

TotalShown(c) ==
  /\ c.stage = "answered" /\ IsCurrent(c)
  /\ total' = [total EXCEPT ![c.root] = c.input]
  /\ SettleCalculation(c, FALSE)
  /\ UNCHANGED <<fields, acted>>

\* A calculation that another edit replaced ends and changes nothing.
Superseded(c) ==
  /\ ~IsCurrent(c)
  /\ running' = running \ {c}
  /\ UNCHANGED <<fields, total, calc, button, acted>>

NeedsCalculation(r) == calc[r].pending \/ calc[r].error

\* A click: deferReceiptActionUntilCalculated, or the action itself.
Pressed ==
  IF \E r \in Roots : NeedsCalculation(r)
    THEN /\ button' = "busy"
         /\ calc' = [r \in Roots |-> [calc[r] EXCEPT !.waited = calc[r].pending]]
         /\ UNCHANGED acted
    ELSE /\ button' = "enabled"
         /\ acted' = [fields |-> fields, total |-> total]
         /\ UNCHANGED calc

Press == button = "enabled" /\ Pressed /\ UNCHANGED <<fields, total, running>>

\* resumeReceiptAction: blocked by an error, or pressed again.
ResumeAction ==
  /\ Resumable
  /\ IF \E r \in Roots : calc[r].error
       THEN button' = Synchronized(calc, "enabled") /\ UNCHANGED <<calc, acted>>
       ELSE Pressed
  /\ UNCHANGED <<fields, total, running>>

CalculationStep(c) ==
  /\ ~Resumable
  /\ FieldsRead(c) \/ TotalAnswered(c) \/ CalculationFails(c) \/ TotalShown(c) \/ Superseded(c)

TotalNext ==
  \/ \E r \in Roots :
       \/ \E i \in Inputs : Edit(r, i)
       \/ TimerFires(r)
  \/ \E c \in running : CalculationStep(c)
  \/ Press
  \/ ResumeAction

TotalSpec == TotalInit /\ [][TotalNext]_totalVars

--------------------------------------------------------------------------------

TotalTypeOK ==
  /\ fields \in [Roots -> Inputs] /\ total \in [Roots -> Inputs]
  /\ calc \in [Roots -> [version : 0 .. MaxEdits, timer : BOOLEAN, pending : BOOLEAN, error : BOOLEAN,
                         waited : BOOLEAN]]
  /\ running \subseteq [root : Roots, version : 0 .. MaxEdits, stage : {"reading", "asked", "answered"},
                        input : Inputs]
  /\ button \in {"enabled", "busy", "blocked"}
  /\ acted \in [fields : [Roots -> Inputs], total : [Roots -> Inputs]]

\* A line that is neither being calculated nor refused shows the total of its
\* fields.
SettledLineIsTotalled == \A r \in Roots : ~NeedsCalculation(r) => total[r] = fields[r]

\* What was validated, saved or confirmed had the totals of its lines.
ActedOnTotals == acted.total = acted.fields

\* A button that waits is waited for by a calculation that will still end it,
\* and the one an error disabled has an error to show.
ButtonComesBack ==
  /\ button = "busy" => Resumable \/ \E r \in Roots : calc[r].waited /\ calc[r].pending
  /\ button = "blocked" => \E r \in Roots : calc[r].error
  /\ \A r \in Roots : calc[r].pending => calc[r].timer \/ \E c \in running : c.root = r /\ IsCurrent(c)

\* The review never acts on a line with the total of other fields.
LineTotalsSound == SettledLineIsTotalled /\ ActedOnTotals /\ ButtonComesBack
================================================================================
