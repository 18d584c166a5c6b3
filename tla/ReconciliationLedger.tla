------------------------ MODULE ReconciliationLedger ------------------------
(***************************************************************************)
(* What the execution log promises of one run, with the agents, the        *)
(* providers and the guardrails left out: verdicts are recorded in batch   *)
(* order from the checkpoint on, the checkpoint is where the last halt     *)
(* happened, and completion comes after the last verdict.                  *)
(***************************************************************************)
EXTENDS Integers

CONSTANT BatchSize    \* invoices of the batch

VARIABLES
    status,       \* of the run
    checkpoint,   \* position a resumed call starts from
    cursor,       \* position the call in progress is at, or Nobody
    verdicts      \* verdicts ever recorded, per position

ledgerVars == <<status, checkpoint, cursor, verdicts>>

Slots == 0 .. BatchSize - 1
Nobody == -1

LedgerTypeOK ==
    /\ status \in {"absent", "running", "halted", "completed"}
    /\ checkpoint \in 0 .. BatchSize
    /\ cursor \in {Nobody} \cup 0 .. BatchSize
    /\ verdicts \in [Slots -> SUBSET {"closed", "human_review"}]

LedgerInit ==
    /\ status = "absent" /\ checkpoint = 0 /\ cursor = Nobody
    /\ verdicts = [i \in Slots |-> {}]

\* The first call opens the run; a run that has a checkpoint is continued
\* from it.
OpenRun ==
    /\ cursor = Nobody
    /\ status = "absent"
    /\ status' = "running" /\ cursor' = 0
    /\ UNCHANGED <<checkpoint, verdicts>>

ContinueRun ==
    /\ cursor = Nobody
    /\ status # "absent" /\ checkpoint > 0
    /\ cursor' = checkpoint
    /\ UNCHANGED <<status, checkpoint, verdicts>>

RecordVerdict ==
    /\ cursor \in Slots
    /\ \E v \in {"closed", "human_review"} :
           verdicts' = [verdicts EXCEPT ![cursor] = @ \cup {v}]
    /\ cursor' = cursor + 1
    /\ UNCHANGED <<status, checkpoint>>

Halt ==
    /\ cursor \in Slots
    /\ status' = "halted" /\ checkpoint' = cursor /\ cursor' = Nobody
    /\ UNCHANGED verdicts

Complete ==
    /\ cursor = BatchSize
    /\ status' = "completed" /\ cursor' = Nobody
    /\ UNCHANGED <<checkpoint, verdicts>>

\* The call raises or dies; the row keeps its status and its checkpoint.
Abandon ==
    /\ cursor # Nobody
    /\ cursor' = Nobody
    /\ UNCHANGED <<status, checkpoint, verdicts>>

LedgerNext ==
    OpenRun \/ ContinueRun \/ RecordVerdict \/ Halt \/ Complete \/ Abandon

LedgerSpec == LedgerInit /\ [][LedgerNext]_ledgerVars

=============================================================================
