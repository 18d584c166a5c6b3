----------------------------- MODULE StateStore -----------------------------
(***************************************************************************)
(* The execution log (src/orchestration/state_store.py): the runs row of   *)
(* the one run that is modelled and its state_transitions, in id order.    *)
(* Every operation is one SQLite statement and its commit, hence atomic    *)
(* and durable.  Costs, timestamps and thought processes are left out.     *)
(***************************************************************************)
EXTENDS Integers, Sequences

VARIABLES
    run,    \* the row of runs; status "absent" when there is none
    log     \* the rows of state_transitions

storeVars == <<run, log>>

RunStatus == {"absent", "running", "halted", "completed"}

ReconciliationState ==
    {"received", "analyst_reviewing", "analyst_proposed", "validator_reviewing",
     "validator_approved", "validator_escalated", "closed", "human_review"}

Terminal == {"closed", "human_review"}

\* An empty store.
NoRun == [status |-> "absent", token_budget |-> 0, tokens_used |-> 0,
          resume_index |-> 0]

StoreInit == run = NoRun /\ log = <<>>

\* INSERT: run_id is the primary key, so a second row is an IntegrityError.
RunExists == run.status # "absent"

start_run(budget) ==
    /\ ~RunExists
    /\ run' = [status |-> "running", token_budget |-> budget,
               tokens_used |-> 0, resume_index |-> 0]
    /\ UNCHANGED log

store_record_usage(tokens) ==
    /\ run' = [run EXCEPT !.tokens_used = @ + tokens]
    /\ UNCHANGED log

log_transition(task_id, step_index, from_state, to_state, model_tier) ==
    /\ log' = Append(log, [task_id |-> task_id, step_index |-> step_index,
                           from_state |-> from_state, to_state |-> to_state,
                           model_tier |-> model_tier])
    /\ UNCHANGED run

halt_run(resume_index) ==
    /\ run' = [run EXCEPT !.status = "halted", !.resume_index = resume_index]
    /\ UNCHANGED log

\* resume_index keeps the checkpoint of the last halt.
complete_run ==
    /\ run' = [run EXCEPT !.status = "completed"]
    /\ UNCHANGED log

=============================================================================
