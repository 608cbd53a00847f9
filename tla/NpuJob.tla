------------------------------- MODULE NpuJob -------------------------------
(***************************************************************************)
(* The NPU job driver of src/npu/rknpu.c and the interrupt that tells it   *)
(* a job is over.                                                          *)
(*                                                                         *)
(* rknpu_submit_task runs on core 0: it resets job_done_num, programs the  *)
(* engine, and polls job_done_num with a budget.  The engine raises its    *)
(* interrupt line when a job is over; job_done, on the same core, counts   *)
(* the interrupt and clears it.  The driver is suspended while job_done    *)
(* runs, and may be interrupted between any two of its register accesses.  *)
(*                                                                         *)
(* A job that misses its budget is only logged: it stays in the engine and *)
(* may be over at any later time, or never.                                *)
(***************************************************************************)
EXTENDS Naturals

CONSTANTS
  MaxJobs,   \* bound: jobs submitted
  MaxBudget  \* the poll budget, submit->timeout * 1000

ASSUME JobBounds == MaxJobs \in Nat /\ MaxBudget \in Nat

Job == 1 .. MaxJobs

VARIABLES
  drv,           \* where rknpu_submit_task is
  job,           \* the job it submits: the number of submissions so far
  job_done_num,  \* interrupts counted since the last submission began
  budget_us,     \* polls left
  outcome,       \* how the submission of each job returned
  engine,        \* jobs the engine has been started on and has not finished
  finished,      \* jobs the engine has finished
  int_status,    \* the completion bits of RKNPU_INT_STATUS, the IRQ line
  irq            \* where job_done is

driverVars == <<drv, job, budget_us, outcome>>
engineVars == <<engine, finished>>
npuVars == <<drv, job, job_done_num, budget_us, outcome, engine, finished,
             int_status, irq>>

(* After rknpu_init: interrupts cleared, job_done installed. *)
NpuInit ==
  /\ drv = "idle"
  /\ job = 0
  /\ job_done_num = 0
  /\ budget_us = 0
  /\ outcome = [j \in Job |-> "none"]
  /\ engine = {}
  /\ finished = {}
  /\ int_status = FALSE
  /\ irq = "none"

(* The driver executes only while its core is not in job_done. *)
DriverAt(label) == drv = label /\ irq = "none"

SubmitNoReset ==   \* variant: job_done_num keeps its value
  /\ DriverAt("idle")
  /\ job < MaxJobs
  /\ job' = job + 1
  /\ drv' = "clear"
  /\ budget_us' = MaxBudget
  /\ UNCHANGED <<job_done_num, outcome, engine, finished, int_status, irq>>

(* rknpu_submit_task up to job_commit_pc: job_done_num = 0. *)
Submit ==
  /\ DriverAt("idle")
  /\ job < MaxJobs
  /\ job' = job + 1
  /\ job_done_num' = 0
  /\ drv' = "clear"
  /\ budget_us' = MaxBudget
  /\ UNCHANGED <<outcome, engine, finished, int_status, irq>>

(* job_commit_pc: the command list is set up and INT_CLEAR written. *)
CommitClear ==
  /\ DriverAt("clear")
  /\ int_status' = FALSE
  /\ drv' = "enable"
  /\ UNCHANGED <<job, job_done_num, budget_us, outcome, engine, finished, irq>>

(* job_commit_pc: OP_EN.  An engine still busy with a job that timed out   *)
(* either finishes it too or drops it.                                     *)
CommitEnable ==
  /\ DriverAt("enable")
  /\ engine' \in {engine \cup {job}, {job}}
  /\ drv' = "poll"
  /\ UNCHANGED <<job, job_done_num, budget_us, outcome, finished, int_status,
                 irq>>

(* job_wait_complete: check_job_done is true. *)
PollDone ==
  /\ DriverAt("poll")
  /\ job_done_num # 0
  /\ outcome' = [outcome EXCEPT ![job] = "done"]
  /\ drv' = "idle"
  /\ UNCHANGED <<job, job_done_num, budget_us, engine, finished, int_status,
                 irq>>

PollDelayForever ==   \* variant: the budget is never spent
  /\ DriverAt("poll")
  /\ job_done_num = 0
  /\ UNCHANGED npuVars

(* job_wait_complete: check_job_done is false, one microsecond goes by and *)
(* the budget is tested before it is decremented.                          *)
PollDelay ==
  /\ DriverAt("poll")
  /\ job_done_num = 0
  /\ \/ /\ budget_us > 0
        /\ budget_us' = budget_us - 1
        /\ UNCHANGED drv
     \/ /\ budget_us = 0
        /\ drv' = "timeout"
        /\ UNCHANGED budget_us
  /\ UNCHANGED <<job, job_done_num, outcome, engine, finished, int_status, irq>>

(* job_wait_complete: the status registers are logged and the submission   *)
(* returns; it is void, so the caller is not told.                         *)
Timeout ==
  /\ DriverAt("timeout")
  /\ outcome' = [outcome EXCEPT ![job] = "timeout"]
  /\ drv' = "idle"
  /\ UNCHANGED <<job, job_done_num, budget_us, engine, finished, int_status,
                 irq>>

DriverStep == CommitClear \/ CommitEnable \/ PollDone \/ PollDelay \/ Timeout

(* The engine is over with job j and raises its line. *)
Finish(j) ==
  /\ j \in engine
  /\ engine' = engine \ {j}
  /\ finished' = finished \cup {j}
  /\ int_status' = TRUE
  /\ UNCHANGED <<drv, job, job_done_num, budget_us, outcome, irq>>

(* Core 0 takes the interrupt: handle_irq_exception calls job_done, which  *)
(* counts before it looks at the status.                                   *)
TakeIrq ==
  /\ irq = "none"
  /\ int_status
  /\ job_done_num' = job_done_num + 1
  /\ irq' = "clear"
  /\ UNCHANGED <<drv, job, budget_us, outcome, engine, finished, int_status>>

(* job_done: INT_CLEAR on both of its paths; then EOI and eret. *)
EndIrq ==
  /\ irq = "clear"
  /\ int_status' = FALSE
  /\ irq' = "none"
  /\ UNCHANGED <<drv, job, job_done_num, budget_us, outcome, engine, finished>>
=============================================================================
