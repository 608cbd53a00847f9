----------------------------- MODULE NpuOffload -----------------------------
(***************************************************************************)
(* One operator handed to the NPU, as llm_npu_matmul and run_matmul of     *)
(* src/yolo/yolo_conv.c do it: the CPU lays out the operands and zeroes    *)
(* the output in cached memory, cleans both to DRAM, submits the tiles one *)
(* by one, invalidates the output and reads it.  The NPU sees only DRAM.   *)
(* The buffers are allocated once and used again by every operator.        *)
(*                                                                         *)
(* The driver and the engine are NpuJob's; this module adds the caller,    *)
(* the data cache and DRAM.  The cache may at any time write a line back   *)
(* or fetch one.  A value is the number of the operator it belongs to: in  *)
(* the operands it is the operator that wrote them, in a tile of the       *)
(* output the operator whose operands it was computed from, 0 for zeroes.  *)
(***************************************************************************)
EXTENDS NpuJob, Sequences

CONSTANT
  Plan   \* the submissions the program makes: <<operator, tile>>, in order

OffloadOf(j) == Plan[j][1]
TileOf(j) == Plan[j][2]

(* Operators are numbered from 1, one after the other, and a tile belongs  *)
(* to an operator once.                                                    *)
ASSUME PlanOK ==
  /\ Plan \in Seq((Nat \ {0}) \X (Nat \ {0}))
  /\ MaxJobs = Len(Plan)
  /\ MaxJobs > 0 => OffloadOf(1) = 1
  /\ \A j \in Job : j > 1 => OffloadOf(j) - OffloadOf(j - 1) \in {0, 1}
  /\ \A i, j \in Job : i < j => /\ OffloadOf(i) <= OffloadOf(j)
                                /\ Plan[i] # Plan[j]

LastTile(j) == j = MaxJobs \/ OffloadOf(j + 1) # OffloadOf(j)

Tile == {TileOf(j) : j \in Job}
In == 0               \* the operands and the command lists
Line == {In} \cup Tile
Value == {0} \cup {OffloadOf(j) : j \in Job}

NoLine == [val |-> 0, held |-> FALSE, dirty |-> FALSE]

VARIABLES
  cpu,      \* where the caller is
  offload,  \* the operator it runs
  dram,     \* what DRAM holds
  cache,    \* what the data cache holds of each line
  latch,    \* the operands the engine fetched for a job: 0 before
  read      \* what the caller read from each tile of each operator

vars == <<drv, job, job_done_num, budget_us, outcome, engine, finished,
          int_status, irq, cpu, offload, dram, cache, latch, read>>

Init ==
  /\ NpuInit
  /\ cpu = "fill"
  /\ offload = 0
  /\ dram = [l \in Line |-> 0]
  /\ cache = [l \in Line |-> NoLine]
  /\ latch = [j \in Job |-> 0]
  /\ read = [j \in Job |-> 0]

CpuAt(label) == cpu = label /\ irq = "none"

(* clean_dcache_va_range: dirty lines are written back and stay, clean. *)
Clean(lines) ==
  /\ dram' = [l \in Line |-> IF l \in lines /\ cache[l].dirty
                             THEN cache[l].val ELSE dram[l]]
  /\ cache' = [l \in Line |-> IF l \in lines
                              THEN [cache[l] EXCEPT !.dirty = FALSE]
                              ELSE cache[l]]

(* The operands are laid out and the output is zeroed; a store allocates   *)
(* its line in the cache and leaves it dirty.                              *)
Fill ==
  /\ CpuAt("fill")
  /\ job < MaxJobs
  /\ offload' = offload + 1
  /\ cache' = [l \in Line |-> [val |-> IF l = In THEN offload + 1 ELSE 0,
                               held |-> TRUE, dirty |-> TRUE]]
  /\ cpu' = "clean_in"
  /\ UNCHANGED <<dram, latch, read, npuVars>>

SkipCleanInput ==   \* variant: the operands are not cleaned
  /\ CpuAt("clean_in")
  /\ cpu' = "clean_out"
  /\ UNCHANGED <<offload, latch, read, dram, cache, npuVars>>

CleanInput ==
  /\ CpuAt("clean_in")
  /\ Clean({In})
  /\ cpu' = "clean_out"
  /\ UNCHANGED <<offload, latch, read, npuVars>>

SkipCleanOutput ==   \* variant: the zeroed output is not cleaned
  /\ CpuAt("clean_out")
  /\ cpu' = "submit"
  /\ UNCHANGED <<offload, latch, read, dram, cache, npuVars>>

CleanOutput ==
  /\ CpuAt("clean_out")
  /\ Clean(Tile)
  /\ cpu' = "submit"
  /\ UNCHANGED <<offload, latch, read, npuVars>>

(* The call of rknpu_submit_task for the next tile. *)
SubmitTile ==
  /\ CpuAt("submit")
  /\ Submit
  /\ cpu' = "wait"
  /\ UNCHANGED <<offload, dram, cache, latch, read>>

(* Its return: the next tile, or the output. *)
TileReturned ==
  /\ CpuAt("wait")
  /\ drv = "idle"
  /\ cpu' = IF LastTile(job) THEN "invalidate" ELSE "submit"
  /\ UNCHANGED <<offload, dram, cache, latch, read, npuVars>>

SkipInvalidate ==   \* variant: the output is not invalidated
  /\ CpuAt("invalidate")
  /\ cpu' = "read"
  /\ UNCHANGED <<offload, dram, cache, latch, read, npuVars>>

(* invalidate_dcache_va_range: the lines are dropped, dirty or not. *)
Invalidate ==
  /\ CpuAt("invalidate")
  /\ cache' = [l \in Line |-> IF l \in Tile THEN NoLine ELSE cache[l]]
  /\ cpu' = "read"
  /\ UNCHANGED <<offload, dram, latch, read, npuVars>>

(* The output is read, from the cache where it holds the line. *)
Read ==
  /\ CpuAt("read")
  /\ read' = [j \in Job |->
                IF OffloadOf(j) # offload THEN read[j]
                ELSE IF cache[TileOf(j)].held THEN cache[TileOf(j)].val
                     ELSE dram[TileOf(j)]]
  /\ cpu' = "fill"
  /\ UNCHANGED <<offload, dram, cache, latch, npuVars>>

Driver ==
  /\ DriverStep
  /\ UNCHANGED <<cpu, offload, dram, cache, latch, read>>

(* The engine reads the operands of a job, some time before its end. *)
Fetch(j) ==
  /\ j \in engine
  /\ latch[j] = 0
  /\ latch' = [latch EXCEPT ![j] = dram[In]]
  /\ UNCHANGED <<cpu, offload, dram, cache, read, npuVars>>

(* It writes the result to DRAM and is over. *)
WriteBack(j) ==
  /\ latch[j] # 0
  /\ Finish(j)
  /\ dram' = [dram EXCEPT ![TileOf(j)] = latch[j]]
  /\ UNCHANGED <<cpu, offload, cache, latch, read>>

Irq ==
  /\ TakeIrq \/ EndIrq
  /\ UNCHANGED <<cpu, offload, dram, cache, latch, read>>

(* The cache replaces a line, writing it back if it is dirty. *)
Evict(l) ==
  /\ cache[l].held
  /\ dram' = [dram EXCEPT ![l] = IF cache[l].dirty THEN cache[l].val ELSE @]
  /\ cache' = [cache EXCEPT ![l] = NoLine]
  /\ UNCHANGED <<cpu, offload, latch, read, npuVars>>

(* A speculative load brings a line in. *)
Prefetch(l) ==
  /\ ~cache[l].held
  /\ cache' = [cache EXCEPT ![l] = [val |-> dram[l], held |-> TRUE,
                                    dirty |-> FALSE]]
  /\ UNCHANGED <<cpu, offload, dram, latch, read, npuVars>>

(* The kernel idles in WFI once its work is done. *)
Idle ==
  /\ CpuAt("fill")
  /\ job = MaxJobs
  /\ UNCHANGED vars

Caller == \/ Fill \/ CleanInput \/ CleanOutput \/ SubmitTile
          \/ TileReturned \/ Invalidate \/ Read

Next ==
  \/ Caller
  \/ Driver
  \/ Irq
  \/ \E j \in Job : Fetch(j) \/ WriteBack(j)
  \/ \E l \in Line : Evict(l) \/ Prefetch(l)
  \/ Idle

Spec == Init /\ [][Next]_vars

(* Core 0 keeps executing: its program, its driver and its handlers.  The  *)
(* engine and the cache are not obliged to do anything.                    *)
FairSpec == Spec /\ WF_vars(Caller) /\ WF_vars(Driver) /\ WF_vars(Irq)

-----------------------------------------------------------------------------

TypeOK ==
  /\ drv \in {"idle", "clear", "enable", "poll", "timeout"}
  /\ job \in 0 .. MaxJobs
  /\ job_done_num \in Nat
  /\ budget_us \in 0 .. MaxBudget
  /\ outcome \in [Job -> {"none", "done", "timeout"}]
  /\ engine \subseteq Job
  /\ finished \subseteq Job
  /\ int_status \in BOOLEAN
  /\ irq \in {"none", "clear"}
  /\ cpu \in {"fill", "clean_in", "clean_out", "submit", "wait",
              "invalidate", "read"}
  /\ offload \in Value
  /\ dram \in [Line -> Value]
  /\ cache \in [Line -> [val : Value, held : BOOLEAN, dirty : BOOLEAN]]
  /\ latch \in [Job -> Value]
  /\ read \in [Job -> Value]

(* No job up to j has been reported as timed out. *)
NoTimeoutUpTo(j) == \A i \in Job : i <= j => outcome[i] # "timeout"

(* rknpu_submit_task returns before its budget is spent only when the job  *)
(* it submitted is over, as long as no earlier job timed out.              *)
DoneMeansFinished ==
  \A j \in Job : outcome[j] = "done" /\ NoTimeoutUpTo(j) => j \in finished

(* The engine computes from the operands of the operator it was started    *)
(* for: they were cleaned to DRAM before and are not rewritten under it,   *)
(* as long as no earlier job timed out.                                    *)
OperandsAreFresh ==
  \A j \in Job : latch[j] # 0 /\ NoTimeoutUpTo(j) => latch[j] = OffloadOf(j)

(* What the caller reads from a tile after the operator is the NPU's       *)
(* result for that tile, not the zeroes it wrote before and not an older   *)
(* line of the cache (llm_npu_matmul, the comment on the invalidation).    *)
CpuSeesNpuResult ==
  \A j \in Job :
     /\ OffloadOf(j) < offload \/ (OffloadOf(j) = offload /\ cpu = "fill")
     /\ \A i \in Job : OffloadOf(i) <= OffloadOf(j) => outcome[i] # "timeout"
     => read[j] = OffloadOf(j)

(* Between the engine's write and the caller's read nothing but the engine *)
(* writes a tile: no dirty line is left to be evicted over the result, for *)
(* as long as the caller waits, whatever timed out.                        *)
NoDirtyOutputWhileRunning ==
  [][ \A t \in Tile :
        /\ cpu \in {"submit", "wait", "invalidate", "read"}
        /\ dram'[t] # dram[t]
        => \E j \in engine : TileOf(j) = t /\ j \in finished' ]_vars

(* Every submission returns, finished or not: the poll budget bounds it,   *)
(* however the engine behaves and however often job_done runs.             *)
EverySubmitReturns == (drv # "idle") ~> (drv = "idle")

(* The same without the provision on earlier jobs: an operator whose own   *)
(* submissions all returned in time is read as the NPU wrote it.  The code *)
(* breaks it: after a job that timed out, its late interrupt is counted    *)
(* for the next job, whose submission returns before it is over.           *)
DoneOutputIsNpuWritten ==
  \A j \in Job :
     /\ OffloadOf(j) < offload \/ (OffloadOf(j) = offload /\ cpu = "fill")
     /\ \A i \in Job : OffloadOf(i) = OffloadOf(j) => outcome[i] = "done"
     => read[j] = OffloadOf(j)
=============================================================================
