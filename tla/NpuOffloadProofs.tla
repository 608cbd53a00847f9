-------------------------- MODULE NpuOffloadProofs --------------------------
(***************************************************************************)
(* What TLAPS proves of NpuOffload, for every plan of submissions and      *)
(* every poll budget.                                                      *)
(*                                                                         *)
(* The invariant has three parts.  DriverInv is about the driver, the      *)
(* engine and the interrupt alone: while nothing has timed out, the        *)
(* engine runs at most the job being polled for, and an interrupt that is  *)
(* raised or counted is that job's.  CallerInv ties the operator the       *)
(* caller runs to the job last submitted.  MemoryInv says which lines may  *)
(* be dirty when, and what DRAM holds of a tile once it is finished.       *)
(***************************************************************************)
EXTENDS NpuOffload, TLAPS

NoTimeout == \A i \in Job : outcome[i] # "timeout"

(* Exactly the jobs submitted and returned have an outcome. *)
OutcomeInv ==
  /\ drv # "idle" => job \in Job
  /\ \A j \in Job :
       outcome[j] = "none" <=> (j > job \/ (j = job /\ drv # "idle"))

(* The engine holds no job before its OP_EN and none twice. *)
EngineInv ==
  \A j \in Job :
     /\ ~(j \in engine /\ j \in finished)
     /\ j \in engine \cup finished =>
          j <= job /\ (drv \in {"clear", "enable"} => j # job)
     /\ j = job /\ drv \in {"poll", "timeout"} /\ NoTimeout =>
          j \in engine \cup finished

(* While no job has timed out, every interrupt is the current job's. *)
QuietInv ==
  NoTimeout =>
     /\ \A j \in engine : j = job /\ drv \in {"poll", "timeout"}
     /\ drv \in {"idle", "clear", "enable"} => ~int_status /\ irq = "none"
     /\ drv \in {"clear", "enable"} => job_done_num = 0
     /\ drv \in {"poll", "timeout"} /\ (int_status \/ job_done_num > 0) =>
          job \in finished
     /\ drv \in {"poll", "timeout"} /\ job_done_num > 0 =>
          int_status = (irq = "clear")
     /\ irq = "clear" => job_done_num > 0

DriverInv == OutcomeInv /\ EngineInv /\ QuietInv /\ DoneMeansFinished

(* What a step of the composition does to the driver and the engine. *)
NpuStep == \/ Submit
           \/ DriverStep
           \/ \E j \in Job : Finish(j)
           \/ TakeIrq
           \/ EndIrq
           \/ UNCHANGED npuVars

CallerInv ==
  /\ cpu # "wait" => drv = "idle"
  /\ cpu \in {"wait", "invalidate", "read"} =>
       job > 0 /\ offload = OffloadOf(job)
  /\ cpu = "fill" => offload = IF job = 0 THEN 0 ELSE OffloadOf(job)
  /\ cpu \in {"clean_in", "clean_out", "submit"} =>
       job < MaxJobs /\ offload = OffloadOf(job + 1)
  /\ cpu \in {"fill", "clean_in", "clean_out", "invalidate", "read"} =>
       job = 0 \/ LastTile(job)

(* The operands are in DRAM once they have been cleaned. *)
OperandsInv ==
  /\ cpu = "clean_in" => IF cache[In].dirty THEN cache[In].val = offload
                                           ELSE dram[In] = offload
  /\ cpu \notin {"fill", "clean_in"} => dram[In] = offload
  /\ cpu # "clean_in" => ~cache[In].dirty
  /\ cache[In].dirty => cache[In].held

(* The output is dirty only between Fill and CleanOutput. *)
CleanInv ==
  cpu \notin {"clean_in", "clean_out"} => \A t \in Tile : ~cache[t].dirty

(* While no job has timed out, DRAM holds the finished tiles of the        *)
(* operator, and the cache agrees with it when the caller reads.           *)
ResultInv ==
  NoTimeout =>
     /\ \A j \in finished : OffloadOf(j) = offload =>
          dram[TileOf(j)] = offload
     /\ cpu = "read" => \A t \in Tile : cache[t].held =>
          cache[t].val = dram[t]

MemoryInv == OperandsInv /\ CleanInv /\ ResultInv

Inv == /\ TypeOK /\ DriverInv /\ CallerInv /\ MemoryInv
       /\ OperandsAreFresh /\ CpuSeesNpuResult

-----------------------------------------------------------------------------

(* The plan, as the proofs use it. *)
LEMMA PlanFacts ==
  /\ MaxJobs \in Nat /\ MaxBudget \in Nat
  /\ \A j \in Job : /\ j \in Nat \ {0}
                    /\ OffloadOf(j) \in Nat \ {0}
                    /\ TileOf(j) \in Nat \ {0}
                    /\ TileOf(j) \in Line /\ TileOf(j) # In
                    /\ OffloadOf(j) \in Value
  /\ MaxJobs > 0 => OffloadOf(1) = 1
  /\ \A i, j \in Job : i <= j => OffloadOf(i) <= OffloadOf(j)
  /\ \A j \in Job : j + 1 \in Job =>
       OffloadOf(j + 1) = OffloadOf(j) \/ OffloadOf(j + 1) = OffloadOf(j) + 1
  /\ \A i, j \in Job :
       OffloadOf(i) = OffloadOf(j) /\ TileOf(i) = TileOf(j) => i = j
  /\ In \in Line /\ In \notin Tile /\ Tile \subseteq Line
  /\ \A l \in Line : l = In \/ l \in Tile
  /\ Value \subseteq Nat
<1>1. MaxJobs \in Nat /\ MaxBudget \in Nat
  BY JobBounds
<1>2. \A j \in Job : /\ j \in Nat \ {0}
                     /\ Plan[j] \in (Nat \ {0}) \X (Nat \ {0})
  BY PlanOK, <1>1 DEF Job
<1>3. \A j \in Job : OffloadOf(j) \in Nat \ {0} /\ TileOf(j) \in Nat \ {0}
  BY <1>2 DEF OffloadOf, TileOf
<1>4. \A i, j \in Job : i <= j => OffloadOf(i) <= OffloadOf(j)
  <2>1. TAKE i \in Job, j \in Job
  <2>2. CASE i = j
    BY <2>2, <1>3
  <2>3. CASE i < j
    BY <2>3, PlanOK
  <2> QED
    BY <2>2, <2>3, <1>2
<1>5. \A j \in Job : j + 1 \in Job =>
        OffloadOf(j + 1) = OffloadOf(j) \/ OffloadOf(j + 1) = OffloadOf(j) + 1
  <2>1. TAKE j \in Job
  <2>2. HAVE j + 1 \in Job
  <2>3. OffloadOf(j + 1) - OffloadOf((j + 1) - 1) \in {0, 1}
    BY <2>2, <1>2, PlanOK
  <2>4. (j + 1) - 1 = j
    BY <1>2
  <2>5. OffloadOf(j + 1) - OffloadOf(j) \in {0, 1}
    BY <2>3, <2>4
  <2> QED
    BY <2>5, <2>2, <1>3
<1>6. \A i, j \in Job : Plan[i] = Plan[j] => i = j
  BY <1>2, PlanOK
<1>7. \A i, j \in Job :
        OffloadOf(i) = OffloadOf(j) /\ TileOf(i) = TileOf(j) => i = j
  BY <1>2, <1>6 DEF OffloadOf, TileOf
<1>8. /\ In \in Line /\ In \notin Tile /\ Tile \subseteq Line
      /\ \A l \in Line : l = In \/ l \in Tile
      /\ Value \subseteq Nat
      /\ \A j \in Job : TileOf(j) \in Line /\ TileOf(j) # In
                        /\ OffloadOf(j) \in Value
  BY <1>3 DEF In, Line, Tile, Value
<1> QED
  BY <1>1, <1>2, <1>3, <1>4, <1>5, <1>7, <1>8, PlanOK

(* A step of the composition is a step of the driver's component. *)
LEMMA NextIsNpuStep == [Next]_vars => NpuStep
BY DEF Next, vars, NpuStep, Caller, Fill, CleanInput, CleanOutput, SubmitTile,
       TileReturned, Invalidate, Read, Driver, Irq, Fetch, WriteBack, Evict,
       Prefetch, Idle, npuVars

-----------------------------------------------------------------------------

(* Type correctness. *)
LEMMA TypeStep == TypeOK /\ CallerInv /\ [Next]_vars => TypeOK'
<1> SUFFICES ASSUME TypeOK, CallerInv, [Next]_vars
             PROVE  TypeOK'
  OBVIOUS
<1> USE PlanFacts
<1>1. CASE Fill
  <2>1. offload' \in Value
    <3>1. offload' = offload + 1 /\ job < MaxJobs
      BY <1>1 DEF Fill
    <3>2. CASE job = 0
      BY <3>1, <3>2, <1>1 DEF Fill, CallerInv, CpuAt, Job, TypeOK
    <3>3. CASE job # 0
      <4>1. job \in Job /\ job + 1 \in Job
        BY <3>1, <3>3 DEF TypeOK, Job
      <4>2. offload = OffloadOf(job) /\ LastTile(job)
        BY <1>1, <3>3 DEF Fill, CallerInv, CpuAt
      <4>3. OffloadOf(job + 1) = offload + 1
        BY <4>1, <4>2, <3>1 DEF LastTile, TypeOK
      <4> QED
        BY <4>1, <4>3, <3>1
    <3> QED
      BY <3>2, <3>3
  <2>2. cache' \in [Line -> [val : Value, held : BOOLEAN, dirty : BOOLEAN]]
    <3>1. offload + 1 \in Value /\ 0 \in Value
      BY <1>1, <2>1 DEF Fill, Value
    <3> QED
      BY <1>1, <3>1 DEF Fill
  <2> QED
    BY <1>1, <2>1, <2>2 DEF Fill, TypeOK, npuVars
<1>2. CASE CleanInput
  BY <1>2 DEF CleanInput, Clean, TypeOK, npuVars
<1>3. CASE CleanOutput
  BY <1>3 DEF CleanOutput, Clean, TypeOK, npuVars
<1>4. CASE SubmitTile
  BY <1>4 DEF SubmitTile, Submit, TypeOK
<1>5. CASE TileReturned
  BY <1>5 DEF TileReturned, TypeOK, npuVars
<1>6. CASE Invalidate
  BY <1>6 DEF Invalidate, TypeOK, npuVars, NoLine, Value
<1>7. CASE Read
  BY <1>7 DEF Read, TypeOK, npuVars
<1>8. CASE Driver
  <2> USE <1>8 DEF Driver, TypeOK
  <2>1. CASE CommitClear
    BY <2>1 DEF CommitClear
  <2>2. CASE CommitEnable
    BY <2>2, <1>8 DEF CommitEnable, CallerInv, DriverAt, Job
  <2>3. CASE PollDone
    BY <2>3 DEF PollDone
  <2>4. CASE PollDelay
    BY <2>4 DEF PollDelay
  <2>5. CASE Timeout
    BY <2>5 DEF Timeout
  <2> QED
    BY <2>1, <2>2, <2>3, <2>4, <2>5 DEF DriverStep
<1>9. CASE Irq
  <2>1. CASE TakeIrq
    <3>1. job_done_num' \in Nat
      BY <2>1 DEF TakeIrq, TypeOK
    <3> QED
      BY <1>9, <2>1, <3>1 DEF Irq, TakeIrq, TypeOK
  <2>2. CASE EndIrq
    BY <1>9, <2>2 DEF Irq, EndIrq, TypeOK
  <2> QED
    BY <1>9, <2>1, <2>2 DEF Irq
<1>10. ASSUME NEW j \in Job, Fetch(j)
       PROVE  TypeOK'
  BY <1>10 DEF Fetch, TypeOK, npuVars
<1>11. ASSUME NEW j \in Job, WriteBack(j)
       PROVE  TypeOK'
  BY <1>11 DEF WriteBack, Finish, TypeOK
<1>12. ASSUME NEW l \in Line, Evict(l)
       PROVE  TypeOK'
  BY <1>12 DEF Evict, TypeOK, npuVars, NoLine, Value
<1>13. ASSUME NEW l \in Line, Prefetch(l)
       PROVE  TypeOK'
  BY <1>13 DEF Prefetch, TypeOK, npuVars
<1>14. CASE UNCHANGED vars
  BY <1>14 DEF vars, TypeOK
<1> QED
  BY <1>1, <1>2, <1>3, <1>4, <1>5, <1>6, <1>7, <1>8, <1>9, <1>10, <1>11,
     <1>12, <1>13, <1>14 DEF Next, Caller, Idle

-----------------------------------------------------------------------------

(* The driver, the engine and the interrupt. *)

LEMMA OutcomeStep ==
  TypeOK /\ OutcomeInv /\ NpuStep => OutcomeInv'
<1> SUFFICES ASSUME TypeOK, OutcomeInv, NpuStep
             PROVE  OutcomeInv'
  OBVIOUS
<1> USE PlanFacts DEF TypeOK, OutcomeInv, DriverAt
<1> SUFFICES ASSUME NEW j \in Job
             PROVE  ( /\ drv # "idle" => job \in Job
                      /\ outcome[j] = "none"
                           <=> (j > job \/ (j = job /\ drv # "idle")) )'
  <2>1. CASE Job = {}
    BY <2>1 DEF NpuStep, Submit, DriverStep, CommitClear, CommitEnable,
         PollDone, PollDelay, Timeout, Finish, TakeIrq, EndIrq, npuVars, Job
  <2> QED
    BY <2>1
<1>0. job \in Nat /\ j \in Nat
  BY DEF Job
<1>1. CASE Submit
  BY <1>0, <1>1 DEF Submit, Job
<1>2. CASE DriverStep
  <2>1. CASE CommitClear
    BY <2>1 DEF CommitClear
  <2>2. CASE CommitEnable
    BY <2>2 DEF CommitEnable
  <2>3. CASE PollDone
    BY <1>0, <2>3 DEF PollDone
  <2>4. CASE PollDelay
    BY <2>4 DEF PollDelay
  <2>5. CASE Timeout
    BY <1>0, <2>5 DEF Timeout
  <2> QED
    BY <1>2, <2>1, <2>2, <2>3, <2>4, <2>5 DEF DriverStep
<1>3. CASE \E i \in Job : Finish(i)
  BY <1>3 DEF Finish
<1>4. CASE TakeIrq
  BY <1>4 DEF TakeIrq
<1>5. CASE EndIrq
  BY <1>5 DEF EndIrq
<1>6. CASE UNCHANGED npuVars
  BY <1>6 DEF npuVars
<1> QED
  BY <1>1, <1>2, <1>3, <1>4, <1>5, <1>6 DEF NpuStep

(* A job that has timed out stays so. *)
LEMMA TimeoutsStay ==
  TypeOK /\ OutcomeInv /\ NpuStep
    => \A j \in Job : outcome[j] = "timeout" => outcome'[j] = "timeout"
<1> SUFFICES ASSUME TypeOK, OutcomeInv, NpuStep, NEW j \in Job,
                    outcome[j] = "timeout"
             PROVE  outcome'[j] = "timeout"
  OBVIOUS
<1>0. \/ UNCHANGED outcome
      \/ /\ drv # "idle"
         /\ \E o \in {"done", "timeout"} : outcome' = [outcome EXCEPT ![job] = o]
  BY DEF NpuStep, Submit, DriverStep, CommitClear, CommitEnable, PollDone,
         PollDelay, Timeout, Finish, TakeIrq, EndIrq, npuVars, DriverAt
<1>1. drv # "idle" => j # job
  BY DEF OutcomeInv, TypeOK
<1> QED
  BY <1>0, <1>1 DEF TypeOK

LEMMA EngineStep ==
  TypeOK /\ OutcomeInv /\ EngineInv /\ NpuStep => EngineInv'
<1> SUFFICES ASSUME TypeOK, OutcomeInv, EngineInv, NpuStep
             PROVE  EngineInv'
  OBVIOUS
<1> USE PlanFacts DEF TypeOK, DriverAt
<1>0. job \in Nat /\ \A i \in Job : i \in Nat
  BY DEF Job
<1>t. NoTimeout' => NoTimeout
  BY TimeoutsStay DEF NoTimeout
<1> SUFFICES ASSUME NEW j \in Job
             PROVE  ( /\ ~(j \in engine /\ j \in finished)
                      /\ j \in engine \cup finished =>
                           j <= job /\ (drv \in {"clear", "enable"} => j # job)
                      /\ j = job /\ drv \in {"poll", "timeout"} /\ NoTimeout =>
                           j \in engine \cup finished )'
  BY DEF EngineInv
<1>i. /\ ~(j \in engine /\ j \in finished)
      /\ j \in engine \cup finished =>
           j <= job /\ (drv \in {"clear", "enable"} => j # job)
      /\ j = job /\ drv \in {"poll", "timeout"} /\ NoTimeout =>
           j \in engine \cup finished
  BY DEF EngineInv
<1>1. CASE Submit
  BY <1>0, <1>i, <1>1 DEF Submit
<1>2. CASE DriverStep
  <2>1. CASE CommitClear
    BY <1>i, <2>1 DEF CommitClear
  <2>2. CASE CommitEnable
    BY <1>0, <1>i, <2>2 DEF CommitEnable
  <2>3. CASE PollDone
    BY <1>i, <2>3 DEF PollDone
  <2>4. CASE PollDelay
    BY <1>i, <1>t, <2>4 DEF PollDelay
  <2>5. CASE Timeout
    BY <1>i, <2>5 DEF Timeout
  <2> QED
    BY <1>2, <2>1, <2>2, <2>3, <2>4, <2>5 DEF DriverStep
<1>3. CASE \E i \in Job : Finish(i)
  BY <1>3, <1>i, <1>t DEF Finish
<1>4. CASE TakeIrq
  BY <1>4, <1>i, <1>t DEF TakeIrq
<1>5. CASE EndIrq
  BY <1>5, <1>i, <1>t DEF EndIrq
<1>6. CASE UNCHANGED npuVars
  BY <1>6, <1>i, <1>t DEF npuVars
<1> QED
  BY <1>1, <1>2, <1>3, <1>4, <1>5, <1>6 DEF NpuStep

LEMMA QuietStep ==
  TypeOK /\ OutcomeInv /\ EngineInv /\ QuietInv /\ NpuStep => QuietInv'
<1> SUFFICES ASSUME TypeOK, OutcomeInv, EngineInv, QuietInv, NpuStep,
                    NoTimeout'
             PROVE  QuietInv'
  BY DEF QuietInv
<1>t. NoTimeout
  BY TimeoutsStay DEF NoTimeout
<1> USE PlanFacts DEF TypeOK, DriverAt
<1>e. \A i \in engine : i = job /\ drv \in {"poll", "timeout"}
  BY <1>t DEF QuietInv
<1>l. drv \in {"idle", "clear", "enable"} => ~int_status /\ irq = "none"
  BY <1>t DEF QuietInv
<1>z. drv \in {"clear", "enable"} => job_done_num = 0
  BY <1>t DEF QuietInv
<1>f. drv \in {"poll", "timeout"} /\ (int_status \/ job_done_num > 0) =>
        job \in finished
  BY <1>t DEF QuietInv
<1>s. drv \in {"poll", "timeout"} /\ job_done_num > 0 =>
        int_status = (irq = "clear")
  BY <1>t DEF QuietInv
<1>c. irq = "clear" => job_done_num > 0
  BY <1>t DEF QuietInv
<1>1. CASE Submit
  BY <1>1, <1>e, <1>l DEF Submit, QuietInv
<1>2. CASE DriverStep
  <2>1. CASE CommitClear
    BY <2>1, <1>e, <1>l, <1>z DEF CommitClear, QuietInv
  <2>2. CASE CommitEnable
    <3>1. engine' = {job} /\ drv' = "poll" /\ job' = job
      BY <2>2, <1>e DEF CommitEnable
    <3>2. ~int_status' /\ irq' = "none" /\ job_done_num' = 0
      BY <2>2, <1>l, <1>z DEF CommitEnable
    <3> QED
      BY <3>1, <3>2 DEF QuietInv
  <2>3. CASE PollDone
    <3>1. job \in finished /\ ~int_status
      BY <2>3, <1>f, <1>s DEF PollDone
    <3>2. engine = {}
      BY <3>1, <1>e DEF EngineInv
    <3> QED
      BY <2>3, <3>1, <3>2 DEF PollDone, QuietInv
  <2>4. CASE PollDelay
    BY <2>4, <1>e, <1>l, <1>z, <1>f, <1>s, <1>c DEF PollDelay, QuietInv
  <2>5. CASE Timeout
    <3>1. job \in Job
      BY <2>5 DEF Timeout, OutcomeInv
    <3> QED
      BY <2>5, <3>1 DEF Timeout, NoTimeout
  <2> QED
    BY <1>2, <2>1, <2>2, <2>3, <2>4, <2>5 DEF DriverStep
<1>3. ASSUME NEW i \in Job, Finish(i)
      PROVE  QuietInv'
  <2>1. i = job /\ drv \in {"poll", "timeout"} /\ i \in engine
    BY <1>3, <1>e DEF Finish
  <2>2. i \notin finished
    BY <2>1 DEF EngineInv
  <2>3. ~(job_done_num > 0)
    BY <2>1, <2>2, <1>f
  <2> QED
    BY <1>3, <2>1, <2>3, <1>e, <1>c DEF Finish, QuietInv
<1>4. CASE TakeIrq
  <2>1. drv \in {"poll", "timeout"}
    BY <1>4, <1>l DEF TakeIrq
  <2>2. job_done_num' \in Nat /\ job_done_num' > 0
    BY <1>4 DEF TakeIrq
  <2>3. job \in finished
    BY <1>4, <2>1, <1>f DEF TakeIrq
  <2> QED
    BY <1>4, <2>1, <2>2, <2>3, <1>e DEF TakeIrq, QuietInv
<1>5. CASE EndIrq
  BY <1>5, <1>e, <1>l, <1>z, <1>f, <1>s, <1>c DEF EndIrq, QuietInv
<1>6. CASE UNCHANGED npuVars
  BY <1>6, <1>e, <1>l, <1>z, <1>f, <1>s, <1>c DEF npuVars, QuietInv
<1> QED
  BY <1>1, <1>2, <1>3, <1>4, <1>5, <1>6 DEF NpuStep

LEMMA DoneStep ==
  TypeOK /\ DriverInv /\ NpuStep => DoneMeansFinished'
<1> SUFFICES ASSUME TypeOK, DriverInv, NpuStep, NEW j \in Job,
                    outcome'[j] = "done", NoTimeoutUpTo(j)'
             PROVE  j \in finished'
  BY DEF DoneMeansFinished
<1> USE DEF TypeOK
<1>1. finished \subseteq finished'
  BY DEF NpuStep, Submit, DriverStep, CommitClear, CommitEnable, PollDone,
         PollDelay, Timeout, Finish, TakeIrq, EndIrq, npuVars
<1>2. NoTimeoutUpTo(j)
  BY TimeoutsStay DEF NoTimeoutUpTo, DriverInv
<1>3. CASE outcome[j] = "done"
  BY <1>1, <1>2, <1>3 DEF DriverInv, DoneMeansFinished
<1>4. CASE outcome[j] # "done"
  <2>1. PollDone /\ j = job
    BY <1>4 DEF NpuStep, Submit, DriverStep, CommitClear, CommitEnable,
         PollDone, PollDelay, Timeout, Finish, TakeIrq, EndIrq, npuVars
  <2>2. NoTimeout
    <3>1. \A i \in Job : i > job => outcome[i] = "none"
      BY DEF DriverInv, OutcomeInv
    <3> QED
      BY <1>2, <2>1, <3>1, PlanFacts DEF NoTimeout, NoTimeoutUpTo
  <2>3. job_done_num > 0 /\ drv = "poll"
    BY <2>1 DEF PollDone, DriverAt
  <2>4. job \in finished
    BY <2>2, <2>3 DEF DriverInv, QuietInv
  <2> QED
    BY <1>1, <2>1, <2>4
<1> QED
  BY <1>3, <1>4

LEMMA DriverStepInv == TypeOK /\ DriverInv /\ NpuStep => DriverInv'
BY OutcomeStep, EngineStep, QuietStep, DoneStep DEF DriverInv

-----------------------------------------------------------------------------

(* The caller and the job it waits for. *)
LEMMA CallerStep == TypeOK /\ CallerInv /\ [Next]_vars => CallerInv'
<1> SUFFICES ASSUME TypeOK, CallerInv, [Next]_vars
             PROVE  CallerInv'
  OBVIOUS
<1> USE PlanFacts DEF TypeOK, CpuAt
<1>0. job \in Nat /\ (job = 0 \/ job \in Job)
      /\ (job < MaxJobs => job + 1 \in Job)
  BY DEF Job
<1>1. CASE Fill
  <2>1. offload' = OffloadOf(job + 1)
    <3>1. CASE job = 0
      BY <1>0, <1>1, <3>1 DEF Fill, CallerInv
    <3>2. CASE job # 0
      <4>1. offload = OffloadOf(job) /\ LastTile(job) /\ job < MaxJobs
        BY <1>1, <3>2 DEF Fill, CallerInv
      <4>2. OffloadOf(job + 1) = OffloadOf(job) + 1
        BY <1>0, <3>2, <4>1 DEF LastTile
      <4> QED
        BY <1>1, <4>1, <4>2 DEF Fill
    <3> QED
      BY <3>1, <3>2
  <2> QED
    BY <1>1, <2>1 DEF Fill, CallerInv, npuVars, LastTile
<1>2. CASE CleanInput
  BY <1>2 DEF CleanInput, CallerInv, npuVars, LastTile
<1>3. CASE CleanOutput
  BY <1>3 DEF CleanOutput, CallerInv, npuVars, LastTile
<1>4. CASE SubmitTile
  BY <1>0, <1>4 DEF SubmitTile, Submit, CallerInv
<1>5. CASE TileReturned
  <2>1. CASE LastTile(job)
    BY <1>5, <2>1 DEF TileReturned, CallerInv, npuVars, LastTile
  <2>2. CASE ~LastTile(job)
    <3>1. job < MaxJobs /\ OffloadOf(job + 1) = OffloadOf(job)
      BY <1>0, <2>2 DEF LastTile
    <3> QED
      BY <1>5, <2>2, <3>1 DEF TileReturned, CallerInv, npuVars
  <2> QED
    BY <2>1, <2>2
<1>6. CASE Invalidate
  BY <1>6 DEF Invalidate, CallerInv, npuVars, LastTile
<1>7. CASE Read
  BY <1>7 DEF Read, CallerInv, npuVars, LastTile
<1>8. CASE Driver
  <2>1. drv # "idle" /\ UNCHANGED <<job, cpu, offload>>
    BY <1>8 DEF Driver, DriverStep, CommitClear, CommitEnable, PollDone,
         PollDelay, Timeout, DriverAt
  <2> QED
    BY <2>1 DEF CallerInv, LastTile
<1>9. CASE UNCHANGED <<drv, job, cpu, offload>>
  BY <1>9 DEF CallerInv, LastTile
<1>10. Irq \/ (\E j \in Job : Fetch(j) \/ WriteBack(j))
         \/ (\E l \in Line : Evict(l) \/ Prefetch(l)) \/ Idle
         \/ UNCHANGED vars
       => UNCHANGED <<drv, job, cpu, offload>>
  BY DEF Irq, TakeIrq, EndIrq, Fetch, WriteBack, Finish, Evict, Prefetch,
       Idle, vars, npuVars
<1> QED
  BY <1>1, <1>2, <1>3, <1>4, <1>5, <1>6, <1>7, <1>8, <1>9, <1>10
     DEF Next, Caller

(* The operands are clean and stay what they are while a job may run.      *)
LEMMA FreshStep ==
  TypeOK /\ DriverInv /\ CallerInv /\ MemoryInv /\ OperandsAreFresh
    /\ [Next]_vars => OperandsAreFresh'
<1> SUFFICES ASSUME TypeOK, DriverInv, CallerInv, MemoryInv,
                    OperandsAreFresh, [Next]_vars,
                    NEW j \in Job, latch'[j] # 0, NoTimeoutUpTo(j)'
             PROVE  latch'[j] = OffloadOf(j)
  BY DEF OperandsAreFresh
<1> USE PlanFacts DEF TypeOK
<1>1. NoTimeoutUpTo(j)
  BY NextIsNpuStep, TimeoutsStay DEF NoTimeoutUpTo, DriverInv
<1>2. CASE latch'[j] = latch[j]
  BY <1>1, <1>2 DEF OperandsAreFresh
<1>3. CASE latch'[j] # latch[j]
  <2>1. Fetch(j)
    BY <1>3 DEF Next, vars, Caller, Fill, CleanInput, CleanOutput,
         SubmitTile, TileReturned, Invalidate, Read, Driver, Irq, Fetch,
         WriteBack, Evict, Prefetch, Idle
  <2>2. j \in engine /\ j \notin finished /\ j <= job
    BY <2>1 DEF Fetch, DriverInv, EngineInv
  <2>3. CASE j = job
    <3>1. NoTimeout
      <4>1. \A i \in Job : i > job => outcome[i] = "none"
        BY DEF DriverInv, OutcomeInv
      <4> QED
        BY <1>1, <2>3, <4>1 DEF NoTimeout, NoTimeoutUpTo
    <3>2. cpu = "wait"
      BY <2>2, <3>1 DEF DriverInv, QuietInv, CallerInv
    <3>3. dram[In] = OffloadOf(j)
      BY <2>3, <3>2 DEF CallerInv, MemoryInv, OperandsInv
    <3> QED
      BY <2>1, <3>3 DEF Fetch
  <2>4. CASE j # job
    <3>1. outcome[j] # "none" /\ outcome[j] # "timeout"
      BY <1>1, <2>2, <2>4 DEF DriverInv, OutcomeInv, NoTimeoutUpTo, Job
    <3> QED
      BY <1>1, <2>2, <3>1 DEF DriverInv, DoneMeansFinished
  <2> QED
    BY <2>3, <2>4
<1> QED
  BY <1>2, <1>3

(* Until an operator submits its first tile no finished job is its own.    *)
LEMMA NoneFinishedYet ==
  TypeOK /\ DriverInv /\ CallerInv /\ cpu \in {"clean_in", "clean_out"}
    => \A j \in finished : OffloadOf(j) # offload
<1> SUFFICES ASSUME TypeOK, DriverInv, CallerInv,
                    cpu \in {"clean_in", "clean_out"}, NEW j \in finished
             PROVE  OffloadOf(j) # offload
  OBVIOUS
<1> USE PlanFacts DEF TypeOK
<1>1. j \in Job /\ j <= job /\ job \in Job /\ job + 1 \in Job
  BY DEF DriverInv, EngineInv, CallerInv, Job
<1>2. OffloadOf(j) <= OffloadOf(job)
  BY <1>1
<1>3. LastTile(job) /\ offload = OffloadOf(job + 1)
  BY <1>1 DEF CallerInv
<1>4. OffloadOf(job + 1) = OffloadOf(job) + 1
  BY <1>1, <1>3 DEF LastTile, Job
<1> QED
  BY <1>1, <1>2, <1>3, <1>4

LEMMA OperandsStep ==
  TypeOK /\ OperandsInv /\ [Next]_vars => OperandsInv'
<1> SUFFICES ASSUME TypeOK, OperandsInv, [Next]_vars
             PROVE  OperandsInv'
  OBVIOUS
<1> USE PlanFacts DEF TypeOK, CpuAt, OperandsInv
<1>1. CASE Fill
  BY <1>1 DEF Fill
<1>2. CASE CleanInput
  <2>1. /\ dram'[In] = IF cache[In].dirty THEN cache[In].val ELSE dram[In]
        /\ cache'[In].dirty = FALSE
    BY <1>2 DEF CleanInput, Clean
  <2> QED
    BY <1>2, <2>1 DEF CleanInput
<1>3. CASE CleanOutput
  <2>1. dram'[In] = dram[In] /\ cache'[In] = cache[In]
    BY <1>3 DEF CleanOutput, Clean
  <2> QED
    BY <1>3, <2>1 DEF CleanOutput
<1>4. CASE SubmitTile \/ TileReturned
  BY <1>4 DEF SubmitTile, TileReturned
<1>5. CASE Invalidate
  <2>1. cache'[In] = cache[In]
    BY <1>5 DEF Invalidate
  <2> QED
    BY <1>5, <2>1 DEF Invalidate
<1>6. CASE Read
  BY <1>6 DEF Read
<1>7. ASSUME NEW j \in Job, WriteBack(j)
      PROVE  OperandsInv'
  BY <1>7 DEF WriteBack
<1>8. ASSUME NEW l \in Line, Evict(l)
      PROVE  OperandsInv'
  <2>1. CASE l = In
    BY <1>8, <2>1 DEF Evict, NoLine
  <2>2. CASE l # In
    BY <1>8, <2>2 DEF Evict
  <2> QED
    BY <2>1, <2>2
<1>9. ASSUME NEW l \in Line, Prefetch(l)
      PROVE  OperandsInv'
  <2>1. dram' = dram /\ cpu' = cpu /\ offload' = offload
    BY <1>9 DEF Prefetch
  <2>2. CASE l = In
    <3>1. cache'[In].dirty = FALSE /\ cache'[In].val = dram[In]
      BY <1>9, <2>2 DEF Prefetch
    <3>2. ~cache[In].dirty
      BY <1>9, <2>2 DEF Prefetch
    <3> QED
      BY <2>1, <3>1, <3>2
  <2>3. CASE l # In
    BY <1>9, <2>1, <2>3 DEF Prefetch
  <2> QED
    BY <2>2, <2>3
<1>10. CASE UNCHANGED <<cpu, offload, dram, cache>>
  BY <1>10
<1>11. Driver \/ Irq \/ (\E j \in Job : Fetch(j)) \/ Idle \/ UNCHANGED vars
       => UNCHANGED <<cpu, offload, dram, cache>>
  BY DEF Driver, Irq, Fetch, Idle, vars
<1> QED
  BY <1>1, <1>2, <1>3, <1>4, <1>5, <1>6, <1>7, <1>8, <1>9, <1>10, <1>11
     DEF Next, Caller

LEMMA CleanStep ==
  TypeOK /\ CleanInv /\ [Next]_vars => CleanInv'
<1> SUFFICES ASSUME TypeOK, CleanInv, [Next]_vars, NEW t \in Tile,
                    cpu' \notin {"clean_in", "clean_out"}
             PROVE  ~cache'[t].dirty
  BY DEF CleanInv
<1> USE PlanFacts DEF TypeOK, CpuAt, CleanInv
<1>1. CASE Fill \/ CleanInput
  BY <1>1 DEF Fill, CleanInput
<1>2. CASE CleanOutput
  BY <1>2 DEF CleanOutput, Clean
<1>3. CASE Invalidate
  BY <1>3 DEF Invalidate, NoLine
<1>4. ASSUME NEW l \in Line, Evict(l) \/ Prefetch(l)
      PROVE  ~cache'[t].dirty
  <2>1. cpu' = cpu /\ t \in Line
    BY <1>4 DEF Evict, Prefetch
  <2>2. CASE t = l
    <3>1. cache'[l].dirty = FALSE
      BY <1>4 DEF Evict, Prefetch, NoLine
    <3> QED
      BY <2>2, <3>1
  <2>3. CASE t # l
    <3>1. cache'[t] = cache[t]
      BY <1>4, <2>1, <2>3 DEF Evict, Prefetch
    <3> QED
      BY <2>1, <3>1
  <2> QED
    BY <2>2, <2>3
<1>5. CASE cache' = cache /\ cpu \notin {"clean_in", "clean_out"}
  BY <1>5
<1>6. SubmitTile \/ TileReturned \/ Read \/ Driver \/ Irq \/ Idle
        \/ (\E j \in Job : Fetch(j) \/ WriteBack(j)) \/ UNCHANGED vars
      => cache' = cache /\ cpu \notin {"clean_in", "clean_out"}
  BY DEF SubmitTile, TileReturned, Read, Driver, Irq, Idle, Fetch, WriteBack,
         vars
<1> QED
  BY <1>1, <1>2, <1>3, <1>4, <1>5, <1>6 DEF Next, Caller

LEMMA ResultStep ==
  /\ TypeOK /\ DriverInv /\ CallerInv /\ MemoryInv /\ OperandsAreFresh
  /\ [Next]_vars
  /\ TypeOK' /\ DriverInv' /\ CallerInv'
  => ResultInv'
<1> SUFFICES ASSUME TypeOK, DriverInv, CallerInv, MemoryInv,
                    OperandsAreFresh, [Next]_vars,
                    TypeOK', DriverInv', CallerInv', NoTimeout'
             PROVE  ResultInv'
  BY DEF ResultInv
<1> DEFINE Kept == \A j \in finished : OffloadOf(j) = offload =>
                     dram[TileOf(j)] = offload
           Agrees == cpu = "read" => \A t \in Tile : cache[t].held =>
                       cache[t].val = dram[t]
<1> USE PlanFacts
<1>t. NoTimeout
  BY NextIsNpuStep, TimeoutsStay DEF NoTimeout, DriverInv
<1>k. Kept /\ Agrees
  BY <1>t DEF MemoryInv, ResultInv
<1>q. \A l \in Line : cache[l].dirty /\ l # In
        => cpu \in {"clean_in", "clean_out"}
  BY DEF MemoryInv, CleanInv
<1> SUFFICES Kept' /\ Agrees'
  BY DEF ResultInv
<1>n. cpu' \in {"clean_in", "clean_out"} => Kept'
  <2> SUFFICES ASSUME cpu' \in {"clean_in", "clean_out"}
               PROVE  \A j \in finished' : OffloadOf(j) # offload'
    OBVIOUS
  <2>1. (TypeOK /\ DriverInv /\ CallerInv /\ cpu \in {"clean_in", "clean_out"}
          => \A j \in finished : OffloadOf(j) # offload)'
    BY NoneFinishedYet, PTL
  <2> QED
    BY <2>1
<1>1. CASE Fill \/ CleanInput
  BY <1>1, <1>n DEF Fill, CleanInput
<1>2. CASE CleanOutput
  <2>1. \A j \in finished : OffloadOf(j) # offload
    BY <1>2, NoneFinishedYet DEF CleanOutput, CpuAt
  <2> QED
    BY <1>2, <2>1 DEF CleanOutput, npuVars
<1>3. CASE Invalidate
  BY <1>3, <1>k DEF Invalidate, npuVars, NoLine, TypeOK
<1>4. ASSUME NEW i \in Job, WriteBack(i)
      PROVE  Kept' /\ Agrees'
  <2>1. i \in engine /\ i = job /\ cpu = "wait"
    BY <1>4, <1>t DEF WriteBack, Finish, DriverInv, QuietInv, CallerInv
  <2>2. offload = OffloadOf(i)
    BY <2>1 DEF CallerInv
  <2>3. latch[i] = offload
    BY <1>4, <1>t, <2>2
    DEF WriteBack, OperandsAreFresh, NoTimeout, NoTimeoutUpTo
  <2>4. /\ finished' = finished \cup {i} /\ offload' = offload
        /\ cpu' = cpu
        /\ \A l \in Line : dram'[l] = IF l = TileOf(i) THEN offload ELSE dram[l]
    BY <1>4, <2>3 DEF WriteBack, Finish, TypeOK
  <2>5. Agrees'
    BY <2>1, <2>4
  <2>6. Kept'
    <3> SUFFICES ASSUME NEW j \in finished', OffloadOf(j) = offload
                 PROVE  dram'[TileOf(j)] = offload
      BY <2>4
    <3>1. j \in Job
      BY <2>4 DEF TypeOK
    <3>2. CASE j = i
      BY <2>4, <3>2
    <3>3. CASE j # i
      <4>1. j \in finished /\ TileOf(j) # TileOf(i)
        BY <2>2, <2>4, <3>1, <3>3
      <4> QED
        BY <1>k, <2>4, <3>1, <4>1
    <3> QED
      BY <3>2, <3>3
  <2> QED
    BY <2>5, <2>6
<1>5. ASSUME NEW l \in Line, Evict(l)
      PROVE  Kept' /\ Agrees'
  <2>1. UNCHANGED <<cpu, offload, finished>>
    BY <1>5 DEF Evict, npuVars
  <2>2. CASE cpu \in {"clean_in", "clean_out"}
    BY <1>n, <2>1, <2>2
  <2>3. CASE cpu \notin {"clean_in", "clean_out"}
    <3>1. \A t \in Tile : dram'[t] = dram[t]
      BY <1>5, <1>q, <2>3 DEF Evict, TypeOK
    <3>2. \A t \in Tile : cache'[t] = cache[t] \/ ~cache'[t].held
      BY <1>5 DEF Evict, NoLine, TypeOK
    <3>3. \A j \in finished : TileOf(j) \in Tile
      BY DEF TypeOK, Tile
    <3> QED
      BY <1>k, <2>1, <3>1, <3>2, <3>3
  <2> QED
    BY <2>2, <2>3
<1>6. ASSUME NEW l \in Line, Prefetch(l)
      PROVE  Kept' /\ Agrees'
  <2>1. UNCHANGED <<cpu, offload, finished, dram>>
    BY <1>6 DEF Prefetch, npuVars
  <2>2. \A t \in Tile : cache'[t] = cache[t] \/ cache'[t].val = dram[t]
    BY <1>6 DEF Prefetch, TypeOK
  <2> QED
    BY <1>k, <2>1, <2>2
<1>7. CASE /\ UNCHANGED <<offload, dram, cache, finished>>
           /\ cpu' # "read" \/ cpu' = cpu
  BY <1>7, <1>k
<1>8. SubmitTile \/ TileReturned \/ Read \/ Driver \/ Irq \/ Idle
        \/ (\E j \in Job : Fetch(j)) \/ UNCHANGED vars
      => /\ UNCHANGED <<offload, dram, cache, finished>>
         /\ cpu' # "read" \/ cpu' = cpu
  BY DEF SubmitTile, Submit, TileReturned, Read, Driver, DriverStep,
         CommitClear, CommitEnable, PollDone, PollDelay, Timeout, Irq, TakeIrq,
         EndIrq, Idle, Fetch, vars, npuVars
<1> QED
  BY <1>1, <1>2, <1>3, <1>4, <1>5, <1>6, <1>7, <1>8 DEF Next, Caller

-----------------------------------------------------------------------------

(* The caller reads a whole operator at once, and only when all of its     *)
(* tiles have been submitted and reported.                                 *)
LEMMA ReadStep == Inv /\ [Next]_vars => CpuSeesNpuResult'
<1> SUFFICES ASSUME Inv, [Next]_vars, NEW j \in Job,
                    OffloadOf(j) < offload'
                      \/ (OffloadOf(j) = offload' /\ cpu' = "fill"),
                    \A i \in Job : OffloadOf(i) <= OffloadOf(j)
                                     => outcome'[i] # "timeout"
             PROVE  read'[j] = OffloadOf(j)
  BY DEF CpuSeesNpuResult
<1> USE PlanFacts DEF Inv, TypeOK
<1>t. \A i \in Job : OffloadOf(i) <= OffloadOf(j) => outcome[i] # "timeout"
  BY NextIsNpuStep, TimeoutsStay DEF DriverInv
<1>o. offload \in Nat /\ OffloadOf(j) \in Nat
  OBVIOUS
<1>1. CASE Read
  <2>1. /\ offload = OffloadOf(job) /\ offload' = offload /\ cpu = "read"
        /\ job \in Job /\ LastTile(job) /\ drv = "idle"
    BY <1>1 DEF Read, CallerInv, CpuAt, Job
  <2>2. CASE OffloadOf(j) # offload
    <3>1. read'[j] = read[j]
      BY <1>1, <2>2 DEF Read
    <3> QED
      BY <1>t, <1>o, <2>1, <2>2, <3>1 DEF CpuSeesNpuResult
  <2>3. CASE OffloadOf(j) = offload
    <3>1. \A i \in Job : OffloadOf(i) <= offload => i <= job
      <4> SUFFICES ASSUME NEW i \in Job, OffloadOf(i) <= offload, ~(i <= job)
                   PROVE  FALSE
        OBVIOUS
      <4>1. job + 1 \in Job /\ job + 1 <= i
        BY <2>1 DEF Job
      <4>2. OffloadOf(job + 1) <= OffloadOf(i)
        BY <4>1
      <4>3. OffloadOf(job + 1) = OffloadOf(job) + 1
        BY <2>1, <4>1 DEF LastTile, Job
      <4> QED
        BY <2>1, <4>2, <4>3
    <3>2. \A i \in Job : i <= job => OffloadOf(i) <= offload
      BY <2>1
    <3>3. NoTimeout
      <4> SUFFICES ASSUME NEW i \in Job
                   PROVE  outcome[i] # "timeout"
        BY DEF NoTimeout
      <4>1. CASE i <= job
        BY <1>t, <2>3, <3>2, <4>1
      <4>2. CASE i > job
        BY <4>2 DEF DriverInv, OutcomeInv
      <4> QED
        BY <2>1, <4>1, <4>2
    <3>4. outcome[j] = "done"
      <4>1. j <= job
        BY <2>3, <3>1
      <4>2. outcome[j] # "none"
        BY <2>1, <4>1 DEF DriverInv, OutcomeInv
      <4> QED
        BY <3>3, <4>2 DEF NoTimeout
    <3>5. j \in finished
      BY <3>3, <3>4 DEF DriverInv, DoneMeansFinished, NoTimeout, NoTimeoutUpTo
    <3>6. dram[TileOf(j)] = offload
      BY <2>3, <3>3, <3>5 DEF MemoryInv, ResultInv
    <3>7. cache[TileOf(j)].held => cache[TileOf(j)].val = dram[TileOf(j)]
      BY <2>1, <3>3 DEF MemoryInv, ResultInv, Tile
    <3> QED
      BY <1>1, <2>3, <3>6, <3>7 DEF Read
  <2> QED
    BY <2>2, <2>3
<1>2. CASE Fill
  <2>1. offload' = offload + 1 /\ cpu = "fill" /\ cpu' = "clean_in"
    BY <1>2 DEF Fill, CpuAt
  <2>2. OffloadOf(j) < offload + 1
    BY <2>1
  <2>3. OffloadOf(j) < offload \/ (OffloadOf(j) = offload /\ cpu = "fill")
    <3> HIDE DEF Inv, TypeOK
    <3> QED
      BY <1>o, <2>1, <2>2
  <2> QED
    BY <1>2, <1>t, <2>3 DEF Fill, CpuSeesNpuResult
<1>3. CASE /\ UNCHANGED <<offload, read>>
           /\ cpu' = cpu \/ cpu' # "fill"
  BY <1>3, <1>t DEF CpuSeesNpuResult
<1>4. CleanInput \/ CleanOutput \/ SubmitTile \/ TileReturned \/ Invalidate
        \/ Driver \/ Irq \/ Idle \/ (\E i \in Job : Fetch(i) \/ WriteBack(i))
        \/ (\E l \in Line : Evict(l) \/ Prefetch(l)) \/ UNCHANGED vars
      => /\ UNCHANGED <<offload, read>>
         /\ cpu' = cpu \/ cpu' # "fill"
  BY DEF CleanInput, CleanOutput, SubmitTile, TileReturned, Invalidate, Driver,
         Irq, Idle, Fetch, WriteBack, Evict, Prefetch, vars
<1> QED
  BY <1>1, <1>2, <1>3, <1>4 DEF Next, Caller

LEMMA InvInit == Init => Inv
<1> SUFFICES ASSUME Init
             PROVE  Inv
  OBVIOUS
<1> USE PlanFacts DEF Init, NpuInit
<1>1. TypeOK
  <2>1. 0 \in Value /\ 0 \in 0 .. MaxJobs /\ 0 \in 0 .. MaxBudget
    BY DEF Value
  <2>2. cache \in [Line -> [val : Value, held : BOOLEAN, dirty : BOOLEAN]]
    BY <2>1 DEF NoLine
  <2>3. outcome \in [Job -> {"none", "done", "timeout"}]
    OBVIOUS
  <2> QED
    BY <2>1, <2>2, <2>3 DEF TypeOK
<1>2. DriverInv
  BY DEF DriverInv, OutcomeInv, EngineInv, QuietInv, DoneMeansFinished, Job
<1>3. CallerInv
  BY DEF CallerInv
<1>4. MemoryInv
  BY DEF MemoryInv, OperandsInv, CleanInv, ResultInv, NoLine
<1>5. OperandsAreFresh /\ CpuSeesNpuResult
  BY DEF OperandsAreFresh, CpuSeesNpuResult
<1> QED
  BY <1>1, <1>2, <1>3, <1>4, <1>5 DEF Inv

LEMMA InvStep == Inv /\ [Next]_vars => Inv'
<1> SUFFICES ASSUME Inv, [Next]_vars
             PROVE  Inv'
  OBVIOUS
<1> USE DEF Inv
<1>1. TypeOK'
  BY TypeStep
<1>2. DriverInv'
  BY NextIsNpuStep, DriverStepInv
<1>3. CallerInv'
  BY CallerStep
<1>4. OperandsAreFresh'
  BY FreshStep
<1>5. MemoryInv'
  BY <1>1, <1>2, <1>3, OperandsStep, CleanStep, ResultStep DEF MemoryInv
<1>6. CpuSeesNpuResult'
  BY ReadStep
<1> QED
  BY <1>1, <1>2, <1>3, <1>4, <1>5, <1>6

LEMMA Invariance == Spec => []Inv
<1>1. Init => Inv
  BY InvInit
<1>2. Inv /\ [Next]_vars => Inv'
  BY InvStep
<1> QED
  BY <1>1, <1>2, PTL DEF Spec

(* Whatever the plan and the budget: an operator offloaded while no job    *)
(* has timed out runs on its own operands, is over when it is reported     *)
(* done, and is read by the CPU as the NPU wrote it.                       *)
THEOREM OffloadIsSound ==
  Spec => [](TypeOK /\ DoneMeansFinished /\ OperandsAreFresh /\ CpuSeesNpuResult)
<1>1. Inv => TypeOK /\ DoneMeansFinished /\ OperandsAreFresh /\ CpuSeesNpuResult
  BY DEF Inv, DriverInv
<1> QED
  BY <1>1, Invariance, PTL

(* Until the first timeout, job_wait_complete reports done only for a job  *)
(* whose engine is over: no earlier interrupt is counted for it.           *)
THEOREM DoneIsFinished == Spec => []DoneMeansFinished
<1>1. Inv => DoneMeansFinished
  BY DEF Inv, DriverInv
<1> QED
  BY <1>1, Invariance, PTL

(* The operands the engine reads of the reused input buffer are those of   *)
(* the operator that submitted it, for every tile.                         *)
THEOREM TheEngineReadsFreshOperands == Spec => []OperandsAreFresh
<1>1. Inv => OperandsAreFresh
  BY DEF Inv, DriverInv
<1> QED
  BY <1>1, Invariance, PTL

(* From CleanOutput to Read only the engine writes a tile of the output in *)
(* DRAM, timeouts or not: the cache has no dirty line of it to evict.      *)
THEOREM OnlyTheEngineWritesTheOutput == Spec => NoDirtyOutputWhileRunning
<1> DEFINE Own == \A t \in Tile :
                    /\ cpu \in {"submit", "wait", "invalidate", "read"}
                    /\ dram'[t] # dram[t]
                    => \E j \in engine : TileOf(j) = t /\ j \in finished'
<1>1. Inv /\ [Next]_vars => [Own]_vars
  <2> SUFFICES ASSUME Inv, [Next]_vars, NEW t \in Tile,
                      cpu \in {"submit", "wait", "invalidate", "read"},
                      dram'[t] # dram[t]
               PROVE  \E j \in engine : TileOf(j) = t /\ j \in finished'
    OBVIOUS
  <2> USE PlanFacts DEF Inv, TypeOK
  <2>1. t \in Line /\ ~cache[t].dirty
    BY DEF MemoryInv, CleanInv
  <2>2. ASSUME NEW i \in Job, WriteBack(i)
        PROVE  \E j \in engine : TileOf(j) = t /\ j \in finished'
    <3>1. TileOf(i) = t
      BY <2>1, <2>2 DEF WriteBack
    <3> QED
      BY <2>2, <3>1 DEF WriteBack, Finish
  <2>3. ASSUME NEW l \in Line, Evict(l)
        PROVE  dram'[t] = dram[t]
    BY <2>1, <2>3 DEF Evict
  <2>4. Fill \/ CleanInput \/ CleanOutput => FALSE
    BY DEF Fill, CleanInput, CleanOutput, CpuAt
  <2>5. SubmitTile \/ TileReturned \/ Invalidate \/ Read \/ Driver \/ Irq
          \/ Idle \/ (\E i \in Job : Fetch(i)) \/ (\E l \in Line : Prefetch(l))
          \/ UNCHANGED vars
        => dram' = dram
    BY DEF SubmitTile, TileReturned, Invalidate, Read, Driver, Irq, Idle,
           Fetch, Prefetch, vars
  <2> QED
    BY <2>2, <2>3, <2>4, <2>5 DEF Next, Caller
<1> QED
  BY <1>1, InvInit, InvStep, PTL DEF Spec, NoDirtyOutputWhileRunning
=============================================================================
