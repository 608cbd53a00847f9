------------------------------ MODULE Workload ------------------------------
(* The tests t_kernel_main is built to run, each with its own state: the    *)
(* operators on the engine (NpuConv), the story teller (Llm), the detector  *)
(* (Yolo) and one call of the arithmetic they share (Kernels).  Which one   *)
(* runs is chosen at build time, by the calls left in comments.             *)
EXTENDS NpuConv, Kernels, Llm, Yolo

workload_vars == <<vars, kernel_vars, llm_vars, yolo_vars>>

NpuConvOff ==
  /\ prog = CHOOSE p \in Programs : TRUE
  /\ at = 1 /\ m0 = 0 /\ phase = "off"
  /\ feat = << >> /\ out = << >> /\ tasks = << >> /\ tile = 1 /\ result = << >>

KernelsOff == kcase = [kernel |-> "off"] /\ kout = << >>

WorkloadInit ==
  \/ Init /\ KernelsOff /\ llm_init_at("off") /\ yolo_init_at("off")
  \/ NpuConvOff /\ KernelInit /\ llm_init_at("off") /\ yolo_init_at("off")
  \/ NpuConvOff /\ KernelsOff /\ llm_init_at("load") /\ yolo_init_at("off")
  \/ NpuConvOff /\ KernelsOff /\ llm_init_at("off") /\ yolo_init_at("load")

(* The chosen test is over.                                                 *)
AllOver ==
  /\ phase = "off" \/ Finished
  /\ kcase.kernel = "off" \/ kout # << >>
  /\ lstage \in {"off", "failed"} \/ (lstage = "prompt" /\ story = Len(Prompts))
  /\ ystage \in {"off", "failed", "done"}

Halt == AllOver /\ UNCHANGED workload_vars

WorkloadNext ==
  \/ phase # "off" /\ Next /\ UNCHANGED <<kernel_vars, llm_vars, yolo_vars>>
  \/ kcase.kernel # "off" /\ Compute /\ UNCHANGED <<vars, llm_vars, yolo_vars>>
  \/ LlmNext /\ UNCHANGED <<vars, kernel_vars, yolo_vars>>
  \/ YoloNext /\ UNCHANGED <<vars, kernel_vars, llm_vars>>
  \/ Halt

WorkloadSpec == WorkloadInit /\ [][WorkloadNext]_workload_vars

----------------------------------------------------------------------------
(* The type invariants of the tests, of the one that runs.                  *)
WorkloadTypeOK ==
  /\ phase # "off" => TypeOK
  /\ LlmTypeOK
  /\ YoloTypeOK

(* Every text, and every prompt of a run of stories, reaches the model as   *)
(* its byte pair encoding: one pass per rule in rank order ends where       *)
(* merging the best pair again and again ends, and where every character is *)
(* a token the ids read back as the text (llm_tokenizer_encode, _decode,    *)
(* test_llm.c).                                                             *)
EncodeIsBpe == TextsEncoded /\ StoriesEncoded
=============================================================================
