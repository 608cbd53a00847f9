-------------------------------- MODULE Gic --------------------------------
(***************************************************************************)
(* The interrupt controller as src/dev/t_gicv3.c programs it, and the      *)
(* dispatch of an interrupt on core 0 in src/exception/t_exception.c.      *)
(*                                                                         *)
(* Every interrupt line is level sensitive and routed to core 0.  A core   *)
(* in a handler has its interrupts masked, from the exception to the eret  *)
(* of .Lexception_return.  A module that EXTENDS this one says which lines *)
(* the devices hold up.                                                    *)
(***************************************************************************)
EXTENDS Naturals, Sequences

Intid == {"timer", "uart", "npu"}      \* CNTP_TIMER, DW_UART_IRQ, NPU0_IRQ
NoHandler == "NULL"

VARIABLES
  gicOn,           \* the distributor, the redistributor and the CPU interface pass interrupts
  intEnabled,      \* the interrupts whose ISENABLER bit is set
  g_handler_vec,   \* the handler of each interrupt
  masked,          \* PSTATE.I of core 0
  irq,             \* where core 0 is in the exception, "none" outside
  vector,          \* the interrupt acknowledged last
  need_schedule_flag

gicVars == <<gicOn, intEnabled, g_handler_vec, masked, irq, vector,
             need_schedule_flag>>

GicTypeOK ==
  /\ gicOn \in BOOLEAN /\ masked \in BOOLEAN /\ need_schedule_flag \in BOOLEAN
  /\ intEnabled \subseteq Intid
  /\ g_handler_vec \in [Intid -> {NoHandler, "timer", "uart", "job_done"}]
  /\ irq \in {"none", "dispatch", "timer", "uart", "uart_rx", "uart_tx",
              "uart_off", "job_done", "eoi"}
  /\ vector \in Intid

(* Reset, with the interrupts masked by the boot code. *)
GicReset ==
  /\ gicOn = FALSE /\ intEnabled = {}
  /\ g_handler_vec = [v \in Intid |-> NoHandler]
  /\ masked = TRUE /\ irq = "none" /\ vector = "timer"
  /\ need_schedule_flag = FALSE

-----------------------------------------------------------------------------
(* The calls of the initialisation. *)

gicv3_init ==
  /\ gicOn' = TRUE
  /\ UNCHANGED <<intEnabled, g_handler_vec, masked, irq, vector, need_schedule_flag>>

irq_install(v, h) == g_handler_vec' = [g_handler_vec EXCEPT ![v] = h]

gicv3_enable_int(v, enable) ==
  intEnabled' = IF enable THEN intEnabled \cup {v} ELSE intEnabled \ {v}

-----------------------------------------------------------------------------
(* The exception.  "line" is the set of interrupts whose line is up.       *)

Signalled(line) == IF gicOn THEN line \cap intEnabled ELSE {}

(* The core takes the exception, the vector saves the registers, and       *)
(* gicv3_read_iar acknowledges one of the pending interrupts.              *)
TakeIrq(line) ==
  /\ ~masked
  /\ \E v \in Signalled(line) : vector' = v
  /\ masked' = TRUE
  /\ irq' = "dispatch"
  /\ UNCHANGED <<gicOn, intEnabled, g_handler_vec, need_schedule_flag>>

(* An interrupt without a handler is only marked as handled. *)
Dispatch ==
  /\ irq = "dispatch"
  /\ irq' = IF g_handler_vec[vector] = NoHandler THEN "eoi"
            ELSE g_handler_vec[vector]
  /\ UNCHANGED <<gicOn, intEnabled, g_handler_vec, masked, vector, need_schedule_flag>>

(* gicv3_write_eoir, the scheduling flag, the restored registers, eret. *)
Eoi ==
  /\ irq = "eoi"
  /\ need_schedule_flag' = FALSE
  /\ irq' = "none"
  /\ masked' = FALSE
  /\ UNCHANGED <<gicOn, intEnabled, g_handler_vec, vector>>
=============================================================================
