--------------------------- MODULE BringupProofs ---------------------------
(***************************************************************************)
(* Proofs about module Bringup: interrupts are enabled before the drivers  *)
(* are initialised, and still none is dispatched before its handler is     *)
(* there; the power domains and clocks are what rknpu_init and the clock   *)
(* code take them to be; the console dumps files that were received as a   *)
(* whole; the text that putchar took is what goes out on the wire, every   *)
(* byte that arrives is accounted for, and all variables keep their types. *)
(*                                                                         *)
(* GicInv, the invariant of the interrupts, comes first: everything else   *)
(* rests on it.  For the UART driver: what the ring of t_uart_dwp.c does   *)
(* to the queue it stands for, what a byte more does to a text that is     *)
(* being sent, and what each move of a byte does to the account of those   *)
(* that have arrived; then the invariant of the way out (TxInv), that of   *)
(* the way in (RxInv) and the types, each step by step.                    *)
(***************************************************************************)
EXTENDS Bringup, FiniteSetTheorems, SequenceTheorems, TLAPS

-----------------------------------------------------------------------------
(* Interrupts and their handlers. *)

(* Up to EnableUart the UART's interrupt is off.  putchar runs before and  *)
(* after, and is told apart by what has been written.                      *)
BeforeUart == {"gic", "timer_init", "timer_enable", "enable_interrupts", "u_reset",
               "u_idle", "u_ier", "u_line", "u_fcr", "u_install", "u_rdi", "u_gic"}
AfterFirst == Label \ {"gic", "timer_init", "timer_enable", "enable_interrupts",
                       "put", "put_c"}
InUart == {"uart", "uart_rx", "uart_tx", "uart_off"}

HandlerOf == [timer |-> "timer", uart |-> "uart", npu |-> "job_done"]

GicTyped ==
  /\ pc \in Label /\ plan \in Plan /\ accepted \in Seq(Char)
  /\ intEnabled \subseteq Intid /\ vector \in Intid
  /\ g_handler_vec \in [Intid -> {NoHandler, "timer", "uart", "job_done"}]

(* A handler is installed before its interrupt is enabled, and nothing     *)
(* else is ever installed.                                                 *)
Installed ==
  /\ \A v \in Intid : g_handler_vec[v] \in {NoHandler, HandlerOf[v]}
  /\ \A v \in intEnabled : g_handler_vec[v] # NoHandler
  /\ pc \in {"u_rdi", "u_gic"} => g_handler_vec["uart"] # NoHandler
  /\ pc = "npu_gic" => g_handler_vec["npu"] # NoHandler

UartOff ==
  /\ pc \in BeforeUart => "uart" \notin intEnabled
  /\ pc \in {"put", "put_c"} /\ accepted = << >> => "uart" \notin intEnabled
  /\ pc \in AfterFirst => accepted # << >>

(* putchar is called while the script has a character left.                *)
Writing ==
  /\ pc \in {"gic", "timer_init", "timer_enable", "enable_interrupts"} => accepted = << >>
  /\ pc \in {"put", "put_c"} => Len(accepted) < Len(Script)

(* What the core is in an exception for is enabled. *)
Served ==
  /\ irq = "dispatch" => vector \in intEnabled
  /\ irq \in InUart => "uart" \in intEnabled

GicInv == GicTyped /\ Installed /\ UartOff /\ Writing /\ Served

gicSeen == <<pc, plan, accepted, intEnabled, g_handler_vec, irq, vector>>

LEMMA GicInvUnseen == GicInv /\ UNCHANGED gicSeen => GicInv'
  BY DEF GicInv, GicTyped, Installed, UartOff, Writing, Served, gicSeen

LEMMA GicInvInit == Init => GicInv
<1> SUFFICES ASSUME Init PROVE GicInv
  OBVIOUS
<1> USE DEF Init, GicReset
<1>1. GicTyped
  BY DEF GicTyped, Label, Intid, NoHandler
<1>2. Installed
  BY DEF Installed, Intid, NoHandler
<1>3. UartOff
  BY DEF UartOff, AfterFirst, Label
<1>4. Served
  BY DEF Served, InUart
<1>5. Writing
  BY DEF Writing
<1> QED
  BY <1>1, <1>2, <1>3, <1>4, <1>5 DEF GicInv

(* A step of the program that goes to another label and, at most, installs *)
(* nothing and enables nothing.                                            *)
LEMMA GicInvMoves ==
  ASSUME GicInv, UNCHANGED <<plan, accepted, gicVars>>, pc' \in Label,
         pc' \in {"u_rdi", "u_gic"} => g_handler_vec["uart"] # NoHandler,
         pc' = "npu_gic" => g_handler_vec["npu"] # NoHandler,
         pc' \in BeforeUart => "uart" \notin intEnabled,
         pc' \in {"put", "put_c"} =>
           Len(accepted) < Len(Script) /\ (accepted # << >> \/ "uart" \notin intEnabled),
         pc' \notin {"gic", "timer_init", "timer_enable", "enable_interrupts"},
         pc' \in AfterFirst => accepted # << >>
  PROVE  GicInv'
  BY DEF GicInv, GicTyped, Installed, UartOff, Writing, Served, gicVars

LEMMA GicInvDevices ==
  GicInv /\ (Device \/ TimerTick \/ PowerUp) => GicInv'
<1> SUFFICES ASSUME GicInv, Device \/ TimerTick \/ PowerUp PROVE UNCHANGED gicSeen
  BY GicInvUnseen
<1> QED
  BY DEF Device, TimerTick, PowerUp, gicVars, mainVars, gicSeen

LEMMA GicInvInterrupt == GicInv /\ Interrupt => GicInv'
<1> SUFFICES ASSUME GicInv, Interrupt PROVE GicInv'
  OBVIOUS
<1> USE DEF Interrupt, TakeIrq, RestMain, GicInv
<1>1. vector' \in intEnabled /\ vector' \in Intid
  BY DEF Signalled, GicTyped
<1>2. pc' \in Label /\ (pc' # pc => pc = "asleep" /\ pc' = "get")
  BY DEF GicTyped, Label
<1>3. GicTyped'
  BY <1>1, <1>2 DEF GicTyped
<1>4. Installed'
  BY <1>2 DEF Installed
<1>5. UartOff'
  BY <1>2 DEF UartOff, BeforeUart, AfterFirst, Label
<1>6. Served'
  BY <1>1 DEF Served, InUart
<1>7. Writing'
  BY <1>2 DEF Writing
<1> QED
  BY <1>3, <1>4, <1>5, <1>6, <1>7

LEMMA GicInvHandler == GicInv /\ Handler => GicInv'
<1> SUFFICES ASSUME GicInv, Handler PROVE GicInv'
  OBVIOUS
<1>1. CASE Dispatch /\ UNCHANGED mainVars
  <2>1. UNCHANGED <<pc, plan, accepted, intEnabled, g_handler_vec, vector>>
    BY <1>1 DEF Dispatch, mainVars
  <2>2. irq' \in InUart => "uart" \in intEnabled
    <3> SUFFICES ASSUME irq' \in InUart PROVE "uart" \in intEnabled
      OBVIOUS
    <3>1. irq' = g_handler_vec[vector] /\ vector \in Intid /\ vector \in intEnabled
      BY <1>1 DEF Dispatch, InUart, GicInv, Served, GicTyped
    <3>2. vector = "uart"
      BY <3>1 DEF GicInv, Installed, HandlerOf, InUart, Intid, NoHandler
    <3> QED
      BY <3>1, <3>2
  <2>3. irq' # "dispatch"
    BY <1>1 DEF Dispatch, GicInv, GicTyped, NoHandler
  <2> QED
    BY <2>1, <2>2, <2>3 DEF GicInv, GicTyped, Installed, UartOff, Writing, Served
<1>2. CASE Eoi /\ UNCHANGED mainVars
  BY <1>2 DEF Eoi, mainVars, GicInv, GicTyped, Installed, UartOff, Writing, Served, InUart
<1>3. CASE UartHandler /\ UNCHANGED mainVars
  <2>1. UNCHANGED <<pc, plan, accepted, intEnabled, g_handler_vec, vector>>
    BY <1>3 DEF UartHandler, mainVars
  <2>2. irq \in InUart /\ irq' # "dispatch"
    BY <1>3 DEF UartHandler, ReadIir, RxByte, RxEnd, TxByte, TxEnd,
                dw_uart_disable_tx_interrupt, InUart
  <2> QED
    BY <2>1, <2>2 DEF GicInv, GicTyped, Installed, UartOff, Writing, Served
<1>4. CASE timer_handler
  BY <1>4 DEF timer_handler, mainVars, GicInv, GicTyped, Installed, UartOff, Writing, Served, InUart
<1> QED
  BY <1>1, <1>2, <1>3, <1>4 DEF Handler

(* t_kernel_main. *)
LEMMA GicInvBoot ==
  GicInv /\ (InitGic \/ timer_init \/ timer_enable \/ enable_interrupts) => GicInv'
<1> SUFFICES ASSUME GicInv, InitGic \/ timer_init \/ timer_enable \/ enable_interrupts
             PROVE  GicInv'
  OBVIOUS
<1> USE DEF GicInv, GicTyped, Installed, UartOff, Writing, Served, BeforeUart, AfterFirst, Label,
            InUart, At, Goto, RestMain, RestGic, gicVars
<1>1. CASE InitGic
  BY <1>1 DEF InitGic, gicv3_init
<1>2. CASE timer_init
  <2>1. /\ pc = "timer_init" /\ pc' = "timer_enable" /\ UNCHANGED <<plan, accepted>>
        /\ g_handler_vec' = [g_handler_vec EXCEPT !["timer"] = "timer"]
        /\ intEnabled' = intEnabled \cup {"timer"} /\ UNCHANGED <<irq, vector>>
    BY <1>2 DEF timer_init, irq_install, gicv3_enable_int
  <2> QED
    BY <2>1 DEF Intid, HandlerOf, NoHandler
<1>3. CASE timer_enable
  BY <1>3 DEF timer_enable
<1>4. CASE enable_interrupts
  <2>1. Len(Script) > 0
    BY BringupConstants
  <2> QED
    BY <1>4, <2>1 DEF enable_interrupts
<1> QED
  BY <1>1, <1>2, <1>3, <1>4

LEMMA GicInvUartInit == GicInv /\ dw_uart_init => GicInv'
<1> SUFFICES ASSUME GicInv, dw_uart_init PROVE GicInv'
  OBVIOUS
<1> USE DEF UartStep, At, Goto, RestMain, RestGic
<1>1. CASE ResetRings \/ dw_uart_wait_idle \/ ClearIer \/ LineControl \/ ClearFifos
  <2>1. /\ pc \in {"u_reset", "u_idle", "u_ier", "u_line", "u_fcr"}
        /\ pc' \in {"u_idle", "u_ier", "u_line", "u_fcr", "u_install"}
        /\ UNCHANGED <<plan, accepted, gicVars>>
    BY <1>1 DEF ResetRings, dw_uart_wait_idle, ClearIer, LineControl, ClearFifos
  <2>2. "uart" \notin intEnabled /\ accepted # << >>
    BY <2>1 DEF GicInv, UartOff, BeforeUart, AfterFirst, Label
  <2> QED
    BY <2>1, <2>2, GicInvMoves DEF Label
<1>2. CASE InstallUart
  <2>1. /\ pc = "u_install" /\ pc' = "u_rdi" /\ UNCHANGED <<plan, accepted>>
        /\ g_handler_vec' = [g_handler_vec EXCEPT !["uart"] = "uart"]
        /\ UNCHANGED <<intEnabled, irq, vector>>
    BY <1>2 DEF InstallUart, irq_install
  <2> QED
    BY <2>1 DEF GicInv, GicTyped, Installed, UartOff, Writing, Served, BeforeUart, AfterFirst,
                Label, InUart, Intid, HandlerOf, NoHandler
<1>3. CASE dw_uart_enable_rx_interrupt
  <2>1. pc = "u_rdi" /\ pc' = "u_gic" /\ UNCHANGED <<plan, accepted, gicVars>>
    BY <1>3 DEF dw_uart_enable_rx_interrupt
  <2>2. "uart" \notin intEnabled /\ accepted # << >> /\ g_handler_vec["uart"] # NoHandler
    BY <2>1 DEF GicInv, UartOff, Installed, BeforeUart, AfterFirst, Label
  <2> QED
    BY <2>1, <2>2, GicInvMoves DEF Label
<1>4. CASE EnableUart
  <2>1. /\ pc = "u_gic" /\ pc' = "u_mark" /\ UNCHANGED <<plan, accepted>>
        /\ intEnabled' = intEnabled \cup {"uart"}
        /\ UNCHANGED <<g_handler_vec, irq, vector>>
    BY <1>4 DEF EnableUart, gicv3_enable_int
  <2> QED
    BY <2>1 DEF GicInv, GicTyped, Installed, UartOff, Writing, Served, BeforeUart, AfterFirst,
                Label, Intid
<1>5. CASE MarkInitialized
  <2>1. pc = "u_mark" /\ pc' = "client" /\ UNCHANGED <<plan, accepted, gicVars>>
    BY <1>5 DEF MarkInitialized
  <2>2. accepted # << >>
    BY <2>1 DEF GicInv, UartOff, AfterFirst, Label
  <2> QED
    BY <2>1, <2>2, GicInvMoves DEF Label, BeforeUart
<1> QED
  BY <1>1, <1>2, <1>3, <1>4, <1>5 DEF dw_uart_init

LEMMA GicInvPut == GicInv /\ dw_uart_putchar => GicInv'
<1> SUFFICES ASSUME GicInv, dw_uart_putchar PROVE GicInv'
  OBVIOUS
<1>1. pc \in {"put", "put_c"} /\ plan' = plan /\ UNCHANGED gicVars
  BY DEF dw_uart_putchar, PutPolledCR, PutPolled, PutQueued, At, PutRest, RestGic
<1>2. CASE pc' \in {"put", "put_c"} /\ UNCHANGED <<plan, accepted>>
  <2>1. /\ accepted # << >> \/ "uart" \notin intEnabled
        /\ Len(accepted) < Len(Script)
    BY <1>1 DEF GicInv, UartOff, Writing
  <2> QED
    BY <1>1, <1>2, <2>1, GicInvMoves DEF Label, BeforeUart, AfterFirst
<1>3. CASE Taken
  <2>1. Char1 \in Char /\ accepted \in Seq(Char)
    BY <1>1, BringupConstants DEF GicInv, GicTyped, Writing, Char1
  <2>2. accepted' \in Seq(Char) /\ accepted' # << >>
    BY <1>3, <2>1 DEF Taken
  <2>3. /\ pc' \in {"u_reset", "client"}
        /\ pc' = "u_reset" => "uart" \notin intEnabled
    BY <1>1, <1>3 DEF Taken, Goto, AfterPut, GicInv, UartOff
  <2> QED
    BY <1>1, <2>2, <2>3 DEF GicInv, GicTyped, Installed, UartOff, Writing, Served, BeforeUart,
                            AfterFirst, Label, gicVars
<1> QED
  BY <1>1, <1>2, <1>3 DEF dw_uart_putchar, PutPolledCR, PutPolled, PutQueued, At, Goto

LEMMA GicInvGet == GicInv /\ dw_uart_getchar => GicInv'
<1> SUFFICES ASSUME GicInv, dw_uart_getchar PROVE GicInv'
  OBVIOUS
<1>1. /\ pc \in {"get", "wfi", "get_rbr"} /\ pc' \in {"key", "wfi", "asleep", "get_rbr"}
      /\ UNCHANGED <<plan, accepted, gicVars>>
  BY DEF dw_uart_getchar, GetQueued, Wfi, GetPolledWait, GetPolledRead, GetRest,
         RestGic, At, Goto
<1>2. accepted # << >>
  BY <1>1 DEF GicInv, UartOff, AfterFirst, Label
<1> QED
  BY <1>1, <1>2, GicInvMoves DEF Label, BeforeUart

LEMMA GicInvUser == GicInv /\ (Client \/ Command \/ rknpu_init) => GicInv'
<1> SUFFICES ASSUME GicInv, Client \/ Command \/ rknpu_init PROVE GicInv'
  OBVIOUS
<1> USE DEF At, Goto, RestMain, RestGic
<1>1. CASE Client
  <2>1. pc = "client" /\ UNCHANGED <<plan, accepted, gicVars>>
    BY <1>1 DEF Client
  <2>2. /\ pc' \in {"put", "get", "key", "npu_clear", "idle"} \/ pc' = pc
        /\ pc' = "put" => Len(accepted) < Len(Script)
    <3>1. CASE plan = "write"
      BY <1>1, <3>1 DEF Client
    <3>2. CASE plan = "listen"
      BY <1>1, <3>2 DEF Client
    <3>3. CASE plan = "console"
      BY <1>1, <3>3 DEF Client
    <3>4. CASE plan = "npu"
      BY <1>1, <3>4 DEF Client
    <3>5. CASE plan = "clocks"
      BY <1>1, <3>5 DEF Client
    <3> QED
      BY <3>1, <3>2, <3>3, <3>4, <3>5 DEF GicInv, GicTyped, Plan
  <2>3. accepted # << >>
    BY <2>1 DEF GicInv, UartOff, AfterFirst, Label
  <2> QED
    BY <2>1, <2>2, <2>3, GicInvMoves DEF Label, BeforeUart
<1>2. CASE Command
  <2>1. pc = "key" /\ pc' \in {"idle", "client"} /\ UNCHANGED <<plan, accepted, gicVars>>
    BY <1>2 DEF Command
  <2>2. accepted # << >>
    BY <2>1 DEF GicInv, UartOff, AfterFirst, Label
  <2> QED
    BY <2>1, <2>2, GicInvMoves DEF Label, BeforeUart
<1>3. CASE rknpu_init
  <2> USE DEF NpuStep
  <2>1. /\ pc \in {"npu_clear", "npu_install", "npu_gic"}
        /\ pc' \in {"npu_install", "npu_gic", "idle"}
        /\ UNCHANGED <<plan, accepted, irq, vector>>
    BY <1>3 DEF rknpu_init, NpuClear, NpuInstall, NpuGic, gicVars
  <2>2. accepted # << >>
    BY <2>1 DEF GicInv, UartOff, AfterFirst, Label
  <2>3. CASE NpuClear
    BY <2>1, <2>2, <2>3, GicInvMoves DEF NpuClear, Label, BeforeUart
  <2>4. CASE NpuInstall
    <3>1. /\ pc' = "npu_gic" /\ intEnabled' = intEnabled
          /\ g_handler_vec' = [g_handler_vec EXCEPT !["npu"] = "job_done"]
      BY <2>4 DEF NpuInstall, irq_install
    <3> QED
      BY <2>1, <2>2, <3>1 DEF GicInv, GicTyped, Installed, UartOff, Writing, Served,
              BeforeUart, AfterFirst, Label, Intid, HandlerOf, NoHandler
  <2>5. CASE NpuGic
    <3>1. /\ pc = "npu_gic" /\ pc' = "idle" /\ g_handler_vec' = g_handler_vec
          /\ intEnabled' = intEnabled \cup {"npu"}
      BY <2>5 DEF NpuGic, gicv3_enable_int
    <3> QED
      BY <2>1, <2>2, <3>1 DEF GicInv, GicTyped, Installed, UartOff, Writing, Served,
              BeforeUart, AfterFirst, Label, Intid
  <2> QED
    BY <1>3, <2>3, <2>4, <2>5 DEF rknpu_init
<1> QED
  BY <1>1, <1>2, <1>3

LEMMA GicInvStep == GicInv /\ [Next]_vars => GicInv'
<1> SUFFICES ASSUME GicInv, [Next]_vars PROVE GicInv'
  OBVIOUS
<1>1. CASE Main
  BY <1>1, GicInvBoot, GicInvUartInit, GicInvPut, GicInvGet, GicInvUser, GicInvDevices
     DEF Main
<1>2. CASE Interrupt \/ Handler \/ Device \/ TimerTick
  BY <1>2, GicInvInterrupt, GicInvHandler, GicInvDevices
<1>3. CASE UNCHANGED vars
  BY <1>3, GicInvUnseen DEF vars, gicVars, mainVars, gicSeen
<1> QED
  BY <1>1, <1>2, <1>3 DEF Next

(* No interrupt is dispatched before its handler is installed and what the *)
(* UART's handler works on is initialised, for every script, ring and FIFO *)
(* (t_kernel_main enables interrupts before dw_uart_init and rknpu_init).  *)
THEOREM HandlersAreThereInTime == Spec => []EveryInterruptHasHandler
<1>1. GicInv => EveryInterruptHasHandler
  BY DEF GicInv, Served, Installed, UartOff, EveryInterruptHasHandler, InUart, BeforeUart
<1> QED
  BY <1>1, GicInvInit, GicInvStep, PTL DEF Spec

-----------------------------------------------------------------------------
(* Power domains and clocks. *)

LEMMA DomainFacts ==
  /\ Len(Domains) = 4 /\ DOMAIN Domains = 1 .. 4
  /\ Domains[1] = "npu" /\ Domains[2] = "nputop" /\ Domains[3] = "npu1" /\ Domains[4] = "npu2"
  /\ Named = {"npu", "nputop", "npu1", "npu2"}
  /\ Bit["npu"] = 1 /\ Bit["nputop"] = 3 /\ Bit["npu1"] = 4 /\ Bit["npu2"] = 5
<1>1. /\ Len(Domains) = 4 /\ DOMAIN Domains = 1 .. 4
      /\ Domains[1] = "npu" /\ Domains[2] = "nputop" /\ Domains[3] = "npu1"
      /\ Domains[4] = "npu2"
  BY DEF Domains
<1>2. 1 .. 4 = {1, 2, 3, 4}
  OBVIOUS
<1>3. Named = {"npu", "nputop", "npu1", "npu2"}
  BY <1>1, <1>2 DEF Named
<1> QED
  BY <1>1, <1>3 DEF Bit

LEMMA ClockFacts ==
  /\ Len(Clocks) = 6 /\ DOMAIN Clocks = {1, 2, 3, 4, 5, 6}
  /\ Clocks[1] = "nputimer_root" /\ Clocks[2] = "aclknpu_root" /\ Clocks[3] = "aclknpu0"
  /\ Clocks[4] = "hclknpu_root" /\ Clocks[5] = "hclknpu0" /\ Clocks[6] = "ptimer_root"
  /\ Clock = {"nputimer_root", "aclknpu_root", "aclknpu0", "hclknpu_root", "hclknpu0",
              "ptimer_root"}
  /\ \A c \in Clock : Parent[c] \in Clock =>
       \/ c = Clocks[3] /\ Parent[c] = Clocks[2]
       \/ c = Clocks[5] /\ Parent[c] = Clocks[4]
<1>1. /\ Len(Clocks) = 6 /\ DOMAIN Clocks = 1 .. 6
      /\ Clocks[1] = "nputimer_root" /\ Clocks[2] = "aclknpu_root"
      /\ Clocks[3] = "aclknpu0" /\ Clocks[4] = "hclknpu_root" /\ Clocks[5] = "hclknpu0"
      /\ Clocks[6] = "ptimer_root"
  BY DEF Clocks
<1>2. 1 .. 6 = {1, 2, 3, 4, 5, 6}
  OBVIOUS
<1>3. Clock = {"nputimer_root", "aclknpu_root", "aclknpu0", "hclknpu_root", "hclknpu0",
               "ptimer_root"}
  BY <1>1, <1>2 DEF Clock
<1>4. \A c \in Clock : Parent[c] \in Clock =>
        \/ c = Clocks[3] /\ Parent[c] = Clocks[2]
        \/ c = Clocks[5] /\ Parent[c] = Clocks[4]
  BY <1>1, <1>3 DEF Parent
<1> QED
  BY <1>1, <1>2, <1>3, <1>4

(* The domains that have been switched on: their bit is down for good, so  *)
(* their hardware, once up, stays up.                                      *)
DomainsOn ==
  /\ pm \in {"write", "wait"} \X (1 .. 5) /\ (pm[1] = "wait" => pm[2] < 5)
  /\ pwr \ {Bit[d] : d \in Named} = {0, 2}
  /\ \A k \in 1 .. 4 :
       k < pm[2] \/ (k = pm[2] /\ pm[1] = "wait") => Bit[Domains[k]] \notin pwr
  /\ \A k \in 1 .. 4 : k < pm[2] => Domains[k] \in repaired \cup timedOut

(* The clocks are opened from the roots on. *)
ClocksInOrder ==
  /\ cru \in 0 .. 6 /\ reset = gate
  /\ gate \in {{}, {Clocks[k] : k \in cru + 1 .. 6}}

ScmiInOrder ==
  /\ scmi \in 0 .. 5 /\ scmiOk \in BOOLEAN
  /\ scmiOk /\ scmi >= 2 => clkOn
  /\ scmiOk /\ scmi >= 4 => clkRate = "200MHz"

PowerInv == DomainsOn /\ ClocksInOrder /\ ScmiInOrder

LEMMA PowerInvInit == Init => PowerInv
<1> SUFFICES ASSUME Init PROVE PowerInv
  OBVIOUS
<1> USE DEF Init, PowerReset
<1>1. DomainsOn
  <2>1. PICK off \in {{}, Named, {"npu1", "npu2"}} : pwr = {Bit[d] : d \in off} \cup {0, 2}
    OBVIOUS
  <2>2. off \subseteq Named
    BY DomainFacts
  <2>3. \A d \in Named : Bit[d] \notin {0, 2}
    BY DomainFacts
  <2>4. pwr \ {Bit[d] : d \in Named} = {0, 2}
    <3> DEFINE B == {Bit[d] : d \in Named}
    <3>1. {Bit[d] : d \in off} \subseteq B
      BY <2>2
    <3>2. B \cap {0, 2} = {}
      BY <2>3
    <3> QED
      BY <2>1, <3>1, <3>2
  <2>5. pm = <<"write", 1>>
    OBVIOUS
  <2>6. pm[1] = "write" /\ pm[2] = 1 /\ pm \in {"write", "wait"} \X (1 .. 5)
    BY <2>5
  <2>7. \A k \in 1 .. 4 : ~(k < pm[2]) /\ ~(k = pm[2] /\ pm[1] = "wait")
    BY <2>6
  <2> HIDE DEF Init, PowerReset
  <2> QED
    BY <2>4, <2>6, <2>7 DEF DomainsOn
<1>2. ClocksInOrder
  <2>1. Clock = {Clocks[k] : k \in 1 .. 6}
    BY DEF Clock, Clocks
  <2> QED
    BY <2>1 DEF ClocksInOrder
<1>3. ScmiInOrder
  BY DEF ScmiInOrder
<1> QED
  BY <1>1, <1>2, <1>3 DEF PowerInv

LEMMA DomainFollowsKeeps == DomainsOn /\ DomainFollows => DomainsOn'
<1> SUFFICES ASSUME DomainsOn, DomainFollows PROVE DomainsOn'
  OBVIOUS
<1>1. UNCHANGED <<pwr, pm, timedOut>>
  BY DEF DomainFollows
<1>2. \A k \in 1 .. 4 : Domains[k] \in repaired /\ Bit[Domains[k]] \notin pwr
                          => Domains[k] \in repaired'
  BY DEF DomainFollows
<1> QED
  BY <1>1, <1>2 DEF DomainsOn

LEMMA PowerOnKeeps == DomainsOn /\ rockchip_pm_power_domain_on => DomainsOn'
<1> SUFFICES ASSUME DomainsOn, rockchip_pm_power_domain_on PROVE DomainsOn'
  OBVIOUS
<1>1. PICK i \in 1 .. 5 : pm[2] = i /\ pm[1] \in {"write", "wait"} /\ pm = <<pm[1], i>>
  BY DEF DomainsOn
<1>2. CASE PowerOnWrite
  <2>1. /\ pm[1] = "write" /\ i \in 1 .. 4 /\ pm' = <<"wait", i>>
        /\ pwr' = pwr \ {Bit[Domains[i]]} /\ UNCHANGED <<repaired, timedOut>>
    BY <1>1, <1>2, DomainFacts DEF PowerOnWrite, rockchip_pm_write_power_control,
                                   Written, Current
  <2>2. Domains[i] \in Named
    BY <2>1, DomainFacts
  <2>3. \A k \in 1 .. 4 : k <= i => Bit[Domains[k]] \notin pwr'
    BY <1>1, <2>1 DEF DomainsOn
  <2>4. pwr' \ {Bit[d] : d \in Named} = {0, 2}
    BY <2>1, <2>2 DEF DomainsOn
  <2> QED
    BY <1>1, <2>1, <2>3, <2>4 DEF DomainsOn
<1>3. CASE PowerOnWait
  <2>1. /\ pm[1] = "wait" /\ pm' = <<"write", i + 1>> /\ UNCHANGED <<pwr, repaired>>
        /\ timedOut' = IF Domains[i] \in repaired THEN timedOut
                       ELSE timedOut \cup {Domains[i]}
    BY <1>1, <1>3 DEF PowerOnWait, is_domain_on, Current
  <2>2. i < 5 /\ pm'[1] = "write" /\ pm'[2] = i + 1
    BY <1>1, <2>1 DEF DomainsOn
  <2>3. \A k \in 1 .. 4 : k < i + 1 => Domains[k] \in (repaired \cup timedOut)'
    BY <1>1, <2>1 DEF DomainsOn
  <2>4. \A k \in 1 .. 4 : k < i + 1 => Bit[Domains[k]] \notin pwr'
    BY <1>1, <2>1 DEF DomainsOn
  <2> QED
    BY <2>1, <2>2, <2>3, <2>4 DEF DomainsOn
<1> QED
  BY <1>2, <1>3 DEF rockchip_pm_power_domain_on

LEMMA ClockKeeps == ClocksInOrder /\ enable_rk3588_npu_clocks => ClocksInOrder'
<1> SUFFICES ASSUME ClocksInOrder, enable_rk3588_npu_clocks PROVE ClocksInOrder'
  OBVIOUS
<1>1. /\ cru \in 0 .. 5 /\ cru' = cru + 1 /\ reset = gate
      /\ gate' = gate \ {Clocks[cru + 1]} /\ reset' = reset \ {Clocks[cru + 1]}
  BY ClockFacts DEF enable_rk3588_npu_clocks, EnableClock, ClocksInOrder
<1>2. CASE gate = {}
  BY <1>1, <1>2 DEF ClocksInOrder
<1>3. CASE gate = {Clocks[k] : k \in cru + 1 .. 6}
  <2>1. \A j, k \in 1 .. 6 : j # k => Clocks[j] # Clocks[k]
    BY ClockFacts
  <2>2. \A k \in cru + 1 .. 6 : k \in 1 .. 6 /\ (k # cru + 1 <=> k \in cru' + 1 .. 6)
    BY <1>1
  <2>3. gate' = {Clocks[k] : k \in cru' + 1 .. 6}
    BY <1>1, <1>3, <2>1, <2>2
  <2> QED
    BY <1>1, <2>3 DEF ClocksInOrder
<1> QED
  BY <1>2, <1>3 DEF ClocksInOrder

LEMMA ScmiKeeps == ScmiInOrder /\ enable_scmi_clock => ScmiInOrder'
<1> SUFFICES ASSUME ScmiInOrder, enable_scmi_clock PROVE ScmiInOrder'
  OBVIOUS
<1>1. PICK ok \in SmcOutcome :
        Answered(ScmiCalls[scmi + 1], ok) /\ scmiOk' = (scmiOk /\ ok)
  BY DEF enable_scmi_clock
<1>2. scmi \in 0 .. 4 /\ scmi' = scmi + 1 /\ ok \in BOOLEAN
  <2>1. Len(ScmiCalls) = 5
    BY DEF ScmiCalls
  <2>2. scmi < 5 /\ scmi' = scmi + 1
    BY <2>1 DEF enable_scmi_clock
  <2>3. ok \in BOOLEAN
    BY DEF SmcOutcome
  <2> QED
    BY <2>2, <2>3 DEF ScmiInOrder
<1>3. /\ clkOn' = (clkOn \/ (ok /\ ScmiCalls[scmi + 1] = "config_set"))
      /\ clkRate' = IF ok /\ ScmiCalls[scmi + 1] = "rate_set" THEN "200MHz" ELSE clkRate
  BY <1>1 DEF Answered
<1>4. ScmiCalls[2] = "config_set" /\ ScmiCalls[4] = "rate_set"
  BY DEF ScmiCalls
<1> QED
  BY <1>1, <1>2, <1>3, <1>4 DEF ScmiInOrder

LEMMA PowerInvStep == PowerInv /\ [Next]_vars => PowerInv'
<1> SUFFICES ASSUME PowerInv, [Next]_vars PROVE PowerInv'
  OBVIOUS
<1> USE DEF PowerInv
<1>1. CASE UNCHANGED powerVars
  BY <1>1 DEF powerVars, pmVars, cruVars, scmiVars, DomainsOn, ClocksInOrder, ScmiInOrder
<1>2. CASE DomainFollows
  BY <1>2, DomainFollowsKeeps
     DEF DomainFollows, cruVars, scmiVars, ClocksInOrder, ScmiInOrder
<1>3. CASE rockchip_pm_power_domain_on
  BY <1>3, PowerOnKeeps
     DEF rockchip_pm_power_domain_on, cruVars, scmiVars, ClocksInOrder, ScmiInOrder
<1>4. CASE enable_rk3588_npu_clocks
  BY <1>4, ClockKeeps DEF enable_rk3588_npu_clocks, pmVars, scmiVars, DomainsOn, ScmiInOrder
<1>5. CASE enable_scmi_clock
  BY <1>5, ScmiKeeps DEF enable_scmi_clock, pmVars, cruVars, DomainsOn, ClocksInOrder
<1>6. Interrupt \/ Handler \/ TimerTick => UNCHANGED powerVars
  BY DEF Interrupt, Handler, timer_handler, TimerTick
<1>7. Device => DomainFollows \/ UNCHANGED powerVars
  BY DEF Device
<1>8. InitGic \/ timer_init \/ timer_enable \/ enable_interrupts => UNCHANGED powerVars
  BY DEF InitGic, timer_init, timer_enable, enable_interrupts, RestDevices
<1>9. dw_uart_init => UNCHANGED powerVars
  BY DEF dw_uart_init, ResetRings, dw_uart_wait_idle, ClearIer, LineControl, ClearFifos,
         InstallUart, dw_uart_enable_rx_interrupt, EnableUart, MarkInitialized, UartStep,
         RestDevices
<1>10. dw_uart_putchar \/ dw_uart_getchar => UNCHANGED powerVars
  BY DEF dw_uart_putchar, PutPolledCR, PutPolled, PutQueued, PutRest, dw_uart_getchar,
         GetQueued, Wfi, GetPolledWait, GetPolledRead, GetRest, RestDevices
<1>11. Client \/ Command \/ rknpu_init => UNCHANGED powerVars
  BY DEF Client, Command, rknpu_init, NpuClear, NpuInstall, NpuGic, NpuStep, RestDevices
<1>12. PowerUp => rockchip_pm_power_domain_on \/ enable_rk3588_npu_clocks \/ enable_scmi_clock
  BY DEF PowerUp
<1>13. UNCHANGED vars => UNCHANGED powerVars
  BY DEF vars
<1> QED
  BY <1>1, <1>2, <1>3, <1>4, <1>5, <1>6, <1>7, <1>8, <1>9, <1>10, <1>11, <1>12, <1>13
     DEF Next, Main

(* Switching the NPU's domains on touches no other domain, and rknpu_init  *)
(* goes on to the NPU's registers only when each is up or its wait ran     *)
(* out; no gate is open below a closed one; and when SCMI has answered     *)
(* without an error the clock runs at 200 MHz (rkpm.c, cru.c, scmi.c).     *)
THEOREM DomainsAndClocksAreSafe == Spec => []PowerSafe
<1>1. PowerInv => PowerSafe
  <2> SUFFICES ASSUME PowerInv PROVE PowerSafe
    OBVIOUS
  <2> USE DEF PowerInv
  <2>1. pwr \ {Bit[d] : d \in Named} = {0, 2}
    BY DEF DomainsOn
  <2>2. PowerOnDone => Named \subseteq repaired \cup timedOut
    BY DomainFacts DEF DomainsOn, PowerOnDone
  <2>3. \A c \in Clock \ gate : Parent[c] \in Clock => Parent[c] \notin gate \cup reset
    <3> SUFFICES ASSUME NEW c \in Clock \ gate, Parent[c] \in Clock, gate # {}
                 PROVE  Parent[c] \notin gate
      BY DEF ClocksInOrder
    <3>1. cru \in 0 .. 6 /\ gate = {Clocks[k] : k \in cru + 1 .. 6}
      BY DEF ClocksInOrder
    <3>2. PICK j \in {3, 5} : c = Clocks[j] /\ Parent[c] = Clocks[j - 1]
      BY ClockFacts
    <3>3. j <= cru
      BY <3>1, <3>2
    <3>4. \A k \in cru + 1 .. 6 : Clocks[k] # Clocks[j - 1]
      BY <3>1, <3>2, <3>3, ClockFacts
    <3> QED
      BY <3>1, <3>2, <3>4
  <2>4. scmi = Len(ScmiCalls) /\ scmiOk => clkOn /\ clkRate = "200MHz"
    BY DEF ScmiInOrder, ScmiCalls
  <2> QED
    BY <2>1, <2>2, <2>3, <2>4 DEF PowerSafe
<1> QED
  BY <1>1, PowerInvInit, PowerInvStep, PTL DEF Spec

-----------------------------------------------------------------------------
(* The dump. *)

LEMMA RowOf ==
  ASSUME NEW x \in Nat, NEW n \in Nat \ {0}
  PROVE  /\ x \div n \in Nat /\ x % n \in 0 .. n - 1
         /\ (x \div n) * n \in Nat /\ x = (x \div n) * n + (x % n)
  OBVIOUS

LEMMA Product ==
  ASSUME NEW a \in Nat, NEW b \in Nat
  PROVE  a * b \in Nat
  OBVIOUS

LEMMA RowsAscend ==
  ASSUME NEW a \in Nat, NEW b \in Nat, a < b, NEW n \in Nat \ {0}
  PROVE  a * n + n <= b * n
<1>1. PICK d \in Nat : b = a + 1 + d
  <2>1. b - a - 1 \in Nat /\ b = a + 1 + (b - a - 1)
    OBVIOUS
  <2> QED
    BY <2>1
<1>2. b * n = a * n + n + d * n
  BY <1>1
<1>3. d * n \in Nat /\ a * n \in Nat
  BY Product
<1> QED
  BY <1>2, <1>3

GoodRow(r) == r.ascii = r.hex /\ r.at \in r.hex /\ Cardinality(r.hex) <= ROW

LEMMA RowFacts ==
  ASSUME NEW from \in Nat, NEW upto \in Nat, from < upto, upto <= from + ROW
  PROVE  GoodRow(Row(from, from, upto)) /\ Row(from, from, upto).hex = from .. upto - 1
<1>1. Cardinality(from .. upto - 1) = upto - from
  <2>1. Cardinality(from .. upto - 1) = IF from > upto - 1 THEN 0 ELSE (upto - 1) - from + 1
    BY FS_Interval
  <2> QED
    BY <2>1
<1>2. ROW \in Nat
  BY ConsoleConstants
<1> QED
  BY <1>1, <1>2 DEF GoodRow, Row

(* q rows of ROW bytes each, from the byte start on. *)
Rows(start, q) ==
  {Row(start + k * ROW, start + k * ROW, start + (k + 1) * ROW) : k \in 0 .. q - 1}

LEMMA RowsCover ==
  ASSUME NEW start \in Nat, NEW q \in Nat
  PROVE  /\ \A r \in Rows(start, q) : GoodRow(r)
         /\ \A x : x \in UNION {r.hex : r \in Rows(start, q)}
                     <=> x \in start .. start + (q * ROW) - 1
<1>0. ROW \in Nat \ {0}
  BY ConsoleConstants
<1>1. ASSUME NEW k \in 0 .. q - 1
      PROVE  /\ GoodRow(Row(start + k * ROW, start + k * ROW, start + (k + 1) * ROW))
             /\ Row(start + k * ROW, start + k * ROW, start + (k + 1) * ROW).hex
                  = start + k * ROW .. start + k * ROW + ROW - 1
             /\ k * ROW \in Nat /\ k * ROW + ROW <= q * ROW
  <2>1. k * ROW \in Nat /\ (k + 1) * ROW = k * ROW + ROW
    BY <1>0
  <2>2. k * ROW + ROW <= q * ROW
    BY <1>0, RowsAscend
  <2> DEFINE from == start + k * ROW
             upto == start + (k + 1) * ROW
  <2>3. from \in Nat /\ upto \in Nat /\ upto = from + ROW /\ from < upto /\ upto <= from + ROW
    BY <1>0, <2>1
  <2> HIDE DEF from, upto
  <2>4. GoodRow(Row(from, from, upto)) /\ Row(from, from, upto).hex = from .. upto - 1
    BY <2>3, RowFacts
  <2>5. from .. upto - 1 = start + k * ROW .. start + k * ROW + ROW - 1
    BY <1>0, <2>1, <2>3 DEF from
  <2>6. /\ GoodRow(Row(from, from, upto))
        /\ Row(from, from, upto).hex = start + k * ROW .. start + k * ROW + ROW - 1
    BY <2>4, <2>5
  <2> QED
    BY <2>1, <2>2, <2>6 DEF from, upto
<1>2. \A r \in Rows(start, q) : GoodRow(r)
  BY <1>1 DEF Rows
<1>3. q * ROW \in Nat
  BY <1>0, Product
<1>4. ASSUME NEW x, x \in UNION {r.hex : r \in Rows(start, q)}
      PROVE  x \in start .. start + (q * ROW) - 1
  <2>1. PICK k \in 0 .. q - 1 :
          x \in Row(start + k * ROW, start + k * ROW, start + (k + 1) * ROW).hex
    BY <1>4 DEF Rows
  <2>2. x \in start + k * ROW .. start + k * ROW + ROW - 1
    BY <2>1, <1>1
  <2>3. k * ROW \in Nat /\ k * ROW + ROW <= q * ROW
    BY <1>1
  <2> QED
    BY <2>2, <2>3, <1>0, <1>3
<1>5. ASSUME NEW x \in start .. start + (q * ROW) - 1
      PROVE  x \in UNION {r.hex : r \in Rows(start, q)}
  <2> DEFINE d == x - start
             k == d \div ROW
  <2>1. d \in Nat /\ x = start + d /\ d < q * ROW
    BY <1>3
  <2> HIDE DEF d
  <2>2. k \in Nat /\ d % ROW \in 0 .. ROW - 1 /\ k * ROW \in Nat /\ d = k * ROW + (d % ROW)
    BY <2>1, <1>0, RowOf
  <2> HIDE DEF k
  <2>3. k < q
    <3> SUFFICES ASSUME q <= k PROVE FALSE
      BY <2>2
    <3>1. q * ROW <= k * ROW
      <4>1. CASE q = k
        BY <4>1, <1>3
      <4>2. CASE q < k
        BY <4>2, <2>2, <1>0, <1>3, RowsAscend
      <4> QED
        BY <4>1, <4>2, <2>2
    <3> QED
      BY <3>1, <2>1, <2>2, <1>3
  <2>4. k \in 0 .. q - 1 /\ x \in start + k * ROW .. start + k * ROW + ROW - 1
    BY <2>1, <2>2, <2>3, <1>0
  <2>5. x \in Row(start + k * ROW, start + k * ROW, start + (k + 1) * ROW).hex
    BY <2>4, <1>1
  <2> QED
    BY <2>4, <2>5 DEF Rows
<1> QED
  BY <1>2, <1>4, <1>5

LEMMA FirstRowsCover ==
  ASSUME NEW len \in Nat
  PROVE  /\ \A r \in FirstRows(len) : GoodRow(r)
         /\ UNION {r.hex : r \in FirstRows(len)} = {k \in 0 .. len - 1 : k < DUMP}
<1> DEFINE d == IF len > DUMP THEN DUMP ELSE len
           q == d \div ROW
           full == {Row(k * ROW, k * ROW, (k + 1) * ROW) : k \in 0 .. q - 1}
           last == Row(q * ROW, q * ROW, d)
<1>0. ROW \in Nat \ {0} /\ DUMP \in Nat
  BY ConsoleConstants
<1>1. d \in Nat /\ {k \in 0 .. len - 1 : k < DUMP} = 0 .. d - 1
  BY <1>0
<1>2. FirstRows(len) = IF d % ROW = 0 THEN full ELSE full \cup {last}
  BY DEF FirstRows
<1> HIDE DEF d
<1>3. q \in Nat /\ d % ROW \in 0 .. ROW - 1 /\ q * ROW \in Nat /\ d = q * ROW + (d % ROW)
  BY <1>0, <1>1, RowOf
<1> HIDE DEF q
<1>4. full = Rows(0, q)
  <2>1. ASSUME NEW k \in 0 .. q - 1
        PROVE  Row(k * ROW, k * ROW, (k + 1) * ROW)
                 = Row(0 + k * ROW, 0 + k * ROW, 0 + (k + 1) * ROW)
    <3>1. k * ROW \in Nat /\ (k + 1) * ROW \in Nat
      BY <1>0
    <3>2. 0 + k * ROW = k * ROW /\ 0 + (k + 1) * ROW = (k + 1) * ROW
      BY <3>1
    <3> QED
      BY <3>2
  <2> QED
    BY <2>1 DEF Rows
<1>5. /\ \A r \in full : GoodRow(r)
      /\ \A x : x \in UNION {r.hex : r \in full} <=> x \in 0 .. (q * ROW) - 1
  <2>1. 0 + (q * ROW) - 1 = (q * ROW) - 1
    BY <1>3
  <2> QED
    BY <1>3, <1>4, <2>1, RowsCover
<1> HIDE DEF full
<1>6. CASE d % ROW = 0
  <2>1. q * ROW = d
    BY <1>3, <1>6
  <2> QED
    BY <1>1, <1>2, <1>5, <1>6, <2>1
<1>7. CASE d % ROW # 0
  <2>1. q * ROW < d /\ d <= q * ROW + ROW
    BY <1>0, <1>1, <1>3, <1>7
  <2>2. GoodRow(last) /\ last.hex = q * ROW .. d - 1
    BY <1>1, <1>3, <2>1, RowFacts
  <2> HIDE DEF last
  <2>3. FirstRows(len) = full \cup {last}
    BY <1>2, <1>7
  <2>4. \A x : x \in UNION {r.hex : r \in full \cup {last}}
                 <=> x \in UNION {r.hex : r \in full} \/ x \in last.hex
    OBVIOUS
  <2>5. \A x : x \in 0 .. d - 1 <=> x \in 0 .. (q * ROW) - 1 \/ x \in q * ROW .. d - 1
    BY <1>1, <1>3, <2>1
  <2>6. UNION {r.hex : r \in full \cup {last}} = 0 .. d - 1
    BY <1>5, <2>2, <2>4, <2>5
  <2> QED
    BY <1>1, <1>5, <2>2, <2>3, <2>6
<1> QED
  BY <1>6, <1>7

LEMMA LastRowsCover ==
  ASSUME NEW len \in Nat
  PROVE  /\ \A r \in LastRows(len) : GoodRow(r)
         /\ UNION {r.hex : r \in LastRows(len)}
              = IF len > DUMP THEN len - DUMP .. len - 1 ELSE {}
<1>0. ROW \in Nat \ {0} /\ DUMP \in Nat /\ DUMP % ROW = 0
  BY ConsoleConstants
<1>1. CASE len <= DUMP
  BY <1>0, <1>1 DEF LastRows
<1>2. CASE len > DUMP
  <2> DEFINE q == DUMP \div ROW
             start == len - DUMP
  <2>1. LastRows(len) = Rows(start, q)
    BY <1>0, <1>2 DEF LastRows, Rows
  <2>2. start \in Nat /\ start + DUMP - 1 = len - 1
    BY <1>0, <1>2
  <2>3. q \in Nat /\ q * ROW = DUMP
    BY <1>0, RowOf
  <2> HIDE DEF q, start
  <2>4. /\ \A r \in Rows(start, q) : GoodRow(r)
        /\ UNION {r.hex : r \in Rows(start, q)} = start .. start + (q * ROW) - 1
    BY <2>2, <2>3, RowsCover
  <2>5. UNION {r.hex : r \in Rows(start, q)} = len - DUMP .. len - 1
    BY <2>2, <2>3, <2>4 DEF start
  <2> QED
    BY <1>2, <2>1, <2>4, <2>5
<1> QED
  BY <1>0, <1>1, <1>2

(* A positive g_last_received goes with a buffer whose file was received   *)
(* as a whole, and what was shown last are the rows of such a file.        *)
DumpInv ==
  /\ g_last_received \in -1 .. MaxFile /\ receptions \in 0 .. MaxReceive
  /\ periodic_print_enabled \in BOOLEAN
  /\ g_last_received > 0 => g_xmodem_buf.ended = "received"
  /\ \/ shown.len = 0
     \/ /\ shown.len \in Nat /\ shown.ended = "received"
        /\ shown.rows = FirstRows(shown.len) \cup LastRows(shown.len)

LEMMA DumpInvInit == Init => DumpInv
  BY ConsoleConstants DEF Init, ConsoleReset, DumpInv, Nothing

LEMMA DumpInvCommand == DumpInv /\ Command => DumpInv'
<1> SUFFICES ASSUME DumpInv, Command PROVE DumpInv'
  OBVIOUS
<1> USE ConsoleConstants DEF DumpInv
<1>1. CASE Dump
  BY <1>1 DEF Dump
<1>2. CASE Receive(dw_uart_initialized)
  BY <1>2 DEF Receive
<1>3. CASE TogglePeriodic
  BY <1>3 DEF TogglePeriodic
<1>4. CASE UNCHANGED consoleVars
  BY <1>4 DEF consoleVars
<1> QED
  BY <1>1, <1>2, <1>3, <1>4 DEF Command

LEMMA DumpInvStep == DumpInv /\ [Next]_vars => DumpInv'
<1> SUFFICES ASSUME DumpInv, [Next]_vars PROVE DumpInv'
  OBVIOUS
<1>1. CASE Command
  BY <1>1, DumpInvCommand
<1>2. CASE UNCHANGED consoleVars
  BY <1>2 DEF DumpInv, consoleVars
<1>3. Command \/ UNCHANGED consoleVars
  <2>1. CASE Device \/ TimerTick \/ Interrupt \/ Handler \/ PowerUp
    BY <2>1 DEF Device, TimerTick, Interrupt, Handler, timer_handler, PowerUp
  <2>2. CASE InitGic \/ timer_init \/ timer_enable \/ enable_interrupts
    BY <2>2 DEF InitGic, timer_init, timer_enable, enable_interrupts, RestDevices
  <2>3. CASE dw_uart_init
    BY <2>3 DEF dw_uart_init, UartStep, RestDevices, ResetRings, dw_uart_wait_idle, ClearIer,
       LineControl, ClearFifos, InstallUart, dw_uart_enable_rx_interrupt, EnableUart,
       MarkInitialized
  <2>4. CASE dw_uart_putchar
    BY <2>4 DEF dw_uart_putchar, PutPolledCR, PutPolled, PutQueued, PutRest, RestDevices
  <2>5. CASE dw_uart_getchar
    BY <2>5 DEF dw_uart_getchar, GetQueued, Wfi, GetPolledWait, GetPolledRead, GetRest,
       RestDevices
  <2>6. CASE Client \/ rknpu_init
    BY <2>6 DEF Client, rknpu_init, NpuClear, NpuInstall, NpuGic, NpuStep, RestDevices
  <2>7. CASE UNCHANGED vars
    BY <2>7 DEF vars
  <2> QED
    BY <2>1, <2>2, <2>3, <2>4, <2>5, <2>6, <2>7 DEF Next, Main
<1> QED
  BY <1>1, <1>2, <1>3

(* A dump shows the first and the last DUMP bytes of a file that was       *)
(* received as a whole, each byte in one row, for every length, DUMP and   *)
(* ROW: a reception that fails takes the length of the one before with it. *)
THEOREM DumpsAreOfReceivedFiles == Spec => []DumpShowsLastFile
<1>1. DumpInv => DumpShowsLastFile
  <2> SUFFICES ASSUME DumpInv, shown.len > 0 PROVE DumpShowsLastFile
    BY DEF DumpShowsLastFile
  <2> DEFINE len == shown.len
  <2>1. /\ len \in Nat /\ shown.ended = "received"
        /\ shown.rows = FirstRows(len) \cup LastRows(len)
    BY DEF DumpInv
  <2> HIDE DEF len
  <2>2. \A r \in shown.rows : GoodRow(r)
    BY <2>1, FirstRowsCover, LastRowsCover
  <2>3. UNION {r.hex : r \in shown.rows}
          = (UNION {r.hex : r \in FirstRows(len)})
              \cup (UNION {r.hex : r \in LastRows(len)})
    BY <2>1
  <2>4. UNION {r.hex : r \in shown.rows}
          = {k \in 0 .. len - 1 : k < DUMP}
              \cup (IF len > DUMP THEN len - DUMP .. len - 1 ELSE {})
    BY <2>1, <2>3, FirstRowsCover, LastRowsCover
  <2> QED
    BY <2>1, <2>2, <2>4 DEF DumpShowsLastFile, GoodRow, len
<1> QED
  BY <1>1, DumpInvInit, DumpInvStep, PTL DEF Spec

-----------------------------------------------------------------------------
(* The rings as queues. *)

Chained(r) == r.head = (r.tail + r.count) % RingSize

LEMMA Wraps ==
  ASSUME NEW n \in Nat \ {0}, NEW x \in Nat, x < 2 * n
  PROVE  x % n = (IF x < n THEN x ELSE x - n) /\ x % n \in 0 .. n - 1
<1>1. CASE x < n
  BY <1>1
<1>2. CASE x >= n
  <2>1. PICK y \in Nat : x = y + n
    <3>1. x - n \in Nat /\ x = (x - n) + n
      BY <1>2
    <3> QED
      BY <3>1
  <2>2. y < n /\ (y + n) % n = y % n
    BY <2>1
  <2> QED
    BY <1>2, <2>1, <2>2
<1> QED
  BY <1>1, <1>2

(* Indices into a ring of n slots with its oldest member at t.             *)
LEMMA IndexPut ==
  ASSUME NEW n \in Nat \ {0}, NEW t \in 0 .. n - 1, NEW c \in 0 .. n - 1
  PROVE  LET h == (t + c) % n
         IN /\ (h + 1) % n = (t + (c + 1)) % n /\ (h + 1) % n \in 0 .. n - 1
            /\ \A k \in 1 .. c : (t + k - 1) % n \in 0 .. n - 1 /\ (t + k - 1) % n # h
<1> DEFINE h == (t + c) % n
           u == t + c
           v == t + (c + 1)
<1>1. h = (IF u < n THEN u ELSE u - n) /\ h \in 0 .. n - 1
  <2>1. u \in Nat /\ u < 2 * n
    OBVIOUS
  <2> QED
    BY <2>1, Wraps
<1> HIDE DEF h
<1>2. (h + 1) % n = (IF h + 1 < n THEN h + 1 ELSE h + 1 - n) /\ (h + 1) % n \in 0 .. n - 1
  <2> DEFINE w == h + 1
  <2>1. w \in Nat /\ w < 2 * n
    BY <1>1
  <2> HIDE DEF w
  <2>2. w % n = (IF w < n THEN w ELSE w - n) /\ w % n \in 0 .. n - 1
    BY <2>1, Wraps
  <2> QED
    BY <1>1, <2>2 DEF w
<1>3. v % n = (IF v < n THEN v ELSE v - n)
  <2>1. v \in Nat /\ v < 2 * n
    OBVIOUS
  <2> HIDE DEF v
  <2> QED
    BY <2>1, Wraps
<1>4. (h + 1) % n = v % n
  BY <1>1, <1>2, <1>3
<1>5. ASSUME NEW k \in 1 .. c
      PROVE  (t + k - 1) % n \in 0 .. n - 1 /\ (t + k - 1) % n # h
  <2> DEFINE w == t + k - 1
  <2>1. w \in Nat /\ w < 2 * n /\ w < u /\ u - w < n
    OBVIOUS
  <2> HIDE DEF w
  <2>2. w % n = (IF w < n THEN w ELSE w - n) /\ w % n \in 0 .. n - 1
    BY <2>1, Wraps
  <2>3. w % n # h
    BY <1>1, <2>1, <2>2
  <2> QED
    BY <2>2, <2>3 DEF w
<1> QED
  BY <1>2, <1>4, <1>5 DEF h

LEMMA IndexGet ==
  ASSUME NEW n \in Nat \ {0}, NEW t \in 0 .. n - 1, NEW c \in 1 .. n
  PROVE  LET q == (t + 1) % n
         IN /\ q \in 0 .. n - 1 /\ (q + (c - 1)) % n = (t + c) % n
            /\ \A k \in 1 .. c - 1 : (q + k - 1) % n = (t + (k + 1) - 1) % n
<1> DEFINE q == (t + 1) % n
           u == t + 1
<1>1. q = (IF u < n THEN u ELSE u - n) /\ q \in 0 .. n - 1
  <2>1. u \in Nat /\ u < 2 * n
    OBVIOUS
  <2> QED
    BY <2>1, Wraps
<1> HIDE DEF q
<1>2. ASSUME NEW d \in 0 .. n - 1
      PROVE  (q + d) % n = (t + (d + 1)) % n
  <2> DEFINE v == q + d
             w == t + (d + 1)
  <2>1. v \in Nat /\ v < 2 * n /\ w \in Nat /\ w < 2 * n /\ (w = v \/ w = v + n)
    BY <1>1
  <2> HIDE DEF v, w
  <2>2. v % n = (IF v < n THEN v ELSE v - n) /\ w % n = (IF w < n THEN w ELSE w - n)
    BY <2>1, Wraps
  <2>3. v % n = w % n
    BY <2>1, <2>2
  <2> QED
    BY <2>3 DEF v, w
<1>3. (q + (c - 1)) % n = (t + c) % n
  <2>1. c - 1 \in 0 .. n - 1 /\ (c - 1) + 1 = c
    OBVIOUS
  <2>2. (q + (c - 1)) % n = (t + ((c - 1) + 1)) % n
    BY <1>2, <2>1
  <2> QED
    BY <2>1, <2>2
<1>4. ASSUME NEW k \in 1 .. c - 1
      PROVE  (q + k - 1) % n = (t + (k + 1) - 1) % n
  <2>1. /\ k - 1 \in 0 .. n - 1 /\ q + k - 1 = q + (k - 1)
        /\ t + (k + 1) - 1 = t + ((k - 1) + 1)
    BY <1>1
  <2>2. (q + (k - 1)) % n = (t + ((k - 1) + 1)) % n
    BY <1>2, <2>1
  <2> QED
    BY <2>1, <2>2
<1> QED
  BY <1>1, <1>3, <1>4 DEF q

LEMMA ContentsIsSeq ==
  ASSUME NEW B, NEW r \in Ring(B)
  PROVE  Contents(r) \in Seq(B) /\ Len(Contents(r)) = r.count /\ r.count \in 0 .. RingSize
<1>0. RingSize \in Nat \ {0}
  BY UartConstants
<1>1. /\ r.tail \in 0 .. RingSize - 1 /\ r.count \in 0 .. RingSize
      /\ r.buffer \in [0 .. RingSize - 1 -> B]
  BY <1>0 DEF Ring, Slot
<1>2. ASSUME NEW k \in 1 .. r.count
      PROVE  r.buffer[(r.tail + k - 1) % RingSize] \in B
  <2> DEFINE x == r.tail + k - 1
  <2>1. x \in Nat /\ x < 2 * RingSize
    BY <1>0, <1>1
  <2> HIDE DEF x
  <2>2. x % RingSize \in 0 .. RingSize - 1
    BY <1>0, <2>1, Wraps
  <2> QED
    BY <1>1, <2>2 DEF x
<1>3. Contents(r) \in [1 .. r.count -> B] /\ r.count \in Nat
  BY <1>0, <1>1, <1>2 DEF Contents
<1>4. Contents(r) \in Seq(B) /\ Len(Contents(r)) = r.count
  BY <1>3, LenProperties
<1> QED
  BY <1>1, <1>4

LEMMA PutAppends ==
  ASSUME NEW B, NEW r \in Ring(B), Chained(r), NEW c \in B, ~buffer_is_full(r)
  PROVE  /\ buffer_put(r, c) \in Ring(B) /\ Chained(buffer_put(r, c))
         /\ Contents(buffer_put(r, c)) = Append(Contents(r), c)
         /\ buffer_put(r, c).count = r.count + 1
<1> DEFINE p == buffer_put(r, c)
<1>0. RingSize \in Nat \ {0}
  BY UartConstants
<1>1. /\ r.tail \in 0 .. RingSize - 1 /\ r.head \in 0 .. RingSize - 1
      /\ r.count \in 0 .. RingSize - 1 /\ r.buffer \in [0 .. RingSize - 1 -> B]
      /\ r.head = (r.tail + r.count) % RingSize
  BY <1>0 DEF Ring, Slot, buffer_is_full, Chained
<1>2. p = [r EXCEPT !.buffer[r.head] = c, !.head = (@ + 1) % RingSize, !.count = @ + 1]
  BY DEF buffer_put
<1>3. p = [buffer |-> [r.buffer EXCEPT ![r.head] = c], head |-> (r.head + 1) % RingSize,
           tail |-> r.tail, count |-> r.count + 1]
  BY <1>2 DEF Ring
<1> HIDE DEF p
<1>4. /\ (r.head + 1) % RingSize = (r.tail + (r.count + 1)) % RingSize
      /\ (r.head + 1) % RingSize \in 0 .. RingSize - 1
      /\ \A k \in 1 .. r.count : /\ (r.tail + k - 1) % RingSize \in 0 .. RingSize - 1
                                /\ (r.tail + k - 1) % RingSize # r.head
  <2> DEFINE t == r.tail
             n == r.count
  <2>1. t \in 0 .. RingSize - 1 /\ n \in 0 .. RingSize - 1 /\ r.head = (t + n) % RingSize
    BY <1>1
  <2> HIDE DEF t, n
  <2>2. /\ (r.head + 1) % RingSize = (t + (n + 1)) % RingSize
        /\ (r.head + 1) % RingSize \in 0 .. RingSize - 1
        /\ \A k \in 1 .. n : /\ (t + k - 1) % RingSize \in 0 .. RingSize - 1
                            /\ (t + k - 1) % RingSize # r.head
    BY <1>0, <2>1, IndexPut
  <2> QED
    BY <2>2 DEF t, n
<1>5. p \in Ring(B)
  <2>1. r.count + 1 \in 0 .. RingSize /\ [r.buffer EXCEPT ![r.head] = c] \in [0 .. RingSize - 1 -> B]
    BY <1>0, <1>1
  <2> QED
    BY <1>1, <1>3, <1>4, <2>1 DEF Ring, Slot
<1>6. Chained(p)
  BY <1>3, <1>4 DEF Chained
<1>7. Contents(p) = [k \in 1 .. r.count + 1 |-> [r.buffer EXCEPT ![r.head] = c][(r.tail + k - 1) % RingSize]]
  BY <1>3 DEF Contents
<1>8. ASSUME NEW k \in 1 .. r.count + 1
      PROVE  Contents(p)[k] = IF k <= r.count THEN Contents(r)[k] ELSE c
  <2>1. CASE k <= r.count
    <3>1. k \in 1 .. r.count
      BY <1>1, <2>1
    <3>2. Contents(r)[k] = r.buffer[(r.tail + k - 1) % RingSize]
      BY <3>1 DEF Contents
    <3> QED
      BY <1>1, <1>4, <1>7, <2>1, <3>1, <3>2
  <2>2. CASE k > r.count
    <3>1. k = r.count + 1 /\ r.tail + k - 1 = r.tail + r.count
      BY <1>1, <2>2
    <3>2. [r.buffer EXCEPT ![r.head] = c][(r.tail + k - 1) % RingSize] = c
      BY <1>1, <3>1
    <3> QED
      BY <1>1, <1>7, <2>2, <3>2
  <2> QED
    BY <1>1, <2>1, <2>2
<1>9. /\ Contents(r) \in Seq(B) /\ Len(Contents(r)) = r.count
      /\ Contents(p) \in Seq(B) /\ Len(Contents(p)) = r.count + 1
  BY <1>3, <1>5, ContentsIsSeq
<1>10. Contents(p) = Append(Contents(r), c)
  <2> DEFINE s == Contents(r)
             a == Append(s, c)
  <2>1. s \in Seq(B) /\ Len(s) = r.count
    BY <1>9
  <2> HIDE DEF s
  <2>2. /\ a \in Seq(B) /\ Len(a) = r.count + 1
        /\ \A k \in 1 .. r.count + 1 : a[k] = IF k <= r.count THEN s[k] ELSE c
    BY <2>1, <1>1, AppendProperties
  <2> HIDE DEF a
  <2>3. \A k \in 1 .. Len(a) : Contents(p)[k] = a[k]
    BY <1>8, <2>2 DEF s
  <2>4. Contents(p) = a
    BY <1>9, <2>2, <2>3, SeqEqual
  <2> QED
    BY <2>4 DEF s, a
<1>11. p.count = r.count + 1
  BY <1>3
<1> QED
  BY <1>5, <1>6, <1>10, <1>11 DEF p

LEMMA GetPops ==
  ASSUME NEW B, NEW r \in Ring(B), Chained(r), ~buffer_is_empty(r)
  PROVE  /\ buffer_get(r) \in Ring(B) /\ Chained(buffer_get(r))
         /\ Contents(r) \in Seq(B) /\ Contents(r) # << >>
         /\ Contents(buffer_get(r)) = Tail(Contents(r))
         /\ Head(Contents(r)) = buffer_front(r)
<1> DEFINE p == buffer_get(r)
<1>0. RingSize \in Nat \ {0}
  BY UartConstants
<1>1. /\ r.tail \in 0 .. RingSize - 1 /\ r.head \in 0 .. RingSize - 1
      /\ r.count \in 1 .. RingSize /\ r.buffer \in [0 .. RingSize - 1 -> B]
      /\ r.head = (r.tail + r.count) % RingSize
  BY <1>0 DEF Ring, Slot, buffer_is_empty, Chained
<1>2. p = [buffer |-> r.buffer, head |-> r.head, tail |-> (r.tail + 1) % RingSize,
           count |-> r.count - 1]
  <2>1. p = [r EXCEPT !.tail = (@ + 1) % RingSize, !.count = @ - 1]
    BY DEF buffer_get
  <2> HIDE DEF p
  <2> QED
    BY <2>1 DEF Ring
<1> HIDE DEF p
<1>3. /\ p.tail \in 0 .. RingSize - 1
      /\ (p.tail + (r.count - 1)) % RingSize = (r.tail + r.count) % RingSize
      /\ \A k \in 1 .. r.count - 1 :
           (p.tail + k - 1) % RingSize = (r.tail + (k + 1) - 1) % RingSize
  BY <1>0, <1>1, <1>2, IndexGet
<1>4. p \in Ring(B)
  <2>1. r.count - 1 \in 0 .. RingSize
    BY <1>0, <1>1
  <2> QED
    BY <1>1, <1>2, <1>3, <2>1 DEF Ring, Slot
<1>5. Chained(p)
  BY <1>1, <1>2, <1>3 DEF Chained
<1>6. ASSUME NEW k \in 1 .. r.count - 1
      PROVE  Contents(p)[k] = Contents(r)[k + 1]
  <2>1. Contents(p)[k] = r.buffer[(p.tail + k - 1) % RingSize]
    BY <1>2 DEF Contents
  <2>2. Contents(r)[k + 1] = r.buffer[(r.tail + (k + 1) - 1) % RingSize]
    BY <1>1 DEF Contents
  <2> QED
    BY <1>3, <2>1, <2>2
<1>7. /\ Contents(r) \in Seq(B) /\ Len(Contents(r)) = r.count
      /\ Contents(p) \in Seq(B) /\ Len(Contents(p)) = r.count - 1
  BY <1>2, <1>4, ContentsIsSeq
<1>8. Contents(r) # << >> /\ Contents(r)[1] = buffer_front(r)
  <2>1. r.tail + 1 - 1 = r.tail /\ r.tail % RingSize = r.tail /\ 1 \in 1 .. r.count
    <3> DEFINE t == r.tail
    <3>1. t \in 0 .. RingSize - 1
      BY <1>1
    <3> HIDE DEF t
    <3>2. t + 1 - 1 = t /\ t % RingSize = t
      BY <1>0, <3>1
    <3> QED
      BY <1>1, <3>2 DEF t
  <2>2. Contents(r)[1] = r.buffer[(r.tail + 1 - 1) % RingSize]
    BY <2>1 DEF Contents
  <2> QED
    BY <1>1, <1>7, <2>1, <2>2 DEF buffer_front
<1>9. Contents(p) = Tail(Contents(r))
  <2> DEFINE s == Contents(r)
             a == Tail(s)
  <2>1. s \in Seq(B) /\ Len(s) = r.count /\ s # << >>
    BY <1>7, <1>8
  <2> HIDE DEF s
  <2>2. a \in Seq(B) /\ Len(a) = r.count - 1 /\ \A k \in 1 .. Len(a) : a[k] = s[k + 1]
    BY <2>1, HeadTailProperties
  <2> HIDE DEF a
  <2>3. \A k \in 1 .. Len(a) : Contents(p)[k] = a[k]
    BY <1>6, <2>2 DEF s
  <2>4. Contents(p) = a
    BY <1>7, <2>2, <2>3, SeqEqual
  <2> QED
    BY <2>4 DEF s, a
<1> QED
  BY <1>4, <1>5, <1>7, <1>8, <1>9 DEF p

-----------------------------------------------------------------------------
(* What carries a text. *)

Newlines(s) == \A k \in DOMAIN s : s[k] = "\n" => k > 1 /\ s[k - 1] = CR
Sent(s, text) == Carries(s, text) /\ Newlines(s)

LEMMA CharactersUpTo ==
  ASSUME NEW S, NEW s \in Seq(S), NEW k \in 0 .. Len(s)
  PROVE  /\ IsFiniteSet({j \in 1 .. k : s[j] # CR})
         /\ Characters(s, k) \in Nat /\ Characters(s, k) <= Characters(s, Len(s))
         /\ k > 0 /\ s[k] # CR => Characters(s, k) > 0
<1> DEFINE some == {j \in 1 .. k : s[j] # CR}
           all == {j \in 1 .. Len(s) : s[j] # CR}
<1>0. Len(s) \in Nat
  OBVIOUS
<1>1. some \subseteq all /\ all \subseteq 1 .. Len(s)
  BY <1>0
<1>2. IsFiniteSet(1 .. Len(s))
  BY <1>0, FS_Interval
<1> HIDE DEF some, all
<1>3. IsFiniteSet(all)
  BY <1>1, <1>2, FS_Subset
<1>4. IsFiniteSet(some) /\ Cardinality(some) <= Cardinality(all)
  BY <1>1, <1>3, FS_Subset
<1>5. Cardinality(some) \in Nat /\ (Cardinality(some) = 0 <=> some = {})
  BY <1>4, FS_CardinalityType, FS_EmptySet
<1>6. k > 0 /\ s[k] # CR => some # {}
  BY DEF some
<1> QED
  BY <1>4, <1>5, <1>6 DEF Characters, some, all

LEMMA CharactersOfPrefix ==
  ASSUME NEW S, NEW s \in Seq(S), NEW c \in S, NEW k \in 0 .. Len(s)
  PROVE  Characters(Append(s, c), k) = Characters(s, k)
<1>1. \A j \in 1 .. k : Append(s, c)[j] = s[j]
  BY AppendProperties
<1>2. {j \in 1 .. k : Append(s, c)[j] # CR} = {j \in 1 .. k : s[j] # CR}
  BY <1>1
<1> QED
  BY <1>2 DEF Characters

LEMMA CharactersOfAppend ==
  ASSUME NEW S, NEW s \in Seq(S), NEW c \in S
  PROVE  Characters(Append(s, c), Len(s) + 1)
           = IF c = CR THEN Characters(s, Len(s)) ELSE Characters(s, Len(s)) + 1
<1> DEFINE n == Len(s)
           old == {j \in 1 .. n : s[j] # CR}
           new == {j \in 1 .. n + 1 : Append(s, c)[j] # CR}
<1>1. n \in Nat /\ Append(s, c)[n + 1] = c /\ \A j \in 1 .. n : Append(s, c)[j] = s[j]
  BY AppendProperties
<1>2. CASE c = CR
  <2>1. new = old
    BY <1>1, <1>2
  <2> QED
    BY <1>2, <2>1 DEF Characters
<1>3. CASE c # CR
  <2>1. new = old \cup {n + 1} /\ n + 1 \notin old
    BY <1>1, <1>3
  <2>2. IsFiniteSet(old)
    <3>1. n \in 0 .. Len(s)
      BY <1>1
    <3> QED
      BY <3>1, CharactersUpTo
  <2> HIDE DEF new, old
  <2>3. Cardinality(new) = Cardinality(old) + 1
    BY <2>1, <2>2, FS_AddElement
  <2> QED
    BY <1>3, <2>3 DEF Characters, new, old
<1> QED
  BY <1>2, <1>3

LEMMA NewlinesOfAppend ==
  ASSUME NEW S, NEW s \in Seq(S), NEW c \in S, Newlines(s),
         c = "\n" => s # << >> /\ s[Len(s)] = CR
  PROVE  Newlines(Append(s, c))
<1> DEFINE a == Append(s, c)
<1>1. /\ Len(s) \in Nat /\ a[Len(s) + 1] = c /\ DOMAIN a = 1 .. Len(s) + 1
      /\ DOMAIN s = 1 .. Len(s) /\ \A j \in 1 .. Len(s) : a[j] = s[j]
  BY AppendProperties
<1>2. s # << >> => Len(s) > 0
  OBVIOUS
<1> HIDE DEF a
<1>3. ASSUME NEW k \in DOMAIN a, a[k] = "\n"
      PROVE  k > 1 /\ a[k - 1] = CR
  <2>1. CASE k \in 1 .. Len(s)
    <3>1. k > 1 /\ s[k - 1] = CR
      BY <1>1, <1>3, <2>1 DEF Newlines
    <3>2. k - 1 \in 1 .. Len(s)
      BY <1>1, <2>1, <3>1
    <3> QED
      BY <1>1, <3>1, <3>2
  <2>2. CASE k = Len(s) + 1
    <3>1. Len(s) > 0 /\ s[Len(s)] = CR
      BY <1>1, <1>2, <1>3, <2>2
    <3>2. k - 1 = Len(s) /\ Len(s) \in 1 .. Len(s) /\ k > 1
      BY <1>1, <2>2, <3>1
    <3> QED
      BY <1>1, <3>1, <3>2
  <2> QED
    BY <1>1, <2>1, <2>2
<1> QED
  BY <1>3 DEF Newlines, a

(* A carriage return more is no character more. *)
LEMMA SentReturn ==
  ASSUME NEW S, NEW s \in Seq(S), CR \in S, NEW text, Sent(s, text)
  PROVE  Sent(Append(s, CR), text)
<1> DEFINE a == Append(s, CR)
<1>1. /\ Len(s) \in Nat /\ Len(a) = Len(s) + 1 /\ a[Len(s) + 1] = CR
      /\ DOMAIN a = 1 .. Len(s) + 1
      /\ DOMAIN s = 1 .. Len(s) /\ \A j \in 1 .. Len(s) : a[j] = s[j]
  BY AppendProperties
<1>2. Characters(a, Len(a)) = Len(text)
  BY <1>1, CharactersOfAppend DEF Sent, Carries
<1>3. ASSUME NEW k \in 1 .. Len(s)
      PROVE  Characters(a, k) = Characters(s, k)
  <2>1. k \in 0 .. Len(s)
    OBVIOUS
  <2> QED
    BY <2>1, CharactersOfPrefix
<1>4. Newlines(a)
  <2>1. CR # "\n"
    BY DEF CR
  <2> QED
    BY <2>1, NewlinesOfAppend DEF Sent
<1> HIDE DEF a
<1>5. ASSUME NEW k \in DOMAIN a, a[k] # CR
      PROVE  a[k] = text[Characters(a, k)]
  <2>1. k \in 1 .. Len(s)
    BY <1>1, <1>5
  <2> QED
    BY <1>1, <1>3, <1>5, <2>1 DEF Sent, Carries
<1>6. Sent(a, text)
  BY <1>2, <1>4, <1>5 DEF Sent, Carries
<1> QED
  BY <1>6 DEF a

LEMMA SentChar ==
  ASSUME NEW S, NEW s \in Seq(S), NEW c \in S, c # CR, NEW T, NEW text \in Seq(T), c \in T,
         Sent(s, text), c = "\n" => s # << >> /\ s[Len(s)] = CR
  PROVE  Sent(Append(s, c), Append(text, c))
<1> DEFINE a == Append(s, c)
           b == Append(text, c)
<1>1. /\ Len(s) \in Nat /\ Len(a) = Len(s) + 1 /\ a[Len(s) + 1] = c
      /\ DOMAIN a = 1 .. Len(s) + 1
      /\ DOMAIN s = 1 .. Len(s) /\ \A j \in 1 .. Len(s) : a[j] = s[j]
  BY AppendProperties
<1>2. /\ Len(text) \in Nat /\ Len(b) = Len(text) + 1 /\ b[Len(text) + 1] = c
      /\ \A j \in 1 .. Len(text) : b[j] = text[j]
  BY AppendProperties
<1>3. Characters(a, Len(a)) = Len(b) /\ Characters(s, Len(s)) = Len(text)
  BY <1>1, <1>2, CharactersOfAppend DEF Sent, Carries
<1>4. ASSUME NEW k \in 1 .. Len(s)
      PROVE  /\ Characters(a, k) = Characters(s, k)
             /\ s[k] # CR => Characters(s, k) \in 1 .. Len(text)
  <2>1. k \in 0 .. Len(s)
    OBVIOUS
  <2>2. Characters(a, k) = Characters(s, k)
    BY <2>1, CharactersOfPrefix
  <2>3. /\ Characters(s, k) \in Nat /\ Characters(s, k) <= Characters(s, Len(s))
        /\ k > 0 /\ s[k] # CR => Characters(s, k) > 0
    BY <2>1, CharactersUpTo
  <2> QED
    BY <1>2, <1>3, <2>2, <2>3
<1>5. Newlines(a)
  BY NewlinesOfAppend DEF Sent
<1> HIDE DEF a, b
<1>6. ASSUME NEW k \in DOMAIN a, a[k] # CR
      PROVE  a[k] = b[Characters(a, k)]
  <2>1. CASE k \in 1 .. Len(s)
    BY <1>1, <1>2, <1>4, <1>6, <2>1 DEF Sent, Carries
  <2>2. CASE k = Len(s) + 1
    BY <1>1, <1>2, <1>3, <2>2
  <2> QED
    BY <1>1, <2>1, <2>2
<1>7. Sent(a, b)
  BY <1>3, <1>5, <1>6 DEF Sent, Carries
<1> QED
  BY <1>7 DEF a, b

-----------------------------------------------------------------------------
(* Where the bytes are that have arrived. *)

Rising(s) == \A j, k \in DOMAIN s : j < k => s[j] < s[k]
AllBelow(A, B) == \A x \in A : \A y \in B : x < y
Distinct(s) == \A j, k \in DOMAIN s : s[j] # Junk /\ j # k => s[j] # s[k]
Known(s) == ToSet(s) \ {Junk}

(* g has been read, c is in the ring, f in the device, gone is lost and n  *)
(* bytes have arrived.                                                     *)
Accounted(g, c, f, gone, n) ==
  /\ Distinct(g) /\ Rising(c) /\ Rising(f) /\ AllBelow(ToSet(c), ToSet(f))
  /\ Known(g) \cup ToSet(c) \cup ToSet(f) \cup gone = 1 .. n
  /\ Known(g) \cap ToSet(c) = {} /\ Known(g) \cap ToSet(f) = {}
  /\ gone \cap (Known(g) \cup ToSet(c) \cup ToSet(f)) = {}

InSequence(g, c, f) ==
  /\ Rising(g) /\ Junk \notin ToSet(g)
  /\ AllBelow(ToSet(g), ToSet(c)) /\ AllBelow(ToSet(g), ToSet(f))

LEMMA SetOfEmpty == ToSet(<< >>) = {} /\ Rising(<< >>) /\ Distinct(<< >>)
  BY DEF ToSet, Rising, Distinct

LEMMA SetOfAppend ==
  ASSUME NEW s \in Seq(Nat), NEW x \in Nat
  PROVE  ToSet(Append(s, x)) = ToSet(s) \cup {x}
<1>1. /\ Len(s) \in Nat /\ DOMAIN s = 1 .. Len(s) /\ DOMAIN Append(s, x) = 1 .. Len(s) + 1
      /\ Append(s, x)[Len(s) + 1] = x /\ \A k \in 1 .. Len(s) : Append(s, x)[k] = s[k]
  BY AppendProperties
<1>2. 1 .. Len(s) + 1 = (1 .. Len(s)) \cup {Len(s) + 1}
  BY <1>1
<1> QED
  BY <1>1, <1>2 DEF ToSet

LEMMA TailFacts ==
  ASSUME NEW s \in Seq(Nat), s # << >>
  PROVE  /\ Head(s) = s[1] /\ Head(s) \in Nat /\ Tail(s) \in Seq(Nat)
         /\ DOMAIN s = 1 .. Len(s) /\ Len(s) \in Nat \ {0}
         /\ DOMAIN Tail(s) = 1 .. Len(s) - 1
         /\ \A k \in 1 .. Len(s) - 1 : Tail(s)[k] = s[k + 1]
<1>1. Len(s) \in Nat \ {0} /\ DOMAIN s = 1 .. Len(s)
  OBVIOUS
<1>2. /\ Head(s) \in Nat /\ Tail(s) \in Seq(Nat) /\ Len(Tail(s)) = Len(s) - 1
      /\ Head(s) = s[1] /\ \A i \in 1 .. Len(Tail(s)) : Tail(s)[i] = s[i + 1]
  BY HeadTailProperties
<1>3. DOMAIN Tail(s) = 1 .. Len(s) - 1
  BY <1>2
<1> QED
  BY <1>1, <1>2, <1>3

LEMMA SetOfTail ==
  ASSUME NEW s \in Seq(Nat), s # << >>
  PROVE  ToSet(s) = {Head(s)} \cup ToSet(Tail(s))
<1> USE TailFacts
<1>1. ASSUME NEW x \in ToSet(s)
      PROVE  x \in {Head(s)} \cup ToSet(Tail(s))
  <2>1. PICK k \in 1 .. Len(s) : x = s[k]
    BY DEF ToSet
  <2>2. CASE k = 1
    BY <2>1, <2>2
  <2>3. CASE k > 1
    <3>1. k - 1 \in 1 .. Len(s) - 1 /\ Tail(s)[k - 1] = s[(k - 1) + 1] /\ (k - 1) + 1 = k
      BY <2>1, <2>3
    <3> QED
      BY <2>1, <3>1 DEF ToSet
  <2> QED
    BY <2>1, <2>2, <2>3
<1>2. ASSUME NEW x \in {Head(s)} \cup ToSet(Tail(s))
      PROVE  x \in ToSet(s)
  <2>1. CASE x = Head(s)
    BY <2>1 DEF ToSet
  <2>2. CASE x \in ToSet(Tail(s))
    <3>1. PICK k \in 1 .. Len(s) - 1 : x = Tail(s)[k]
      BY <2>2 DEF ToSet
    <3>2. k + 1 \in 1 .. Len(s) /\ x = s[k + 1]
      BY <3>1
    <3> QED
      BY <3>2 DEF ToSet
  <2> QED
    BY <2>1, <2>2
<1> QED
  BY <1>1, <1>2

LEMMA RisingAppend ==
  ASSUME NEW s \in Seq(Nat), NEW x \in Nat, Rising(s), \A y \in ToSet(s) : y < x
  PROVE  Rising(Append(s, x))
<1>1. /\ Len(s) \in Nat /\ DOMAIN s = 1 .. Len(s) /\ DOMAIN Append(s, x) = 1 .. Len(s) + 1
      /\ Append(s, x)[Len(s) + 1] = x /\ \A k \in 1 .. Len(s) : Append(s, x)[k] = s[k]
  BY AppendProperties
<1>2. \A k \in 1 .. Len(s) : s[k] < x
  BY <1>1 DEF ToSet
<1>3. ASSUME NEW j \in 1 .. Len(s) + 1, NEW k \in 1 .. Len(s) + 1, j < k
      PROVE  Append(s, x)[j] < Append(s, x)[k]
  <2>1. CASE k = Len(s) + 1
    BY <1>1, <1>2, <1>3, <2>1
  <2>2. CASE k < Len(s) + 1
    <3>1. j \in 1 .. Len(s) /\ k \in 1 .. Len(s)
      BY <1>1, <1>3, <2>2
    <3> QED
      BY <1>1, <1>3, <3>1 DEF Rising
  <2> QED
    BY <1>1, <2>1, <2>2
<1> QED
  BY <1>1, <1>3 DEF Rising

LEMMA RisingTail ==
  ASSUME NEW s \in Seq(Nat), s # << >>, Rising(s)
  PROVE  Rising(Tail(s)) /\ \A x \in ToSet(Tail(s)) : Head(s) < x
<1> USE TailFacts
<1>1. Rising(Tail(s))
  <2>1. ASSUME NEW j \in 1 .. Len(s) - 1, NEW k \in 1 .. Len(s) - 1, j < k
        PROVE  Tail(s)[j] < Tail(s)[k]
    <3>1. j + 1 \in 1 .. Len(s) /\ k + 1 \in 1 .. Len(s) /\ j + 1 < k + 1
      BY <2>1
    <3>2. s[j + 1] < s[k + 1]
      BY <3>1 DEF Rising
    <3> QED
      BY <3>2
  <2> QED
    BY <2>1 DEF Rising
<1>2. ASSUME NEW k \in 1 .. Len(s) - 1
      PROVE  Head(s) < Tail(s)[k]
  <2>1. 1 \in 1 .. Len(s) /\ k + 1 \in 1 .. Len(s) /\ 1 < k + 1
    OBVIOUS
  <2>2. s[1] < s[k + 1]
    BY <2>1 DEF Rising
  <2> QED
    BY <2>2
<1> QED
  BY <1>1, <1>2 DEF ToSet

LEMMA DistinctAppend ==
  ASSUME NEW s \in Seq(Nat), NEW x \in Nat, Distinct(s), x \notin Known(s)
  PROVE  Distinct(Append(s, x)) /\ Known(Append(s, x)) = Known(s) \cup ({x} \ {Junk})
<1>1. /\ Len(s) \in Nat /\ DOMAIN s = 1 .. Len(s) /\ DOMAIN Append(s, x) = 1 .. Len(s) + 1
      /\ Append(s, x)[Len(s) + 1] = x /\ \A k \in 1 .. Len(s) : Append(s, x)[k] = s[k]
  BY AppendProperties
<1>2. \A k \in 1 .. Len(s) : s[k] # Junk => s[k] # x
  BY <1>1 DEF Known, ToSet
<1>3. ASSUME NEW j \in 1 .. Len(s) + 1, NEW k \in 1 .. Len(s) + 1,
             Append(s, x)[j] # Junk, j # k
      PROVE  Append(s, x)[j] # Append(s, x)[k]
  <2>1. CASE k = Len(s) + 1
    <3>1. j \in 1 .. Len(s)
      BY <1>1, <1>3, <2>1
    <3> QED
      BY <1>1, <1>2, <1>3, <2>1, <3>1
  <2>2. CASE j = Len(s) + 1
    <3>1. k \in 1 .. Len(s)
      BY <1>1, <1>3, <2>2
    <3> QED
      BY <1>1, <1>2, <1>3, <2>2, <3>1
  <2>3. CASE j \in 1 .. Len(s) /\ k \in 1 .. Len(s)
    BY <1>1, <1>3, <2>3 DEF Distinct
  <2> QED
    BY <1>1, <2>1, <2>2, <2>3
<1>4. Known(Append(s, x)) = Known(s) \cup ({x} \ {Junk})
  BY SetOfAppend DEF Known
<1> QED
  BY <1>1, <1>3, <1>4 DEF Distinct

(* A byte arrives, in the device or not. *)
LEMMA ArriveAccounted ==
  ASSUME NEW g \in Seq(Nat), NEW c \in Seq(Nat), NEW f \in Seq(Nat), NEW gone, NEW n \in Nat,
         Accounted(g, c, f, gone, n)
  PROVE  /\ Accounted(g, c, Append(f, n + 1), gone, n + 1)
         /\ Accounted(g, c, f, gone \cup {n + 1}, n + 1)
         /\ InSequence(g, c, f) => InSequence(g, c, Append(f, n + 1))
<1> DEFINE G == Known(g)
           C == ToSet(c)
           F == ToSet(f)
<1>1. /\ Distinct(g) /\ Rising(c) /\ Rising(f) /\ AllBelow(C, F)
      /\ G \cup C \cup F \cup gone = 1 .. n
      /\ G \cap C = {} /\ G \cap F = {} /\ gone \cap (G \cup C \cup F) = {}
  BY DEF Accounted
<1>2. ToSet(Append(f, n + 1)) = F \cup {n + 1}
  BY SetOfAppend
<1>3. \A x \in G \cup C \cup F \cup gone : x \in Nat /\ x < n + 1 /\ x # n + 1
  BY <1>1
<1>4. Rising(Append(f, n + 1))
  BY <1>1, <1>3, RisingAppend
<1>5. 1 .. n + 1 = (1 .. n) \cup {n + 1}
  OBVIOUS
<1>6. InSequence(g, c, f) => InSequence(g, c, Append(f, n + 1))
  <2>1. Junk \notin ToSet(g) => ToSet(g) = G
    BY DEF Known
  <2> QED
    BY <1>2, <1>3, <2>1 DEF InSequence, AllBelow
<1>7. AllBelow(C, F \cup {n + 1})
  BY <1>1, <1>3 DEF AllBelow
<1> HIDE DEF G, C, F
<1>8. /\ G \cup C \cup (F \cup {n + 1}) \cup gone = 1 .. n + 1
      /\ G \cup C \cup F \cup (gone \cup {n + 1}) = 1 .. n + 1
      /\ G \cap (F \cup {n + 1}) = {}
      /\ gone \cap (G \cup C \cup (F \cup {n + 1})) = {}
      /\ (gone \cup {n + 1}) \cap (G \cup C \cup F) = {}
  BY <1>1, <1>3, <1>5
<1> QED
  BY <1>1, <1>2, <1>4, <1>6, <1>7, <1>8 DEF Accounted, G, C, F

(* The oldest byte in the device goes to the ring, to the client or away.  *)
LEMMA HeadAccounted ==
  ASSUME NEW g \in Seq(Nat), NEW c \in Seq(Nat), NEW f \in Seq(Nat), NEW gone, NEW n \in Nat,
         Accounted(g, c, f, gone, n), f # << >>
  PROVE  /\ Accounted(g, Append(c, Head(f)), Tail(f), gone, n)
         /\ Accounted(g, c, Tail(f), gone \cup {Head(f)}, n)
         /\ Accounted(Append(g, Head(f)), c, Tail(f), gone, n)
         /\ InSequence(g, c, f) =>
              InSequence(g, Append(c, Head(f)), Tail(f)) /\ InSequence(g, c, Tail(f))
<1> DEFINE G == Known(g)
           C == ToSet(c)
           F == ToSet(f)
           T == ToSet(Tail(f))
           h == Head(f)
<1>1. /\ Distinct(g) /\ Rising(c) /\ Rising(f) /\ AllBelow(C, F)
      /\ G \cup C \cup F \cup gone = 1 .. n
      /\ G \cap C = {} /\ G \cap F = {} /\ gone \cap (G \cup C \cup F) = {}
  BY DEF Accounted
<1>2. h \in Nat /\ Tail(f) \in Seq(Nat) /\ F = {h} \cup T
  BY TailFacts, SetOfTail
<1>3. Rising(Tail(f)) /\ \A x \in T : h < x
  BY <1>1, RisingTail
<1>4. h \in 1 .. n /\ h # Junk /\ h \notin G /\ h \notin gone
  <2>1. h \in F
    BY <1>2
  <2> HIDE DEF h, F, G
  <2> QED
    BY <2>1, <1>1 DEF Junk
<1>5. ToSet(Append(c, h)) = C \cup {h}
  BY <1>2, SetOfAppend
<1>6. Rising(Append(c, h))
  <2>1. \A y \in C : y < h
    BY <1>1, <1>2 DEF AllBelow
  <2> QED
    BY <1>1, <1>2, <2>1, RisingAppend
<1>7. Distinct(Append(g, h)) /\ Known(Append(g, h)) = G \cup {h}
  BY <1>1, <1>2, <1>4, DistinctAppend
<1>8. AllBelow(C \cup {h}, T) /\ AllBelow(C, T)
  BY <1>1, <1>2, <1>3 DEF AllBelow
<1>9. InSequence(g, c, f) =>
        InSequence(g, Append(c, h), Tail(f)) /\ InSequence(g, c, Tail(f))
  BY <1>2, <1>5 DEF InSequence, AllBelow
<1>10. h \notin T /\ h \notin C
  <2>1. \A x \in C \cup T : x \in Nat
    BY <1>1, <1>2
  <2> QED
    BY <1>1, <1>2, <1>3, <2>1 DEF AllBelow
<1> HIDE DEF G, C, F, T, h
<1>11. /\ G \cup (C \cup {h}) \cup T \cup gone = 1 .. n
       /\ G \cup C \cup T \cup (gone \cup {h}) = 1 .. n
       /\ (G \cup {h}) \cup C \cup T \cup gone = 1 .. n
       /\ G \cap (C \cup {h}) = {} /\ G \cap T = {}
       /\ (G \cup {h}) \cap C = {} /\ (G \cup {h}) \cap T = {}
       /\ gone \cap (G \cup (C \cup {h}) \cup T) = {}
       /\ (gone \cup {h}) \cap (G \cup C \cup T) = {}
       /\ gone \cap ((G \cup {h}) \cup C \cup T) = {}
  BY <1>1, <1>2, <1>4, <1>10
<1>12. Accounted(g, Append(c, h), Tail(f), gone, n)
  BY <1>1, <1>3, <1>5, <1>6, <1>8, <1>11 DEF Accounted, G, C, T
<1>13. Accounted(g, c, Tail(f), gone \cup {h}, n)
  BY <1>1, <1>3, <1>8, <1>11 DEF Accounted, G, C, T
<1>14. Accounted(Append(g, h), c, Tail(f), gone, n)
  BY <1>1, <1>3, <1>7, <1>8, <1>11 DEF Accounted, G, C, T
<1> QED
  BY <1>9, <1>12, <1>13, <1>14 DEF h

(* The client takes the oldest byte of the ring. *)
LEMMA ReadAccounted ==
  ASSUME NEW g \in Seq(Nat), NEW c \in Seq(Nat), NEW f \in Seq(Nat), NEW gone, NEW n \in Nat,
         Accounted(g, c, f, gone, n), c # << >>
  PROVE  /\ Accounted(Append(g, Head(c)), Tail(c), f, gone, n)
         /\ InSequence(g, c, f) => InSequence(Append(g, Head(c)), Tail(c), f)
<1> DEFINE G == Known(g)
           C == ToSet(c)
           F == ToSet(f)
           T == ToSet(Tail(c))
           h == Head(c)
<1>1. /\ Distinct(g) /\ Rising(c) /\ Rising(f) /\ AllBelow(C, F)
      /\ G \cup C \cup F \cup gone = 1 .. n
      /\ G \cap C = {} /\ G \cap F = {} /\ gone \cap (G \cup C \cup F) = {}
  BY DEF Accounted
<1>2. h \in Nat /\ Tail(c) \in Seq(Nat) /\ C = {h} \cup T
  BY TailFacts, SetOfTail
<1>3. Rising(Tail(c)) /\ \A x \in T : h < x
  BY <1>1, RisingTail
<1>4. h \in 1 .. n /\ h # Junk /\ h \notin G /\ h \notin gone
  <2>1. h \in C
    BY <1>2
  <2> HIDE DEF h, C, G
  <2> QED
    BY <2>1, <1>1 DEF Junk
<1>5. Distinct(Append(g, h)) /\ Known(Append(g, h)) = G \cup {h}
  BY <1>1, <1>2, <1>4, DistinctAppend
<1>6. AllBelow(T, F) /\ AllBelow({h}, F)
  BY <1>1, <1>2 DEF AllBelow
<1>7. h \notin T /\ h \notin F
  <2>1. \A x \in F \cup T : x \in Nat
    BY <1>1, <1>2
  <2> QED
    BY <1>2, <1>3, <1>6, <2>1 DEF AllBelow
<1>8. ToSet(Append(g, h)) = ToSet(g) \cup {h}
  BY <1>2, SetOfAppend
<1>9. InSequence(g, c, f) => InSequence(Append(g, h), Tail(c), f)
  <2> SUFFICES ASSUME InSequence(g, c, f) PROVE InSequence(Append(g, h), Tail(c), f)
    OBVIOUS
  <2>1. \A y \in ToSet(g) : y < h
    BY <1>2 DEF InSequence, AllBelow
  <2>2. Rising(Append(g, h))
    BY <1>2, <2>1, RisingAppend DEF InSequence
  <2>3. AllBelow(ToSet(g) \cup {h}, T) /\ AllBelow(ToSet(g) \cup {h}, F)
    BY <1>2, <1>3, <1>6 DEF InSequence, AllBelow
  <2> QED
    BY <1>4, <1>8, <2>2, <2>3 DEF InSequence
<1> HIDE DEF G, C, F, T, h
<1>10. /\ (G \cup {h}) \cup T \cup F \cup gone = 1 .. n
       /\ (G \cup {h}) \cap T = {} /\ (G \cup {h}) \cap F = {}
       /\ gone \cap ((G \cup {h}) \cup T \cup F) = {}
  BY <1>1, <1>2, <1>4, <1>7
<1>11. Accounted(Append(g, h), Tail(c), f, gone, n)
  BY <1>1, <1>3, <1>5, <1>6, <1>10 DEF Accounted, G, F, T
<1> QED
  BY <1>9, <1>11 DEF h

(* A read of the empty FIFO, and the reset of the FIFO. *)
LEMMA JunkAccounted ==
  ASSUME NEW g \in Seq(Nat), NEW c, NEW f, NEW gone, NEW n, Accounted(g, c, f, gone, n)
  PROVE  Accounted(Append(g, Junk), c, f, gone, n)
<1>1. Junk \in Nat /\ Junk \notin Known(g) /\ Distinct(g)
  BY DEF Junk, Known, Accounted
<1>2. Distinct(Append(g, Junk)) /\ Known(Append(g, Junk)) = Known(g)
  BY <1>1, DistinctAppend
<1> QED
  BY <1>2 DEF Accounted

LEMMA ClearAccounted ==
  ASSUME NEW g, NEW c, NEW f, NEW gone, NEW n, Accounted(g, c, f, gone, n)
  PROVE  /\ Accounted(g, c, << >>, gone \cup ToSet(f), n)
         /\ InSequence(g, c, f) => InSequence(g, c, << >>)
<1> DEFINE G == Known(g)
           C == ToSet(c)
           F == ToSet(f)
<1>1. /\ Distinct(g) /\ Rising(c) /\ Rising(f) /\ AllBelow(C, F)
      /\ G \cup C \cup F \cup gone = 1 .. n
      /\ G \cap C = {} /\ G \cap F = {} /\ gone \cap (G \cup C \cup F) = {}
  BY DEF Accounted
<1>2. InSequence(g, c, f) => InSequence(g, c, << >>)
  BY SetOfEmpty DEF InSequence, AllBelow
<1>3. C \cap F = {}
  <2>1. \A x \in C \cup F : x \in Nat
    BY <1>1
  <2> QED
    BY <1>1, <2>1 DEF AllBelow
<1> HIDE DEF G, C, F
<1>4. /\ G \cup C \cup {} \cup (gone \cup F) = 1 .. n
      /\ (gone \cup F) \cap (G \cup C \cup {}) = {} /\ G \cap {} = {}
  BY <1>1, <1>3
<1>5. AllBelow(C, {})
  BY DEF AllBelow
<1> QED
  BY <1>1, <1>2, <1>4, <1>5, SetOfEmpty DEF Accounted, G, C, F

LEMMA ThreeInARow ==
  ASSUME NEW g \in Seq(Nat), NEW c \in Seq(Nat), NEW f \in Seq(Nat)
  PROVE  LET kept == g \o c \o f IN
         /\ Len(g) \in Nat /\ Len(c) \in Nat /\ Len(f) \in Nat
         /\ DOMAIN g = 1 .. Len(g) /\ DOMAIN c = 1 .. Len(c) /\ DOMAIN f = 1 .. Len(f)
         /\ DOMAIN kept = 1 .. Len(g) + Len(c) + Len(f)
         /\ \A k \in 1 .. Len(g) : kept[k] = g[k]
         /\ \A k \in 1 .. Len(c) : kept[Len(g) + k] = c[k]
         /\ \A k \in 1 .. Len(f) : kept[Len(g) + Len(c) + k] = f[k]
<1> DEFINE gc == g \o c
           kept == gc \o f
<1>1. /\ Len(g) \in Nat /\ Len(c) \in Nat /\ Len(f) \in Nat
      /\ DOMAIN g = 1 .. Len(g) /\ DOMAIN c = 1 .. Len(c) /\ DOMAIN f = 1 .. Len(f)
  OBVIOUS
<1>2. /\ gc \in Seq(Nat) /\ Len(gc) = Len(g) + Len(c)
      /\ \A k \in 1 .. Len(g) + Len(c) : gc[k] = IF k <= Len(g) THEN g[k] ELSE c[k - Len(g)]
  BY ConcatProperties
<1>9. gc \in Seq(Nat)
  BY <1>2
<1> HIDE DEF gc
<1>3. /\ kept \in Seq(Nat) /\ Len(kept) = Len(gc) + Len(f)
      /\ \A k \in 1 .. Len(gc) + Len(f) : kept[k] = IF k <= Len(gc) THEN gc[k] ELSE f[k - Len(gc)]
  BY <1>9, ConcatProperties
<1> HIDE DEF kept
<1>4. DOMAIN kept = 1 .. Len(g) + Len(c) + Len(f)
  BY <1>1, <1>2, <1>3
<1>5. ASSUME NEW k \in 1 .. Len(g)
      PROVE  kept[k] = g[k]
  BY <1>1, <1>2, <1>3
<1>6. ASSUME NEW k \in 1 .. Len(c)
      PROVE  kept[Len(g) + k] = c[k]
  <2> DEFINE i == Len(g) + k
  <2>1. i \in 1 .. Len(g) + Len(c) /\ ~(i <= Len(g)) /\ i - Len(g) = k
    BY <1>1
  <2> HIDE DEF i
  <2>2. i \in 1 .. Len(gc) + Len(f) /\ i <= Len(gc)
    BY <1>1, <1>2, <2>1
  <2>3. kept[i] = gc[i] /\ gc[i] = c[i - Len(g)]
    BY <1>2, <1>3, <2>1, <2>2
  <2> QED
    BY <2>1, <2>3 DEF i
<1>7. ASSUME NEW k \in 1 .. Len(f)
      PROVE  kept[Len(g) + Len(c) + k] = f[k]
  <2> DEFINE i == Len(g) + Len(c) + k
  <2>1. i \in 1 .. Len(gc) + Len(f) /\ ~(i <= Len(gc)) /\ i - Len(gc) = k
    BY <1>1, <1>2
  <2> HIDE DEF i
  <2>2. kept[i] = f[i - Len(gc)]
    BY <1>3, <2>1
  <2> QED
    BY <2>1, <2>2 DEF i
<1> QED
  BY <1>1, <1>4, <1>5, <1>6, <1>7 DEF kept, gc

(* What Accounted says of the pieces, of them in a row. *)
LEMMA AccountedInARow ==
  ASSUME NEW g \in Seq(Nat), NEW c \in Seq(Nat), NEW f \in Seq(Nat), NEW gone, NEW n \in Nat,
         Accounted(g, c, f, gone, n)
  PROVE  LET kept == g \o c \o f
             real == {k \in DOMAIN kept : kept[k] # Junk}
             there == {kept[k] : k \in real}
         IN /\ \A j, k \in real : j # k => kept[j] # kept[k]
            /\ \A k \in DOMAIN kept : k > Len(g) => k \in real
            /\ there \cap gone = {} /\ there \cup gone = 1 .. n
            /\ InSequence(g, c, f) =>
                 /\ real = DOMAIN kept
                 /\ \A j, k \in real : j < k => kept[j] < kept[k]
<1> DEFINE kept == g \o c \o f
           real == {k \in DOMAIN kept : kept[k] # Junk}
           there == {kept[k] : k \in real}
           G == Known(g)
           C == ToSet(c)
           F == ToSet(f)
           a == Len(g)
           b == Len(g) + Len(c)
           m == Len(g) + Len(c) + Len(f)
<1>1. /\ a \in Nat /\ b \in Nat /\ m \in Nat /\ a <= b /\ b <= m
      /\ DOMAIN g = 1 .. a /\ DOMAIN c = 1 .. b - a /\ DOMAIN f = 1 .. m - b
      /\ DOMAIN kept = 1 .. m
      /\ \A k \in 1 .. a : kept[k] = g[k]
      /\ \A k \in 1 .. b - a : kept[a + k] = c[k]
      /\ \A k \in 1 .. m - b : kept[b + k] = f[k]
  <2>1. /\ Len(g) \in Nat /\ Len(c) \in Nat /\ Len(f) \in Nat
        /\ DOMAIN g = 1 .. Len(g) /\ DOMAIN c = 1 .. Len(c) /\ DOMAIN f = 1 .. Len(f)
        /\ DOMAIN kept = 1 .. Len(g) + Len(c) + Len(f)
        /\ \A k \in 1 .. Len(g) : kept[k] = g[k]
        /\ \A k \in 1 .. Len(c) : kept[Len(g) + k] = c[k]
        /\ \A k \in 1 .. Len(f) : kept[Len(g) + Len(c) + k] = f[k]
    BY ThreeInARow
  <2> HIDE DEF kept
  <2>2. b - a = Len(c) /\ m - b = Len(f)
    BY <2>1
  <2> QED
    BY <2>1, <2>2
<1>2. /\ Distinct(g) /\ Rising(c) /\ Rising(f) /\ AllBelow(C, F)
      /\ G \cup C \cup F \cup gone = 1 .. n
      /\ G \cap C = {} /\ G \cap F = {} /\ gone \cap (G \cup C \cup F) = {}
  BY DEF Accounted
<1> HIDE DEF kept, a, b, m
<1>3. /\ \A k \in 1 .. m : k > a /\ k <= b =>
           k - a \in 1 .. b - a /\ kept[k] = c[k - a] /\ kept[k] \in C
      /\ \A k \in 1 .. m : k > b =>
           k - b \in 1 .. m - b /\ kept[k] = f[k - b] /\ kept[k] \in F
      /\ \A k \in 1 .. m : k <= a => k \in 1 .. a /\ kept[k] = g[k]
  <2>1. ASSUME NEW k \in 1 .. m, k > a, k <= b
        PROVE  k - a \in 1 .. b - a /\ kept[k] = c[k - a] /\ kept[k] \in C
    <3>1. k - a \in 1 .. b - a /\ a + (k - a) = k
      BY <1>1, <2>1
    <3>2. kept[k] = c[k - a]
      BY <1>1, <3>1
    <3> QED
      BY <1>1, <3>1, <3>2 DEF ToSet
  <2>2. ASSUME NEW k \in 1 .. m, k > b
        PROVE  k - b \in 1 .. m - b /\ kept[k] = f[k - b] /\ kept[k] \in F
    <3>1. k - b \in 1 .. m - b /\ b + (k - b) = k
      BY <1>1, <2>2
    <3>2. kept[k] = f[k - b]
      BY <1>1, <3>1
    <3> QED
      BY <1>1, <3>1, <3>2 DEF ToSet
  <2>3. \A k \in 1 .. m : k <= a => k \in 1 .. a /\ kept[k] = g[k]
    BY <1>1
  <2> QED
    BY <2>1, <2>2, <2>3
<1>4. \A k \in 1 .. a : g[k] # Junk => g[k] \in G
  BY <1>1 DEF Known, ToSet
<1>5. Junk \notin C /\ Junk \notin F /\ Junk \notin G
  BY <1>2 DEF Junk, Known
<1>6. ASSUME NEW x
      PROVE  /\ x \in G => \E k \in 1 .. m : kept[k] = x /\ k \in real
             /\ x \in C => \E k \in 1 .. m : kept[k] = x /\ k \in real
             /\ x \in F => \E k \in 1 .. m : kept[k] = x /\ k \in real
  <2>1. ASSUME x \in G PROVE \E k \in 1 .. m : kept[k] = x /\ k \in real
    <3>1. PICK k \in 1 .. a : g[k] = x
      BY <1>1, <2>1 DEF Known, ToSet
    <3> QED
      BY <1>1, <1>5, <2>1, <3>1
  <2>2. ASSUME x \in C PROVE \E k \in 1 .. m : kept[k] = x /\ k \in real
    <3>1. PICK k \in 1 .. b - a : c[k] = x
      BY <1>1, <2>2 DEF ToSet
    <3>2. a + k \in 1 .. m /\ kept[a + k] = x
      BY <1>1, <3>1
    <3> QED
      BY <1>1, <1>5, <2>2, <3>2
  <2>3. ASSUME x \in F PROVE \E k \in 1 .. m : kept[k] = x /\ k \in real
    <3>1. PICK k \in 1 .. m - b : f[k] = x
      BY <1>1, <2>3 DEF ToSet
    <3>2. b + k \in 1 .. m /\ kept[b + k] = x
      BY <1>1, <3>1
    <3> QED
      BY <1>1, <1>5, <2>3, <3>2
  <2> QED
    BY <2>1, <2>2, <2>3
<1>7. there = G \cup C \cup F
  <2>1. ASSUME NEW x \in there PROVE x \in G \cup C \cup F
    <3>1. PICK k \in 1 .. m : x = kept[k] /\ kept[k] # Junk
      BY <1>1, <2>1
    <3> QED
      <4>1. k <= a \/ (k > a /\ k <= b) \/ k > b
        BY <1>1
      <4> QED
        BY <1>3, <1>4, <3>1, <4>1
  <2>2. ASSUME NEW x \in G \cup C \cup F PROVE x \in there
    <3>1. PICK k \in 1 .. m : kept[k] = x /\ k \in real
      BY <1>6, <2>2
    <3> QED
      BY <3>1
  <2> QED
    BY <2>1, <2>2
<1>8. \A k \in 1 .. m : k > a => k \in real
  BY <1>1, <1>3, <1>5
<1>9. \A x \in C \cup F : x \in Nat
  BY <1>2
<1>10. \A j, k \in 1 .. m : j > a /\ j < k => kept[j] < kept[k]
  <2> SUFFICES ASSUME NEW j \in 1 .. m, NEW k \in 1 .. m, j > a, j < k
               PROVE  kept[j] < kept[k]
    OBVIOUS
  <2>1. CASE k <= b
    <3>1. j > a /\ j <= b /\ k > a /\ k <= b
      BY <1>1, <2>1
    <3>2. j - a \in 1 .. b - a /\ kept[j] = c[j - a]
      BY <1>3, <3>1
    <3>3. k - a \in 1 .. b - a /\ kept[k] = c[k - a]
      BY <1>3, <3>1
    <3>4. j - a < k - a
      BY <1>1
    <3> QED
      BY <1>1, <1>2, <3>2, <3>3, <3>4 DEF Rising
  <2>2. CASE j > b
    <3>1. j > b /\ k > b
      BY <1>1, <2>2
    <3>2. j - b \in 1 .. m - b /\ kept[j] = f[j - b]
      BY <1>3, <3>1
    <3>3. k - b \in 1 .. m - b /\ kept[k] = f[k - b]
      BY <1>3, <3>1
    <3>4. j - b < k - b
      BY <1>1
    <3> QED
      BY <1>1, <1>2, <3>2, <3>3, <3>4 DEF Rising
  <2>3. CASE j <= b /\ k > b
    <3>1. kept[j] \in C /\ kept[k] \in F
      BY <1>1, <1>3, <2>3
    <3> QED
      BY <1>2, <3>1 DEF AllBelow
  <2> QED
    BY <1>1, <2>1, <2>2, <2>3
<1>11. \A j, k \in 1 .. m : j < k /\ j \in real /\ k \in real => kept[j] # kept[k]
  <2> SUFFICES ASSUME NEW j \in 1 .. m, NEW k \in 1 .. m, j < k, j \in real, k \in real
               PROVE  kept[j] # kept[k]
    OBVIOUS
  <2>1. CASE j > a
    <3>1. kept[j] < kept[k] /\ kept[j] \in Nat /\ kept[k] \in Nat
      BY <1>1, <1>3, <1>9, <1>10, <2>1
    <3> QED
      BY <3>1
  <2>2. CASE j <= a /\ k > a
    <3>1. kept[j] \in G /\ kept[k] \in C \cup F
      BY <1>1, <1>3, <1>4, <2>2
    <3> QED
      BY <1>2, <3>1
  <2>3. CASE k <= a
    <3>1. j <= a /\ j # k
      BY <1>1, <2>3
    <3>2. j \in 1 .. a /\ k \in 1 .. a /\ kept[j] = g[j] /\ kept[k] = g[k]
      BY <1>3, <2>3, <3>1
    <3>3. kept[j] # Junk
      OBVIOUS
    <3>4. g[j] # g[k]
      BY <1>1, <1>2, <3>1, <3>2, <3>3 DEF Distinct
    <3> QED
      BY <3>2, <3>4
  <2> QED
    BY <1>1, <2>1, <2>2, <2>3
<1>12. \A j, k \in real : j # k => kept[j] # kept[k]
  <2> SUFFICES ASSUME NEW j \in real, NEW k \in real, j # k PROVE kept[j] # kept[k]
    OBVIOUS
  <2>1. j \in 1 .. m /\ k \in 1 .. m /\ (j < k \/ k < j)
    BY <1>1
  <2> QED
    BY <1>11, <2>1
<1>13. ASSUME InSequence(g, c, f)
       PROVE  real = DOMAIN kept /\ \A j, k \in real : j < k => kept[j] < kept[k]
  <2>1. \A k \in 1 .. a : g[k] # Junk /\ g[k] \in ToSet(g)
    BY <1>1, <1>13 DEF InSequence, ToSet
  <2>2. real = 1 .. m
    <3>1. ASSUME NEW k \in 1 .. m PROVE kept[k] # Junk
      <4>1. k <= a \/ (k > a /\ k <= b) \/ k > b
        BY <1>1
      <4> QED
        BY <1>3, <1>5, <2>1, <4>1
    <3> QED
      BY <1>1, <3>1
  <2>3. ASSUME NEW j \in 1 .. m, NEW k \in 1 .. m, j < k
        PROVE  kept[j] < kept[k]
    <3>1. CASE j > a
      BY <1>10, <2>3, <3>1
    <3>2. CASE k <= a
      <4>1. j \in 1 .. a /\ k \in 1 .. a /\ kept[j] = g[j] /\ kept[k] = g[k]
        BY <1>1, <2>3, <3>2
      <4> QED
        BY <1>1, <1>13, <2>3, <4>1 DEF InSequence, Rising
    <3>3. CASE j <= a /\ k > a
      <4>1. kept[j] \in ToSet(g) /\ kept[k] \in C \cup F
        BY <1>1, <1>3, <2>1, <3>3
      <4> QED
        BY <1>13, <4>1 DEF InSequence, AllBelow
    <3> QED
      BY <1>1, <3>1, <3>2, <3>3
  <2> QED
    BY <1>1, <2>2, <2>3
<1>14. there \cap gone = {} /\ there \cup gone = 1 .. n
  BY <1>2, <1>7
<1>15. \A k \in DOMAIN kept : k > Len(g) => k \in real
  BY <1>1, <1>8 DEF a
<1> QED
  BY <1>12, <1>13, <1>14, <1>15 DEF kept

-----------------------------------------------------------------------------
(* The way out. *)

BeforeClient == BeforeUart \cup {"u_mark"}
Sendable == Char \cup {CR}

TxTyped ==
  /\ tx_buffer \in Ring(Char \cup {CR, NUL}) /\ Chained(tx_buffer)
  /\ Contents(tx_buffer) \in Seq(Sendable)
  /\ {dw_uart_initialized, MarksInitialized, rdi, thri, busyDetect} \subseteq BOOLEAN
  /\ sent \in 0 .. MAX_BATCH
  /\ txFifo \in Seq(Sendable) /\ wire \in Seq(Sendable)

(* Until dw_uart_initialized is set nothing is queued and the transmit     *)
(* interrupt is off, so what the handler finds to do is at most a busy     *)
(* detect; from u_idle on to the reset of the FIFOs the device is empty.   *)
TxModes ==
  /\ dw_uart_initialized =>
       accepted # << >> /\ pc \notin BeforeClient \cup {"put_c", "get_rbr"}
  /\ ~dw_uart_initialized => tx_buffer.count = 0 /\ thri = FALSE /\ Len(txFifo) <= 1
  /\ pc \in {"u_ier", "u_line", "u_fcr"} => txFifo = << >>

(* The FIFO never overflows: a batch goes on top of what is there only     *)
(* after a busy detect, and then only one batch is there.                  *)
Room ==
  /\ busyDetect /\ irq # "uart_tx" => Len(txFifo) <= MAX_BATCH
  /\ busyDetect /\ irq = "uart_tx" => Len(txFifo) <= sent
  /\ irq = "uart_tx" => Len(txFifo) <= MAX_BATCH + sent
  /\ Len(txFifo) <= 2 * MAX_BATCH

OnTheWay ==
  /\ Sent(Outgoing, accepted)
  /\ pc = "put_c" => Char1 = "\n" /\ Outgoing # << >> /\ Outgoing[Len(Outgoing)] = CR

TxInv == TxTyped /\ TxModes /\ Room /\ OnTheWay

(* The steps of the program other than those of putchar. *)
Move ==
  \/ pc' = pc \/ pc' \notin BeforeClient \cup {"put_c", "get_rbr"}
  \/ pc' = "get_rbr" /\ ~dw_uart_initialized
  \/ /\ pc \in BeforeClient /\ pc' \in BeforeClient
     /\ pc' \in {"u_ier", "u_line", "u_fcr"} => txFifo = << >>

txVars == <<tx_buffer, dw_uart_initialized, MarksInitialized, sent, thri, busyDetect,
            txFifo, wire, accepted>>

-----------------------------------------------------------------------------
LEMMA BatchFacts ==
  /\ MAX_BATCH \in Nat \ {0} /\ FifoDepth \in Nat \ {0} /\ RingSize \in Nat \ {0}
  /\ 2 * MAX_BATCH <= FifoDepth /\ RxDepth \in Nat \ {0} /\ MaxTyped \in Nat
  BY UartConstants

LEMMA ShiftKeeps ==
  ASSUME NEW S, NEW s \in Seq(S), NEW t \in Seq(S), t # << >>
  PROVE  /\ Append(s, Head(t)) \o Tail(t) = s \o t
         /\ Append(s, Head(t)) \in Seq(S) /\ Tail(t) \in Seq(S) /\ Head(t) \in S
         /\ Len(Tail(t)) = Len(t) - 1 /\ Len(t) > 0
<1>1. Len(s) \in Nat /\ Len(t) \in Nat \ {0}
  OBVIOUS
<1>2. /\ Head(t) \in S /\ Tail(t) \in Seq(S) /\ Len(Tail(t)) = Len(t) - 1
      /\ Head(t) = t[1] /\ \A i \in 1 .. Len(Tail(t)) : Tail(t)[i] = t[i + 1]
  BY HeadTailProperties
<1> DEFINE a == Append(s, Head(t))
           b == Tail(t)
<1>3. /\ a \in Seq(S) /\ Len(a) = Len(s) + 1 /\ a[Len(s) + 1] = t[1]
      /\ \A i \in 1 .. Len(s) : a[i] = s[i]
  BY <1>2, AppendProperties
<1>4. b \in Seq(S) /\ Len(b) = Len(t) - 1 /\ \A i \in 1 .. Len(t) - 1 : b[i] = t[i + 1]
  BY <1>2
<1> HIDE DEF a, b
<1>5. a \in Seq(S) /\ b \in Seq(S)
  BY <1>3, <1>4
<1>6. /\ a \o b \in Seq(S) /\ Len(a \o b) = Len(a) + Len(b)
      /\ \A i \in 1 .. Len(a) + Len(b) : (a \o b)[i] = IF i <= Len(a) THEN a[i] ELSE b[i - Len(a)]
  BY <1>5, ConcatProperties
<1>7. /\ s \o t \in Seq(S) /\ Len(s \o t) = Len(s) + Len(t)
      /\ \A i \in 1 .. Len(s) + Len(t) : (s \o t)[i] = IF i <= Len(s) THEN s[i] ELSE t[i - Len(s)]
  BY ConcatProperties
<1>8. Len(a \o b) = Len(s \o t)
  BY <1>1, <1>3, <1>4, <1>6, <1>7
<1>9. ASSUME NEW i \in 1 .. Len(s) + Len(t)
      PROVE  (a \o b)[i] = (s \o t)[i]
  <2>1. CASE i <= Len(s)
    BY <1>1, <1>3, <1>4, <1>6, <1>7, <2>1
  <2>2. CASE i = Len(s) + 1
    <3>1. i - Len(s) = 1 /\ i <= Len(a) /\ ~(i <= Len(s)) /\ i \in 1 .. Len(a) + Len(b)
      BY <1>1, <1>3, <1>4, <2>2
    <3>2. (a \o b)[i] = a[i]
      BY <1>6, <3>1
    <3>3. (s \o t)[i] = t[i - Len(s)]
      BY <1>7, <3>1
    <3> QED
      BY <1>3, <2>2, <3>1, <3>2, <3>3
  <2>3. CASE i > Len(s) + 1
    <3>1. /\ i - Len(a) \in 1 .. Len(t) - 1 /\ (i - Len(a)) + 1 = i - Len(s)
      BY <1>1, <1>3, <2>3
    <3>2. b[i - Len(a)] = t[i - Len(s)]
      BY <1>4, <3>1
    <3>3. ~(i <= Len(a)) /\ ~(i <= Len(s)) /\ i \in 1 .. Len(a) + Len(b)
      BY <1>1, <1>3, <1>4, <2>3
    <3>4. (a \o b)[i] = b[i - Len(a)]
      BY <1>6, <3>3
    <3>5. (s \o t)[i] = t[i - Len(s)]
      BY <1>7, <3>3
    <3> QED
      BY <3>2, <3>4, <3>5
  <2>4. i <= Len(s) \/ i = Len(s) + 1 \/ i > Len(s) + 1
    BY <1>1
  <2> QED
    BY <2>1, <2>2, <2>3, <2>4
<1>10. a \o b = s \o t
  BY <1>1, <1>6, <1>7, <1>8, <1>9, SeqEqual
<1> QED
  BY <1>1, <1>2, <1>3, <1>10 DEF a, b

LEMMA AppendLast ==
  ASSUME NEW S, NEW s \in Seq(S), NEW t \in Seq(S), NEW x \in S
  PROVE  /\ s \o Append(t, x) = Append(s \o t, x) /\ s \o t \in Seq(S)
         /\ Append(t, x) \in Seq(S) /\ Len(Append(t, x)) = Len(t) + 1
<1>1. Append(t, x) = t \o <<x>> /\ Append(s \o t, x) = (s \o t) \o <<x>> /\ s \o t \in Seq(S)
  BY AppendIsConcat, ConcatProperties
<1>2. s \o (t \o <<x>>) = (s \o t) \o <<x>>
  BY ConcatAssociative
<1> QED
  BY <1>1, <1>2, AppendProperties

LEMMA LastOfAppend ==
  ASSUME NEW S, NEW s \in Seq(S), NEW x \in S
  PROVE  Append(s, x) # << >> /\ Append(s, x)[Len(Append(s, x))] = x
  BY AppendProperties, EmptySeq

LEMMA EmptyRingFacts ==
  ASSUME NEW r, r.count = 0
  PROVE  Contents(r) = << >>
  BY DEF Contents

LEMMA TxFacts ==
  ASSUME TxInv
  PROVE  /\ wire \in Seq(Sendable) /\ txFifo \in Seq(Sendable)
         /\ Contents(tx_buffer) \in Seq(Sendable)
         /\ wire \o txFifo \in Seq(Sendable) /\ Outgoing \in Seq(Sendable)
         /\ Len(txFifo) \in Nat /\ (txFifo = << >> => Len(txFifo) = 0)
         /\ ~dw_uart_initialized => Contents(tx_buffer) = << >> /\ Outgoing = wire \o txFifo
<1>1. /\ wire \in Seq(Sendable) /\ txFifo \in Seq(Sendable)
      /\ Contents(tx_buffer) \in Seq(Sendable)
  BY DEF TxInv, TxTyped
<1>2. wire \o txFifo \in Seq(Sendable)
  BY <1>1, ConcatProperties
<1>3. Outgoing \in Seq(Sendable)
  BY <1>1, <1>2, ConcatProperties DEF Outgoing
<1>4. ~dw_uart_initialized => Contents(tx_buffer) = << >>
  BY EmptyRingFacts DEF TxInv, TxModes
<1>5. ~dw_uart_initialized => Outgoing = wire \o txFifo
  BY <1>2, <1>4, ConcatEmptySeq DEF Outgoing
<1> QED
  BY <1>1, <1>2, <1>3, <1>4, <1>5, LenProperties

LEMMA TxInvInit == Init => TxInv
<1> SUFFICES ASSUME Init PROVE TxInv
  OBVIOUS
<1> USE DEF Init, UartReset
<1>1. RingSize \in Nat \ {0} /\ MAX_BATCH \in Nat
  BY BatchFacts
<1>2. tx_buffer = [buffer |-> [k \in Slot |-> NUL], head |-> 0, tail |-> 0, count |-> 0]
  BY DEF EmptyRing
<1>3. Contents(tx_buffer) = << >>
  BY <1>2, EmptyRingFacts
<1>4. TxTyped
  <2>1. tx_buffer \in Ring(Char \cup {CR, NUL})
    BY <1>1, <1>2 DEF Ring, Slot
  <2>2. Chained(tx_buffer)
    BY <1>1, <1>2 DEF Chained
  <2>3. << >> \in Seq(Sendable)
    BY EmptySeq
  <2>4. {dw_uart_initialized, MarksInitialized, rdi, thri, busyDetect} \subseteq BOOLEAN
    OBVIOUS
  <2>5. Contents(tx_buffer) \in Seq(Sendable) /\ txFifo \in Seq(Sendable)
        /\ wire \in Seq(Sendable) /\ sent \in 0 .. MAX_BATCH
    BY <1>1, <1>3, <2>3
  <2> QED
    BY <2>1, <2>2, <2>4, <2>5 DEF TxTyped
<1>5. TxModes
  BY <1>2 DEF TxModes
<1>6. Room
  BY <1>1 DEF Room, GicReset
<1>7. Outgoing = << >>
  BY <1>3 DEF Outgoing
<1>8. Sent(<< >>, << >>)
  <2>1. Characters(<< >>, 0) = 0
    <3>1. {j \in 1 .. 0 : << >>[j] # CR} = {}
      OBVIOUS
    <3> QED
      BY <3>1, FS_EmptySet DEF Characters
  <2> QED
    BY <2>1 DEF Sent, Carries, Newlines
<1>9. OnTheWay
  BY <1>7, <1>8 DEF OnTheWay
<1> QED
  BY <1>4, <1>5, <1>6, <1>9 DEF TxInv

LEMMA TxQuiet ==
  ASSUME TxInv, UNCHANGED txVars, rdi' \in BOOLEAN, Move, irq' = "uart_tx" => irq = "uart_tx"
  PROVE  TxInv'
<1> USE DEF TxInv, txVars
<1>1. TxTyped'
  BY DEF TxTyped
<1>2. TxModes'
  BY DEF TxModes, Move, BeforeClient, BeforeUart
<1>3. Room'
  <2>1. Len(txFifo) \in Nat /\ sent \in 0 .. MAX_BATCH
    BY LenProperties DEF TxTyped
  <2> QED
    BY <2>1, BatchFacts DEF Room
<1>4. OnTheWay'
  <2>1. Outgoing' = Outgoing /\ Char1' = Char1
    BY DEF Outgoing, Char1
  <2>2. pc' = "put_c" => pc = "put_c"
    BY DEF Move, BeforeClient, BeforeUart
  <2> QED
    BY <2>1, <2>2 DEF OnTheWay
<1> QED
  BY <1>1, <1>2, <1>3, <1>4

(* The device sends a byte. *)
LEMMA TxInvShift ==
  ASSUME TxInv, TxShift, UNCHANGED <<accepted, MarksInitialized, pc, irq>>
  PROVE  TxInv'
<1> USE DEF TxShift
<1>1. /\ wire' \in Seq(Sendable) /\ txFifo' \in Seq(Sendable)
      /\ wire' \o txFifo' = wire \o txFifo
      /\ Len(txFifo') = Len(txFifo) - 1 /\ Len(txFifo) > 0
  <2>1. txFifo # << >> /\ wire' = Append(wire, Head(txFifo)) /\ txFifo' = Tail(txFifo)
    OBVIOUS
  <2>2. wire \in Seq(Sendable) /\ txFifo \in Seq(Sendable)
    BY TxFacts
  <2> QED
    BY <2>1, <2>2, ShiftKeeps
<1>2. Len(txFifo) \in Nat /\ sent \in 0 .. MAX_BATCH
  BY TxFacts DEF TxInv, TxTyped
<1>3. TxTyped'
  BY <1>1 DEF TxInv, TxTyped
<1>4. TxModes'
  BY <1>1, <1>2 DEF TxInv, TxModes
<1>5. Room'
  BY <1>1, <1>2, BatchFacts DEF TxInv, Room
<1>6. Outgoing' = Outgoing /\ Char1' = Char1
  BY <1>1 DEF Outgoing, Char1
<1>7. OnTheWay'
  BY <1>6 DEF TxInv, OnTheWay
<1> QED
  BY <1>3, <1>4, <1>5, <1>7 DEF TxInv

(* The transmit half of the handler. *)
LEMMA TxInvReadIir ==
  ASSUME TxInv, ReadIir, UNCHANGED <<accepted, MarksInitialized, pc>>
  PROVE  TxInv'
<1> USE DEF ReadIir
<1>1. /\ irq = "uart" /\ sent' = 0 /\ irq' \in {"uart_rx", "uart_tx", "eoi"}
      /\ UNCHANGED <<tx_buffer, dw_uart_initialized, rdi, thri, txFifo, wire>>
      /\ busyDetect' = (busyDetect /\ IIR # "busy")
      /\ irq' = "uart_tx" => IIR \in {"thre", "busy"}
  OBVIOUS
<1>2. /\ IIR = "thre" => txFifo = << >>
      /\ IIR = "busy" => busyDetect
  BY DEF IIR, THRE
<1>3. busyDetect' \in BOOLEAN /\ (busyDetect' => busyDetect /\ IIR # "busy")
  BY <1>1 DEF TxInv, TxTyped
<1>4. TxTyped'
  BY <1>1, <1>3, BatchFacts DEF TxInv, TxTyped
<1>5. TxModes'
  BY <1>1 DEF TxInv, TxModes
<1>6. Room'
  <2>1. Len(txFifo) \in Nat /\ (txFifo = << >> => Len(txFifo) = 0)
    BY TxFacts
  <2>2. CASE irq' = "uart_tx" /\ IIR = "thre"
    BY <1>1, <1>2, <2>1, <2>2, BatchFacts DEF Room
  <2>3. CASE irq' = "uart_tx" /\ IIR = "busy"
    <3>1. busyDetect /\ ~busyDetect'
      BY <1>2, <1>3, <2>3
    <3> QED
      BY <1>1, <2>1, <2>3, <3>1, BatchFacts DEF TxInv, Room
  <2>4. CASE irq' # "uart_tx"
    BY <1>1, <1>3, <2>1, <2>4, BatchFacts DEF TxInv, Room
  <2> QED
    BY <1>1, <2>2, <2>3, <2>4
<1>7. Outgoing' = Outgoing /\ Char1' = Char1
  BY <1>1 DEF Outgoing, Char1
<1>8. OnTheWay'
  BY <1>7 DEF TxInv, OnTheWay
<1> QED
  BY <1>4, <1>5, <1>6, <1>8 DEF TxInv

LEMMA TxInvByte ==
  ASSUME TxInv, TxByte, UNCHANGED <<accepted, MarksInitialized, pc>>
  PROVE  TxInv'
<1> DEFINE x == buffer_front(tx_buffer)
           C == Contents(tx_buffer)
<1>1. /\ irq = "uart_tx" /\ irq' = "uart_tx" /\ sent < MAX_BATCH /\ sent' = sent + 1
      /\ ~buffer_is_empty(tx_buffer) /\ tx_buffer' = buffer_get(tx_buffer)
      /\ WriteTHR(x)
      /\ UNCHANGED <<dw_uart_initialized, rdi, thri, busyDetect, wire>>
  BY DEF TxByte
<1>2. /\ Len(txFifo) \in Nat /\ sent \in Nat /\ Len(txFifo) <= MAX_BATCH + sent
      /\ (busyDetect => Len(txFifo) <= sent)
  BY <1>1, TxFacts DEF TxInv, Room, TxTyped
<1>3. txFifo' = Append(txFifo, x)
  BY <1>1, <1>2, BatchFacts DEF WriteTHR
<1>4. dw_uart_initialized
  BY <1>1 DEF TxInv, TxModes, TxTyped, buffer_is_empty
<1>5. /\ tx_buffer' \in Ring(Char \cup {CR, NUL}) /\ Chained(tx_buffer)'
      /\ C # << >> /\ Contents(tx_buffer') = Tail(C) /\ x = Head(C)
  <2>1. tx_buffer \in Ring(Char \cup {CR, NUL}) /\ Chained(tx_buffer)
    BY DEF TxInv, TxTyped
  <2>2. /\ buffer_get(tx_buffer) \in Ring(Char \cup {CR, NUL}) /\ Chained(buffer_get(tx_buffer))
        /\ C # << >> /\ Contents(buffer_get(tx_buffer)) = Tail(C) /\ Head(C) = x
    BY <1>1, <2>1, GetPops
  <2> QED
    BY <1>1, <2>2 DEF Chained
<1> HIDE DEF x
<1>6. /\ wire \in Seq(Sendable) /\ txFifo \in Seq(Sendable) /\ C \in Seq(Sendable)
      /\ wire \o txFifo \in Seq(Sendable) /\ Outgoing = (wire \o txFifo) \o C
  BY TxFacts DEF Outgoing
<1> HIDE DEF C
<1>7. x \in Sendable /\ Tail(C) \in Seq(Sendable)
  BY <1>5, <1>6, HeadTailProperties
<1>8. Append(txFifo, x) \in Seq(Sendable) /\ Len(Append(txFifo, x)) = Len(txFifo) + 1
  BY <1>6, <1>7, AppendProperties
<1>9. wire \o Append(txFifo, x) = Append(wire \o txFifo, x)
  BY <1>6, <1>7, AppendLast
<1>10. Append(wire \o txFifo, x) \o Tail(C) = (wire \o txFifo) \o C
  <2> DEFINE s == wire \o txFifo
  <2>1. s \in Seq(Sendable) /\ C \in Seq(Sendable) /\ C # << >>
    BY <1>5, <1>6
  <2> HIDE DEF s
  <2>2. Append(s, Head(C)) \o Tail(C) = s \o C
    BY <2>1, ShiftKeeps
  <2> QED
    BY <1>5, <2>2 DEF s
<1>11. Outgoing' = Outgoing /\ Char1' = Char1
  BY <1>1, <1>3, <1>5, <1>6, <1>9, <1>10 DEF Outgoing, Char1
<1>12. TxTyped'
  BY <1>1, <1>2, <1>3, <1>5, <1>7, <1>8, BatchFacts DEF TxInv, TxTyped
<1>13. TxModes'
  BY <1>1, <1>4 DEF TxInv, TxModes, BeforeClient, BeforeUart
<1>14. Room'
  BY <1>1, <1>2, <1>3, <1>8, BatchFacts DEF Room
<1>15. OnTheWay'
  BY <1>11 DEF TxInv, OnTheWay
<1> QED
  BY <1>12, <1>13, <1>14, <1>15 DEF TxInv

LEMMA TxInvOff ==
  ASSUME TxInv, dw_uart_disable_tx_interrupt, UNCHANGED <<accepted, MarksInitialized, pc>>
  PROVE  TxInv'
<1> USE DEF dw_uart_disable_tx_interrupt
<1>1. TxTyped'
  BY DEF TxInv, TxTyped
<1>2. TxModes'
  BY DEF TxInv, TxModes
<1>3. Room'
  BY DEF TxInv, Room
<1>4. Outgoing' = Outgoing /\ Char1' = Char1
  BY DEF Outgoing, Char1
<1>5. OnTheWay'
  BY <1>4 DEF TxInv, OnTheWay
<1> QED
  BY <1>1, <1>2, <1>3, <1>5 DEF TxInv

(* putchar. *)
LEMMA CharFacts ==
  ASSUME GicInv, pc \in {"put", "put_c"}
  PROVE  Char1 \in Char /\ Char1 \in Sendable /\ Char1 # CR /\ CR \in Sendable
         /\ accepted \in Seq(Char)
<1>1. Char1 \in Char /\ accepted \in Seq(Char)
  BY BringupConstants DEF GicInv, GicTyped, Writing, Char1
<1> QED
  BY <1>1 DEF Char, CR, Sendable

LEMMA TxInvPolled ==
  ASSUME TxInv, GicInv, PutPolledCR \/ PutPolled
  PROVE  TxInv'
<1>1. pc \in {"put", "put_c"}
  BY DEF PutPolledCR, PutPolled, At
<1>2. /\ ~dw_uart_initialized /\ tx_buffer.count = 0 /\ thri = FALSE
      /\ irq = "none" /\ irq' = "none" /\ txFifo = << >>
      /\ UNCHANGED <<tx_buffer, dw_uart_initialized, MarksInitialized, sent, rdi, thri,
                     busyDetect, wire>>
  <2>1. dw_uart_initialized => pc # "put_c"
    BY DEF TxInv, TxModes
  <2> QED
    BY <2>1 DEF PutPolledCR, PutPolled, At, PolledRest, PutRest, RestGic, gicVars, THRE,
                TxInv, TxModes
<1>3. /\ Char1 \in Char /\ Char1 \in Sendable /\ Char1 # CR /\ CR \in Sendable
      /\ accepted \in Seq(Char)
  BY <1>1, CharFacts
<1>4. PICK x \in Sendable :
        /\ WriteTHR(x)
        /\ \/ /\ x = CR /\ pc' = "put_c" /\ accepted' = accepted /\ Char1 = "\n"
           \/ /\ x = Char1 /\ accepted' = Append(accepted, Char1)
              /\ pc' \in {"u_reset", "client"}
              /\ Char1 = "\n" => pc = "put_c"
  <2>1. CASE PutPolledCR
    BY <1>3, <2>1 DEF PutPolledCR, Goto
  <2>2. CASE PutPolled
    <3>1. Char1 = "\n" => pc = "put_c"
      BY <2>2 DEF PutPolled, At
    <3> QED
      BY <1>3, <2>2, <3>1 DEF PutPolled, Taken, Goto, AfterPut
  <2> QED
    BY <2>1, <2>2
<1>5. txFifo' = Append(txFifo, x) /\ Len(txFifo') = 1
  <2>1. Len(txFifo) = 0
    BY <1>2, EmptySeq
  <2> QED
    BY <1>2, <1>4, <2>1, TxFacts, BatchFacts, AppendProperties DEF WriteTHR
<1>6. /\ wire \in Seq(Sendable) /\ txFifo \in Seq(Sendable)
      /\ Outgoing = wire \o txFifo /\ Contents(tx_buffer) = << >>
      /\ Outgoing \in Seq(Sendable)
  BY <1>2, TxFacts
<1>7. Outgoing' = Append(Outgoing, x) /\ txFifo' \in Seq(Sendable)
  <2>1. wire \o Append(txFifo, x) = Append(wire \o txFifo, x) /\ wire \o txFifo \in Seq(Sendable)
        /\ Append(txFifo, x) \in Seq(Sendable)
    BY <1>6, AppendLast
  <2>2. Contents(tx_buffer)' = << >>
    BY <1>2, <1>6
  <2>3. wire \o txFifo' \in Seq(Sendable)
    BY <1>5, <2>1, ConcatProperties
  <2>4. (wire \o txFifo') \o << >> = wire \o txFifo'
    BY <2>3, ConcatEmptySeq
  <2> QED
    BY <1>2, <1>5, <1>6, <2>1, <2>2, <2>4 DEF Outgoing
<1>8. TxTyped'
  BY <1>2, <1>7 DEF TxInv, TxTyped
<1>9. TxModes'
  BY <1>2, <1>4, <1>5 DEF TxInv, TxModes
<1>10. Room'
  BY <1>2, <1>5, BatchFacts DEF Room
<1>11. Append(Outgoing, x) # << >> /\ Append(Outgoing, x)[Len(Append(Outgoing, x))] = x
  BY <1>6, LastOfAppend
<1>12. OnTheWay'
  <2>1. CASE x = CR /\ pc' = "put_c" /\ accepted' = accepted /\ Char1 = "\n"
    <3>1. Sent(Append(Outgoing, CR), accepted)
      BY <1>3, <1>6, SentReturn DEF TxInv, OnTheWay
    <3>2. Char1' = Char1
      BY <2>1 DEF Char1
    <3> QED
      BY <1>7, <1>11, <2>1, <3>1, <3>2 DEF OnTheWay
  <2>2. CASE /\ x = Char1 /\ accepted' = Append(accepted, Char1)
             /\ pc' \in {"u_reset", "client"}
             /\ Char1 = "\n" => pc = "put_c"
    <3>1. Char1 = "\n" => Outgoing # << >> /\ Outgoing[Len(Outgoing)] = CR
      BY <2>2 DEF TxInv, OnTheWay
    <3>2. Sent(Append(Outgoing, Char1), Append(accepted, Char1))
      BY <1>3, <1>6, <3>1, SentChar DEF TxInv, OnTheWay
    <3> QED
      BY <1>7, <2>2, <3>2 DEF OnTheWay
  <2> QED
    BY <1>4, <2>1, <2>2
<1> QED
  BY <1>8, <1>9, <1>10, <1>12 DEF TxInv

(* What Queued puts behind the ring's contents. *)
LEMMA QueuedFacts ==
  ASSUME TxTyped, NEW c \in Char
  PROVE  /\ Queued(c) \in Ring(Char \cup {CR, NUL}) /\ Chained(Queued(c))
         /\ \/ /\ ~Accepts(c) /\ Queued(c) = tx_buffer
            \/ /\ ~Accepts(c) /\ c = "\n"
               /\ Contents(Queued(c)) = Append(Contents(tx_buffer), CR)
            \/ /\ Accepts(c) /\ c # "\n"
               /\ Contents(Queued(c)) = Append(Contents(tx_buffer), c)
            \/ /\ Accepts(c) /\ c = "\n"
               /\ Contents(Queued(c)) = Append(Append(Contents(tx_buffer), CR), c)
<1> DEFINE B == Char \cup {CR, NUL}
           r == buffer_put(tx_buffer, CR)
<1>1. /\ tx_buffer \in Ring(B) /\ Chained(tx_buffer) /\ CR \in B /\ c \in B
      /\ tx_buffer.count \in Nat /\ RingSize \in Nat \ {0}
  BY BatchFacts DEF TxTyped, Ring
<1>2. CASE buffer_is_full(tx_buffer)
  <2>1. Queued(c) = tx_buffer
    BY <1>2 DEF Queued
  <2>2. ~Accepts(c)
    BY <1>1, <1>2 DEF Accepts, buffer_is_full
  <2> QED
    BY <1>1, <2>1, <2>2
<1>3. CASE ~buffer_is_full(tx_buffer) /\ c # "\n"
  <2>1. Queued(c) = buffer_put(tx_buffer, c)
    BY <1>3 DEF Queued
  <2>2. Accepts(c)
    BY <1>1, <1>3 DEF Accepts, buffer_is_full
  <2>3. /\ buffer_put(tx_buffer, c) \in Ring(B) /\ Chained(buffer_put(tx_buffer, c))
        /\ Contents(buffer_put(tx_buffer, c)) = Append(Contents(tx_buffer), c)
    BY <1>1, <1>3, PutAppends
  <2> QED
    BY <1>3, <2>1, <2>2, <2>3
<1>4. CASE ~buffer_is_full(tx_buffer) /\ c = "\n"
  <2>1. Queued(c) = buffer_put(r, c)
    BY <1>4 DEF Queued
  <2>2. /\ r \in Ring(B) /\ Chained(r) /\ Contents(r) = Append(Contents(tx_buffer), CR)
        /\ r.count = tx_buffer.count + 1
    BY <1>1, <1>4, PutAppends
  <2> HIDE DEF r
  <2>3. CASE buffer_is_full(r)
    <3>1. buffer_put(r, c) = r
      BY <2>3 DEF buffer_put
    <3>2. ~Accepts(c)
      BY <1>1, <1>4, <2>2, <2>3 DEF Accepts, buffer_is_full
    <3> QED
      BY <1>4, <2>1, <2>2, <3>1, <3>2
  <2>4. CASE ~buffer_is_full(r)
    <3>1. /\ buffer_put(r, c) \in Ring(B) /\ Chained(buffer_put(r, c))
          /\ Contents(buffer_put(r, c)) = Append(Contents(r), c)
      BY <1>1, <2>2, <2>4, PutAppends
    <3>2. Accepts(c)
      BY <1>1, <1>4, <2>2, <2>4 DEF Accepts, buffer_is_full
    <3> QED
      BY <1>4, <2>1, <2>2, <3>1, <3>2
  <2> QED
    BY <2>3, <2>4
<1> QED
  BY <1>2, <1>3, <1>4

LEMMA TxInvQueued ==
  ASSUME TxInv, GicInv, PutQueued
  PROVE  TxInv'
<1> DEFINE C == Contents(tx_buffer)
           c == Char1
<1>1. /\ pc = "put" /\ irq = "none" /\ irq' = "none" /\ dw_uart_initialized
      /\ tx_buffer' = Queued(c) /\ thri' = (thri \/ Queued(c) # tx_buffer)
      /\ UNCHANGED <<dw_uart_initialized, MarksInitialized, sent, rdi, busyDetect, txFifo,
                     wire>>
      /\ IF Accepts(c) THEN Taken ELSE UNCHANGED <<pc, accepted>>
  BY DEF PutQueued, At, dw_uart_putchar_nb, PutRest, RestGic, gicVars
<1>2. c \in Char /\ c \in Sendable /\ c # CR /\ CR \in Sendable /\ accepted \in Seq(Char)
  BY <1>1, CharFacts
<1>3. accepted # << >> /\ pc \notin BeforeClient
  BY <1>1 DEF TxInv, TxModes
<1>4. Accepts(c) => accepted' = Append(accepted, c) /\ pc' = "client"
  BY <1>1, <1>3 DEF Taken, Goto, AfterPut
<1> DEFINE W == wire \o txFifo
<1>5. /\ C \in Seq(Sendable) /\ W \in Seq(Sendable) /\ Outgoing = W \o C
      /\ Outgoing \in Seq(Sendable)
  BY TxFacts DEF Outgoing
<1>6. Outgoing' = W \o Contents(Queued(c))
  BY <1>1 DEF Outgoing
<1>7. /\ Queued(c) \in Ring(Char \cup {CR, NUL}) /\ Chained(Queued(c))
      /\ \/ ~Accepts(c) /\ Queued(c) = tx_buffer
         \/ ~Accepts(c) /\ c = "\n" /\ Contents(Queued(c)) = Append(C, CR)
         \/ Accepts(c) /\ c # "\n" /\ Contents(Queued(c)) = Append(C, c)
         \/ Accepts(c) /\ c = "\n" /\ Contents(Queued(c)) = Append(Append(C, CR), c)
  BY <1>2, QueuedFacts DEF TxInv
<1>8. Sent(Outgoing, accepted)
  BY DEF TxInv, OnTheWay
<1> HIDE DEF C, c, W
<1>9. Contents(Queued(c)) \in Seq(Sendable) /\ Sent(Outgoing', accepted')
  <2>1. CASE ~Accepts(c) /\ Queued(c) = tx_buffer
    <3>1. Contents(Queued(c)) = C /\ accepted' = accepted
      BY <1>1, <2>1 DEF C
    <3> QED
      BY <1>5, <1>6, <1>8, <3>1
  <2>2. CASE ~Accepts(c) /\ c = "\n" /\ Contents(Queued(c)) = Append(C, CR)
    <3>1. W \o Append(C, CR) = Append(W \o C, CR) /\ Append(C, CR) \in Seq(Sendable)
      BY <1>2, <1>5, AppendLast
    <3>2. Sent(Append(Outgoing, CR), accepted)
      BY <1>2, <1>5, <1>8, SentReturn
    <3> QED
      BY <1>1, <1>5, <1>6, <2>2, <3>1, <3>2
  <2>3. CASE Accepts(c) /\ c # "\n" /\ Contents(Queued(c)) = Append(C, c)
    <3>1. W \o Append(C, c) = Append(W \o C, c) /\ Append(C, c) \in Seq(Sendable)
      BY <1>2, <1>5, AppendLast
    <3>2. Sent(Append(Outgoing, c), Append(accepted, c))
      BY <1>2, <1>5, <1>8, <2>3, SentChar
    <3> QED
      BY <1>4, <1>5, <1>6, <2>3, <3>1, <3>2
  <2>4. CASE Accepts(c) /\ c = "\n" /\ Contents(Queued(c)) = Append(Append(C, CR), c)
    <3>1. W \o Append(C, CR) = Append(W \o C, CR) /\ Append(C, CR) \in Seq(Sendable)
      BY <1>2, <1>5, AppendLast
    <3>2. /\ W \o Append(Append(C, CR), c) = Append(W \o Append(C, CR), c)
          /\ Append(Append(C, CR), c) \in Seq(Sendable)
      BY <1>2, <1>5, <3>1, AppendLast
    <3> DEFINE O == Append(Outgoing, CR)
    <3>3. Sent(O, accepted) /\ O \in Seq(Sendable)
      BY <1>2, <1>5, <1>8, SentReturn, AppendProperties
    <3>4. O # << >> /\ O[Len(O)] = CR
      BY <1>2, <1>5, LastOfAppend
    <3> HIDE DEF O
    <3>5. Sent(Append(O, c), Append(accepted, c))
      BY <1>2, <3>3, <3>4, SentChar
    <3> QED
      BY <1>4, <1>5, <1>6, <2>4, <3>1, <3>2, <3>5 DEF O
  <2> QED
    BY <1>7, <2>1, <2>2, <2>3, <2>4
<1>10. TxTyped'
  <2>1. thri' \in BOOLEAN
    BY <1>1 DEF TxInv, TxTyped
  <2>2. Contents(tx_buffer)' \in Seq(Sendable) /\ Chained(tx_buffer)'
        /\ tx_buffer' \in Ring(Char \cup {CR, NUL})
    BY <1>1, <1>7, <1>9 DEF Chained
  <2> QED
    BY <1>1, <2>1, <2>2 DEF TxInv, TxTyped
<1>11. pc' \in {"put", "client"} /\ accepted' # << >>
  <2>1. CASE Accepts(c)
    BY <1>2, <1>4, <2>1, LastOfAppend
  <2>2. CASE ~Accepts(c)
    BY <1>1, <1>3, <2>2
  <2> QED
    BY <2>1, <2>2
<1>12. TxModes'
  BY <1>1, <1>11 DEF TxModes, BeforeClient, BeforeUart
<1>13. Room'
  BY <1>1 DEF TxInv, Room
<1>14. OnTheWay'
  BY <1>9, <1>11 DEF OnTheWay
<1> QED
  BY <1>10, <1>12, <1>13, <1>14 DEF TxInv

(* dw_uart_init. *)
LEMMA TxInvUartInit ==
  ASSUME TxInv, GicInv, dw_uart_init
  PROVE  TxInv'
<1> USE DEF UartStep, At, Goto, RestMain, RestGic, gicVars
<1>1. /\ pc \in BeforeClient /\ irq = "none" /\ irq' = "none"
      /\ UNCHANGED <<MarksInitialized, accepted, sent, wire>>
      /\ pc' \in BeforeClient \/ pc' = "client"
  BY DEF dw_uart_init, ResetRings, dw_uart_wait_idle, ClearIer, LineControl, ClearFifos,
         InstallUart, dw_uart_enable_rx_interrupt, EnableUart, MarkInitialized, uartVars,
         deviceVars, BeforeClient, BeforeUart
<1>2. /\ dw_uart_initialized = FALSE /\ tx_buffer.count = 0 /\ thri = FALSE
      /\ Len(txFifo) <= 1 /\ Contents(tx_buffer) = << >> /\ Len(txFifo) \in Nat
      /\ pc \in {"u_ier", "u_line", "u_fcr"} => txFifo = << >>
  BY <1>1, TxFacts DEF TxInv, TxModes, TxTyped
<1>3. CASE ResetRings
  <2>1. /\ tx_buffer' = [tx_buffer EXCEPT !.head = 0, !.tail = 0, !.count = 0]
        /\ pc' = "u_idle"
        /\ UNCHANGED <<dw_uart_initialized, rdi, thri, busyDetect, txFifo>>
    BY <1>3 DEF ResetRings, deviceVars
  <2>2. tx_buffer' = [buffer |-> tx_buffer.buffer, head |-> 0, tail |-> 0, count |-> 0]
    BY <2>1 DEF TxInv, TxTyped, Ring
  <2>3. Contents(tx_buffer') = << >>
    BY <2>2, EmptyRingFacts
  <2>4. TxTyped'
    <3>1. RingSize \in Nat \ {0} /\ tx_buffer.buffer \in [Slot -> Char \cup {CR, NUL}]
      BY BatchFacts DEF TxInv, TxTyped, Ring
    <3>2. tx_buffer' \in Ring(Char \cup {CR, NUL}) /\ Chained(tx_buffer)'
      BY <2>2, <3>1 DEF Ring, Slot, Chained
    <3>3. Contents(tx_buffer)' \in Seq(Sendable)
      BY <2>3, EmptySeq
    <3> QED
      BY <1>1, <2>1, <3>2, <3>3 DEF TxInv, TxTyped
  <2>5. TxModes'
    BY <1>2, <2>1, <2>2 DEF TxModes
  <2>6. Room'
    BY <1>1, <2>1 DEF TxInv, Room
  <2>7. Outgoing' = Outgoing
    BY <1>1, <1>2, <2>1, <2>3 DEF Outgoing
  <2>8. OnTheWay'
    BY <1>1, <2>1, <2>7 DEF TxInv, OnTheWay
  <2> QED
    BY <2>4, <2>5, <2>6, <2>8 DEF TxInv
<1>4. CASE LineControl
  <2>1. /\ pc' = "u_fcr" /\ pc = "u_line" /\ busyDetect' \in BOOLEAN
        /\ UNCHANGED <<tx_buffer, dw_uart_initialized, rdi, thri, txFifo>>
    <3>1. (Typing > 0) \in BOOLEAN
      OBVIOUS
    <3>2. busyDetect' \in {FALSE, Typing > 0}
      BY <1>4 DEF LineControl
    <3>3. busyDetect' \in BOOLEAN
      BY <3>1, <3>2, Zenon
    <3> QED
      BY <1>4, <3>3 DEF LineControl
  <2>2. TxTyped'
    BY <1>1, <2>1 DEF TxInv, TxTyped
  <2>3. TxModes'
    BY <1>2, <2>1 DEF TxModes
  <2>4. Room'
    BY <1>1, <1>2, <2>1, BatchFacts DEF Room
  <2>5. Outgoing' = Outgoing
    BY <1>1, <2>1 DEF Outgoing
  <2>6. OnTheWay'
    BY <1>1, <2>1, <2>5 DEF TxInv, OnTheWay
  <2> QED
    BY <2>2, <2>3, <2>4, <2>6 DEF TxInv
<1>5. CASE MarkInitialized
  <2>1. /\ pc = "u_mark" /\ pc' = "client" /\ dw_uart_initialized' = MarksInitialized
        /\ UNCHANGED <<tx_buffer, rdi, thri, busyDetect, txFifo>>
    BY <1>5 DEF MarkInitialized, deviceVars
  <2>2. accepted # << >>
    BY <2>1 DEF GicInv, UartOff, AfterFirst, Label
  <2>3. TxTyped'
    BY <1>1, <2>1 DEF TxInv, TxTyped
  <2>4. TxModes'
    BY <1>1, <1>2, <2>1, <2>2 DEF TxModes, BeforeClient, BeforeUart
  <2>5. Room'
    BY <1>1, <2>1 DEF TxInv, Room
  <2>6. Outgoing' = Outgoing
    BY <1>1, <2>1 DEF Outgoing
  <2>7. OnTheWay'
    BY <1>1, <2>1, <2>6 DEF TxInv, OnTheWay
  <2> QED
    BY <2>3, <2>4, <2>5, <2>7 DEF TxInv
<1>6. CASE \/ dw_uart_wait_idle \/ ClearIer \/ ClearFifos
           \/ InstallUart \/ dw_uart_enable_rx_interrupt \/ EnableUart
  <2>1. UNCHANGED txVars /\ rdi' \in BOOLEAN
    BY <1>1, <1>2, <1>6 DEF txVars, dw_uart_wait_idle, ClearIer, ClearFifos, InstallUart,
       dw_uart_enable_rx_interrupt, EnableUart, uartVars, deviceVars, TxInv, TxTyped
  <2>2. pc' \in BeforeClient /\ (pc' \in {"u_ier", "u_line", "u_fcr"} => txFifo = << >>)
    BY <1>1, <1>2, <1>6 DEF dw_uart_wait_idle, ClearIer, ClearFifos, InstallUart,
       dw_uart_enable_rx_interrupt, EnableUart, THRE, BeforeClient, BeforeUart
  <2> QED
    BY <1>1, <2>1, <2>2, TxQuiet DEF Move
<1> QED
  BY <1>3, <1>4, <1>5, <1>6 DEF dw_uart_init

(* Everything else leaves what is on its way alone. *)
OtherMain == \/ InitGic \/ timer_init \/ timer_enable \/ enable_interrupts
             \/ Client \/ Command \/ PowerUp \/ rknpu_init \/ dw_uart_getchar

LEMMA OtherMoves ==
  ASSUME GicInv, OtherMain \/ Interrupt \/ ((Dispatch \/ Eoi) /\ pc' = pc)
  PROVE  Move /\ (irq' = "uart_tx" => irq = "uart_tx")
<1> USE DEF At, Goto
<1>1. CASE InitGic \/ timer_init \/ timer_enable \/ enable_interrupts
  BY <1>1 DEF InitGic, gicv3_init, timer_init, timer_enable, enable_interrupts, RestGic,
     gicVars, Move, BeforeClient, BeforeUart
<1>2. CASE Client
  <2>1. pc' \in {"put", "get", "key", "npu_clear", "idle"} /\ irq' = irq
    <3>1. CASE plan = "write"
      BY <1>2, <3>1 DEF Client, RestGic, gicVars
    <3>2. CASE plan = "listen"
      BY <1>2, <3>2 DEF Client, RestGic, gicVars
    <3>3. CASE plan = "console"
      BY <1>2, <3>3 DEF Client, RestGic, gicVars
    <3>4. CASE plan = "npu"
      BY <1>2, <3>4 DEF Client, RestGic, gicVars
    <3>5. CASE plan = "clocks"
      BY <1>2, <3>5 DEF Client, RestGic, gicVars
    <3> QED
      BY <3>1, <3>2, <3>3, <3>4, <3>5 DEF GicInv, GicTyped, Plan
  <2> QED
    BY <2>1 DEF Move, BeforeClient, BeforeUart
<1>3. CASE Command
  BY <1>3 DEF Command, RestGic, gicVars, Move, BeforeClient, BeforeUart
<1>4. CASE PowerUp
  BY <1>4 DEF PowerUp, gicVars, mainVars, Move
<1>5. CASE rknpu_init
  BY <1>5 DEF rknpu_init, NpuClear, NpuInstall, NpuGic, NpuStep, RestGic, gicVars, Move,
     BeforeClient, BeforeUart
<1>6. CASE dw_uart_getchar
  <2>1. irq' = irq
    BY <1>6 DEF dw_uart_getchar, GetQueued, Wfi, GetPolledWait, GetPolledRead, GetRest,
       RestGic, gicVars
  <2>2. CASE GetPolledWait
    BY <2>1, <2>2 DEF GetPolledWait, Move
  <2>3. CASE GetQueued \/ Wfi \/ GetPolledRead
    <3>1. pc' \in {"wfi", "key", "asleep"}
      BY <2>3 DEF GetQueued, Wfi, GetPolledRead
    <3> QED
      BY <2>1, <3>1 DEF Move, BeforeClient, BeforeUart
  <2> QED
    BY <1>6, <2>2, <2>3 DEF dw_uart_getchar
<1>7. CASE Interrupt
  <2>1. (pc' = "get" \/ pc' = pc) /\ irq' = "dispatch"
    BY <1>7 DEF Interrupt, TakeIrq
  <2> QED
    BY <2>1 DEF Move, BeforeClient, BeforeUart
<1>8. CASE Dispatch /\ pc' = pc
  <2>1. irq' # "uart_tx"
    BY <1>8 DEF Dispatch, GicInv, GicTyped, NoHandler
  <2> QED
    BY <1>8, <2>1 DEF Move
<1>9. CASE Eoi /\ pc' = pc
  BY <1>9 DEF Eoi, Move
<1> QED
  BY <1>1, <1>2, <1>3, <1>4, <1>5, <1>6, <1>7, <1>8, <1>9 DEF OtherMain

LEMMA OtherLeavesTx ==
  ASSUME OtherMain \/ Interrupt
  PROVE  UNCHANGED <<txVars, rdi>>
<1> USE DEF RestMain, txVars, uartVars, deviceVars
<1>1. CASE InitGic \/ timer_init \/ timer_enable \/ enable_interrupts \/ Client \/ Command
  BY <1>1 DEF InitGic, timer_init, timer_enable, enable_interrupts, Client, Command
<1>2. CASE PowerUp \/ rknpu_init \/ Interrupt
  BY <1>2 DEF PowerUp, mainVars, rknpu_init, NpuClear, NpuInstall, NpuGic, NpuStep, Interrupt
<1>3. CASE dw_uart_getchar
  BY <1>3 DEF dw_uart_getchar, GetQueued, dw_uart_getchar_nb, Wfi, GetPolledWait,
     GetPolledRead, GetRest
<1> QED
  BY <1>1, <1>2, <1>3 DEF OtherMain

LEMMA TxInvDevices ==
  ASSUME TxInv, Device \/ TimerTick
  PROVE  TxInv'
<1>1. CASE TimerTick \/ (DomainFollows /\ UNCHANGED <<gicVars, uartVars, mainVars>>)
  <2>1. UNCHANGED txVars /\ rdi' = rdi /\ pc' = pc /\ irq' = irq
    BY <1>1 DEF TimerTick, txVars, uartVars, deviceVars, mainVars, gicVars
  <2> QED
    BY <2>1, TxQuiet DEF Move, TxInv, TxTyped
<1>2. CASE TxShift /\ UNCHANGED <<gicVars, mainVars>>
  BY <1>2, TxInvShift DEF gicVars, mainVars
<1>3. CASE RxArrive /\ UNCHANGED <<gicVars, mainVars>>
  <2>1. UNCHANGED txVars /\ rdi' = rdi /\ pc' = pc /\ irq' = irq
    BY <1>3 DEF RxArrive, txVars, mainVars, gicVars
  <2> QED
    BY <2>1, TxQuiet DEF Move, TxInv, TxTyped
<1> QED
  BY <1>1, <1>2, <1>3 DEF Device

LEMMA TxInvHandler ==
  ASSUME TxInv, GicInv, Handler
  PROVE  TxInv'
<1> USE DEF mainVars
<1>1. CASE (Dispatch \/ Eoi) /\ UNCHANGED <<uartVars, mainVars>>
  <2>1. UNCHANGED txVars /\ rdi' = rdi /\ pc' = pc
    BY <1>1 DEF txVars, uartVars, deviceVars
  <2>2. Move /\ (irq' = "uart_tx" => irq = "uart_tx")
    BY <1>1, <2>1, OtherMoves
  <2> QED
    BY <2>1, <2>2, TxQuiet DEF TxInv, TxTyped
<1>2. CASE UartHandler /\ UNCHANGED mainVars
  <2>1. CASE ReadIir
    BY <1>2, <2>1, TxInvReadIir
  <2>2. CASE TxByte
    BY <1>2, <2>2, TxInvByte
  <2>3. CASE dw_uart_disable_tx_interrupt
    BY <1>2, <2>3, TxInvOff
  <2>4. CASE RxByte \/ RxEnd \/ TxEnd
    <3>1. UNCHANGED txVars /\ rdi' = rdi /\ pc' = pc /\ (irq' = "uart_tx" => irq = "uart_tx")
      BY <1>2, <2>4 DEF RxByte, RxEnd, TxEnd, txVars, uartVars, deviceVars
    <3> QED
      BY <3>1, TxQuiet DEF Move, TxInv, TxTyped
  <2> QED
    BY <1>2, <2>1, <2>2, <2>3, <2>4 DEF UartHandler
<1>3. CASE timer_handler
  <2>1. UNCHANGED txVars /\ rdi' = rdi /\ pc' = pc /\ irq' # "uart_tx"
    BY <1>3 DEF timer_handler, txVars, uartVars, deviceVars
  <2> QED
    BY <2>1, TxQuiet DEF Move, TxInv, TxTyped
<1> QED
  BY <1>1, <1>2, <1>3 DEF Handler

LEMMA TxInvStep == GicInv /\ TxInv /\ [Next]_vars => TxInv'
<1> SUFFICES ASSUME GicInv, TxInv, [Next]_vars PROVE TxInv'
  OBVIOUS
<1>1. CASE dw_uart_init
  BY <1>1, TxInvUartInit
<1>2. CASE dw_uart_putchar
  BY <1>2, TxInvPolled, TxInvQueued DEF dw_uart_putchar
<1>3. CASE OtherMain \/ Interrupt
  <2>1. UNCHANGED txVars /\ rdi' \in BOOLEAN
    BY <1>3, OtherLeavesTx DEF TxInv, TxTyped
  <2>3. Move /\ (irq' = "uart_tx" => irq = "uart_tx")
    BY <1>3, OtherMoves
  <2> QED
    BY <2>1, <2>3, TxQuiet
<1>4. CASE Handler
  BY <1>4, TxInvHandler
<1>5. CASE Device \/ TimerTick
  BY <1>5, TxInvDevices
<1>6. CASE UNCHANGED vars
  <2>1. UNCHANGED txVars /\ rdi' \in BOOLEAN /\ pc' = pc /\ irq' = irq
    BY <1>6 DEF vars, mainVars, gicVars, uartVars, deviceVars, txVars, TxInv, TxTyped
  <2> QED
    BY <2>1, TxQuiet DEF Move
<1> QED
  BY <1>1, <1>2, <1>3, <1>4, <1>5, <1>6 DEF Next, Main, OtherMain

-----------------------------------------------------------------------------
(* The way in. *)

RxTyped ==
  /\ rx_buffer \in Ring(0 .. MaxTyped) /\ Chained(rx_buffer)
  /\ rxFifo \in Seq(1 .. MaxTyped) /\ Len(rxFifo) <= RxDepth
  /\ typed \in 0 .. MaxTyped /\ lost \subseteq 1 .. MaxTyped
  /\ got \in Seq(0 .. MaxTyped)

(* The ring stays empty until the handler may run, and no client has read  *)
(* before dw_uart_init is through.                                         *)
RxModes ==
  /\ "uart" \notin intEnabled => rx_buffer.count = 0
  /\ pc \in BeforeClient \/ accepted = << >> => got = << >>

RxWhere ==
  /\ Accounted(got, Contents(rx_buffer), rxFifo, lost, typed)
  /\ dw_uart_initialized => InSequence(got, Contents(rx_buffer), rxFifo)

RxInv == RxTyped /\ RxModes /\ RxWhere

rxVars == <<rx_buffer, rxFifo, typed, lost, got, accepted, dw_uart_initialized>>

LEMMA RxFacts ==
  ASSUME RxTyped
  PROVE  /\ got \in Seq(Nat) /\ Contents(rx_buffer) \in Seq(Nat) /\ rxFifo \in Seq(Nat)
         /\ typed \in Nat /\ Len(rxFifo) \in Nat
         /\ rxFifo # << >> =>
              Head(rxFifo) \in 1 .. MaxTyped /\ Tail(rxFifo) \in Seq(1 .. MaxTyped)
                /\ Len(Tail(rxFifo)) <= RxDepth
         /\ rx_buffer.count = 0 => Contents(rx_buffer) = << >>
<1>1. MaxTyped \in Nat /\ RxDepth \in Nat
  BY BatchFacts
<1>2. Contents(rx_buffer) \in Seq(0 .. MaxTyped)
  BY ContentsIsSeq DEF RxTyped
<1>3. got \in Seq(0 .. MaxTyped) /\ rxFifo \in Seq(1 .. MaxTyped) /\ Len(rxFifo) <= RxDepth
  BY DEF RxTyped
<1>4. \A s \in Seq(0 .. MaxTyped) : s \in Seq(Nat)
  BY <1>1
<1>5. \A s \in Seq(1 .. MaxTyped) : s \in Seq(Nat)
  BY <1>1
<1>6. rxFifo # << >> =>
        /\ Head(rxFifo) \in 1 .. MaxTyped /\ Tail(rxFifo) \in Seq(1 .. MaxTyped)
        /\ Len(Tail(rxFifo)) = Len(rxFifo) - 1
  BY <1>3, HeadTailProperties
<1> QED
  BY <1>1, <1>2, <1>3, <1>4, <1>5, <1>6, EmptyRingFacts, LenProperties DEF RxTyped

LEMMA RxInvInit == Init => RxInv
<1> SUFFICES ASSUME Init PROVE RxInv
  OBVIOUS
<1> USE DEF Init, UartReset
<1>1. RingSize \in Nat \ {0} /\ MaxTyped \in Nat /\ RxDepth \in Nat
  BY BatchFacts
<1>2. rx_buffer = [buffer |-> [k \in Slot |-> Junk], head |-> 0, tail |-> 0, count |-> 0]
  BY DEF EmptyRing
<1>3. Contents(rx_buffer) = << >>
  BY <1>2, EmptyRingFacts
<1>4. RxTyped
  <2>1. rx_buffer \in Ring(0 .. MaxTyped) /\ Chained(rx_buffer)
    BY <1>1, <1>2 DEF Ring, Slot, Junk, Chained
  <2>2. got \in Seq(0 .. MaxTyped) /\ rxFifo \in Seq(1 .. MaxTyped) /\ Len(rxFifo) = 0
    BY EmptySeq
  <2> QED
    BY <1>1, <2>1, <2>2 DEF RxTyped
<1>5. RxModes
  BY <1>2 DEF RxModes
<1>6. RxWhere
  <2>1. Accounted(<< >>, << >>, << >>, {}, 0)
    BY SetOfEmpty DEF Accounted, Known, AllBelow
  <2> QED
    BY <1>3, <2>1 DEF RxWhere
<1> QED
  BY <1>4, <1>5, <1>6 DEF RxInv

LEMMA RxQuiet ==
  ASSUME RxInv, UNCHANGED rxVars, Move \/ got = << >>, intEnabled \subseteq intEnabled'
  PROVE  RxInv'
<1> USE DEF RxInv, rxVars
<1>1. RxTyped'
  BY DEF RxTyped, Chained
<1>2. RxModes'
  BY DEF RxModes, Move, BeforeClient, BeforeUart
<1>3. RxWhere'
  BY DEF RxWhere
<1> QED
  BY <1>1, <1>2, <1>3

(* A byte arrives. *)
LEMMA RxInvArrive ==
  ASSUME RxInv, RxArrive, UNCHANGED <<got, accepted, pc, intEnabled>>
  PROVE  RxInv'
<1> DEFINE C == Contents(rx_buffer)
           n == typed + 1
<1>1. /\ typed < MaxTyped /\ typed' = n
      /\ UNCHANGED <<rx_buffer, dw_uart_initialized>>
      /\ \/ Len(rxFifo) < RxDepth /\ rxFifo' = Append(rxFifo, n) /\ lost' = lost
         \/ rxFifo' = rxFifo /\ lost' = lost \cup {n}
  BY DEF RxArrive
<1>2. /\ got \in Seq(Nat) /\ C \in Seq(Nat) /\ rxFifo \in Seq(Nat) /\ typed \in Nat
      /\ Len(rxFifo) \in Nat
  BY RxFacts DEF RxInv
<1>3. Accounted(got, C, rxFifo, lost, typed)
  BY DEF RxInv, RxWhere
<1>4. C' = C
  BY <1>1
<1> HIDE DEF C
<1>5. /\ Accounted(got, C, Append(rxFifo, n), lost, n)
      /\ Accounted(got, C, rxFifo, lost \cup {n}, n)
      /\ InSequence(got, C, rxFifo) => InSequence(got, C, Append(rxFifo, n))
  BY <1>2, <1>3, ArriveAccounted
<1>6. n \in 1 .. MaxTyped
  BY <1>1, <1>2, BatchFacts
<1>7. RxTyped'
  <2>1. Append(rxFifo, n) \in Seq(1 .. MaxTyped) /\ Len(Append(rxFifo, n)) = Len(rxFifo) + 1
    BY <1>6, AppendProperties DEF RxInv, RxTyped
  <2> HIDE DEF n
  <2> QED
    <3>1. rxFifo' \in Seq(1 .. MaxTyped) /\ Len(rxFifo') <= RxDepth
      <4>1. CASE Len(rxFifo) < RxDepth /\ rxFifo' = Append(rxFifo, n)
        <5>1. Len(rxFifo') <= RxDepth
          BY <1>2, <2>1, <4>1, BatchFacts
        <5> QED
          BY <2>1, <4>1, <5>1
      <4>2. CASE rxFifo' = rxFifo
        BY <4>2 DEF RxInv, RxTyped
      <4> QED
        BY <1>1, <4>1, <4>2
    <3>2. typed' \in 0 .. MaxTyped
      BY <1>1, <1>6, BatchFacts
    <3>3. lost' \subseteq 1 .. MaxTyped
      <4>1. lost \subseteq 1 .. MaxTyped
        BY DEF RxInv, RxTyped
      <4>2. lost' \subseteq lost \cup {n}
        BY <1>1
      <4> QED
        BY <1>6, <4>1, <4>2
    <3> QED
      BY <1>1, <3>1, <3>2, <3>3 DEF RxInv, RxTyped, Chained
<1>8. RxModes'
  BY <1>1 DEF RxInv, RxModes
<1>9. RxWhere'
  <2>1. Accounted(got, C, rxFifo, lost, typed)'
    BY <1>1, <1>4, <1>5
  <2>2. dw_uart_initialized => InSequence(got, C, rxFifo)
    BY DEF RxInv, RxWhere, C
  <2>3. (dw_uart_initialized => InSequence(got, C, rxFifo))'
    BY <1>1, <1>4, <1>5, <2>2
  <2> QED
    BY <2>1, <2>3 DEF RxWhere, C
<1> QED
  BY <1>7, <1>8, <1>9 DEF RxInv

(* The receive loop of the handler. *)
LEMMA RxInvByte ==
  ASSUME RxInv, GicInv, RxByte, UNCHANGED <<got, accepted, pc, intEnabled>>
  PROVE  RxInv'
<1> DEFINE C == Contents(rx_buffer)
           h == Head(rxFifo)
           t == Tail(rxFifo)
<1>1. /\ irq = "uart_rx" /\ rxFifo # << >> /\ rxFifo' = t
      /\ rx_buffer' = buffer_put(rx_buffer, h)
      /\ lost' = IF buffer_is_full(rx_buffer) THEN lost \cup {h} ELSE lost
      /\ UNCHANGED <<dw_uart_initialized, typed>>
  BY DEF RxByte, DataReady
<1>2. /\ got \in Seq(Nat) /\ C \in Seq(Nat) /\ rxFifo \in Seq(Nat) /\ typed \in Nat
      /\ h \in 1 .. MaxTyped /\ t \in Seq(1 .. MaxTyped) /\ Len(t) <= RxDepth
  BY <1>1, RxFacts DEF RxInv
<1>3. /\ Accounted(got, C, rxFifo, lost, typed)
      /\ dw_uart_initialized => InSequence(got, C, rxFifo)
  BY DEF RxInv, RxWhere
<1>4. "uart" \in intEnabled
  BY <1>1 DEF GicInv, Served, InUart
<1>5. RxModes'
  BY <1>4 DEF RxInv, RxModes
<1>6. rx_buffer \in Ring(0 .. MaxTyped) /\ Chained(rx_buffer)
  BY DEF RxInv, RxTyped
<1> HIDE DEF C, h, t
<1>7. /\ Accounted(got, Append(C, h), t, lost, typed)
      /\ Accounted(got, C, t, lost \cup {h}, typed)
      /\ InSequence(got, C, rxFifo) =>
           InSequence(got, Append(C, h), t) /\ InSequence(got, C, t)
  <2>1. /\ Accounted(got, Append(C, Head(rxFifo)), Tail(rxFifo), lost, typed)
        /\ Accounted(got, C, Tail(rxFifo), lost \cup {Head(rxFifo)}, typed)
        /\ InSequence(got, C, rxFifo) =>
             /\ InSequence(got, Append(C, Head(rxFifo)), Tail(rxFifo))
             /\ InSequence(got, C, Tail(rxFifo))
    BY <1>1, <1>2, <1>3, HeadAccounted
  <2> QED
    BY <2>1 DEF h, t
<1>8. CASE buffer_is_full(rx_buffer)
  <2>1. rx_buffer' = rx_buffer /\ lost' = lost \cup {h}
    BY <1>1, <1>8 DEF buffer_put
  <2>2. RxTyped'
    BY <1>1, <1>2, <2>1 DEF RxInv, RxTyped, Chained
  <2>3. Contents(rx_buffer)' = C
    BY <2>1 DEF C
  <2>4. RxWhere'
    BY <1>1, <1>3, <1>7, <2>1, <2>3 DEF RxWhere
  <2> QED
    BY <1>5, <2>2, <2>4 DEF RxInv
<1>9. CASE ~buffer_is_full(rx_buffer)
  <2>1. h \in 0 .. MaxTyped /\ lost' = lost
    BY <1>1, <1>2, <1>9
  <2>2. /\ buffer_put(rx_buffer, h) \in Ring(0 .. MaxTyped)
        /\ Chained(buffer_put(rx_buffer, h))
        /\ Contents(buffer_put(rx_buffer, h)) = Append(Contents(rx_buffer), h)
    BY <1>6, <1>9, <2>1, PutAppends
  <2>3. rx_buffer' \in Ring(0 .. MaxTyped) /\ Chained(rx_buffer)'
        /\ Contents(rx_buffer)' = Append(C, h)
    BY <1>1, <2>2 DEF Chained, C
  <2>4. RxTyped'
    BY <1>1, <1>2, <2>1, <2>3 DEF RxInv, RxTyped
  <2>5. RxWhere'
    BY <1>1, <1>3, <1>7, <2>1, <2>3 DEF RxWhere
  <2> QED
    BY <1>5, <2>4, <2>5 DEF RxInv
<1> QED
  BY <1>8, <1>9

(* getchar. *)
LEMMA RxInvQueued ==
  ASSUME RxInv, GicInv, GetQueued
  PROVE  RxInv'
<1> DEFINE C == Contents(rx_buffer)
           x == buffer_front(rx_buffer)
<1>0. UNCHANGED <<accepted, intEnabled>>
  BY DEF GetQueued, GetRest, RestGic, gicVars
<1>1. CASE buffer_is_empty(rx_buffer)
  <2>1. UNCHANGED rxVars /\ pc' = "wfi"
    BY <1>0, <1>1 DEF GetQueued, rxVars, uartVars, deviceVars, Goto
  <2>2. Move
    BY <2>1 DEF Move, BeforeClient, BeforeUart
  <2> QED
    BY <1>0, <2>1, <2>2, RxQuiet
<1>2. CASE ~buffer_is_empty(rx_buffer)
  <2>1. /\ pc = "get" /\ dw_uart_initialized /\ pc' = "key"
        /\ rx_buffer' = buffer_get(rx_buffer) /\ got' = Append(got, x)
        /\ UNCHANGED <<dw_uart_initialized, rxFifo, typed, lost>>
    BY <1>2 DEF GetQueued, At, Goto, dw_uart_getchar_nb, deviceVars
  <2>2. rx_buffer \in Ring(0 .. MaxTyped) /\ Chained(rx_buffer)
    BY DEF RxInv, RxTyped
  <2>3. /\ buffer_get(rx_buffer) \in Ring(0 .. MaxTyped) /\ Chained(buffer_get(rx_buffer))
        /\ C \in Seq(0 .. MaxTyped) /\ C # << >>
        /\ Contents(buffer_get(rx_buffer)) = Tail(C) /\ Head(C) = x
    BY <1>2, <2>2, GetPops
  <2>4. rx_buffer' \in Ring(0 .. MaxTyped) /\ Chained(rx_buffer)' /\ Contents(rx_buffer)' = Tail(C)
    BY <2>1, <2>3 DEF Chained
  <2>5. /\ got \in Seq(Nat) /\ C \in Seq(Nat) /\ rxFifo \in Seq(Nat) /\ typed \in Nat
    BY RxFacts DEF RxInv
  <2>6. /\ Accounted(got, C, rxFifo, lost, typed)
        /\ InSequence(got, C, rxFifo)
    BY <2>1 DEF RxInv, RxWhere
  <2> HIDE DEF C, x
  <2>7. /\ Accounted(Append(got, Head(C)), Tail(C), rxFifo, lost, typed)
        /\ InSequence(Append(got, Head(C)), Tail(C), rxFifo)
    BY <2>3, <2>5, <2>6, ReadAccounted
  <2>8. x \in 0 .. MaxTyped
    BY <2>3, HeadTailProperties
  <2>9. RxTyped'
    <3>1. Append(got, x) \in Seq(0 .. MaxTyped)
      BY <2>8, AppendProperties DEF RxInv, RxTyped
    <3> QED
      BY <2>1, <2>4, <3>1 DEF RxInv, RxTyped
  <2>10. rx_buffer.count # 0 /\ rx_buffer.count' \in Nat /\ "uart" \in intEnabled
    BY <1>2, <2>4 DEF buffer_is_empty, RxInv, RxModes, Ring
  <2>11. accepted # << >>
    BY <2>1 DEF GicInv, UartOff, AfterFirst, Label
  <2>12. RxModes'
    BY <1>0, <2>1, <2>10, <2>11 DEF RxModes, BeforeClient, BeforeUart
  <2>13. RxWhere'
    BY <2>1, <2>3, <2>4, <2>7 DEF RxWhere
  <2> QED
    BY <2>9, <2>12, <2>13 DEF RxInv
<1> QED
  BY <1>1, <1>2

LEMMA RxInvPolledRead ==
  ASSUME RxInv, TxInv, GicInv, GetPolledRead
  PROVE  RxInv'
<1> DEFINE C == Contents(rx_buffer)
           h == Head(rxFifo)
           t == Tail(rxFifo)
<1>1. /\ pc = "get_rbr" /\ pc' = "key"
      /\ got' = Append(got, IF rxFifo # << >> THEN h ELSE Junk)
      /\ rxFifo' = IF rxFifo # << >> THEN t ELSE rxFifo
      /\ UNCHANGED <<rx_buffer, dw_uart_initialized, typed, lost, accepted, intEnabled>>
  BY DEF GetPolledRead, At, Goto, GetRest, RestGic, gicVars, DataReady
<1>2. ~dw_uart_initialized'
  BY <1>1 DEF TxInv, TxModes
<1>3. accepted # << >>
  BY <1>1 DEF GicInv, UartOff, AfterFirst, Label
<1>4. RxModes'
  BY <1>1, <1>3 DEF RxInv, RxModes, BeforeClient, BeforeUart
<1>5. /\ got \in Seq(Nat) /\ C \in Seq(Nat) /\ rxFifo \in Seq(Nat) /\ typed \in Nat
      /\ rxFifo # << >> => h \in 1 .. MaxTyped /\ t \in Seq(1 .. MaxTyped) /\ Len(t) <= RxDepth
  BY RxFacts DEF RxInv
<1>6. Accounted(got, C, rxFifo, lost, typed) /\ C' = C
  BY <1>1 DEF RxInv, RxWhere
<1> HIDE DEF C
<1>7. CASE rxFifo # << >>
  <2>1. Accounted(Append(got, Head(rxFifo)), C, Tail(rxFifo), lost, typed)
    BY <1>5, <1>6, <1>7, HeadAccounted
  <2>2. Append(got, h) \in Seq(0 .. MaxTyped)
    <3>1. h \in 0 .. MaxTyped /\ got \in Seq(0 .. MaxTyped)
      BY <1>5, <1>7, BatchFacts DEF RxInv, RxTyped
    <3> HIDE DEF h
    <3> QED
      BY <3>1, AppendProperties
  <2>3. got' = Append(got, h) /\ rxFifo' = t
    BY <1>1, <1>7
  <2>4. RxTyped'
    BY <1>1, <1>5, <1>7, <2>2, <2>3 DEF RxInv, RxTyped, Chained
  <2>5. RxWhere'
    BY <1>1, <1>2, <1>6, <2>1, <2>3 DEF RxWhere, C
  <2> QED
    BY <1>4, <2>4, <2>5 DEF RxInv
<1>8. CASE rxFifo = << >>
  <2>1. Accounted(Append(got, Junk), C, rxFifo, lost, typed)
    BY <1>5, <1>6, JunkAccounted
  <2>2. Append(got, Junk) \in Seq(0 .. MaxTyped)
    <3>1. Junk \in 0 .. MaxTyped /\ got \in Seq(0 .. MaxTyped)
      BY BatchFacts DEF RxInv, RxTyped, Junk
    <3> QED
      BY <3>1, AppendProperties
  <2>3. got' = Append(got, Junk) /\ rxFifo' = rxFifo
    BY <1>1, <1>8
  <2>4. RxTyped'
    BY <1>1, <2>2, <2>3 DEF RxInv, RxTyped, Chained
  <2>5. RxWhere'
    BY <1>1, <1>2, <1>6, <2>1, <2>3 DEF RxWhere, C
  <2> QED
    BY <1>4, <2>4, <2>5 DEF RxInv
<1> QED
  BY <1>7, <1>8

LEMMA RxInvGet ==
  ASSUME RxInv, TxInv, GicInv, dw_uart_getchar
  PROVE  RxInv'
<1>1. CASE Wfi \/ GetPolledWait
  <2>1. UNCHANGED rxVars /\ intEnabled' = intEnabled
    BY <1>1 DEF Wfi, GetPolledWait, rxVars, uartVars, deviceVars, GetRest, RestGic, gicVars
  <2>2. Move
    BY <1>1, OtherMoves DEF OtherMain, dw_uart_getchar
  <2> QED
    BY <2>1, <2>2, RxQuiet
<1> QED
  BY <1>1, RxInvQueued, RxInvPolledRead DEF dw_uart_getchar

(* putchar: after the first character dw_uart_init runs. *)
LEMMA RxInvPut ==
  ASSUME RxInv, GicInv, dw_uart_putchar
  PROVE  RxInv'
<1>1. UNCHANGED <<rx_buffer, rxFifo, typed, lost, got, dw_uart_initialized, intEnabled>>
  BY DEF dw_uart_putchar, PutPolledCR, PutPolled, PutQueued, PutRest, PolledRest, RestGic,
     gicVars, dw_uart_putchar_nb
<1>2. pc \in {"put", "put_c"} /\ accepted \in Seq(Char) /\ Char1 \in Char
  <2>1. pc \in {"put", "put_c"}
    BY DEF dw_uart_putchar, PutPolledCR, PutPolled, PutQueued, At
  <2> QED
    BY <2>1, CharFacts
<1>3. \/ pc' \in {"put", "put_c"} /\ accepted' = accepted
      \/ accepted' = Append(accepted, Char1) /\ pc' = AfterPut
  BY <1>2 DEF dw_uart_putchar, PutPolledCR, PutPolled, PutQueued, Taken, Goto
<1>4. Append(accepted, Char1) # << >>
  BY <1>2, LastOfAppend
<1>5. RxModes'
  <2>1. CASE pc' \in {"put", "put_c"} /\ accepted' = accepted
    BY <1>1, <2>1 DEF RxInv, RxModes, BeforeClient, BeforeUart
  <2>2. CASE accepted' = Append(accepted, Char1) /\ pc' = AfterPut
    BY <1>1, <1>4, <2>2 DEF RxInv, RxModes, BeforeClient, BeforeUart, AfterPut
  <2> QED
    BY <1>3, <2>1, <2>2
<1>6. RxTyped' /\ RxWhere'
  BY <1>1 DEF RxInv, RxTyped, RxWhere, Chained
<1> QED
  BY <1>5, <1>6 DEF RxInv

(* dw_uart_init. *)
LEMMA RxInvUartInit ==
  ASSUME RxInv, GicInv, dw_uart_init
  PROVE  RxInv'
<1> USE DEF UartStep, At, Goto, RestMain, RestGic, gicVars
<1>1. /\ pc \in BeforeClient
      /\ UNCHANGED <<accepted, got, typed>> /\ intEnabled \subseteq intEnabled'
  BY DEF dw_uart_init, ResetRings, dw_uart_wait_idle, ClearIer, LineControl, ClearFifos,
         InstallUart, dw_uart_enable_rx_interrupt, EnableUart, MarkInitialized, uartVars,
         deviceVars, BeforeClient, BeforeUart, gicv3_enable_int
<1>2. got = << >>
  BY <1>1 DEF RxInv, RxModes
<1>3. CASE ResetRings
  <2>1. /\ rx_buffer' = [rx_buffer EXCEPT !.head = 0, !.tail = 0, !.count = 0]
        /\ pc = "u_reset" /\ UNCHANGED <<rxFifo, lost, dw_uart_initialized, intEnabled>>
    BY <1>3 DEF ResetRings, deviceVars
  <2>2. rx_buffer.count = 0
    BY <2>1 DEF GicInv, UartOff, BeforeUart, RxInv, RxModes
  <2>3. rx_buffer' = [buffer |-> rx_buffer.buffer, head |-> 0, tail |-> 0, count |-> 0]
    BY <2>1 DEF RxInv, RxTyped, Ring
  <2>4. Contents(rx_buffer') = << >> /\ Contents(rx_buffer) = << >>
    BY <2>2, <2>3, EmptyRingFacts
  <2>5. RxTyped'
    <3>1. RingSize \in Nat \ {0} /\ rx_buffer.buffer \in [Slot -> 0 .. MaxTyped]
      BY BatchFacts DEF RxInv, RxTyped, Ring
    <3>2. rx_buffer' \in Ring(0 .. MaxTyped) /\ Chained(rx_buffer)'
      BY <2>3, <3>1 DEF Ring, Slot, Chained
    <3> QED
      BY <1>1, <2>1, <3>2 DEF RxInv, RxTyped
  <2>6. RxModes'
    BY <1>1, <1>2, <2>3 DEF RxModes
  <2>7. Contents(rx_buffer)' = Contents(rx_buffer)
    BY <2>4
  <2>8. RxWhere'
    BY <1>1, <2>1, <2>7 DEF RxInv, RxWhere
  <2> QED
    BY <2>5, <2>6, <2>8 DEF RxInv
<1>4. CASE ClearFifos
  <2>1. /\ rxFifo' = << >> /\ lost' = lost \cup ToSet(rxFifo)
        /\ UNCHANGED <<rx_buffer, dw_uart_initialized>>
    BY <1>4 DEF ClearFifos
  <2>2. ToSet(rxFifo) \subseteq 1 .. MaxTyped
    <3>1. rxFifo \in Seq(1 .. MaxTyped)
      BY DEF RxInv, RxTyped
    <3>2. \A k \in DOMAIN rxFifo : rxFifo[k] \in 1 .. MaxTyped
      <4>1. DOMAIN rxFifo = 1 .. Len(rxFifo)
        BY <3>1, LenProperties
      <4> QED
        BY <3>1, <4>1, ElementOfSeq
    <3> QED
      BY <3>2 DEF ToSet
  <2>3. RxTyped'
    <3>1. << >> \in Seq(1 .. MaxTyped) /\ Len(<< >>) <= RxDepth
      BY EmptySeq, BatchFacts
    <3> QED
      BY <1>1, <2>1, <2>2, <3>1 DEF RxInv, RxTyped, Chained
  <2>4. RxModes'
    BY <1>1, <1>2, <2>1 DEF RxInv, RxModes
  <2>5. /\ Accounted(got, Contents(rx_buffer), << >>, lost \cup ToSet(rxFifo), typed)
        /\ InSequence(got, Contents(rx_buffer), rxFifo) =>
             InSequence(got, Contents(rx_buffer), << >>)
    BY ClearAccounted DEF RxInv, RxWhere
  <2>6. RxWhere'
    BY <1>1, <2>1, <2>5 DEF RxInv, RxWhere
  <2> QED
    BY <2>3, <2>4, <2>6 DEF RxInv
<1>5. CASE MarkInitialized
  <2>1. UNCHANGED <<rx_buffer, rxFifo, lost>>
    BY <1>5 DEF MarkInitialized, deviceVars
  <2>2. RxTyped' /\ RxModes'
    BY <1>1, <1>2, <2>1 DEF RxInv, RxTyped, RxModes, Chained
  <2>3. InSequence(got, Contents(rx_buffer), rxFifo)
    BY <1>2, SetOfEmpty DEF InSequence, AllBelow
  <2>4. RxWhere'
    BY <1>1, <2>1, <2>3 DEF RxInv, RxWhere
  <2> QED
    BY <2>2, <2>4 DEF RxInv
<1>6. CASE \/ dw_uart_wait_idle \/ ClearIer \/ LineControl
           \/ InstallUart \/ dw_uart_enable_rx_interrupt \/ EnableUart
  <2>1. UNCHANGED rxVars
    BY <1>1, <1>6 DEF rxVars, dw_uart_wait_idle, ClearIer, LineControl, InstallUart,
       dw_uart_enable_rx_interrupt, EnableUart, uartVars, deviceVars
  <2> QED
    BY <1>1, <1>2, <2>1, RxQuiet
<1> QED
  BY <1>3, <1>4, <1>5, <1>6 DEF dw_uart_init

LEMMA RxInvHandler ==
  ASSUME RxInv, GicInv, Handler
  PROVE  RxInv'
<1> USE DEF mainVars
<1>1. CASE UartHandler /\ UNCHANGED mainVars /\ RxByte
  BY <1>1, RxInvByte DEF UartHandler
<1>2. CASE ~RxByte
  <2>1. UNCHANGED rxVars /\ pc' = pc /\ intEnabled' = intEnabled
    <3>1. CASE (Dispatch \/ Eoi) /\ UNCHANGED <<uartVars, mainVars>>
      BY <3>1 DEF Dispatch, Eoi, rxVars, uartVars, deviceVars
    <3>2. CASE UartHandler /\ UNCHANGED mainVars
      BY <1>2, <3>2 DEF UartHandler, ReadIir, RxEnd, TxByte, TxEnd,
         dw_uart_disable_tx_interrupt, rxVars, uartVars, deviceVars
    <3>3. CASE timer_handler
      BY <3>3 DEF timer_handler, rxVars, uartVars, deviceVars
    <3> QED
      BY <3>1, <3>2, <3>3 DEF Handler
  <2> QED
    BY <2>1, RxQuiet DEF Move
<1>3. ASSUME RxByte PROVE UartHandler /\ UNCHANGED mainVars
  <2>1. irq = "uart_rx"
    BY <1>3 DEF RxByte
  <2> QED
    BY <2>1 DEF Handler, Dispatch, Eoi, timer_handler
<1> QED
  BY <1>1, <1>2, <1>3

LEMMA RxInvDevices ==
  ASSUME RxInv, Device \/ TimerTick
  PROVE  RxInv'
<1> USE DEF gicVars, mainVars
<1>1. CASE RxArrive /\ UNCHANGED <<gicVars, mainVars>>
  BY <1>1, RxInvArrive
<1>2. CASE \/ TimerTick \/ (TxShift /\ UNCHANGED <<gicVars, mainVars>>)
           \/ (DomainFollows /\ UNCHANGED <<gicVars, uartVars, mainVars>>)
  <2>1. UNCHANGED rxVars /\ pc' = pc /\ intEnabled' = intEnabled
    BY <1>2 DEF TimerTick, TxShift, rxVars, uartVars, deviceVars
  <2> QED
    BY <2>1, RxQuiet DEF Move
<1> QED
  BY <1>1, <1>2 DEF Device

LEMMA RxInvStep == GicInv /\ TxInv /\ RxInv /\ [Next]_vars => RxInv'
<1> SUFFICES ASSUME GicInv, TxInv, RxInv, [Next]_vars PROVE RxInv'
  OBVIOUS
<1> DEFINE Rest == \/ InitGic \/ timer_init \/ timer_enable \/ enable_interrupts
                   \/ Client \/ Command \/ PowerUp \/ rknpu_init \/ Interrupt
<1>1. CASE Rest
  <2>1. UNCHANGED rxVars
    BY <1>1 DEF rxVars, uartVars, deviceVars, mainVars, RestMain, InitGic, timer_init,
       timer_enable, enable_interrupts, Client, Command, PowerUp, rknpu_init, NpuClear,
       NpuInstall, NpuGic, NpuStep, Interrupt
  <2>2. intEnabled \subseteq intEnabled'
    BY <1>1 DEF gicVars, RestGic, InitGic, gicv3_init, timer_init, timer_enable,
       enable_interrupts, Client, Command, PowerUp, rknpu_init, NpuClear, NpuInstall, NpuGic,
       gicv3_enable_int, Interrupt, TakeIrq
  <2>3. Move
    BY <1>1, OtherMoves DEF OtherMain
  <2> QED
    BY <2>1, <2>2, <2>3, RxQuiet
<1>2. CASE dw_uart_init \/ dw_uart_putchar \/ dw_uart_getchar
  BY <1>2, RxInvUartInit, RxInvPut, RxInvGet
<1>3. CASE Handler \/ Device \/ TimerTick
  BY <1>3, RxInvHandler, RxInvDevices
<1>4. CASE UNCHANGED vars
  <2>1. UNCHANGED rxVars /\ pc' = pc /\ intEnabled' = intEnabled
    BY <1>4 DEF vars, mainVars, gicVars, uartVars, deviceVars, rxVars
  <2> QED
    BY <2>1, RxQuiet DEF Move
<1> QED
  BY <1>1, <1>2, <1>3, <1>4 DEF Next, Main

-----------------------------------------------------------------------------
(* The types. *)

Masks ==
  /\ gicOn \in BOOLEAN /\ masked \in BOOLEAN /\ need_schedule_flag \in BOOLEAN
  /\ irq \in {"none", "dispatch", "timer", "uart", "uart_rx", "uart_tx", "uart_off",
              "job_done", "eoi"}
  /\ timerOn \in BOOLEAN /\ timerDue \in BOOLEAN /\ npuLine \in BOOLEAN

PowerTyped ==
  /\ pwr \subseteq 0 .. 15 /\ repaired \subseteq Named /\ timedOut \subseteq Named
  /\ mux \in [Muxed -> {0, 1}]
  /\ clkOn \in BOOLEAN /\ clkRate \in Rates

LEMMA MasksInit == Init => Masks
  BY DEF Init, GicReset, Masks

LEMMA PowerTypedInit == Init => PowerTyped
<1> SUFFICES ASSUME Init PROVE PowerTyped
  OBVIOUS
<1>1. PICK off \in {{}, Named, {"npu1", "npu2"}} :
        pwr = {Bit[d] : d \in off} \cup {0, 2} /\ repaired = Named \ off
  BY DEF Init, PowerReset
<1>2. off \subseteq Named
  BY DomainFacts
<1>3. \A d \in off : Bit[d] \in 0 .. 15
  BY <1>2, DomainFacts
<1>4. pwr \subseteq 0 .. 15
  BY <1>1, <1>3
<1>5. mux \in [Muxed -> {0, 1}]
  BY DEF Init, PowerReset
<1>6. timedOut = {} /\ clkOn = FALSE /\ clkRate = "reset"
  BY DEF Init, PowerReset
<1> QED
  BY <1>1, <1>4, <1>5, <1>6 DEF PowerTyped, Rates

LEMMA MasksStep == GicInv /\ Masks /\ [Next]_vars => Masks'
<1> SUFFICES ASSUME GicInv, Masks, [Next]_vars PROVE Masks'
  OBVIOUS
<1> USE DEF Masks, gicVars, timerVars
<1>1. CASE InitGic \/ timer_init \/ timer_enable \/ enable_interrupts
  BY <1>1 DEF InitGic, gicv3_init, timer_init, timer_enable, enable_interrupts, RestGic
<1>2. CASE dw_uart_init
  <2>1. UNCHANGED <<timerVars, npuLine>>
    BY <1>2 DEF dw_uart_init, UartStep, ResetRings, dw_uart_wait_idle, ClearIer, LineControl,
       ClearFifos, InstallUart, dw_uart_enable_rx_interrupt, EnableUart, MarkInitialized
  <2>2. UNCHANGED <<gicOn, masked, irq, need_schedule_flag>>
    BY <1>2 DEF dw_uart_init, ResetRings, dw_uart_wait_idle, ClearIer, LineControl,
       ClearFifos, InstallUart, dw_uart_enable_rx_interrupt, EnableUart, MarkInitialized,
       RestGic
  <2> QED
    BY <2>1, <2>2
<1>3. CASE dw_uart_putchar
  BY <1>3 DEF dw_uart_putchar, PutPolledCR, PutPolled, PutQueued, PutRest, RestGic
<1>4. CASE dw_uart_getchar
  BY <1>4 DEF dw_uart_getchar, GetQueued, Wfi, GetPolledWait, GetPolledRead, GetRest, RestGic
<1>5. CASE Client \/ Command \/ PowerUp
  BY <1>5 DEF Client, Command, PowerUp, RestGic
<1>6. CASE rknpu_init
  BY <1>6 DEF rknpu_init, NpuClear, NpuInstall, NpuGic, NpuStep, RestGic
<1>7. CASE Interrupt
  BY <1>7 DEF Interrupt, TakeIrq
<1>8. CASE Handler
  <2>1. CASE (Dispatch \/ Eoi) /\ UNCHANGED <<timerVars, npuLine>>
    <3>1. CASE Dispatch
      <4>1. g_handler_vec[vector] \in {NoHandler, "timer", "uart", "job_done"}
        BY DEF GicInv, GicTyped
      <4>2. irq' \in {"eoi", "timer", "uart", "job_done"}
        BY <3>1, <4>1 DEF Dispatch
      <4> QED
        BY <2>1, <3>1, <4>2 DEF Dispatch
    <3>2. CASE Eoi
      BY <2>1, <3>2 DEF Eoi
    <3> QED
      BY <2>1, <3>1, <3>2
  <2>2. CASE UartHandler /\ UNCHANGED <<timerVars, npuLine>>
    <3>1. irq' \in {"uart_rx", "uart_tx", "uart_off", "eoi"}
      BY <2>2 DEF UartHandler, ReadIir, RxByte, RxEnd, TxByte, TxEnd,
         dw_uart_disable_tx_interrupt
    <3> QED
      BY <2>2, <3>1 DEF UartHandler
  <2>3. CASE timer_handler
    BY <2>3 DEF timer_handler
  <2> QED
    BY <1>8, <2>1, <2>2, <2>3 DEF Handler
<1>9. CASE Device \/ TimerTick
  BY <1>9 DEF Device, TimerTick
<1>10. CASE UNCHANGED vars
  BY <1>10 DEF vars
<1> QED
  BY <1>1, <1>2, <1>3, <1>4, <1>5, <1>6, <1>7, <1>8, <1>9, <1>10 DEF Next, Main

LEMMA PowerTypedStep == PowerInv /\ PowerTyped /\ [Next]_vars => PowerTyped'
<1> SUFFICES ASSUME PowerInv, PowerTyped, [Next]_vars PROVE PowerTyped'
  OBVIOUS
<1> USE DEF PowerTyped
<1>1. CASE UNCHANGED powerVars
  BY <1>1 DEF powerVars, pmVars, cruVars, scmiVars
<1>2. CASE DomainFollows
  BY <1>2 DEF DomainFollows, cruVars, scmiVars
<1>3. CASE rockchip_pm_power_domain_on
  <2>1. UNCHANGED <<mux, clkOn, clkRate>>
    BY <1>3 DEF rockchip_pm_power_domain_on, cruVars, scmiVars
  <2>2. CASE PowerOnWrite
    BY <2>1, <2>2 DEF PowerOnWrite, rockchip_pm_write_power_control, Written
  <2>3. CASE PowerOnWait
    <3>1. pm[2] \in 1 .. 4
      BY <2>3 DEF PowerOnWait, PowerInv, DomainsOn
    <3>2. Current \in Named
      BY <3>1, DomainFacts DEF Current
    <3>3. timedOut' \subseteq timedOut \cup {Current} /\ UNCHANGED <<pwr, repaired>>
      BY <2>3 DEF PowerOnWait
    <3> QED
      BY <2>1, <3>2, <3>3
  <2> QED
    BY <1>3, <2>2, <2>3 DEF rockchip_pm_power_domain_on
<1>4. CASE enable_rk3588_npu_clocks
  BY <1>4 DEF enable_rk3588_npu_clocks, EnableClock, pmVars, scmiVars
<1>5. CASE enable_scmi_clock
  <2>1. PICK ok \in SmcOutcome : Answered(ScmiCalls[scmi + 1], ok)
    BY <1>5 DEF enable_scmi_clock
  <2>2. clkOn' \in BOOLEAN
    BY <2>1 DEF Answered
  <2>3. clkRate' \in {"200MHz", clkRate}
    BY <2>1 DEF Answered
  <2> QED
    BY <1>5, <2>2, <2>3 DEF enable_scmi_clock, pmVars, cruVars, Rates
<1>6. Interrupt \/ Handler \/ TimerTick => UNCHANGED powerVars
  BY DEF Interrupt, Handler, timer_handler, TimerTick
<1>7. Device => DomainFollows \/ UNCHANGED powerVars
  BY DEF Device
<1>8. InitGic \/ timer_init \/ timer_enable \/ enable_interrupts => UNCHANGED powerVars
  BY DEF InitGic, timer_init, timer_enable, enable_interrupts, RestDevices
<1>9. dw_uart_init => UNCHANGED powerVars
  BY DEF dw_uart_init, ResetRings, dw_uart_wait_idle, ClearIer, LineControl, ClearFifos,
         InstallUart, dw_uart_enable_rx_interrupt, EnableUart, MarkInitialized, UartStep,
         RestDevices
<1>10. dw_uart_putchar \/ dw_uart_getchar => UNCHANGED powerVars
  BY DEF dw_uart_putchar, PutPolledCR, PutPolled, PutQueued, PutRest, dw_uart_getchar,
         GetQueued, Wfi, GetPolledWait, GetPolledRead, GetRest, RestDevices
<1>11. Client \/ Command \/ rknpu_init => UNCHANGED powerVars
  BY DEF Client, Command, rknpu_init, NpuClear, NpuInstall, NpuGic, NpuStep, RestDevices
<1>12. PowerUp => rockchip_pm_power_domain_on \/ enable_rk3588_npu_clocks \/ enable_scmi_clock
  BY DEF PowerUp
<1>13. UNCHANGED vars => UNCHANGED powerVars
  BY DEF vars
<1> QED
  BY <1>1, <1>2, <1>3, <1>4, <1>5, <1>6, <1>7, <1>8, <1>9, <1>10, <1>11, <1>12, <1>13
     DEF Next, Main

-----------------------------------------------------------------------------
(* Together. *)

UartInv == GicInv /\ TxInv /\ RxInv
BringupInv == UartInv /\ PowerInv /\ DumpInv /\ Masks /\ PowerTyped

LEMMA UartInvariant == Spec => []UartInv
<1>1. Init => UartInv
  BY GicInvInit, TxInvInit, RxInvInit DEF UartInv
<1>2. UartInv /\ [Next]_vars => UartInv'
  BY GicInvStep, TxInvStep, RxInvStep DEF UartInv
<1> QED
  BY <1>1, <1>2, PTL DEF Spec

(* What has been sent, is in the device or in the ring is the text that    *)
(* putchar took, each character once and in order and every newline behind *)
(* a carriage return, for every script, ring, batch and FIFO depth: neither *)
(* dw_uart_init nor the handler's batches nor the retries lose a character. *)
THEOREM TheWireCarriesTheText == Spec => []WireFaithful
<1>1. UartInv => WireFaithful
  BY DEF UartInv, TxInv, OnTheWay, Sent, Newlines, WireFaithful
<1> QED
  BY <1>1, UartInvariant, PTL

(* Every byte that has arrived is with a client, in the ring, in the       *)
(* device or counted as lost, and only one of these, in polled mode too,   *)
(* where getchar races with the handler; in interrupt mode the bytes come  *)
(* in order (dw_uart_interrupt_handler, dw_uart_getchar).                  *)
THEOREM EveryByteIsAccountedFor == Spec => []InputFaithful
<1>1. UartInv => InputFaithful
  <2> SUFFICES ASSUME UartInv PROVE InputFaithful
    OBVIOUS
  <2> DEFINE C == Contents(rx_buffer)
  <2>1. /\ got \in Seq(Nat) /\ C \in Seq(Nat) /\ rxFifo \in Seq(Nat) /\ typed \in Nat
        /\ Accounted(got, C, rxFifo, lost, typed)
        /\ dw_uart_initialized => InSequence(got, C, rxFifo)
    BY RxFacts DEF UartInv, RxInv, RxWhere
  <2> HIDE DEF C
  <2> DEFINE kept == got \o C \o rxFifo
             real == {k \in DOMAIN kept : kept[k] # Junk}
             there == {kept[k] : k \in real}
  <2>2. /\ \A j, k \in real : j # k => kept[j] # kept[k]
        /\ \A k \in DOMAIN kept : k > Len(got) => k \in real
        /\ there \cap lost = {} /\ there \cup lost = 1 .. typed
        /\ InSequence(got, C, rxFifo) =>
             /\ real = DOMAIN kept
             /\ \A j, k \in real : j < k => kept[j] < kept[k]
    BY <2>1, AccountedInARow
  <2> QED
    BY <2>1, <2>2 DEF InputFaithful, C
<1> QED
  BY <1>1, UartInvariant, PTL

(* Every variable of the bring-up keeps its type: in particular the        *)
(* transmit FIFO never takes a byte more than it has entries, even when a  *)
(* busy detect adds a batch to one that is still being sent.               *)
THEOREM StatesAreWellTyped == Spec => []TypeOK
<1>1. Init => BringupInv
  BY GicInvInit, TxInvInit, RxInvInit, PowerInvInit, DumpInvInit, MasksInit, PowerTypedInit
     DEF UartInv, BringupInv
<1>2. BringupInv /\ [Next]_vars => BringupInv'
  <2>1. ASSUME BringupInv, [Next]_vars PROVE BringupInv'
    BY <2>1, GicInvStep, TxInvStep, RxInvStep, PowerInvStep, DumpInvStep, MasksStep,
       PowerTypedStep DEF UartInv, BringupInv
  <2> QED
    BY <2>1
<1>3. BringupInv => TypeOK
  <2> SUFFICES ASSUME BringupInv PROVE TypeOK
    OBVIOUS
  <2>1. GicTypeOK
    BY DEF BringupInv, UartInv, GicInv, GicTyped, Masks, GicTypeOK
  <2>2. UartTypeOK
    <3>1. Len(txFifo) <= FifoDepth
      <4>1. Len(txFifo) \in Nat
        BY LenProperties DEF BringupInv, UartInv, TxInv, TxTyped
      <4> QED
        BY <4>1, BatchFacts DEF BringupInv, UartInv, TxInv, Room
    <3> QED
      BY <3>1 DEF BringupInv, UartInv, TxInv, TxTyped, RxInv, RxTyped, Sendable, UartTypeOK
  <2>3. PowerTypeOK
    <3>1. gate \subseteq Clock /\ reset \subseteq Clock
      <4>1. cru \in 0 .. 6 /\ gate \in {{}, {Clocks[k] : k \in cru + 1 .. 6}} /\ reset = gate
        BY DEF BringupInv, PowerInv, ClocksInOrder
      <4>2. \A k \in cru + 1 .. 6 : k \in {1, 2, 3, 4, 5, 6}
        BY <4>1
      <4> QED
        BY <4>1, <4>2, ClockFacts
    <3>2. pm \in {"write", "wait"} \X (1 .. Len(Domains) + 1) /\ cru \in 0 .. Len(Clocks)
      BY DomainFacts, ClockFacts DEF BringupInv, PowerInv, DomainsOn, ClocksInOrder
    <3>3. scmi \in 0 .. Len(ScmiCalls) /\ scmiOk \in BOOLEAN
      <4>1. Len(ScmiCalls) = 5
        BY DEF ScmiCalls
      <4> QED
        BY <4>1 DEF BringupInv, PowerInv, ScmiInOrder
    <3> QED
      BY <3>1, <3>2, <3>3 DEF BringupInv, PowerTyped, PowerTypeOK
  <2>4. MarksInitialized \in BOOLEAN
    BY DEF BringupInv, UartInv, TxInv, TxTyped
  <2> QED
    BY <2>1, <2>2, <2>3, <2>4
       DEF BringupInv, UartInv, GicInv, GicTyped, RxInv, RxTyped, DumpInv, Masks, TypeOK
<1> QED
  BY <1>1, <1>2, <1>3, PTL DEF Spec
=============================================================================
