------------------------------ MODULE Bringup ------------------------------
(***************************************************************************)
(* t_kernel_main of src/t_entry.c on core 0, from gicv3_init to the WFI    *)
(* loop: the interrupt controller (Gic), the generic timer of              *)
(* src/dev/t_timer.c, the UART driver (DwUart), the power domains and      *)
(* clocks (PowerClock), and after them one user of what was brought up:    *)
(*   "write"   one that writes text with dw_uart_putstr and reads keys in  *)
(*             between;                                                    *)
(*   "listen"  one that reads what is typed;                               *)
(*   "console" uart_test, for which getchar returns some key;              *)
(*   "npu"     rknpu_init;                                                 *)
(*   "clocks"  enable_rk3588_npu_clocks and enable_scmi_clock.             *)
(*                                                                         *)
(* The driver reads dw_uart_initialized everywhere and the store that sets *)
(* it, at the end of dw_uart_init, is commented out in this commit: with   *)
(* MarksInitialized FALSE the model is this commit, which polls the device *)
(* although the receive interrupt is on; TRUE is the interrupt mode the    *)
(* rest of the driver is written for.                                      *)
(***************************************************************************)
EXTENDS DwUart, PowerClock, Console

CONSTANTS
  Script,    \* the characters written; the first one before dw_uart_init
  MaxTypedWriting,   \* bound: bytes that arrive in plan "write"
  MaxGot     \* bound: bytes the console reads

ASSUME BringupConstants ==
  /\ Script \in Seq(Char) /\ Script # << >> /\ MaxGot \in Nat
  /\ MaxTypedWriting \in 0 .. MaxTyped

VARIABLES
  pc,                \* where t_kernel_main is
  plan,              \* who uses the devices after dw_uart_init
  MarksInitialized,  \* whether the build has the store of dw_uart_initialized
  accepted,          \* history: the characters that putchar has taken
  got,               \* history: the bytes that getchar has returned
  timerOn, timerDue, \* CNTP_CTL.ENABLE, and the compare value has passed
  npuLine            \* an interrupt of the NPU is pending

mainVars == <<pc, plan, MarksInitialized, accepted, got>>
timerVars == <<timerOn, timerDue>>
vars == <<gicVars, uartVars, powerVars, consoleVars, mainVars, timerVars, npuLine>>

Plan == {"write", "listen", "console", "npu", "clocks"}
Label == {"gic", "timer_init", "timer_enable", "enable_interrupts", "put", "put_c",
          "u_reset", "u_idle", "u_ier", "u_line", "u_fcr", "u_install", "u_rdi",
          "u_gic", "u_mark", "client", "get", "get_rbr", "wfi", "asleep", "key",
          "npu_clear", "npu_install", "npu_gic", "idle"}

TypeOK ==
  /\ GicTypeOK /\ UartTypeOK /\ PowerTypeOK
  /\ pc \in Label /\ plan \in Plan /\ MarksInitialized \in BOOLEAN
  /\ accepted \in Seq(Char) /\ got \in Seq(0 .. MaxTyped)
  /\ timerOn \in BOOLEAN /\ timerDue \in BOOLEAN /\ npuLine \in BOOLEAN
  /\ g_last_received \in -1 .. MaxFile /\ receptions \in 0 .. MaxReceive
  /\ periodic_print_enabled \in BOOLEAN

Init ==
  /\ GicReset /\ UartReset /\ PowerReset /\ ConsoleReset
  /\ pc = "gic" /\ plan \in Plan /\ MarksInitialized \in BOOLEAN
  /\ accepted = << >> /\ got = << >>
  /\ timerOn = FALSE /\ timerDue = FALSE
  /\ npuLine \in BOOLEAN
  /\ (plan # "npu" => ~npuLine /\ pwr = {0, 2} /\ timedOut = {})
  /\ (plan # "clocks" => mux = [c \in Muxed |-> 0])

(* The lines that are up.  The timer's is up from the compare value on.    *)
Lines == (IF timerOn /\ timerDue THEN {"timer"} ELSE {})
           \cup (IF UartLine THEN {"uart"} ELSE {}) \cup (IF npuLine THEN {"npu"} ELSE {})

(* Core 0 runs the program, not a handler. *)
At(l) == pc = l /\ irq = "none"
Goto(l) == pc' = l

Typing == CASE plan = "write" -> MaxTypedWriting [] plan = "listen" -> MaxTyped
            [] OTHER -> 0

RestMain == UNCHANGED <<plan, MarksInitialized, accepted, got>>
RestGic == UNCHANGED gicVars
RestDevices == UNCHANGED <<powerVars, consoleVars>>

-----------------------------------------------------------------------------
(* Devices and interrupts. *)

TimerTick ==
  /\ timerOn /\ ~timerDue
  /\ timerDue' = TRUE
  /\ UNCHANGED <<gicVars, uartVars, powerVars, consoleVars, mainVars, timerOn, npuLine>>

Device ==
  \/ (TxShift \/ (typed < Typing /\ RxArrive))
       /\ UNCHANGED <<gicVars, powerVars, consoleVars, mainVars, timerVars, npuLine>>
  \/ DomainFollows
       /\ UNCHANGED <<gicVars, uartVars, consoleVars, mainVars, timerVars, npuLine>>

(* WFI ends with the interrupt it has waited for. *)
Interrupt ==
  /\ TakeIrq(Lines)
  /\ pc' = IF pc = "asleep" THEN "get" ELSE pc
  /\ RestMain
  /\ UNCHANGED <<uartVars, powerVars, consoleVars, timerVars, npuLine>>

(* timer_handler: timer_schedule_next_tick takes the line down. *)
timer_handler ==
  /\ irq = "timer"
  /\ timerDue' = FALSE
  /\ need_schedule_flag' = TRUE
  /\ irq' = "eoi"
  /\ UNCHANGED <<gicOn, intEnabled, g_handler_vec, masked, vector, uartVars, powerVars,
                 consoleVars, mainVars, timerOn, npuLine>>

Handler ==
  \/ (Dispatch \/ Eoi)
       /\ UNCHANGED <<uartVars, powerVars, consoleVars, mainVars, timerVars, npuLine>>
  \/ UartHandler /\ UNCHANGED <<powerVars, consoleVars, mainVars, timerVars, npuLine>>
  \/ timer_handler

-----------------------------------------------------------------------------
(* t_kernel_main up to enable_interrupts. *)

InitGic ==
  /\ At("gic") /\ gicv3_init /\ Goto("timer_init")
  /\ RestMain /\ RestDevices /\ UNCHANGED <<uartVars, timerVars, npuLine>>

TimerInitNoGic ==   \* variant: the interrupt is not enabled in the GIC
  /\ At("timer_init")
  /\ timerOn' = FALSE /\ UNCHANGED timerDue
  /\ irq_install("timer", "timer")
  /\ Goto("timer_enable")
  /\ UNCHANGED <<gicOn, intEnabled, masked, irq, vector, need_schedule_flag>>
  /\ RestMain /\ RestDevices /\ UNCHANGED <<uartVars, npuLine>>

timer_init ==
  /\ At("timer_init")
  /\ timerOn' = FALSE /\ UNCHANGED timerDue          \* timer_disable
  /\ irq_install("timer", "timer")
  /\ gicv3_enable_int("timer", TRUE)
  /\ Goto("timer_enable")
  /\ UNCHANGED <<gicOn, masked, irq, vector, need_schedule_flag>>
  /\ RestMain /\ RestDevices /\ UNCHANGED <<uartVars, npuLine>>

(* The secondary cores are started in between: module CpuTasks. *)
timer_enable ==
  /\ At("timer_enable")
  /\ timerOn' = TRUE /\ timerDue' = FALSE
  /\ Goto("enable_interrupts")
  /\ RestMain /\ RestGic /\ RestDevices /\ UNCHANGED <<uartVars, npuLine>>

enable_interrupts ==
  /\ At("enable_interrupts")
  /\ masked' = FALSE
  /\ Goto("put")
  /\ UNCHANGED <<gicOn, intEnabled, g_handler_vec, irq, vector, need_schedule_flag>>
  /\ RestMain /\ RestDevices /\ UNCHANGED <<uartVars, timerVars, npuLine>>

-----------------------------------------------------------------------------
(* dw_uart_init.  The interrupts are on; those of the UART are not.        *)

UartStep(l, next) ==
  /\ At(l) /\ Goto(next)
  /\ RestMain /\ RestDevices /\ UNCHANGED <<timerVars, npuLine>>

ResetRings ==
  /\ UartStep("u_reset", "u_idle")
  /\ tx_buffer' = [tx_buffer EXCEPT !.head = 0, !.tail = 0, !.count = 0]
  /\ rx_buffer' = [rx_buffer EXCEPT !.head = 0, !.tail = 0, !.count = 0]
  /\ UNCHANGED <<dw_uart_initialized, sent, deviceVars>> /\ RestGic

SkipIdle ==   \* variant: what is being sent is not waited for
  UartStep("u_idle", "u_ier") /\ UNCHANGED uartVars /\ RestGic

(* The transmitter is empty well before the polls run out. *)
dw_uart_wait_idle ==
  /\ UartStep("u_idle", "u_ier") /\ THRE
  /\ UNCHANGED uartVars /\ RestGic

ClearIer ==
  /\ UartStep("u_ier", "u_line")
  /\ rdi' = FALSE /\ thri' = FALSE
  /\ UNCHANGED <<tx_buffer, rx_buffer, dw_uart_initialized, sent, busyDetect, txFifo,
                 rxFifo, wire, typed, lost>> /\ RestGic

(* The baud rate and 8N1, left out here but for this: a device that is     *)
(* just receiving a byte refuses a write to the LCR and says so with an    *)
(* interrupt.                                                              *)
LineControl ==
  /\ UartStep("u_line", "u_fcr")
  /\ busyDetect' \in {FALSE, Typing > 0}
  /\ UNCHANGED <<tx_buffer, rx_buffer, dw_uart_initialized, sent, rdi, thri, txFifo,
                 rxFifo, wire, typed, lost>> /\ RestGic

ClearFifos ==
  /\ UartStep("u_fcr", "u_install")
  /\ txFifo' = << >> /\ rxFifo' = << >>
  /\ lost' = lost \cup ToSet(rxFifo)
  /\ UNCHANGED <<tx_buffer, rx_buffer, dw_uart_initialized, sent, rdi, thri,
                 busyDetect, wire, typed>> /\ RestGic

InstallNothing ==   \* variant: the handler is not installed
  /\ UartStep("u_install", "u_rdi")
  /\ UNCHANGED <<gicVars, uartVars>>

InstallUart ==
  /\ UartStep("u_install", "u_rdi")
  /\ irq_install("uart", "uart")
  /\ UNCHANGED <<gicOn, intEnabled, masked, irq, vector, need_schedule_flag, uartVars>>

dw_uart_enable_rx_interrupt ==
  /\ UartStep("u_rdi", "u_gic")
  /\ rdi' = TRUE
  /\ UNCHANGED <<tx_buffer, rx_buffer, dw_uart_initialized, sent, thri, busyDetect,
                 txFifo, rxFifo, wire, typed, lost>> /\ RestGic

(* Level triggered, to core 0, and on. *)
EnableUart ==
  /\ UartStep("u_gic", "u_mark")
  /\ gicv3_enable_int("uart", TRUE)
  /\ UNCHANGED <<gicOn, g_handler_vec, masked, irq, vector, need_schedule_flag, uartVars>>

MarkInitialized ==
  /\ UartStep("u_mark", "client")
  /\ dw_uart_initialized' = MarksInitialized
  /\ UNCHANGED <<tx_buffer, rx_buffer, sent, deviceVars>> /\ RestGic

dw_uart_init ==
  \/ ResetRings \/ dw_uart_wait_idle \/ ClearIer \/ LineControl \/ ClearFifos
  \/ InstallUart \/ dw_uart_enable_rx_interrupt \/ EnableUart \/ MarkInitialized

-----------------------------------------------------------------------------
(* dw_uart_putchar of the next character of the script. *)

Char1 == Script[Len(accepted) + 1]
AfterPut == IF accepted = << >> THEN "u_reset" ELSE "client"

Taken ==
  /\ accepted' = Append(accepted, Char1)
  /\ Goto(AfterPut)

PutRest ==
  /\ UNCHANGED <<plan, MarksInitialized, got, timerVars, npuLine>>
  /\ RestGic /\ RestDevices

PolledRest == UNCHANGED <<tx_buffer, rx_buffer, dw_uart_initialized, sent, rdi, thri,
                          busyDetect, rxFifo, wire, typed, lost>>

PutPolledCR ==
  /\ At("put") /\ ~dw_uart_initialized /\ Char1 = "\n" /\ THRE
  /\ WriteTHR(CR)
  /\ Goto("put_c") /\ UNCHANGED accepted
  /\ PolledRest /\ PutRest

PutPolled ==
  /\ \/ At("put") /\ ~dw_uart_initialized /\ Char1 # "\n"
     \/ At("put_c")
  /\ THRE
  /\ WriteTHR(Char1)
  /\ Taken
  /\ PolledRest /\ PutRest

(* In interrupt mode, one try; after a failed one the handler may run, and *)
(* the 10000 tries last longer than the device takes to make room.         *)
PutQueued ==
  /\ At("put") /\ dw_uart_initialized
  /\ dw_uart_putchar_nb(Char1)
  /\ IF Accepts(Char1) THEN Taken ELSE UNCHANGED <<pc, accepted>>
  /\ PutRest

dw_uart_putchar == PutPolledCR \/ PutPolled \/ PutQueued

-----------------------------------------------------------------------------
(* dw_uart_getchar. *)

GetRest ==
  /\ UNCHANGED <<plan, MarksInitialized, accepted, timerVars, npuLine>>
  /\ RestGic /\ RestDevices

GetQueued ==
  /\ At("get") /\ dw_uart_initialized
  /\ IF buffer_is_empty(rx_buffer)
       THEN Goto("wfi") /\ UNCHANGED <<got, uartVars>>
       ELSE /\ dw_uart_getchar_nb
            /\ got' = Append(got, buffer_front(rx_buffer))
            /\ Goto("key")
  /\ GetRest

(* A pending interrupt is taken before the core sleeps, or ends the sleep. *)
Wfi ==
  /\ At("wfi") /\ Goto("asleep")
  /\ UNCHANGED <<got, uartVars>> /\ GetRest

GetPolledWait ==
  /\ At("get") /\ ~dw_uart_initialized /\ DataReady
  /\ Goto("get_rbr")
  /\ UNCHANGED <<got, uartVars>> /\ GetRest

(* The handler may have emptied the FIFO since LSR was read. *)
GetPolledRead ==
  /\ At("get_rbr")
  /\ got' = Append(got, IF DataReady THEN Head(rxFifo) ELSE Junk)
  /\ rxFifo' = IF DataReady THEN Tail(rxFifo) ELSE rxFifo
  /\ Goto("key")
  /\ UNCHANGED <<tx_buffer, rx_buffer, dw_uart_initialized, sent, rdi, thri, busyDetect,
                 txFifo, wire, typed, lost>> /\ GetRest

dw_uart_getchar == GetQueued \/ Wfi \/ GetPolledWait \/ GetPolledRead

-----------------------------------------------------------------------------
(* What follows dw_uart_init. *)

Client ==
  /\ At("client")
  /\ CASE plan = "write" -> \/ Len(accepted) < Len(Script) /\ Goto("put")
                            \/ Len(got) < MaxGot /\ Goto("get")
       [] plan = "listen" -> Len(got) < MaxGot /\ Goto("get")
       [] plan = "console" -> Goto("key")
       [] plan = "npu" -> PowerOnDone /\ Goto("npu_clear")
       [] plan = "clocks" -> cru = Len(Clocks) /\ scmi = Len(ScmiCalls) /\ Goto("idle")
  /\ RestMain /\ RestGic /\ RestDevices /\ UNCHANGED <<uartVars, timerVars, npuLine>>

(* uart_test: the key just read. *)
Command ==
  /\ At("key")
  /\ \E key \in Key :
       /\ plan # "console" => key = "other"
       /\ CASE key = "d" -> Dump
            [] key = "x" -> Receive(dw_uart_initialized)
            [] key = "p" -> TogglePeriodic
            [] OTHER -> UNCHANGED consoleVars
       /\ Goto(IF key = "q" THEN "idle" ELSE "client")
  /\ RestMain /\ RestGic /\ UNCHANGED <<uartVars, powerVars, timerVars, npuLine>>

PowerUp ==
  /\ At("client")
  /\ \/ plan = "npu" /\ rockchip_pm_power_domain_on
     \/ plan = "clocks" /\ enable_rk3588_npu_clocks
     \/ plan = "clocks" /\ cru = Len(Clocks) /\ enable_scmi_clock
  /\ UNCHANGED <<gicVars, uartVars, consoleVars, mainVars, timerVars, npuLine>>

(* The rest of rknpu_init.  What an earlier run left pending is cleared    *)
(* before the line is enabled, so that no job_done runs here; the one of a *)
(* job is that of module NpuJob.                                           *)
NpuStep(l, next) ==
  /\ At(l) /\ Goto(next)
  /\ RestMain /\ RestDevices /\ UNCHANGED <<uartVars, timerVars>>

NpuClear == NpuStep("npu_clear", "npu_install") /\ npuLine' = FALSE /\ RestGic

NpuInstall ==
  /\ NpuStep("npu_install", "npu_gic")
  /\ irq_install("npu", "job_done")
  /\ UNCHANGED <<gicOn, intEnabled, masked, irq, vector, need_schedule_flag, npuLine>>

NpuGic ==
  /\ NpuStep("npu_gic", "idle")
  /\ gicv3_enable_int("npu", TRUE)
  /\ UNCHANGED <<gicOn, g_handler_vec, masked, irq, vector, need_schedule_flag, npuLine>>

rknpu_init == NpuClear \/ NpuInstall \/ NpuGic

Main ==
  \/ InitGic \/ timer_init \/ timer_enable \/ enable_interrupts
  \/ dw_uart_init \/ dw_uart_putchar \/ dw_uart_getchar
  \/ Client \/ Command \/ PowerUp \/ rknpu_init

Next == Main \/ Interrupt \/ Handler \/ Device \/ TimerTick

Spec == Init /\ [][Next]_vars

(* The program is never kept from running by interrupts for ever: a tick   *)
(* is 10 ms and a handler some microseconds.  No pending interrupt is      *)
(* passed over for ever, the device sends what it holds and the timer      *)
(* goes on counting.  Nobody has to type, and no domain has to come up.    *)
FairSpec ==
  /\ Spec
  /\ SF_vars(Main) /\ WF_vars(Handler) /\ WF_vars(TxShift /\ Device) /\ WF_vars(TimerTick)
  /\ \A v \in Intid : SF_vars(Interrupt /\ vector' = v)

-----------------------------------------------------------------------------
(* Properties. *)

(* How many of the first k members of s are not carriage returns; s        *)
(* carries a text if those that are not are its characters, in order.      *)
Characters(s, k) == Cardinality({j \in 1 .. k : s[j] # CR})
Carries(s, text) ==
  /\ Characters(s, Len(s)) = Len(text)
  /\ \A k \in DOMAIN s : s[k] # CR => s[k] = text[Characters(s, k)]

Outgoing == wire \o txFifo \o Contents(tx_buffer)

(* What has been sent, is in the device or in the ring is the text that    *)
(* dw_uart_putchar took, each character once and in order, through the     *)
(* reinitialisation by dw_uart_init, the batches of the handler and the    *)
(* retries; carriage returns may be added, and one is sent directly        *)
(* before every newline.                                                   *)
WireFaithful ==
  /\ Carries(Outgoing, accepted)
  /\ \A k \in DOMAIN Outgoing : Outgoing[k] = "\n" => k > 1 /\ Outgoing[k - 1] = CR

(* Every byte that has arrived is read by a client, in the ring, in the    *)
(* device, or was lost to an overrun, a full ring or the reset of the      *)
(* FIFO, and only one of these; what is not Junk is such a byte.  In       *)
(* interrupt mode the bytes come in order, and none is returned that never *)
(* arrived; in polled mode, which races with the handler, both can happen. *)
InputFaithful ==
  LET kept == got \o Contents(rx_buffer) \o rxFifo
      real == {k \in DOMAIN kept : kept[k] # Junk}
      there == {kept[k] : k \in real}
  IN /\ \A j, k \in real : j # k => kept[j] # kept[k]
     /\ \A k \in DOMAIN kept : k > Len(got) => k \in real
     /\ there \cap lost = {} /\ there \cup lost = 1 .. typed
     /\ dw_uart_initialized =>
          /\ real = DOMAIN kept
          /\ \A j, k \in real : j < k => kept[j] < kept[k]

(* No interrupt is dispatched before its handler is installed and what the *)
(* handler works on is initialised, although interrupts are enabled before *)
(* dw_uart_init and rknpu_init: a level line without a handler would keep  *)
(* the core in the exception for ever.                                     *)
EveryInterruptHasHandler ==
  /\ irq = "dispatch" => g_handler_vec[vector] # NoHandler
  /\ irq \in {"uart", "uart_rx", "uart_tx", "uart_off"} =>
       pc \notin {"gic", "timer_init", "timer_enable", "u_reset", "u_idle", "u_ier",
                  "u_line", "u_fcr", "u_install"}

(* Switching the NPU's domains on leaves the bits of all other domains as  *)
(* they are, and rknpu_init goes on to the NPU's registers only when every *)
(* domain is on, except those whose wait ran out, which it does not see.   *)
(* A gate is never open below a closed one, and when the platform firmware *)
(* has answered every SCMI call the clock runs at 200 MHz.                 *)
PowerSafe ==
  /\ pwr \ {Bit[d] : d \in Named} = {0, 2}
  /\ PowerOnDone => Named \subseteq repaired \cup timedOut
  /\ \A c \in Clock \ gate : Parent[c] \in Clock => Parent[c] \notin gate \cup reset
  /\ scmi = Len(ScmiCalls) /\ scmiOk => clkOn /\ clkRate = "200MHz"

(* A dump shows bytes of a file that was received as a whole, never of one *)
(* whose reception failed after it had overwritten the buffer, and shows   *)
(* the first and the last DUMP bytes of it, each in one row, with the      *)
(* ASCII of a row being that of its hexadecimal.                           *)
DumpShowsLastFile ==
  LET len == shown.len
      first == {k \in 0 .. len - 1 : k < DUMP}
      last == IF len > DUMP THEN len - DUMP .. len - 1 ELSE {}
  IN len > 0 =>
       /\ shown.ended = "received"
       /\ UNION {r.hex : r \in shown.rows} = first \cup last
       /\ \A r \in shown.rows : r.ascii = r.hex /\ r.at \in r.hex /\ Cardinality(r.hex) <= ROW

(* Every character that putchar took gets onto the wire: the transmit      *)
(* interrupt is never left off while the ring holds a byte.                *)
OutputDrains == ~Carries(wire, accepted) ~> Carries(wire, accepted)

(* In interrupt mode a reader that waits for a byte gets it once it has    *)
(* arrived, also when the handler runs between the look at the ring and    *)
(* the WFI: the timer's next tick ends the sleep.                          *)
ReaderWakes ==
  (dw_uart_initialized /\ pc \in {"get", "wfi", "asleep"} /\
     Len(got) + Cardinality(lost) < typed) ~> pc = "key"
=============================================================================
