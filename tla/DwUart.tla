------------------------------- MODULE DwUart -------------------------------
(***************************************************************************)
(* The interrupt driven UART driver of src/dev/t_uart_dwp.c and the device *)
(* below it.                                                               *)
(*                                                                         *)
(*   client -> tx_buffer -> [handler] -> transmit FIFO -> wire             *)
(*   client <- rx_buffer <- [handler] <- receive FIFO  <- typed bytes      *)
(*                                                                         *)
(* A client's critical section has the interrupts of its core masked and   *)
(* holds the ring's lock, so it is one step; the handler is not, for the   *)
(* device goes on shifting bytes in and out between its register accesses. *)
(*                                                                         *)
(* The bytes that arrive are numbered 1, 2, ...; those that are sent are   *)
(* members of Char.  Junk is what a read of an empty receive FIFO returns. *)
(***************************************************************************)
EXTENDS Gic, SequencesExt

CONSTANTS
  RingSize,    \* DW_UART_TX_BUFFER_SIZE = DW_UART_RX_BUFFER_SIZE
  MAX_BATCH,   \* bytes one transmit interrupt moves
  FifoDepth,   \* entries of the device's transmit FIFO
  RxDepth,     \* entries of its receive FIFO
  MaxTyped     \* bound: bytes that arrive

ASSUME UartConstants ==
  /\ {RingSize, MAX_BATCH, FifoDepth, RxDepth} \subseteq Nat \ {0} /\ MaxTyped \in Nat
  /\ 2 * MAX_BATCH <= FifoDepth   \* a busy detect may add a batch to a batch

Char == {"a", "b", "\n"}
CR == "\r"
NUL == "NUL"
Junk == 0
Slot == 0 .. RingSize - 1

VARIABLES
  tx_buffer, rx_buffer,   \* the rings: buffer, head, tail, count
  dw_uart_initialized,
  sent,                   \* the handler's batch counter
  rdi, thri,              \* the bits of DW_UART_IER
  busyDetect,             \* a refused write to the LCR is pending as an interrupt
  txFifo, rxFifo,
  wire,                   \* history: what went out
  typed,                  \* how many bytes have arrived
  lost                    \* history: arrived bytes nobody can read any more

deviceVars == <<rdi, thri, busyDetect, txFifo, rxFifo, wire, typed, lost>>
uartVars == <<tx_buffer, rx_buffer, dw_uart_initialized, sent, deviceVars>>

-----------------------------------------------------------------------------
(* The ring. *)

EmptyRing(nul) ==
  [buffer |-> [k \in Slot |-> nul], head |-> 0, tail |-> 0, count |-> 0]

Ring(byte) == [buffer : [Slot -> byte], head : Slot, tail : Slot, count : 0 .. RingSize]

buffer_is_empty(r) == r.count = 0

buffer_is_over(r) == r.count > RingSize   \* variant: one byte too many
buffer_is_full(r) == r.count >= RingSize

(* A full ring is left as it is: the caller tests buffer_is_full. *)
buffer_put(r, c) ==
  IF buffer_is_full(r) THEN r
  ELSE [r EXCEPT !.buffer[r.head] = c, !.head = (@ + 1) % RingSize, !.count = @ + 1]

buffer_front(r) == r.buffer[r.tail]

buffer_get_short(r) ==   \* variant: the modulus is off by one
  [r EXCEPT !.tail = (@ + 1) % (RingSize - 1), !.count = @ - 1]
buffer_get(r) == [r EXCEPT !.tail = (@ + 1) % RingSize, !.count = @ - 1]

(* The queue a ring stands for. *)
Contents(r) == [k \in 1 .. r.count |-> r.buffer[(r.tail + k - 1) % RingSize]]

-----------------------------------------------------------------------------
(* The device. *)

UartTypeOK ==
  /\ tx_buffer \in Ring(Char \cup {CR, NUL}) /\ rx_buffer \in Ring(0 .. MaxTyped)
  /\ {dw_uart_initialized, rdi, thri, busyDetect} \subseteq BOOLEAN
  /\ sent \in 0 .. MAX_BATCH /\ typed \in 0 .. MaxTyped
  /\ txFifo \in Seq(Char \cup {CR}) /\ Len(txFifo) <= FifoDepth
  /\ rxFifo \in Seq(1 .. MaxTyped) /\ Len(rxFifo) <= RxDepth
  /\ wire \in Seq(Char \cup {CR}) /\ lost \subseteq 1 .. MaxTyped

(* The bss, and a device the firmware left idle with its interrupts off.   *)
UartReset ==
  /\ tx_buffer = EmptyRing(NUL) /\ rx_buffer = EmptyRing(Junk)
  /\ dw_uart_initialized = FALSE /\ sent = 0
  /\ rdi = FALSE /\ thri = FALSE /\ busyDetect = FALSE
  /\ txFifo = << >> /\ rxFifo = << >> /\ wire = << >>
  /\ typed = 0 /\ lost = {}

DataReady == rxFifo # << >>      \* LSR.DR
THRE == txFifo = << >>           \* LSR.THRE and LSR.TEMT

(* The interrupt line and what DW_UART_IIR reads as; a byte received comes *)
(* before an empty transmitter, and that before a busy detect.             *)
UartLine == (rdi /\ DataReady) \/ (thri /\ THRE) \/ busyDetect
IIR == CASE rdi /\ DataReady -> "rx"
         [] ~(rdi /\ DataReady) /\ thri /\ THRE -> "thre"
         [] ~(rdi /\ DataReady) /\ ~(thri /\ THRE) /\ busyDetect -> "busy"
         [] OTHER -> "none"

(* A write to the holding register; a full FIFO drops the byte. *)
WriteTHR(c) == txFifo' = IF Len(txFifo) < FifoDepth THEN Append(txFifo, c) ELSE txFifo

TxShift ==
  /\ txFifo # << >>
  /\ wire' = Append(wire, Head(txFifo))
  /\ txFifo' = Tail(txFifo)
  /\ UNCHANGED <<tx_buffer, rx_buffer, dw_uart_initialized, sent, rdi, thri,
                 busyDetect, rxFifo, typed, lost>>

RxArrive ==
  /\ typed < MaxTyped
  /\ typed' = typed + 1
  /\ IF Len(rxFifo) < RxDepth
       THEN rxFifo' = Append(rxFifo, typed + 1) /\ lost' = lost
       ELSE rxFifo' = rxFifo /\ lost' = lost \cup {typed + 1}
  /\ UNCHANGED <<tx_buffer, rx_buffer, dw_uart_initialized, sent, rdi, thri,
                 busyDetect, txFifo, wire>>

-----------------------------------------------------------------------------
(* dw_uart_interrupt_handler, between Dispatch and Eoi. *)

ReadIir ==
  /\ irq = "uart"
  /\ irq' = CASE IIR = "rx" -> "uart_rx"
              [] IIR \in {"thre", "busy"} -> "uart_tx"
              [] OTHER -> "eoi"
  /\ busyDetect' = (busyDetect /\ IIR # "busy")      \* the read of USR
  /\ sent' = 0
  /\ UNCHANGED <<tx_buffer, rx_buffer, dw_uart_initialized, rdi, thri, txFifo,
                 rxFifo, wire, typed, lost>>

(* One byte of the receive loop; a byte for a full ring is gone. *)
RxByte ==
  /\ irq = "uart_rx" /\ DataReady
  /\ rx_buffer' = buffer_put(rx_buffer, Head(rxFifo))
  /\ lost' = IF buffer_is_full(rx_buffer) THEN lost \cup {Head(rxFifo)} ELSE lost
  /\ rxFifo' = Tail(rxFifo)
  /\ irq' = irq
  /\ UNCHANGED <<tx_buffer, dw_uart_initialized, sent, rdi, thri, busyDetect,
                 txFifo, wire, typed>>

RxEnd ==
  /\ irq = "uart_rx" /\ ~DataReady
  /\ irq' = "eoi"
  /\ UNCHANGED uartVars

(* One byte of the transmit loop. *)
TxByte ==
  /\ irq = "uart_tx" /\ sent < MAX_BATCH /\ ~buffer_is_empty(tx_buffer)
  /\ WriteTHR(buffer_front(tx_buffer))
  /\ tx_buffer' = buffer_get(tx_buffer)
  /\ sent' = sent + 1
  /\ irq' = irq
  /\ UNCHANGED <<rx_buffer, dw_uart_initialized, rdi, thri, busyDetect, rxFifo,
                 wire, typed, lost>>

(* is_empty is read before the lock is released and used after.  Only core *)
(* 0 writes to the ring here, and it is in the handler.                    *)
TxEnd ==
  /\ irq = "uart_tx" /\ (sent = MAX_BATCH \/ buffer_is_empty(tx_buffer))
  /\ irq' = IF buffer_is_empty(tx_buffer) THEN "uart_off" ELSE "eoi"
  /\ UNCHANGED uartVars

dw_uart_disable_tx_interrupt ==
  /\ irq = "uart_off"
  /\ thri' = FALSE
  /\ irq' = "eoi"
  /\ UNCHANGED <<tx_buffer, rx_buffer, dw_uart_initialized, sent, rdi, busyDetect,
                 txFifo, rxFifo, wire, typed, lost>>

UartHandler ==
  /\ \/ ReadIir \/ RxByte \/ RxEnd \/ TxByte \/ TxEnd \/ dw_uart_disable_tx_interrupt
  /\ UNCHANGED <<gicOn, intEnabled, g_handler_vec, masked, vector, need_schedule_flag>>

-----------------------------------------------------------------------------
(* The calls of a client in interrupt mode. *)

(* What dw_uart_putchar_nb(c) puts into the ring: for a newline first a    *)
(* carriage return, which stays there when the newline does not fit.       *)
Queued(c) ==
  LET first == IF c = "\n" THEN buffer_put(tx_buffer, CR) ELSE tx_buffer
  IN IF buffer_is_full(tx_buffer) THEN tx_buffer ELSE buffer_put(first, c)

Accepts(c) == tx_buffer.count + (IF c = "\n" THEN 2 ELSE 1) <= RingSize

PutUnarmed(c) ==   \* variant: the transmit interrupt is not enabled
  /\ tx_buffer' = Queued(c)
  /\ UNCHANGED <<rx_buffer, dw_uart_initialized, sent, deviceVars>>

dw_uart_putchar_nb(c) ==
  /\ tx_buffer' = Queued(c)
  /\ thri' = (thri \/ Queued(c) # tx_buffer)
  /\ UNCHANGED <<rx_buffer, dw_uart_initialized, sent, rdi, busyDetect, txFifo,
                 rxFifo, wire, typed, lost>>

(* A successful dw_uart_getchar_nb. *)
dw_uart_getchar_nb ==
  /\ ~buffer_is_empty(rx_buffer)
  /\ rx_buffer' = buffer_get(rx_buffer)
  /\ UNCHANGED <<tx_buffer, dw_uart_initialized, sent, deviceVars>>
=============================================================================
