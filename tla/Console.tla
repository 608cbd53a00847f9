------------------------------ MODULE Console ------------------------------
(***************************************************************************)
(* The console of src/t_entry.c, uart_test: it reads one key at a time.    *)
(* 'x' receives a file with XMODEM into one buffer, allocated once, 'd'    *)
(* dumps the first and the last DUMP bytes of the file received last, 'p'  *)
(* toggles the periodic line and 'q' leaves.                               *)
(*                                                                         *)
(* A file is a number from 1 on, a fresh one for each reception; what the  *)
(* buffer holds is the file of its last byte written, and whether all of   *)
(* it is there.  The text the console prints is left out, but for which    *)
(* bytes of the buffer a dump shows in which row.                          *)
(***************************************************************************)
EXTENDS Naturals, FiniteSets

CONSTANTS
  DUMP,        \* 256: bytes a dump shows from either end
  ROW,         \* 16: bytes of a row
  MaxFile,     \* bound: length of a file
  MaxReceive   \* bound: receptions

ASSUME ConsoleConstants ==
  /\ {DUMP, ROW, MaxFile} \subseteq Nat \ {0} /\ DUMP % ROW = 0 /\ MaxReceive \in Nat

Key == {"h", "d", "x", "p", "s", "t", "q", "other"}

VARIABLES
  g_xmodem_buf,      \* NoBuffer, or what the buffer holds: a file, and how it ended
  g_last_received,   \* what xmodem_receive_1k returned last: -1, 0 or a length
  periodic_print_enabled,
  receptions,        \* how many files have been asked for
  shown              \* the bytes the last 'd' showed: <<file, ended, rows>>

consoleVars == <<g_xmodem_buf, g_last_received, periodic_print_enabled,
                 receptions, shown>>

NoBuffer == [file |-> 0, ended |-> "NULL"]
Nothing == [file |-> 0, ended |-> "fresh", rows |-> {}, len |-> 0]

ConsoleReset ==
  /\ g_xmodem_buf = NoBuffer /\ g_last_received = 0
  /\ periodic_print_enabled = TRUE
  /\ receptions = 0 /\ shown = Nothing

-----------------------------------------------------------------------------
(* The rows of a dump.  Each is the byte its address names, the bytes in   *)
(* hexadecimal and the bytes in ASCII; a row is closed at its 16th byte or *)
(* by the code after the loop.                                             *)

Row(at, from, upto) == [at |-> at, hex |-> from .. upto - 1, ascii |-> from .. upto - 1]

(* The first min(len, DUMP) bytes: rows start at the multiples of ROW.     *)
FirstRows(len) ==
  LET display_len == IF len > DUMP THEN DUMP ELSE len
      last_line_start == (display_len \div ROW) * ROW
      full == {Row(k * ROW, k * ROW, (k + 1) * ROW) : k \in 0 .. display_len \div ROW - 1}
  IN IF display_len % ROW = 0 THEN full
     ELSE full \cup {Row(last_line_start, last_line_start, display_len)}

(* The last DUMP bytes of a longer file: rows are counted from the first   *)
(* of them.  DUMP is a multiple of ROW, so the code for a last, shorter    *)
(* row never runs.                                                         *)
LastRows(len) ==
  IF len <= DUMP THEN {}
  ELSE LET start == len - DUMP
       IN {Row(start + k * ROW, start + k * ROW, start + (k + 1) * ROW)
             : k \in 0 .. DUMP \div ROW - 1}

-----------------------------------------------------------------------------
(* The commands. *)

Dump ==
  /\ shown' = IF g_xmodem_buf = NoBuffer \/ g_last_received <= 0 THEN shown
              ELSE [file |-> g_xmodem_buf.file, ended |-> g_xmodem_buf.ended,
                    rows |-> FirstRows(g_last_received) \cup LastRows(g_last_received),
                    len |-> g_last_received]
  /\ UNCHANGED <<g_xmodem_buf, g_last_received, periodic_print_enabled, receptions>>

ReceiveKeepsLength(interruptMode) ==   \* variant: a failure leaves the length as it was
  /\ receptions < MaxReceive
  /\ receptions' = receptions + 1
  /\ UNCHANGED <<periodic_print_enabled, shown>>
  /\ interruptMode
  /\ \/ /\ \E end \in {"failed", "cancelled"} :
             g_xmodem_buf' = [file |-> receptions + 1, ended |-> end]
        /\ UNCHANGED g_last_received
     \/ /\ \E len \in 1 .. MaxFile : g_last_received' = len
        /\ g_xmodem_buf' = [file |-> receptions + 1, ended |-> "received"]

(* 'x': the buffer is allocated at the first use, which may fail.  The     *)
(* receiver gets no byte when the driver is not in interrupt mode, and     *)
(* then fails with the buffer as it was.                                   *)
Receive(interruptMode) ==
  /\ receptions < MaxReceive
  /\ receptions' = receptions + 1
  /\ UNCHANGED <<periodic_print_enabled, shown>>
  /\ \/ /\ g_xmodem_buf = NoBuffer                       \* t_mem_alloc fails
        /\ UNCHANGED <<g_xmodem_buf, g_last_received>>
     \/ /\ g_last_received' = 0 - 1                    \* no first block
        /\ g_xmodem_buf' = IF g_xmodem_buf = NoBuffer
                             THEN [file |-> 0, ended |-> "fresh"] ELSE g_xmodem_buf
     \/ /\ interruptMode
        /\ \E end \in {"failed", "cancelled"} :
             /\ g_xmodem_buf' = [file |-> receptions + 1, ended |-> end]
             /\ g_last_received' = IF end = "failed" THEN 0 - 1 ELSE 0
     \/ /\ interruptMode
        /\ \E len \in 1 .. MaxFile : g_last_received' = len
        /\ g_xmodem_buf' = [file |-> receptions + 1, ended |-> "received"]

TogglePeriodic ==
  /\ periodic_print_enabled' = ~periodic_print_enabled
  /\ UNCHANGED <<g_xmodem_buf, g_last_received, receptions, shown>>
=============================================================================
