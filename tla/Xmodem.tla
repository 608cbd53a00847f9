------------------------------- MODULE Xmodem -------------------------------
(***************************************************************************)
(* xmodem_receive_1k of src/dev/xmodem_dw_uart.c, read by read, against a  *)
(* host that sends a file (sx) over a serial line that may change or lose  *)
(* bytes and lose replies.                                                 *)
(*                                                                         *)
(* A byte is a record: v is its value; the two CRC bytes of a frame are    *)
(* one byte here, whose field crc holds the data they were computed from,  *)
(* so that a CRC matches its own data and nothing else.  Block data is     *)
(* shortened to the lengths in Size.                                       *)
(*                                                                         *)
(* The host is modelled from the protocol: it sends a block and waits for  *)
(* the reply, again after NAK, C or a silence, and gives up after          *)
(* MaxRetries.  Its time-out and the receiver's are long compared to the   *)
(* line: they fire only when nothing is on the line in either direction.   *)
(***************************************************************************)
EXTENDS Integers, Sequences, SequencesExt

CONSTANTS
  File,               \* the host's blocks: sequence of [hdr, data]
  Maxlens,            \* sizes of the receiver's buffer, in data bytes
  MAX_INIT_RETRIES,
  MaxRetries,         \* retransmissions of one block by the host
  MaxDamage,          \* bound: bytes the line changes or loses
  MaxLost             \* bound: replies the line loses

SOH == 1
STX == 2
EOT == 4
ACK == 6
NAK == 21
CAN == 24
CHAR_C == 67
ByteMod == 256

Plain(n) == [v |-> n, crc |-> << >>]
None == Plain(-1)                      \* uart_getc_timeout timed out
Damaged == Plain(0)

(* 128 and 1024 in the program. *)
Size(hdr) == IF hdr = SOH THEN 1 ELSE 5

ASSUME FileOK ==
  /\ File \in Seq([hdr : {SOH, STX}, data : Seq(0 .. ByteMod - 1)])
  /\ \A k \in DOMAIN File : Len(File[k].data) = Size(File[k].hdr)

ASSUME ReceiverConstants == Maxlens \subseteq Nat /\ MAX_INIT_RETRIES \in Nat \ {0}

Frame(k) ==
  LET n == k % ByteMod IN
  <<Plain(File[k].hdr), Plain(n), Plain(ByteMod - 1 - n)>>
    \o [i \in DOMAIN File[k].data |-> Plain(File[k].data[i])]
    \o <<[v |-> 0, crc |-> File[k].data]>>

VARIABLES
  maxlen,                              \* the argument, constant
  pc, c, header, buf,                  \* the receiver's position and locals
  init_try, expected_blk,
  stored,                              \* the blocks it wrote, in order
  write_offset,                        \* how many data bytes they are
  result,                              \* what it returned, << >> before
  rx, tx,                              \* the line to and from the receiver
  host, blk, retries,                  \* the host, and the block it sends
  damaged, lost                        \* faults of the line so far

recvVars == <<maxlen, pc, c, header, buf, init_try, expected_blk, stored,
              write_offset, result>>
hostVars == <<host, blk, retries>>
faults == <<damaged, lost>>
vars == <<maxlen, pc, c, header, buf, init_try, expected_blk, stored,
          write_offset, result, rx, tx, host, blk, retries, damaged, lost>>

Init ==
  /\ maxlen \in Maxlens
  /\ pc = "init" /\ c = None /\ header = << >> /\ buf = << >>
  /\ init_try = 0 /\ expected_blk = 1
  /\ stored = << >> /\ write_offset = 0 /\ result = << >>
  /\ rx = << >> /\ tx = << >>
  /\ host = "start" /\ blk = 1 /\ retries = 0
  /\ damaged = 0 /\ lost = 0

(* Nothing on the line and the host not about to send. *)
Silent == rx = << >> /\ tx = << >> /\ host \notin {"send", "eot"}

(* uart_getc_timeout: the next byte, or None after ten seconds of silence. *)
Getc(ch) == \/ rx # << >> /\ ch = Head(rx) /\ rx' = Tail(rx)
            \/ Silent /\ ch = None /\ UNCHANGED rx

Bytes == {None} \cup {rx[i] : i \in DOMAIN rx}

Putc(codes) == tx' = tx \o codes

Return(n) == pc' = "done" /\ result' = <<n>>

(* Send 'C' and wait, up to MAX_INIT_RETRIES times. *)
SendC ==
  /\ pc = "init"
  /\ Putc(<<CHAR_C>>)
  /\ init_try' = init_try + 1
  /\ pc' = "init_wait"
  /\ UNCHANGED <<c, header, buf, expected_blk, stored, write_offset, result, rx, maxlen,
                 hostVars, faults>>

InitWait(ch) ==
  /\ pc = "init_wait"
  /\ Getc(ch)
  /\ c' = ch
  /\ IF ch # None THEN pc' = "ctl" /\ UNCHANGED result
     ELSE IF init_try < MAX_INIT_RETRIES THEN pc' = "init" /\ UNCHANGED result
     ELSE Return(-1)
  /\ UNCHANGED <<header, buf, init_try, expected_blk, stored, write_offset, tx, maxlen,
                 hostVars, faults>>

(* The top of the main loop: EOT, CAN, a header, anything else. *)
CtlEnd ==
  /\ pc = "ctl"
  /\ \/ c.v = EOT /\ Putc(<<ACK>>) /\ Return(write_offset)
     \/ c.v = CAN /\ UNCHANGED tx /\ Return(-1)
  /\ UNCHANGED <<c, header, buf, init_try, expected_blk, stored, write_offset, rx, maxlen,
                 hostVars, faults>>

CtlHeader ==
  /\ pc = "ctl"
  /\ c.v \in {SOH, STX}
  /\ pc' = "b1"
  /\ header' = << >>
  /\ buf' = << >>
  /\ UNCHANGED <<c, init_try, expected_blk, stored, write_offset, result, rx, tx, maxlen,
                 hostVars, faults>>

CtlOtherWaits(ch) ==   \* variant: a time-out does not end the transfer
  /\ pc = "ctl"
  /\ c.v \notin {EOT, CAN, SOH, STX}
  /\ Getc(ch)
  /\ c' = ch
  /\ UNCHANGED <<pc, result, tx, header, buf, init_try, expected_blk, stored, write_offset,
                 maxlen, hostVars, faults>>

CtlOther(ch) ==
  /\ pc = "ctl"
  /\ c.v \notin {EOT, CAN, SOH, STX}
  /\ Getc(ch)
  /\ c' = ch
  /\ IF ch = None THEN Putc(<<CAN, CAN>>) /\ Return(-1)
     ELSE UNCHANGED <<pc, result, tx>>
  /\ UNCHANGED <<header, buf, init_try, expected_blk, stored, write_offset, maxlen,
                 hostVars, faults>>

(* The two bytes of the header are read even if the first one times out.   *)
FirstByte(ch) ==
  /\ pc = "b1"
  /\ Getc(ch)
  /\ header' = <<ch.v>>
  /\ pc' = "b2"
  /\ UNCHANGED <<c, buf, init_try, expected_blk, stored, write_offset, result, tx, maxlen,
                 hostVars, faults>>

SecondByte(ch) ==
  /\ pc = "b2"
  /\ Getc(ch)
  /\ header' = Append(header, ch.v)
  /\ IF header[1] < 0 \/ ch = None THEN Putc(<<NAK>>) /\ Return(-1)
     ELSE IF (header[1] + ch.v) % ByteMod # ByteMod - 1
          THEN Putc(<<NAK>>) /\ pc' = "next" /\ UNCHANGED result
     ELSE pc' = "data" /\ UNCHANGED <<result, tx>>
  /\ UNCHANGED <<c, buf, init_try, expected_blk, stored, write_offset, maxlen,
                 hostVars, faults>>

Data(ch) ==
  /\ pc = "data"
  /\ Getc(ch)
  /\ IF ch = None THEN Putc(<<NAK>>) /\ Return(-1) /\ UNCHANGED buf
     ELSE /\ buf' = Append(buf, ch.v)
          /\ pc' = IF Len(buf) + 1 = Size(c.v) THEN "crc" ELSE "data"
          /\ UNCHANGED <<result, tx>>
  /\ UNCHANGED <<c, header, init_try, expected_blk, stored, write_offset, maxlen,
                 hostVars, faults>>

(* After the CRC: the block number is looked at before the CRC.            *)
Previous == (expected_blk - 1) % ByteMod

CrcIgnored(ch) == TRUE              \* variant: the CRC is not compared

(* crc16_ccitt of the data is what was received. *)
CrcOk(ch) == ch.crc = buf

CrcTimeout(ch) ==
  /\ ch = None
  /\ Putc(<<NAK>>) /\ Return(-1)
  /\ UNCHANGED <<stored, write_offset, expected_blk>>

WrongNumber(ch) ==
  /\ ch # None /\ header[1] # expected_blk
  /\ Putc(IF header[1] = Previous THEN <<ACK>> ELSE <<NAK>>)
  /\ pc' = "next"
  /\ UNCHANGED <<stored, write_offset, expected_blk, result>>

WrongCrc(ch) ==
  /\ ch # None /\ header[1] = expected_blk /\ ~ CrcOk(ch)
  /\ Putc(<<NAK>>) /\ pc' = "next"
  /\ UNCHANGED <<stored, write_offset, expected_blk, result>>

OverflowAcked(ch) ==    \* variant: the block that does not fit is dropped
  /\ ch # None /\ header[1] = expected_blk /\ CrcOk(ch)
  /\ write_offset + Len(buf) > maxlen
  /\ Putc(<<ACK>>) /\ pc' = "next"
  /\ UNCHANGED <<stored, write_offset, expected_blk, result>>

Overflow(ch) ==
  /\ ch # None /\ header[1] = expected_blk /\ CrcOk(ch)
  /\ write_offset + Len(buf) > maxlen
  /\ Putc(<<CAN, CAN>>) /\ Return(-1)
  /\ UNCHANGED <<stored, write_offset, expected_blk>>

StoreUnbounded(ch) ==   \* variant: no bounds check
  /\ ch # None /\ header[1] = expected_blk /\ CrcOk(ch)
  /\ stored' = Append(stored, buf) /\ write_offset' = write_offset + Len(buf)
  /\ Putc(<<ACK>>) /\ pc' = "next"
  /\ expected_blk' = (expected_blk + 1) % ByteMod
  /\ UNCHANGED result

Store(ch) ==
  /\ ch # None /\ header[1] = expected_blk /\ CrcOk(ch)
  /\ write_offset + Len(buf) <= maxlen
  /\ stored' = Append(stored, buf) /\ write_offset' = write_offset + Len(buf)
  /\ Putc(<<ACK>>) /\ pc' = "next"
  /\ expected_blk' = (expected_blk + 1) % ByteMod
  /\ UNCHANGED result

EndOfFrame(ch) ==
  /\ pc = "crc"
  /\ Getc(ch)
  /\ \/ CrcTimeout(ch) \/ WrongNumber(ch) \/ WrongCrc(ch) \/ Overflow(ch)
     \/ Store(ch)
  /\ UNCHANGED <<c, header, buf, init_try, maxlen, hostVars, faults>>

(* The read that ends an iteration; a time-out is looked at in CtlOther.   *)
NextByte(ch) ==
  /\ pc = "next"
  /\ Getc(ch)
  /\ c' = ch
  /\ pc' = "ctl"
  /\ UNCHANGED <<header, buf, init_try, expected_blk, stored, write_offset, result, tx,
                 maxlen, hostVars, faults>>

Receiver ==
  \/ SendC \/ CtlEnd \/ CtlHeader
  \/ \E ch \in Bytes : \/ InitWait(ch) \/ CtlOther(ch) \/ FirstByte(ch)
                       \/ SecondByte(ch) \/ Data(ch) \/ EndOfFrame(ch)
                       \/ NextByte(ch)

-----------------------------------------------------------------------------
(* The host. *)

HostStart ==
  /\ host = "start"
  /\ tx # << >>
  /\ tx' = << >>
  /\ host' = IF File = << >> THEN "eot" ELSE "send"
  /\ UNCHANGED <<blk, retries, rx, recvVars, faults>>

HostSend ==
  /\ \/ /\ host = "send"
        /\ rx' = rx \o Frame(blk)
        /\ host' = "wait"
     \/ /\ host = "eot"
        /\ rx' = Append(rx, Plain(EOT))
        /\ host' = "eot_wait"
  /\ UNCHANGED <<blk, retries, tx, recvVars, faults>>

HostCancel ==
  /\ host = "send"
  /\ rx' = Append(rx, Plain(CAN))
  /\ host' = "abort"
  /\ UNCHANGED <<blk, retries, tx, recvVars, faults>>

HostAck ==
  /\ host \in {"wait", "eot_wait"}
  /\ tx # << >> /\ Head(tx) = ACK
  /\ tx' = Tail(tx)
  /\ retries' = 0
  /\ \/ host = "eot_wait" /\ host' = "done" /\ UNCHANGED blk
     \/ /\ host = "wait"
        /\ blk' = blk + 1
        /\ host' = IF blk = Len(File) THEN "eot" ELSE "send"
  /\ UNCHANGED <<rx, recvVars, faults>>

(* A NAK, a C or a silence: again, or not any more. *)
HostRetry ==
  /\ host \in {"wait", "eot_wait"}
  /\ \/ tx # << >> /\ Head(tx) \in {NAK, CHAR_C} /\ tx' = Tail(tx)
     \/ Silent /\ UNCHANGED tx
  /\ IF retries = MaxRetries
     THEN host' = "abort" /\ UNCHANGED retries
     ELSE /\ retries' = retries + 1
          /\ host' = IF host = "wait" THEN "send" ELSE "eot"
  /\ UNCHANGED <<blk, rx, recvVars, faults>>

HostCancelled ==
  /\ host \in {"wait", "eot_wait"}
  /\ tx # << >> /\ Head(tx) = CAN
  /\ tx' = << >>
  /\ host' = "abort"
  /\ UNCHANGED <<blk, retries, rx, recvVars, faults>>

(* What is sent to a host that has stopped is lost. *)
HostGone ==
  /\ host \in {"done", "abort"}
  /\ tx # << >>
  /\ tx' = << >>
  /\ UNCHANGED <<hostVars, rx, recvVars, faults>>

(* What reaches the board after the receiver has returned is not for it. *)
Unread ==
  /\ pc = "done"
  /\ rx # << >>
  /\ rx' = << >>
  /\ UNCHANGED <<hostVars, tx, recvVars, faults>>

Host == HostStart \/ HostSend \/ HostAck \/ HostRetry \/ HostCancelled
        \/ HostGone \/ Unread

-----------------------------------------------------------------------------
(* The line. *)

DamageByte(i) ==
  /\ damaged < MaxDamage
  /\ damaged' = damaged + 1
  /\ rx' \in {[rx EXCEPT ![i] = Damaged], RemoveAt(rx, i)}
  /\ UNCHANGED <<lost, tx, recvVars, hostVars>>

LoseReply ==
  /\ lost < MaxLost
  /\ lost' = lost + 1
  /\ tx # << >>
  /\ tx' = Tail(tx)
  /\ UNCHANGED <<damaged, rx, recvVars, hostVars>>

Over == pc = "done" /\ Silent /\ host # "wait" /\ UNCHANGED vars

Next == \/ Receiver \/ Host \/ HostCancel \/ LoseReply
        \/ \E i \in DOMAIN rx : DamageByte(i)
        \/ Over

Spec == Init /\ [][Next]_vars

FairSpec == Spec /\ WF_vars(Receiver) /\ WF_vars(Host)

-----------------------------------------------------------------------------

(* Whatever the line damages, loses or repeats: the buffer holds the first *)
(* blocks of the file, each once, in order and intact.                     *)
StoredIsPrefix ==
  /\ Len(stored) <= Len(File)
  /\ \A i \in DOMAIN stored : stored[i] = File[i].data

(* Neither the caller's buffer nor the frame buffer is ever overrun,       *)
(* whatever length the headers of damaged frames announce, and the start   *)
(* is not tried more often than MAX_INIT_RETRIES.                          *)
WithinBuffer ==
  /\ write_offset <= maxlen
  /\ Len(buf) <= Size(STX)
  /\ init_try <= MAX_INIT_RETRIES

(* Lost replies, time-outs and the retransmissions they cause never give   *)
(* the host an ACK for a block that is not stored: it never moves on, or   *)
(* ends the file, ahead of the receiver.  (A damaged byte can do that: the *)
(* receiver then looks for a header inside the frame, may answer one frame *)
(* twice, and the extra ACK is taken for the next block.)                  *)
HostNeverAhead == damaged = 0 => blk - 1 <= Len(stored)

(* What uart_test reports as "XMODEM Receive SUCCESS" (a result > 0) is    *)
(* the whole file.                                                         *)
SuccessIsComplete ==
  result # << >> /\ result[1] > 0 
    => stored = [k \in DOMAIN File |-> File[k].data]

(* The receiver returns in the end, whatever the host and the line do: it  *)
(* counts no retries of its own (MAX_BLOCK_RETRIES is unused), so it rests *)
(* on the host giving up and on the ten seconds of silence.                *)
ReceiverReturns == <>(pc = "done")
=============================================================================
