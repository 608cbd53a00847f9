--------------------------- MODULE XmodemProofs ---------------------------
(***************************************************************************)
(* Proofs about module Xmodem, for every file (of any number of blocks,    *)
(* though the numbers on the line are modulo 256), every buffer and any    *)
(* number of damaged bytes, lost replies and retransmissions.              *)
(***************************************************************************)
EXTENDS Xmodem, SequenceTheorems, TLAPS

Payload == Seq(0 .. ByteMod - 1)
Byte == [v : 0 .. ByteMod - 1, crc : Payload]

BlockData == {File[k].data : k \in DOMAIN File}

-----------------------------------------------------------------------------
(* What holds on any line. *)

Typed ==
  /\ maxlen \in Nat
  /\ pc \in {"init", "init_wait", "ctl", "b1", "b2", "data", "crc", "next", "done"}
  /\ c \in Byte \cup {None} /\ header \in Seq(Int) /\ buf \in Seq(Int)
  /\ init_try \in Nat /\ expected_blk \in 0 .. ByteMod - 1
  /\ stored \in Seq(Payload) /\ write_offset \in Nat
  /\ rx \in Seq(Byte) /\ tx \in Seq(Int)
  /\ blk \in Nat /\ damaged \in Nat

(* The bounds of the receiver's two buffers and of its start. *)
Bounded ==
  /\ write_offset <= maxlen
  /\ pc \in {"b1", "b2"} => Len(buf) = 0
  /\ pc = "data" => Len(buf) < Size(c.v)
  /\ pc = "crc" => Len(buf) = Size(c.v)
  /\ Len(buf) <= Size(STX)
  /\ init_try <= MAX_INIT_RETRIES
  /\ pc = "init" => init_try < MAX_INIT_RETRIES

(* The CRC of a block comes from nowhere but the host, and only what a CRC *)
(* confirms is stored.                                                     *)
Confirmed ==
  /\ \A i \in DOMAIN rx : rx[i].crc \in {<< >>} \cup BlockData
  /\ \A i \in DOMAIN stored : stored[i] \in BlockData
  /\ expected_blk = (Len(stored) + 1) % ByteMod

(* The host goes through the file block by block. *)
HostInFile ==
  /\ host \in {"start", "send", "wait", "eot", "eot_wait", "done", "abort"}
  /\ blk \in 1 .. Len(File) + 1
  /\ host = "start" => blk = 1
  /\ host \in {"send", "wait"} => blk <= Len(File)
  /\ host \in {"eot", "eot_wait", "done"} => blk = Len(File) + 1

LineInv == Typed /\ Bounded /\ Confirmed /\ HostInFile

-----------------------------------------------------------------------------
(* What holds as long as the line has damaged no byte. *)

(* The line holds the current frame from its p-th byte on. *)
FrameFrom(p) ==
  /\ host = "wait" /\ tx = << >>
  /\ Len(rx) = Len(Frame(blk)) + 1 - p
  /\ \A i \in DOMAIN rx : rx[i] = Frame(blk)[p + i - 1]

(* The line brings nothing, or what the host has just sent. *)
Arriving ==
  \/ rx = << >>
  \/ FrameFrom(1)
  \/ rx = <<Plain(EOT)>> /\ tx = << >> /\ host = "eot_wait"
  \/ rx = <<Plain(CAN)>> /\ tx = << >> /\ host = "abort"

(* The receiver asks for the file. *)
Starting ==
  /\ pc \in {"init", "init_wait"} /\ stored = << >> /\ blk = 1
  /\ \/ host = "start" /\ rx = << >> /\ (tx = << >> \/ (pc = "init_wait" /\ tx = <<CHAR_C>>))
     \/ pc = "init_wait" /\ tx = << >> /\ rx = << >> /\ host \in {"send", "eot"}
     \/ pc = "init_wait" /\ rx # << >> /\ Arriving

(* It has answered a block and waits for what follows. *)
Between ==
  /\ pc = "next" /\ host \notin {"start", "done"} /\ Arriving
  /\ tx = << >> \/ (tx = <<ACK>> /\ rx = << >> /\ host = "wait" /\ Len(stored) = blk)

(* That wait has timed out once. *)
Waiting == pc = "ctl" /\ c = None /\ tx = << >> /\ host \notin {"start", "done"} /\ Arriving

(* It reads a frame: where it is in it, and what it has read. *)
Following ==
  /\ host = "wait" /\ c = Plain(File[blk].hdr)
  /\ \/ pc \in {"ctl", "b1"} /\ FrameFrom(2)
     \/ pc = "b2" /\ FrameFrom(3) /\ header = <<blk % ByteMod>>
     \/ /\ pc \in {"data", "crc"} /\ FrameFrom(4 + Len(buf))
        /\ header[1] = blk % ByteMod
        /\ \A i \in 1 .. Len(buf) : buf[i] = File[blk].data[i]

(* It has read the EOT, which the host may send again, or the CAN. *)
Ending ==
  /\ pc = "ctl" /\ c = Plain(EOT) /\ tx = << >> /\ blk = Len(File) + 1
  /\ \/ rx = << >> /\ host \in {"eot", "eot_wait", "abort"}
     \/ rx = <<Plain(EOT)>> /\ host = "eot_wait"

Cancelled == pc = "ctl" /\ c = Plain(CAN) /\ rx = << >> /\ tx = << >> /\ host = "abort"

(* It has returned; an ACK still on its way is the one of the EOT. *)
Finished ==
  /\ pc = "done" /\ tx \in {<< >>, <<ACK>>, <<CAN, CAN>>, <<CAN>>}
  /\ tx = <<ACK>> => blk = Len(File) + 1
  /\ host = "start" => tx = << >>

Together ==
  Starting \/ Between \/ Waiting \/ Following \/ Ending \/ Cancelled \/ Finished

(* The host is at the block after the last one stored, or, until it has    *)
(* got the ACK for it, still at that one.                                  *)
InStep ==
  /\ blk - 1 <= Len(stored) /\ Len(stored) <= blk /\ Len(stored) <= Len(File)
  /\ \A i \in DOMAIN stored : stored[i] = File[i].data
  /\ result # << >> /\ result[1] > 0 => Len(stored) = Len(File)

Intact == damaged = 0 => Together /\ InStep

-----------------------------------------------------------------------------
(* The frame of a block. *)

LEMMA BlockFacts ==
  ASSUME NEW k \in 1 .. Len(File)
  PROVE  /\ k \in DOMAIN File
         /\ File[k].hdr \in {SOH, STX} /\ File[k].data \in Payload
         /\ Len(File[k].data) = Size(File[k].hdr) /\ Len(File[k].data) \in 1 .. Size(STX)
<1>1. k \in DOMAIN File /\ File[k] \in [hdr : {SOH, STX}, data : Seq(0 .. ByteMod - 1)]
  <2>1. File \in Seq([hdr : {SOH, STX}, data : Seq(0 .. ByteMod - 1)])
    BY FileOK
  <2> QED
    BY <2>1, LenProperties, ElementOfSeq
<1>2. Len(File[k].data) = Size(File[k].hdr)
  BY <1>1, FileOK
<1> QED
  BY <1>1, <1>2 DEF Payload, Size, SOH, STX

(* Three header elements, the data and one element for the CRC. *)
LEMMA Framed ==
  ASSUME NEW S, NEW x \in S, NEW y \in S, NEW z \in S, NEW d \in Seq(S), NEW t \in S
  PROVE  LET f == <<x, y, z>> \o d \o <<t>> IN
         /\ f \in Seq(S) /\ Len(f) = Len(d) + 4
         /\ f[1] = x /\ f[2] = y /\ f[3] = z
         /\ \A i \in 1 .. Len(d) : f[3 + i] = d[i]
         /\ f[4 + Len(d)] = t
<1> DEFINE h == <<x, y, z>>
           hd == h \o d
           u == <<t>>
<1>1. h \in Seq(S) /\ Len(h) = 3 /\ h[1] = x /\ h[2] = y /\ h[3] = z
  OBVIOUS
<1>2. u \in Seq(S) /\ Len(u) = 1 /\ u[1] = t
  OBVIOUS
<1> HIDE DEF h, u
<1>3. /\ hd \in Seq(S) /\ Len(hd) = Len(h) + Len(d)
      /\ \A i \in 1 .. Len(h) + Len(d) : hd[i] = IF i <= Len(h) THEN h[i] ELSE d[i - Len(h)]
  BY <1>1, ConcatProperties
<1> HIDE DEF hd
<1>4. /\ hd \o u \in Seq(S) /\ Len(hd \o u) = Len(hd) + Len(u)
      /\ \A i \in 1 .. Len(hd) + Len(u) :
           (hd \o u)[i] = IF i <= Len(hd) THEN hd[i] ELSE u[i - Len(hd)]
  <2>1. hd \in Seq(S) /\ u \in Seq(S)
    BY <1>2, <1>3
  <2> QED
    BY <2>1, ConcatProperties
<1> DEFINE f == hd \o u
<1> HIDE DEF f
<1>5. Len(d) \in Nat
  BY LenProperties
<1>6. /\ f \in Seq(S) /\ Len(f) = Len(d) + 4
      /\ f[1] = x /\ f[2] = y /\ f[3] = z
      /\ \A i \in 1 .. Len(d) : f[3 + i] = d[i]
      /\ f[4 + Len(d)] = t
  <2>1. \A i \in 1 .. 3 + Len(d) : f[i] = IF i <= 3 THEN h[i] ELSE d[i - 3]
    BY <1>1, <1>2, <1>3, <1>4, <1>5 DEF f
  <2>2. \A i \in 1 .. Len(d) : f[3 + i] = d[i]
    BY <2>1, <1>5
  <2>3. f[1] = x /\ f[2] = y /\ f[3] = z
    BY <2>1, <1>1, <1>5
  <2>4. f[4 + Len(d)] = t
    BY <1>1, <1>2, <1>3, <1>4, <1>5 DEF f
  <2> QED
    BY <2>2, <2>3, <2>4, <1>1, <1>2, <1>3, <1>4, <1>5 DEF f
<1> QED
  BY <1>6 DEF f, hd, h, u

LEMMA FrameFacts ==
  ASSUME NEW k \in 1 .. Len(File)
  PROVE  /\ Frame(k) \in Seq(Byte)
         /\ Len(Frame(k)) = Len(File[k].data) + 4
         /\ Frame(k)[1] = Plain(File[k].hdr)
         /\ Frame(k)[2] = Plain(k % ByteMod)
         /\ Frame(k)[3] = Plain(ByteMod - 1 - (k % ByteMod))
         /\ \A i \in 1 .. Len(File[k].data) : Frame(k)[3 + i] = Plain(File[k].data[i])
         /\ Frame(k)[4 + Len(File[k].data)] = [v |-> 0, crc |-> File[k].data]
<1> DEFINE data == File[k].data
           n == k % ByteMod
           d == [i \in DOMAIN data |-> Plain(data[i])]
<1>1. /\ data \in Payload /\ Len(data) \in Nat /\ DOMAIN data = 1 .. Len(data)
      /\ \A i \in 1 .. Len(data) : data[i] \in 0 .. ByteMod - 1
      /\ File[k].hdr \in 0 .. ByteMod - 1
  <2>1. data \in Payload /\ File[k].hdr \in {SOH, STX}
    BY BlockFacts
  <2>2. data \in Seq(0 .. ByteMod - 1)
    BY <2>1 DEF Payload
  <2> HIDE DEF data
  <2> QED
    BY <2>1, <2>2, LenProperties, ElementOfSeq DEF SOH, STX, ByteMod
<1>2. n \in 0 .. ByteMod - 1 /\ ByteMod - 1 - n \in 0 .. ByteMod - 1
  BY DEF ByteMod
<1>3. \A m \in 0 .. ByteMod - 1 : Plain(m) \in Byte
  BY DEF Plain, Byte, Payload
<1>4. d \in Seq(Byte) /\ Len(d) = Len(data) /\ \A i \in 1 .. Len(data) : d[i] = Plain(data[i])
  <2> HIDE DEF data
  <2>1. \A i \in 1 .. Len(data) : Plain(data[i]) \in Byte
    BY <1>1, <1>3
  <2> QED
    BY <1>1, <2>1
<1>5. [v |-> 0, crc |-> data] \in Byte
  BY <1>1 DEF Byte, ByteMod
<1>6. Frame(k) = <<Plain(File[k].hdr), Plain(n), Plain(ByteMod - 1 - n)>> \o d
                   \o <<[v |-> 0, crc |-> data]>>
  BY DEF Frame
<1> HIDE DEF data, d, n
<1>7. Plain(File[k].hdr) \in Byte /\ Plain(n) \in Byte /\ Plain(ByteMod - 1 - n) \in Byte
  BY <1>1, <1>2, <1>3
<1>8. /\ Frame(k) \in Seq(Byte) /\ Len(Frame(k)) = Len(d) + 4
      /\ Frame(k)[1] = Plain(File[k].hdr) /\ Frame(k)[2] = Plain(n)
      /\ Frame(k)[3] = Plain(ByteMod - 1 - n)
      /\ \A i \in 1 .. Len(d) : Frame(k)[3 + i] = d[i]
      /\ Frame(k)[4 + Len(d)] = [v |-> 0, crc |-> data]
  BY <1>4, <1>5, <1>6, <1>7, Framed
<1> QED
  BY <1>4, <1>8 DEF data, n

-----------------------------------------------------------------------------
(* The invariant of any line. *)

LEMMA NoneFacts == None \notin Byte /\ None.v = -1 /\ None.crc = << >>
  BY DEF None, Plain, Byte, ByteMod

LEMMA GetcFacts ==
  ASSUME rx \in Seq(Byte), NEW ch, Getc(ch)
  PROVE  \/ ch = None /\ Silent /\ rx' = rx
         \/ /\ rx # << >> /\ ch \in Byte /\ ch = rx[1] /\ ch # None
            /\ rx' \in Seq(Byte) /\ Len(rx') = Len(rx) - 1
            /\ \A i \in DOMAIN rx' : i + 1 \in DOMAIN rx /\ rx'[i] = rx[i + 1]
<1>1. CASE rx # << >> /\ ch = Head(rx) /\ rx' = Tail(rx)
  <2>1. /\ ch = rx[1] /\ ch \in Byte /\ rx' \in Seq(Byte) /\ Len(rx') = Len(rx) - 1
        /\ \A i \in 1 .. Len(rx') : rx'[i] = rx[i + 1]
    BY <1>1, HeadTailProperties
  <2>2. DOMAIN rx' = 1 .. Len(rx') /\ DOMAIN rx = 1 .. Len(rx) /\ Len(rx) \in Nat
    BY <2>1, LenProperties
  <2>3. \A i \in DOMAIN rx' : i + 1 \in DOMAIN rx /\ rx'[i] = rx[i + 1]
    BY <2>1, <2>2
  <2>4. ch # None
    BY <2>1, NoneFacts
  <2> QED
    BY <1>1, <2>1, <2>3, <2>4
<1> QED
  BY <1>1 DEF Getc

(* A reply is appended to those on the line. *)
LEMMA Reply ==
  ASSUME tx \in Seq(Int), NEW codes \in Seq(Int), Putc(codes)
  PROVE  tx' \in Seq(Int)
  BY DEF Putc

LEMMA Replies ==
  /\ <<CHAR_C>> \in Seq(Int) /\ <<ACK>> \in Seq(Int) /\ <<NAK>> \in Seq(Int)
  /\ <<CAN, CAN>> \in Seq(Int)
  BY DEF CHAR_C, ACK, NAK, CAN

(* What is left of the line after a read comes from it. *)
LEMMA ReadLeaves ==
  ASSUME rx \in Seq(Byte), NEW ch, Getc(ch), Confirmed
  PROVE  /\ rx' \in Seq(Byte) /\ ch \in Byte \cup {None}
         /\ ch.crc \in {<< >>} \cup BlockData
         /\ \A i \in DOMAIN rx' : rx'[i].crc \in {<< >>} \cup BlockData
<1>1. rx # << >> => 1 \in DOMAIN rx
  BY LenProperties
<1> QED
  BY <1>1, GetcFacts, NoneFacts DEF Confirmed

LEMMA LineInvInit == Init => LineInv
<1> SUFFICES ASSUME Init PROVE LineInv
  OBVIOUS
<1> USE DEF Init
<1>1. Typed
  BY ReceiverConstants DEF Typed, ByteMod, None
<1>2. Bounded
  BY ReceiverConstants DEF Bounded, Size, STX, SOH
<1>3. Confirmed
  BY DEF Confirmed, ByteMod
<1>4. HostInFile
  <2>1. Len(File) \in Nat
    BY FileOK, LenProperties
  <2> QED
    BY <2>1 DEF HostInFile
<1> QED
  BY <1>1, <1>2, <1>3, <1>4 DEF LineInv

(* The steps of the receiver that store nothing. *)
Reads == \/ SendC \/ CtlEnd \/ CtlHeader
         \/ \E ch \in Bytes : \/ InitWait(ch) \/ CtlOther(ch) \/ FirstByte(ch)
                              \/ SecondByte(ch) \/ Data(ch) \/ NextByte(ch)

LEMMA ReadsFacts ==
  ASSUME LineInv, Reads
  PROVE  /\ UNCHANGED <<maxlen, expected_blk, stored, write_offset, hostVars, faults>>
         /\ rx' \in Seq(Byte) /\ tx' \in Seq(Int) /\ c' \in Byte \cup {None}
         /\ \A i \in DOMAIN rx' : rx'[i].crc \in {<< >>} \cup BlockData
<1> USE DEF LineInv, Typed
<1>1. CASE SendC
  BY <1>1, Reply, Replies DEF SendC, Confirmed
<1>2. CASE CtlEnd
  BY <1>2, Reply, Replies DEF CtlEnd, Confirmed
<1>3. CASE CtlHeader
  BY <1>3 DEF CtlHeader, Confirmed
<1>4. ASSUME NEW ch, InitWait(ch) \/ CtlOther(ch) \/ FirstByte(ch) \/ SecondByte(ch)
                       \/ Data(ch) \/ NextByte(ch)
      PROVE  /\ UNCHANGED <<maxlen, expected_blk, stored, write_offset, hostVars, faults>>
             /\ rx' \in Seq(Byte) /\ tx' \in Seq(Int) /\ c' \in Byte \cup {None}
             /\ \A i \in DOMAIN rx' : rx'[i].crc \in {<< >>} \cup BlockData
  <2>1. Getc(ch)
    BY <1>4 DEF InitWait, CtlOther, FirstByte, SecondByte, Data, NextByte
  <2>2. /\ rx' \in Seq(Byte) /\ ch \in Byte \cup {None}
        /\ \A i \in DOMAIN rx' : rx'[i].crc \in {<< >>} \cup BlockData
    BY <2>1, ReadLeaves
  <2>3. UNCHANGED <<maxlen, expected_blk, stored, write_offset, hostVars, faults>>
    BY <1>4 DEF InitWait, CtlOther, FirstByte, SecondByte, Data, NextByte
  <2>4. c' \in {c, ch}
    BY <1>4 DEF InitWait, CtlOther, FirstByte, SecondByte, Data, NextByte
  <2>5. tx' = tx \/ Putc(<<NAK>>) \/ Putc(<<CAN, CAN>>)
    BY <1>4 DEF InitWait, CtlOther, FirstByte, SecondByte, Data, NextByte
  <2>6. tx' \in Seq(Int)
    BY <2>5, Reply, Replies
  <2> QED
    BY <2>2, <2>3, <2>4, <2>6
<1> QED
  BY <1>1, <1>2, <1>3, <1>4 DEF Reads

LEMMA SizeFacts == Size(STX) = 5 /\ \A h : Size(h) \in 1 .. Size(STX)
  BY DEF Size, STX, SOH

LEMMA LineInvReads == LineInv /\ Reads => LineInv'
<1> SUFFICES ASSUME LineInv, Reads PROVE LineInv'
  OBVIOUS
<1> USE DEF LineInv
<1>1. /\ UNCHANGED <<maxlen, expected_blk, stored, write_offset, hostVars, faults>>
      /\ rx' \in Seq(Byte) /\ tx' \in Seq(Int) /\ c' \in Byte \cup {None}
      /\ \A i \in DOMAIN rx' : rx'[i].crc \in {<< >>} \cup BlockData
  BY ReadsFacts
<1>2. /\ pc' \in {"init", "init_wait", "ctl", "b1", "b2", "data", "crc", "next", "done"}
      /\ header' \in Seq(Int) /\ buf' \in Seq(Int) /\ init_try' \in Nat
      /\ Bounded'
  <2> USE DEF Typed, Bounded
  <2>1. \A ch \in Byte \cup {None} : ch.v \in Int
    BY NoneFacts DEF Byte
  <2>2. CASE SendC
    BY <2>2, ReceiverConstants DEF SendC
  <2>3. CASE CtlEnd
    BY <2>3 DEF CtlEnd, Return
  <2>4. CASE CtlHeader
    BY <2>4, SizeFacts DEF CtlHeader
  <2>5. ASSUME NEW ch, InitWait(ch) \/ CtlOther(ch) \/ NextByte(ch)
        PROVE  /\ pc' \in {"init", "ctl", "done"}
               /\ UNCHANGED <<header, buf, init_try>> /\ Bounded'
    BY <1>1, <2>5 DEF InitWait, CtlOther, NextByte, Return
  <2>6. ASSUME NEW ch \in Byte \cup {None}, FirstByte(ch)
        PROVE  pc' = "b2" /\ header' \in Seq(Int) /\ UNCHANGED <<buf, init_try>> /\ Bounded'
    BY <1>1, <2>1, <2>6 DEF FirstByte
  <2>7. ASSUME NEW ch \in Byte \cup {None}, SecondByte(ch)
        PROVE  /\ pc' \in {"data", "next", "done"} /\ header' \in Seq(Int)
               /\ UNCHANGED <<buf, init_try>> /\ Bounded'
    <3>1. header' \in Seq(Int) /\ pc = "b2" /\ UNCHANGED <<c, buf, init_try>>
      BY <2>1, <2>7 DEF SecondByte
    <3>2. pc' \in {"data", "next", "done"}
      BY <2>7 DEF SecondByte, Return
    <3>3. Len(buf) < Size(c.v)
      <4>1. Len(buf) = 0
        BY <3>1
      <4>2. Size(c.v) \in 1 .. Size(STX) /\ Size(STX) = 5
        BY SizeFacts
      <4> QED
        BY <4>1, <4>2
    <3> QED
      BY <1>1, <3>1, <3>2, <3>3
  <2>8. ASSUME NEW ch \in Byte \cup {None}, Data(ch)
        PROVE  /\ pc' \in {"data", "crc", "done"} /\ buf' \in Seq(Int)
               /\ UNCHANGED <<header, init_try>> /\ Bounded'
    <3>1. CASE ch = None
      BY <1>1, <2>8, <3>1 DEF Data, Return
    <3>2. CASE ch # None
      <4>1. /\ pc = "data" /\ buf' = Append(buf, ch.v) /\ UNCHANGED <<c, header, init_try>>
            /\ pc' = IF Len(buf) + 1 = Size(c.v) THEN "crc" ELSE "data"
        BY <2>8, <3>2 DEF Data
      <4>2. buf' \in Seq(Int) /\ Len(buf') = Len(buf) + 1 /\ Len(buf) \in Nat
        BY <4>1, <2>1
      <4>3. Len(buf) < Size(c.v) /\ Size(c.v) \in 1 .. Size(STX)
        BY <4>1, SizeFacts
      <4> QED
        BY <1>1, <4>1, <4>2, <4>3, SizeFacts
    <3> QED
      BY <3>1, <3>2
  <2>9. ASSUME NEW ch, Data(ch) \/ FirstByte(ch) \/ SecondByte(ch)
        PROVE  ch \in Byte \cup {None}
    BY <2>9, ReadLeaves DEF Data, FirstByte, SecondByte
  <2> QED
    BY <2>2, <2>3, <2>4, <2>5, <2>6, <2>7, <2>8, <2>9 DEF Reads
<1> QED
  BY <1>1, <1>2 DEF Typed, Confirmed, HostInFile, hostVars, faults

(* The end of a frame: the only step that may store. *)
LEMMA LineInvEndOfFrame ==
  ASSUME LineInv, NEW ch, EndOfFrame(ch)
  PROVE  LineInv'
<1> USE DEF LineInv
<1>1. /\ pc = "crc" /\ UNCHANGED <<c, header, buf, init_try, maxlen, hostVars, faults>>
      /\ Getc(ch)
  BY DEF EndOfFrame
<1>2. /\ rx' \in Seq(Byte) /\ ch \in Byte \cup {None}
      /\ ch.crc \in {<< >>} \cup BlockData
      /\ \A i \in DOMAIN rx' : rx'[i].crc \in {<< >>} \cup BlockData
  BY <1>1, ReadLeaves DEF Typed
<1>3. /\ pc' \in {"next", "done"}
      /\ Putc(<<ACK>>) \/ Putc(<<NAK>>) \/ Putc(<<CAN, CAN>>)
      /\ UNCHANGED <<stored, write_offset, expected_blk>> \/ Store(ch)
  BY DEF EndOfFrame, CrcTimeout, WrongNumber, WrongCrc, Overflow, Store, Return
<1>4. tx' \in Seq(Int)
  BY <1>3, Reply, Replies DEF Typed
<1>5. /\ stored' \in Seq(Payload) /\ expected_blk' \in 0 .. ByteMod - 1
      /\ write_offset' \in Nat /\ write_offset' <= maxlen
      /\ \A i \in DOMAIN stored' : stored'[i] \in BlockData
      /\ expected_blk' = (Len(stored') + 1) % ByteMod
  <2>1. CASE UNCHANGED <<stored, write_offset, expected_blk>>
    BY <2>1 DEF Typed, Bounded, Confirmed
  <2>2. CASE Store(ch)
    <3>1. Len(buf) \in Nat /\ Len(buf) > 0
      <4>1. Len(buf) = Size(c.v) /\ Size(c.v) \in 1 .. Size(STX) /\ Size(STX) = 5
        BY <1>1, SizeFacts DEF Bounded
      <4> QED
        BY <4>1
    <3>2. buf \in BlockData /\ buf \in Payload
      <4>1. buf = ch.crc /\ buf # << >>
        BY <2>2, <3>1 DEF Store, CrcOk
      <4>2. BlockData \subseteq Payload
        <5>1. \A k \in DOMAIN File : k \in 1 .. Len(File)
          BY FileOK
        <5> QED
          BY <5>1, BlockFacts DEF BlockData
      <4> QED
        BY <1>2, <4>1, <4>2
    <3>3. /\ stored' = Append(stored, buf) /\ write_offset' = write_offset + Len(buf)
          /\ write_offset + Len(buf) <= maxlen
          /\ expected_blk' = (expected_blk + 1) % ByteMod
      BY <2>2 DEF Store
    <3>4. /\ stored' \in Seq(Payload) /\ Len(stored') = Len(stored) + 1
          /\ \A i \in DOMAIN stored' : stored'[i] \in BlockData
      BY <3>2, <3>3 DEF Typed, Confirmed
    <3>5. expected_blk' = (Len(stored') + 1) % ByteMod
      <4>1. expected_blk = (Len(stored) + 1) % ByteMod /\ Len(stored) \in Nat
        BY DEF Confirmed, Typed
      <4> QED
        BY <3>3, <3>4, <4>1 DEF ByteMod
    <3>6. (expected_blk + 1) % ByteMod \in 0 .. ByteMod - 1
      BY DEF Typed, ByteMod
    <3>7. write_offset' \in Nat /\ write_offset' <= maxlen
      BY <3>1, <3>3 DEF Typed
    <3> QED
      BY <3>3, <3>4, <3>5, <3>6, <3>7
  <2> QED
    BY <1>3, <2>1, <2>2
<1>6. Bounded'
  BY <1>1, <1>3, <1>5 DEF Bounded
<1> QED
  BY <1>1, <1>2, <1>3, <1>4, <1>5, <1>6 DEF Typed, Confirmed, HostInFile, hostVars, faults

LEMMA LineInvReceiver == LineInv /\ Receiver => LineInv'
  BY LineInvReads, LineInvEndOfFrame DEF Receiver, Reads

(* The host and the line change nothing of the receiver. *)
LEMMA RecvUnchanged ==
  ASSUME LineInv, UNCHANGED recvVars, HostInFile',
         rx' \in Seq(Byte), tx' \in Seq(Int), damaged' \in Nat,
         \A i \in DOMAIN rx' : rx'[i].crc \in {<< >>} \cup BlockData
  PROVE  LineInv'
  BY DEF LineInv, Typed, Bounded, Confirmed, HostInFile, recvVars

LEMMA PlainFacts ==
  /\ Plain(EOT) \in Byte /\ Plain(CAN) \in Byte /\ Damaged \in Byte
  /\ \A n : Plain(n).crc = << >>
  BY DEF Plain, Byte, Payload, ByteMod, EOT, CAN, Damaged

LEMMA FrameCrcs ==
  ASSUME NEW k \in 1 .. Len(File)
  PROVE  \A i \in DOMAIN Frame(k) : Frame(k)[i].crc \in {<< >>} \cup BlockData
<1> SUFFICES ASSUME NEW i \in DOMAIN Frame(k)
             PROVE  Frame(k)[i].crc \in {<< >>} \cup BlockData
  OBVIOUS
<1> DEFINE d == File[k].data
           f == Frame(k)
<1>1. /\ f \in Seq(Byte) /\ Len(f) = Len(d) + 4
      /\ f[1].crc = << >> /\ f[2].crc = << >> /\ f[3].crc = << >>
      /\ \A j \in 1 .. Len(d) : f[3 + j].crc = << >>
      /\ f[4 + Len(d)].crc = d
  <2>1. /\ f \in Seq(Byte) /\ Len(f) = Len(d) + 4
        /\ f[1] = Plain(File[k].hdr) /\ f[2] = Plain(k % ByteMod)
        /\ f[3] = Plain(ByteMod - 1 - (k % ByteMod))
        /\ \A j \in 1 .. Len(d) : f[3 + j] = Plain(d[j])
        /\ f[4 + Len(d)] = [v |-> 0, crc |-> d]
    BY FrameFacts
  <2> HIDE DEF d, f
  <2> QED
    BY <2>1, PlainFacts
<1>2. Len(d) \in Nat /\ d \in BlockData
  BY BlockFacts DEF BlockData, Size, STX, SOH
<1> HIDE DEF d, f
<1>3. i \in 1 .. Len(d) + 4
  BY <1>1, <1>2 DEF f
<1>4. CASE i \in 4 .. Len(d) + 3
  <2>1. i - 3 \in 1 .. Len(d) /\ 3 + (i - 3) = i
    BY <1>2, <1>4
  <2>2. f[3 + (i - 3)].crc = << >>
    BY <2>1, <1>1
  <2> QED
    BY <2>1, <2>2 DEF f
<1> QED
  BY <1>1, <1>2, <1>3, <1>4 DEF f

LEMMA CrcsOfConcat ==
  ASSUME NEW s \in Seq(Byte), NEW t \in Seq(Byte), NEW Crcs,
         \A i \in DOMAIN s : s[i].crc \in Crcs, \A i \in DOMAIN t : t[i].crc \in Crcs
  PROVE  /\ s \o t \in Seq(Byte)
         /\ \A i \in DOMAIN (s \o t) : (s \o t)[i].crc \in Crcs
<1>1. /\ s \o t \in Seq(Byte) /\ Len(s \o t) = Len(s) + Len(t)
      /\ \A i \in 1 .. Len(s) + Len(t) : (s \o t)[i] = IF i <= Len(s) THEN s[i] ELSE t[i - Len(s)]
  BY ConcatProperties
<1>2. /\ DOMAIN (s \o t) = 1 .. Len(s) + Len(t) /\ DOMAIN s = 1 .. Len(s)
      /\ DOMAIN t = 1 .. Len(t) /\ Len(s) \in Nat /\ Len(t) \in Nat
  BY <1>1, LenProperties
<1>3. ASSUME NEW i \in 1 .. Len(s) + Len(t) PROVE (s \o t)[i].crc \in Crcs
  <2>1. CASE i <= Len(s)
    BY <2>1, <1>1, <1>2
  <2>2. CASE ~ i <= Len(s)
    <3>1. i - Len(s) \in DOMAIN t /\ (s \o t)[i] = t[i - Len(s)]
      BY <2>2, <1>1, <1>2
    <3> QED
      BY <3>1
  <2> QED
    BY <2>1, <2>2
<1> QED
  BY <1>1, <1>2, <1>3

LEMMA LineInvHost == LineInv /\ (Host \/ HostCancel) => LineInv'
<1> SUFFICES ASSUME LineInv, Host \/ HostCancel PROVE LineInv'
  OBVIOUS
<1> DEFINE Crcs == {<< >>} \cup BlockData
<1>1. UNCHANGED recvVars /\ UNCHANGED faults
  BY DEF Host, HostCancel, HostStart, HostSend, HostAck, HostRetry, HostCancelled, HostGone,
         Unread
<1>2. HostInFile'
  <2> USE DEF LineInv, HostInFile
  <2>1. Len(File) \in Nat /\ (File = << >> <=> Len(File) = 0)
    BY FileOK, EmptySeq, LenProperties
  <2>2. CASE HostStart
    BY <2>1, <2>2 DEF HostStart
  <2>3. CASE HostSend \/ HostRetry \/ HostCancelled \/ HostGone \/ HostCancel \/ Unread
    BY <2>3 DEF HostSend, HostRetry, HostCancelled, HostGone, HostCancel, Unread, hostVars
  <2>4. CASE HostAck
    BY <2>1, <2>4 DEF HostAck
  <2> QED
    BY <2>2, <2>3, <2>4 DEF Host
<1>3. tx' \in Seq(Int)
  <2>1. tx' \in {tx, << >>} \/ (tx # << >> /\ tx' = Tail(tx))
    BY DEF Host, HostCancel, HostStart, HostSend, HostAck, HostRetry, HostCancelled, HostGone,
           Unread
  <2>2. tx \in Seq(Int) /\ << >> \in Seq(Int) /\ (tx # << >> => Tail(tx) \in Seq(Int))
    BY HeadTailProperties DEF LineInv, Typed
  <2> QED
    BY <2>1, <2>2
<1>4. rx' \in Seq(Byte) /\ \A i \in DOMAIN rx' : rx'[i].crc \in Crcs
  <2>1. rx \in Seq(Byte) /\ \A i \in DOMAIN rx : rx[i].crc \in Crcs
    BY DEF LineInv, Typed, Confirmed
  <2>2. CASE rx' \in {rx, << >>}
    <3>1. << >> \in Seq(Byte) /\ DOMAIN << >> = {}
      OBVIOUS
    <3> QED
      BY <2>1, <2>2, <3>1
  <2>3. CASE host = "send" /\ rx' = rx \o Frame(blk)
    <3>1. blk \in 1 .. Len(File)
      BY <2>3 DEF LineInv, HostInFile
    <3>2. Frame(blk) \in Seq(Byte) /\ \A i \in DOMAIN Frame(blk) : Frame(blk)[i].crc \in Crcs
      BY <3>1, FrameFacts, FrameCrcs
    <3> HIDE DEF Crcs
    <3> QED
      BY <2>1, <2>3, <3>2, CrcsOfConcat
  <2>4. ASSUME NEW code \in {EOT, CAN}, rx' = Append(rx, Plain(code))
        PROVE  rx' \in Seq(Byte) /\ \A i \in DOMAIN rx' : rx'[i].crc \in Crcs
    <3>1. Plain(code) \in Byte /\ Plain(code).crc \in Crcs
      BY PlainFacts
    <3>2. /\ rx' \in Seq(Byte) /\ Len(rx') = Len(rx) + 1 /\ rx'[Len(rx) + 1] = Plain(code)
          /\ \A i \in 1 .. Len(rx) : rx'[i] = rx[i]
      BY <3>1, <2>1, <2>4, AppendProperties
    <3>3. DOMAIN rx' = 1 .. Len(rx) + 1 /\ DOMAIN rx = 1 .. Len(rx) /\ Len(rx) \in Nat
      BY <3>2, <2>1, LenProperties
    <3> HIDE DEF Crcs
    <3> QED
      BY <3>1, <3>2, <3>3, <2>1
  <2> QED
    BY <2>2, <2>3, <2>4
       DEF Host, HostCancel, HostStart, HostSend, HostAck, HostRetry, HostCancelled, HostGone,
           Unread
<1> QED
  BY <1>1, <1>2, <1>3, <1>4, RecvUnchanged DEF LineInv, Typed, faults

LEMMA LineInvFaults ==
  LineInv /\ (LoseReply \/ \E i \in DOMAIN rx : DamageByte(i)) => LineInv'
<1> SUFFICES ASSUME LineInv, LoseReply \/ \E i \in DOMAIN rx : DamageByte(i) PROVE LineInv'
  OBVIOUS
<1> DEFINE Crcs == {<< >>} \cup BlockData
<1>1. UNCHANGED recvVars /\ UNCHANGED hostVars
  BY DEF LoseReply, DamageByte
<1>2. HostInFile'
  BY <1>1 DEF LineInv, HostInFile, hostVars
<1>3. tx' \in Seq(Int) /\ damaged' \in Nat
  <2>1. damaged' \in {damaged, damaged + 1}
    BY DEF LoseReply, DamageByte
  <2>2. tx' = tx \/ (tx # << >> /\ tx' = Tail(tx))
    BY DEF LoseReply, DamageByte
  <2>3. tx \in Seq(Int) /\ (tx # << >> => Tail(tx) \in Seq(Int)) /\ damaged \in Nat
    BY HeadTailProperties DEF LineInv, Typed
  <2> QED
    BY <2>1, <2>2, <2>3
<1>4. rx' \in Seq(Byte) /\ \A i \in DOMAIN rx' : rx'[i].crc \in Crcs
  <2>1. /\ rx \in Seq(Byte) /\ \A i \in DOMAIN rx : rx[i].crc \in Crcs
        /\ DOMAIN rx = 1 .. Len(rx) /\ Len(rx) \in Nat
    BY LenProperties DEF LineInv, Typed, Confirmed
  <2>2. CASE LoseReply
    BY <2>1, <2>2 DEF LoseReply
  <2>3. ASSUME NEW i \in DOMAIN rx, DamageByte(i)
        PROVE  rx' \in Seq(Byte) /\ \A j \in DOMAIN rx' : rx'[j].crc \in Crcs
    <3>1. CASE rx' = [rx EXCEPT ![i] = Damaged]
      <4>1. Damaged \in Byte /\ Damaged.crc \in Crcs
        BY PlainFacts DEF Damaged
      <4> HIDE DEF Crcs
      <4> QED
        BY <2>1, <3>1, <4>1, ExceptSeq
    <3>2. CASE rx' = RemoveAt(rx, i)
      <4> DEFINE s == SubSeq(rx, 1, i - 1)
                 t == SubSeq(rx, i + 1, Len(rx))
      <4>1. /\ s \in Seq(Byte) /\ Len(s) = i - 1 /\ \A j \in 1 .. i - 1 : s[j] = rx[j]
        BY <2>1, SubSeqProperties
      <4>2. /\ t \in Seq(Byte) /\ Len(t) = Len(rx) - i
            /\ \A j \in 1 .. Len(rx) - i : t[j] = rx[i + j]
        BY <2>1, SubSeqProperties
      <4>3. /\ \A j \in DOMAIN s : s[j].crc \in Crcs
            /\ \A j \in DOMAIN t : t[j].crc \in Crcs
        <5> HIDE DEF s, t, Crcs
        <5>1. DOMAIN s = 1 .. i - 1 /\ DOMAIN t = 1 .. Len(rx) - i
          BY <4>1, <4>2, LenProperties
        <5>2. \A j \in 1 .. i - 1 : j \in DOMAIN rx
          BY <2>1
        <5>3. \A j \in 1 .. Len(rx) - i : i + j \in DOMAIN rx
          BY <2>1
        <5> QED
          BY <2>1, <4>1, <4>2, <5>1, <5>2, <5>3
      <4>4. rx' = s \o t
        BY <3>2 DEF RemoveAt
      <4> HIDE DEF s, t, Crcs
      <4> QED
        BY <4>1, <4>2, <4>3, <4>4, CrcsOfConcat
    <3> QED
      BY <2>3, <3>1, <3>2 DEF DamageByte
  <2> QED
    BY <2>2, <2>3
<1> QED
  BY <1>1, <1>2, <1>3, <1>4, RecvUnchanged

LEMMA LineInvStep == LineInv /\ [Next]_vars => LineInv'
<1> SUFFICES ASSUME LineInv, [Next]_vars PROVE LineInv'
  OBVIOUS
<1>1. CASE UNCHANGED vars
  <2>1. UNCHANGED <<recvVars, hostVars, faults, rx, tx>>
    BY <1>1 DEF vars, recvVars, hostVars, faults
  <2> QED
    BY <2>1, RecvUnchanged DEF LineInv, HostInFile, Typed, Confirmed, hostVars, faults
<1>2. CASE Next
  BY <1>1, <1>2, LineInvReceiver, LineInvHost, LineInvFaults DEF Next, Over
<1> QED
  BY <1>1, <1>2

(* The file that arrives never overruns the caller's buffer nor a block    *)
(* the frame buffer, and the start is tried MAX_INIT_RETRIES times at most *)
(* (xmodem_receive_1k), whatever the line does and however large the file. *)
THEOREM BuffersAreNeverOverrun == Spec => []WithinBuffer
<1>1. LineInv => WithinBuffer
  BY DEF LineInv, Bounded, WithinBuffer
<1> QED
  BY <1>1, LineInvInit, LineInvStep, PTL DEF Spec

(* Every block that the receiver writes is a block of the file, intact,    *)
(* whatever the line damages.                                              *)
BlocksAreIntact ==
  \A i \in DOMAIN stored : \E k \in DOMAIN File : stored[i] = File[k].data

THEOREM OnlyTheFileIsStored == Spec => []BlocksAreIntact
<1>1. LineInv => BlocksAreIntact
  BY DEF LineInv, Confirmed, BlocksAreIntact, BlockData
<1> QED
  BY <1>1, LineInvInit, LineInvStep, PTL DEF Spec

-----------------------------------------------------------------------------
(* The two sides, as long as no byte is damaged. *)

LEMMA TxFacts ==
  /\ Head(<<ACK>>) = ACK /\ Tail(<<ACK>>) = << >>
  /\ Head(<<CAN>>) = CAN /\ Tail(<<CAN>>) = << >>
  /\ Head(<<CAN, CAN>>) = CAN /\ Tail(<<CAN, CAN>>) = <<CAN>>
  /\ Head(<<CHAR_C>>) = CHAR_C /\ Tail(<<CHAR_C>>) = << >>
  /\ <<CAN>> # <<ACK>> /\ <<CAN, CAN>> # <<ACK>>
  /\ <<ACK>> # << >> /\ <<CHAR_C>> # << >>
  /\ << >> \o <<CHAR_C>> = <<CHAR_C>> /\ << >> \o <<ACK>> = <<ACK>>
  /\ << >> \o <<CAN, CAN>> = <<CAN, CAN>>
  /\ ACK # CAN /\ ACK # NAK /\ ACK # CHAR_C
  BY DEF ACK, CAN, NAK, CHAR_C

LEMMA ByteFacts ==
  /\ None.v \notin {EOT, CAN, SOH, STX}
  /\ \A n : Plain(n).v = n
  /\ EOT \notin {CAN, SOH, STX} /\ CAN \notin {SOH, STX}
  /\ \A n \in {EOT, CAN, SOH, STX} : Plain(n) # None
  BY DEF None, Plain, EOT, CAN, SOH, STX

(* The frame on the line, as FrameFrom sees it. *)
LEMMA CurrentFrame ==
  ASSUME LineInv, host = "wait"
  PROVE  /\ blk \in 1 .. Len(File) /\ File[blk].hdr \in {SOH, STX}
         /\ Len(File[blk].data) = Size(File[blk].hdr) /\ Len(File[blk].data) \in 1 .. 5
         /\ Frame(blk) \in Seq(Byte) /\ Len(Frame(blk)) = Len(File[blk].data) + 4
         /\ Frame(blk)[1] = Plain(File[blk].hdr)
         /\ Frame(blk)[2] = Plain(blk % ByteMod)
         /\ Frame(blk)[3] = Plain(ByteMod - 1 - (blk % ByteMod))
         /\ \A i \in 1 .. Len(File[blk].data) : Frame(blk)[3 + i] = Plain(File[blk].data[i])
         /\ Frame(blk)[4 + Len(File[blk].data)] = [v |-> 0, crc |-> File[blk].data]
<1>1. blk \in 1 .. Len(File)
  BY DEF LineInv, HostInFile
<1> QED
  BY <1>1, BlockFacts, FrameFacts, SizeFacts

LEMMA FrameRead ==
  ASSUME LineInv, NEW p \in Nat \ {0}, FrameFrom(p), p <= Len(Frame(blk)),
         NEW ch, Getc(ch), UNCHANGED <<tx, host, blk>>
  PROVE  ch = Frame(blk)[p] /\ ch \in Byte /\ ch # None /\ FrameFrom(p + 1)'
<1>1. /\ rx \in Seq(Byte) /\ Len(Frame(blk)) \in Nat /\ host = "wait"
  BY CurrentFrame DEF LineInv, Typed, FrameFrom
<1>2. Len(rx) = Len(Frame(blk)) + 1 - p /\ \A i \in DOMAIN rx : rx[i] = Frame(blk)[p + i - 1]
  BY DEF FrameFrom
<1>3. rx # << >> /\ 1 \in DOMAIN rx
  BY <1>1, <1>2
<1>4. /\ ch \in Byte /\ ch = rx[1] /\ ch # None
      /\ rx' \in Seq(Byte) /\ Len(rx') = Len(rx) - 1
      /\ \A i \in DOMAIN rx' : i + 1 \in DOMAIN rx /\ rx'[i] = rx[i + 1]
  BY <1>1, <1>3, GetcFacts DEF Silent
<1>5. \A i \in DOMAIN rx' : rx'[i] = Frame(blk)[p + 1 + i - 1]
  <2> SUFFICES ASSUME NEW i \in DOMAIN rx' PROVE rx'[i] = Frame(blk)[p + 1 + i - 1]
    OBVIOUS
  <2>1. i \in Nat
    BY <1>4, LenProperties
  <2>2. rx'[i] = Frame(blk)[p + (i + 1) - 1]
    BY <1>2, <1>4
  <2>3. p + (i + 1) - 1 = p + 1 + i - 1
    BY <2>1
  <2> QED
    BY <2>2, <2>3
<1>6. Len(rx') = Len(Frame(blk)) + 1 - (p + 1)
  BY <1>1, <1>2, <1>4
<1>7. Frame(blk)' = Frame(blk)
  BY DEF Frame
<1>8. ch = Frame(blk)[p]
  BY <1>2, <1>3, <1>4
<1>9. host' = "wait" /\ tx' = << >>
  BY DEF FrameFrom
<1> QED
  BY <1>4, <1>5, <1>6, <1>7, <1>8, <1>9 DEF FrameFrom

LEMMA IntactInit == Init => Intact
<1> SUFFICES ASSUME Init PROVE Starting /\ InStep
  BY DEF Intact, Together
<1>1. Len(File) \in Nat
  BY FileOK, LenProperties
<1> QED
  BY <1>1 DEF Init, Starting, InStep

(* What is read when no frame is open is the first byte of what the host   *)
(* has just sent.                                                          *)
LEMMA FirstOfArriving ==
  ASSUME LineInv, Arriving, NEW ch, Getc(ch), ch # None,
         pc' = "ctl", c' = ch, UNCHANGED <<tx, host, blk>>
  PROVE  (Following \/ Ending \/ Cancelled)'
<1>1. /\ rx # << >> /\ ch = rx[1] /\ rx' \in Seq(Byte) /\ Len(rx') = Len(rx) - 1
  BY GetcFacts DEF LineInv, Typed
<1>2. CASE FrameFrom(1)
  <2>1. host = "wait" /\ 1 <= Len(Frame(blk)) /\ Frame(blk)[1] = Plain(File[blk].hdr)
    BY <1>2, CurrentFrame DEF FrameFrom
  <2>2. ch = Frame(blk)[1] /\ FrameFrom(1 + 1)'
    BY <1>2, <2>1, FrameRead
  <2>3. FrameFrom(2)'
    BY <2>2
  <2> QED
    BY <2>1, <2>2, <2>3 DEF Following
<1>3. CASE rx = <<Plain(EOT)>> /\ tx = << >> /\ host = "eot_wait"
  <2>1. ch = Plain(EOT) /\ rx' = << >>
    BY <1>1, <1>3
  <2>2. blk = Len(File) + 1
    BY <1>3 DEF LineInv, HostInFile
  <2> QED
    BY <1>3, <2>1, <2>2 DEF Ending
<1>4. CASE rx = <<Plain(CAN)>> /\ tx = << >> /\ host = "abort"
  <2>1. ch = Plain(CAN) /\ rx' = << >>
    BY <1>1, <1>4
  <2> QED
    BY <1>4, <2>1 DEF Cancelled
<1> QED
  BY <1>1, <1>2, <1>3, <1>4 DEF Arriving

LEMMA InStepKept ==
  ASSUME InStep, UNCHANGED <<blk, stored>>,
         result' = result \/ result' = <<-1>>
  PROVE  InStep'
  BY DEF InStep

LEMMA SendCKeeps ==
  ASSUME LineInv, Together, InStep, SendC
  PROVE  (Together /\ InStep)'
<1>1. /\ pc = "init" /\ pc' = "init_wait" /\ tx' = tx \o <<CHAR_C>>
      /\ UNCHANGED <<stored, result, rx, host, blk>>
  BY DEF SendC, Putc, hostVars
<1>2. Starting
  BY <1>1 DEF Together, Between, Waiting, Following, Ending, Cancelled, Finished
<1>3. Starting'
  BY <1>1, <1>2, TxFacts DEF Starting
<1> QED
  BY <1>1, <1>3, InStepKept DEF Together

LEMMA InitWaitKeeps ==
  ASSUME LineInv, Together, InStep, NEW ch, InitWait(ch)
  PROVE  (Together /\ InStep)'
<1>1. /\ pc = "init_wait" /\ Getc(ch) /\ c' = ch /\ UNCHANGED <<stored, tx, host, blk>>
      /\ \/ ch # None /\ pc' = "ctl" /\ result' = result
         \/ ch = None /\ pc' = "init" /\ result' = result
         \/ ch = None /\ pc' = "done" /\ result' = <<-1>>
  BY DEF InitWait, Return, hostVars
<1>2. Starting
  BY <1>1 DEF Together, Between, Waiting, Following, Ending, Cancelled, Finished
<1>3. CASE ch = None
  <2>1. Silent /\ rx' = rx
    BY <1>1, <1>3, GetcFacts DEF LineInv, Typed
  <2>2. host = "start" /\ rx = << >> /\ tx = << >>
    BY <1>2, <2>1 DEF Starting, Silent
  <2>3. (Starting \/ Finished)'
    BY <1>1, <1>2, <1>3, <2>1, <2>2, TxFacts DEF Starting, Finished
  <2> QED
    BY <1>1, <2>3, InStepKept DEF Together
<1>4. CASE ch # None
  <2>1. rx # << >>
    BY <1>1, <1>4, GetcFacts DEF LineInv, Typed
  <2>2. Arriving
    BY <1>2, <2>1 DEF Starting
  <2>3. (Following \/ Ending \/ Cancelled)'
    BY <1>1, <1>4, <2>2, FirstOfArriving
  <2> QED
    BY <1>1, <1>4, <2>3, InStepKept DEF Together
<1> QED
  BY <1>3, <1>4

LEMMA CtlEndKeeps ==
  ASSUME LineInv, Together, InStep, CtlEnd
  PROVE  (Together /\ InStep)'
<1>1. /\ pc = "ctl" /\ pc' = "done" /\ UNCHANGED <<stored, rx, host, blk>>
      /\ \/ c.v = EOT /\ tx' = tx \o <<ACK>> /\ result' = <<write_offset>>
         \/ c.v = CAN /\ tx' = tx /\ result' = <<-1>>
  BY DEF CtlEnd, Putc, Return, hostVars
<1>2. ~ Following
  <2> SUFFICES ASSUME Following PROVE FALSE
    OBVIOUS
  <2>1. c = Plain(File[blk].hdr) /\ File[blk].hdr \in {SOH, STX}
    BY CurrentFrame DEF Following
  <2> QED
    BY <1>1, <2>1, ByteFacts
<1>3. CASE Ending
  <2>1. c.v = EOT /\ c.v # CAN
    BY <1>3, ByteFacts DEF Ending
  <2>2. tx' = <<ACK>> /\ blk' = Len(File) + 1 /\ host' # "start"
    BY <1>1, <1>3, <2>1, TxFacts DEF Ending
  <2>3. Len(stored) = Len(File)
    <3>1. blk - 1 <= Len(stored) /\ Len(stored) <= Len(File) /\ blk = Len(File) + 1
      BY <1>3 DEF InStep, Ending
    <3>2. Len(stored) \in Nat /\ Len(File) \in Nat
      BY FileOK, LenProperties DEF LineInv, Typed
    <3> QED
      BY <3>1, <3>2
  <2>4. Finished'
    BY <1>1, <2>2 DEF Finished
  <2>5. InStep'
    BY <1>1, <2>3 DEF InStep
  <2> QED
    BY <2>4, <2>5 DEF Together
<1>4. CASE Cancelled
  <2>1. c.v = CAN /\ c.v # EOT
    BY <1>4, ByteFacts DEF Cancelled
  <2>2. Finished'
    BY <1>1, <1>4, <2>1, TxFacts DEF Cancelled, Finished
  <2> QED
    BY <1>1, <2>1, <2>2, InStepKept DEF Together
<1>5. Ending \/ Cancelled
  BY <1>1, <1>2, ByteFacts DEF Together, Starting, Between, Waiting, Finished
<1> QED
  BY <1>3, <1>4, <1>5

LEMMA CtlHeaderKeeps ==
  ASSUME LineInv, Together, InStep, CtlHeader
  PROVE  (Together /\ InStep)'
<1>1. /\ pc = "ctl" /\ pc' = "b1" /\ c.v \in {SOH, STX}
      /\ UNCHANGED <<c, stored, result, rx, tx, host, blk>>
  BY DEF CtlHeader, hostVars
<1>2. Following
  BY <1>1, ByteFacts DEF Together, Starting, Between, Waiting, Ending, Cancelled, Finished
<1>3. Following'
  BY <1>1, <1>2 DEF Following, FrameFrom, Frame
<1> QED
  BY <1>1, <1>3, InStepKept DEF Together

LEMMA CtlOtherKeeps ==
  ASSUME LineInv, Together, InStep, NEW ch, CtlOther(ch)
  PROVE  (Together /\ InStep)'
<1>1. /\ pc = "ctl" /\ c.v \notin {EOT, CAN, SOH, STX} /\ Getc(ch) /\ c' = ch
      /\ UNCHANGED <<stored, host, blk>>
      /\ \/ ch = None /\ tx' = tx \o <<CAN, CAN>> /\ pc' = "done" /\ result' = <<-1>>
         \/ ch # None /\ UNCHANGED <<pc, result, tx>>
  BY DEF CtlOther, Return, Putc, hostVars
<1>2. ~ Following
  <2> SUFFICES ASSUME Following PROVE FALSE
    OBVIOUS
  <2>1. c = Plain(File[blk].hdr) /\ File[blk].hdr \in {SOH, STX}
    BY CurrentFrame DEF Following
  <2> QED
    BY <1>1, <2>1, ByteFacts
<1>3. Waiting
  BY <1>1, <1>2, ByteFacts DEF Together, Starting, Between, Ending, Cancelled, Finished
<1>4. CASE ch = None
  <2>1. Finished'
    BY <1>1, <1>3, <1>4, TxFacts DEF Waiting, Finished
  <2> QED
    BY <1>1, <1>4, <2>1, InStepKept DEF Together
<1>5. CASE ch # None
  <2>1. (Following \/ Ending \/ Cancelled)'
    BY <1>1, <1>3, <1>5, FirstOfArriving DEF Waiting
  <2> QED
    BY <1>1, <1>5, <2>1, InStepKept DEF Together
<1> QED
  BY <1>4, <1>5

(* In a frame the receiver reads the frame. *)
LEMMA OnlyFollowing ==
  ASSUME LineInv, Together, pc \in {"b1", "b2", "data", "crc"}
  PROVE  Following /\ host = "wait" /\ Len(buf) \in Nat
  BY DEF Together, Starting, Between, Waiting, Following, Ending, Cancelled, Finished,
         LineInv, Typed

LEMMA FirstByteKeeps ==
  ASSUME LineInv, Together, InStep, NEW ch, FirstByte(ch)
  PROVE  (Together /\ InStep)'
<1>1. /\ pc = "b1" /\ pc' = "b2" /\ Getc(ch) /\ header' = <<ch.v>>
      /\ UNCHANGED <<c, stored, result, tx, host, blk>>
  BY DEF FirstByte, hostVars
<1>2. Following /\ host = "wait" /\ FrameFrom(2)
  BY <1>1, OnlyFollowing DEF Following
<1>3. 2 <= Len(Frame(blk)) /\ Frame(blk)[2] = Plain(blk % ByteMod)
  BY <1>2, CurrentFrame
<1>4. ch = Frame(blk)[2] /\ FrameFrom(2 + 1)'
  BY <1>1, <1>2, <1>3, FrameRead
<1>5. header' = <<blk % ByteMod>> /\ FrameFrom(3)'
  BY <1>1, <1>3, <1>4, ByteFacts
<1>6. Following'
  BY <1>1, <1>2, <1>5 DEF Following
<1> QED
  BY <1>1, <1>6, InStepKept DEF Together

LEMMA SecondByteKeeps ==
  ASSUME LineInv, Together, InStep, NEW ch, SecondByte(ch)
  PROVE  (Together /\ InStep)'
<1> DEFINE n == blk % ByteMod
<1>1. /\ pc = "b2" /\ Getc(ch) /\ header' = Append(header, ch.v)
      /\ UNCHANGED <<c, buf, stored, host, blk>>
  BY DEF SecondByte, hostVars
<1>2. Following /\ host = "wait" /\ FrameFrom(3) /\ header = <<n>>
  BY <1>1, OnlyFollowing DEF Following
<1>3. 3 <= Len(Frame(blk)) /\ Frame(blk)[3] = Plain(ByteMod - 1 - n)
  BY <1>2, CurrentFrame
<1>4. n \in 0 .. ByteMod - 1
  BY DEF LineInv, Typed, ByteMod
<1>5. pc' = "data" /\ UNCHANGED <<result, tx>>
  <2>1. ch = Plain(ByteMod - 1 - n) /\ ch # None
    <3>1. rx # << >> /\ rx \in Seq(Byte)
      BY <1>2, <1>3, CurrentFrame DEF FrameFrom, LineInv, Typed
    <3>2. ch = rx[1] /\ ch # None /\ 1 \in DOMAIN rx
      BY <1>1, <3>1, GetcFacts, LenProperties DEF Silent
    <3>3. rx[1] = Frame(blk)[3 + 1 - 1]
      BY <1>2, <3>2 DEF FrameFrom
    <3> QED
      BY <1>3, <3>2, <3>3
  <2>2. ch.v = ByteMod - 1 - n /\ header[1] = n /\ n >= 0
    BY <1>2, <1>4, <2>1, ByteFacts
  <2> HIDE DEF n
  <2>3. (header[1] + ch.v) % ByteMod = ByteMod - 1 /\ ~ (header[1] < 0)
    BY <1>4, <2>2 DEF ByteMod
  <2> QED
    BY <2>1, <2>3 DEF SecondByte
<1>6. FrameFrom(3 + 1)'
  BY <1>1, <1>2, <1>3, <1>5, FrameRead
<1>7. Len(buf) = 0
  BY <1>1 DEF LineInv, Bounded
<1>8. header'[1] = n
  <2> HIDE DEF n
  <2> QED
    BY <1>1, <1>2
<1>9. Following'
  <2>1. FrameFrom(4 + Len(buf))'
    BY <1>1, <1>6, <1>7
  <2>2. \A i \in 1 .. Len(buf') : buf'[i] = File[blk'].data[i]
    BY <1>1, <1>7
  <2> QED
    BY <1>1, <1>2, <1>5, <1>8, <2>1, <2>2 DEF Following
<1> QED
  BY <1>1, <1>5, <1>9, InStepKept DEF Together

LEMMA DataKeeps ==
  ASSUME LineInv, Together, InStep, NEW ch, Data(ch)
  PROVE  (Together /\ InStep)'
<1> DEFINE n == Len(buf)
           d == File[blk].data
<1>1. /\ pc = "data" /\ Getc(ch) /\ UNCHANGED <<c, header, stored, host, blk>>
  BY DEF Data, hostVars
<1>2. /\ Following /\ host = "wait" /\ FrameFrom(4 + n) /\ n \in Nat
      /\ header[1] = blk % ByteMod /\ \A i \in 1 .. n : buf[i] = d[i]
      /\ c = Plain(File[blk].hdr)
  BY <1>1, OnlyFollowing DEF Following
<1>3. n < Len(d) /\ Len(d) \in 1 .. 5
  <2>1. c.v = File[blk].hdr /\ Len(d) = Size(File[blk].hdr) /\ Len(d) \in 1 .. 5
    BY <1>2, CurrentFrame, ByteFacts
  <2>2. n < Size(c.v)
    BY <1>1 DEF LineInv, Bounded
  <2> QED
    BY <2>1, <2>2
<1>4. 4 + n \in Nat \ {0} /\ 4 + n <= Len(Frame(blk)) /\ Frame(blk)[4 + n] = Plain(d[n + 1])
  <2>1. /\ Len(Frame(blk)) = Len(d) + 4
        /\ \A i \in 1 .. Len(d) : Frame(blk)[3 + i] = Plain(d[i])
    BY <1>2, CurrentFrame
  <2> HIDE DEF n, d
  <2>2. n + 1 \in 1 .. Len(d) /\ 3 + (n + 1) = 4 + n
    BY <1>2, <1>3
  <2>3. Frame(blk)[3 + (n + 1)] = Plain(d[n + 1])
    BY <2>1, <2>2
  <2> QED
    BY <1>2, <1>3, <2>1, <2>2, <2>3
<1>5. ch # None
  <2>1. rx # << >> /\ rx \in Seq(Byte)
    BY <1>2, <1>4, CurrentFrame DEF FrameFrom, LineInv, Typed
  <2> QED
    BY <1>1, <2>1, GetcFacts DEF Silent
<1>6. /\ buf' = Append(buf, ch.v) /\ pc' \in {"data", "crc"} /\ UNCHANGED <<result, tx>>
  BY <1>5 DEF Data
<1> PICK q \in Nat \ {0} : q = 4 + n
  BY <1>4
<1>7. ch = Frame(blk)[q] /\ ch \in Byte /\ FrameFrom(q + 1)'
  <2>1. FrameFrom(q) /\ q <= Len(Frame(blk))
    BY <1>2, <1>4
  <2> QED
    BY <1>1, <1>6, <2>1, FrameRead
<1>8. /\ Len(buf') = n + 1 /\ buf'[n + 1] = d[n + 1]
      /\ \A i \in 1 .. n : buf'[i] = buf[i]
  <2>1. ch.v = d[n + 1] /\ ch.v \in Int /\ buf \in Seq(Int)
    BY <1>4, <1>7, ByteFacts DEF Byte, LineInv, Typed
  <2> HIDE DEF d
  <2> QED
    BY <1>6, <2>1, AppendProperties
<1>9. Following'
  <2>1. FrameFrom(4 + Len(buf))'
    <3>1. q + 1 = 4 + Len(buf')
      BY <1>2, <1>8
    <3> QED
      BY <1>7, <3>1 DEF FrameFrom
  <2>2. \A i \in 1 .. Len(buf') : buf'[i] = File[blk'].data[i]
    BY <1>1, <1>2, <1>8
  <2> QED
    BY <1>1, <1>2, <1>6, <2>1, <2>2 DEF Following
<1> QED
  BY <1>1, <1>6, <1>9, InStepKept DEF Together

LEMMA NextByteKeeps ==
  ASSUME LineInv, Together, InStep, NEW ch, NextByte(ch)
  PROVE  (Together /\ InStep)'
<1>1. /\ pc = "next" /\ pc' = "ctl" /\ Getc(ch) /\ c' = ch
      /\ UNCHANGED <<stored, result, tx, host, blk>>
  BY DEF NextByte, hostVars
<1>2. Between
  BY <1>1 DEF Together, Starting, Waiting, Following, Ending, Cancelled, Finished
<1>3. CASE ch = None
  <2>1. rx' = rx /\ rx = << >> /\ tx = << >>
    BY <1>1, <1>3, GetcFacts DEF LineInv, Typed, Silent
  <2>2. Waiting'
    BY <1>1, <1>2, <1>3, <2>1 DEF Between, Waiting, Arriving
  <2> QED
    BY <1>1, <2>2, InStepKept DEF Together
<1>4. CASE ch # None
  <2>1. (Following \/ Ending \/ Cancelled)'
    BY <1>1, <1>2, <1>4, FirstOfArriving DEF Between
  <2> QED
    BY <1>1, <2>1, InStepKept DEF Together
<1> QED
  BY <1>3, <1>4

LEMMA EndOfFrameKeeps ==
  ASSUME LineInv, Together, InStep, NEW ch, EndOfFrame(ch)
  PROVE  (Together /\ InStep)'
<1> DEFINE d == File[blk].data
<1>1. /\ pc = "crc" /\ Getc(ch) /\ UNCHANGED <<c, header, buf, host, blk>>
  BY DEF EndOfFrame, hostVars
<1>2. /\ Following /\ host = "wait" /\ FrameFrom(4 + Len(buf)) /\ tx = << >>
      /\ header[1] = blk % ByteMod /\ \A i \in 1 .. Len(buf) : buf[i] = d[i]
      /\ c = Plain(File[blk].hdr)
  BY <1>1, OnlyFollowing DEF Following, FrameFrom
<1>3. /\ d \in Payload /\ Len(buf) = Len(d) /\ Len(d) \in 1 .. 5 /\ blk \in 1 .. Len(File)
      /\ Len(Frame(blk)) = Len(d) + 4
      /\ Frame(blk)[4 + Len(d)] = [v |-> 0, crc |-> d]
  <2>1. Len(buf) = Size(c.v)
    BY <1>1 DEF LineInv, Bounded
  <2>2. c.v = File[blk].hdr
    BY <1>2, ByteFacts
  <2> QED
    BY <1>2, <2>1, <2>2, CurrentFrame, BlockFacts
<1>4. buf = d
  <2>1. buf \in Seq(Int) /\ d \in Seq(Int)
    <3>1. buf \in Seq(Int) /\ d \in Seq(0 .. ByteMod - 1) /\ 0 .. ByteMod - 1 \subseteq Int
      BY <1>3 DEF LineInv, Typed, Payload
    <3> HIDE DEF d
    <3> QED
      BY <3>1, SeqMonotonic
  <2> HIDE DEF d
  <2> QED
    BY <2>1, <1>2, <1>3, SeqEqual
<1>5. ch = [v |-> 0, crc |-> d] /\ ch # None /\ rx' = << >>
  <2>1. Len(rx) = 1 /\ rx \in Seq(Byte) /\ \A i \in DOMAIN rx : rx[i] = Frame(blk)[4 + Len(d) + i - 1]
    BY <1>2, <1>3 DEF FrameFrom, LineInv, Typed
  <2>2. rx # << >> /\ 1 \in DOMAIN rx
    <3>1. rx \in Seq(Byte) /\ Len(rx) = 1
      BY <2>1
    <3> QED
      BY <3>1
  <2>3. ch = rx[1] /\ ch # None /\ rx' \in Seq(Byte) /\ Len(rx') = 0
    BY <1>1, <2>1, <2>2, GetcFacts DEF Silent
  <2>4. rx[1] = Frame(blk)[4 + Len(d)]
    <3>1. 4 + Len(d) + 1 - 1 = 4 + Len(d)
      BY <1>3
    <3> QED
      BY <2>1, <2>2, <3>1
  <2>5. rx' = << >>
    BY <2>3
  <2> QED
    BY <1>3, <2>3, <2>4, <2>5
<1>6. CrcOk(ch)
  BY <1>4, <1>5 DEF CrcOk
<1>7. /\ Len(stored) \in Nat /\ blk \in Nat /\ blk - 1 <= Len(stored) /\ Len(stored) <= blk
      /\ expected_blk = (Len(stored) + 1) % ByteMod
  BY DEF InStep, LineInv, Typed, Confirmed
<1>8. CASE WrongNumber(ch)
  <2>1. Len(stored) = blk
    <3>1. header[1] # expected_blk
      BY <1>8 DEF WrongNumber
    <3> QED
      BY <1>2, <1>7, <3>1
  <2>2. header[1] = Previous
    BY <1>2, <1>7, <2>1 DEF Previous, ByteMod
  <2>3. /\ pc' = "next" /\ tx' = <<ACK>> /\ UNCHANGED <<stored, result>>
    BY <1>2, <1>8, <2>2, TxFacts DEF WrongNumber, Putc
  <2>4. Between'
    BY <1>1, <1>2, <1>5, <2>1, <2>3, TxFacts DEF Between, Arriving
  <2> QED
    BY <1>1, <2>3, <2>4, InStepKept DEF Together
<1>9. CASE Overflow(ch)
  <2>1. pc' = "done" /\ tx' = <<CAN, CAN>> /\ stored' = stored /\ result' = <<-1>>
    BY <1>2, <1>9, TxFacts DEF Overflow, Putc, Return
  <2>2. Finished'
    BY <1>1, <1>2, <2>1, TxFacts DEF Finished
  <2> QED
    BY <1>1, <2>1, <2>2, InStepKept DEF Together
<1>10. CASE Store(ch)
  <2>1. /\ header[1] = expected_blk /\ stored' = Append(stored, d) /\ tx' = <<ACK>>
        /\ pc' = "next" /\ result' = result
    BY <1>2, <1>4, <1>10, TxFacts DEF Store, Putc
  <2>2. Len(stored) = blk - 1
    BY <1>2, <1>7, <2>1 DEF ByteMod
  <2>3. /\ Len(stored') = blk /\ \A i \in 1 .. Len(stored) : stored'[i] = stored[i]
        /\ stored'[blk] = d /\ DOMAIN stored' = 1 .. blk
    <3>1. stored \in Seq(Payload)
      BY DEF LineInv, Typed
    <3> HIDE DEF d
    <3> QED
      BY <3>1, <1>3, <1>7, <2>1, <2>2, AppendProperties
  <2>4. Between'
    BY <1>1, <1>2, <1>5, <2>1, <2>3, TxFacts DEF Between, Arriving
  <2>5. InStep'
    <3>1. \A i \in DOMAIN stored' : stored'[i] = File[i].data
      <4>1. \A i \in 1 .. Len(stored) : stored[i] = File[i].data
        BY LenProperties DEF InStep, LineInv, Typed
      <4> QED
        BY <4>1, <1>7, <2>2, <2>3
    <3>2. ~ (result # << >> /\ result[1] > 0)
      <4>1. Len(File) \in Nat /\ Len(stored) # Len(File)
        BY <1>3, <1>7, <2>2, FileOK, LenProperties
      <4> QED
        BY <4>1 DEF InStep
    <3> QED
      BY <1>1, <1>3, <1>7, <2>1, <2>3, <3>1, <3>2 DEF InStep
  <2> QED
    BY <2>4, <2>5 DEF Together
<1> QED
  BY <1>5, <1>6, <1>8, <1>9, <1>10 DEF EndOfFrame, CrcTimeout, WrongCrc

LEMMA ReceiverKeeps == LineInv /\ Together /\ InStep /\ Receiver => (Together /\ InStep)'
  BY SendCKeeps, CtlEndKeeps, CtlHeaderKeeps, InitWaitKeeps, CtlOtherKeeps, FirstByteKeeps,
     SecondByteKeeps, DataKeeps, EndOfFrameKeeps, NextByteKeeps DEF Receiver

(* What the host sends arrives as a whole. *)
LEMMA HostSendKeeps ==
  ASSUME LineInv, Together, InStep, HostSend \/ HostCancel
  PROVE  (Together /\ InStep)'
<1>1. /\ UNCHANGED <<pc, c, stored, result, tx, blk>> /\ rx \in Seq(Byte)
      /\ \/ host = "send" /\ host' = "wait" /\ rx' = rx \o Frame(blk)
         \/ host = "eot" /\ host' = "eot_wait" /\ rx' = Append(rx, Plain(EOT))
         \/ host = "send" /\ host' = "abort" /\ rx' = Append(rx, Plain(CAN))
  BY DEF HostSend, HostCancel, recvVars, LineInv, Typed
<1>2. CASE pc = "done"
  <2>1. Finished'
    BY <1>1, <1>2 DEF Together, Starting, Between, Waiting, Following, Ending, Cancelled, Finished
  <2> QED
    BY <1>1, <2>1, InStepKept DEF Together
<1>3. CASE pc # "done"
  <2>1. tx = << >> /\ rx = << >>
    BY <1>1, <1>3, TxFacts
       DEF Together, Starting, Between, Waiting, Following, Ending, Cancelled, Finished,
           Arriving, FrameFrom
  <2>2. Arriving'
    <3>1. CASE host' = "wait"
      <4>1. blk \in 1 .. Len(File)
        BY <1>1, <3>1 DEF LineInv, HostInFile
      <4>2. Frame(blk) \in Seq(Byte) /\ Len(Frame(blk)) \in Nat /\ Frame(blk)' = Frame(blk)
        BY <1>1, <4>1, FrameFacts, LenProperties DEF Frame
      <4>3. rx' = Frame(blk)
        BY <1>1, <2>1, <3>1, <4>2, ConcatEmptySeq
      <4>4. \A i \in DOMAIN rx' : rx'[i] = Frame(blk)[1 + i - 1]
        <5> SUFFICES ASSUME NEW i \in DOMAIN rx' PROVE rx'[i] = Frame(blk)[1 + i - 1]
          OBVIOUS
        <5>1. i \in Nat
          BY <4>2, <4>3, LenProperties
        <5>2. 1 + i - 1 = i
          BY <5>1
        <5> QED
          BY <4>3, <5>2
      <4>5. Len(rx') = Len(Frame(blk)) + 1 - 1
        BY <4>2, <4>3
      <4> QED
        BY <1>1, <2>1, <3>1, <4>2, <4>4, <4>5 DEF Arriving, FrameFrom
    <3>2. CASE host' = "eot_wait"
      BY <1>1, <2>1, <3>2 DEF Arriving
    <3>3. CASE host' = "abort"
      BY <1>1, <2>1, <3>3 DEF Arriving
    <3> QED
      BY <1>1, <3>1, <3>2, <3>3
  <2>3. rx' # << >>
    <3>1. CASE rx' = rx \o Frame(blk) /\ host = "send"
      <4>1. blk \in 1 .. Len(File)
        BY <3>1 DEF LineInv, HostInFile
      <4>2. Frame(blk) \in Seq(Byte) /\ Frame(blk) # << >>
        <5>1. Frame(blk) \in Seq(Byte) /\ Len(Frame(blk)) = Len(File[blk].data) + 4
          BY <4>1, FrameFacts
        <5>2. Len(File[blk].data) \in 1 .. Size(STX)
          BY <4>1, BlockFacts
        <5> QED
          BY <5>1, <5>2
      <4> QED
        BY <2>1, <3>1, <4>2, ConcatEmptySeq
    <3> QED
      BY <1>1, <2>1, <3>1
  <2>4. (Starting \/ Between \/ Waiting \/ Ending)'
    <3>1. Starting \/ Between \/ Waiting \/ Ending
      BY <1>1, <1>3 DEF Together, Following, Cancelled, Finished
    <3>2. CASE Starting
      BY <1>1, <2>1, <2>2, <2>3, <3>2 DEF Starting
    <3>3. CASE Between \/ Waiting
      BY <1>1, <2>1, <2>2, <3>3 DEF Between, Waiting
    <3>4. CASE Ending
      BY <1>1, <2>1, <3>4 DEF Ending
    <3> QED
      BY <3>1, <3>2, <3>3, <3>4
  <2> QED
    BY <1>1, <2>4, InStepKept DEF Together
<1> QED
  BY <1>2, <1>3

LEMMA HostAckKeeps ==
  ASSUME LineInv, Together, InStep, HostAck
  PROVE  (Together /\ InStep)'
<1>1. /\ host \in {"wait", "eot_wait"} /\ tx # << >> /\ Head(tx) = ACK /\ tx' = Tail(tx)
      /\ UNCHANGED <<pc, c, stored, result, rx>>
      /\ \/ host = "eot_wait" /\ host' = "done" /\ blk' = blk
         \/ host = "wait" /\ blk' = blk + 1 /\ host' \in {"eot", "send"}
  BY DEF HostAck, recvVars
<1>2. CASE Between
  <2>1. tx' = << >> /\ rx = << >> /\ host = "wait" /\ Len(stored) = blk
    BY <1>1, <1>2, TxFacts DEF Between
  <2>2. Between'
    BY <1>1, <1>2, <2>1 DEF Between, Arriving
  <2>3. InStep'
    <3>1. blk \in Nat
      BY DEF LineInv, Typed
    <3> QED
      BY <1>1, <2>1, <3>1 DEF InStep
  <2> QED
    BY <2>2, <2>3 DEF Together
<1>3. CASE Finished
  <2>1. tx = <<ACK>> /\ blk = Len(File) + 1
    BY <1>1, <1>3, TxFacts DEF Finished
  <2>2. host = "eot_wait"
    <3>1. host = "wait" => blk <= Len(File)
      BY DEF LineInv, HostInFile
    <3>2. Len(File) \in Nat
      BY FileOK, LenProperties
    <3> QED
      BY <1>1, <2>1, <3>1, <3>2
  <2>3. Finished' /\ blk' = blk
    BY <1>1, <1>3, <2>1, <2>2, TxFacts DEF Finished
  <2> QED
    BY <1>1, <2>3, InStepKept DEF Together
<1>4. Between \/ Finished
  BY <1>1 DEF Together, Starting, Waiting, Following, Ending, Cancelled, Arriving, FrameFrom
<1> QED
  BY <1>2, <1>3, <1>4

(* Without a reply it is a silence that makes the host send again: then    *)
(* nothing is on the line.                                                 *)
LEMMA HostRetryKeeps ==
  ASSUME LineInv, Together, InStep, HostRetry
  PROVE  (Together /\ InStep)'
<1>1. /\ UNCHANGED <<pc, c, stored, result, rx, blk>>
      /\ \/ tx # << >> /\ Head(tx) \in {NAK, CHAR_C}
         \/ Silent /\ tx' = tx
      /\ \/ host = "wait" /\ host' \in {"abort", "send"}
         \/ host = "eot_wait" /\ host' \in {"abort", "eot"}
  BY DEF HostRetry, recvVars
<1>2. Silent /\ tx' = tx
  <2>1. tx \in {<< >>, <<ACK>>, <<CAN, CAN>>, <<CAN>>}
    BY <1>1
       DEF Together, Starting, Between, Waiting, Following, Ending, Cancelled, Finished, Arriving,
           FrameFrom
  <2>2. CAN \notin {NAK, CHAR_C}
    BY DEF CAN, NAK, CHAR_C
  <2> QED
    BY <1>1, <2>1, <2>2, TxFacts
<1>3. ~ Following
  <2> SUFFICES ASSUME Following PROVE FALSE
    OBVIOUS
  <2>1. rx = << >> /\ host = "wait"
    BY <1>2 DEF Silent, Following
  <2>2. Len(Frame(blk)) = Len(File[blk].data) + 4 /\ Len(File[blk].data) \in 1 .. 5
    BY <2>1, CurrentFrame
  <2>3. pc \in {"data", "crc"} => Len(buf) <= Len(File[blk].data)
    <3> SUFFICES ASSUME pc \in {"data", "crc"} PROVE Len(buf) <= Len(File[blk].data)
      OBVIOUS
    <3>1. c.v = File[blk].hdr /\ Len(File[blk].data) = Size(File[blk].hdr)
      BY <2>1, CurrentFrame, ByteFacts DEF Following
    <3>2. Len(buf) <= Size(c.v) /\ Len(buf) \in Nat
      <4>1. Len(buf) < Size(c.v) \/ Len(buf) = Size(c.v)
        BY DEF LineInv, Bounded
      <4>2. Len(buf) \in Nat /\ Size(c.v) \in 1 .. Size(STX) /\ Size(STX) = 5
        BY SizeFacts DEF LineInv, Typed
      <4> QED
        BY <4>1, <4>2
    <3> QED
      BY <3>1, <3>2
  <2>4. Len(rx) = 0
    BY <2>1
  <2>5. Len(buf) \in Nat
    BY DEF LineInv, Typed
  <2> QED
    BY <2>2, <2>3, <2>4, <2>5 DEF Following, FrameFrom
<1>4. CASE Between \/ Waiting
  <2>1. (Between \/ Waiting)'
    BY <1>1, <1>2, <1>4 DEF Between, Waiting, Arriving, Silent
  <2> QED
    BY <1>1, <2>1, InStepKept DEF Together
<1>5. CASE Ending
  <2>1. Ending'
    <3>1. host = "eot_wait"
      BY <1>1, <1>5 DEF Ending
    <3> QED
      BY <1>1, <1>2, <1>5, <3>1 DEF Ending, Silent
  <2> QED
    BY <1>1, <2>1, InStepKept DEF Together
<1>6. CASE Finished
  <2>1. Finished'
    BY <1>1, <1>2, <1>6 DEF Finished
  <2> QED
    BY <1>1, <2>1, InStepKept DEF Together
<1>7. ~ Starting /\ ~ Cancelled
  BY <1>1, <1>2 DEF Starting, Cancelled, Silent
<1> QED
  BY <1>3, <1>4, <1>5, <1>6, <1>7 DEF Together

(* The other steps of the host take a reply that is no ACK, or drop what   *)
(* nobody reads; and a reply that is lost is one the host never gets.      *)
LEMMA OthersKeep ==
  ASSUME LineInv, Together, InStep,
         HostStart \/ HostCancelled \/ HostGone \/ Unread \/ LoseReply
  PROVE  (Together /\ InStep)'
<1>1. UNCHANGED <<pc, c, header, buf, stored, result, blk>>
  BY DEF HostStart, HostCancelled, HostGone, Unread, LoseReply, recvVars, hostVars
<1>2. InStep'
  BY <1>1, InStepKept
<1>3. CASE Unread
  <2>1. Finished
    BY <1>3 DEF Unread, Together, Starting, Between, Waiting, Following, Ending, Cancelled
  <2>2. Finished'
    BY <1>1, <1>3, <2>1 DEF Unread, Finished, hostVars
  <2> QED
    BY <1>2, <2>2 DEF Together
<1>4. CASE tx # << >> /\ UNCHANGED rx /\ ~ Unread
  <2>1. CASE Starting
    <3>1. pc = "init_wait" /\ host = "start" /\ rx = << >> /\ tx = <<CHAR_C>>
      BY <1>4, <2>1 DEF Starting, Arriving, FrameFrom
    <3>2. /\ tx' = << >>
          /\ host' \in {"send", "eot", "start"}
      BY <1>4, <3>1, TxFacts DEF HostStart, HostCancelled, HostGone, LoseReply, hostVars
    <3>3. Starting'
      BY <1>1, <1>4, <2>1, <3>1, <3>2 DEF Starting
    <3> QED
      BY <1>2, <3>3 DEF Together
  <2>2. CASE Between
    <3>1. tx = <<ACK>> /\ rx = << >> /\ host = "wait"
      BY <1>4, <2>2 DEF Between
    <3>2. tx' = << >> /\ host' = "wait"
      BY <1>4, <3>1, TxFacts DEF HostStart, HostCancelled, HostGone, LoseReply, hostVars
    <3>3. Between'
      BY <1>1, <1>4, <2>2, <3>1, <3>2 DEF Between, Arriving
    <3> QED
      BY <1>2, <3>3 DEF Together
  <2>3. CASE Finished
    <3>1. tx \in {<<ACK>>, <<CAN, CAN>>, <<CAN>>} /\ host # "start"
      BY <1>4, <2>3 DEF Finished
    <3>2. tx' \in {<< >>, Tail(tx)} /\ host' # "start"
      BY <1>4, <3>1 DEF HostStart, HostCancelled, HostGone, LoseReply, hostVars
    <3>3. Finished'
      BY <1>1, <2>3, <3>1, <3>2, TxFacts DEF Finished
    <3> QED
      BY <1>2, <3>3 DEF Together
  <2>4. ~ (Waiting \/ Following \/ Ending \/ Cancelled)
    BY <1>4 DEF Waiting, Following, Ending, Cancelled, FrameFrom
  <2> QED
    BY <2>1, <2>2, <2>3, <2>4 DEF Together
<1> QED
  BY <1>3, <1>4 DEF HostStart, HostCancelled, HostGone, LoseReply

LEMMA IntactStep == LineInv /\ Intact /\ [Next]_vars => Intact'
<1> SUFFICES ASSUME LineInv, Intact, [Next]_vars, damaged' = 0 PROVE (Together /\ InStep)'
  BY DEF Intact
<1>1. CASE UNCHANGED vars
  <2>1. damaged = 0
    BY <1>1 DEF vars
  <2> QED
    BY <1>1, <2>1
       DEF vars, Intact, Together, InStep, Starting, Between, Waiting, Following, Ending,
           Cancelled, Finished, Arriving, FrameFrom, Frame
<1>2. ASSUME Receiver \/ Host \/ HostCancel \/ LoseReply
      PROVE  (Together /\ InStep)'
  <2>1. damaged' = damaged
    <3>1. Receiver => damaged' = damaged
      BY DEF Receiver, SendC, CtlEnd, CtlHeader, InitWait, CtlOther, FirstByte, SecondByte, Data,
             EndOfFrame, NextByte, faults
    <3>2. Host \/ HostCancel \/ LoseReply => damaged' = damaged
      BY DEF Host, HostStart, HostSend, HostAck, HostRetry, HostCancelled, HostGone, Unread,
             HostCancel, LoseReply, faults
    <3> QED
      BY <1>2, <3>1, <3>2
  <2>2. Together /\ InStep
    BY <2>1 DEF Intact
  <2> QED
    BY <1>2, <2>2, ReceiverKeeps, HostSendKeeps, HostAckKeeps, HostRetryKeeps, OthersKeep DEF Host
<1>3. ASSUME NEW i \in DOMAIN rx, DamageByte(i) PROVE FALSE
  BY <1>3 DEF DamageByte, LineInv, Typed
<1> QED
  BY <1>1, <1>2, <1>3 DEF Next, Over

Inv == LineInv /\ Intact

LEMMA InvHolds == Spec => []Inv
<1>1. Init => Inv
  BY LineInvInit, IntactInit DEF Inv
<1>2. Inv /\ [Next]_vars => Inv'
  BY LineInvStep, IntactStep DEF Inv
<1> QED
  BY <1>1, <1>2, PTL DEF Spec

(* On a line that damages no byte, the host gets an ACK for a block only   *)
(* after the receiver has stored it, whatever replies are lost and however *)
(* often blocks are sent again, for files of any length: block numbers     *)
(* that wrap at 256 do not confuse a repeated block with a new one.        *)
THEOREM NeverAhead == Spec => []HostNeverAhead
<1>1. Inv => HostNeverAhead
  BY DEF Inv, Intact, InStep, HostNeverAhead
<1> QED
  BY <1>1, InvHolds, PTL

(* On a line that loses replies but damages no byte the buffer holds the   *)
(* first blocks of the file, each once and in order.                       *)
THEOREM StoredInOrder == Spec => [](damaged = 0 => StoredIsPrefix)
<1>1. Inv => (damaged = 0 => StoredIsPrefix)
  BY DEF Inv, Intact, InStep, StoredIsPrefix
<1> QED
  BY <1>1, InvHolds, PTL

(* On such a line, what uart_test reports as received is the whole file:   *)
(* the truncated file of t_entry.c:309 takes a damaged byte.               *)
THEOREM SuccessIsTruthful == Spec => [](damaged = 0 => SuccessIsComplete)
<1>1. Inv => (damaged = 0 => SuccessIsComplete)
  <2> SUFFICES ASSUME Inv, damaged = 0, result # << >>, result[1] > 0
               PROVE  stored = [k \in DOMAIN File |-> File[k].data]
    BY DEF SuccessIsComplete
  <2>1. /\ stored \in Seq(Payload) /\ Len(stored) = Len(File)
        /\ \A i \in DOMAIN stored : stored[i] = File[i].data
    BY DEF Inv, Intact, InStep, LineInv, Typed
  <2>2. DOMAIN stored = DOMAIN File
    BY <2>1, FileOK, LenProperties
  <2> QED
    BY <2>1, <2>2
<1> QED
  BY <1>1, InvHolds, PTL
=============================================================================
