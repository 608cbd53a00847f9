------------------------------ MODULE MCXmodem ------------------------------
EXTENDS Xmodem

(* A long block, with what looks like headers inside, and a short one. *)
TwoBlocks == << [hdr |-> STX, data |-> <<1, 9, 9, 1, 9>>], [hdr |-> SOH, data |-> <<8>>] >>

(* Four short blocks: the number of the fourth is the code of EOT. *)
FourBlocks == [k \in 1 .. 4 |-> [hdr |-> SOH, data |-> <<9>>]]
=============================================================================
