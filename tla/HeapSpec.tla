------------------------------ MODULE HeapSpec ------------------------------
(***************************************************************************)
(* What the allocator of src/mem/t_mem.c promises to its callers.          *)
(*                                                                         *)
(* The only state a caller can see is the set of regions it holds: where   *)
(* each one starts and how many bytes were asked for.  An allocation hands *)
(* out a region of the heap that starts on a MEM_ALIGNMENT boundary (the   *)
(* NPU's DMA engine needs that) and overlaps no region still held; a free  *)
(* returns exactly one region.  A request may also be refused, which       *)
(* changes nothing.                                                        *)
(***************************************************************************)
EXTENDS Naturals

CONSTANTS
  Lo,        \* first byte of the heap
  Hi,        \* first byte after the heap
  Alignment  \* alignment of every region handed out

VARIABLE
  held       \* regions the callers hold: a set of [addr, len]

(* Two regions share no byte. *)
Disjoint(r, s) == r.addr + r.len <= s.addr \/ s.addr + s.len <= r.addr

(* A region a caller may be given: in the heap, and aligned. *)
Grantable(r) == /\ Lo <= r.addr
                /\ r.addr + r.len <= Hi
                /\ r.addr % Alignment = 0

Init == held = {}

Grant(r) == /\ r.len > 0
            /\ Grantable(r)
            /\ \A s \in held : s # r /\ Disjoint(r, s)
            /\ held' = held \cup {r}

Return(r) == held' = held \ {r}

(* The region granted is found as the one that is new in held'. *)
Next == \/ \E r \in held' \ held : Grant(r)
        \/ \E r \in held : Return(r)

Spec == Init /\ [][Next]_held
=============================================================================
