-------------------------------- MODULE Heap --------------------------------
(***************************************************************************)
(* The kernel heap of src/mem/t_mem.c: one contiguous range of memory cut  *)
(* into blocks, each with a 64-byte header in front of its payload, the    *)
(* free blocks on a doubly linked list kept in address order.  Allocation  *)
(* is best fit, with a split when enough is left over; a free inserts the  *)
(* block in the list and merges it with a free physical neighbour on each  *)
(* side.                                                                   *)
(*                                                                         *)
(* A block is named by the address of its header; the pointer a caller     *)
(* sees is HEADER bytes further.  The linked list is the sequence of the   *)
(* blocks it links: block->next and block->prev are the neighbours in it.  *)
(* Headers are kept for every 64-byte slot of the heap, because a header   *)
(* that a merge absorbed stays in memory and t_mem_free still reads its    *)
(* is_free word when a caller frees the same pointer again.                *)
(***************************************************************************)
EXTENDS Integers, Sequences, SequencesExt, FiniteSetsExt

CONSTANTS
  HeapFlag,   \* address of the linker symbol __heap_flag
  HeapSize,   \* the argument of t_mem_init
  SizeMod,    \* 2^64 in the program: size_t arithmetic is modulo SizeMod
  Requests,   \* the sizes callers ask t_mem_alloc for
  Foreign     \* pointers t_mem_free may be given that lie outside the heap

NULL == 0
MEM_ALIGNMENT == 64
MIN_BLOCK_SIZE == 64
HEADER == 64               \* sizeof(mem_block_t), fixed by the _Static_assert

(* MEM_ALIGN of the code; the addition wraps like size_t does. *)
MEM_ALIGN(n) ==
  LET up == (n + (MEM_ALIGNMENT - 1)) % SizeMod IN up - (up % MEM_ALIGNMENT)

(* t_mem_init rounds the start up and gives the lost bytes back. *)
heap_start == MEM_ALIGN(HeapFlag)
heap_total_size == HeapSize - (heap_start - HeapFlag)
heap_end == heap_start + heap_total_size

(* The 64-byte slots of the heap, where headers can be. *)
Slot == {a \in heap_start .. heap_end - 1 : a % MEM_ALIGNMENT = 0}

ASSUME HeapConstants ==
  /\ HeapFlag \in Nat \ {0}
  /\ HeapSize \in Nat
  /\ SizeMod \in Nat
  /\ SizeMod % MEM_ALIGNMENT = 0
  /\ HeapFlag + HeapSize + 2 * MEM_ALIGNMENT < SizeMod
  /\ HeapSize > 3 * HEADER
  /\ Requests \subseteq 0 .. SizeMod - 1
  /\ Foreign \subseteq Int
  /\ \A p \in Foreign : p - HEADER < heap_start \/ p - HEADER >= heap_end

VARIABLES
  free_list,  \* the free list, from free_list_head along the next pointers
  size,       \* size[a]: the size word of the header at slot a
  is_free,    \* is_free[a]: the is_free word of the header at slot a
  live,       \* blocks the callers hold, with the number of bytes asked for
  stale       \* blocks freed whose header memory was not handed out since

vars == <<free_list, size, is_free, live, stale>>

-----------------------------------------------------------------------------
(* Helpers of the code. *)

(* First byte after block b. *)
End(sz, b) == b + HEADER + sz[b]

(* The blocks on the free list. *)
FreeBlocks == {free_list[i] : i \in DOMAIN free_list}

(* Position of block b in list l. *)
Pos(l, b) == CHOOSE i \in DOMAIN l : l[i] = b

remove_from_free_list(l, b) == RemoveAt(l, Pos(l, b))

(* The list positions in front of which b may be linked: the walk stops at *)
(* the first node that is not below b, or at the end.                      *)
InsertPos(l, b) ==
  CHOOSE i \in 1 .. Len(l) + 1 :
    /\ \A j \in 1 .. i - 1 : l[j] < b
    /\ i <= Len(l) => l[i] >= b

add_to_free_list(l, b) == InsertAt(l, InsertPos(l, b), b)

(* Variants of the helpers with a plausible bug, for mutation runs: a      *)
(* merge that forgets the absorbed header, one that counts it twice, a     *)
(* half of merge_free_blocks left out.                                     *)
merge_next_no_header(l, sz, free, b) ==
  LET nxt == End(sz, b)
  IN IF nxt < heap_end /\ free[nxt]
     THEN [list |-> remove_from_free_list(l, nxt),
           size |-> [sz EXCEPT ![b] = @ + sz[nxt]]]
     ELSE [list |-> l, size |-> sz]

merge_next_two_headers(l, sz, free, b) ==
  LET nxt == End(sz, b)
  IN IF nxt < heap_end /\ free[nxt]
     THEN [list |-> remove_from_free_list(l, nxt),
           size |-> [sz EXCEPT ![b] = @ + 2 * HEADER + sz[nxt]]]
     ELSE [list |-> l, size |-> sz]

no_merge(l, sz, free, b) == [list |-> l, size |-> sz]

(* merge_free_blocks, first half: absorb the next physical block.  Returns *)
(* the list and the size words.                                            *)
merge_next(l, sz, free, b) ==
  LET nxt == End(sz, b)
  IN IF nxt < heap_end /\ free[nxt]
     THEN [list |-> remove_from_free_list(l, nxt),
           size |-> [sz EXCEPT ![b] = @ + HEADER + sz[nxt]]]
     ELSE [list |-> l, size |-> sz]

(* Second half: be absorbed by the list predecessor if it ends where b     *)
(* starts.                                                                 *)
merge_prev(l, sz, free, b) ==
  LET i == Pos(l, b)
      prv == l[i - 1]
  IN IF i > 1 /\ free[prv] /\ End(sz, prv) = b
     THEN [list |-> RemoveAt(l, i),
           size |-> [sz EXCEPT ![prv] = @ + HEADER + sz[b]]]
     ELSE [list |-> l, size |-> sz]

SplitsExactFit(b, n) == size[b] - n >= 0  \* variant: no room for a header

(* split_block cuts b to n bytes only if more than a header and a minimal  *)
(* block would be left.                                                    *)
Splits(b, n) == size[b] - n > HEADER + MIN_BLOCK_SIZE

FitsWithHeader(n) == {i \in DOMAIN free_list :   \* variant: counts the header
                        size[free_list[i]] + HEADER >= n}

(* The positions of the list that t_mem_alloc's search accepts for n bytes,*)
(* and the one it settles on: the smallest block, the first of equals.     *)
Fits(n) == {i \in DOMAIN free_list :
              is_free[free_list[i]] /\ size[free_list[i]] >= n}

BestFit(n, i) ==
  /\ i \in Fits(n)
  /\ \A j \in Fits(n) :
       \/ size[free_list[i]] < size[free_list[j]]
       \/ size[free_list[i]] = size[free_list[j]] /\ i <= j

-----------------------------------------------------------------------------
(* t_mem_init: the whole heap is one free block. *)
Init ==
  /\ free_list = <<heap_start>>
  /\ size = [a \in Slot |-> IF a = heap_start
                              THEN heap_total_size - HEADER ELSE 0]
  /\ is_free = [a \in Slot |-> a = heap_start]
  /\ live = << >>
  /\ stale = {}

(* The caller of t_mem_alloc(n) gets the payload of block b; the memory of *)
(* the payload is now the caller's to overwrite.                           *)
HandOut(b, n, sz) ==
  /\ live' = [c \in DOMAIN live \cup {b} |-> IF c = b THEN n ELSE live[c]]
  /\ stale' = {a \in stale : a < b \/ a >= End(sz, b)}

(* t_mem_alloc returns NULL. *)
AllocFails(n) ==
  /\ n = 0 \/ Fits(MEM_ALIGN(n)) = {}
  /\ UNCHANGED vars

(* t_mem_alloc takes best_fit off the list and cuts it. *)
AllocSplits(n) ==
  LET need == MEM_ALIGN(n) IN
  /\ n # 0
  /\ \E i \in DOMAIN free_list :
       LET b == free_list[i]
           new_block == b + HEADER + need
           sz == [size EXCEPT ![new_block] = size[b] - need - HEADER,
                              ![b] = need]
       IN /\ BestFit(need, i)
          /\ Splits(b, need)
          /\ size' = sz
          /\ free_list' = add_to_free_list(RemoveAt(free_list, i), new_block)
          /\ is_free' = [is_free EXCEPT ![new_block] = TRUE, ![b] = FALSE]
          /\ HandOut(b, n, sz)

(* t_mem_alloc takes best_fit off the list and hands all of it out. *)
AllocWhole(n) ==
  LET need == MEM_ALIGN(n) IN
  /\ n # 0
  /\ \E i \in DOMAIN free_list :
       LET b == free_list[i]
       IN /\ BestFit(need, i)
          /\ ~Splits(b, need)
          /\ free_list' = RemoveAt(free_list, i)
          /\ is_free' = [is_free EXCEPT ![b] = FALSE]
          /\ UNCHANGED size
          /\ HandOut(b, n, size)

t_mem_alloc(n) == AllocFails(n) \/ AllocSplits(n) \/ AllocWhole(n)

(* t_mem_free(ptr) returns without touching the heap. *)
FreeIgnored(ptr) ==
  LET b == ptr - HEADER IN
  /\ \/ ptr = NULL
     \/ b < heap_start \/ b >= heap_end
     \/ b \in Slot /\ is_free[b]
  /\ UNCHANGED vars

FreeMergesUnmarked(ptr) ==   \* variant: an absorbed block is not marked free
  LET b == ptr - HEADER IN
  /\ ptr # NULL
  /\ b \in Slot
  /\ ~is_free[b]
  /\ LET free == [is_free EXCEPT ![b] = TRUE]
         m == merge_next(add_to_free_list(free_list, b), size, free, b)
         p == merge_prev(m.list, m.size, free, b)
     IN /\ is_free' = IF p.list = m.list THEN free ELSE is_free
        /\ free_list' = p.list
        /\ size' = p.size
  /\ live' = [c \in DOMAIN live \ {b} |-> live[c]]
  /\ stale' = stale \cup {b}

(* t_mem_free(ptr) links the block in and merges it both ways. *)
FreeMerges(ptr) ==
  LET b == ptr - HEADER IN
  /\ ptr # NULL
  /\ b \in Slot
  /\ ~is_free[b]
  /\ LET free == [is_free EXCEPT ![b] = TRUE]
         m == merge_next(add_to_free_list(free_list, b), size, free, b)
         p == merge_prev(m.list, m.size, free, b)
     IN /\ is_free' = free
        /\ free_list' = p.list
        /\ size' = p.size
  /\ live' = [c \in DOMAIN live \ {b} |-> live[c]]
  /\ stale' = stale \cup {b}

t_mem_free(ptr) == FreeIgnored(ptr) \/ FreeMerges(ptr)

(* What callers pass to t_mem_free: a pointer they hold, one they freed    *)
(* before (a double free), NULL, or a pointer outside the heap.            *)
FreeArguments == {b + HEADER : b \in DOMAIN live \cup stale}
                 \cup {NULL} \cup Foreign

Next == \/ \E n \in Requests : t_mem_alloc(n)
        \/ \E p \in FreeArguments : t_mem_free(p)

Spec == Init /\ [][Next]_vars

(* t_mem_stats. *)
free_size == MapThenSumSet(LAMBDA b : size[b] + HEADER,
                           {b \in FreeBlocks : is_free[b]})
used_size_payload ==    \* variant: the headers of used blocks are not counted
  heap_total_size - free_size - HEADER * Cardinality(DOMAIN live)
used_size == heap_total_size - free_size

-----------------------------------------------------------------------------
(* Properties. *)

Blocks == DOMAIN live \cup FreeBlocks

(* The types of the variables. *)
TypeOK ==
  /\ free_list \in Seq(Slot)
  /\ size \in [Slot -> Nat]
  /\ is_free \in [Slot -> BOOLEAN]
  /\ DOMAIN live \subseteq Slot
  /\ \A b \in DOMAIN live : live[b] \in Requests
  /\ stale \subseteq Slot

(* The list is in strictly ascending address order: the order that         *)
(* merge_free_blocks relies on when it looks for the physical predecessor  *)
(* at block->prev only.                                                    *)
ListAscends ==
  \A i, j \in DOMAIN free_list : i < j => free_list[i] < free_list[j]

(* The is_free words of the real headers say which blocks are listed; a    *)
(* block is never held by a caller and on the list at once.                *)
FlagsAgree ==
  /\ \A b \in FreeBlocks : is_free[b]
  /\ \A b \in DOMAIN live : ~is_free[b]

(* The blocks of B, with the sizes sz, tile the heap. *)
Tiles(B, sz) ==
  /\ heap_start \in B
  /\ \A b \in B : End(sz, b) = heap_end \/ End(sz, b) \in B
  /\ \A b, c \in B : b < c => End(sz, b) <= c

(* The first block starts the heap, each one ends where the next starts or *)
(* where the heap ends, none reaches into another.  No byte is lost by     *)
(* splits and merges, and following sizes from header to header (next_addr *)
(* in merge_free_blocks) always lands on a real header.                    *)
Tiled == Tiles(Blocks, size)

(* No two physically adjacent blocks are both free: merging on free is     *)
(* complete, although a split never merges.                                *)
Coalesced == \A b, c \in FreeBlocks : End(size, b) # c

(* Every payload is at least as long as what the caller asked for.         *)
PayloadHoldsRequest == \A b \in DOMAIN live : live[b] <= size[b]

(* A pointer freed twice is recognised as long as the memory of its header *)
(* was not handed out again, whatever merges and splits came in between.   *)
StaleDetected == \A b \in stale : is_free[b]

(* t_mem_stats reports as used exactly the blocks the callers hold.        *)
StatsExact ==
  used_size = MapThenSumSet(LAMBDA b : size[b] + HEADER, DOMAIN live)

(* The free list is what merge_free_blocks, t_mem_free and the best-fit    *)
(* search take it for, whatever calls came before: in address order, in    *)
(* agreement with the is_free words in memory, and with nothing left to    *)
(* merge.                                                                  *)
FreeListSound == ListAscends /\ FlagsAgree /\ Coalesced

(* When the callers have freed everything, the heap is one block again.    *)
AllFreeRestores ==
  live = << >> => /\ free_list = <<heap_start>>
                  /\ size[heap_start] = heap_total_size - HEADER

(* No operation on other blocks rewrites the header of a block in use.     *)
LiveHeadersStable ==
  [][\A b \in DOMAIN live \cap DOMAIN live' :
       live'[b] = live[b] => size'[b] = size[b] /\ ~is_free'[b]]_vars

(* t_mem_test.c expects a request larger than the whole heap to fail. *)
LargerThanHeapRefused ==
  \A b \in DOMAIN live : live[b] <= heap_total_size

(* No request is within 63 bytes of SIZE_MAX, where MEM_ALIGN wraps. *)
RequestsFit == \A n \in Requests : n + (MEM_ALIGNMENT - 1) < SizeMod

(* The heap implements the promise of HeapSpec, a caller's region being    *)
(* the first bytes of the payload, as many as it asked for.                *)
Held == {[addr |-> b + HEADER, len |-> live[b]] : b \in DOMAIN live}

Abs == INSTANCE HeapSpec WITH Lo <- heap_start, Hi <- heap_end,
                              Alignment <- MEM_ALIGNMENT, held <- Held

ImplementsHeapSpec == Abs!Spec
=============================================================================
