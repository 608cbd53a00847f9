--------------------------- MODULE OperatorProofs ---------------------------
(***************************************************************************)
(* Proofs about the operators of the networks, as part of Workload: those  *)
(* on the engine (NpuConv, over the layouts and generators of NpuLayout)   *)
(* and those on the CPU (Kernels).                                         *)
(*                                                                         *)
(* On the engine: what is refused could not be done, every task is taken,  *)
(* reads only bytes that were laid out and cleaned, and writes each word   *)
(* of the output once.  First the arithmetic of rounding up; then the      *)
(* descriptor of a convolution (ConvFields) and of a tile of a matmul      *)
(* (TileFields), field by field through the masks of gen_matmul_task; then *)
(* which operators are generated; then the invariant (NpuInv): while tasks *)
(* are submitted they are what the generator makes of the current          *)
(* operator, and an operator was given up only if its generator refuses    *)
(* it.  The theorems are what these descriptors mean for the engine.       *)
(*                                                                         *)
(* On the CPU: the arithmetic of each kernel is in WorkloadProofs; here    *)
(* are the kernels that only move a tensor (pooling, upsampling, transpose *)
(* and the join of channels), and the theorem about all of them.  Its      *)
(* invariant (KernelInv) only says that a result is that of a call the     *)
(* program makes.                                                          *)
(*                                                                         *)
(* Then the types of the tests (WorkloadTypeOK): what the writes of a      *)
(* submission and the layout of an operator leave of the buffers.          *)
(*                                                                         *)
(* Last, that what is read back is the result (ResultExact).  Each layout  *)
(* is a table: which element lies at a channel and position (CubeTable,    *)
(* KernelTable, PatchTable, FilterTable), no two at one byte.  The terms   *)
(* an engine sums over two tables (SumOfTables) are, in each cell, those   *)
(* of the reference: one lemma per kind of operator.  The invariant        *)
(* (SumsHeld) follows the buffers: the input holds what was laid out, the  *)
(* words of the tasks already done their sums, and what is read back of    *)
(* the finished blocks is exact.                                           *)
(***************************************************************************)
EXTENDS WorkloadProofs, FunctionTheorems

-----------------------------------------------------------------------------
(* Rounding up. *)

LEMMA CeilFacts ==
  ASSUME NEW a \in Nat, NEW b \in Nat \ {0}
  PROVE  /\ CeilDiv(a, b) \in Nat /\ CeilDiv(a, b) * b \in Nat
         /\ CeilDiv(a, b) * b >= a /\ CeilDiv(a, b) * b < a + b
         /\ (a > 0 => CeilDiv(a, b) > 0)
<1> DEFINE c == a + b - 1
           q == c \div b
<1>1. c \in Nat /\ q \in Nat /\ c % b \in 0 .. b - 1
  OBVIOUS
<1>2. c = q * b + (c % b)
  OBVIOUS
<1>3. CeilDiv(a, b) = q
  BY DEF CeilDiv
<1>4. q * b \in Nat
  BY <1>1
<1>5. a > 0 => q > 0
  <2>1. CASE q = 0
    <3>1. q * b = 0
      BY <2>1
    <3> HIDE DEF q
    <3>2. QED BY <1>1, <1>2, <3>1
  <2>2. CASE q # 0
    BY <1>1, <2>2
  <2>3. QED BY <2>1, <2>2
<1> HIDE DEF q
<1>6. QED BY <1>1, <1>2, <1>3, <1>4, <1>5

LEMMA CeilLeast ==
  ASSUME NEW a \in Nat, NEW b \in Nat \ {0}, NEW c \in Nat, a <= c * b
  PROVE  CeilDiv(a, b) <= c
<1> DEFINE q == CeilDiv(a, b)
<1>1. q \in Nat /\ q * b < a + b /\ q * b \in Nat
  BY CeilFacts
<1> HIDE DEF q
<1>2. q * b < (c + 1) * b
  <2>1. (c + 1) * b = c * b + b /\ c * b \in Nat
    OBVIOUS
  <2>2. QED BY <1>1, <2>1
<1>3. q < c + 1
  BY <1>1, <1>2, Cancel
<1>4. QED BY <1>1, <1>3 DEF q

LEMMA CeilMore ==
  ASSUME NEW a \in Nat, NEW b \in Nat \ {0}, NEW c \in Int, c * b < a
  PROVE  CeilDiv(a, b) > c
<1> DEFINE q == CeilDiv(a, b)
<1>1. q \in Nat /\ q * b >= a /\ q * b \in Nat
  BY CeilFacts
<1> HIDE DEF q
<1>2. c * b < q * b
  <2>1. c * b \in Int
    OBVIOUS
  <2>2. QED BY <1>1, <2>1
<1>3. c < q
  BY <1>1, <1>2, Cancel
<1>4. QED BY <1>1, <1>3 DEF q

LEMMA RoundUpFacts ==
  ASSUME NEW a \in Nat, NEW b \in Nat \ {0}
  PROVE  /\ RoundUp(a, b) \in Nat /\ RoundUp(a, b) >= a /\ RoundUp(a, b) < a + b
         /\ RoundUp(a, b) % b = 0
         /\ (a > 0 => RoundUp(a, b) >= b)
         /\ (a % b = 0 => RoundUp(a, b) = a)
<1> DEFINE q == CeilDiv(a, b)
<1>1. /\ q \in Nat /\ q * b \in Nat /\ q * b >= a /\ q * b < a + b
      /\ (a > 0 => q > 0)
  BY CeilFacts
<1> HIDE DEF q
<1>2. (q * b) % b = 0
  BY <1>1
<1>3. q > 0 => q * b >= b
  BY <1>1
<1>4. ASSUME a % b = 0 PROVE q * b = a
  <2> DEFINE d == a \div b
  <2>1. d \in Nat /\ a = d * b
    BY <1>4
  <2> HIDE DEF d
  <2>2. q <= d
    BY <2>1, CeilLeast DEF q
  <2>3. q * b <= d * b
    BY <1>1, <2>1, <2>2, Grows
  <2>4. QED BY <1>1, <2>1, <2>3
<1>5. QED BY <1>1, <1>2, <1>3, <1>4 DEF RoundUp, q

(* A number x of the form q * b.                                           *)
LEMMA Whole ==
  ASSUME NEW a \in Nat, NEW b \in Nat \ {0}, a % b = 0
  PROVE  /\ a \div b \in Nat /\ a = (a \div b) * b /\ (a > 0 => a \div b > 0 /\ a >= b)
<1> DEFINE q == a \div b
<1>1. q \in Nat /\ a = q * b
  OBVIOUS
<1> HIDE DEF q
<1>2. a > 0 => q > 0
  BY <1>1
<1>3. q > 0 => q * b >= b
  BY <1>1
<1>4. QED BY <1>1, <1>2, <1>3 DEF q

-----------------------------------------------------------------------------
(* The task of a convolution that fits the engine. *)

LEMMA Masked ==
  ASSUME NEW x \in Nat, NEW m \in Nat \ {0}, x < m
  PROVE  x % m = x
OBVIOUS

LEMMA FieldWidths ==
  /\ 2^GrainBits \in Int /\ 2^11 = 2048 /\ 2^16 = 65536 /\ 2^13 = 8192 /\ 2^14 = 16384
  /\ 2^5 = 32 /\ 2^3 = 8 /\ 2^4 = 16 /\ 2^19 = 524288 /\ 2^28 = 268435456 /\ 2^17 = 131072
  /\ 2^26 = 67108864
<1>1. GrainBits \in Nat \ {0}
  BY SizesArePositive
<1>2. QED BY <1>1

LEMMA HardwareSizes ==
  /\ Atom \in Nat \ {0} /\ OutElem \in Nat \ {0} /\ Group \in Nat \ {0}
  /\ RowAlign \in Nat \ {0} /\ Bank \in Nat \ {0} /\ TileCap \in Nat \ {0}
  /\ GrainBits \in Nat \ {0} /\ Banks \in Nat /\ Banks > 1
  /\ Banks <= Group /\ Banks < 16 /\ Bank < 65536 /\ Banks * Bank < 16384 * Group
  /\ TileCap < 2048 /\ RowAlign < 131072 /\ TileCap + 1 < 2^GrainBits
  BY SizesArePositive, BanksAreShared, BanksFitTheirFields, TileFitsGrains, FieldWidths

(* Fields that hold their values come out as they went in.                 *)
FieldsHold(d) ==
  /\ d.grains \in Nat /\ d.grains < 2^GrainBits
  /\ d.in_h \in Nat /\ d.in_h < 2^11 /\ d.in_w \in Nat /\ d.in_w < 2^11
  /\ d.in_c \in Nat /\ d.in_c < 2^16
  /\ d.out_h \in Nat /\ d.out_h < 2^13 /\ d.out_w \in Nat /\ d.out_w < 2^11
  /\ d.kernels \in Nat /\ d.kernels < 2^14
  /\ d.kh \in Nat /\ d.kh < 2^5 /\ d.kw \in Nat /\ d.kw < 2^5
  /\ d.stride_h \in Nat /\ d.stride_h < 2^3 /\ d.stride_w \in Nat /\ d.stride_w < 2^3
  /\ d.pad_top \in Nat /\ d.pad_top < 2^4 /\ d.pad_left \in Nat /\ d.pad_left < 2^4
  /\ d.wbpk \in Nat /\ d.wbpk < 2^19
  /\ d.weight_bank \in Nat /\ d.weight_bank < 2^4
  /\ d.data_bank \in Nat /\ d.data_bank < 2^4
  /\ d.line_stride \in Nat /\ d.line_stride < 2^28
  /\ d.dst_surf_stride \in Nat /\ d.dst_surf_stride < 2^28

DescriptorFields ==
  {"grains", "in_h", "in_w", "in_c", "out_h", "out_w", "kernels", "kh", "kw", "stride_h",
   "stride_w", "pad_top", "pad_left", "wbytes", "wbpk", "weight_bank", "data_bank",
   "line_stride", "surf_stride", "feature_base", "dst_base", "dst_surf_stride"}

LEMMA TaskFields ==
  ASSUME NEW d, DOMAIN d = DescriptorFields, FieldsHold(d)
  PROVE  LET t == gen_matmul_task(d) IN
         /\ t.grains = d.grains /\ t.in_h = d.in_h /\ t.in_w = d.in_w /\ t.in_c = d.in_c
         /\ t.out_h = d.out_h /\ t.out_w = d.out_w /\ t.kernels = d.kernels
         /\ t.kh = d.kh /\ t.kw = d.kw /\ t.stride_h = d.stride_h /\ t.stride_w = d.stride_w
         /\ t.pad_top = d.pad_top /\ t.pad_left = d.pad_left /\ t.wbytes = d.wbytes
         /\ t.wbpk = d.wbpk /\ t.weight_bank = d.weight_bank /\ t.data_bank = d.data_bank
         /\ t.line_stride = d.line_stride /\ t.dst_surf_stride = d.dst_surf_stride
         /\ t.feature_base = d.feature_base /\ t.dst_base = d.dst_base
         /\ t.surf_stride = d.surf_stride % 2^28
<1> DEFINE t == gen_matmul_task(d)
<1>1. /\ t.grains = d.grains % 2^GrainBits /\ t.in_h = d.in_h % 2^11
      /\ t.in_w = d.in_w % 2^11 /\ t.in_c = d.in_c % 2^16
      /\ t.out_h = d.out_h % 2^13 /\ t.out_w = d.out_w % 2^11
      /\ t.kernels = d.kernels % 2^14 /\ t.kh = d.kh % 2^5 /\ t.kw = d.kw % 2^5
      /\ t.stride_h = d.stride_h % 2^3 /\ t.stride_w = d.stride_w % 2^3
      /\ t.pad_top = d.pad_top % 2^4 /\ t.pad_left = d.pad_left % 2^4
      /\ t.wbpk = d.wbpk % 2^19 /\ t.weight_bank = d.weight_bank % 2^4
      /\ t.data_bank = d.data_bank % 2^4 /\ t.line_stride = d.line_stride % 2^28
      /\ t.surf_stride = d.surf_stride % 2^28
      /\ t.dst_surf_stride = d.dst_surf_stride % 2^28
      /\ t.wbytes = d.wbytes /\ t.feature_base = d.feature_base /\ t.dst_base = d.dst_base
  BY DEF gen_matmul_task, DescriptorFields
<1> HIDE DEF t
<1>2. 2^GrainBits \in Nat \ {0}
  BY FieldWidths DEF FieldsHold
<1>3. t.grains = d.grains
  BY <1>1, <1>2, Masked DEF FieldsHold
<1>4. /\ t.in_h = d.in_h /\ t.in_w = d.in_w /\ t.in_c = d.in_c
      /\ t.out_h = d.out_h /\ t.out_w = d.out_w /\ t.kernels = d.kernels
  BY <1>1, FieldWidths DEF FieldsHold
<1>5. /\ t.kh = d.kh /\ t.kw = d.kw /\ t.stride_h = d.stride_h /\ t.stride_w = d.stride_w
      /\ t.pad_top = d.pad_top /\ t.pad_left = d.pad_left
  BY <1>1, FieldWidths DEF FieldsHold
<1>6. /\ t.wbpk = d.wbpk /\ t.weight_bank = d.weight_bank /\ t.data_bank = d.data_bank
      /\ t.line_stride = d.line_stride /\ t.dst_surf_stride = d.dst_surf_stride
  BY <1>1, FieldWidths DEF FieldsHold
<1>7. QED BY <1>1, <1>3, <1>4, <1>5, <1>6 DEF t



LEMMA OutOfFacts ==
  ASSUME NEW n \in Nat, NEW pad \in Nat, NEW k \in Nat, NEW s \in Nat \ {0}, k <= n + pad
  PROVE  /\ OutDim(n, pad, k, s) \in Nat \ {0}
         /\ (OutDim(n, pad, k, s) - 1) * s + k <= n + pad
<1> DEFINE a == n + pad - k
           q == a \div s
<1>1. a \in Nat /\ q \in Nat /\ q * s \in Nat /\ q * s <= a
  <2>1. a \in Nat
    OBVIOUS
  <2> HIDE DEF a
  <2>2. q \in Nat /\ a % s \in Nat /\ q * s \in Nat /\ a = q * s + (a % s)
    BY <2>1
  <2>3. QED BY <2>1, <2>2
<1> HIDE DEF q
<1>2. OutDim(n, pad, k, s) = q + 1
  BY DEF OutDim, q
<1>3. (q + 1) - 1 = q
  BY <1>1
<1>4. QED BY <1>1, <1>2, <1>3

(* What the task of a convolution holds.                                   *)
ConvFields(t, p) ==
  /\ t.grains = p.in_h + 1 /\ t.in_h = p.in_h /\ t.in_w = p.in_w /\ t.in_c = p.in_c
  /\ t.out_h = ConvOutH(p) /\ t.out_w = ConvOutW(p) /\ t.kernels = p.out_c
  /\ t.kh = p.kh /\ t.kw = p.kw /\ t.stride_h = p.stride_h /\ t.stride_w = p.stride_w
  /\ t.pad_top = p.pad_top /\ t.pad_left = p.pad_left
  /\ t.wbytes = p.kw * p.kh * p.in_c * p.out_c /\ t.wbpk = p.kw * p.kh * p.in_c
  /\ t.weight_bank = Banks - BanksFor(p.in_w * p.in_h * p.in_c)
  /\ t.data_bank = BanksFor(p.in_w * p.in_h * p.in_c)
  /\ t.line_stride = p.in_w * RowAlign
  /\ t.surf_stride = SurfStride(p.in_w * RowAlign, p.in_h) % 2^28
  /\ t.feature_base = 0 /\ t.dst_base = 0
  /\ t.dst_surf_stride = ConvOutH(p) * ConvOutW(p)

LEMMA Positive ==
  ASSUME NEW a \in Nat \ {0}, NEW b \in Nat \ {0}
  PROVE  a * b \in Nat \ {0} /\ a * b >= a /\ a * b >= b
<1>1. a * b = a + a * (b - 1) /\ a * (b - 1) \in Nat
  OBVIOUS
<1>2. a * b = b + (a - 1) * b /\ (a - 1) * b \in Nat
  OBVIOUS
<1>3. QED BY <1>1, <1>2

LEMMA BanksOf ==
  ASSUME NEW x \in Nat \ {0}, NEW n \in Nat, x <= n * Bank
  PROVE  BanksFor(x) \in 1 .. n /\ x <= BanksFor(x) * Bank
<1>1. Bank \in Nat \ {0}
  BY HardwareSizes
<1> DEFINE b == CeilDiv(x, Bank)
<1>2. x \in Nat /\ x > 0
  OBVIOUS
<1>3. b \in Nat /\ b > 0 /\ b * Bank >= x
  BY <1>1, <1>2, CeilFacts
<1>4. b <= n
  BY <1>1, <1>2, CeilLeast
<1>5. BanksFor(x) = b
  BY DEF BanksFor
<1> HIDE DEF b
<1>6. b \in 1 .. n /\ b * Bank \in Nat
  BY <1>1, <1>3, <1>4
<1>7. QED BY <1>2, <1>3, <1>5, <1>6

(* The sizes of a convolution that fits.                                   *)
LEMMA ConvSizes ==
  ASSUME NEW p, FitsTheEngine(p)
  PROVE  /\ {p.in_h, p.in_w, p.in_c, p.out_c, p.kh, p.kw, p.stride_h, p.stride_w}
              \subseteq Nat \ {0}
         /\ {p.pad_top, p.pad_left, p.pad_bottom, p.pad_right} \subseteq Nat
         /\ ConvOutH(p) \in Nat \ {0} /\ ConvOutW(p) \in Nat \ {0}
         /\ p.in_w * p.in_h \in Nat \ {0} /\ p.in_w * p.in_h * p.in_c \in Nat \ {0}
         /\ p.kw * p.kh \in Nat \ {0} /\ p.kw * p.kh * p.in_c \in Nat \ {0}
         /\ p.in_w * p.in_h <= p.in_w * p.in_h * p.in_c
         /\ p.in_c <= p.kw * p.kh * p.in_c
         /\ BanksFor(p.in_w * p.in_h * p.in_c) \in 1 .. Banks - 1
         /\ p.in_w * p.in_h * p.in_c <= BanksFor(p.in_w * p.in_h * p.in_c) * Bank
<1>1. /\ {p.in_h, p.in_w, p.in_c, p.out_c, p.kh, p.kw, p.stride_h, p.stride_w}
           \subseteq Nat \ {0}
      /\ {p.pad_top, p.pad_left, p.pad_bottom, p.pad_right} \subseteq Nat
  BY DEF FitsTheEngine, ConvParams
<1>2. ConvOutH(p) \in Nat \ {0} /\ ConvOutW(p) \in Nat \ {0}
  <2>1. p.pad_top + p.pad_bottom \in Nat /\ p.pad_left + p.pad_right \in Nat
    BY <1>1
  <2>2. p.kh <= p.in_h + (p.pad_top + p.pad_bottom) /\ p.kw <= p.in_w + (p.pad_left + p.pad_right)
    BY <1>1 DEF FitsTheEngine
  <2>3. QED BY <1>1, <2>1, <2>2, OutOfFacts DEF ConvOutH, ConvOutW
<1>3. /\ p.in_w * p.in_h \in Nat \ {0} /\ p.in_w * p.in_h * p.in_c \in Nat \ {0}
      /\ p.in_w * p.in_h <= p.in_w * p.in_h * p.in_c
  <2>1. p.in_w \in Nat \ {0} /\ p.in_h \in Nat \ {0} /\ p.in_c \in Nat \ {0}
    BY <1>1
  <2> DEFINE a == p.in_w * p.in_h
  <2>2. a \in Nat \ {0}
    BY <2>1, Positive
  <2> HIDE DEF a
  <2>3. a * p.in_c \in Nat \ {0} /\ a * p.in_c >= a
    BY <2>1, <2>2, Positive
  <2>4. QED BY <2>2, <2>3 DEF a
<1>4. /\ p.kw * p.kh \in Nat \ {0} /\ p.kw * p.kh * p.in_c \in Nat \ {0}
      /\ p.in_c <= p.kw * p.kh * p.in_c
  <2>1. p.kw \in Nat \ {0} /\ p.kh \in Nat \ {0} /\ p.in_c \in Nat \ {0}
    BY <1>1
  <2> DEFINE a == p.kw * p.kh
  <2>2. a \in Nat \ {0}
    BY <2>1, Positive
  <2> HIDE DEF a
  <2>3. a * p.in_c \in Nat \ {0} /\ a * p.in_c >= p.in_c
    BY <2>1, <2>2, Positive
  <2>4. QED BY <2>2, <2>3 DEF a
<1>5. p.in_w * p.in_h * p.in_c <= (Banks - 1) * Bank /\ Banks - 1 \in Nat
  BY HardwareSizes DEF FitsTheEngine
<1>6. /\ BanksFor(p.in_w * p.in_h * p.in_c) \in 1 .. Banks - 1
      /\ p.in_w * p.in_h * p.in_c <= BanksFor(p.in_w * p.in_h * p.in_c) * Bank
  BY <1>3, <1>5, BanksOf
<1>7. QED BY <1>1, <1>2, <1>3, <1>4, <1>6

LEMMA ConvTaskFields ==
  ASSUME NEW p, FitsTheEngine(p)
  PROVE  ConvFields(ConvTask(p), p)
<1> DEFINE out_h == (p.in_h + p.pad_top + p.pad_bottom - p.kh) \div p.stride_h + 1
           out_w == (p.in_w + p.pad_left + p.pad_right - p.kw) \div p.stride_w + 1
           wbpk  == p.kw * p.kh * p.in_c
           fd_banks == BanksFor(p.in_w * p.in_h * p.in_c)
           line_stride == p.in_w * RowAlign
           d == [grains |-> p.in_h + 1, in_h |-> p.in_h, in_w |-> p.in_w,
                 in_c |-> p.in_c, out_h |-> out_h, out_w |-> out_w,
                 kernels |-> p.out_c, kh |-> p.kh, kw |-> p.kw,
                 stride_h |-> p.stride_h, stride_w |-> p.stride_w,
                 pad_top |-> p.pad_top, pad_left |-> p.pad_left,
                 wbytes |-> wbpk * p.out_c, wbpk |-> wbpk,
                 weight_bank |-> Banks - fd_banks, data_bank |-> fd_banks,
                 line_stride |-> line_stride,
                 surf_stride |-> SurfStride(line_stride, p.in_h),
                 feature_base |-> 0, dst_base |-> 0,
                 dst_surf_stride |-> out_h * out_w]
<1>1. ConvTask(p) = gen_matmul_task(d)
  BY DEF ConvTask
<1>2. DOMAIN d = DescriptorFields
  BY DEF DescriptorFields
<1>3. /\ d.grains = p.in_h + 1 /\ d.in_h = p.in_h /\ d.in_w = p.in_w /\ d.in_c = p.in_c
      /\ d.out_h = out_h /\ d.out_w = out_w /\ d.kernels = p.out_c
      /\ d.kh = p.kh /\ d.kw = p.kw /\ d.stride_h = p.stride_h /\ d.stride_w = p.stride_w
      /\ d.pad_top = p.pad_top /\ d.pad_left = p.pad_left
      /\ d.wbytes = wbpk * p.out_c /\ d.wbpk = wbpk
      /\ d.weight_bank = Banks - fd_banks /\ d.data_bank = fd_banks
      /\ d.line_stride = line_stride /\ d.surf_stride = SurfStride(line_stride, p.in_h)
      /\ d.feature_base = 0 /\ d.dst_base = 0 /\ d.dst_surf_stride = out_h * out_w
  OBVIOUS
<1> HIDE DEF d
<1>4. /\ {p.in_h, p.in_w, p.in_c, p.out_c, p.kh, p.kw, p.stride_h, p.stride_w}
           \subseteq Nat \ {0}
      /\ {p.pad_top, p.pad_left, p.pad_bottom, p.pad_right} \subseteq Nat
  BY ConvSizes
<1>5. out_h = ConvOutH(p) /\ out_w = ConvOutW(p)
  <2>1. /\ p.in_h + p.pad_top + p.pad_bottom - p.kh = p.in_h + (p.pad_top + p.pad_bottom) - p.kh
        /\ p.in_w + p.pad_left + p.pad_right - p.kw = p.in_w + (p.pad_left + p.pad_right) - p.kw
    BY <1>4
  <2>2. QED BY <2>1 DEF ConvOutH, ConvOutW, OutDim
<1>6. out_h \in Nat \ {0} /\ out_w \in Nat \ {0} /\ fd_banks \in 1 .. Banks - 1
      /\ wbpk \in Nat /\ p.in_c <= wbpk
  BY <1>5, ConvSizes
<1> HIDE DEF out_h, out_w, wbpk, fd_banks
<1>7. /\ p.in_h + 1 < 2^GrainBits /\ p.in_h < 2^11 /\ p.in_w < 2^11
      /\ p.kh < 2^5 /\ p.kw < 2^5 /\ p.stride_h < 2^3 /\ p.stride_w < 2^3
      /\ p.pad_top < 2^4 /\ p.pad_left < 2^4 /\ p.out_c < 2^14
      /\ out_h < 2^13 /\ out_w < 2^11
  BY <1>5 DEF FitsTheEngine, FitsTheFields
<1>8. wbpk <= Bank /\ p.in_c < 2^16 /\ wbpk < 2^19
  <2>1. wbpk <= Bank
    BY DEF FitsTheEngine, wbpk
  <2>2. QED BY <1>4, <1>6, <2>1, HardwareSizes, FieldWidths
<1>9. line_stride \in Nat /\ line_stride < 2^28
  <2>1. p.in_w * RowAlign <= 2047 * RowAlign /\ p.in_w * RowAlign \in Nat
    BY <1>4, <1>7, FieldWidths, HardwareSizes, Grows
  <2>2. QED BY <2>1, FieldWidths, HardwareSizes
<1>10. out_h * out_w \in Nat /\ out_h * out_w < 2^28
  <2>1. out_h * out_w <= 8191 * out_w /\ out_h * out_w \in Nat
    BY <1>6, <1>7, FieldWidths, Grows
  <2>2. QED BY <1>6, <1>7, <2>1, FieldWidths
<1>11. FieldsHold(d)
  <2>1. /\ d.grains \in Nat /\ d.grains < 2^GrainBits
        /\ d.in_h \in Nat /\ d.in_h < 2^11 /\ d.in_w \in Nat /\ d.in_w < 2^11
        /\ d.in_c \in Nat /\ d.in_c < 2^16
        /\ d.out_h \in Nat /\ d.out_h < 2^13 /\ d.out_w \in Nat /\ d.out_w < 2^11
        /\ d.kernels \in Nat /\ d.kernels < 2^14
    BY <1>3, <1>4, <1>6, <1>7, <1>8
  <2>2. /\ d.kh \in Nat /\ d.kh < 2^5 /\ d.kw \in Nat /\ d.kw < 2^5
        /\ d.stride_h \in Nat /\ d.stride_h < 2^3 /\ d.stride_w \in Nat /\ d.stride_w < 2^3
        /\ d.pad_top \in Nat /\ d.pad_top < 2^4 /\ d.pad_left \in Nat /\ d.pad_left < 2^4
        /\ d.wbpk \in Nat /\ d.wbpk < 2^19
    BY <1>3, <1>4, <1>6, <1>7, <1>8
  <2>3. /\ d.weight_bank \in Nat /\ d.weight_bank < 2^4
        /\ d.data_bank \in Nat /\ d.data_bank < 2^4
    BY <1>3, <1>6, HardwareSizes, FieldWidths
  <2>4. /\ d.line_stride \in Nat /\ d.line_stride < 2^28
        /\ d.dst_surf_stride \in Nat /\ d.dst_surf_stride < 2^28
    BY <1>3, <1>9, <1>10
  <2>5. QED BY <2>1, <2>2, <2>3, <2>4 DEF FieldsHold
<1> HIDE DEF line_stride
<1> DEFINE t == ConvTask(p)
<1>12. /\ t.grains = d.grains /\ t.in_h = d.in_h /\ t.in_w = d.in_w /\ t.in_c = d.in_c
       /\ t.out_h = d.out_h /\ t.out_w = d.out_w /\ t.kernels = d.kernels
       /\ t.kh = d.kh /\ t.kw = d.kw /\ t.stride_h = d.stride_h /\ t.stride_w = d.stride_w
       /\ t.pad_top = d.pad_top /\ t.pad_left = d.pad_left /\ t.wbytes = d.wbytes
       /\ t.wbpk = d.wbpk /\ t.weight_bank = d.weight_bank /\ t.data_bank = d.data_bank
       /\ t.line_stride = d.line_stride /\ t.dst_surf_stride = d.dst_surf_stride
       /\ t.feature_base = d.feature_base /\ t.dst_base = d.dst_base
       /\ t.surf_stride = d.surf_stride % 2^28
  BY <1>1, <1>2, <1>11, TaskFields
<1> HIDE DEF t
<1>13. ConvFields(t, p)
  BY <1>3, <1>5, <1>12, Zenon DEF ConvFields, wbpk, fd_banks, line_stride
<1>14. QED BY <1>13 DEF t

LEMMA EngineTakesConv ==
  ASSUME NEW p, FitsTheEngine(p)
  PROVE  EngineTakes(ConvTask(p))
<1> DEFINE t == ConvTask(p)
<1>1. ConvFields(t, p)
  BY ConvTaskFields
<1> HIDE DEF t
<1>2. /\ t.grains = p.in_h + 1 /\ t.in_h = p.in_h /\ t.in_w = p.in_w /\ t.in_c = p.in_c
      /\ t.kernels = p.out_c /\ t.wbpk = p.kw * p.kh * p.in_c
      /\ t.weight_bank = Banks - BanksFor(p.in_w * p.in_h * p.in_c)
      /\ t.data_bank = BanksFor(p.in_w * p.in_h * p.in_c)
  BY <1>1 DEF ConvFields
<1>3. /\ p.in_c % Group = 0 /\ p.out_c % Group = 0 /\ p.kw * p.kh * p.in_c <= Bank
  BY DEF FitsTheEngine
<1>4. /\ BanksFor(p.in_w * p.in_h * p.in_c) \in 1 .. Banks - 1
      /\ p.in_w * p.in_h * p.in_c <= BanksFor(p.in_w * p.in_h * p.in_c) * Bank
      /\ p.in_h \in Nat /\ p.in_w \in Nat
  BY ConvSizes
<1>5. Banks \in Nat
  BY HardwareSizes
<1>6. t.in_h * t.in_w * t.in_c = p.in_w * p.in_h * p.in_c
  <2>1. p.in_h * p.in_w = p.in_w * p.in_h
    BY <1>4
  <2>2. QED BY <1>2, <2>1
<1>7. t.in_h * t.in_w * t.in_c <= t.data_bank * Bank
  BY <1>2, <1>4, <1>6
<1>8. t.weight_bank > 0 /\ t.data_bank + t.weight_bank <= Banks
  BY <1>2, <1>4, <1>5
<1>9. EngineTakes(t)
  BY <1>2, <1>3, <1>7, <1>8 DEF EngineTakes
<1>10. QED BY <1>9 DEF t

(* A convolution that fits is generated.                                   *)
LEMMA ConvGenerated ==
  ASSUME NEW p, FitsTheEngine(p)
  PROVE  /\ gen_conv2d_int8(p).ret = 0
         /\ gen_conv2d_int8(p).tasks = <<ConvTask(p)>>
<1>1. BanksFor(p.in_w * p.in_h * p.in_c) \in 1 .. Banks - 1 /\ p.kw * p.kh * p.in_c <= Bank
  BY ConvSizes DEF FitsTheEngine
<1>2. p.kw * p.kh * p.in_c \in Nat /\ Banks \in Nat /\ Bank \in Nat
  BY ConvSizes, HardwareSizes
<1> DEFINE w == p.kw * p.kh * p.in_c
           b == BanksFor(p.in_w * p.in_h * p.in_c)
           g == Generated(<<ConvTask(p)>>)
<1>3. ~(b > Banks - 1) /\ ~(w > Bank)
  BY <1>1, <1>2
<1>4. gen_conv2d_int8(p) =
        CASE b > Banks - 1 -> Refused(-1)
          [] b <= Banks - 1 /\ w > Bank -> Refused(-2)
          [] OTHER -> g
  BY Zenon DEF gen_conv2d_int8
<1> HIDE DEF w, b, g
<1>5. gen_conv2d_int8(p) = g
  BY <1>3, <1>4
<1>6. g.ret = 0 /\ g.tasks = <<ConvTask(p)>>
  BY DEF g, Generated
<1>7. QED BY <1>5, <1>6

-----------------------------------------------------------------------------
(* The tiles of a matmul. *)

WeightBanks(k, n) == BanksFor(RoundUp(k, Group) * RoundUp(n, Group))

Padded(k) == k \in Nat \ {0} /\ k % Group = 0

LEMMA PaddedFacts ==
  ASSUME NEW k, Padded(k)
  PROVE  k \in Nat \ {0} /\ k >= Group /\ RoundUp(k, Group) = k
  BY HardwareSizes, Whole, RoundUpFacts DEF Padded

(* Weights that leave a bank are of fields' sizes.                         *)
LEMMA WeightSizes ==
  ASSUME NEW k, NEW n, Padded(k), Padded(n)
  PROVE  /\ WeightBanks(k, n) = BanksFor(k * n) /\ k * n \in Nat \ {0}
         /\ WeightBanks(k, n) \in Nat \ {0}
         /\ k * n <= WeightBanks(k, n) * Bank
         /\ WeightBanks(k, n) < Banks => k < 2^14 /\ n < 2^14 /\ k <= Bank
<1>1. /\ k \in Nat \ {0} /\ n \in Nat \ {0} /\ k >= Group /\ n >= Group
      /\ RoundUp(k, Group) = k /\ RoundUp(n, Group) = n
  BY PaddedFacts
<1>2. k * n \in Nat \ {0}
  BY <1>1, Positive
<1> DEFINE b == BanksFor(k * n)
<1>3. WeightBanks(k, n) = b
  BY <1>1 DEF WeightBanks
<1>4. b \in Nat \ {0} /\ k * n <= b * Bank
  BY <1>2, HardwareSizes, CeilFacts DEF BanksFor
<1> HIDE DEF b
<1>5. ASSUME b < Banks PROVE k < 2^14 /\ n < 2^14 /\ k <= Bank
  <2>1. b * Bank <= (Banks - 1) * Bank /\ b * Bank \in Nat
    BY <1>4, <1>5, HardwareSizes, Grows
  <2>2. (Banks - 1) * Bank = Banks * Bank - Bank /\ Banks * Bank \in Nat
    BY HardwareSizes
  <2>3. k * n <= Banks * Bank - Bank
    BY <1>2, <1>4, <2>1, <2>2, HardwareSizes
  <2>4. k * Group <= k * n /\ n * Group <= n * k /\ k * n = n * k
    <3>1. Group * k <= n * k /\ Group * n <= k * n
      BY <1>1, HardwareSizes, Grows
    <3>2. Group * k = k * Group /\ Group * n = n * Group /\ k * n = n * k
      BY <1>1, HardwareSizes
    <3>3. QED BY <3>1, <3>2
  <2>5. k * Group < 16384 * Group /\ n * Group < 16384 * Group
    <3>1. k * Group \in Nat /\ n * Group \in Nat /\ 16384 * Group \in Nat
      BY <1>1, HardwareSizes
    <3>2. QED BY <1>2, <2>2, <2>3, <2>4, <3>1, HardwareSizes
  <2>6. k < 16384 /\ n < 16384
    BY <1>1, <2>5, Cancel, HardwareSizes
  <2>7. k * Group < (Bank + 1) * Group
    <3>1. Banks * Bank <= Group * Bank
      BY HardwareSizes, Grows
    <3>2. (Bank + 1) * Group = Group * Bank + Group
      BY HardwareSizes
    <3>3. k * Group \in Nat /\ Group * Bank \in Nat
      BY <1>1, HardwareSizes
    <3>4. QED BY <1>2, <2>2, <2>3, <2>4, <3>1, <3>2, <3>3, HardwareSizes
  <2>8. k < Bank + 1
    BY <1>1, <2>7, Cancel, HardwareSizes
  <2>9. QED BY <1>1, <2>6, <2>8, FieldWidths, HardwareSizes
<1>6. QED BY <1>2, <1>3, <1>4, <1>5 DEF b

LEMMA Multiple ==
  ASSUME NEW a \in Nat, NEW b \in Nat \ {0}
  PROVE  (a * b) % b = 0 /\ (a * b) \div b = a
OBVIOUS

(* The rows of a tile.                                                     *)
LEMMA MaxRowsFacts ==
  ASSUME NEW k \in Nat \ {0}, NEW wb \in Nat, wb < Banks
  PROVE  /\ MaxRows(k, wb) \in Nat /\ MaxRows(k, wb) % RowAlign = 0
         /\ MaxRows(k, wb) <= TileCap
         /\ MaxRows(k, wb) * k <= (Banks - wb) * Bank
         /\ MaxRows(k, wb) < TileCap => (Banks - wb) * Bank < (MaxRows(k, wb) + RowAlign) * k
<1> DEFINE R == (Banks - wb) * Bank
           rows == R \div k
           a == rows \div RowAlign
           al == a * RowAlign
<1>1. R \in Nat
  BY HardwareSizes
<1>2. /\ rows \in Nat /\ rows * k <= R /\ R < (rows + 1) * k
  <2> HIDE DEF R
  <2>1. rows \in Nat /\ R % k \in 0 .. k - 1 /\ R = rows * k + (R % k) /\ rows * k \in Nat
    BY <1>1
  <2>2. (rows + 1) * k = rows * k + k
    BY <2>1
  <2> HIDE DEF rows
  <2>3. QED BY <2>1, <2>2
<1>3. /\ a \in Nat /\ al \in Nat /\ al <= rows /\ rows < al + RowAlign /\ al % RowAlign = 0
  <2> HIDE DEF rows
  <2>1. RowAlign \in Nat \ {0}
    BY HardwareSizes
  <2>2. /\ a \in Nat /\ rows % RowAlign \in 0 .. RowAlign - 1
        /\ rows = a * RowAlign + (rows % RowAlign) /\ a * RowAlign \in Nat
    BY <1>2, <2>1
  <2> HIDE DEF a
  <2>3. al % RowAlign = 0 /\ al = a * RowAlign
    BY <2>1, <2>2, Multiple
  <2> HIDE DEF al
  <2> DEFINE r == rows % RowAlign
  <2>4. r \in 0 .. RowAlign - 1 /\ rows = al + r /\ al \in Nat
    BY <2>2, <2>3
  <2> HIDE DEF r
  <2>5. al <= rows /\ rows < al + RowAlign
    BY <2>1, <2>4
  <2>6. QED BY <2>2, <2>3, <2>4, <2>5
<1>4. TileCap \in Nat /\ TileCap % RowAlign = 0 /\ RowAlign \in Nat \ {0}
  BY HardwareSizes, SizesDivide
<1>5. MaxRows(k, wb) = IF al < TileCap THEN al ELSE TileCap
  BY DEF MaxRows, Least
<1> DEFINE M == MaxRows(k, wb)
<1>6. M = IF al < TileCap THEN al ELSE TileCap
  BY <1>5
<1> HIDE DEF M, al, a, rows, R
<1>7. M \in Nat /\ M % RowAlign = 0 /\ M <= TileCap /\ M <= rows
  BY <1>2, <1>3, <1>4, <1>6
<1>8. M * k <= R
  <2>1. M * k <= rows * k /\ M * k \in Nat /\ rows * k \in Nat
    BY <1>2, <1>7, Grows
  <2>2. QED BY <1>1, <1>2, <2>1
<1>9. ASSUME M < TileCap PROVE R < (M + RowAlign) * k
  <2>1. M = al
    BY <1>3, <1>4, <1>6, <1>9
  <2>2. rows + 1 <= M + RowAlign
    BY <1>2, <1>3, <1>4, <2>1
  <2>3. (rows + 1) * k <= (M + RowAlign) * k
    BY <1>2, <1>4, <1>7, <2>2, Grows
  <2>4. (rows + 1) * k \in Nat /\ (M + RowAlign) * k \in Nat
    BY <1>2, <1>4, <1>7
  <2>5. QED BY <1>1, <1>2, <2>3, <2>4
<1>10. QED BY <1>7, <1>8, <1>9 DEF M, R

(* The descriptor of a tile: rows from..from + rows - 1 of m.              *)
TileFields(t, m, k, n, from, rows) ==
  /\ t.grains = rows + 1 /\ t.in_h = rows /\ t.in_w = 1 /\ t.in_c = k
  /\ t.out_h = rows /\ t.out_w = 1 /\ t.kernels = n /\ t.kh = 1 /\ t.kw = 1
  /\ t.stride_h = 1 /\ t.stride_w = 1 /\ t.pad_top = 0 /\ t.pad_left = 0
  /\ t.wbytes = k * n /\ t.wbpk = k
  /\ t.weight_bank = Banks - BanksFor(rows * k) /\ t.data_bank = BanksFor(rows * k)
  /\ t.line_stride = RowAlign /\ t.surf_stride = SurfStride(RowAlign, m) % 2^28
  /\ t.feature_base = from * Atom /\ t.dst_base = from * Atom
  /\ t.dst_surf_stride = m

LEMMA TileHas ==
  ASSUME NEW m \in Nat \ {0}, m < 2^26, NEW k \in Nat \ {0}, k < 2^14, NEW n \in Nat, n < 2^14,
         NEW from \in Nat, NEW rows \in 1 .. TileCap, BanksFor(rows * k) \in 1 .. Banks
  PROVE  TileFields(Tile(m, k, n, k * n, from, rows), m, k, n, from, rows)
<1> DEFINE fd_banks == BanksFor(rows * k)
           wbytes == k * n
           base == from * Atom
           d == [grains |-> rows + 1, in_h |-> rows, in_w |-> 1, in_c |-> k,
                 out_h |-> rows, out_w |-> 1, kernels |-> n, kh |-> 1, kw |-> 1,
                 stride_h |-> 1, stride_w |-> 1, pad_top |-> 0, pad_left |-> 0,
                 wbytes |-> wbytes, wbpk |-> k,
                 weight_bank |-> Banks - fd_banks, data_bank |-> fd_banks,
                 line_stride |-> RowAlign, surf_stride |-> SurfStride(RowAlign, m),
                 feature_base |-> base, dst_base |-> base,
                 dst_surf_stride |-> m]
           t == Tile(m, k, n, k * n, from, rows)
<1>1. t = gen_matmul_task(d)
  BY DEF Tile
<1>2. DOMAIN d = DescriptorFields
  BY DEF DescriptorFields
<1>3. /\ d.grains = rows + 1 /\ d.in_h = rows /\ d.in_w = 1 /\ d.in_c = k
      /\ d.out_h = rows /\ d.out_w = 1 /\ d.kernels = n /\ d.kh = 1 /\ d.kw = 1
      /\ d.stride_h = 1 /\ d.stride_w = 1 /\ d.pad_top = 0 /\ d.pad_left = 0
      /\ d.wbytes = wbytes /\ d.wbpk = k
      /\ d.weight_bank = Banks - fd_banks /\ d.data_bank = fd_banks
      /\ d.line_stride = RowAlign /\ d.surf_stride = SurfStride(RowAlign, m)
      /\ d.feature_base = base /\ d.dst_base = base /\ d.dst_surf_stride = m
  OBVIOUS
<1>4. fd_banks \in 1 .. Banks
  OBVIOUS
<1> HIDE DEF d, t, fd_banks, wbytes, base
<1>5. FieldsHold(d)
  <2>1. /\ d.grains \in Nat /\ d.grains < 2^GrainBits
        /\ d.in_h \in Nat /\ d.in_h < 2^11 /\ d.in_w \in Nat /\ d.in_w < 2^11
        /\ d.in_c \in Nat /\ d.in_c < 2^16
        /\ d.out_h \in Nat /\ d.out_h < 2^13 /\ d.out_w \in Nat /\ d.out_w < 2^11
        /\ d.kernels \in Nat /\ d.kernels < 2^14
    BY <1>3, HardwareSizes, FieldWidths
  <2>2. /\ d.kh \in Nat /\ d.kh < 2^5 /\ d.kw \in Nat /\ d.kw < 2^5
        /\ d.stride_h \in Nat /\ d.stride_h < 2^3 /\ d.stride_w \in Nat /\ d.stride_w < 2^3
        /\ d.pad_top \in Nat /\ d.pad_top < 2^4 /\ d.pad_left \in Nat /\ d.pad_left < 2^4
        /\ d.wbpk \in Nat /\ d.wbpk < 2^19
    BY <1>3, FieldWidths
  <2>3. /\ d.weight_bank \in Nat /\ d.weight_bank < 2^4
        /\ d.data_bank \in Nat /\ d.data_bank < 2^4
    BY <1>3, <1>4, HardwareSizes, FieldWidths
  <2>4. /\ d.line_stride \in Nat /\ d.line_stride < 2^28
        /\ d.dst_surf_stride \in Nat /\ d.dst_surf_stride < 2^28
    BY <1>3, HardwareSizes, FieldWidths
  <2>5. QED BY <2>1, <2>2, <2>3, <2>4 DEF FieldsHold
<1>6. /\ t.grains = d.grains /\ t.in_h = d.in_h /\ t.in_w = d.in_w /\ t.in_c = d.in_c
      /\ t.out_h = d.out_h /\ t.out_w = d.out_w /\ t.kernels = d.kernels
      /\ t.kh = d.kh /\ t.kw = d.kw /\ t.stride_h = d.stride_h /\ t.stride_w = d.stride_w
      /\ t.pad_top = d.pad_top /\ t.pad_left = d.pad_left /\ t.wbytes = d.wbytes
      /\ t.wbpk = d.wbpk /\ t.weight_bank = d.weight_bank /\ t.data_bank = d.data_bank
      /\ t.line_stride = d.line_stride /\ t.dst_surf_stride = d.dst_surf_stride
      /\ t.feature_base = d.feature_base /\ t.dst_base = d.dst_base
      /\ t.surf_stride = d.surf_stride % 2^28
  BY <1>1, <1>2, <1>5, TaskFields
<1>7. TileFields(t, m, k, n, from, rows)
  BY <1>3, <1>6, Zenon DEF TileFields, fd_banks, wbytes, base
<1>8. QED BY <1>7 DEF t

(* How gen_matmul_int8_tiled cuts m rows, where max_m rows fit at a time.  *)
MaxM(k, n) == MaxRows(k, WeightBanks(k, n))

LEMMA PointwiseFits ==
  ASSUME NEW m \in 1 .. TileCap, NEW k, NEW n, Padded(k), Padded(n), k < 2^14, n < 2^14,
         k <= Bank, m * k <= (Banks - 1) * Bank
  PROVE  FitsTheEngine(PointwiseTask(m, k, n))
<1> DEFINE p == PointwiseTask(m, k, n)
<1>1. /\ p.in_h = m /\ p.in_w = 1 /\ p.in_c = k /\ p.out_c = n /\ p.kh = 1 /\ p.kw = 1
      /\ p.stride_h = 1 /\ p.stride_w = 1 /\ p.pad_top = 0 /\ p.pad_left = 0
      /\ p.pad_bottom = 0 /\ p.pad_right = 0
  BY DEF PointwiseTask
<1>2. k \in Nat \ {0} /\ n \in Nat \ {0} /\ k % Group = 0 /\ n % Group = 0
      /\ m \in Nat \ {0} /\ m < 2048 /\ m + 1 < 2^GrainBits
  <2>1. k \in Nat \ {0} /\ n \in Nat \ {0} /\ k % Group = 0 /\ n % Group = 0
    BY DEF Padded
  <2>2. 2^GrainBits \in Int
    BY FieldWidths
  <2>3. QED BY <2>1, <2>2, HardwareSizes
<1>3. p \in ConvParams
  BY <1>2 DEF PointwiseTask, ConvParams
<1> HIDE DEF p
<1>4. ConvOutH(p) = m /\ ConvOutW(p) = 1
  <2>1. m + (0 + 0) - 1 = m - 1 /\ (m - 1) \div 1 = m - 1 /\ (m - 1) + 1 = m
    BY <1>2
  <2>2. 1 + (0 + 0) - 1 = 0 /\ 0 \div 1 = 0
    OBVIOUS
  <2>3. QED BY <1>1, <2>1, <2>2 DEF ConvOutH, ConvOutW, OutDim
<1>5. FitsTheFields(p)
  BY <1>1, <1>2, <1>4, FieldWidths DEF FitsTheFields
<1>6. p.in_w * p.in_h * p.in_c = m * k /\ p.kw * p.kh * p.in_c = k
  BY <1>1, <1>2
<1>7. FitsTheEngine(p)
  BY <1>1, <1>2, <1>3, <1>5, <1>6 DEF FitsTheEngine
<1>8. QED BY <1>7 DEF p

LEMMA TileRowsFacts ==
  ASSUME NEW m \in Nat \ {0}, NEW M \in Nat \ {0}, NEW i \in 1 .. CeilDiv(m, M)
  PROVE  /\ TileRows(m, M, i) \in 1 .. M
         /\ (i - 1) * M \in Nat /\ (i - 1) * M + TileRows(m, M, i) <= m
         /\ \A r \in Nat : r < M /\ (i - 1) * M + r < m => r < TileRows(m, M, i)
<1> DEFINE q == CeilDiv(m, M)
           b == (i - 1) * M
<1>1. q \in Nat /\ q * M < m + M
  BY CeilFacts
<1>2. i \in Nat \ {0} /\ i <= q
  BY <1>1
<1> HIDE DEF q
<1>3. i * M <= q * M /\ q * M \in Nat /\ i * M \in Nat /\ i * M = b + M /\ b \in Nat
  BY <1>1, <1>2, Grows
<1>4. b < m
  BY <1>1, <1>3
<1>5. TileRows(m, M, i) = IF M < m - b THEN M ELSE m - b
  BY DEF TileRows, Least
<1> HIDE DEF b
<1>6. /\ TileRows(m, M, i) \in 1 .. M /\ b + TileRows(m, M, i) <= m
      /\ \A r \in Nat : r < M /\ b + r < m => r < TileRows(m, M, i)
  BY <1>3, <1>4, <1>5
<1>7. QED BY <1>3, <1>6 DEF b

(* Every row is in a tile.                                                 *)
InATile(m, M, r) ==
  \E i \in 1 .. CeilDiv(m, M), y \in Nat : y < TileRows(m, M, i) /\ r = (i - 1) * M + y

LEMMA RowInTile ==
  ASSUME NEW m \in Nat \ {0}, NEW M \in Nat \ {0}, NEW r \in 0 .. m - 1
  PROVE  InATile(m, M, r)
<1> DEFINE q == CeilDiv(m, M)
           j == r \div M
           y == r % M
<1>1. j \in Nat /\ y \in 0 .. M - 1 /\ r = j * M + y /\ j * M \in Nat
  OBVIOUS
<1>2. q \in Nat /\ m <= q * M /\ q * M \in Nat
  BY CeilFacts
<1> HIDE DEF q, j, y
<1>3. j * M < q * M
  BY <1>1, <1>2
<1>4. j < q
  BY <1>1, <1>2, <1>3, Cancel
<1>5. j + 1 \in 1 .. q /\ (j + 1) - 1 = j
  BY <1>1, <1>2, <1>4
<1>6. y < TileRows(m, M, j + 1)
  <2>1. y < M /\ ((j + 1) - 1) * M + y < m /\ y \in Nat
    BY <1>1, <1>5
  <2>2. QED BY <1>5, <2>1, TileRowsFacts DEF q
<1>7. y \in Nat /\ r = ((j + 1) - 1) * M + y
  BY <1>1, <1>5
<1>8. QED BY <1>5, <1>6, <1>7 DEF q, InATile

(* The tasks of a matmul of m rows, at most M to a tile.                   *)
Tiled(ts, m, k, n, M) ==
  /\ Len(ts) = CeilDiv(m, M) /\ DOMAIN ts = 1 .. CeilDiv(m, M)
  /\ \A i \in 1 .. CeilDiv(m, M) :
       TileFields(ts[i], m, k, n, (i - 1) * M, TileRows(m, M, i))

(* What holds of m, k, n and of the rows to a tile if nothing is refused.  *)
Tileable(m, k, n, M) ==
  /\ m \in Nat \ {0} /\ m < 2^26 /\ Padded(k) /\ Padded(n)
  /\ k < 2^14 /\ n < 2^14 /\ k <= Bank
  /\ WeightBanks(k, n) < Banks /\ M = MaxM(k, n) /\ M # 0

LEMMA TileableFacts ==
  ASSUME NEW m, NEW k, NEW n, NEW M, Tileable(m, k, n, M)
  PROVE  /\ m \in Nat \ {0} /\ k \in Nat \ {0} /\ n \in Nat \ {0} /\ M \in 1 .. TileCap
         /\ k % Group = 0 /\ n % Group = 0 /\ M % RowAlign = 0
         /\ M * k <= (Banks - WeightBanks(k, n)) * Bank
         /\ M * k <= (Banks - 1) * Bank
         /\ WeightBanks(k, n) \in 1 .. Banks - 1 /\ k * n <= WeightBanks(k, n) * Bank
         /\ k * n \in Nat
<1> DEFINE wb == WeightBanks(k, n)
<1>1. /\ wb \in Nat \ {0} /\ wb < Banks /\ k * n <= wb * Bank /\ k * n \in Nat
  BY WeightSizes DEF Tileable
<1>2. /\ k \in Nat \ {0} /\ n \in Nat \ {0} /\ k % Group = 0 /\ n % Group = 0 /\ m \in Nat \ {0}
  BY DEF Padded, Tileable
<1>3. M = MaxRows(k, wb) /\ M # 0
  BY DEF Tileable, MaxM
<1> HIDE DEF wb
<1>4. /\ M \in Nat /\ M % RowAlign = 0 /\ M <= TileCap /\ M * k <= (Banks - wb) * Bank
  BY <1>1, <1>2, <1>3, MaxRowsFacts
<1>5. M * k <= (Banks - 1) * Bank
  <2>1. (Banks - wb) * Bank <= (Banks - 1) * Bank /\ (Banks - wb) * Bank \in Int
        /\ (Banks - 1) * Bank \in Int
    BY <1>1, HardwareSizes, Grows
  <2>2. M * k \in Nat
    BY <1>2, <1>4
  <2>3. QED BY <1>4, <2>1, <2>2
<1>6. wb \in 1 .. Banks - 1 /\ M \in 1 .. TileCap
  BY <1>1, <1>3, <1>4, HardwareSizes
<1>7. QED BY <1>1, <1>2, <1>4, <1>5, <1>6 DEF wb

LEMMA TileBanks ==
  ASSUME NEW m, NEW k, NEW n, NEW M, Tileable(m, k, n, M), NEW rows \in 1 .. M
  PROVE  /\ BanksFor(rows * k) \in 1 .. Banks - WeightBanks(k, n)
         /\ rows * k <= BanksFor(rows * k) * Bank
<1> DEFINE b == Banks - WeightBanks(k, n)
<1>1. /\ k \in Nat \ {0} /\ M \in Nat /\ M * k <= b * Bank /\ b \in Nat
  BY TileableFacts, HardwareSizes
<1> HIDE DEF b
<1>2. rows * k \in Nat \ {0}
  BY <1>1, Positive
<1>3. rows * k <= M * k /\ M * k \in Nat /\ b * Bank \in Nat
  BY <1>1, Grows, HardwareSizes
<1>4. rows * k <= b * Bank
  BY <1>1, <1>2, <1>3
<1>5. QED BY <1>1, <1>2, <1>4, BanksOf DEF b

LEMMA PointwiseFields ==
  ASSUME NEW m \in Nat \ {0}, NEW k \in Nat, NEW n \in Nat, NEW t,
         ConvFields(t, PointwiseTask(m, k, n))
  PROVE  TileFields(t, m, k, n, 0, m)
<1> DEFINE p == PointwiseTask(m, k, n)
<1>1. /\ p.in_h = m /\ p.in_w = 1 /\ p.in_c = k /\ p.out_c = n /\ p.kh = 1 /\ p.kw = 1
      /\ p.stride_h = 1 /\ p.stride_w = 1 /\ p.pad_top = 0 /\ p.pad_left = 0
      /\ p.pad_bottom = 0 /\ p.pad_right = 0
  BY DEF PointwiseTask
<1>2. ConvFields(t, p)
  OBVIOUS
<1> HIDE DEF p
<1>3. ConvOutH(p) = m /\ ConvOutW(p) = 1
  <2>1. m + (0 + 0) - 1 = m - 1 /\ (m - 1) \div 1 = m - 1 /\ (m - 1) + 1 = m
    OBVIOUS
  <2>2. 1 + (0 + 0) - 1 = 0 /\ 0 \div 1 = 0
    OBVIOUS
  <2>3. QED BY <1>1, <2>1, <2>2 DEF ConvOutH, ConvOutW, OutDim
<1>4. /\ p.in_w * p.in_h * p.in_c = m * k /\ p.kw * p.kh * p.in_c = k
      /\ p.kw * p.kh * p.in_c * p.out_c = k * n
      /\ p.in_w * RowAlign = RowAlign /\ ConvOutH(p) * ConvOutW(p) = m
  BY <1>1, <1>3, HardwareSizes
<1>5. 0 * Atom = 0
  BY HardwareSizes
<1>6. QED BY <1>1, <1>2, <1>3, <1>4, <1>5 DEF ConvFields, TileFields

LEMMA TiledGenerated ==
  ASSUME NEW m \in Nat \ {0}, m < 2^26, NEW k, NEW n, Padded(k), Padded(n),
         WeightBanks(k, n) < Banks, MaxM(k, n) # 0
  PROVE  /\ gen_matmul_int8_tiled(m, k, n).ret = 0
         /\ Tileable(m, k, n, MaxM(k, n))
         /\ Tiled(gen_matmul_int8_tiled(m, k, n).tasks, m, k, n, MaxM(k, n))
<1> DEFINE g == gen_matmul_int8_tiled(m, k, n)
           wb == WeightBanks(k, n)
           M == MaxM(k, n)
           W == k * n
           T == [t \in 1 .. CeilDiv(m, M) |->
                   Tile(m, k, n, W, (t - 1) * M, TileRows(m, M, t))]
<1>1. Tileable(m, k, n, M)
  BY WeightSizes DEF Tileable
<1>2. g = CASE wb >= Banks -> Refused(-2)
            [] wb < Banks /\ M = 0 -> Refused(-1)
            [] wb < Banks /\ M >= m -> gen_matmul_int8(m, k, n)
            [] OTHER -> Generated(T)
  <2>1. RoundUp(k, Group) * RoundUp(n, Group) = W
    BY PaddedFacts
  <2>2. QED BY <2>1, Zenon DEF gen_matmul_int8_tiled, MaxM, WeightBanks
<1>3. /\ k \in Nat \ {0} /\ n \in Nat \ {0} /\ M \in 1 .. TileCap /\ wb \in 1 .. Banks - 1
      /\ M * k <= (Banks - 1) * Bank /\ M \in Nat \ {0}
  BY <1>1, TileableFacts, HardwareSizes
<1> HIDE DEF T, M, wb, g, W
<1>4. CASE M >= m
  <2> DEFINE p == PointwiseTask(m, k, n)
  <2>1. g = gen_conv2d_int8(p)
    <3>1. ~(wb >= Banks) /\ ~(M = 0)
      BY <1>3, HardwareSizes
    <3>2. g = gen_matmul_int8(m, k, n)
      BY <1>2, <1>3, <1>4, <3>1, HardwareSizes
    <3>3. QED BY <3>2 DEF gen_matmul_int8
  <2>2. m \in 1 .. TileCap /\ m * k <= (Banks - 1) * Bank
    <3>1. m * k <= M * k /\ m * k \in Nat /\ M * k \in Nat /\ (Banks - 1) * Bank \in Nat
      BY <1>3, <1>4, Grows, HardwareSizes
    <3>2. QED BY <1>3, <1>4, <3>1, HardwareSizes
  <2>3. FitsTheEngine(p)
    BY <1>1, <2>2, PointwiseFits DEF Tileable
  <2>4. g.ret = 0 /\ g.tasks = <<ConvTask(p)>> /\ ConvFields(ConvTask(p), p)
    BY <2>1, <2>3, ConvGenerated, ConvTaskFields
  <2>5. CeilDiv(m, M) = 1 /\ TileRows(m, M, 1) = m /\ (1 - 1) * M = 0
    <3>1. CeilDiv(m, M) <= 1
      <4>1. m <= 1 * M
        BY <1>3, <1>4
      <4>2. QED BY <1>3, <4>1, CeilLeast
    <3>2. CeilDiv(m, M) \in Nat /\ CeilDiv(m, M) > 0
      <4>1. m \in Nat /\ m > 0 /\ M \in Nat \ {0}
        BY <1>3
      <4>2. CeilDiv(m, M) \in Nat /\ (m > 0 => CeilDiv(m, M) > 0)
        BY <4>1, CeilFacts
      <4>3. QED BY <4>1, <4>2
    <3>3. (1 - 1) * M = 0
      BY <1>3
    <3>4. QED BY <1>3, <1>4, <3>1, <3>2, <3>3 DEF TileRows, Least
  <2>6. TileFields(ConvTask(p), m, k, n, 0, m)
    BY <1>3, <2>4, PointwiseFields
  <2> HIDE DEF p
  <2>7. Tiled(g.tasks, m, k, n, M)
    <3>1. DOMAIN g.tasks = 1 .. 1 /\ Len(g.tasks) = 1 /\ g.tasks[1] = ConvTask(p)
      BY <2>4
    <3>2. QED BY <2>5, <2>6, <3>1 DEF Tiled
  <2>8. QED BY <1>1, <2>4, <2>7 DEF M, g
<1>5. CASE ~(M >= m)
  <2>1. g = Generated(T)
    <3>1. ~(wb >= Banks) /\ ~(M = 0)
      BY <1>3, HardwareSizes
    <3>2. QED BY <1>2, <1>5, <3>1
  <2>2. g.ret = 0 /\ g.tasks = T
    BY <2>1 DEF Generated
  <2>3. CeilDiv(m, M) \in Nat
    BY <1>3, CeilFacts
  <2>4. DOMAIN T = 1 .. CeilDiv(m, M) /\ Len(T) = CeilDiv(m, M)
    BY <2>3 DEF T
  <2>5. ASSUME NEW i \in 1 .. CeilDiv(m, M)
        PROVE  TileFields(T[i], m, k, n, (i - 1) * M, TileRows(m, M, i))
    <3> DEFINE rows == TileRows(m, M, i)
               from == (i - 1) * M
    <3>1. rows \in 1 .. M /\ from \in Nat
      BY <1>3, TileRowsFacts
    <3>2. T[i] = Tile(m, k, n, k * n, from, rows)
      BY DEF T, W
    <3> HIDE DEF rows, from
    <3>3. BanksFor(rows * k) \in 1 .. Banks - wb
      BY <1>1, <3>1, TileBanks DEF wb
    <3>4. rows \in 1 .. TileCap /\ BanksFor(rows * k) \in 1 .. Banks
      BY <1>3, <3>1, <3>3, HardwareSizes
    <3>5. TileFields(Tile(m, k, n, k * n, from, rows), m, k, n, from, rows)
      BY <1>1, <1>3, <3>1, <3>4, TileHas DEF Tileable
    <3>6. QED BY <3>2, <3>5 DEF rows, from
  <2>6. QED BY <1>1, <2>2, <2>4, <2>5 DEF Tiled, M, g
<1>6. QED BY <1>4, <1>5

-----------------------------------------------------------------------------
(* The generators of each operator. *)

(* The convolution a single operator is lowered to.                        *)
Lowering(o) ==
  CASE o.kind = "llm" -> PointwiseTask(1, o.c, o.n)
    [] o.kind = "transpose" ->
         PointwiseTask(RoundUp(o.cols, Group), RoundUp(o.cols, Group), RoundUp(o.rows, Group))
    [] OTHER -> Lowered(o)

Singles == {"llm", "transpose", "conv", "depthwise", "grouped", "deconv"}

SingleKinds(o) == o.kind \in Singles

(* Why a lowering may be refused.                                          *)
NotLowered(o) ==
  \/ /\ o.kind = "grouped"
     /\ o.p.in_c % Groups(o.groups) # 0 \/ o.p.out_c % Groups(o.groups) # 0
  \/ /\ o.kind = "deconv"
     /\ \/ o.p.kh <= o.p.pad_top \/ o.p.kw <= o.p.pad_left
        \/ o.p.kh + o.p.output_padding_h <= o.p.pad_bottom
        \/ o.p.kw + o.p.output_padding_w <= o.p.pad_right

LEMMA SingleGenerated ==
  ASSUME WellFormed(op), SingleKinds(op)
  PROVE  \/ NotLowered(op) /\ Generator.ret # 0
         \/ /\ ~NotLowered(op) /\ FitsTheEngine(Lowering(op))
            /\ Generator.ret = 0 /\ Generator.tasks = <<ConvTask(Lowering(op))>>
<1>0. ASSUME NEW p, FitsTheEngine(p), Generator = gen_conv2d_int8(p), p = Lowering(op)
      PROVE  /\ FitsTheEngine(Lowering(op)) /\ Generator.ret = 0
             /\ Generator.tasks = <<ConvTask(Lowering(op))>>
  BY <1>0, ConvGenerated
<1>1. CASE op.kind = "llm"
  <2> DEFINE p == PointwiseTask(1, op.c, op.n)
  <2>1. FitsTheEngine(p)
    BY <1>1 DEF WellFormed
  <2>2. Generator = gen_conv2d_int8(p)
    BY <1>1 DEF Generator, gen_matmul_int8
  <2>3. p = Lowering(op) /\ ~NotLowered(op)
    BY <1>1 DEF Lowering, NotLowered
  <2> HIDE DEF p
  <2>4. QED BY <1>0, <2>1, <2>2, <2>3
<1>2. CASE op.kind = "transpose"
  <2> DEFINE p == PointwiseTask(RoundUp(op.cols, Group), RoundUp(op.cols, Group),
                                RoundUp(op.rows, Group))
  <2>1. FitsTheEngine(p)
    BY <1>2 DEF WellFormed
  <2>2. Generator = gen_conv2d_int8(p)
    BY <1>2 DEF Generator, gen_matmul_int8, gen_transpose2d_int8
  <2>3. p = Lowering(op) /\ ~NotLowered(op)
    BY <1>2 DEF Lowering, NotLowered
  <2> HIDE DEF p
  <2>4. QED BY <1>0, <2>1, <2>2, <2>3
<1>3. CASE op.kind = "conv"
  <2>1. FitsTheEngine(op.p)
    BY <1>3 DEF WellFormed
  <2>2. Generator = gen_conv2d_int8(op.p)
    BY <1>3 DEF Generator
  <2>3. op.p = Lowering(op) /\ ~NotLowered(op)
    BY <1>3 DEF Lowering, Lowered, NotLowered
  <2>4. QED BY <1>0, <2>1, <2>2, <2>3
<1>4. CASE op.kind = "depthwise"
  <2>1. FitsTheEngine(op.p) /\ op.p.out_c = op.p.in_c
    BY <1>4 DEF WellFormed
  <2>2. [op.p EXCEPT !.out_c = op.p.in_c] = op.p
    <3>1. op.p \in ConvParams
      BY <2>1 DEF FitsTheEngine
    <3>2. QED BY <2>1, <3>1 DEF ConvParams
  <2>3. Generator = gen_conv2d_int8(op.p)
    BY <1>4, <2>2 DEF Generator, gen_avgpool_int8, gen_dwconv2d_int8
  <2>4. op.p = Lowering(op) /\ ~NotLowered(op)
    BY <1>4 DEF Lowering, Lowered, NotLowered
  <2>5. QED BY <1>0, <2>1, <2>3, <2>4
<1>5. CASE op.kind = "grouped"
  <2>1. FitsTheEngine(op.p)
    BY <1>5 DEF WellFormed
  <2>2. Generator = IF NotLowered(op) THEN Refused(-10) ELSE gen_conv2d_int8(op.p)
    BY <1>5 DEF Generator, gen_grouped_conv2d_int8, NotLowered
  <2>3. op.p = Lowering(op)
    BY <1>5 DEF Lowering, Lowered
  <2>4. CASE NotLowered(op)
    BY <2>2, <2>4 DEF Refused
  <2>5. CASE ~NotLowered(op)
    BY <1>0, <2>1, <2>2, <2>3, <2>5
  <2>6. QED BY <2>4, <2>5
<1>6. CASE op.kind = "deconv"
  <2> DEFINE c == DeconvAsConv(op.p)
             bad == \E pad \in {c.pad_top, c.pad_bottom, c.pad_left, c.pad_right} : pad < 0
  <2>1. /\ {op.p.kh, op.p.kw, op.p.pad_top, op.p.pad_left, op.p.pad_bottom, op.p.pad_right,
            op.p.output_padding_h, op.p.output_padding_w} \subseteq Nat
        /\ (\A pad \in {c.pad_top, c.pad_bottom, c.pad_left, c.pad_right} : pad >= 0)
             => FitsTheEngine(c)
    BY <1>6 DEF WellFormed
  <2>2. /\ c.pad_top = op.p.kh - 1 - op.p.pad_top /\ c.pad_left = op.p.kw - 1 - op.p.pad_left
        /\ c.pad_bottom = op.p.kh - 1 - op.p.pad_bottom + op.p.output_padding_h
        /\ c.pad_right = op.p.kw - 1 - op.p.pad_right + op.p.output_padding_w
    BY DEF DeconvAsConv
  <2>3. Generator = IF bad THEN Refused(-3) ELSE gen_conv2d_int8(c)
    BY <1>6 DEF Generator, gen_deconv_int8
  <2>4. c = Lowering(op)
    BY <1>6 DEF Lowering, Lowered
  <2> HIDE DEF c
  <2>5. bad <=> NotLowered(op)
    <3>1. NotLowered(op) <=>
            \/ op.p.kh <= op.p.pad_top \/ op.p.kw <= op.p.pad_left
            \/ op.p.kh + op.p.output_padding_h <= op.p.pad_bottom
            \/ op.p.kw + op.p.output_padding_w <= op.p.pad_right
      BY <1>6 DEF NotLowered
    <3>2. bad <=> c.pad_top < 0 \/ c.pad_bottom < 0 \/ c.pad_left < 0 \/ c.pad_right < 0
      OBVIOUS
    <3>3. QED BY <2>1, <2>2, <3>1, <3>2
  <2>6. ~bad => FitsTheEngine(c)
    <3>1. c.pad_top \in Int /\ c.pad_bottom \in Int /\ c.pad_left \in Int /\ c.pad_right \in Int
      BY <2>1, <2>2
    <3>2. QED BY <2>1, <3>1
  <2> HIDE DEF bad
  <2>7. CASE bad
    BY <2>3, <2>5, <2>7 DEF Refused
  <2>8. CASE ~bad
    BY <1>0, <2>3, <2>4, <2>5, <2>6, <2>8
  <2>9. QED BY <2>7, <2>8
<1>7. QED BY <1>1, <1>2, <1>3, <1>4, <1>5, <1>6 DEF SingleKinds, Singles

-----------------------------------------------------------------------------
(* A block of rows of a convolution of the network. *)

LEMMA YoloSizes ==
  ASSUME NEW o, WellFormed(o), o.kind = "yolo"
  PROVE  /\ {o.c, o.h, o.w, o.n, o.k, o.stride} \subseteq Nat \ {0} /\ o.pad \in Nat
         /\ OutH(o) \in Nat \ {0} /\ OutW(o) \in Nat \ {0}
         /\ PixelsOf(o) = OutH(o) * OutW(o) /\ PixelsOf(o) \in Nat \ {0}
         /\ PatchK(o) \in Nat \ {0} /\ PatchK(o) <= PaddedK(o) /\ o.n <= PaddedN(o)
         /\ Padded(PaddedK(o)) /\ Padded(PaddedN(o))
<1>1. /\ {o.c, o.h, o.w, o.n, o.k, o.stride} \subseteq Nat \ {0} /\ o.pad \in Nat
      /\ o.k <= o.h + 2 * o.pad /\ o.k <= o.w + 2 * o.pad
  BY DEF WellFormed
<1>2. OutH(o) \in Nat \ {0} /\ OutW(o) \in Nat \ {0}
  <2>1. 2 * o.pad \in Nat
    BY <1>1
  <2>2. QED BY <1>1, <2>1, OutOfFacts DEF OutH, OutW
<1>3. PixelsOf(o) = OutH(o) * OutW(o) /\ PixelsOf(o) \in Nat \ {0}
  BY <1>2, Positive DEF PixelsOf
<1>4. PatchK(o) \in Nat \ {0}
  <2>1. o.c * o.k \in Nat \ {0}
    BY <1>1, Positive
  <2>2. o.c * o.k * o.k \in Nat \ {0}
    BY <1>1, <2>1, Positive
  <2>3. QED BY <2>2 DEF PatchK
<1>5. ASSUME NEW x \in Nat \ {0} PROVE Padded(RoundUp(x, Group)) /\ x <= RoundUp(x, Group)
  BY HardwareSizes, RoundUpFacts DEF Padded
<1>6. /\ Padded(PaddedK(o)) /\ Padded(PaddedN(o))
      /\ PatchK(o) <= PaddedK(o) /\ o.n <= PaddedN(o)
  BY <1>1, <1>4, <1>5 DEF PaddedK, PaddedN
<1>7. QED BY <1>1, <1>2, <1>3, <1>4, <1>6

LEMMA TiledRefused ==
  ASSUME NEW m \in Nat \ {0}, m < 2^26, NEW k, NEW n, Padded(k), Padded(n),
         WeightBanks(k, n) >= Banks \/ MaxM(k, n) = 0
  PROVE  gen_matmul_int8_tiled(m, k, n).ret # 0
<1> DEFINE g == gen_matmul_int8_tiled(m, k, n)
           wb == WeightBanks(k, n)
           M == MaxM(k, n)
           W == k * n
           T == [t \in 1 .. CeilDiv(m, M) |->
                   Tile(m, k, n, W, (t - 1) * M, TileRows(m, M, t))]
<1>1. g = CASE wb >= Banks -> Refused(-2)
            [] wb < Banks /\ M = 0 -> Refused(-1)
            [] wb < Banks /\ M >= m -> gen_matmul_int8(m, k, n)
            [] OTHER -> Generated(T)
  <2>1. RoundUp(k, Group) * RoundUp(n, Group) = W
    BY PaddedFacts
  <2>2. QED BY <2>1, Zenon DEF gen_matmul_int8_tiled, MaxM, WeightBanks
<1>2. wb \in Nat /\ Banks \in Nat
  BY WeightSizes, HardwareSizes
<1>3. wb >= Banks \/ M = 0
  OBVIOUS
<1> HIDE DEF T, M, wb, W, g
<1>4. CASE wb >= Banks
  <2>1. ~(wb < Banks)
    BY <1>2, <1>4
  <2>2. g = Refused(-2)
    BY <1>1, <1>4, <2>1
  <2>3. QED BY <2>2 DEF Refused, g
<1>5. CASE ~(wb >= Banks)
  <2>1. wb < Banks /\ M = 0
    BY <1>2, <1>3, <1>5
  <2>2. ~(M >= m)
    BY <2>1
  <2>3. g = Refused(-1)
    BY <1>1, <1>5, <2>1, <2>2
  <2>4. QED BY <2>3 DEF Refused, g
<1>6. QED BY <1>4, <1>5

(* What the steps keep of the operator that is being run.                  *)
Running == {"layout", "gen", "submit", "done", "failed"}

AtOperator ==
  /\ prog \in Programs /\ at \in 1 .. Len(prog)
  /\ m0 \in Nat /\ m0 < PixelsOf(op)

TasksAreGenerated ==
  phase = "submit" =>
    Accepted(Generator) /\ tasks = Generator.tasks /\ tile \in 1 .. Len(tasks) + 1

RefusalIsGenerated == phase = "failed" => ~Accepted(Generator)

NpuInv ==
  phase # "off" =>
    phase \in Running /\ AtOperator /\ TasksAreGenerated /\ RefusalIsGenerated

LEMMA OperatorIsWellFormed ==
  ASSUME AtOperator
  PROVE  WellFormed(op) /\ AlignedHeight(op) /\ Len(prog) \in Nat \ {0} /\ at \in Nat \ {0}
<1>1. Len(prog) \in Nat \ {0}
      /\ \A i \in 1 .. Len(prog) : WellFormed(prog[i]) /\ AlignedHeight(prog[i])
  BY ProgramsAreWellFormed DEF AtOperator
<1>2. QED BY <1>1 DEF AtOperator, op

LEMMA RowsOfBlock ==
  ASSUME AtOperator, op.kind = "yolo"
  PROVE  /\ Rows(op) \in Nat \ {0} /\ Rows(op) < 2^26
         /\ Rows(op) <= Block /\ m0 + Rows(op) <= PixelsOf(op)
<1>1. PixelsOf(op) \in Nat /\ m0 \in Nat /\ m0 < PixelsOf(op)
  BY OperatorIsWellFormed, YoloSizes DEF AtOperator
<1>2. Block \in Nat \ {0} /\ Block < 2^26
  BY BlocksArePositive
<1>3. Rows(op) = IF Block < PixelsOf(op) - m0 THEN Block ELSE PixelsOf(op) - m0
  BY DEF Rows, Least
<1>4. QED BY <1>1, <1>2, <1>3, FieldWidths

LEMMA WholePixels ==
  ASSUME NEW o, WellFormed(o) PROVE PixelsOf(o) \in Nat \ {0}
<1>1. CASE o.kind = "yolo"
  BY <1>1, YoloSizes
<1>2. CASE o.kind # "yolo"
  BY <1>2 DEF PixelsOf
<1>3. QED BY <1>1, <1>2

LEMMA SameOperator ==
  ASSUME UNCHANGED <<prog, at, m0>>
  PROVE  UNCHANGED <<AtOperator, Generator, Accepted(Generator)>>
<1>1. op' = op
  BY DEF op
<1>2. UNCHANGED AtOperator
  BY <1>1 DEF AtOperator
<1>3. Rows(op)' = Rows(op)
  BY <1>1 DEF Rows
<1>4. UNCHANGED Generator
  BY <1>1, <1>3 DEF Generator
<1>5. Accepted(Generator)' = Accepted(Generator)
  BY <1>1, <1>4 DEF Accepted
<1>6. QED BY <1>2, <1>4, <1>5

(* The tasks of the operator that is run, once generated.                  *)
LEMMA GeneratedTasks ==
  ASSUME AtOperator, Accepted(Generator)
  PROVE  /\ Len(Generator.tasks) \in Nat \ {0} /\ DOMAIN Generator.tasks = 1 .. Len(Generator.tasks)
         /\ SingleKinds(op) => /\ ~NotLowered(op) /\ FitsTheEngine(Lowering(op))
                               /\ Generator.tasks = <<ConvTask(Lowering(op))>>
         /\ op.kind = "yolo" =>
              \E M : /\ Tileable(Rows(op), PaddedK(op), PaddedN(op), M)
                     /\ Tiled(Generator.tasks, Rows(op), PaddedK(op), PaddedN(op), M)
<1>1. WellFormed(op)
  BY OperatorIsWellFormed
<1>2. SingleKinds(op) \/ op.kind = "yolo"
  BY <1>1 DEF WellFormed, SingleKinds, Singles
<1>3. CASE SingleKinds(op)
  <2>1. /\ ~NotLowered(op) /\ FitsTheEngine(Lowering(op))
        /\ Generator.tasks = <<ConvTask(Lowering(op))>>
    BY <1>1, <1>3, SingleGenerated DEF Accepted
  <2>2. op.kind # "yolo"
    BY <1>3 DEF SingleKinds, Singles
  <2>3. QED BY <1>3, <2>1, <2>2
<1>4. CASE op.kind = "yolo"
  <2> DEFINE m == Rows(op)
             k == PaddedK(op)
             n == PaddedN(op)
             g == gen_matmul_int8_tiled(m, k, n)
             M == MaxM(k, n)
  <2>1. m \in Nat \ {0} /\ m < 2^26 /\ Padded(k) /\ Padded(n)
    BY <1>1, <1>4, YoloSizes, RowsOfBlock
  <2>2. Generator = g
    BY <1>4 DEF Generator
  <2>3. WeightBanks(k, n) < Banks /\ M # 0
    <3>1. g.ret = 0
      BY <2>2 DEF Accepted
    <3>2. WeightBanks(k, n) \in Nat /\ Banks \in Nat
      BY <2>1, WeightSizes, HardwareSizes
    <3>3. (WeightBanks(k, n) >= Banks \/ M = 0) => g.ret # 0
      <4> HIDE DEF m, k, n
      <4>1. QED BY <2>1, TiledRefused
    <3> HIDE DEF m, k, n, g, M
    <3>4. QED BY <3>1, <3>2, <3>3
  <2>4. Tileable(m, k, n, M) /\ Tiled(g.tasks, m, k, n, M)
    BY <2>1, <2>3, TiledGenerated
  <2>5. Len(g.tasks) \in Nat \ {0} /\ DOMAIN g.tasks = 1 .. Len(g.tasks)
    <3> HIDE DEF m, k, n, g, M
    <3>1. m \in Nat /\ m > 0 /\ M \in Nat \ {0}
      BY <2>1, <2>4, TileableFacts, HardwareSizes
    <3>2. CeilDiv(m, M) \in Nat /\ CeilDiv(m, M) > 0
      BY <3>1, CeilFacts
    <3>3. QED BY <2>4, <3>2 DEF Tiled
  <2>6. ~SingleKinds(op)
    BY <1>4 DEF SingleKinds, Singles
  <2> HIDE DEF m, k, n, g, M
  <2>7. \E x : Tileable(m, k, n, x) /\ Tiled(Generator.tasks, m, k, n, x)
    BY <2>2, <2>4
  <2>8. QED BY <2>2, <2>5, <2>6, <2>7 DEF m, k, n
<1>5. QED BY <1>2, <1>3, <1>4

LEMMA NpuInvStep ==
  /\ WorkloadInit => NpuInv
  /\ NpuInv /\ [WorkloadNext]_workload_vars => NpuInv'
<1>1. ASSUME WorkloadInit PROVE NpuInv
  <2>1. CASE phase = "off"
    BY <2>1 DEF NpuInv
  <2>2. CASE phase # "off"
    <3>1. Init
      BY <1>1, <2>2 DEF WorkloadInit, NpuConvOff
    <3>2. prog \in Programs /\ at = 1 /\ m0 = 0 /\ phase = "layout"
      BY <3>1 DEF Init
    <3>3. Len(prog) \in Nat \ {0} /\ WellFormed(prog[1])
      <4>1. Len(prog) \in Nat \ {0} /\ \A i \in 1 .. Len(prog) : WellFormed(prog[i])
        BY <3>2, ProgramsAreWellFormed
      <4>2. QED BY <4>1
    <3>4. PixelsOf(op) \in Nat \ {0}
      BY <3>2, <3>3, WholePixels DEF op
    <3>5. AtOperator
      BY <3>2, <3>3, <3>4 DEF AtOperator
    <3>6. QED BY <3>2, <3>5 DEF NpuInv, Running, TasksAreGenerated, RefusalIsGenerated
  <2>3. QED BY <2>1, <2>2
<1>2. ASSUME NpuInv, UNCHANGED vars PROVE NpuInv'
  <2>1. UNCHANGED <<prog, at, m0, phase, tasks, tile>>
    BY <1>2 DEF vars
  <2>2. UNCHANGED <<AtOperator, Generator, Accepted(Generator)>>
    BY <2>1, SameOperator
  <2>3. QED BY <1>2, <2>1, <2>2 DEF NpuInv, TasksAreGenerated, RefusalIsGenerated
<1>3. ASSUME NpuInv, phase # "off", Next PROVE NpuInv'
  <2>0. phase \in Running /\ AtOperator /\ TasksAreGenerated /\ RefusalIsGenerated
    BY <1>3 DEF NpuInv
  <2>1. CASE LayOut
    <3>1. phase' = "gen" /\ UNCHANGED <<prog, at, m0>>
      BY <2>1 DEF LayOut
    <3>2. AtOperator'
      BY <2>0, <3>1, SameOperator
    <3>3. QED BY <3>1, <3>2 DEF NpuInv, Running, TasksAreGenerated, RefusalIsGenerated
  <2>2. CASE Generate
    <3>1. /\ Accepted(Generator) /\ tasks' = Generator.tasks /\ tile' = 1
          /\ phase' = "submit" /\ UNCHANGED <<prog, at, m0>>
      BY <2>2 DEF Generate
    <3>2. AtOperator' /\ Generator' = Generator /\ Accepted(Generator)'
      BY <2>0, <3>1, SameOperator
    <3>3. Len(tasks') \in Nat
      BY <2>0, <3>1, GeneratedTasks
    <3>4. TasksAreGenerated'
      BY <3>1, <3>2, <3>3 DEF TasksAreGenerated
    <3>5. QED BY <3>1, <3>2, <3>4 DEF NpuInv, Running, RefusalIsGenerated
  <2>3. CASE GiveUp
    <3>1. ~Accepted(Generator) /\ phase' = "failed" /\ UNCHANGED <<prog, at, m0>>
      BY <2>3 DEF GiveUp
    <3>2. AtOperator' /\ ~Accepted(Generator)'
      BY <2>0, <3>1, SameOperator
    <3>3. QED BY <3>1, <3>2 DEF NpuInv, Running, TasksAreGenerated, RefusalIsGenerated
  <2>4. CASE SubmitTile
    <3>1. /\ phase = "submit" /\ tile <= Len(tasks) /\ tile' = tile + 1
          /\ UNCHANGED <<prog, at, m0, phase, tasks>>
      BY <2>4 DEF SubmitTile
    <3>2. AtOperator' /\ Generator' = Generator /\ Accepted(Generator)' = Accepted(Generator)
      BY <2>0, <3>1, SameOperator
    <3>3. Accepted(Generator) /\ tasks = Generator.tasks /\ tile \in 1 .. Len(tasks) + 1
      BY <2>0, <3>1 DEF TasksAreGenerated
    <3>4. Len(tasks) \in Nat
      BY <2>0, <3>3, GeneratedTasks
    <3>5. tile' \in 1 .. Len(tasks') + 1
      BY <3>1, <3>3, <3>4
    <3>6. TasksAreGenerated'
      BY <3>1, <3>2, <3>3, <3>5 DEF TasksAreGenerated
    <3>7. QED BY <3>1, <3>2, <3>6 DEF NpuInv, Running, RefusalIsGenerated
  <2>5. CASE ReadBack
    <3>1. /\ UNCHANGED <<prog, at>>
          /\ \/ LastBlock /\ phase' = "done" /\ m0' = m0
             \/ ~LastBlock /\ phase' = "layout" /\ m0' = m0 + Block
      BY <2>5 DEF ReadBack
    <3>2. m0' \in Nat /\ m0' < PixelsOf(op)
      <4>1. m0 \in Nat /\ m0 < PixelsOf(op) /\ PixelsOf(op) \in Nat /\ Block \in Nat
        BY <2>0, OperatorIsWellFormed, WholePixels, BlocksArePositive DEF AtOperator
      <4>2. QED BY <3>1, <4>1 DEF LastBlock
    <3>3. AtOperator'
      <4>1. op' = op
        BY <3>1 DEF op
      <4>2. QED BY <2>0, <3>1, <3>2, <4>1 DEF AtOperator
    <3>4. phase' \in {"done", "layout"}
      BY <3>1
    <3>5. QED BY <3>3, <3>4 DEF NpuInv, Running, TasksAreGenerated, RefusalIsGenerated
  <2>6. CASE NextOperator
    <3>1. at < Len(prog) /\ at' = at + 1 /\ m0' = 0 /\ phase' = "layout" /\ UNCHANGED prog
      BY <2>6 DEF NextOperator
    <3>2. prog \in Programs /\ at \in Nat \ {0} /\ Len(prog) \in Nat
      BY <2>0, OperatorIsWellFormed DEF AtOperator
    <3>3. at' \in 1 .. Len(prog')
      BY <3>1, <3>2
    <3>4. PixelsOf(op') \in Nat \ {0}
      <4>1. WellFormed(prog[at'])
        <5>1. \A i \in 1 .. Len(prog) : WellFormed(prog[i])
          BY <3>2, ProgramsAreWellFormed
        <5>2. QED BY <3>1, <3>3, <5>1
      <4>2. op' = prog[at']
        BY <3>1 DEF op
      <4>3. QED BY <4>1, <4>2, WholePixels
    <3>5. AtOperator'
      BY <3>1, <3>2, <3>3, <3>4 DEF AtOperator
    <3>6. QED BY <3>1, <3>5 DEF NpuInv, Running, TasksAreGenerated, RefusalIsGenerated
  <2>7. CASE Rest
    BY <1>2, <1>3, <2>7 DEF Rest
  <2>8. QED BY <1>3, <2>1, <2>2, <2>3, <2>4, <2>5, <2>6, <2>7 DEF Next
<1>4. ASSUME NpuInv, [WorkloadNext]_workload_vars PROVE NpuInv'
  <2>1. UNCHANGED vars \/ (phase # "off" /\ Next)
    BY <1>4 DEF WorkloadNext, workload_vars, Halt
  <2>2. QED BY <1>2, <1>3, <1>4, <2>1
<1>5. QED BY <1>1, <1>4

-----------------------------------------------------------------------------
(* What is refused. *)

(* Rows that leave fewer banks than the weights need do not fit.           *)
LEMMA TileTooSmall ==
  ASSUME NEW m \in Nat \ {0}, NEW k, NEW n, Padded(k), Padded(n),
         NEW T \in Nat \ {0}, WeightBanks(k, n) < Banks,
         MaxM(k, n) = 0 \/ CeilDiv(m, MaxM(k, n)) > T, MaxM(k, n) < TileCap
  PROVE  BanksFor(k * n) + BanksFor(RoundUp(CeilDiv(m, T), RowAlign) * k) > Banks
<1> DEFINE wb == WeightBanks(k, n)
           M == MaxM(k, n)
           c == CeilDiv(m, T)
           rows == RoundUp(c, RowAlign)
           R == (Banks - wb) * Bank
<1>1. /\ wb = BanksFor(k * n) /\ wb \in Nat \ {0} /\ wb < Banks
      /\ k \in Nat \ {0} /\ n \in Nat \ {0}
  BY WeightSizes DEF Padded
<1>2. /\ M \in Nat /\ M % RowAlign = 0 /\ R < (M + RowAlign) * k
  <2>1. M = MaxRows(k, wb)
    BY DEF MaxM
  <2> HIDE DEF wb
  <2>2. QED BY <1>1, <2>1, MaxRowsFacts DEF M
<1>3. c \in Nat \ {0} /\ m <= c * T /\ c * T \in Nat
  <2>1. m > 0
    OBVIOUS
  <2>2. QED BY <2>1, CeilFacts
<1>4. M = 0 \/ CeilDiv(m, M) > T
  OBVIOUS
<1> HIDE DEF wb, M, c, R
<1>5. M < c
  <2>1. CASE M = 0
    BY <1>3, <2>1
  <2>2. CASE M # 0
    <3>1. ~(m <= T * M)
      <4>1. m <= T * M => CeilDiv(m, M) <= T
        BY <1>2, <2>2, CeilLeast
      <4>2. CeilDiv(m, M) \in Nat
        BY <1>2, <2>2, CeilFacts
      <4>3. QED BY <1>4, <2>2, <4>1, <4>2
    <3>2. T * M = M * T /\ M * T \in Nat
      BY <1>2
    <3>3. M * T < c * T
      BY <1>3, <3>1, <3>2
    <3>4. QED BY <1>2, <1>3, <3>3, Cancel
  <2>3. QED BY <2>1, <2>2
<1>6. rows \in Nat /\ rows % RowAlign = 0 /\ rows >= c
  <2>1. c \in Nat /\ RowAlign \in Nat \ {0}
    BY <1>3, HardwareSizes
  <2>2. QED BY <2>1, RoundUpFacts
<1> HIDE DEF rows
<1>7. rows >= M + RowAlign
  <2> DEFINE a == M \div RowAlign
             b == rows \div RowAlign
  <2>1. /\ a \in Nat /\ M = a * RowAlign /\ b \in Nat /\ rows = b * RowAlign
        /\ RowAlign \in Nat \ {0}
    BY <1>2, <1>6, HardwareSizes, Whole
  <2> HIDE DEF a, b
  <2>2. a * RowAlign < b * RowAlign
    BY <1>2, <1>3, <1>5, <1>6, <2>1
  <2>3. a < b
    BY <2>1, <2>2, Cancel
  <2>4. a * RowAlign + RowAlign <= b * RowAlign
    BY <2>1, <2>3, GrowsMore
  <2>5. QED BY <2>1, <2>4
<1>8. (Banks - wb) * Bank < rows * k
  <2>1. (M + RowAlign) * k <= rows * k
    BY <1>1, <1>2, <1>6, <1>7, HardwareSizes, Grows
  <2>2. R = (Banks - wb) * Bank /\ R \in Int /\ (M + RowAlign) * k \in Int /\ rows * k \in Int
    BY <1>1, <1>2, <1>6, HardwareSizes DEF R
  <2>3. QED BY <1>2, <2>1, <2>2
<1>9. BanksFor(rows * k) > Banks - wb
  <2>1. rows * k \in Nat /\ Banks - wb \in Int /\ Bank \in Nat \ {0}
    BY <1>1, <1>6, HardwareSizes
  <2>2. QED BY <1>8, <2>1, CeilMore DEF BanksFor
<1>10. BanksFor(rows * k) \in Nat
  <2>1. rows * k \in Nat /\ Bank \in Nat \ {0}
    BY <1>1, <1>6, HardwareSizes
  <2>2. QED BY <2>1, CeilFacts DEF BanksFor
<1>11. wb + BanksFor(rows * k) > Banks
  BY <1>1, <1>9, <1>10, HardwareSizes
<1>12. QED BY <1>1, <1>11 DEF rows, c

LEMMA YoloRefusals ==
  ASSUME NEW m \in Nat \ {0}, m < 2^26, NEW k, NEW n, Padded(k), Padded(n),
         NEW T \in Nat \ {0},
         LET g == gen_matmul_int8_tiled(m, k, n) IN ~(g.ret = 0 /\ Len(g.tasks) <= T)
  PROVE  \/ T * TileCap < m
         \/ BanksFor(k * n) + BanksFor(RoundUp(CeilDiv(m, T), RowAlign) * k) > Banks
<1> DEFINE g == gen_matmul_int8_tiled(m, k, n)
           wb == WeightBanks(k, n)
           M == MaxM(k, n)
           rows == RoundUp(CeilDiv(m, T), RowAlign)
<1>1. k \in Nat \ {0} /\ n \in Nat \ {0} /\ wb = BanksFor(k * n) /\ wb \in Nat \ {0}
  BY WeightSizes DEF Padded
<1>2. CASE wb >= Banks
  <2>1. CeilDiv(m, T) \in Nat /\ CeilDiv(m, T) > 0
    <3>1. m \in Nat /\ m > 0
      OBVIOUS
    <3> HIDE DEF wb, M, rows, g
    <3>2. QED BY <3>1, CeilFacts
  <2>2. rows \in Nat /\ rows >= RowAlign
    <3> DEFINE c == CeilDiv(m, T)
    <3>1. c \in Nat /\ c > 0 /\ RowAlign \in Nat \ {0}
      BY <2>1, HardwareSizes
    <3> HIDE DEF c
    <3>2. RoundUp(c, RowAlign) \in Nat /\ RoundUp(c, RowAlign) >= RowAlign
      BY <3>1, RoundUpFacts
    <3>3. QED BY <3>2 DEF c
  <2> HIDE DEF rows
  <2>3. rows * k \in Nat \ {0}
    BY <1>1, <2>2, HardwareSizes, Positive
  <2>4. BanksFor(rows * k) \in Nat /\ BanksFor(rows * k) > 0
    <3>1. rows * k \in Nat /\ rows * k > 0 /\ Bank \in Nat \ {0}
      BY <2>3, HardwareSizes
    <3>2. QED BY <3>1, CeilFacts DEF BanksFor
  <2>5. wb + BanksFor(rows * k) > Banks
    <3> HIDE DEF wb
    <3>1. QED BY <1>1, <1>2, <2>4, HardwareSizes
  <2>6. QED BY <1>1, <2>5 DEF rows
<1>3. CASE wb < Banks /\ M = 0
  <2>1. M < TileCap
    BY <1>3, HardwareSizes
  <2>2. BanksFor(k * n) + BanksFor(rows * k) > Banks
    BY <1>3, <2>1, TileTooSmall
  <2>3. QED BY <2>2
<1>4. CASE wb < Banks /\ M # 0
  <2>1. g.ret = 0 /\ Tileable(m, k, n, M) /\ Tiled(g.tasks, m, k, n, M)
    BY <1>4, TiledGenerated
  <2>2. CeilDiv(m, M) > T
    <3>1. Len(g.tasks) = CeilDiv(m, M)
      BY <2>1 DEF Tiled
    <3>2. ~(Len(g.tasks) <= T)
      BY <2>1
    <3>3. CeilDiv(m, M) \in Nat
      <4> HIDE DEF M, g
      <4>1. M \in 1 .. TileCap /\ TileCap \in Nat
        BY <2>1, TileableFacts, HardwareSizes
      <4>2. M \in Nat \ {0}
        BY <4>1
      <4>3. QED BY <4>2, CeilFacts
    <3> HIDE DEF g
    <3>4. QED BY <3>1, <3>2, <3>3
  <2>3. M \in 1 .. TileCap /\ TileCap \in Nat
    BY <2>1, TileableFacts, HardwareSizes
  <2>4. CASE M = TileCap
    <3>1. ~(m <= T * TileCap)
      <4> HIDE DEF M, g
      <4>1. m \in Nat /\ M \in Nat \ {0}
        BY <2>3
      <4>2. m <= T * M => CeilDiv(m, M) <= T
        BY <4>1, CeilLeast
      <4>3. CeilDiv(m, M) \in Nat
        BY <4>1, CeilFacts
      <4>4. QED BY <2>2, <2>4, <4>2, <4>3
    <3>2. QED BY <2>3, <3>1
  <2>5. CASE M # TileCap
    <3>1. M < TileCap
      BY <2>3, <2>5
    <3>2. BanksFor(k * n) + BanksFor(rows * k) > Banks
      BY <1>4, <2>2, <3>1, TileTooSmall
    <3>3. QED BY <3>2
  <2>6. QED BY <2>4, <2>5
<1>5. wb >= Banks \/ wb < Banks
  BY <1>1, HardwareSizes
<1>6. QED BY <1>2, <1>3, <1>4, <1>5

(* Whatever network is run, over whatever banks: a block of a convolution  *)
(* is given up only if its weights and one aligned group of rows do not    *)
(* fit the banks, or more than MaxTiles tiles would be needed; an operator *)
(* of the tests only if the engine cannot express its lowering             *)
(* (gen_matmul_int8_tiled, run_matmul, the other generators).              *)
THEOREM OnlyWhatCannotFitIsRefused == WorkloadSpec => []RefusesOnlyWhatCannotFit
<1>1. NpuInv => RefusesOnlyWhatCannotFit
  <2> SUFFICES ASSUME NpuInv, phase = "failed" PROVE RefusesOnlyWhatCannotFit
    BY DEF RefusesOnlyWhatCannotFit
  <2>1. AtOperator /\ ~Accepted(Generator)
    BY DEF NpuInv, RefusalIsGenerated
  <2>2. WellFormed(op)
    BY <2>1, OperatorIsWellFormed
  <2>3. CASE op.kind = "yolo"
    <3> DEFINE m == Rows(op)
               k == PaddedK(op)
               n == PaddedN(op)
    <3>1. m \in Nat \ {0} /\ m < 2^26 /\ Padded(k) /\ Padded(n)
      BY <2>1, <2>2, <2>3, YoloSizes, RowsOfBlock
    <3>2. LET g == gen_matmul_int8_tiled(m, k, n) IN ~(g.ret = 0 /\ Len(g.tasks) <= MaxTiles)
      BY <2>1, <2>3 DEF Accepted, Generator
    <3>3. \/ MaxTiles * TileCap < m
          \/ BanksFor(k * n) + BanksFor(RoundUp(CeilDiv(m, MaxTiles), RowAlign) * k) > Banks
      <4> HIDE DEF m, k, n
      <4>1. QED BY <3>1, <3>2, BlocksArePositive, YoloRefusals
    <3>4. QED BY <2>3, <3>3 DEF RefusesOnlyWhatCannotFit
  <2>4. CASE op.kind # "yolo"
    <3>1. SingleKinds(op)
      BY <2>2, <2>4 DEF WellFormed, SingleKinds, Singles
    <3>2. NotLowered(op)
      BY <2>1, <2>2, <2>4, <3>1, SingleGenerated DEF Accepted
    <3>3. QED BY <3>2 DEF NotLowered, RefusesOnlyWhatCannotFit
  <2>5. QED BY <2>3, <2>4
<1>2. QED BY <1>1, NpuInvStep, PTL DEF WorkloadSpec

-----------------------------------------------------------------------------
(* What reaches the engine. *)

LEMMA TileTaken ==
  ASSUME NEW m, NEW k, NEW n, NEW M, Tileable(m, k, n, M), NEW from, NEW rows \in 1 .. M,
         NEW t, TileFields(t, m, k, n, from, rows)
  PROVE  EngineTakes(t) /\ t.wbytes <= t.weight_bank * Bank
<1> DEFINE wb == WeightBanks(k, n)
           fb == BanksFor(rows * k)
<1>1. /\ t.grains = rows + 1 /\ t.in_h = rows /\ t.in_w = 1 /\ t.in_c = k
      /\ t.kernels = n /\ t.wbytes = k * n /\ t.wbpk = k
      /\ t.weight_bank = Banks - fb /\ t.data_bank = fb
  BY DEF TileFields
<1>2. fb \in 1 .. Banks - wb /\ rows * k <= fb * Bank
  BY TileBanks
<1>3. /\ k % Group = 0 /\ n % Group = 0 /\ k \in Nat \ {0} /\ M \in 1 .. TileCap
      /\ wb \in 1 .. Banks - 1 /\ k * n <= wb * Bank /\ k * n \in Nat
  BY TileableFacts
<1>4. k <= Bank /\ Banks \in Nat /\ Bank \in Nat /\ TileCap \in Nat
  BY HardwareSizes DEF Tileable
<1> HIDE DEF wb, fb
<1>5. t.weight_bank > 0 /\ t.data_bank + t.weight_bank <= Banks
  BY <1>1, <1>2, <1>3, <1>4
<1>6. t.in_h * t.in_w * t.in_c <= t.data_bank * Bank
  <2>1. rows \in Nat /\ rows * 1 * k = rows * k
    BY <1>3, <1>4
  <2>2. QED BY <1>1, <1>2, <2>1
<1>7. t.wbytes <= t.weight_bank * Bank
  <2>1. wb <= Banks - fb /\ wb \in Int /\ Banks - fb \in Int
    BY <1>2, <1>3, <1>4
  <2>2. wb * Bank <= (Banks - fb) * Bank /\ wb * Bank \in Int /\ (Banks - fb) * Bank \in Int
    BY <1>4, <2>1, Grows
  <2>3. QED BY <1>1, <1>3, <2>2
<1>8. QED BY <1>1, <1>3, <1>4, <1>5, <1>6, <1>7 DEF EngineTakes

(* A task of what is being submitted, as what it was made from.            *)
LEMMA TaskOfTiling ==
  ASSUME NEW ts, NEW m, NEW k, NEW n, NEW M, Tileable(m, k, n, M), Tiled(ts, m, k, n, M),
         NEW i \in DOMAIN ts
  PROVE  /\ i \in 1 .. CeilDiv(m, M) /\ TileRows(m, M, i) \in 1 .. M
         /\ (i - 1) * M \in Nat /\ (i - 1) * M + TileRows(m, M, i) <= m
         /\ TileFields(ts[i], m, k, n, (i - 1) * M, TileRows(m, M, i))
<1>1. i \in 1 .. CeilDiv(m, M)
  BY DEF Tiled
<1>2. m \in Nat \ {0} /\ M \in Nat \ {0}
  BY TileableFacts, HardwareSizes
<1>3. QED BY <1>1, <1>2, TileRowsFacts DEF Tiled

(* Whatever is run: no task hangs the engine, runs past the banks or has a *)
(* field that does not hold its value, and a tile leaves its layer's       *)
(* weights all the banks they need (gen_conv2d_int8,                       *)
(* gen_matmul_int8_tiled, gen_matmul_task).                                *)
THEOREM TheEngineTakesEveryTask == WorkloadSpec => []EngineTakesEveryTask
<1>1. NpuInv => EngineTakesEveryTask
  <2> SUFFICES ASSUME NpuInv, phase = "submit", NEW i \in DOMAIN tasks
               PROVE  /\ EngineTakes(tasks[i])
                      /\ op.kind = "yolo" => tasks[i].wbytes <= tasks[i].weight_bank * Bank
    BY DEF EngineTakesEveryTask
  <2>1. AtOperator /\ Accepted(Generator) /\ tasks = Generator.tasks
    BY DEF NpuInv, TasksAreGenerated
  <2>2. WellFormed(op)
    BY <2>1, OperatorIsWellFormed
  <2>3. CASE op.kind = "yolo"
    <3>1. PICK M : /\ Tileable(Rows(op), PaddedK(op), PaddedN(op), M)
                   /\ Tiled(tasks, Rows(op), PaddedK(op), PaddedN(op), M)
      BY <2>1, <2>3, GeneratedTasks
    <3>2. /\ TileRows(Rows(op), M, i) \in 1 .. M
          /\ TileFields(tasks[i], Rows(op), PaddedK(op), PaddedN(op), (i - 1) * M,
                        TileRows(Rows(op), M, i))
      BY <3>1, TaskOfTiling
    <3>3. QED BY <3>1, <3>2, TileTaken
  <2>4. CASE op.kind # "yolo"
    <3>1. SingleKinds(op)
      BY <2>2, <2>4 DEF WellFormed, SingleKinds, Singles
    <3>2. tasks = <<ConvTask(Lowering(op))>> /\ FitsTheEngine(Lowering(op))
      BY <2>1, <3>1, GeneratedTasks
    <3>3. tasks[i] = ConvTask(Lowering(op))
      BY <3>2
    <3>4. QED BY <2>4, <3>2, <3>3, EngineTakesConv
  <2>5. QED BY <2>3, <2>4
<1>2. QED BY <1>1, NpuInvStep, PTL DEF WorkloadSpec

-----------------------------------------------------------------------------
(* What the engine reads. *)

(* A byte of a cube of C channels over S positions.                        *)
LEMMA ByteInCube ==
  ASSUME NEW A \in Nat \ {0}, NEW D \in Nat, NEW S \in Nat \ {0}, NEW pitch \in 0 .. S,
         NEW c \in 0 .. D * A - 1, NEW from \in Nat, NEW place \in Nat, from + place < S
  PROVE  from * A + (c \div A) * pitch * A + place * A + (c % A) \in 0 .. D * A * S - 1
<1> DEFINE q == c \div A
           r == c % A
<1>1. q \in 0 .. D - 1 /\ r \in 0 .. A - 1
  <2>1. c \in Nat /\ c < D * A
    OBVIOUS
  <2>2. QED BY <2>1, DigitBelow, DivMod
<1> HIDE DEF q, r
<1>2. q * pitch <= q * S /\ q * pitch \in Nat /\ q * S \in Nat
  <2>1. pitch * q <= S * q
    BY <1>1, Grows
  <2>2. QED BY <1>1, <2>1
<1>3. q * S + (from + place) \in 0 .. D * S - 1
  <2> DEFINE y == from + place
  <2>1. y \in 0 .. S - 1
    OBVIOUS
  <2> HIDE DEF y
  <2>2. q * S + y \in 0 .. D * S - 1
    BY <1>1, <2>1, TwoDigits
  <2>3. QED BY <2>2 DEF y
<1> DEFINE e == q * pitch + (from + place)
<1>4. e \in 0 .. D * S - 1
  BY <1>2, <1>3
<1>5. from * A + q * pitch * A + place * A = e * A
  BY <1>1
<1>6. e * A + r \in 0 .. D * S * A - 1
  <2>1. D * S \in Nat
    OBVIOUS
  <2> HIDE DEF e
  <2>2. QED BY <1>1, <1>4, <2>1, TwoDigits
<1>7. D * S * A = D * A * S
  OBVIOUS
<1> HIDE DEF e
<1>8. from * A + q * pitch * A + place * A + r \in 0 .. D * A * S - 1
  BY <1>5, <1>6, <1>7
<1>9. QED BY <1>8 DEF q, r

(* A byte of the weights of G * N kernels, each of G * W bytes.            *)
LEMMA ByteInWeights ==
  ASSUME NEW G \in Nat \ {0}, NEW N \in Nat, NEW W \in Nat,
         NEW n \in 0 .. N * G - 1, NEW flat \in 0 .. W * G - 1
  PROVE  (n \div G) * G * (W * G) + (flat \div G) * G * G + (n % G) * G + (flat % G)
           \in 0 .. N * G * (W * G) - 1
<1> DEFINE a == n \div G
           b == n % G
           c == flat \div G
           d == flat % G
<1>1. a \in 0 .. N - 1 /\ b \in 0 .. G - 1 /\ c \in 0 .. W - 1 /\ d \in 0 .. G - 1
  <2>1. n \in Nat /\ n < N * G /\ flat \in Nat /\ flat < W * G
    OBVIOUS
  <2>2. QED BY <2>1, DigitBelow, DivMod
<1> HIDE DEF a, b, c, d
<1>2. a * W + c \in 0 .. N * W - 1
  BY <1>1, TwoDigits
<1>3. b * G + d \in 0 .. G * G - 1
  BY <1>1, TwoDigits
<1> DEFINE e == a * W + c
           f == b * G + d
<1>4. e * (G * G) + f \in 0 .. (N * W) * (G * G) - 1
  <2>1. N * W \in Nat /\ G * G \in Nat \ {0}
    BY Positive
  <2> HIDE DEF e, f
  <2>2. QED BY <1>2, <1>3, <2>1, TwoDigits DEF e, f
<1>5. a * G * (W * G) + c * G * G + b * G + d = e * (G * G) + f
  BY <1>1
<1>6. N * G * (W * G) = (N * W) * (G * G)
  OBVIOUS
<1> HIDE DEF e, f
<1>7. QED BY <1>4, <1>5, <1>6 DEF a, b, c, d

(* Surfaces of w * h entries lie at most that far apart.                   *)
LEMMA PitchFacts ==
  ASSUME NEW w \in Nat \ {0}, NEW h \in Nat \ {0}, w * h < 2^28, w * RowAlign < 2^28
  PROVE  (w * RowAlign + (SurfStride(w * RowAlign, h) % 2^28)) % 2^28 \in 0 .. w * h
<1> DEFINE R == RowAlign
           line == w * R
           q == h \div R
           s == line * (q - 1)
<1>1. R \in Nat \ {0} /\ line \in Nat \ {0} /\ q \in Nat /\ line < 268435456 /\ w * h \in Nat
  BY HardwareSizes, Positive, FieldWidths
<1>2. line * q <= w * h /\ line * q \in Nat
  <2>1. h % R \in Nat /\ h = q * R + (h % R) /\ q * R \in Nat
    BY <1>1
  <2>2. q * R <= h
    BY <2>1
  <2> HIDE DEF q
  <2>3. (q * R) * w <= h * w
    BY <1>1, <2>1, <2>2, Grows
  <2>4. (q * R) * w = line * q /\ h * w = w * h
    BY <1>1
  <2>5. QED BY <1>1, <2>3, <2>4
<1>3. w * h < 268435456 /\ w * h >= 1
  BY FieldWidths, Positive
<1>4. SurfStride(line, h) = IF s < 0 THEN s + 1 ELSE s
  BY DEF SurfStride
<1> HIDE DEF R
<1>5. s = line * q - line
  BY <1>1
<1> DEFINE lq == line * q
           S == w * h
<1>6. lq \in Nat /\ lq <= S /\ S \in Nat /\ S < 268435456 /\ s = lq - line
  BY <1>1, <1>2, <1>3, <1>5
<1>7. q = 0 => lq = 0
  BY <1>1
<1>8. q # 0 => lq >= line
  BY <1>1, Positive
<1> HIDE DEF lq, S, line, q, s
<1> DEFINE x == SurfStride(line, h)
<1>9. x = IF s < 0 THEN s + 1 ELSE s
  BY <1>4
<1> HIDE DEF x
<1>10. (line + (x % 268435456)) % 268435456 \in 0 .. S
  <2>1. CASE q = 0
    <3>1. x = 1 - line
      BY <1>1, <1>6, <1>7, <1>9, <2>1
    <3>2. x % 268435456 = IF line = 1 THEN 0 ELSE x + 268435456
      BY <1>1, <3>1
    <3>3. (line + (x % 268435456)) % 268435456 = 1
      BY <1>1, <3>1, <3>2
    <3>4. S >= 1
      BY <1>3 DEF S
    <3>5. QED BY <1>6, <3>3, <3>4
  <2>2. CASE q # 0
    <3>1. x = lq - line /\ x \in Nat /\ x < 268435456
      BY <1>1, <1>6, <1>8, <1>9, <2>2
    <3>2. x % 268435456 = x
      BY <3>1
    <3>3. line + x = lq /\ lq < 268435456
      BY <1>1, <1>6, <3>1
    <3>4. lq % 268435456 = lq
      BY <1>6, <3>3
    <3>5. QED BY <1>6, <3>2, <3>3, <3>4
  <2>3. QED BY <2>1, <2>2
<1>11. QED BY <1>10, FieldWidths DEF x, line, R, S

(* A task over w columns of a cube of w * h positions, from the position   *)
(* 'from' on.                                                              *)
CubeTask(t, w, h, from) ==
  /\ w \in Nat \ {0} /\ h \in Nat \ {0} /\ w * h < 2^28 /\ w * RowAlign < 2^28
  /\ t.line_stride = w * RowAlign /\ t.surf_stride = SurfStride(w * RowAlign, h) % 2^28
  /\ from \in Nat /\ t.feature_base = from * Atom
  /\ t.in_w = w /\ t.in_h \in Nat /\ from + t.in_h * w <= w * h
  /\ t.in_c \in Nat /\ t.in_c % Atom = 0

LEMMA FeatureRead ==
  ASSUME NEW t, NEW w, NEW h, NEW from, CubeTask(t, w, h, from),
         NEW oy, NEW ox, NEW x \in Terms(t, oy, ox),
         NEW iy \in Int, NEW ix \in Int,
         iy = oy * t.stride_h + x[1][1] - t.pad_top,
         ix = ox * t.stride_w + x[1][2] - t.pad_left
  PROVE  FeatureOf(t, oy, ox, x) \in 0 .. t.in_c * (w * h) - 1
<1> DEFINE c == x[2]
           D == t.in_c \div Atom
           S == w * h
           pitch == SurfacePitch(t)
           place == iy * w + ix
<1>1. /\ w \in Nat \ {0} /\ h \in Nat \ {0} /\ S < 2^28 /\ w * RowAlign < 2^28
      /\ t.line_stride = w * RowAlign /\ t.surf_stride = SurfStride(w * RowAlign, h) % 2^28
      /\ from \in Nat /\ t.feature_base = from * Atom
      /\ t.in_w = w /\ t.in_h \in Nat /\ from + t.in_h * w <= S
      /\ t.in_c \in Nat /\ t.in_c % Atom = 0
  BY DEF CubeTask
<1>2. c \in 0 .. t.in_c - 1 /\ iy \in 0 .. t.in_h - 1 /\ ix \in 0 .. w - 1
  <2>1. c \in 0 .. t.in_c - 1 /\ Inside(iy, t.in_h) /\ Inside(ix, t.in_w)
    BY DEF Terms
  <2>2. QED BY <1>1, <2>1 DEF Inside
<1>3. Atom \in Nat \ {0} /\ RowAlign \in Nat \ {0}
  BY HardwareSizes
<1>4. D \in Nat /\ t.in_c = D * Atom
  BY <1>1, <1>3, Whole
<1>5. S \in Nat \ {0}
  BY <1>1, Positive
<1>6. pitch \in 0 .. S
  BY <1>1, PitchFacts DEF SurfacePitch
<1>7. t.line_stride \div RowAlign = w
  BY <1>1, <1>3, Multiple
<1>8. place \in Nat /\ from + place < S
  <2>1. place \in 0 .. t.in_h * w - 1
    BY <1>1, <1>2, TwoDigits
  <2>2. t.in_h * w \in Nat
    BY <1>1
  <2> HIDE DEF place
  <2>3. QED BY <1>1, <1>5, <2>1, <2>2
<1>9. FeatureOf(t, oy, ox, x) =
        from * Atom + (c \div Atom) * pitch * Atom + place * Atom + (c % Atom)
  BY <1>1, <1>7 DEF FeatureOf, FeatureByte
<1> HIDE DEF c, D, S, pitch, place
<1>10. c \in 0 .. D * Atom - 1
  BY <1>2, <1>4
<1>11. from * Atom + (c \div Atom) * pitch * Atom + place * Atom + (c % Atom)
         \in 0 .. D * Atom * S - 1
  BY <1>1, <1>3, <1>4, <1>5, <1>6, <1>8, <1>10, ByteInCube
<1>12. QED BY <1>4, <1>9, <1>11 DEF S

LEMMA WeightRead ==
  ASSUME NEW t, t.kh \in Nat, t.kw \in Nat \ {0}, t.in_c \in Nat \ {0}, t.in_c % Group = 0,
         t.wbpk = t.kw * t.kh * t.in_c, t.kernels \in Nat, t.kernels % Group = 0,
         NEW n \in 0 .. t.kernels - 1, NEW r \in (0 .. t.kh - 1) \X (0 .. t.kw - 1),
         NEW ic \in 0 .. t.in_c - 1
  PROVE  WeightByte(t, n, r, ic) \in 0 .. t.kernels * (t.kw * t.kh * t.in_c) - 1
<1> DEFINE G == Group
           N == t.kernels \div Group
           D == t.in_c \div Group
           W == t.kh * t.kw * D
           e == r[1] * t.kw + r[2]
           flat == e * t.in_c + ic
<1>1. G \in Nat \ {0}
  BY HardwareSizes
<1>2. N \in Nat /\ t.kernels = N * G /\ D \in Nat /\ t.in_c = D * G
  BY <1>1, Whole
<1>3. t.kh * t.kw \in Nat /\ W \in Nat
  <2>1. t.kh * t.kw \in Nat
    OBVIOUS
  <2> HIDE DEF D
  <2>2. QED BY <1>2, <2>1
<1>4. e \in 0 .. t.kh * t.kw - 1
  <2>1. r[1] \in 0 .. t.kh - 1 /\ r[2] \in 0 .. t.kw - 1
    OBVIOUS
  <2>2. QED BY <2>1, TwoDigits
<1> HIDE DEF G, N, D, e
<1>5. flat \in 0 .. (t.kh * t.kw) * t.in_c - 1
  BY <1>3, <1>4, TwoDigits
<1>6. (t.kh * t.kw) * t.in_c = W * G /\ t.kw * t.kh * t.in_c = W * G
  <2>1. (t.kh * t.kw) * (D * G) = (t.kh * t.kw * D) * G
    BY <1>1, <1>2
  <2>2. t.kw * t.kh = t.kh * t.kw
    OBVIOUS
  <2>3. QED BY <1>2, <2>1, <2>2
<1>7. WeightByte(t, n, r, ic) =
        (n \div G) * G * (W * G) + (flat \div G) * G * G + (n % G) * G + (flat % G)
  BY <1>6 DEF WeightByte, e, G
<1> HIDE DEF W, flat
<1>8. n \in 0 .. N * G - 1 /\ flat \in 0 .. W * G - 1
  BY <1>2, <1>5, <1>6
<1>9. (n \div G) * G * (W * G) + (flat \div G) * G * G + (n % G) * G + (flat % G)
        \in 0 .. N * G * (W * G) - 1
  BY <1>1, <1>2, <1>3, <1>8, ByteInWeights
<1>10. QED BY <1>2, <1>6, <1>7, <1>9

(* All that a task reads lies in buffers of the given sizes.               *)
ReadsInside(t, feat_size, weight_size) ==
  /\ \A oy \in 0..t.out_h - 1, ox \in 0..t.out_w - 1 :
       \A x \in Terms(t, oy, ox) : FeatureOf(t, oy, ox, x) \in 0..feat_size - 1
  /\ \A n \in 0..t.kernels - 1, r \in (0..t.kh - 1) \X (0..t.kw - 1),
        ic \in 0..t.in_c - 1 : WeightByte(t, n, r, ic) \in 0..weight_size - 1

LEMMA TaskReads ==
  ASSUME NEW t, NEW w, NEW h, NEW from, CubeTask(t, w, h, from),
         t.kh \in Nat, t.kw \in Nat \ {0}, t.in_c \in Nat \ {0}, t.in_c % Group = 0,
         t.wbpk = t.kw * t.kh * t.in_c, t.kernels \in Nat, t.kernels % Group = 0,
         t.out_h \in Nat, t.out_w \in Nat, t.stride_h \in Nat, t.stride_w \in Nat,
         t.pad_top \in Nat, t.pad_left \in Nat
  PROVE  ReadsInside(t, t.in_c * (w * h), t.kernels * (t.kw * t.kh * t.in_c))
<1>1. ASSUME NEW oy \in 0..t.out_h - 1, NEW ox \in 0..t.out_w - 1, NEW x \in Terms(t, oy, ox)
      PROVE  FeatureOf(t, oy, ox, x) \in 0 .. t.in_c * (w * h) - 1
  <2> DEFINE iy == oy * t.stride_h + x[1][1] - t.pad_top
             ix == ox * t.stride_w + x[1][2] - t.pad_left
  <2>1. x[1][1] \in 0 .. t.kh - 1 /\ x[1][2] \in 0 .. t.kw - 1
    BY DEF Terms
  <2>2. iy \in Int /\ ix \in Int
    BY <2>1
  <2>3. QED BY <2>2, FeatureRead
<1>2. ASSUME NEW n \in 0..t.kernels - 1, NEW r \in (0..t.kh - 1) \X (0..t.kw - 1),
             NEW ic \in 0..t.in_c - 1
      PROVE  WeightByte(t, n, r, ic) \in 0 .. t.kernels * (t.kw * t.kh * t.in_c) - 1
  BY WeightRead
<1>3. QED BY <1>1, <1>2 DEF ReadsInside

LEMMA GroupsAreAtoms ==
  ASSUME NEW c \in Nat, c % Group = 0
  PROVE  c % Atom = 0 /\ c % OutC2 = 0 /\ OutC2 \in Nat \ {0} /\ Atom = OutC2 * OutElem
<1>1. /\ Atom \in Nat \ {0} /\ OutElem \in Nat \ {0} /\ Group \in Nat \ {0}
      /\ Group % Atom = 0 /\ Atom % OutElem = 0
  BY HardwareSizes, SizesDivide
<1>2. OutC2 \in Nat /\ Atom = OutC2 * OutElem
  BY <1>1, Whole DEF OutC2
<1>3. OutC2 # 0
  BY <1>1, <1>2
<1>4. PICK d \in Nat : c = d * Group
  <2>1. c \div Group \in Nat /\ c = (c \div Group) * Group
    BY <1>1, Whole
  <2>2. QED BY <2>1
<1>5. PICK g \in Nat : Group = g * Atom
  <2>1. Group \div Atom \in Nat /\ Group = (Group \div Atom) * Atom
    BY <1>1, Whole
  <2>2. QED BY <2>1
<1>6. c = (d * g) * Atom /\ c = (d * g * OutElem) * OutC2
  <2>1. c = d * (g * Atom)
    BY <1>4, <1>5
  <2>2. d * (g * Atom) = (d * g) * Atom
    BY <1>1
  <2>3. (d * g) * (OutC2 * OutElem) = (d * g * OutElem) * OutC2
    BY <1>1, <1>2
  <2>4. QED BY <1>2, <2>1, <2>2, <2>3
<1>7. d * g \in Nat /\ d * g * OutElem \in Nat
  BY <1>1, <1>4, <1>5
<1>8. c % Atom = 0
  <2> DEFINE a == d * g
  <2> HIDE DEF a
  <2>1. QED BY <1>1, <1>6, <1>7, Multiple DEF a
<1>9. c % OutC2 = 0
  <2> DEFINE a == d * g * OutElem
  <2> HIDE DEF a
  <2>1. QED BY <1>2, <1>3, <1>6, <1>7, Multiple DEF a
<1>10. QED BY <1>2, <1>3, <1>8, <1>9

LEMMA ConvCube ==
  ASSUME NEW p, FitsTheEngine(p)
  PROVE  CubeTask(ConvTask(p), p.in_w, p.in_h, 0)
<1> DEFINE t == ConvTask(p)
<1>1. ConvFields(t, p)
  BY ConvTaskFields
<1> HIDE DEF t
<1>2. /\ {p.in_h, p.in_w, p.in_c, p.out_c, p.kh, p.kw, p.stride_h, p.stride_w}
           \subseteq Nat \ {0}
      /\ {p.pad_top, p.pad_left, p.pad_bottom, p.pad_right} \subseteq Nat
      /\ ConvOutH(p) \in Nat \ {0} /\ ConvOutW(p) \in Nat \ {0}
  BY ConvSizes
<1>3. /\ p.in_w < 2048 /\ p.in_h < 2048 /\ p.in_c % Group = 0 /\ p.out_c % Group = 0
  BY FieldWidths DEF FitsTheEngine, FitsTheFields
<1>4. p.in_w * p.in_h \in Nat /\ p.in_w * p.in_h < 2^28
  <2>1. p.in_w * p.in_h <= 2047 * p.in_h /\ p.in_w * p.in_h \in Nat
    BY <1>2, <1>3, Grows
  <2>2. QED BY <1>2, <1>3, <2>1, FieldWidths
<1>5. p.in_w * RowAlign < 2^28
  <2>1. p.in_w * RowAlign <= 2047 * RowAlign /\ p.in_w * RowAlign \in Nat
    BY <1>2, <1>3, HardwareSizes, Grows
  <2>2. QED BY <2>1, FieldWidths, HardwareSizes
<1>6. CubeTask(t, p.in_w, p.in_h, 0)
  <2>1. p.in_c % Atom = 0
    BY <1>2, <1>3, GroupsAreAtoms
  <2>2. 0 * Atom = 0 /\ 0 + p.in_h * p.in_w <= p.in_w * p.in_h
    BY <1>2, <1>4, HardwareSizes
  <2>3. /\ t.line_stride = p.in_w * RowAlign
        /\ t.surf_stride = SurfStride(p.in_w * RowAlign, p.in_h) % 2^28
        /\ t.feature_base = 0 /\ t.in_w = p.in_w /\ t.in_h = p.in_h /\ t.in_c = p.in_c
    BY <1>1 DEF ConvFields
  <2>4. QED BY <1>2, <1>4, <1>5, <2>1, <2>2, <2>3 DEF CubeTask
<1>7. QED BY <1>6 DEF t

LEMMA ConvReads ==
  ASSUME NEW p, FitsTheEngine(p)
  PROVE  ReadsInside(ConvTask(p), p.in_c * (p.in_w * p.in_h),
                     p.out_c * (p.kw * p.kh * p.in_c))
<1> DEFINE t == ConvTask(p)
<1>1. ConvFields(t, p)
  BY ConvTaskFields
<1> HIDE DEF t
<1>2. /\ {p.in_h, p.in_w, p.in_c, p.out_c, p.kh, p.kw, p.stride_h, p.stride_w}
           \subseteq Nat \ {0}
      /\ {p.pad_top, p.pad_left, p.pad_bottom, p.pad_right} \subseteq Nat
      /\ ConvOutH(p) \in Nat \ {0} /\ ConvOutW(p) \in Nat \ {0}
  BY ConvSizes
<1>3. p.in_c % Group = 0 /\ p.out_c % Group = 0
  BY Zenon DEF FitsTheEngine
<1>4. /\ t.kh = p.kh /\ t.kw = p.kw /\ t.in_c = p.in_c /\ t.kernels = p.out_c
      /\ t.wbpk = p.kw * p.kh * p.in_c /\ t.out_h = ConvOutH(p) /\ t.out_w = ConvOutW(p)
      /\ t.stride_h = p.stride_h /\ t.stride_w = p.stride_w
      /\ t.pad_top = p.pad_top /\ t.pad_left = p.pad_left
  BY <1>1 DEF ConvFields
<1>5. /\ t.kh \in Nat /\ t.kw \in Nat \ {0} /\ t.in_c \in Nat \ {0} /\ t.in_c % Group = 0
      /\ t.kernels \in Nat /\ t.kernels % Group = 0
      /\ t.out_h \in Nat /\ t.out_w \in Nat /\ t.stride_h \in Nat /\ t.stride_w \in Nat
      /\ t.pad_top \in Nat /\ t.pad_left \in Nat
  BY <1>2, <1>3, <1>4
<1>6. t.wbpk = t.kw * t.kh * t.in_c
  BY <1>4
<1>7. CubeTask(t, p.in_w, p.in_h, 0)
  BY ConvCube DEF t
<1>8. ReadsInside(t, t.in_c * (p.in_w * p.in_h), t.kernels * (t.kw * t.kh * t.in_c))
  BY <1>5, <1>6, <1>7, TaskReads
<1>9. QED BY <1>4, <1>8 DEF t

LEMMA TileCube ==
  ASSUME NEW m \in Nat \ {0}, NEW k, NEW n, NEW M, Tileable(m, k, n, M),
         NEW from \in Nat, NEW rows \in 1 .. M, from + rows <= m,
         NEW t, TileFields(t, m, k, n, from, rows)
  PROVE  CubeTask(t, 1, m, from)
<1>1. k % Group = 0 /\ k \in Nat \ {0} /\ M \in 1 .. TileCap /\ m < 2^26
  BY TileableFacts DEF Tileable
<1>2. /\ t.line_stride = RowAlign /\ t.surf_stride = SurfStride(RowAlign, m) % 2^28
      /\ t.feature_base = from * Atom /\ t.in_w = 1 /\ t.in_h = rows /\ t.in_c = k
  BY DEF TileFields
<1>3. rows \in Nat \ {0} /\ RowAlign \in Nat \ {0} /\ RowAlign < 2^28 /\ 1 * RowAlign = RowAlign
      /\ 1 * m = m /\ m < 2^28 /\ rows * 1 = rows
  BY <1>1, FieldWidths, HardwareSizes
<1>4. k % Atom = 0
  BY <1>1, GroupsAreAtoms
<1>5. QED BY <1>1, <1>2, <1>3, <1>4 DEF CubeTask

LEMMA TileReads ==
  ASSUME NEW m \in Nat \ {0}, NEW k, NEW n, NEW M, Tileable(m, k, n, M),
         NEW from \in Nat, NEW rows \in 1 .. M, from + rows <= m,
         NEW t, TileFields(t, m, k, n, from, rows)
  PROVE  ReadsInside(t, k * m, k * n)
<1>1. /\ k % Group = 0 /\ n % Group = 0 /\ k \in Nat \ {0} /\ n \in Nat \ {0}
      /\ M \in 1 .. TileCap /\ m < 2^26
  BY TileableFacts DEF Tileable
<1>2. /\ t.line_stride = RowAlign /\ t.surf_stride = SurfStride(RowAlign, m) % 2^28
      /\ t.feature_base = from * Atom /\ t.in_w = 1 /\ t.in_h = rows /\ t.in_c = k
      /\ t.kh = 1 /\ t.kw = 1 /\ t.kernels = n /\ t.wbpk = k
      /\ t.out_h = rows /\ t.out_w = 1 /\ t.stride_h = 1 /\ t.stride_w = 1
      /\ t.pad_top = 0 /\ t.pad_left = 0
  BY DEF TileFields
<1>3. rows \in Nat \ {0} /\ RowAlign \in Nat \ {0} /\ RowAlign < 2^28 /\ 1 * RowAlign = RowAlign
      /\ 1 * m = m /\ m < 2^28 /\ rows * 1 = rows /\ 1 * 1 * k = k
  BY <1>1, FieldWidths, HardwareSizes
<1>4. CubeTask(t, 1, m, from)
  BY TileCube
<1>5. /\ t.kh \in Nat /\ t.kw \in Nat \ {0} /\ t.in_c \in Nat \ {0} /\ t.in_c % Group = 0
      /\ t.kernels \in Nat /\ t.kernels % Group = 0
      /\ t.out_h \in Nat /\ t.out_w \in Nat /\ t.stride_h \in Nat /\ t.stride_w \in Nat
      /\ t.pad_top \in Nat /\ t.pad_left \in Nat
  BY <1>1, <1>2, <1>3
<1>6. t.wbpk = t.kw * t.kh * t.in_c
  BY <1>2, <1>3
<1>7. ReadsInside(t, t.in_c * (1 * m), t.kernels * (t.kw * t.kh * t.in_c))
  BY <1>4, <1>5, <1>6, TaskReads
<1>8. t.in_c * (1 * m) = k * m /\ t.kernels * (t.kw * t.kh * t.in_c) = k * n
  BY <1>1, <1>2, <1>3
<1>9. QED BY <1>7, <1>8

(* The sizes a caller lays out, in the sizes of what its operator became.  *)
LEMMA SingleSizes ==
  ASSUME WellFormed(op), SingleKinds(op), ~NotLowered(op), FitsTheEngine(Lowering(op))
  PROVE  LET q == Lowering(op) IN
         /\ FeatSize = q.in_c * (q.in_w * q.in_h)
         /\ WeightSize = q.out_c * (q.kw * q.kh * q.in_c)
         /\ OutSize = q.out_c * (ConvOutH(q) * ConvOutW(q))
<1> DEFINE q == Lowering(op)
<1>1. /\ {q.in_h, q.in_w, q.in_c, q.out_c, q.kh, q.kw} \subseteq Nat \ {0}
      /\ ConvOutH(q) \in Nat \ {0} /\ ConvOutW(q) \in Nat \ {0}
      /\ q.in_c % Group = 0 /\ q.out_c % Group = 0
  BY ConvSizes DEF FitsTheEngine
<1>2. /\ RoundUp(q.in_c, Atom) = q.in_c /\ RoundUp(q.out_c, OutC2) = q.out_c
      /\ RoundUp(q.in_c, Group) = q.in_c /\ RoundUp(q.out_c, Group) = q.out_c
  <2> HIDE DEF q
  <2>1. q.in_c % Atom = 0 /\ q.out_c % OutC2 = 0 /\ OutC2 \in Nat \ {0}
    BY <1>1, GroupsAreAtoms
  <2>2. Atom \in Nat \ {0} /\ Group \in Nat \ {0}
    BY HardwareSizes
  <2>3. QED BY <1>1, <2>1, <2>2, RoundUpFacts
<1>3. ASSUME NEW m \in Nat \ {0}, NEW k, NEW n, q = PointwiseTask(m, k, n)
      PROVE  /\ q.in_c = k /\ q.out_c = n /\ q.in_w = 1 /\ q.in_h = m /\ q.kw = 1 /\ q.kh = 1
             /\ ConvOutH(q) = m /\ ConvOutW(q) = 1
  <2>1. /\ q.in_h = m /\ q.in_w = 1 /\ q.in_c = k /\ q.out_c = n /\ q.kh = 1 /\ q.kw = 1
        /\ q.stride_h = 1 /\ q.stride_w = 1 /\ q.pad_top = 0 /\ q.pad_left = 0
        /\ q.pad_bottom = 0 /\ q.pad_right = 0
    BY <1>3 DEF PointwiseTask
  <2> HIDE DEF q
  <2>2. m + (0 + 0) - 1 = m - 1 /\ (m - 1) \div 1 = m - 1 /\ (m - 1) + 1 = m
    OBVIOUS
  <2>3. 1 + (0 + 0) - 1 = 0 /\ 0 \div 1 = 0
    OBVIOUS
  <2>4. QED BY <2>1, <2>2, <2>3 DEF ConvOutH, ConvOutW, OutDim
<1>4. CASE op.kind = "llm"
  <2>1. q = PointwiseTask(1, op.c, op.n)
    BY <1>4 DEF Lowering
  <2>2. /\ FeatSize = RoundUp(op.c, Atom) /\ OutSize = RoundUp(op.n, OutC2)
        /\ WeightSize = RoundUp(op.c, Group) * RoundUp(op.n, Group)
    BY <1>4 DEF FeatSize, OutSize, WeightSize
  <2>3. /\ q.in_c = op.c /\ q.out_c = op.n /\ q.in_w = 1 /\ q.in_h = 1 /\ q.kw = 1 /\ q.kh = 1
        /\ ConvOutH(q) = 1 /\ ConvOutW(q) = 1
    BY <1>3, <2>1
  <2> HIDE DEF q
  <2>4. FeatSize = q.in_c /\ OutSize = q.out_c /\ WeightSize = q.in_c * q.out_c
    BY <1>2, <2>2, <2>3
  <2>5. QED BY <1>1, <2>3, <2>4 DEF q
<1>5. CASE op.kind = "transpose"
  <2> DEFINE a == RoundUp(op.cols, Group)
             b == RoundUp(op.rows, Group)
  <2>1. q = PointwiseTask(a, a, b)
    BY <1>5 DEF Lowering
  <2>2. /\ FeatSize = a * a /\ OutSize = a * b /\ WeightSize = b * a
    BY <1>5 DEF FeatSize, OutSize, WeightSize
  <2>3. a \in Nat \ {0}
    <3>1. op.cols \in Nat /\ op.cols > 0 /\ Group \in Nat \ {0}
      BY <1>5, HardwareSizes DEF WellFormed
    <3>2. a \in Nat /\ a >= Group
      BY <3>1, RoundUpFacts
    <3>3. QED BY <3>1, <3>2
  <2> HIDE DEF a, b
  <2>4. /\ q.in_c = a /\ q.out_c = b /\ q.in_w = 1 /\ q.in_h = a /\ q.kw = 1 /\ q.kh = 1
        /\ ConvOutH(q) = a /\ ConvOutW(q) = 1
    BY <1>3, <2>1, <2>3
  <2> HIDE DEF q
  <2>5. QED BY <1>1, <2>2, <2>4 DEF q
<1>6. CASE op.kind \in {"conv", "depthwise", "grouped"}
  <2>1. op.p = q /\ Lowered(op) = q
    BY <1>6 DEF Lowering, Lowered
  <2>2. /\ FeatSize = q.in_c * q.in_h * q.in_w
        /\ WeightSize = q.out_c * q.kh * q.kw * q.in_c
        /\ OutSize = q.out_c * ConvOutH(q) * ConvOutW(q)
    BY <1>6, <2>1 DEF FeatSize, WeightSize, OutSize
  <2> HIDE DEF q
  <2>3. QED BY <1>1, <2>2 DEF q
<1>7. CASE op.kind = "deconv"
  <2>1. Lowered(op) = q /\ q = DeconvAsConv(op.p)
    BY <1>7 DEF Lowering, Lowered
  <2>2. op.p.out_c = q.out_c /\ op.p.kh = q.kh /\ op.p.kw = q.kw /\ op.p.in_c = q.in_c
    BY <2>1 DEF DeconvAsConv
  <2>3. /\ FeatSize = q.in_c * q.in_h * q.in_w
        /\ WeightSize = q.out_c * q.kh * q.kw * q.in_c
        /\ OutSize = q.out_c * ConvOutH(q) * ConvOutW(q)
    BY <1>7, <2>1, <2>2 DEF FeatSize, WeightSize, OutSize
  <2> HIDE DEF q
  <2>4. QED BY <1>1, <2>3 DEF q
<1>8. QED BY <1>4, <1>5, <1>6, <1>7 DEF SingleKinds, Singles

LEMMA YoloBufferSizes ==
  ASSUME op.kind = "yolo", WellFormed(op), Rows(op) \in Nat
  PROVE  /\ FeatSize = PaddedK(op) * Rows(op) /\ WeightSize = PaddedK(op) * PaddedN(op)
         /\ OutSize = PaddedN(op) * Rows(op)
<1> DEFINE k == PaddedK(op)
           n == PaddedN(op)
<1>1. k \in Nat \ {0} /\ n \in Nat \ {0} /\ k % Group = 0 /\ n % Group = 0
  BY YoloSizes DEF Padded
<1>2. /\ FeatSize = RoundUp(k, Atom) * Rows(op) /\ WeightSize = k * n
      /\ OutSize = RoundUp(n, OutC2) * Rows(op)
  BY DEF FeatSize, WeightSize, OutSize, YoloFeatSize
<1> HIDE DEF k, n
<1>3. RoundUp(k, Atom) = k /\ RoundUp(n, OutC2) = n
  <2>1. k \in Nat /\ n \in Nat /\ Atom \in Nat \ {0}
    BY <1>1, HardwareSizes
  <2>2. k % Atom = 0 /\ n % OutC2 = 0 /\ OutC2 \in Nat \ {0}
    BY <1>1, <2>1, GroupsAreAtoms
  <2>3. QED BY <1>1, <2>1, <2>2, RoundUpFacts
<1>4. QED BY <1>2, <1>3 DEF k, n

LEMMA GeneratedReads ==
  ASSUME AtOperator, Accepted(Generator), NEW i \in DOMAIN Generator.tasks,
         NEW t, t = Generator.tasks[i]
  PROVE  ReadsInside(t, FeatSize, WeightSize)
<1>1. WellFormed(op)
  BY OperatorIsWellFormed
<1>2. CASE op.kind = "yolo"
  <2>1. PICK M : /\ Tileable(Rows(op), PaddedK(op), PaddedN(op), M)
                 /\ Tiled(Generator.tasks, Rows(op), PaddedK(op), PaddedN(op), M)
    BY <1>2, GeneratedTasks
  <2> DEFINE m == Rows(op)
             k == PaddedK(op)
             n == PaddedN(op)
             from == (i - 1) * M
             rows == TileRows(m, M, i)
  <2>2. m \in Nat \ {0}
    BY <1>2, RowsOfBlock
  <2>3. FeatSize = k * m /\ WeightSize = k * n
    BY <1>1, <1>2, <2>2, YoloBufferSizes
  <2> HIDE DEF m, k, n
  <2>4. /\ rows \in 1 .. M /\ from \in Nat /\ from + rows <= m
        /\ TileFields(t, m, k, n, from, rows)
    BY <2>1, TaskOfTiling DEF m, k, n
  <2>5. Tileable(m, k, n, M)
    BY <2>1 DEF m, k, n
  <2> HIDE DEF from, rows
  <2>6. QED BY <2>2, <2>3, <2>4, <2>5, TileReads
<1>3. CASE op.kind # "yolo"
  <2>1. SingleKinds(op)
    BY <1>1, <1>3 DEF WellFormed, SingleKinds, Singles
  <2>2. /\ ~NotLowered(op) /\ Generator.tasks = <<ConvTask(Lowering(op))>>
        /\ FitsTheEngine(Lowering(op))
    BY <2>1, GeneratedTasks
  <2>3. t = ConvTask(Lowering(op))
    BY <2>2
  <2> DEFINE q == Lowering(op)
  <2>4. FeatSize = q.in_c * (q.in_w * q.in_h) /\ WeightSize = q.out_c * (q.kw * q.kh * q.in_c)
    BY <1>1, <2>1, <2>2, SingleSizes
  <2>5. FitsTheEngine(q)
    BY <2>2
  <2> HIDE DEF q
  <2>6. QED BY <2>3, <2>4, <2>5, ConvReads DEF q
<1>4. QED BY <1>2, <1>3

(* The engine reads only what was laid out and cleaned from the cache,     *)
(* whichever tile of whichever operator it runs: the addresses that the    *)
(* generators put in the registers, against the sizes yolo_conv_npu,       *)
(* llm_npu_matmul and the tests clean.                                     *)
THEOREM ReadsAreClean == WorkloadSpec => []EngineReadsWhatWasCleaned
<1>1. NpuInv => EngineReadsWhatWasCleaned
  <2> SUFFICES ASSUME NpuInv, phase = "submit", NEW i \in DOMAIN tasks
               PROVE  ReadsInside(tasks[i], FeatSize, WeightSize)
    BY SMTT(30) DEF EngineReadsWhatWasCleaned, ReadsInside
  <2>1. AtOperator /\ Accepted(Generator) /\ tasks = Generator.tasks
    BY DEF NpuInv, TasksAreGenerated
  <2>2. QED BY <2>1, GeneratedReads
<1>2. QED BY <1>1, NpuInvStep, PTL DEF WorkloadSpec

-----------------------------------------------------------------------------
(* What the engine writes. *)

(* A task that computes N kernels at n positions of a surface of P, from   *)
(* the position 'from' on, in rows of t.out_w.                             *)
SurfaceTask(t, D, P, from) ==
  /\ D \in Nat /\ t.kernels = D * OutC2 /\ OutC2 \in Nat \ {0}
  /\ P \in Nat \ {0} /\ t.dst_surf_stride = P
  /\ from \in Nat /\ t.dst_base \div OutElem = from * OutC2
  /\ t.out_h \in Nat /\ t.out_w \in Nat \ {0} /\ from + t.out_h * t.out_w <= P

WordsOf(t) == {OutWord(t, c[1], c[2], c[3]) : c \in Cells(t)}

(* The word of a cell, and the cell of a word.                             *)
LEMMA WordOfCell ==
  ASSUME NEW t, NEW D, NEW P, NEW from, SurfaceTask(t, D, P, from),
         NEW n \in 0 .. t.kernels - 1, NEW oy \in 0 .. t.out_h - 1, NEW ox \in 0 .. t.out_w - 1
  PROVE  LET w == OutWord(t, n, oy, ox)
             s == (w \div OutC2) % P
         IN  /\ w \in 0 .. (D * P) * OutC2 - 1
             /\ s = from + oy * t.out_w + ox
             /\ s \in from .. from + t.out_h * t.out_w - 1
             /\ n = ((w \div OutC2) \div P) * OutC2 + (w % OutC2)
             /\ oy = (s - from) \div t.out_w /\ ox = (s - from) % t.out_w
<1> DEFINE C == OutC2
           W == t.out_w
           q == n \div C
           r == n % C
           e == oy * W + ox
           s == from + e
           w == OutWord(t, n, oy, ox)
<1>1. /\ D \in Nat /\ t.kernels = D * C /\ C \in Nat \ {0} /\ P \in Nat \ {0}
      /\ t.dst_surf_stride = P /\ from \in Nat /\ t.dst_base \div OutElem = from * C
      /\ t.out_h \in Nat /\ W \in Nat \ {0} /\ from + t.out_h * W <= P
  BY DEF SurfaceTask
<1>2. n \in Nat /\ n < D * C
  BY <1>1
<1>3. q \in 0 .. D - 1 /\ r \in 0 .. C - 1 /\ n = q * C + r
  <2> HIDE DEF C
  <2>1. QED BY <1>1, <1>2, DigitBelow, DivMod
<1>4. e \in 0 .. t.out_h * W - 1 /\ t.out_h * W \in Nat
  <2> HIDE DEF W
  <2>1. QED BY <1>1, TwoDigits DEF W
<1>5. e \div W = oy /\ e % W = ox
  <2>1. oy \in Nat /\ ox \in 0 .. W - 1
    BY <1>1
  <2> HIDE DEF W
  <2>2. QED BY <1>1, <2>1, Digits
<1>6. w = from * C + q * P * C + e * C + r
  BY <1>1 DEF OutWord
<1> HIDE DEF C, W, q, r, e, w
<1>7. s \in 0 .. P - 1 /\ s \in from .. from + t.out_h * W - 1 /\ s - from = e
  BY <1>1, <1>4
<1> DEFINE x == q * P + s
<1>8. w = x * C + r
  <2>1. from * C + q * P * C + e * C = x * C
    BY <1>1, <1>3, <1>4
  <2>2. QED BY <1>6, <2>1
<1> HIDE DEF s
<1>9. x \in 0 .. D * P - 1 /\ x \in Nat /\ D * P \in Nat
  BY <1>1, <1>3, <1>7, TwoDigits
<1>10. x \div P = q /\ x % P = s
  <2>1. q \in Nat /\ P \in Nat \ {0}
    BY <1>1, <1>3
  <2>2. QED BY <1>7, <2>1, Digits
<1> HIDE DEF x
<1>11. w \div C = x /\ w % C = r
  <2>1. C \in Nat \ {0} /\ r \in 0 .. C - 1
    BY <1>1, <1>3
  <2>2. (x * C + r) \div C = x /\ (x * C + r) % C = r
    BY <1>9, <2>1, Digits
  <2>3. QED BY <1>8, <2>2
<1>12. w \in 0 .. (D * P) * C - 1
  BY <1>1, <1>3, <1>8, <1>9, TwoDigits
<1>13. s = from + oy * W + ox
  <2>1. oy \in Int /\ ox \in Int /\ W \in Nat
    BY <1>1
  <2>2. QED BY <1>1, <2>1 DEF s, e
<1>14. (w \div C) % P = s /\ (w \div C) \div P = q
  BY <1>10, <1>11
<1>15. /\ n = ((w \div C) \div P) * C + (w % C)
       /\ oy = (s - from) \div W /\ ox = (s - from) % W
  BY <1>3, <1>5, <1>7, <1>11, <1>14
<1>16. QED BY <1>7, <1>12, <1>13, <1>14, <1>15 DEF w, C, W

LEMMA CellOfWord ==
  ASSUME NEW t, NEW D, NEW P, NEW from, SurfaceTask(t, D, P, from),
         NEW w \in 0 .. (D * P) * OutC2 - 1,
         (w \div OutC2) % P \in from .. from + t.out_h * t.out_w - 1
  PROVE  w \in WordsOf(t)
<1> DEFINE C == OutC2
           W == t.out_w
           x == w \div C
           r == w % C
           q == x \div P
           s == x % P
           e == s - from
           oy == e \div W
           ox == e % W
           n == q * C + r
<1>1. /\ D \in Nat /\ t.kernels = D * C /\ C \in Nat \ {0} /\ P \in Nat \ {0}
      /\ t.dst_surf_stride = P /\ from \in Nat /\ t.dst_base \div OutElem = from * C
      /\ t.out_h \in Nat /\ W \in Nat \ {0} /\ from + t.out_h * W <= P
  BY DEF SurfaceTask
<1>2. s \in from .. from + t.out_h * W - 1
  OBVIOUS
<1>3. D * P \in Nat /\ t.out_h * W \in Nat
  BY <1>1
<1>4. w \in Nat /\ w < (D * P) * C
  <2> HIDE DEF C
  <2>1. (D * P) * C \in Nat
    BY <1>1, <1>3
  <2>2. w \in 0 .. (D * P) * C - 1
    BY DEF C
  <2>3. QED BY <2>1, <2>2
<1> HIDE DEF C, W, x, r, q, s, oy, ox, n, e
<1>5. x \in 0 .. D * P - 1 /\ r \in 0 .. C - 1 /\ w = x * C + r
  BY <1>1, <1>3, <1>4, DigitBelow, DivMod DEF x, r
<1>6. q \in 0 .. D - 1 /\ s \in 0 .. P - 1 /\ x = q * P + s
  <2>1. x \in Nat /\ x < D * P
    BY <1>3, <1>5
  <2>2. QED BY <1>1, <2>1, DigitBelow, DivMod DEF q, s
<1>7. e \in Nat /\ e < t.out_h * W /\ s = from + e
  BY <1>1, <1>2, <1>3, <1>6 DEF e
<1>8. oy \in 0 .. t.out_h - 1 /\ ox \in 0 .. W - 1 /\ e = oy * W + ox
  BY <1>1, <1>7, DigitBelow, DivMod DEF oy, ox
<1>9. n \in 0 .. D * C - 1
  BY <1>1, <1>5, <1>6, TwoDigits DEF n
<1>10. n \div C = q /\ n % C = r
  <2>1. q \in Nat /\ C \in Nat \ {0} /\ r \in 0 .. C - 1
    BY <1>1, <1>5, <1>6
  <2>2. (q * C + r) \div C = q /\ (q * C + r) % C = r
    BY <2>1, Digits
  <2>3. QED BY <2>2 DEF n
<1>11. OutWord(t, n, oy, ox) = from * C + q * P * C + e * C + r
  BY <1>1, <1>8, <1>10 DEF OutWord, C, W
<1>12. w = from * C + q * P * C + e * C + r
  <2>1. w = (q * P + (from + e)) * C + r
    BY <1>5, <1>6, <1>7
  <2>2. (q * P + (from + e)) * C = from * C + q * P * C + e * C
    BY <1>1, <1>6, <1>7
  <2>3. QED BY <2>1, <2>2
<1>13. <<n, oy, ox>> \in Cells(t)
  <2>1. n \in 0 .. t.kernels - 1
    BY <1>1, <1>9
  <2>2. QED BY <1>8, <2>1 DEF Cells, W
<1> DEFINE c == <<n, oy, ox>>
<1>14. w = OutWord(t, c[1], c[2], c[3])
  BY <1>11, <1>12
<1> HIDE DEF c
<1>15. QED BY <1>13, <1>14 DEF WordsOf, c

LEMMA WordsOfSurface ==
  ASSUME NEW t, NEW D, NEW P, NEW from, SurfaceTask(t, D, P, from), NEW w
  PROVE  w \in WordsOf(t) <=>
           /\ w \in 0 .. (D * P) * OutC2 - 1
           /\ (w \div OutC2) % P \in from .. from + t.out_h * t.out_w - 1
<1>1. ASSUME w \in WordsOf(t)
      PROVE  /\ w \in 0 .. (D * P) * OutC2 - 1
             /\ (w \div OutC2) % P \in from .. from + t.out_h * t.out_w - 1
  <2>1. PICK c \in Cells(t) : w = OutWord(t, c[1], c[2], c[3])
    BY <1>1 DEF WordsOf
  <2>2. /\ c[1] \in 0 .. t.kernels - 1 /\ c[2] \in 0 .. t.out_h - 1
        /\ c[3] \in 0 .. t.out_w - 1
    BY DEF Cells
  <2>3. QED BY <2>1, <2>2, WordOfCell
<1>2. QED BY <1>1, CellOfWord

(* Each cell has a word of its own.                                        *)
LEMMA CellsCounted ==
  ASSUME NEW t, NEW D, NEW P, NEW from, SurfaceTask(t, D, P, from)
  PROVE  Cardinality(WordsOf(t)) = Cardinality(Cells(t))
<1> DEFINE f == [c \in Cells(t) |-> OutWord(t, c[1], c[2], c[3])]
<1>1. f \in [Cells(t) -> WordsOf(t)]
  BY DEF WordsOf
<1>2. \A w \in WordsOf(t) : \E c \in Cells(t) : f[c] = w
  BY DEF WordsOf
<1>3. ASSUME NEW a \in Cells(t), NEW b \in Cells(t), f[a] = f[b] PROVE a = b
  <2>1. /\ a[1] \in 0 .. t.kernels - 1 /\ a[2] \in 0 .. t.out_h - 1
        /\ a[3] \in 0 .. t.out_w - 1 /\ a = <<a[1], a[2], a[3]>>
        /\ b[1] \in 0 .. t.kernels - 1 /\ b[2] \in 0 .. t.out_h - 1
        /\ b[3] \in 0 .. t.out_w - 1 /\ b = <<b[1], b[2], b[3]>>
    BY DEF Cells
  <2>2. OutWord(t, a[1], a[2], a[3]) = OutWord(t, b[1], b[2], b[3])
    BY <1>3
  <2> DEFINE w == OutWord(t, a[1], a[2], a[3])
             v == OutWord(t, b[1], b[2], b[3])
             s == (w \div OutC2) % P
             s2 == (v \div OutC2) % P
  <2>3. /\ a[1] = ((w \div OutC2) \div P) * OutC2 + (w % OutC2)
        /\ a[2] = (s - from) \div t.out_w /\ a[3] = (s - from) % t.out_w
    BY <2>1, WordOfCell
  <2>4. /\ b[1] = ((v \div OutC2) \div P) * OutC2 + (v % OutC2)
        /\ b[2] = (s2 - from) \div t.out_w /\ b[3] = (s2 - from) % t.out_w
    BY <2>1, WordOfCell
  <2>5. w = v
    BY <2>2
  <2> HIDE DEF w, v
  <2>6. a[1] = b[1] /\ a[2] = b[2] /\ a[3] = b[3]
    BY <2>3, <2>4, <2>5
  <2>7. QED BY <2>1, <2>6
<1>4. IsFiniteSet(Cells(t))
  <2> DEFINE K == 0 .. t.kernels - 1
             Y == 0 .. t.out_h - 1
             X == 0 .. t.out_w - 1
             p == [c \in (K \X Y) \X X |-> <<c[1][1], c[1][2], c[2]>>]
  <2>1. t.kernels - 1 \in Int /\ t.out_h - 1 \in Int /\ t.out_w - 1 \in Int
    BY DEF SurfaceTask
  <2>2. IsFiniteSet(K) /\ IsFiniteSet(Y) /\ IsFiniteSet(X)
    BY <2>1, FS_Interval
  <2> HIDE DEF K, Y, X
  <2>3. IsFiniteSet((K \X Y) \X X)
    BY <2>2, FS_Product
  <2>4. p \in [(K \X Y) \X X -> K \X Y \X X]
    OBVIOUS
  <2>5. ASSUME NEW c \in K \X Y \X X PROVE \E d \in (K \X Y) \X X : p[d] = c
    <3>1. c[1] \in K /\ c[2] \in Y /\ c[3] \in X /\ c = <<c[1], c[2], c[3]>>
      OBVIOUS
    <3> DEFINE d == <<<<c[1], c[2]>>, c[3]>>
    <3>2. d \in (K \X Y) \X X
      BY <3>1
    <3>3. p[d] = <<d[1][1], d[1][2], d[2]>>
      BY <3>2
    <3>4. p[d] = c
      BY <3>1, <3>3
    <3> HIDE DEF d, p
    <3>5. QED BY <3>2, <3>4
  <2>6. p \in Surjection((K \X Y) \X X, K \X Y \X X)
    <3> HIDE DEF p
    <3>1. QED BY <2>4, <2>5, Fun_IsSurj
  <2>7. IsFiniteSet(K \X Y \X X)
    <3> HIDE DEF p
    <3>1. QED BY <2>3, <2>6, FS_Surjection
  <2>8. QED BY <2>7 DEF K, Y, X, Cells
<1> HIDE DEF f
<1>5. f \in Bijection(Cells(t), WordsOf(t))
  BY <1>1, <1>2, <1>3, Fun_IsBij
<1>6. ExistsBijection(Cells(t), WordsOf(t))
  BY <1>5 DEF ExistsBijection
<1>7. QED BY <1>4, <1>6, FS_Bijection

(* Writes(ts, size): each word of the output once.                         *)
WritesOnce(ts, size) ==
  /\ UNION {WordsOf(ts[i]) : i \in DOMAIN ts} = 0..size - 1
  /\ \A i \in DOMAIN ts : Cardinality(WordsOf(ts[i])) = Cardinality(Cells(ts[i]))
  /\ \A i, j \in DOMAIN ts : i # j => WordsOf(ts[i]) \cap WordsOf(ts[j]) = {}

LEMMA ConvSurface ==
  ASSUME NEW p, FitsTheEngine(p)
  PROVE  LET t == ConvTask(p)
             P == ConvOutH(p) * ConvOutW(p)
             D == p.out_c \div OutC2
         IN  /\ SurfaceTask(t, D, P, 0) /\ t.out_h * t.out_w = P
             /\ P \in Nat \ {0} /\ OutC2 \in Nat \ {0} /\ D \in Nat /\ p.out_c = D * OutC2
<1> DEFINE t == ConvTask(p)
           D == p.out_c \div OutC2
           P == ConvOutH(p) * ConvOutW(p)
           C == OutC2
<1>1. ConvFields(t, p)
  BY ConvTaskFields
<1> HIDE DEF t
<1>2. /\ t.kernels = p.out_c /\ t.out_h = ConvOutH(p) /\ t.out_w = ConvOutW(p)
      /\ t.dst_base = 0 /\ t.dst_surf_stride = P
  BY <1>1 DEF ConvFields
<1>3. /\ p.out_c \in Nat \ {0} /\ p.out_c % Group = 0
      /\ ConvOutH(p) \in Nat \ {0} /\ ConvOutW(p) \in Nat \ {0}
  BY ConvSizes DEF FitsTheEngine
<1>4. P \in Nat \ {0}
  BY <1>3, Positive
<1>5. C \in Nat \ {0} /\ D \in Nat /\ p.out_c = D * C
  <2>1. OutC2 \in Nat \ {0} /\ p.out_c % OutC2 = 0
    BY <1>3, GroupsAreAtoms
  <2>2. QED BY <1>3, <2>1, Whole
<1>6. t.dst_base \div OutElem = 0
  BY <1>2, HardwareSizes
<1> HIDE DEF D, C
<1>7. SurfaceTask(t, D, P, 0)
  <2>1. 0 * C = 0 /\ t.out_h * t.out_w = P /\ 0 + P <= P
    BY <1>2, <1>4, <1>5
  <2>2. QED BY <1>2, <1>3, <1>4, <1>5, <1>6, <2>1 DEF SurfaceTask, C
<1>8. t.out_h * t.out_w = P
  BY <1>2
<1>9. QED BY <1>4, <1>5, <1>7, <1>8 DEF t, D, P, C

LEMMA ConvWrites ==
  ASSUME NEW p, FitsTheEngine(p)
  PROVE  WritesOnce(<<ConvTask(p)>>, p.out_c * (ConvOutH(p) * ConvOutW(p)))
<1> DEFINE t == ConvTask(p)
           D == p.out_c \div OutC2
           P == ConvOutH(p) * ConvOutW(p)
           C == OutC2
           size == p.out_c * P
<1>1. /\ SurfaceTask(t, D, P, 0) /\ t.out_h * t.out_w = P
      /\ P \in Nat \ {0} /\ C \in Nat \ {0} /\ D \in Nat /\ p.out_c = D * C
  BY ConvSurface
<1> HIDE DEF t, D, C, P, size
<1>2. size = (D * P) * C
  BY <1>1 DEF size
<1>3. WordsOf(t) = 0 .. size - 1
  <2>1. ASSUME NEW w \in 0 .. size - 1
        PROVE  (w \div C) % P \in 0 .. 0 + P - 1
    <3>1. w \in Nat
      BY <1>1, <1>2
    <3>2. w \div C \in Nat
      BY <1>1, <3>1, DivMod
    <3>3. (w \div C) % P \in 0 .. P - 1
      BY <1>1, <3>2, DivMod
    <3>4. QED BY <1>1, <3>3
  <2>2. ASSUME NEW w PROVE w \in WordsOf(t) <=> w \in 0 .. size - 1
    <3>1. w \in WordsOf(t) <=> /\ w \in 0 .. (D * P) * C - 1
                               /\ (w \div C) % P \in 0 .. 0 + t.out_h * t.out_w - 1
      BY <1>1, WordsOfSurface DEF C
    <3>2. QED BY <1>1, <1>2, <2>1, <3>1
  <2>3. QED BY <2>2
<1>4. Cardinality(WordsOf(t)) = Cardinality(Cells(t))
  BY <1>1, CellsCounted
<1>5. WritesOnce(<<t>>, size)
  <2>1. DOMAIN <<t>> = {1} /\ <<t>>[1] = t
    OBVIOUS
  <2>2. QED BY <1>3, <1>4, <2>1 DEF WritesOnce
<1>6. QED BY <1>5 DEF t, size, P

LEMMA TileSurface ==
  ASSUME NEW m \in Nat \ {0}, NEW k, NEW n \in Nat, n % Group = 0,
         NEW from \in Nat, NEW rows \in Nat, from + rows <= m,
         NEW t, TileFields(t, m, k, n, from, rows)
  PROVE  SurfaceTask(t, n \div OutC2, m, from) /\ n = (n \div OutC2) * OutC2
         /\ t.out_h * t.out_w = rows
<1>1. /\ t.kernels = n /\ t.out_h = rows /\ t.out_w = 1 /\ t.dst_base = from * Atom
      /\ t.dst_surf_stride = m
  BY DEF TileFields
<1>2. n % OutC2 = 0 /\ OutC2 \in Nat \ {0} /\ Atom = OutC2 * OutElem /\ OutElem \in Nat \ {0}
  BY GroupsAreAtoms, HardwareSizes
<1>3. n \div OutC2 \in Nat /\ n = (n \div OutC2) * OutC2
  BY <1>2, Whole
<1>4. (from * Atom) \div OutElem = from * OutC2
  <2> DEFINE a == from * OutC2
  <2>1. a \in Nat /\ from * Atom = a * OutElem
    BY <1>2
  <2> HIDE DEF a
  <2>2. QED BY <1>2, <2>1, Multiple DEF a
<1>5. t.out_h * t.out_w = rows /\ t.dst_base \div OutElem = from * OutC2
  BY <1>1, <1>4
<1>6. QED BY <1>1, <1>2, <1>3, <1>5 DEF SurfaceTask

(* Two tiles have no position in common.                                   *)
LEMMA TilesApart ==
  ASSUME NEW m \in Nat \ {0}, NEW M \in Nat \ {0},
         NEW i \in 1 .. CeilDiv(m, M), NEW j \in 1 .. CeilDiv(m, M), i < j,
         NEW s \in (i - 1) * M .. (i - 1) * M + TileRows(m, M, i) - 1
  PROVE  s \notin (j - 1) * M .. (j - 1) * M + TileRows(m, M, j) - 1
<1>1. CeilDiv(m, M) \in Nat
  BY CeilFacts
<1>2. /\ TileRows(m, M, i) \in 1 .. M /\ TileRows(m, M, j) \in 1 .. M
      /\ (i - 1) * M \in Nat /\ (j - 1) * M \in Nat
  BY TileRowsFacts
<1>3. (i - 1) * M + M <= (j - 1) * M
  <2>1. i - 1 \in Int /\ j - 1 \in Int /\ i - 1 < j - 1
    BY <1>1
  <2>2. QED BY <2>1, GrowsMore
<1> DEFINE a == (i - 1) * M
           b == (j - 1) * M
           ra == TileRows(m, M, i)
           rb == TileRows(m, M, j)
<1>4. s \in a .. a + ra - 1 /\ a \in Nat /\ b \in Nat /\ ra \in 1 .. M /\ rb \in 1 .. M
      /\ a + M <= b
  BY <1>2, <1>3
<1> HIDE DEF a, b, ra, rb
<1>5. s \notin b .. b + rb - 1
  BY <1>4
<1>6. QED BY <1>5 DEF b, rb

LEMMA TilesWrite ==
  ASSUME NEW ts, NEW m, NEW k, NEW n, NEW M, Tileable(m, k, n, M), Tiled(ts, m, k, n, M)
  PROVE  WritesOnce(ts, n * m)
<1> DEFINE T == CeilDiv(m, M)
           D == n \div OutC2
           C == OutC2
           from(i) == (i - 1) * M
           rows(i) == TileRows(m, M, i)
           Part(i) == from(i) .. from(i) + rows(i) - 1
<1>1. m \in Nat \ {0} /\ M \in Nat \ {0} /\ n \in Nat /\ n % Group = 0
  <2>1. M \in 1 .. TileCap /\ TileCap \in Nat
    BY TileableFacts, HardwareSizes
  <2>2. QED BY <2>1, TileableFacts
<1>2. T \in Nat /\ DOMAIN ts = 1 .. T
  BY <1>1, CeilFacts DEF Tiled
<1>3. ASSUME NEW i \in 1 .. T
      PROVE  /\ SurfaceTask(ts[i], D, m, from(i)) /\ ts[i].out_h * ts[i].out_w = rows(i)
             /\ n = D * C
  <2>1. i \in DOMAIN ts
    BY <1>2
  <2>2. /\ rows(i) \in 1 .. M /\ from(i) \in Nat /\ from(i) + rows(i) <= m
        /\ TileFields(ts[i], m, k, n, from(i), rows(i))
    BY <2>1, TaskOfTiling
  <2> DEFINE f == from(i)
             r == rows(i)
  <2>3. r \in 1 .. M /\ f \in Nat /\ f + r <= m /\ TileFields(ts[i], m, k, n, f, r)
    BY <2>2
  <2> HIDE DEF f, r
  <2>4. r \in Nat
    BY <1>1, <2>3
  <2>5. SurfaceTask(ts[i], D, m, f) /\ ts[i].out_h * ts[i].out_w = r /\ n = D * C
    BY <1>1, <2>3, <2>4, TileSurface
  <2>6. QED BY <2>5 DEF f, r
<1>4. C \in Nat \ {0} /\ n = D * C /\ D \in Nat
  <2>1. OutC2 \in Nat \ {0} /\ n % OutC2 = 0
    BY <1>1, GroupsAreAtoms
  <2>2. QED BY <1>1, <2>1, Whole
<1> HIDE DEF T, D, C
<1>5. n * m = (D * m) * C /\ n * m \in Nat
  BY <1>1, <1>4
<1>6. ASSUME NEW i \in 1 .. T, NEW w
      PROVE  w \in WordsOf(ts[i]) <=> w \in 0 .. n * m - 1 /\ (w \div C) % m \in Part(i)
  <2>1. SurfaceTask(ts[i], D, m, from(i)) /\ ts[i].out_h * ts[i].out_w = rows(i)
    BY <1>3
  <2> DEFINE f == from(i)
             r == rows(i)
  <2>2. SurfaceTask(ts[i], D, m, f) /\ ts[i].out_h * ts[i].out_w = r
    BY <2>1
  <2> HIDE DEF f, r
  <2>3. w \in WordsOf(ts[i]) <=>
           /\ w \in 0 .. (D * m) * C - 1
           /\ (w \div C) % m \in f .. f + ts[i].out_h * ts[i].out_w - 1
    BY <2>2, WordsOfSurface DEF C
  <2>4. w \in WordsOf(ts[i]) <=> w \in 0 .. n * m - 1 /\ (w \div C) % m \in f .. f + r - 1
    BY <1>5, <2>2, <2>3
  <2>5. QED BY <2>4 DEF f, r
<1> HIDE DEF from, rows, Part
<1>7. UNION {WordsOf(ts[i]) : i \in DOMAIN ts} = 0 .. n * m - 1
  <2>1. ASSUME NEW w \in 0 .. n * m - 1
        PROVE  \E i \in 1 .. T : w \in WordsOf(ts[i])
    <3> DEFINE s == (w \div C) % m
    <3>1. w \in Nat
      BY <1>5
    <3>2. w \div C \in Nat
      BY <1>4, <3>1, DivMod
    <3>3. s \in 0 .. m - 1
      BY <1>1, <3>2, DivMod
    <3> HIDE DEF s
    <3>4. PICK i \in 1 .. T, y \in Nat : y < TileRows(m, M, i) /\ s = (i - 1) * M + y
      <4>1. InATile(m, M, s)
        BY <1>1, <3>3, RowInTile
      <4>2. QED BY <4>1 DEF T, InATile
    <3>5. TileRows(m, M, i) \in 1 .. M /\ (i - 1) * M \in Nat
      BY <1>1, TileRowsFacts DEF T
    <3>6. s \in Part(i)
      <4> DEFINE a == (i - 1) * M
                 b == TileRows(m, M, i)
      <4>1. a \in Nat /\ b \in 1 .. M /\ y < b /\ s = a + y
        BY <3>4, <3>5
      <4> HIDE DEF a, b
      <4>2. s \in a .. a + b - 1
        BY <1>1, <4>1
      <4>3. QED BY <4>2 DEF Part, from, rows, a, b
    <3>7. w \in WordsOf(ts[i])
      BY <1>6, <3>6 DEF s
    <3>8. QED BY <3>7
  <2>2. ASSUME NEW w, NEW i \in 1 .. T, w \in WordsOf(ts[i]) PROVE w \in 0 .. n * m - 1
    BY <1>6, <2>2
  <2>3. QED BY <1>2, <2>1, <2>2
<1>8. ASSUME NEW i \in 1 .. T
      PROVE  Cardinality(WordsOf(ts[i])) = Cardinality(Cells(ts[i]))
  BY <1>3, CellsCounted
<1>9. ASSUME NEW i \in 1 .. T, NEW j \in 1 .. T, i < j, NEW w,
             w \in WordsOf(ts[i]), w \in WordsOf(ts[j])
      PROVE  FALSE
  <2> DEFINE s == (w \div C) % m
  <2>1. s \in Part(i) /\ s \in Part(j)
    BY <1>6, <1>9
  <2> HIDE DEF s
  <2>2. QED BY <1>1, <1>9, <2>1, TilesApart DEF Part, from, rows, T
<1>10. ASSUME NEW i \in 1 .. T, NEW j \in 1 .. T, i # j
       PROVE  WordsOf(ts[i]) \cap WordsOf(ts[j]) = {}
  <2>1. i < j \/ j < i
    BY <1>2, <1>10
  <2>2. QED BY <1>9, <2>1
<1>11. QED BY <1>2, <1>7, <1>8, <1>10 DEF WritesOnce

LEMMA TasksWriteOnce ==
  ASSUME NpuInv, phase = "submit"
  PROVE  WritesOnce(tasks, OutSize)
<1>1. AtOperator /\ Accepted(Generator) /\ tasks = Generator.tasks
  BY DEF NpuInv, TasksAreGenerated
<1>2. WellFormed(op)
  BY <1>1, OperatorIsWellFormed
<1>3. CASE op.kind = "yolo"
  <2>1. PICK M : /\ Tileable(Rows(op), PaddedK(op), PaddedN(op), M)
                 /\ Tiled(tasks, Rows(op), PaddedK(op), PaddedN(op), M)
    BY <1>1, <1>3, GeneratedTasks
  <2>2. Rows(op) \in Nat
    BY <1>1, <1>3, RowsOfBlock
  <2>3. OutSize = PaddedN(op) * Rows(op)
    BY <1>2, <1>3, <2>2, YoloBufferSizes
  <2>4. QED BY <2>1, <2>3, TilesWrite
<1>4. CASE op.kind # "yolo"
  <2>1. SingleKinds(op)
    BY <1>2, <1>4 DEF WellFormed, SingleKinds, Singles
  <2>2. /\ ~NotLowered(op) /\ tasks = <<ConvTask(Lowering(op))>>
        /\ FitsTheEngine(Lowering(op))
    BY <1>1, <2>1, GeneratedTasks
  <2> DEFINE q == Lowering(op)
  <2>3. OutSize = q.out_c * (ConvOutH(q) * ConvOutW(q))
    BY <1>2, <2>1, <2>2, SingleSizes
  <2>4. FitsTheEngine(q) /\ tasks = <<ConvTask(q)>>
    BY <2>2
  <2> HIDE DEF q
  <2>5. QED BY <2>3, <2>4, ConvWrites
<1>5. QED BY <1>3, <1>4

(* Whatever is run, over whatever blocks and tiles: the tasks together     *)
(* write each word of the output once and none outside it, so what is read *)
(* back was written by them, though yolo_conv_npu clears nothing           *)
(* (dst_surf_stride and the address shifts of gen_matmul_int8_tiled).      *)
THEOREM OutputIsPartitioned == WorkloadSpec => []TilesPartitionTheOutput
<1>1. NpuInv => TilesPartitionTheOutput
  BY TasksWriteOnce DEF NpuInv, TilesPartitionTheOutput, WritesOnce, WordsOf
<1>2. QED BY <1>1, NpuInvStep, PTL DEF WorkloadSpec

-----------------------------------------------------------------------------
(* Moved tensors.  An element of a flat tensor stands at one address.      *)

LEMMA InGrid ==
  ASSUME NEW c \in Nat, NEW h \in Nat, NEW w \in Nat, NEW e \in Grid(c, h, w)
  PROVE  /\ e = <<e[1], e[2], e[3]>>
         /\ e[1] \in 0 .. c - 1 /\ e[2] \in 0 .. h - 1 /\ e[3] \in 0 .. w - 1
         /\ e[1] \in Nat /\ e[2] \in Nat /\ e[3] \in Nat
         /\ c \in Nat \ {0} /\ h \in Nat \ {0} /\ w \in Nat \ {0}
<1>1. /\ e = <<e[1], e[2], e[3]>>
      /\ e[1] \in 0 .. c - 1 /\ e[2] \in 0 .. h - 1 /\ e[3] \in 0 .. w - 1
  BY DEF Grid
<1>2. QED BY <1>1

LEMMA FlatRows ==
  ASSUME NEW x \in Nat, NEW y \in Nat, NEW z \in Nat, NEW h \in Nat, NEW w \in Nat
  PROVE  x * h * w + y * w + z = (x * h + y) * w + z /\ x * h + y \in Nat
OBVIOUS

LEMMA FlatOne ==
  ASSUME NEW c \in Nat, NEW h \in Nat, NEW w \in Nat, NEW e \in Grid(c, h, w)
  PROVE  /\ Flat(e, h, w) \in 0 .. c * h * w - 1
         /\ \A f \in Grid(c, h, w) : Flat(f, h, w) = Flat(e, h, w) => f = e
<1>1. ASSUME NEW f \in Grid(c, h, w)
      PROVE  /\ Flat(f, h, w) = (f[1] * h + f[2]) * w + f[3]
             /\ f[1] * h + f[2] \in 0 .. c * h - 1 /\ f[1] * h + f[2] \in Nat
             /\ Flat(f, h, w) \in 0 .. c * h * w - 1
  <2> DEFINE x == f[1]
             y == f[2]
             z == f[3]
             r == x * h + y
             n == c * h
  <2>1. /\ x \in 0 .. c - 1 /\ y \in 0 .. h - 1 /\ z \in 0 .. w - 1
        /\ x \in Nat /\ y \in Nat /\ z \in Nat
        /\ c \in Nat \ {0} /\ h \in Nat \ {0} /\ w \in Nat \ {0}
    BY InGrid
  <2>2. Flat(f, h, w) = x * h * w + y * w + z
    BY DEF Flat
  <2> HIDE DEF x, y, z
  <2>3. x * h * w + y * w + z = r * w + z /\ r \in Nat
    BY <2>1, FlatRows
  <2>4. r \in 0 .. n - 1 /\ n \in Nat
    BY <2>1, InRows, Product
  <2> HIDE DEF r, n
  <2>5. r * w + z \in 0 .. n * w - 1
    BY <2>1, <2>4, InRows
  <2>6. QED BY <2>2, <2>3, <2>4, <2>5 DEF x, y, z, r, n
<1>2. ASSUME NEW f \in Grid(c, h, w), Flat(f, h, w) = Flat(e, h, w) PROVE f = e
  <2> DEFINE r == f[1] * h + f[2]
             s == e[1] * h + e[2]
             x == f[3]
             y == e[3]
  <2>1. w \in Nat \ {0} /\ x \in 0 .. w - 1 /\ y \in 0 .. w - 1
    BY InGrid
  <2>2. r \in Nat /\ s \in Nat /\ r * w + x = s * w + y
    BY <1>1, <1>2
  <2> HIDE DEF r, s, x, y
  <2>3. r = s /\ x = y
    BY <2>1, <2>2, OneRow
  <2> DEFINE a == f[1]
             b == e[1]
             u == f[2]
             v == e[2]
  <2>4. /\ h \in Nat \ {0} /\ a \in Nat /\ b \in Nat /\ u \in 0 .. h - 1 /\ v \in 0 .. h - 1
        /\ f = <<a, u, f[3]>> /\ e = <<b, v, e[3]>>
    BY InGrid
  <2>5. a * h + u = b * h + v
    BY <2>3 DEF r, s
  <2> HIDE DEF a, b, u, v
  <2>6. a = b /\ u = v
    BY <2>4, <2>5, OneRow
  <2>7. QED BY <2>3, <2>4, <2>6 DEF x, y
<1>3. QED BY <1>1, <1>2

LEMMA PoolExact ==
  ASSUME NEW o, o.kernel = "maxpool", WellFormedCall(o)
  PROVE  Promised(o, Run(o))
<1> DEFINE c == o.c
           h == o.h
           w == o.w
           G == Grid(c, h, w)
           N == c * h * w
           taps(e) == {x \in (0 .. 4) \X (0 .. 4) : /\ e[2] - 2 + x[1] \in 0 .. h - 1
                                                    /\ e[3] - 2 + x[2] \in 0 .. w - 1}
           around(e) == {(e[2] - 2 + k[1]) * w + (e[3] - 2 + k[2]) : k \in taps(e)}
           seen(e) == {o.x[e[1] * h * w + i + 1] : i \in around(e)}
           most(e) == Max({-128} \cup seen(e))
           near(e) == {f \in G : /\ f[1] = e[1]
                                 /\ Magnitude(f[2] - e[2]) <= 2
                                 /\ Magnitude(f[3] - e[3]) <= 2}
           there(e) == {o.x[Flat(f, h, w) + 1] : f \in near(e)}
           got == Run(o)
<1>1. /\ c \in Nat /\ h \in Nat /\ w \in Nat /\ o.x \in [1 .. N -> Int8]
      /\ got = yolo_maxpool(o)
  BY DEF WellFormedCall, Run
<1>2. got = [a \in 0 .. N - 1 |-> {most(e) : e \in {x \in G : Flat(x, h, w) = a}}]
  BY <1>1, Zenon DEF yolo_maxpool, Stores
<1>3. SUFFICES ASSUME NEW e \in G PROVE got[Flat(e, h, w)] = {Max(there(e))}
  BY <1>1, Zenon DEF Promised
<1> HIDE DEF got
<1>4. Flat(e, h, w) \in 0 .. N - 1 /\ \A f \in G : Flat(f, h, w) = Flat(e, h, w) => f = e
  BY <1>1, FlatOne
<1>5. got[Flat(e, h, w)] = {most(e)}
  <2> DEFINE T == {x \in G : Flat(x, h, w) = Flat(e, h, w)}
  <2>1. T = {e}
    BY <1>4
  <2> HIDE DEF G, most
  <2>2. got[Flat(e, h, w)] = {most(f) : f \in T}
    BY <1>2, <1>4
  <2> HIDE DEF T
  <2>3. QED BY <2>1, <2>2
<1>6. ASSUME NEW f \in G
      PROVE  /\ f = <<f[1], f[2], f[3]>>
             /\ f[1] \in Nat /\ f[2] \in 0 .. h - 1 /\ f[3] \in 0 .. w - 1
             /\ Flat(f, h, w) \in 0 .. N - 1
  BY <1>1, InGrid, FlatOne
<1>7. ASSUME NEW f \in G, f[1] = e[1]
      PROVE  Flat(f, h, w) = e[1] * h * w + (f[2] * w + f[3])
  <2> DEFINE p == e[1] * h * w
             q == f[2] * w
             z == f[3]
  <2>1. Flat(f, h, w) = p + q + z
    BY <1>7 DEF Flat
  <2>2. p \in Int /\ q \in Int /\ z \in Int
    <3> DEFINE a == e[1]
               b == f[2]
               H == h
               W == w
    <3>1. a \in Int /\ b \in Int /\ z \in Int /\ H \in Int /\ W \in Int
      BY <1>1, <1>6
    <3> HIDE DEF a, b, H, W
    <3>2. a * H * W \in Int /\ b * W \in Int
      BY <3>1
    <3>3. QED BY <3>1, <3>2 DEF a, b, H, W
  <2> HIDE DEF p, q, z
  <2>3. p + q + z = p + (q + z)
    BY <2>2
  <2>4. QED BY <2>1, <2>3 DEF p, q, z
<1>8. ASSUME NEW k \in taps(e)
      PROVE  LET f == <<e[1], e[2] - 2 + k[1], e[3] - 2 + k[2]>> IN f \in near(e)
  <2> DEFINE y == e[2] - 2 + k[1]
             z == e[3] - 2 + k[2]
             f == <<e[1], y, z>>
  <2>1. /\ k[1] \in 0 .. 4 /\ k[2] \in 0 .. 4 /\ y \in 0 .. h - 1 /\ z \in 0 .. w - 1
        /\ e[2] \in Int /\ e[3] \in Int
    BY <1>6
  <2>2. Magnitude(y - e[2]) <= 2 /\ Magnitude(z - e[3]) <= 2
    BY <2>1 DEF Magnitude
  <2> HIDE DEF y, z
  <2>3. e[1] \in 0 .. c - 1
    BY <1>1, InGrid
  <2>4. f \in G /\ f[1] = e[1] /\ f[2] = y /\ f[3] = z
    BY <2>1, <2>3 DEF Grid
  <2>5. f \in near(e)
    <3> HIDE DEF f, G
    <3>1. QED BY <2>2, <2>4
  <2>6. QED BY <2>5 DEF y, z
<1>9. ASSUME NEW f \in near(e)
      PROVE  LET k == <<f[2] - e[2] + 2, f[3] - e[3] + 2>>
             IN  k \in taps(e) /\ e[2] - 2 + k[1] = f[2] /\ e[3] - 2 + k[2] = f[3]
  <2> DEFINE y == f[2] - e[2] + 2
             z == f[3] - e[3] + 2
             k == <<y, z>>
  <2>1. /\ f[2] \in 0 .. h - 1 /\ f[3] \in 0 .. w - 1 /\ e[2] \in 0 .. h - 1 /\ e[3] \in 0 .. w - 1
        /\ f[2] \in Int /\ f[3] \in Int /\ e[2] \in Int /\ e[3] \in Int
        /\ Magnitude(f[2] - e[2]) <= 2 /\ Magnitude(f[3] - e[3]) <= 2
    BY <1>1, <1>6
  <2>2. y \in 0 .. 4 /\ z \in 0 .. 4 /\ e[2] - 2 + y = f[2] /\ e[3] - 2 + z = f[3]
    BY <2>1 DEF Magnitude
  <2> HIDE DEF y, z
  <2>3. k \in (0 .. 4) \X (0 .. 4) /\ k[1] = y /\ k[2] = z
    BY <2>2
  <2>4. k \in taps(e)
    <3> HIDE DEF k
    <3>1. QED BY <2>1, <2>2, <2>3
  <2>5. QED BY <2>2, <2>3, <2>4 DEF y, z
<1>10. seen(e) = there(e)
  <2>1. ASSUME NEW k \in taps(e)
        PROVE  o.x[e[1] * h * w + ((e[2] - 2 + k[1]) * w + (e[3] - 2 + k[2])) + 1] \in there(e)
    <3> DEFINE y == e[2] - 2 + k[1]
               z == e[3] - 2 + k[2]
               f == <<e[1], y, z>>
    <3>1. f \in near(e) /\ f[1] = e[1] /\ f[2] = y /\ f[3] = z
      BY <1>8
    <3> HIDE DEF f, y, z
    <3>2. f \in G
      BY <3>1
    <3>3. Flat(f, h, w) = e[1] * h * w + (f[2] * w + f[3])
      BY <1>7, <3>1, <3>2
    <3>4. o.x[Flat(f, h, w) + 1] \in there(e)
      BY <3>1
    <3>5. QED BY <3>1, <3>3, <3>4, Zenon DEF y, z
  <2>2. ASSUME NEW f \in near(e) PROVE o.x[Flat(f, h, w) + 1] \in seen(e)
    <3> DEFINE k == <<f[2] - e[2] + 2, f[3] - e[3] + 2>>
    <3>1. k \in taps(e) /\ e[2] - 2 + k[1] = f[2] /\ e[3] - 2 + k[2] = f[3]
      BY <1>9
    <3> HIDE DEF k, taps
    <3>2. f[2] * w + f[3] \in around(e)
      BY <3>1, Zenon
    <3>3. Flat(f, h, w) = e[1] * h * w + (f[2] * w + f[3])
      BY <1>7
    <3> HIDE DEF around
    <3>4. o.x[e[1] * h * w + (f[2] * w + f[3]) + 1] \in seen(e)
      BY <3>2, Zenon
    <3>5. QED BY <3>3, <3>4, Zenon
  <2>3. seen(e) \subseteq there(e)
    <3> HIDE DEF taps, there
    <3>1. QED BY <2>1, Zenon
  <2>4. there(e) \subseteq seen(e)
    <3> HIDE DEF near, seen
    <3>1. QED BY <2>2, Zenon
  <2> HIDE DEF seen, there
  <2>5. QED BY <2>3, <2>4
<1>11. there(e) # {} /\ there(e) \subseteq Int8
  <2>1. e \in near(e)
    <3>1. e[2] \in Int /\ e[3] \in Int
      BY <1>6
    <3>2. Magnitude(e[2] - e[2]) <= 2 /\ Magnitude(e[3] - e[3]) <= 2
      BY <3>1 DEF Magnitude
    <3>3. QED BY <3>2
  <2>2. ASSUME NEW f \in near(e) PROVE o.x[Flat(f, h, w) + 1] \in Int8
    <3> DEFINE a == Flat(f, h, w)
    <3>1. a \in 0 .. N - 1
      BY <1>6
    <3>2. N \in Nat
      BY <1>1, Product
    <3> HIDE DEF a, N
    <3>3. a + 1 \in 1 .. N
      BY <3>1, <3>2
    <3>4. QED BY <1>1, <3>3 DEF a
  <2> HIDE DEF near
  <2>3. QED BY <2>1, <2>2
<1> HIDE DEF there, seen
<1>12. most(e) = Max(there(e))
  <2> DEFINE T == there(e)
             U == {-128} \cup T
             b == -128
             t == 127
  <2>1. T \subseteq Int /\ T # {} /\ \A v \in T : b <= v /\ v <= t
    BY <1>11, InInt8
  <2>2. U \subseteq Int /\ U # {} /\ b \in U /\ T \subseteq U /\ b \in Int /\ t \in Int /\ b <= t
        /\ \A v \in U : v = b \/ v \in T
    BY <2>1
  <2>3. most(e) = Max(U)
    BY <1>10
  <2> HIDE DEF T, U, b, t, most
  <2>4. Max(T) \in T /\ \A v \in T : v <= Max(T)
    BY <2>1, <2>2, GreatestOf
  <2>5. \A v \in U : v <= t
    BY <2>1, <2>2
  <2>6. Max(U) \in U /\ \A v \in U : v <= Max(U)
    BY <2>2, <2>5, GreatestOf
  <2>7. Max(U) <= Max(T) /\ Max(T) <= Max(U)
    BY <2>1, <2>2, <2>4, <2>6
  <2>8. Max(T) \in Int /\ Max(U) \in Int
    BY <2>2, <2>4, <2>6
  <2> DEFINE p == Max(T)
             q == Max(U)
  <2>9. p = q
    <3>1. p <= q /\ q <= p /\ p \in Int /\ q \in Int
      BY <2>7, <2>8
    <3> HIDE DEF p, q
    <3>2. QED BY <3>1
  <2>10. QED BY <2>3, <2>9 DEF T
<1>13. QED BY <1>5, <1>12

\* The element of the doubled grid a copy of e[1] goes to.
Fine(e) == <<e[1][1], 2 * e[1][2] + e[2][1], 2 * e[1][3] + e[2][2]>>

LEMMA Halves ==
  ASSUME NEW n \in Nat, NEW a \in 0 .. n - 1, NEW b \in {0, 1}
  PROVE  /\ 2 * a + b \in 0 .. 2 * n - 1
         /\ (2 * a + b) \div 2 = a /\ (2 * a + b) % 2 = b
OBVIOUS

LEMMA Halved ==
  ASSUME NEW n \in Nat, NEW x \in 0 .. 2 * n - 1
  PROVE  x \div 2 \in 0 .. n - 1 /\ x % 2 \in {0, 1} /\ 2 * (x \div 2) + (x % 2) = x
OBVIOUS

LEMMA UpsampleExact ==
  ASSUME NEW o, o.kernel = "upsample", WellFormedCall(o)
  PROVE  Promised(o, Run(o))
<1> DEFINE c == o.c
           h == o.h
           w == o.w
           OH == 2 * h
           OW == 2 * w
           G == Grid(c, h, w)
           S == G \X ({0, 1} \X {0, 1})
           N == c * OH * OW
           dst(e) == e[1][1] * OH * OW + (2 * e[1][2] + e[2][1]) * OW + 2 * e[1][3] + e[2][2]
           val(e) == o.x[Flat(e[1], h, w) + 1]
           back(g) == <<g[1], g[2] \div 2, g[3] \div 2>>
           got == Run(o)
<1>1. c \in Nat /\ h \in Nat /\ w \in Nat /\ got = yolo_upsample(o)
  BY DEF WellFormedCall, Run
<1>2. OH \in Nat /\ OW \in Nat
  BY <1>1
<1>3. got = [a \in 0 .. N - 1 |-> {val(e) : e \in {x \in S : dst(x) = a}}]
  BY <1>1, Zenon DEF yolo_upsample, Stores
<1>4. SUFFICES ASSUME NEW g \in Grid(c, OH, OW)
               PROVE  got[Flat(g, OH, OW)] = {o.x[Flat(back(g), h, w) + 1]}
  BY <1>1, Zenon DEF Promised
<1> HIDE DEF got
<1>5. ASSUME NEW e \in S
      PROVE  /\ dst(e) = Flat(Fine(e), OH, OW) /\ Fine(e) \in Grid(c, OH, OW)
             /\ back(Fine(e)) = e[1]
             /\ Fine(e)[2] % 2 = e[2][1] /\ Fine(e)[3] % 2 = e[2][2]
             /\ e = <<e[1], <<e[2][1], e[2][2]>>>>
  <2> DEFINE p == e[1]
             x == p[1]
             y == p[2]
             z == p[3]
             s == e[2][1]
             t == e[2][2]
             Y == 2 * y + s
             Z == 2 * z + t
  <2>1. p \in G /\ e[2] \in {0, 1} \X {0, 1} /\ e = <<p, e[2]>>
    OBVIOUS
  <2>2. s \in {0, 1} /\ t \in {0, 1} /\ e[2] = <<s, t>>
    BY <2>1
  <2>3. p = <<x, y, z>> /\ x \in 0 .. c - 1 /\ y \in 0 .. h - 1 /\ z \in 0 .. w - 1
    <3> HIDE DEF p
    <3>1. QED BY <1>1, <2>1, InGrid
  <2>4. Fine(e) = <<x, Y, Z>>
    BY DEF Fine
  <2>5. dst(e) = x * OH * OW + Y * OW + 2 * z + t
    OBVIOUS
  <2> HIDE DEF p, x, y, z, s, t, dst
  <2>6. Y \in 0 .. OH - 1 /\ Y \div 2 = y /\ Y % 2 = s
    BY <1>1, <2>2, <2>3, Halves
  <2>7. Z \in 0 .. OW - 1 /\ Z \div 2 = z /\ Z % 2 = t
    BY <1>1, <2>2, <2>3, Halves
  <2>8. dst(e) = x * OH * OW + Y * OW + Z
    <3> DEFINE a == x * OH * OW + Y * OW
               b == 2 * z
    <3>1. a \in Int /\ b \in Int /\ t \in Int
      <4>1. x \in Int /\ Y \in Int /\ OH \in Int /\ OW \in Int /\ z \in Int /\ t \in Int
        BY <1>2, <2>2, <2>3, <2>6
      <4> HIDE DEF Y, OH, OW
      <4>2. QED BY <4>1
    <3>2. dst(e) = a + b + t
      BY <2>5
    <3> HIDE DEF a, b
    <3>3. a + b + t = a + (b + t)
      BY <3>1
    <3>4. QED BY <3>2, <3>3 DEF a, b
  <2> HIDE DEF Y, Z, OH, OW
  <2>9. Fine(e)[1] = x /\ Fine(e)[2] = Y /\ Fine(e)[3] = Z
    BY <2>4
  <2>10. dst(e) = Flat(Fine(e), OH, OW)
    BY <2>8, <2>9 DEF Flat
  <2>11. Fine(e) \in Grid(c, OH, OW)
    BY <2>3, <2>4, <2>6, <2>7 DEF Grid
  <2>12. back(Fine(e)) = p
    BY <2>3, <2>6, <2>7, <2>9
  <2>13. QED BY <2>1, <2>2, <2>6, <2>7, <2>9, <2>10, <2>11, <2>12 DEF p, s, t
<1> DEFINE E == <<back(g), <<g[2] % 2, g[3] % 2>>>>
<1>6. E \in S /\ Fine(E) = g
  <2> DEFINE x == g[1]
             y == g[2]
             z == g[3]
  <2>1. g = <<x, y, z>> /\ x \in 0 .. c - 1 /\ y \in 0 .. OH - 1 /\ z \in 0 .. OW - 1
    <3> HIDE DEF OH, OW
    <3>1. QED BY <1>1, <1>2, InGrid
  <2>2. E = <<<<x, y \div 2, z \div 2>>, <<y % 2, z % 2>>>>
    OBVIOUS
  <2> HIDE DEF x, y, z, E
  <2>3. /\ y \div 2 \in 0 .. h - 1 /\ y % 2 \in {0, 1} /\ 2 * (y \div 2) + (y % 2) = y
        /\ z \div 2 \in 0 .. w - 1 /\ z % 2 \in {0, 1} /\ 2 * (z \div 2) + (z % 2) = z
    BY <1>1, <2>1, Halved
  <2>4. E \in S
    BY <2>1, <2>2, <2>3 DEF Grid
  <2>5. Fine(E) = <<x, 2 * (y \div 2) + (y % 2), 2 * (z \div 2) + (z % 2)>>
    BY <2>2 DEF Fine
  <2>6. QED BY <2>1, <2>3, <2>4, <2>5
<1>7. E[1] = back(g)
  OBVIOUS
<1> HIDE DEF E, OH, OW, dst, back
<1>8. /\ Flat(g, OH, OW) \in 0 .. N - 1
      /\ \A f \in Grid(c, OH, OW) : Flat(f, OH, OW) = Flat(g, OH, OW) => f = g
  BY <1>1, <1>2, FlatOne
<1>9. ASSUME NEW e \in S, dst(e) = Flat(g, OH, OW) PROVE e = E
  <2>1. Fine(e) = g
    BY <1>5, <1>8, <1>9
  <2> HIDE DEF S
  <2>2. /\ e = <<back(Fine(e)), <<Fine(e)[2] % 2, Fine(e)[3] % 2>>>>
    BY <1>5, Zenon
  <2>3. e = <<back(g), <<g[2] % 2, g[3] % 2>>>>
    BY <2>1, <2>2, Zenon
  <2>4. QED BY <2>3 DEF E
<1>10. dst(E) = Flat(g, OH, OW)
  BY <1>5, <1>6
<1> DEFINE T == {x \in S : dst(x) = Flat(g, OH, OW)}
<1>11. T = {E}
  <2> HIDE DEF S
  <2>1. QED BY <1>6, <1>9, <1>10
<1>12. got[Flat(g, OH, OW)] = {val(e) : e \in T}
  <2> HIDE DEF S, val
  <2>1. QED BY <1>3, <1>8
<1> HIDE DEF T
<1>13. got[Flat(g, OH, OW)] = {val(E)}
  <2> HIDE DEF val
  <2>1. QED BY <1>11, <1>12
<1>14. QED BY <1>7, <1>13

-----------------------------------------------------------------------------
(* Four digits of mixed radix: an address and its axes.                    *)

Digit(a, b, d) == (a \div b) % d

LEMMA TimesAssoc ==
  ASSUME NEW a \in Nat, NEW b \in Nat, NEW c \in Nat
  PROVE  a * b * c = a * (b * c) /\ a * b * c \in Nat /\ a * b \in Nat /\ b * c \in Nat
OBVIOUS

LEMMA Below ==
  ASSUME NEW d \in Nat \ {0}, NEW x \in 0 .. d - 1
  PROVE  x % d = x
OBVIOUS

Numeral(x1, x2, x3, x4, d2, d3, d4) ==
  x1 * (d2 * d3 * d4) + x2 * (d3 * d4) + x3 * d4 + x4

HasDigits(A, x1, x2, x3, x4, d1, d2, d3, d4) ==
  /\ A \in 0 .. d1 * d2 * d3 * d4 - 1
  /\ Digit(A, d2 * d3 * d4, d1) = x1 /\ Digit(A, d3 * d4, d2) = x2
  /\ Digit(A, d4, d3) = x3 /\ Digit(A, 1, d4) = x4

LEMMA PlaceOf ==
  ASSUME NEW d1 \in Nat \ {0}, NEW d2 \in Nat \ {0}, NEW d3 \in Nat \ {0}, NEW d4 \in Nat \ {0},
         NEW x1 \in 0 .. d1 - 1, NEW x2 \in 0 .. d2 - 1,
         NEW x3 \in 0 .. d3 - 1, NEW x4 \in 0 .. d4 - 1,
         NEW A, A = Numeral(x1, x2, x3, x4, d2, d3, d4)
  PROVE  HasDigits(A, x1, x2, x3, x4, d1, d2, d3, d4)
<1> DEFINE p == d3 * d4
           n == d2 * p
           r == x3 * d4 + x4
           q == x2 * p + r
           y == x1 * d2 + x2
           z == y * d3 + x3
<1>1. p \in Nat \ {0} /\ d2 * d3 * d4 = n /\ n \in Nat \ {0} /\ d1 * d2 * d3 * d4 = d1 * n
  <2>1. d2 * d3 * d4 = d2 * (d3 * d4) /\ d1 * d2 * d3 * d4 = d1 * (d2 * (d3 * d4))
    <3>1. d1 * d2 * d3 = d1 * (d2 * d3) /\ d2 * d3 \in Nat
      BY TimesAssoc
    <3>2. d1 * (d2 * d3) * d4 = d1 * (d2 * d3 * d4)
      BY <3>1, TimesAssoc
    <3>3. d2 * d3 * d4 = d2 * (d3 * d4)
      BY TimesAssoc
    <3>4. QED BY <3>1, <3>2, <3>3, Zenon
  <2>2. p \in Nat \ {0}
    BY Positive
  <2>3. n \in Nat \ {0}
    <3> HIDE DEF p
    <3>1. QED BY <2>2, Positive
  <2>4. QED BY <2>1, <2>2, <2>3, Zenon DEF p, n
<1>2. r \in 0 .. p - 1 /\ x3 * d4 \in Nat
  <2>1. d3 \in Nat
    OBVIOUS
  <2>2. QED BY <2>1, InRows, Product
<1> HIDE DEF p
<1>3. q \in 0 .. n - 1 /\ x2 * p \in Nat
  <2> HIDE DEF r
  <2>1. d2 \in Nat
    OBVIOUS
  <2>2. QED BY <1>1, <1>2, <2>1, InRows, Product
<1>4. y \in Nat /\ z \in Nat /\ y * d3 \in Nat /\ x1 * d2 \in Nat
  OBVIOUS
<1>5. A = x1 * n + q /\ x1 * n \in Nat
  <2> DEFINE s == x1 * n
             t == x2 * p
             u == x3 * d4
  <2>1. s \in Nat /\ t \in Nat /\ u \in Nat /\ A = s + t + u + x4
    <3>1. A = s + t + u + x4
      BY <1>1 DEF p, Numeral
    <3> HIDE DEF n
    <3>2. QED BY <1>1, <1>2, <1>3, <3>1
  <2> HIDE DEF s, t, u, n
  <2>2. s + t + u + x4 = s + (t + (u + x4))
    BY <2>1
  <2>3. QED BY <2>1, <2>2 DEF s, t, u, q, r
<1>6. A = y * p + r
  <2> DEFINE s == x1 * n
             t == x2 * p
  <2>1. s \in Nat /\ t \in Nat /\ A = s + (t + r)
    BY <1>3, <1>5
  <2>2. y * p = s + t
    <3>1. (x1 * d2 + x2) * p = x1 * (d2 * p) + x2 * p
      BY <1>1
    <3>2. QED BY <3>1
  <2> HIDE DEF s, t, r, y
  <2>3. QED BY <1>2, <2>1, <2>2
<1>7. A = z * d4 + x4
  <2> DEFINE s == y * p
             u == x3 * d4
  <2>1. z * d4 = s + u
    <3> HIDE DEF y
    <3>1. (y * d3 + x3) * d4 = y * (d3 * d4) + x3 * d4
      BY <1>4
    <3>2. QED BY <3>1 DEF p
  <2>2. s \in Nat /\ u \in Nat /\ A = s + (u + x4)
    <3> HIDE DEF y
    <3>1. QED BY <1>1, <1>2, <1>4, <1>6
  <2> HIDE DEF s, u, z
  <2>3. QED BY <2>1, <2>2
<1> HIDE DEF y, z, q, r, n
<1>8. A \in 0 .. d1 * n - 1
  <2>1. d1 \in Nat
    OBVIOUS
  <2>2. QED BY <1>1, <1>3, <1>5, <2>1, InRows
<1>9. Digit(A, n, d1) = x1
  <2>1. A \div n = x1
    BY <1>1, <1>3, <1>5, Digits
  <2>2. QED BY <2>1, Below DEF Digit
<1>10. Digit(A, p, d2) = x2
  <2>1. A \div p = y
    BY <1>1, <1>2, <1>4, <1>6, Digits
  <2>2. (x1 * d2 + x2) % d2 = x2
    BY Digits
  <2>3. QED BY <2>1, <2>2 DEF Digit, y
<1>11. Digit(A, d4, d3) = x3
  <2>1. A \div d4 = z
    BY <1>4, <1>7, Digits
  <2>2. (y * d3 + x3) % d3 = x3
    BY <1>4, Digits
  <2>3. QED BY <2>1, <2>2 DEF Digit, z
<1>12. Digit(A, 1, d4) = x4
  <2>1. A \in Nat /\ A \div 1 = A
    BY <1>8
  <2>2. (z * d4 + x4) % d4 = x4
    BY <1>4, Digits
  <2>3. QED BY <1>7, <2>1, <2>2 DEF Digit
<1>13. QED BY <1>1, <1>8, <1>9, <1>10, <1>11, <1>12, Zenon DEF p, n, HasDigits

HasNumeral(a, d1, d2, d3, d4) ==
  \E x1 \in 0 .. d1 - 1, x2 \in 0 .. d2 - 1, x3 \in 0 .. d3 - 1, x4 \in 0 .. d4 - 1 :
    a = Numeral(x1, x2, x3, x4, d2, d3, d4)

LEMMA PlaceExists ==
  ASSUME NEW d1 \in Nat \ {0}, NEW d2 \in Nat \ {0}, NEW d3 \in Nat \ {0}, NEW d4 \in Nat \ {0},
         NEW a \in 0 .. d1 * d2 * d3 * d4 - 1
  PROVE  HasNumeral(a, d1, d2, d3, d4)
<1> DEFINE m3 == d1 * d2 * d3
           m2 == d1 * d2
           b == a \div d4
           x4 == a % d4
           c == b \div d3
           x3 == b % d3
           x1 == c \div d2
           x2 == c % d2
<1>1. m2 \in Nat /\ m3 = m2 * d3 /\ m3 \in Nat /\ a \in Nat /\ a < m3 * d4
  BY Product
<1>2. b \in 0 .. m3 - 1 /\ x4 \in 0 .. d4 - 1 /\ a = b * d4 + x4
  <2> HIDE DEF m3, m2
  <2>1. QED BY <1>1, DigitBelow, DivMod
<1>3. b \in Nat /\ b < m2 * d3
  BY <1>1, <1>2
<1> HIDE DEF b, x4, m3
<1>4. c \in 0 .. m2 - 1 /\ x3 \in 0 .. d3 - 1 /\ b = c * d3 + x3
  <2> HIDE DEF m2
  <2>1. QED BY <1>1, <1>3, DigitBelow, DivMod
<1>5. c \in Nat /\ c < d1 * d2
  BY <1>1, <1>4
<1> HIDE DEF c, x3, m2
<1>6. x1 \in 0 .. d1 - 1 /\ x2 \in 0 .. d2 - 1 /\ c = x1 * d2 + x2
  <2>1. d1 \in Nat
    OBVIOUS
  <2>2. QED BY <1>5, <2>1, DigitBelow, DivMod
<1> HIDE DEF x1, x2
<1>7. x1 \in Nat /\ x2 \in Nat /\ x3 \in Nat /\ x4 \in Nat
  BY <1>2, <1>4, <1>6
<1>8. b * d4 = x1 * (d2 * d3 * d4) + x2 * (d3 * d4) + x3 * d4
  <2>1. ((x1 * d2 + x2) * d3 + x3) * d4 = x1 * (d2 * d3 * d4) + x2 * (d3 * d4) + x3 * d4
    BY <1>7
  <2>2. QED BY <1>4, <1>6, <2>1
<1>9. a = x1 * (d2 * d3 * d4) + x2 * (d3 * d4) + x3 * d4 + x4
  BY <1>2, <1>8
<1>10. QED BY <1>2, <1>4, <1>6, <1>9 DEF Numeral, HasNumeral

LEMMA FourApart ==
  ASSUME NEW perm \in [1 .. 4 -> 1 .. 4], \A j \in 1 .. 4 : \E k \in 1 .. 4 : perm[k] = j
  PROVE  \A j, k \in 1 .. 4 : perm[j] = perm[k] => j = k
<1> DEFINE a == perm[1]
           b == perm[2]
           c == perm[3]
           d == perm[4]
<1>1. a \in 1 .. 4 /\ b \in 1 .. 4 /\ c \in 1 .. 4 /\ d \in 1 .. 4
  OBVIOUS
<1>2. \A k \in 1 .. 4 : k = 1 \/ k = 2 \/ k = 3 \/ k = 4
  OBVIOUS
<1>3. \A j \in 1 .. 4 : a = j \/ b = j \/ c = j \/ d = j
  BY <1>2, Zenon
<1> HIDE DEF a, b, c, d
<1>4. a # b /\ a # c /\ a # d /\ b # c /\ b # d /\ c # d
  BY <1>1, <1>3
<1>5. QED BY <1>2, <1>4 DEF a, b, c, d

\* The flat address of the four digits e of a tensor of sizes d.
Address(e, d) ==
  LET s == strides(d) IN e[1] * s[1] + e[2] * s[2] + e[3] * s[3] + e[4] * s[4]

Cell(e, d) == \A k \in 1 .. 4 : e[k] \in 0 .. d[k] - 1

Size(d) == d[1] * d[2] * d[3] * d[4]

FourDistinct(p, q, r, s) == p # q /\ p # r /\ p # s /\ q # r /\ q # s /\ r # s

Rearranged(w, v) ==
  \E p, q, r, s \in 1 .. 4 : FourDistinct(p, q, r, s) /\ w = <<v[p], v[q], v[r], v[s]>>

LEMMA FactorsMoved ==
  ASSUME NEW v \in [1 .. 4 -> Nat], NEW w, Rearranged(w, v)
  PROVE  Size(w) = Size(v)
<1>d. PICK p \in 1 .. 4, q \in 1 .. 4, r \in 1 .. 4, s \in 1 .. 4 :
        FourDistinct(p, q, r, s) /\ w = <<v[p], v[q], v[r], v[s]>>
  BY Zenon DEF Rearranged
<1> DEFINE a == v[1]
           b == v[2]
           c == v[3]
           d == v[4]
<1>a. a \in Nat /\ b \in Nat /\ c \in Nat /\ d \in Nat
  OBVIOUS
<1>b. v[1] = a /\ v[2] = b /\ v[3] = c /\ v[4] = d
  OBVIOUS
<1>c. Size(w) = v[p] * v[q] * v[r] * v[s] /\ Size(v) = a * b * c * d
  BY <1>d DEF Size
<1> HIDE DEF a, b, c, d
<1> SUFFICES v[p] * v[q] * v[r] * v[s] = a * b * c * d
  BY <1>c
<1> USE <1>a, <1>b, <1>d DEF FourDistinct
<1>1. CASE p = 1
  <2>1. CASE q = 2 BY <1>1, <2>1
  <2>2. CASE q = 3 BY <1>1, <2>2
  <2>3. CASE q = 4 BY <1>1, <2>3
  <2>4. QED BY <1>1, <2>1, <2>2, <2>3
<1>2. CASE p = 2
  <2>1. CASE q = 1 BY <1>2, <2>1
  <2>2. CASE q = 3 BY <1>2, <2>2
  <2>3. CASE q = 4 BY <1>2, <2>3
  <2>4. QED BY <1>2, <2>1, <2>2, <2>3
<1>3. CASE p = 3
  <2>1. CASE q = 1 BY <1>3, <2>1
  <2>2. CASE q = 2 BY <1>3, <2>2
  <2>3. CASE q = 4 BY <1>3, <2>3
  <2>4. QED BY <1>3, <2>1, <2>2, <2>3
<1>4. CASE p = 4
  <2>1. CASE q = 1 BY <1>4, <2>1
  <2>2. CASE q = 2 BY <1>4, <2>2
  <2>3. CASE q = 3 BY <1>4, <2>3
  <2>4. QED BY <1>4, <2>1, <2>2, <2>3
<1>5. QED BY <1>1, <1>2, <1>3, <1>4

LEMMA AddressOf ==
  ASSUME NEW d \in [1 .. 4 -> Nat \ {0}], NEW e, Cell(e, d)
  PROVE  /\ Address(e, d) \in 0 .. Size(d) - 1
         /\ \A k \in 1 .. 4 : Digit(Address(e, d), strides(d)[k], d[k]) = e[k]
<1> DEFINE d1 == d[1]
           d2 == d[2]
           d3 == d[3]
           d4 == d[4]
           x1 == e[1]
           x2 == e[2]
           x3 == e[3]
           x4 == e[4]
           A == x1 * (d2 * d3 * d4) + x2 * (d3 * d4) + x3 * d4 + x4
<1>1. /\ d1 \in Nat \ {0} /\ d2 \in Nat \ {0} /\ d3 \in Nat \ {0} /\ d4 \in Nat \ {0}
      /\ x1 \in 0 .. d1 - 1 /\ x2 \in 0 .. d2 - 1 /\ x3 \in 0 .. d3 - 1 /\ x4 \in 0 .. d4 - 1
  <2>1. 1 \in 1 .. 4 /\ 2 \in 1 .. 4 /\ 3 \in 1 .. 4 /\ 4 \in 1 .. 4
    OBVIOUS
  <2>2. QED BY <2>1, Zenon DEF Cell
<1>2. /\ strides(d)[1] = d2 * d3 * d4 /\ strides(d)[2] = d3 * d4
      /\ strides(d)[3] = d4 /\ strides(d)[4] = 1
  BY DEF strides
<1>3. Address(e, d) = x1 * (d2 * d3 * d4) + x2 * (d3 * d4) + x3 * d4 + x4 * 1
  BY <1>2, Zenon DEF Address
<1>4. Size(d) = d1 * d2 * d3 * d4
  BY DEF Size
<1> HIDE DEF d1, d2, d3, d4, x1, x2, x3, x4
<1>5. Address(e, d) = A
  <2>1. x4 * 1 = x4
    BY <1>1
  <2>2. QED BY <1>3, <2>1, Zenon
<1>6. A = Numeral(x1, x2, x3, x4, d2, d3, d4)
  BY Zenon DEF Numeral
<1> HIDE DEF A
<1>7. HasDigits(A, x1, x2, x3, x4, d1, d2, d3, d4)
  BY <1>1, <1>6, PlaceOf, Zenon
<1>8. /\ A \in 0 .. d1 * d2 * d3 * d4 - 1
      /\ Digit(A, d2 * d3 * d4, d1) = x1 /\ Digit(A, d3 * d4, d2) = x2
      /\ Digit(A, d4, d3) = x3 /\ Digit(A, 1, d4) = x4
  BY <1>7, Zenon DEF HasDigits
<1>9. \A k \in 1 .. 4 : k = 1 \/ k = 2 \/ k = 3 \/ k = 4
  OBVIOUS
<1>10. ASSUME NEW k \in 1 .. 4 PROVE Digit(Address(e, d), strides(d)[k], d[k]) = e[k]
  <2>1. CASE k = 1 BY <1>2, <1>5, <1>8, <2>1, Zenon DEF d1, x1
  <2>2. CASE k = 2 BY <1>2, <1>5, <1>8, <2>2, Zenon DEF d2, x2
  <2>3. CASE k = 3 BY <1>2, <1>5, <1>8, <2>3, Zenon DEF d3, x3
  <2>4. CASE k = 4 BY <1>2, <1>5, <1>8, <2>4, Zenon DEF d4, x4
  <2>5. QED BY <1>9, <2>1, <2>2, <2>3, <2>4
<1>11. QED BY <1>4, <1>5, <1>8, <1>10

LEMMA AddressExists ==
  ASSUME NEW d \in [1 .. 4 -> Nat \ {0}], NEW a \in 0 .. Size(d) - 1
  PROVE  \E e \in [1 .. 4 -> Nat] : Cell(e, d) /\ Address(e, d) = a
<1> DEFINE d1 == d[1]
           d2 == d[2]
           d3 == d[3]
           d4 == d[4]
<1>1. /\ d1 \in Nat \ {0} /\ d2 \in Nat \ {0} /\ d3 \in Nat \ {0} /\ d4 \in Nat \ {0}
      /\ a \in 0 .. d1 * d2 * d3 * d4 - 1
  BY DEF Size
<1>2. strides(d) = <<d2 * d3 * d4, d3 * d4, d4, 1>>
  BY DEF strides
<1> HIDE DEF d1, d2, d3, d4
<1>3. PICK x1 \in 0 .. d1 - 1, x2 \in 0 .. d2 - 1, x3 \in 0 .. d3 - 1, x4 \in 0 .. d4 - 1 :
        a = Numeral(x1, x2, x3, x4, d2, d3, d4)
  <2>1. HasNumeral(a, d1, d2, d3, d4)
    BY <1>1, PlaceExists, Zenon
  <2>2. QED BY <2>1, Zenon DEF HasNumeral
<1> DEFINE e == [k \in 1 .. 4 |-> CASE k = 1 -> x1 [] k = 2 -> x2 [] k = 3 -> x3 [] k = 4 -> x4]
<1>4. x1 \in Nat /\ x2 \in Nat /\ x3 \in Nat /\ x4 \in Nat
  BY <1>1
<1>5. e[1] = x1 /\ e[2] = x2 /\ e[3] = x3 /\ e[4] = x4
  OBVIOUS
<1>6. e \in [1 .. 4 -> Nat]
  BY <1>4
<1> HIDE DEF e
<1>7. Cell(e, d)
  <2>1. \A k \in 1 .. 4 : k = 1 \/ k = 2 \/ k = 3 \/ k = 4
    OBVIOUS
  <2>2. QED BY <1>5, <2>1 DEF Cell, d1, d2, d3, d4
<1>8. Address(e, d) = x1 * (d2 * d3 * d4) + x2 * (d3 * d4) + x3 * d4 + x4 * 1
  <2> DEFINE p == d2 * d3 * d4
             q == d3 * d4
  <2>1. strides(d) = <<p, q, d4, 1>>
    BY <1>2
  <2> HIDE DEF p, q
  <2>2. /\ strides(d)[1] = p /\ strides(d)[2] = q /\ strides(d)[3] = d4 /\ strides(d)[4] = 1
    BY <2>1
  <2>3. Address(e, d) = x1 * p + x2 * q + x3 * d4 + x4 * 1
    BY <1>5, <2>2, Zenon DEF Address
  <2>4. QED BY <2>3 DEF p, q
<1>9. x4 * 1 = x4
  BY <1>4
<1>10. Address(e, d) = a
  BY <1>3, <1>8, <1>9, Zenon DEF Numeral
<1>11. QED BY <1>6, <1>7, <1>10

\* The cell of the four axes e, the k-th of which comes from the axis perm[k].
Permuted(e, perm) == [k \in 1 .. 4 |-> e[perm[k]]]

LEMMA PermutedCell ==
  ASSUME NEW id \in [1 .. 4 -> Nat \ {0}], NEW perm \in [1 .. 4 -> 1 .. 4],
         NEW e, Cell(e, id)
  PROVE  /\ Permuted(id, perm) \in [1 .. 4 -> Nat \ {0}]
         /\ Cell(Permuted(e, perm), Permuted(id, perm))
<1> DEFINE d == Permuted(id, perm)
           x == Permuted(e, perm)
<1>1. d \in [1 .. 4 -> Nat \ {0}] /\ \A k \in 1 .. 4 : d[k] = id[perm[k]] /\ x[k] = e[perm[k]]
  BY DEF Permuted
<1>2. \A k \in 1 .. 4 : perm[k] \in 1 .. 4
  OBVIOUS
<1> HIDE DEF d, x
<1>3. Cell(x, d)
  BY <1>1, <1>2 DEF Cell
<1>4. QED BY <1>1, <1>3 DEF d, x

LEMMA CellsMatch ==
  ASSUME NEW id \in [1 .. 4 -> Nat \ {0}], NEW perm \in [1 .. 4 -> 1 .. 4],
         \A j \in 1 .. 4 : \E k \in 1 .. 4 : perm[k] = j,
         NEW e, NEW f, Cell(e, id), Cell(f, id),
         Address(Permuted(e, perm), Permuted(id, perm))
           = Address(Permuted(f, perm), Permuted(id, perm))
  PROVE  \A j \in 1 .. 4 : e[j] = f[j]
<1> DEFINE d == Permuted(id, perm)
           x == Permuted(e, perm)
           y == Permuted(f, perm)
<1>1. \A k \in 1 .. 4 : x[k] = e[perm[k]] /\ y[k] = f[perm[k]]
  BY DEF Permuted
<1>2. d \in [1 .. 4 -> Nat \ {0}] /\ Cell(x, d) /\ Cell(y, d)
  BY PermutedCell
<1>3. Address(x, d) = Address(y, d)
  OBVIOUS
<1> HIDE DEF d, x, y
<1>4. \A k \in 1 .. 4 : x[k] = y[k]
  <2>1. /\ \A k \in 1 .. 4 : Digit(Address(x, d), strides(d)[k], d[k]) = x[k]
        /\ \A k \in 1 .. 4 : Digit(Address(y, d), strides(d)[k], d[k]) = y[k]
    BY <1>2, AddressOf
  <2>2. QED BY <1>3, <2>1, Zenon
<1>5. ASSUME NEW j \in 1 .. 4 PROVE e[j] = f[j]
  <2>1. PICK k \in 1 .. 4 : perm[k] = j
    OBVIOUS
  <2>2. QED BY <1>1, <1>4, <2>1
<1>6. QED BY <1>5

\* The cell whose k-th permuted axis is x[k].
LEMMA CellBehind ==
  ASSUME NEW id \in [1 .. 4 -> Nat \ {0}], NEW perm \in [1 .. 4 -> 1 .. 4],
         \A j \in 1 .. 4 : \E k \in 1 .. 4 : perm[k] = j,
         NEW x \in [1 .. 4 -> Nat], Cell(x, Permuted(id, perm))
  PROVE  \E e \in [1 .. 4 -> Nat] : Cell(e, id) /\ Permuted(e, perm) = x
<1> DEFINE axis(j) == CHOOSE k \in 1 .. 4 : perm[k] = j
           e == [j \in 1 .. 4 |-> x[axis(j)]]
<1>1. ASSUME NEW j \in 1 .. 4 PROVE axis(j) \in 1 .. 4 /\ perm[axis(j)] = j
  BY <1>1, Zenon
<1>2. \A j, k \in 1 .. 4 : perm[j] = perm[k] => j = k
  BY FourApart
<1> HIDE DEF axis
<1>3. e \in [1 .. 4 -> Nat]
  BY <1>1
<1>4. Cell(e, id)
  <2>1. ASSUME NEW j \in 1 .. 4 PROVE e[j] \in 0 .. id[j] - 1
    <3>1. Permuted(id, perm)[axis(j)] = id[j]
      BY <1>1 DEF Permuted
    <3>2. x[axis(j)] \in 0 .. Permuted(id, perm)[axis(j)] - 1
      BY <1>1, Zenon DEF Cell
    <3>3. QED BY <3>1, <3>2
  <2>2. QED BY <2>1, Zenon DEF Cell
<1>5. Permuted(e, perm) = x
  <2>1. ASSUME NEW k \in 1 .. 4 PROVE e[perm[k]] = x[k]
    <3>1. perm[k] \in 1 .. 4
      OBVIOUS
    <3>2. axis(perm[k]) = k
      BY <1>1, <1>2, <3>1
    <3>3. QED BY <3>1, <3>2
  <2> HIDE DEF e
  <2>2. QED BY <2>1 DEF Permuted
<1>6. QED BY <1>3, <1>4, <1>5

LEMMA TransposeExact ==
  ASSUME NEW o, o.kernel = "transpose", WellFormedCall(o)
  PROVE  Promised(o, Run(o))
<1> DEFINE id == o.id
           perm == o.perm
           od == Permuted(id, perm)
           C == (0 .. id[1] - 1) \X (0 .. id[2] - 1) \X (0 .. id[3] - 1) \X (0 .. id[4] - 1)
           N == Size(id)
           dst(e) == Address(Permuted(e, perm), od)
           got == Run(o)
<1>1. /\ id \in [1 .. 4 -> Nat \ {0}] /\ perm \in [1 .. 4 -> 1 .. 4]
      /\ \A j \in 1 .. 4 : \E k \in 1 .. 4 : perm[k] = j
      /\ got = transpose_int8(id, perm)
  BY DEF WellFormedCall, Run
<1>2. got = [a \in 0 .. N - 1 |-> {Address(e, id) : e \in {x \in C : dst(x) = a}}]
  BY <1>1, Zenon DEF transpose_int8, Stores, Size, Address, Permuted
<1>3. DOMAIN got = 0 .. N - 1
  <2> HIDE DEF C, dst, N, got
  <2>1. QED BY <1>2
<1> HIDE DEF got
<1> DEFINE Same(a, src) ==
             /\ got[a] = {src}
             /\ \A k \in 1 .. 4 : Digit(a, strides(od)[k], od[k])
                                    = Digit(src, strides(id)[perm[k]], id[perm[k]])
<1>4. SUFFICES ASSUME NEW a \in 0 .. N - 1 PROVE \E src \in 0 .. N - 1 : Same(a, src)
  <2>1. Promised(o, got) <=> \A a \in DOMAIN got : \E src \in DOMAIN got : Same(a, src)
    BY DEF Promised, Digit, Permuted
  <2> DEFINE D == 0 .. N - 1
  <2>2. DOMAIN got = D
    BY <1>3
  <2> HIDE DEF Same, D
  <2>3. (\A a \in D : \E src \in D : Same(a, src)) => Promised(o, got)
    BY <2>1, <2>2, Zenon
  <2>4. QED BY <2>3, Zenon DEF D, got
<1>5. od \in [1 .. 4 -> Nat \ {0}] /\ \A k \in 1 .. 4 : od[k] = id[perm[k]]
  BY <1>1 DEF Permuted
<1>6. Size(od) = N
  <2> DEFINE p == perm[1]
             q == perm[2]
             r == perm[3]
             s == perm[4]
             v == id
             w == <<v[p], v[q], v[r], v[s]>>
  <2>1. /\ p \in 1 .. 4 /\ q \in 1 .. 4 /\ r \in 1 .. 4 /\ s \in 1 .. 4
        /\ FourDistinct(p, q, r, s)
    <3>1. \A j, k \in 1 .. 4 : perm[j] = perm[k] => j = k
      BY <1>1, FourApart
    <3>2. QED BY <1>1, <3>1 DEF FourDistinct
  <2>2. Size(od) = Size(w)
    BY <1>5 DEF Size
  <2>3. v \in [1 .. 4 -> Nat] /\ w = <<v[p], v[q], v[r], v[s]>>
    BY <1>1
  <2> HIDE DEF p, q, r, s, v, w, od
  <2>4. Size(w) = Size(v)
    <3>1. Rearranged(w, v)
      BY <2>1, <2>3, Zenon DEF Rearranged
    <3>2. QED BY <2>3, <3>1, FactorsMoved
  <2>5. QED BY <2>2, <2>4 DEF v
<1>7. PICK x \in [1 .. 4 -> Nat] : Cell(x, od) /\ Address(x, od) = a
  <2>1. a \in 0 .. Size(od) - 1
    BY <1>6
  <2> HIDE DEF od
  <2>2. QED BY <1>5, <2>1, AddressExists
<1>8. PICK y \in [1 .. 4 -> Nat] : Cell(y, id) /\ Permuted(y, perm) = x
  BY <1>1, <1>7, CellBehind
<1> DEFINE e == <<y[1], y[2], y[3], y[4]>>
           src == Address(e, id)
<1>9. /\ e \in C /\ Cell(e, id) /\ Permuted(e, perm) = x
  <2>1. \A k \in 1 .. 4 : e[k] = y[k]
    OBVIOUS
  <2>2. 1 \in 1 .. 4 /\ 2 \in 1 .. 4 /\ 3 \in 1 .. 4 /\ 4 \in 1 .. 4
    OBVIOUS
  <2>3. e \in C
    BY <1>8, <2>2, Zenon DEF Cell
  <2> HIDE DEF e
  <2>4. Cell(e, id)
    BY <1>8, <2>1, Zenon DEF Cell
  <2>5. \A k \in 1 .. 4 : e[perm[k]] = y[perm[k]]
    BY <1>1, <2>1
  <2>6. Permuted(e, perm) = Permuted(y, perm)
    BY <2>5, Zenon DEF Permuted
  <2>7. QED BY <1>8, <2>3, <2>4, <2>6
<1> HIDE DEF e
<1>10. dst(e) = a
  BY <1>7, <1>9
<1>11. ASSUME NEW f \in C, dst(f) = a PROVE f = e
  <2>1. f = <<f[1], f[2], f[3], f[4]>> /\ e = <<e[1], e[2], e[3], e[4]>>
    BY <1>9
  <2>2. /\ f[1] \in 0 .. id[1] - 1 /\ f[2] \in 0 .. id[2] - 1
        /\ f[3] \in 0 .. id[3] - 1 /\ f[4] \in 0 .. id[4] - 1
    OBVIOUS
  <2>3. Cell(f, id)
    <3>1. \A k \in 1 .. 4 : k = 1 \/ k = 2 \/ k = 3 \/ k = 4
      OBVIOUS
    <3>2. QED BY <2>2, <3>1, Zenon DEF Cell
  <2>4. \A j \in 1 .. 4 : f[j] = e[j]
    BY <1>1, <1>9, <1>10, <1>11, <2>3, CellsMatch
  <2>5. 1 \in 1 .. 4 /\ 2 \in 1 .. 4 /\ 3 \in 1 .. 4 /\ 4 \in 1 .. 4
    OBVIOUS
  <2>6. f[1] = e[1] /\ f[2] = e[2] /\ f[3] = e[3] /\ f[4] = e[4]
    BY <2>4, <2>5, Zenon
  <2>7. QED BY <2>1, <2>6, Zenon
<1> DEFINE T == {z \in C : dst(z) = a}
<1>12. T = {e}
  <2> HIDE DEF C, dst
  <2>1. QED BY <1>9, <1>10, <1>11
<1>13. got[a] = {Address(z, id) : z \in T}
  <2> HIDE DEF C, dst, N
  <2>1. QED BY <1>2
<1> HIDE DEF T
<1>14. got[a] = {src}
  BY <1>12, <1>13
<1>15. /\ src \in 0 .. N - 1
       /\ \A k \in 1 .. 4 : Digit(src, strides(id)[k], id[k]) = e[k]
  BY <1>1, <1>9, AddressOf
<1>16. \A k \in 1 .. 4 : Digit(a, strides(od)[k], od[k]) = x[k]
  <2> HIDE DEF od
  <2>1. QED BY <1>5, <1>7, AddressOf
<1>17. \A k \in 1 .. 4 : x[k] = e[perm[k]] /\ perm[k] \in 1 .. 4
  BY <1>1, <1>9 DEF Permuted
<1> HIDE DEF src, od, N
<1>18. ASSUME NEW k \in 1 .. 4
       PROVE  Digit(a, strides(od)[k], od[k]) = Digit(src, strides(id)[perm[k]], id[perm[k]])
  BY <1>15, <1>16, <1>17
<1>19. QED BY <1>14, <1>15, <1>18

-----------------------------------------------------------------------------
(* Rows laid end to end.  B[i] is where the part after the i-th begins.    *)

Bands(B, n, c) ==
  /\ B \in [0 .. n -> Nat] /\ B[0] = 0
  /\ \A i \in 1 .. n : B[i] = B[i - 1] + c[i]

LEMMA BandsOf ==
  ASSUME NEW n \in Nat, NEW c \in [1 .. n -> Nat],
         NEW B, B = [i \in 0 .. n |-> Total([j \in 1 .. i |-> c[j]])]
  PROVE  Bands(B, n, c)
<1>1. ASSUME NEW i \in 0 .. n PROVE Total([j \in 1 .. i |-> c[j]]) \in Nat
  <2> DEFINE u == [j \in 1 .. i |-> c[j]]
  <2>1. i \in Nat /\ u \in [1 .. i -> Nat]
    OBVIOUS
  <2> HIDE DEF u
  <2>2. Total(u) \in Nat
    BY <2>1, TotalHas
  <2>3. QED BY <2>2 DEF u
<1>2. B \in [0 .. n -> Nat]
  BY <1>1
<1>3. B[0] = 0
  <2> DEFINE u == [j \in 1 .. 0 |-> c[j]]
             z == 0
  <2>1. z \in Nat /\ u \in [1 .. z -> Int]
    OBVIOUS
  <2>2. B[0] = Total(u)
    OBVIOUS
  <2> HIDE DEF u, z
  <2>3. \E g : Sums(g, z, u) /\ Total(u) = g[z]
    BY <2>1, TotalOf
  <2>4. QED BY <2>2, <2>3 DEF Sums, z
<1>4. ASSUME NEW i \in 1 .. n PROVE B[i] = B[i - 1] + c[i]
  <2> DEFINE k == i - 1
             u == [j \in 1 .. k |-> c[j]]
             v == [j \in 1 .. i |-> c[j]]
  <2>1. k \in Nat /\ k + 1 = i /\ k \in 0 .. n /\ i \in 0 .. n
    OBVIOUS
  <2>2. u \in [1 .. k -> Int] /\ v \in [1 .. i -> Int] /\ \A j \in 1 .. k : u[j] = v[j]
    OBVIOUS
  <2>3. B[i] = Total(v) /\ B[k] = Total(u) /\ v[i] = c[i]
    BY <2>1
  <2> HIDE DEF k, u, v
  <2>4. v \in [1 .. k + 1 -> Int]
    BY <2>1, <2>2
  <2>5. Total(v) = Total(u) + v[k + 1]
    BY <2>1, <2>2, <2>4, TotalNext
  <2>6. QED BY <2>1, <2>3, <2>5 DEF k
<1>5. QED BY <1>2, <1>3, <1>4 DEF Bands

LEMMA BandsAscend ==
  ASSUME NEW n \in Nat, NEW c \in [1 .. n -> Nat], NEW B, Bands(B, n, c),
         NEW i \in 0 .. n, NEW k \in 0 .. n, i <= k
  PROVE  B[i] <= B[k]
<1> DEFINE G == {m \in 0 .. n : m < i \/ B[i] <= B[m]}
<1>1. B \in [0 .. n -> Nat] /\ \A m \in 1 .. n : B[m] = B[m - 1] + c[m]
  BY DEF Bands
<1>2. 0 \in G
  BY <1>1
<1>3. ASSUME NEW m \in 1 .. n, m - 1 \in G PROVE m \in G
  <2>1. B[m] = B[m - 1] + c[m] /\ B[m] \in Nat /\ B[m - 1] \in Nat /\ c[m] \in Nat /\ B[i] \in Nat
    BY <1>1
  <2>2. CASE m <= i
    BY <1>1, <2>2
  <2>3. CASE m > i
    BY <1>3, <2>1, <2>3
  <2>4. QED BY <2>2, <2>3
<1>4. k \in G
  <2> HIDE DEF G
  <2>1. QED BY <1>2, <1>3, Upward
<1>5. QED BY <1>1, <1>4

\* Every place of the bands is before their end.
InBands(B, n, c) ==
  \A i \in 1 .. n : \A d \in 0 .. c[i] - 1 : B[i - 1] + d \in 0 .. B[n] - 1

LEMMA BandsWithin ==
  ASSUME NEW n \in Nat, NEW c \in [1 .. n -> Nat], NEW B, Bands(B, n, c)
  PROVE  InBands(B, n, c)
<1>1. B \in [0 .. n -> Nat] /\ \A m \in 1 .. n : B[m] = B[m - 1] + c[m]
  BY DEF Bands
<1>2. ASSUME NEW i \in 1 .. n, NEW d \in 0 .. c[i] - 1
      PROVE  B[i - 1] + d \in 0 .. B[n] - 1
  <2> DEFINE h == i - 1
             p == B[i]
             q == B[n]
             r == B[h]
             s == c[i]
  <2>1. i \in 0 .. n /\ h \in 0 .. n /\ n \in 0 .. n /\ i <= n
    OBVIOUS
  <2>2. B[i] <= B[n]
    BY <2>1, BandsAscend
  <2>3. p \in Nat /\ q \in Nat /\ r \in Nat /\ s \in Nat /\ p = r + s /\ p <= q
    BY <1>1, <2>1, <2>2
  <2>4. d \in 0 .. s - 1
    OBVIOUS
  <2> HIDE DEF p, q, r, s
  <2>5. r + d \in 0 .. q - 1
    BY <2>3, <2>4
  <2>6. QED BY <2>5 DEF q, r
<1>3. QED BY <1>2, Zenon DEF InBands

\* No two places of the bands are the same.
Apart(B, n, c) ==
  \A i \in 1 .. n : \A d \in 0 .. c[i] - 1 :
    \A k \in 1 .. n : \A e \in 0 .. c[k] - 1 :
      B[i - 1] + d = B[k - 1] + e => i = k /\ d = e

LEMMA BandsApart ==
  ASSUME NEW n \in Nat, NEW c \in [1 .. n -> Nat], NEW B, Bands(B, n, c)
  PROVE  Apart(B, n, c)
<1>0. SUFFICES ASSUME NEW i \in 1 .. n, NEW d \in 0 .. c[i] - 1,
                      NEW k \in 1 .. n, NEW e \in 0 .. c[k] - 1,
                      B[i - 1] + d = B[k - 1] + e
               PROVE  i = k /\ d = e
  BY Zenon DEF Apart
<1>1. B \in [0 .. n -> Nat] /\ \A m \in 1 .. n : B[m] = B[m - 1] + c[m]
  BY DEF Bands
<1>2. ASSUME NEW g \in 1 .. n, NEW m \in 1 .. n, g < m,
             NEW u \in 0 .. c[g] - 1, NEW f \in 0 .. c[m] - 1
      PROVE  B[g - 1] + u < B[m - 1] + f
  <2> DEFINE j == m - 1
             h == g - 1
             p == B[g]
             q == B[j]
             r == B[h]
             s == c[g]
  <2>1. g \in 0 .. n /\ j \in 0 .. n /\ h \in 0 .. n /\ g <= j
    BY <1>2
  <2>2. B[g] <= B[j]
    <3> HIDE DEF j
    <3>1. QED BY <2>1, BandsAscend
  <2>3. p \in Nat /\ q \in Nat /\ r \in Nat /\ s \in Nat /\ p = r + s /\ p <= q
    BY <1>1, <2>1, <2>2
  <2>4. u \in 0 .. s - 1 /\ f \in Nat
    OBVIOUS
  <2> HIDE DEF p, q, r, s
  <2>5. r + u < q + f
    BY <2>3, <2>4
  <2>6. QED BY <2>5 DEF q, r
<1> DEFINE x == B[i - 1] + d
           y == B[k - 1] + e
<1>3. B[i - 1] \in Nat /\ B[k - 1] \in Nat
  BY <1>1
<1>4. x \in Int /\ y \in Int /\ x = y
  <2> DEFINE a == B[i - 1]
             b == B[k - 1]
  <2>1. a \in Nat /\ b \in Nat /\ d \in Int /\ e \in Int
    BY <1>3
  <2> HIDE DEF a, b
  <2>2. a + d \in Int /\ b + e \in Int
    BY <2>1
  <2>3. QED BY <1>0, <2>2 DEF a, b
<1>9. B[i - 1] + d = B[k - 1] + e
  BY <1>0
<1>5. (i < k => x < y) /\ (k < i => y < x)
  BY <1>2
<1> HIDE DEF x, y
<1>6. i = k
  BY <1>4, <1>5
<1>7. d = e
  <2> DEFINE a == B[i - 1]
  <2>1. a \in Nat /\ a + d = a + e
    BY <1>3, <1>6, <1>9
  <2>2. d \in Int /\ e \in Int
    OBVIOUS
  <2> HIDE DEF a
  <2>3. QED BY <2>1, <2>2
<1>8. QED BY <1>6, <1>7

\* r is the rows, each of c[i] values, one after the other.
Rowed(r, rows, n, B, c) ==
  /\ r \in Seq(Int8) /\ Len(r) = B[n]
  /\ \A x \in 1 .. B[n] :
       \E i \in 1 .. n : \E d \in 0 .. c[i] - 1 : x = B[i - 1] + d + 1 /\ r[x] = rows[i][d + 1]

LEMMA PartialsExist ==
  ASSUME NEW n \in Nat \ {0}, NEW S, NEW rows \in [1 .. n -> Seq(S)], Len(rows) = n
  PROVE  \E g : Partials(g, rows) /\ g[1] \in Seq(S)
<1> DEFINE T == Seq(S)
           F == [p \in T \X (1 .. n) |-> p[1] \o rows[p[2]]]
<1>1. F \in [T \X (1 .. n) -> T]
  <2>1. ASSUME NEW p \in T \X (1 .. n) PROVE p[1] \o rows[p[2]] \in T
    <3>1. p[1] \in Seq(S) /\ rows[p[2]] \in Seq(S)
      OBVIOUS
    <3>2. QED BY <3>1, ConcatProperties
  <2> HIDE DEF T
  <2>2. QED BY <2>1
<1>2. << >> \in T
  BY EmptySeq
<1>3. PICK h : Folds(h, n, T, << >>, F)
  <2> HIDE DEF T, F
  <2>1. n \in Nat
    OBVIOUS
  <2>2. QED BY <1>1, <1>2, <2>1, FoldExists
<1>4. h \in [SUBSET (1 .. n) -> T]
  BY <1>3 DEF Folds
<1>5. ASSUME NEW k \in 1 .. n
      PROVE  /\ h[1 .. k] = h[1 .. k - 1] \o rows[k]
             /\ 1 .. k - 1 \in SUBSET (1 .. n)
  <2>1. /\ 1 .. k \in SUBSET (1 .. n) /\ 1 .. k # {}
        /\ Max(1 .. k) = k /\ (1 .. k) \ {k} = 1 .. k - 1
    BY PrefixOf
  <2>2. h[1 .. k] = F[<<h[1 .. k - 1], k>>]
    <3> HIDE DEF F, T
    <3>1. QED BY <1>3, <2>1 DEF Folds
  <2>3. 1 .. k - 1 \in SUBSET (1 .. n)
    OBVIOUS
  <2>4. h[1 .. k - 1] \in T
    BY <1>4, <2>3
  <2> DEFINE s == h[1 .. k - 1]
  <2> HIDE DEF s
  <2>5. F[<<s, k>>] = s \o rows[k]
    <3>1. <<s, k>> \in T \X (1 .. n) /\ <<s, k>>[1] = s /\ <<s, k>>[2] = k
      BY <2>4 DEF s
    <3> HIDE DEF T
    <3>2. QED BY <3>1
  <2>6. QED BY <2>2, <2>3, <2>5 DEF s
<1>6. h[{}] = << >>
  <2>1. {} \in SUBSET (1 .. n)
    OBVIOUS
  <2> HIDE DEF T, F
  <2>2. QED BY <1>3, <2>1 DEF Folds
<1> HIDE DEF F
<1> DEFINE g == [i \in 1 .. n |-> h[1 .. i]]
<1>7. g[1] = rows[1] /\ rows[1] \in Seq(S)
  <2>1. 1 \in 1 .. n /\ 1 .. 1 - 1 = {}
    OBVIOUS
  <2>2. h[1 .. 1] = h[1 .. 1 - 1] \o rows[1]
    BY <1>5, <2>1
  <2>3. rows[1] \in Seq(S)
    BY <2>1
  <2>4. << >> \o rows[1] = rows[1]
    BY <2>3, ConcatEmptySeq
  <2>5. h[1 .. 1] = rows[1]
    BY <1>6, <2>1, <2>2, <2>4
  <2>6. QED BY <2>1, <2>3, <2>5
<1>8. ASSUME NEW i \in 2 .. n PROVE g[i] = g[i - 1] \o rows[i]
  <2>1. i \in 1 .. n /\ i - 1 \in 1 .. n
    OBVIOUS
  <2>2. h[1 .. i] = h[1 .. i - 1] \o rows[i]
    BY <1>5, <2>1
  <2>3. QED BY <2>1, <2>2
<1>9. g = [i \in 1 .. Len(rows) |-> g[i]]
  OBVIOUS
<1> HIDE DEF g
<1>10. Partials(g, rows)
  BY <1>7, <1>8, <1>9 DEF Partials
<1>11. QED BY <1>7, <1>10

LEMMA RowsJoined ==
  ASSUME NEW n \in Nat \ {0}, NEW c \in [1 .. n -> Nat], NEW B, Bands(B, n, c),
         NEW rows \in [1 .. n -> Seq(Int8)], Len(rows) = n,
         \A i \in 1 .. n : Len(rows[i]) = c[i]
  PROVE  Rowed(FlattenSeq(rows), rows, n, B, c)
<1>1. PICK g : Partials(g, rows) /\ g[1] \in Seq(Int8)
  BY PartialsExist
<1>2. FlattenSeq(rows) = g[n]
  BY <1>1, Flattened
<1>3. B \in [0 .. n -> Nat] /\ B[0] = 0 /\ \A m \in 1 .. n : B[m] = B[m - 1] + c[m]
  BY DEF Bands
<1>4. g[1] = rows[1] /\ \A m \in 2 .. n : g[m] = g[m - 1] \o rows[m]
  BY <1>1 DEF Partials
<1> DEFINE G == {m \in 0 .. n : m = 0 \/ Rowed(g[m], rows, m, B, c)}
<1>5. 0 \in G
  OBVIOUS
<1>6. ASSUME NEW m \in 1 .. n, m - 1 \in G PROVE m \in G
  <2>1. /\ B[m] = B[m - 1] + c[m] /\ B[m] \in Nat /\ B[m - 1] \in Nat /\ c[m] \in Nat
        /\ Len(rows[m]) = c[m] /\ rows[m] \in Seq(Int8)
    BY <1>3
  <2> DEFINE r == g[m]
  <2>2. CASE m = 1
    <3>1. r = rows[m] /\ B[m - 1] = 0 /\ B[m] = c[m]
      BY <1>3, <1>4, <2>1, <2>2
    <3>2. r \in Seq(Int8) /\ Len(r) = B[m]
      BY <2>1, <3>1
    <3>3. ASSUME NEW x \in 1 .. B[m]
          PROVE  \E i \in 1 .. m : \E d \in 0 .. c[i] - 1 :
                   x = B[i - 1] + d + 1 /\ r[x] = rows[i][d + 1]
      <4> DEFINE d == x - 1
      <4>1. d \in 0 .. c[m] - 1 /\ x = d + 1
        BY <2>1, <3>1
      <4> HIDE DEF d
      <4>2. x = B[m - 1] + d + 1 /\ r[x] = rows[m][d + 1]
        BY <3>1, <4>1
      <4>3. m \in 1 .. m
        OBVIOUS
      <4>4. QED BY <4>1, <4>2, <4>3
    <3>4. QED BY <3>2, <3>3 DEF Rowed
  <2>3. CASE m # 1
    <3> DEFINE k == m - 1
               p == g[k]
               w == rows[m]
               e == B[k]
    <3>1. /\ m \in 2 .. n /\ Rowed(p, rows, k, B, c) /\ k \in 1 .. n /\ m = k + 1
      BY <1>6, <2>3
    <3>2. r = p \o w
      BY <1>4, <3>1
    <3>3. p \in Seq(Int8) /\ Len(p) = e /\ w \in Seq(Int8) /\ Len(w) = c[m] /\ e \in Nat
      BY <2>1, <3>1 DEF Rowed
    <3>4. /\ r \in Seq(Int8) /\ Len(r) = e + c[m]
          /\ \A x \in 1 .. e + c[m] : r[x] = IF x <= e THEN p[x] ELSE w[x - e]
      <4> HIDE DEF r, p, w, e
      <4>1. QED BY <3>2, <3>3, ConcatProperties
    <3>5. B[m] = e + c[m]
      BY <2>1
    <3>6. ASSUME NEW x \in 1 .. B[m]
          PROVE  \E i \in 1 .. m : \E d \in 0 .. c[i] - 1 :
                   x = B[i - 1] + d + 1 /\ r[x] = rows[i][d + 1]
      <4>1. CASE x <= e
        <5>1. x \in 1 .. e /\ r[x] = p[x]
          <6> HIDE DEF r, p, w, e, k
          <6>1. QED BY <3>3, <3>4, <3>5, <4>1
        <5>2. PICK i \in 1 .. k : \E d \in 0 .. c[i] - 1 :
                x = B[i - 1] + d + 1 /\ p[x] = rows[i][d + 1]
          BY <3>1, <5>1 DEF Rowed
        <5>3. i \in 1 .. m
          OBVIOUS
        <5> HIDE DEF r, p, e, k
        <5>4. QED BY <5>1, <5>2, <5>3
      <4>2. CASE ~(x <= e)
        <5> DEFINE d == x - e - 1
        <5>1. d \in 0 .. c[m] - 1 /\ x = e + d + 1 /\ x - e = d + 1
          <6> HIDE DEF e
          <6>1. QED BY <2>1, <3>3, <3>5, <4>2
        <5>2. r[x] = w[x - e]
          <6> HIDE DEF r, p, w, e, k
          <6>1. QED BY <3>3, <3>4, <3>5, <4>2
        <5>3. m \in 1 .. m /\ r[x] = rows[m][d + 1] /\ x = B[m - 1] + d + 1
          BY <5>1, <5>2
        <5> HIDE DEF d, r
        <5>4. QED BY <5>1, <5>3
      <4>3. QED BY <4>1, <4>2
    <3>7. QED BY <3>4, <3>5, <3>6 DEF Rowed
  <2>4. QED BY <2>2, <2>3
<1>7. n \in G
  <2>1. n \in 0 .. n /\ n \in Nat
    OBVIOUS
  <2> HIDE DEF G
  <2>2. QED BY <1>5, <1>6, <2>1, Upward
<1>8. QED BY <1>2, <1>7

-----------------------------------------------------------------------------
(* Joining tensors by their channels.                                      *)

\* A slice of a sequence, for any width, empty ones included.
Slice(s, r, k) == SubSeq(s, r * k + 1, (r + 1) * k)

LEMMA SliceHas ==
  ASSUME NEW s \in Seq(Int8), NEW m \in Nat, NEW k \in Nat, Len(s) = k * m,
         NEW r \in 0 .. m - 1
  PROVE  /\ Slice(s, r, k) \in Seq(Int8) /\ Len(Slice(s, r, k)) = k
         /\ \A d \in 0 .. k - 1 : Slice(s, r, k)[d + 1] = s[r * k + d + 1]
<1> DEFINE a == r * k + 1
           b == (r + 1) * k
           u == r * k
<1>1. u \in Nat /\ b = u + k /\ u + k <= k * m
  <2>1. r \in Nat /\ r < m
    OBVIOUS
  <2>2. u \in Nat /\ m * k \in Nat
    BY <2>1, Product
  <2>3. u + k <= m * k
    BY <2>1, RowsAscend
  <2>4. b = u + k /\ m * k = k * m
    BY <2>1
  <2> HIDE DEF u, b
  <2>5. QED BY <2>2, <2>3, <2>4
<1>2. a = u + 1
  OBVIOUS
<1> HIDE DEF a, b, u
<1>3. a \in Int /\ b \in Int /\ b - a + 1 = k
  BY <1>1, <1>2
<1>4. ASSUME NEW i \in a .. b PROVE s[i] \in Int8
  <2> DEFINE l == Len(s)
  <2>1. l \in Nat /\ l = k * m
    OBVIOUS
  <2>2. i \in 1 .. l
    <3> DEFINE t == k * m
    <3>1. t \in Nat /\ l = t
      BY <2>1
    <3>2. u + k <= t
      BY <1>1
    <3> HIDE DEF t, l
    <3>3. QED BY <1>1, <1>2, <3>1, <3>2
  <2>3. QED BY <2>2, ElementOfSeq
<1>5. /\ SubSeq(s, a, b) \in Seq(Int8)
      /\ Len(SubSeq(s, a, b)) = IF a <= b THEN b - a + 1 ELSE 0
      /\ \A i \in 1 .. b - a + 1 : SubSeq(s, a, b)[i] = s[a + i - 1]
  BY <1>3, <1>4, SubSeqProperties
<1>6. Len(SubSeq(s, a, b)) = k
  BY <1>1, <1>2, <1>3, <1>5
<1>7. Slice(s, r, k) = SubSeq(s, a, b)
  BY DEF Slice, a, b
<1>8. ASSUME NEW d \in 0 .. k - 1 PROVE SubSeq(s, a, b)[d + 1] = s[u + d + 1]
  <2> DEFINE i == d + 1
  <2>1. i \in 1 .. b - a + 1 /\ a + i - 1 = u + d + 1
    BY <1>1, <1>2, <1>3
  <2> HIDE DEF i
  <2>2. SubSeq(s, a, b)[i] = s[a + i - 1]
    BY <1>5, <2>1
  <2>3. QED BY <2>1, <2>2 DEF i
<1>9. QED BY <1>5, <1>6, <1>7, <1>8 DEF u

\* Where the channels of every part lie.
Parted(parts, P, n, c, B) ==
  /\ n = Len(parts) /\ n \in Nat /\ parts \in Seq(Seq(Int8)) /\ P \in Nat \ {0}
  /\ c \in [1 .. n -> Nat] /\ Bands(B, n, c)
  /\ \A i \in 1 .. n : Len(parts[i]) \div P = c[i] /\ Len(parts[i]) = c[i] * P

LEMMA PartedExists ==
  ASSUME NEW parts \in Seq(Seq(Int8)), NEW P \in Nat \ {0},
         \A i \in DOMAIN parts : Len(parts[i]) % P = 0
  PROVE  \E n, c, B :
           /\ Parted(parts, P, n, c, B)
           /\ \A i \in 0 .. n :
                B[i] = Total([j \in 1 .. i |-> Len(parts[j]) \div P])
<1> DEFINE n == Len(parts)
           c == [i \in 1 .. n |-> Len(parts[i]) \div P]
           B == [i \in 0 .. n |-> Total([j \in 1 .. i |-> c[j]])]
<1>1. n \in Nat /\ DOMAIN parts = 1 .. n /\ \A i \in 1 .. n : parts[i] \in Seq(Int8)
  BY ElementOfSeq
<1>2. ASSUME NEW i \in 1 .. n
      PROVE  /\ Len(parts[i]) \div P \in Nat
             /\ Len(parts[i]) = (Len(parts[i]) \div P) * P
  <2> DEFINE l == Len(parts[i])
             q == l \div P
  <2>1. l \in Nat /\ l % P = 0
    <3>1. parts[i] \in Seq(Int8) /\ i \in DOMAIN parts
      BY <1>1
    <3>2. QED BY <3>1, LenProperties
  <2> HIDE DEF l
  <2>2. q \in Nat /\ q * P \in Nat /\ l = q * P + (l % P)
    BY <2>1, RowOf
  <2> HIDE DEF q
  <2>3. l = q * P
    <3> DEFINE t == q * P
    <3>1. t \in Nat /\ l = t + (l % P)
      BY <2>2
    <3> HIDE DEF t
    <3>2. l = t
      BY <2>1, <3>1
    <3>3. QED BY <3>2 DEF t
  <2>4. QED BY <2>2, <2>3 DEF l, q
<1>3. c \in [1 .. n -> Nat]
  <2> HIDE DEF n
  <2>1. QED BY <1>2
<1>4. Bands(B, n, c)
  <2> HIDE DEF c, n
  <2>1. QED BY <1>1, <1>3, BandsOf
<1>5. ASSUME NEW i \in 0 .. n
      PROVE  B[i] = Total([j \in 1 .. i |-> Len(parts[j]) \div P])
  <2>1. [j \in 1 .. i |-> c[j]] = [j \in 1 .. i |-> Len(parts[j]) \div P]
    <3>1. \A j \in 1 .. i : j \in 1 .. n
      BY <1>1
    <3>2. \A j \in 1 .. i : c[j] = Len(parts[j]) \div P
      BY <3>1
    <3> HIDE DEF c
    <3>3. QED BY <3>2, Zenon
  <2>2. B[i] = Total([j \in 1 .. i |-> c[j]])
    <3> HIDE DEF c, n
    <3>1. QED OBVIOUS
  <2>3. QED BY <2>1, <2>2
<1>6. \A i \in 1 .. n : c[i] = Len(parts[i]) \div P
  <2> HIDE DEF n
  <2>1. QED OBVIOUS
<1>7. \A i \in 1 .. n : Len(parts[i]) \div P = c[i] /\ Len(parts[i]) = c[i] * P
  <2> HIDE DEF c, n
  <2>1. QED BY <1>2, <1>6
<1>8. Parted(parts, P, n, c, B)
  <2> HIDE DEF B, c
  <2>1. QED BY <1>1, <1>3, <1>4, <1>7, Zenon DEF Parted, n
<1> HIDE DEF B, c, n
<1>9. QED BY <1>5, <1>8, Zenon

\* Channel d of part i of pixel r, and no other value, goes to its place.
Lands(B, n, c, P, i, d, r) ==
  /\ r * B[n] + B[i - 1] + d \in 0 .. B[n] * P - 1
  /\ \A k \in 1 .. n : \A e \in 0 .. c[k] - 1 : \A q \in 0 .. P - 1 :
       q * B[n] + B[k - 1] + e = r * B[n] + B[i - 1] + d => k = i /\ e = d /\ q = r

LEMMA ChannelOne ==
  ASSUME NEW parts, NEW P \in Nat \ {0}, NEW n \in Nat, NEW c \in [1 .. n -> Nat], NEW B,
         Parted(parts, P, n, c, B),
         NEW i \in 1 .. n, NEW d \in 0 .. c[i] - 1, NEW r \in 0 .. P - 1
  PROVE  Lands(B, n, c, P, i, d, r)
<1> DEFINE w == B[n]
<1>1. n \in Nat /\ P \in Nat \ {0} /\ c \in [1 .. n -> Nat] /\ Bands(B, n, c)
  BY DEF Parted
<1>2. w \in Nat /\ \A k \in 1 .. n : B[k - 1] \in Nat /\ c[k] \in Nat
  BY <1>1 DEF Bands
<1>3. ASSUME NEW k \in 1 .. n, NEW e \in 0 .. c[k] - 1, NEW q \in 0 .. P - 1
      PROVE  /\ q * w + B[k - 1] + e = q * w + (B[k - 1] + e)
             /\ B[k - 1] + e \in 0 .. w - 1 /\ q \in Nat
  <2>1. B[k - 1] + e \in 0 .. w - 1
    <3>1. InBands(B, n, c)
      BY <1>1, BandsWithin
    <3>2. QED BY <3>1, Zenon DEF InBands
  <2>2. q * w \in Nat /\ q \in Nat
    BY <1>2, Product, SMTT(30)
  <2> DEFINE t == q * w
             b == B[k - 1]
  <2>3. t \in Nat /\ b \in Nat /\ e \in Int
    BY <1>2, <2>2
  <2> HIDE DEF t, b
  <2>4. t + b + e = t + (b + e)
    BY <2>3
  <2>5. QED BY <2>1, <2>2, <2>4 DEF t, b
<1>4. w \in Nat \ {0}
  <2>1. B[i - 1] + d \in 0 .. w - 1
    BY <1>3
  <2> HIDE DEF w
  <2>2. QED BY <1>2, <2>1
<1> DEFINE x == B[i - 1] + d
<1>5. x \in 0 .. w - 1 /\ r * w + B[i - 1] + d = r * w + x
  BY <1>3
<1>6. r * w + x \in 0 .. w * P - 1
  <2>1. P * w = w * P
    BY <1>1, <1>2
  <2> HIDE DEF w, x
  <2>2. r * w + x \in 0 .. P * w - 1
    BY <1>1, <1>4, <1>5, InRows
  <2>3. QED BY <2>1, <2>2
<1>7. ASSUME NEW k \in 1 .. n, NEW e \in 0 .. c[k] - 1, NEW q \in 0 .. P - 1,
             q * w + B[k - 1] + e = r * w + B[i - 1] + d
      PROVE  k = i /\ e = d /\ q = r
  <2> DEFINE y == B[k - 1] + e
  <2>1. y \in 0 .. w - 1 /\ q * w + B[k - 1] + e = q * w + y
    BY <1>3
  <2>2. q * w + y = r * w + x
    BY <1>5, <1>7, <2>1
  <2>3. q \in Nat /\ r \in Nat /\ y \in 0 .. w - 1 /\ x \in 0 .. w - 1
    BY <1>1, <1>5, <2>1
  <2>4. B[k - 1] + e = B[i - 1] + d => k = i /\ e = d
    <3>1. Apart(B, n, c)
      BY <1>1, BandsApart
    <3>2. QED BY <3>1, Zenon DEF Apart
  <2>5. y = x => k = i /\ e = d
    BY <2>4, Zenon DEF x, y
  <2> HIDE DEF w, x, y
  <2>6. q = r /\ y = x
    <3> DEFINE W == w
               X == x
               Y == y
               m == q
               l == r
    <3>1. W \in Nat \ {0} /\ X \in 0 .. W - 1 /\ Y \in 0 .. W - 1 /\ m \in Nat /\ l \in Nat
      BY <1>4, <2>3
    <3>2. m * W + Y = l * W + X
      BY <2>2
    <3> HIDE DEF W, X, Y, m, l
    <3>3. m = l /\ Y = X
      BY <3>1, <3>2, OneRow
    <3>4. QED BY <3>3 DEF m, l, X, Y
  <2>7. QED BY <2>5, <2>6
<1>8. r * w + B[i - 1] + d \in 0 .. w * P - 1
  BY <1>5, <1>6
<1>9. QED BY <1>7, <1>8, Zenon DEF Lands, w

LEMMA ChannelsExact ==
  ASSUME NEW o, o.kernel = "channels", WellFormedCall(o)
  PROVE  Promised(o, Run(o))
<1> DEFINE parts == o.parts
           P == o.pixels
           ch(i) == Len(parts[i]) \div P
           before(i) == Total([j \in 1 .. i - 1 |-> ch(j)])
           total == before(Len(parts) + 1)
           C == UNION {{i} \X (0 .. P - 1) \X (0 .. ch(i) - 1) : i \in DOMAIN parts}
           dst(e) == e[2] * total + before(e[1]) + e[3]
           val(e) == parts[e[1]][e[2] * ch(e[1]) + e[3] + 1]
           got == Run(o)
           N == total * P
           row(r) == FlattenSeq([i \in DOMAIN parts |->
                       SubSeq(parts[i], r * ch(i) + 1, (r + 1) * ch(i))])
<1>1. /\ got = concat_channel_int8(parts, P) /\ P \in Nat \ {0} /\ parts \in Seq(Seq(Int8))
      /\ \A i \in DOMAIN parts : Len(parts[i]) % P = 0
  BY DEF WellFormedCall, Run
<1>2. got = [a \in 0 .. N - 1 |-> {val(e) : e \in {x \in C : dst(x) = a}}]
  BY <1>1, Zenon DEF concat_channel_int8, Stores
<1>3. SUFFICES ASSUME NEW r \in 0 .. P - 1, NEW x \in DOMAIN row(r)
               PROVE  got[r * Len(row(r)) + x - 1] = {row(r)[x]}
  <2>1. Promised(o, got) <=>
          \A r \in 0 .. P - 1 : \A x \in DOMAIN row(r) :
            got[r * Len(row(r)) + x - 1] = {row(r)[x]}
    BY DEF Promised
  <2> DEFINE D == 0 .. P - 1
             Right(r) == \A x \in DOMAIN row(r) : got[r * Len(row(r)) + x - 1] = {row(r)[x]}
  <2>2. Promised(o, got) <=> \A r \in D : Right(r)
    BY <2>1
  <2> HIDE DEF D, Right
  <2>3. (\A r \in D : Right(r)) => Promised(o, got)
    BY <2>2, Zenon
  <2>4. QED BY <2>3, Zenon DEF D, Right, got
<1> HIDE DEF got
<1>4. PICK n, c, B : /\ Parted(parts, P, n, c, B)
                     /\ \A i \in 0 .. n : B[i] = Total([j \in 1 .. i |-> ch(j)])
  <2> HIDE DEF parts, P
  <2>1. QED BY <1>1, PartedExists
<1>5. /\ n = Len(parts) /\ n \in Nat /\ DOMAIN parts = 1 .. n
      /\ c \in [1 .. n -> Nat] /\ Bands(B, n, c)
      /\ \A i \in 1 .. n : ch(i) = c[i] /\ Len(parts[i]) = c[i] * P /\ parts[i] \in Seq(Int8)
  <2> HIDE DEF P
  <2>1. n = Len(parts) /\ n \in Nat /\ c \in [1 .. n -> Nat] /\ Bands(B, n, c)
        /\ \A i \in 1 .. n : ch(i) = c[i] /\ Len(parts[i]) = c[i] * P
    BY <1>4, Zenon DEF Parted
  <2> HIDE DEF parts
  <2>2. DOMAIN parts = 1 .. n
    BY <1>1, <2>1
  <2>3. \A i \in 1 .. n : parts[i] \in Seq(Int8)
    BY <1>1, <2>1, ElementOfSeq
  <2>4. QED BY <2>1, <2>2, <2>3, Zenon
<1>6. ASSUME NEW i \in 0 .. n PROVE before(i + 1) = B[i]
  <2>1. (i + 1) - 1 = i
    BY <1>5
  <2>2. before(i + 1) = Total([j \in 1 .. i |-> ch(j)])
    <3> HIDE DEF parts, P, ch
    <3>1. QED BY <2>1
  <2>3. QED BY <1>4, <2>2
<1>7. total = B[n] /\ \A i \in 1 .. n : before(i) = B[i - 1]
  <2> HIDE DEF ch, parts
  <2>1. n \in 0 .. n
    BY <1>5
  <2>2. before(n + 1) = B[n]
    <3> HIDE DEF before
    <3>1. QED BY <1>6, <2>1
  <2>3. ASSUME NEW i \in 1 .. n PROVE before(i) = B[i - 1]
    <3> DEFINE k == i - 1
    <3>1. k \in 0 .. n /\ k + 1 = i
      BY <1>5
    <3> HIDE DEF k, before
    <3>2. before(k + 1) = B[k]
      BY <1>6, <3>1
    <3>3. QED BY <3>1, <3>2 DEF k
  <2> HIDE DEF before
  <2>4. QED BY <1>5, <2>2, <2>3
<1> DEFINE rows == [i \in 1 .. n |-> Slice(parts[i], r, c[i])]
<1>8. row(r) = FlattenSeq(rows)
  <2> HIDE DEF parts, P
  <2>1. \A i \in DOMAIN parts :
          SubSeq(parts[i], r * ch(i) + 1, (r + 1) * ch(i)) = Slice(parts[i], r, c[i])
    <3> HIDE DEF ch
    <3>1. \A i \in 1 .. n : ch(i) = c[i]
      BY <1>5
    <3>2. QED BY <1>5, <3>1, Zenon DEF Slice
  <2>2. [i \in DOMAIN parts |-> SubSeq(parts[i], r * ch(i) + 1, (r + 1) * ch(i))]
          = [i \in DOMAIN parts |-> Slice(parts[i], r, c[i])]
    <3> HIDE DEF ch
    <3>1. QED BY <2>1, Zenon
  <2>3. QED BY <1>5, <2>2, Zenon
<1>9. ASSUME NEW i \in 1 .. n
      PROVE  /\ rows[i] \in Seq(Int8) /\ Len(rows[i]) = c[i]
             /\ \A d \in 0 .. c[i] - 1 : rows[i][d + 1] = parts[i][r * c[i] + d + 1]
  <2> DEFINE s == parts[i]
             k == c[i]
  <2>1. s \in Seq(Int8) /\ Len(s) = k * P /\ k \in Nat /\ P \in Nat
    BY <1>1, <1>5
  <2>2. rows[i] = Slice(s, r, k)
    <3> HIDE DEF parts
    <3>1. QED OBVIOUS
  <2> HIDE DEF s, k, P, rows
  <2>3. /\ Slice(s, r, k) \in Seq(Int8) /\ Len(Slice(s, r, k)) = k
        /\ \A d \in 0 .. k - 1 : Slice(s, r, k)[d + 1] = s[r * k + d + 1]
    BY <2>1, SliceHas
  <2> DEFINE u == rows[i]
  <2>4. u = Slice(s, r, k)
    BY <2>2
  <2> HIDE DEF u
  <2>5. u \in Seq(Int8) /\ Len(u) = k /\ \A d \in 0 .. k - 1 : u[d + 1] = s[r * k + d + 1]
    BY <2>3, <2>4, Zenon
  <2>6. QED BY <2>5, Zenon DEF s, k, u
<1>10. n # 0
  <2>1. ASSUME n = 0 PROVE FALSE
    <3>1. rows = << >>
      BY <2>1
    <3>2. row(r) = << >>
      BY <1>8, <3>1, Zenon DEF FlattenSeq
    <3>3. QED BY <3>2
  <2>2. QED BY <2>1
<1> HIDE DEF total, before, ch, parts, P
<1>11. Rowed(row(r), rows, n, B, c)
  <2>1. rows \in [1 .. n -> Seq(Int8)] /\ Len(rows) = n
    <3>1. \A i \in 1 .. n : rows[i] \in Seq(Int8)
      BY <1>9
    <3>2. rows = [i \in 1 .. n |-> rows[i]]
      OBVIOUS
    <3> HIDE DEF rows
    <3>3. rows \in [1 .. n -> Seq(Int8)]
      BY <3>1, <3>2
    <3>4. rows \in Seq(Seq(Int8))
      <4> DEFINE S == Seq(Int8)
      <4>1. n \in Nat /\ rows \in [1 .. n -> S]
        BY <1>5, <3>3
      <4> HIDE DEF S
      <4>2. Seq(S) = UNION {[1 .. m -> S] : m \in Nat}
        BY SeqDef
      <4>3. rows \in Seq(S)
        BY <4>1, <4>2
      <4>4. QED BY <4>3 DEF S
    <3>5. QED BY <1>5, <3>3, <3>4
  <2>2. \A i \in 1 .. n : Len(rows[i]) = c[i]
    BY <1>9
  <2>3. n \in Nat \ {0}
    BY <1>5, <1>10
  <2> HIDE DEF rows, row
  <2>4. Rowed(FlattenSeq(rows), rows, n, B, c)
    BY <1>5, <2>1, <2>2, <2>3, RowsJoined
  <2>5. QED BY <1>8, <2>4
<1> DEFINE w == B[n]
<1>12. Len(row(r)) = w /\ x \in 1 .. w
  <2> HIDE DEF row
  <2>1. row(r) \in Seq(Int8) /\ Len(row(r)) = w
    BY <1>11 DEF Rowed
  <2>2. QED BY <2>1
<1>13. PICK i \in 1 .. n : \E d \in 0 .. c[i] - 1 :
              x = B[i - 1] + d + 1 /\ row(r)[x] = rows[i][d + 1]
  <2> HIDE DEF row, rows
  <2>1. \A y \in 1 .. w : \E i \in 1 .. n : \E d \in 0 .. c[i] - 1 :
          y = B[i - 1] + d + 1 /\ row(r)[y] = rows[i][d + 1]
    BY <1>11, Zenon DEF Rowed
  <2> HIDE DEF w
  <2>2. QED BY <1>12, <2>1, Zenon
<1>14. PICK d \in 0 .. c[i] - 1 : x = B[i - 1] + d + 1 /\ row(r)[x] = rows[i][d + 1]
  BY <1>13
<1> DEFINE E == <<i, r, d>>
           a == r * w + B[i - 1] + d
<1>15. w \in Nat /\ B[i - 1] \in Nat /\ r * w \in Nat /\ r \in Nat
  <2>1. B \in [0 .. n -> Nat]
    BY <1>5 DEF Bands
  <2>2. n \in 0 .. n /\ i - 1 \in 0 .. n
    BY <1>5
  <2>3. w \in Nat /\ B[i - 1] \in Nat
    BY <2>1, <2>2
  <2> HIDE DEF w
  <2>4. QED BY <1>1, <2>3, Product
<1>16. r * Len(row(r)) + x - 1 = a
  <2> DEFINE t == r * w
             b == B[i - 1]
  <2>1. t \in Nat /\ b \in Nat /\ d \in Int /\ x = b + d + 1
    BY <1>14, <1>15
  <2>2. r * Len(row(r)) = t
    BY <1>12
  <2> HIDE DEF t, b, row
  <2>3. t + x - 1 = t + b + d
    BY <2>1
  <2>4. QED BY <2>2, <2>3 DEF t, b
<1>17. /\ a \in 0 .. w * P - 1
       /\ \A k \in 1 .. n : \A e \in 0 .. c[k] - 1 : \A q \in 0 .. P - 1 :
            q * w + B[k - 1] + e = a => k = i /\ e = d /\ q = r
  <2>1. Lands(B, n, c, P, i, d, r)
    BY <1>1, <1>4, <1>5, ChannelOne
  <2>2. QED BY <2>1, Zenon DEF Lands
<1>18. ASSUME NEW k \in 1 .. n, NEW q, NEW f
       PROVE  /\ dst(<<k, q, f>>) = q * w + B[k - 1] + f
              /\ val(<<k, q, f>>) = parts[k][q * c[k] + f + 1]
  <2>1. dst(<<k, q, f>>) = q * total + before(k) + f
    OBVIOUS
  <2>2. val(<<k, q, f>>) = parts[k][q * ch(k) + f + 1]
    OBVIOUS
  <2>3. total = w /\ before(k) = B[k - 1] /\ ch(k) = c[k]
    BY <1>5, <1>7
  <2> HIDE DEF dst, val, w
  <2>4. QED BY <2>1, <2>2, <2>3, Zenon
<1>19. ASSUME NEW e \in C
       PROVE  \E k \in 1 .. n : \E q \in 0 .. P - 1 : \E f \in 0 .. c[k] - 1 : e = <<k, q, f>>
  <2>1. PICK k \in DOMAIN parts : e \in {k} \X (0 .. P - 1) \X (0 .. ch(k) - 1)
    OBVIOUS
  <2>2. k \in 1 .. n /\ ch(k) = c[k]
    BY <1>5, <2>1
  <2>3. e \in {k} \X (0 .. P - 1) \X (0 .. c[k] - 1)
    BY <2>1, <2>2, Zenon
  <2>4. PICK z \in {k}, q \in 0 .. P - 1, f \in 0 .. c[k] - 1 : e = <<z, q, f>>
    BY <2>3
  <2>5. QED BY <2>2, <2>4
<1>20. E \in C /\ dst(E) = a
  <2>1. ch(i) = c[i] /\ i \in DOMAIN parts
    BY <1>5
  <2>2. E \in {i} \X (0 .. P - 1) \X (0 .. c[i] - 1)
    OBVIOUS
  <2>3. E \in {i} \X (0 .. P - 1) \X (0 .. ch(i) - 1)
    BY <2>1, <2>2, Zenon
  <2>4. dst(E) = a
    <3> HIDE DEF dst
    <3>1. QED BY <1>18
  <2> HIDE DEF dst, E, a
  <2>5. QED BY <2>1, <2>3, <2>4
<1>21. ASSUME NEW e \in C, dst(e) = a PROVE e = E
  <2> HIDE DEF dst, a, w, C, val
  <2>1. PICK k \in 1 .. n : \E q \in 0 .. P - 1 : \E f \in 0 .. c[k] - 1 : e = <<k, q, f>>
    BY <1>19
  <2>2. PICK q \in 0 .. P - 1 : \E f \in 0 .. c[k] - 1 : e = <<k, q, f>>
    BY <2>1
  <2>3. PICK f \in 0 .. c[k] - 1 : e = <<k, q, f>>
    BY <2>2
  <2>4. dst(e) = q * w + B[k - 1] + f
    BY <1>18, <2>3, Zenon
  <2>5. q * w + B[k - 1] + f = a
    BY <1>21, <2>4, Zenon
  <2>6. k = i /\ f = d /\ q = r
    BY <1>17, <2>5, Zenon
  <2>7. QED BY <2>3, <2>6
<1> DEFINE T == {z \in C : dst(z) = a}
<1>22. T = {E}
  <2> HIDE DEF C, dst, a, E
  <2>1. QED BY <1>20, <1>21
<1>23. got[a] = {val(z) : z \in T}
  <2>1. N = w * P
    BY <1>7
  <2> HIDE DEF C, dst, val, N, w
  <2>2. a \in 0 .. N - 1
    BY <1>17, <2>1, Zenon
  <2> HIDE DEF a
  <2>3. QED BY <1>2, <2>2
<1>24. val(E) = rows[i][d + 1]
  <2>1. val(E) = parts[i][r * c[i] + d + 1]
    <3> HIDE DEF val
    <3>1. QED BY <1>18
  <2> HIDE DEF val, E, rows
  <2>2. QED BY <1>9, <2>1
<1> HIDE DEF T, val, E, a, row, rows
<1>25. got[a] = {row(r)[x]}
  BY <1>14, <1>22, <1>23, <1>24
<1>26. QED BY <1>16, <1>25

(* Every kernel keeps its promise: one case per kernel, from the lemmas    *)
(* above.                                                                  *)
LEMMA EveryCallExact ==
  ASSUME NEW o \in KernelCases, o.kernel # "encode"
  PROVE  Promised(o, Run(o))
<1>1. WellFormedCall(o)
  BY CallsAreWellFormed
<1>2. CASE o.kernel \in {"requant", "isqrt", "rms_norm", "rope", "add_res"}
  <2>1. CASE o.kernel = "requant"
    BY <1>1, <2>1, RequantExact
  <2>2. CASE o.kernel = "isqrt"
    BY <1>1, <2>2, IsqrtExact
  <2>3. CASE o.kernel = "rms_norm"
    BY <1>1, <2>3, NormExact
  <2>4. CASE o.kernel = "rope"
    BY <1>1, <2>4, RopeExact
  <2>5. CASE o.kernel = "add_res"
    BY <1>1, <2>5, AddResExact
  <2>6. QED BY <1>2, <2>1, <2>2, <2>3, <2>4, <2>5
<1>3. CASE o.kernel \in {"attention", "swiglu", "matmul", "conv", "maxpool"}
  <2>1. CASE o.kernel = "attention"
    BY <1>1, <2>1, AttentionExact
  <2>2. CASE o.kernel = "swiglu"
    BY <1>1, <2>2, GateExact
  <2>3. CASE o.kernel = "matmul"
    BY <1>1, <2>3, MatmulExact
  <2>4. CASE o.kernel = "conv"
    BY <1>1, <2>4, ConvExact
  <2>5. CASE o.kernel = "maxpool"
    BY <1>1, <2>5, PoolExact
  <2>6. QED BY <1>3, <2>1, <2>2, <2>3, <2>4, <2>5
<1>4. CASE o.kernel \in {"upsample", "concat", "add"}
  <2>1. CASE o.kernel = "upsample"
    BY <1>1, <2>1, UpsampleExact
  <2>2. CASE o.kernel = "concat"
    BY <1>1, <2>2, ConcatExact
  <2>3. CASE o.kernel = "add"
    BY <1>1, <2>3, AddExact
  <2>4. QED BY <1>4, <2>1, <2>2, <2>3
<1>5. CASE o.kernel \in {"softmax", "channels", "transpose"}
  <2>1. CASE o.kernel = "softmax"
    BY <1>1, <2>1, SoftmaxExact
  <2>2. CASE o.kernel = "channels"
    BY <1>1, <2>2, ChannelsExact
  <2>3. CASE o.kernel = "transpose"
    BY <1>1, <2>3, TransposeExact
  <2>4. QED BY <1>5, <2>1, <2>2, <2>3
<1>6. CASE o.kernel \notin {"requant", "isqrt", "rms_norm", "rope", "add_res", "attention",
                            "swiglu", "matmul", "conv", "maxpool", "upsample", "concat",
                            "add", "softmax", "channels", "transpose"}
  <2>1. o.kernel \in KernelNames
    BY CallsAreWellFormed
  <2>2. QED BY <1>6, <2>1 DEF KernelNames
<1>7. QED BY <1>2, <1>3, <1>4, <1>5, <1>6


\* A result is that of a call the program makes.
KernelInv ==
  /\ kcase.kernel # "off" => kcase \in KernelCases
  /\ kout # << >> => kcase \in KernelCases /\ kout[1] = Run(kcase)

LEMMA WorkloadKeepsCalls ==
  /\ WorkloadInit => KernelInv
  /\ KernelInv /\ [WorkloadNext]_workload_vars => KernelInv'
<1>1. ASSUME WorkloadInit PROVE KernelInv
  <2>1. kout = << >> /\ (kcase \in KernelCases \/ kcase = [kernel |-> "off"])
    BY <1>1 DEF WorkloadInit, KernelsOff, KernelInit
  <2>2. [kernel |-> "off"].kernel = "off"
    OBVIOUS
  <2>3. QED BY <2>1, <2>2 DEF KernelInv
<1>2. ASSUME KernelInv, [WorkloadNext]_workload_vars PROVE KernelInv'
  <2>1. CASE kcase.kernel # "off" /\ Compute
    <3>1. kcase' = kcase /\ kout' = <<Run(kcase)>> /\ kcase \in KernelCases
      BY <1>2, <2>1 DEF Compute, KernelInv
    <3>2. kout'[1] = Run(kcase)
      BY <3>1
    <3>3. QED BY <3>1, <3>2, Zenon DEF KernelInv
  <2>2. CASE UNCHANGED kernel_vars
    BY <1>2, <2>2 DEF KernelInv, kernel_vars
  <2>3. (kcase.kernel # "off" /\ Compute) \/ UNCHANGED kernel_vars
    BY <1>2 DEF WorkloadNext, workload_vars, Halt
  <2>4. QED BY <2>1, <2>2, <2>3
<1>3. QED BY <1>1, <1>2

(* For every call the two networks make of their integer arithmetic, any   *)
(* tensors, scales and monotone tables: the result is the number it stands *)
(* for, to the rounding its scale allows, and every moved element is at    *)
(* its place (llm_forward.c, yolo_ops.c, the end of llm_npu_matmul and the *)
(* softmax, concat and transpose of npulib).                               *)
THEOREM KernelsAreExact == WorkloadSpec => []KernelsExact
<1>1. KernelInv => KernelsExact
  BY EveryCallExact, Zenon DEF KernelInv, KernelsExact
<1>2. QED BY <1>1, WorkloadKeepsCalls, PTL DEF WorkloadSpec

-----------------------------------------------------------------------------
(* Types. *)

(* The buffers are indexed by bytes and words, and the tiles counted.      *)
BuffersTyped ==
  phase # "off" =>
    /\ DOMAIN feat \subseteq Nat /\ DOMAIN out \subseteq Nat
    /\ Len(tasks) \in Nat /\ tile \in 1 .. Len(tasks) + 1

LEMMA IntervalIsNat == \A x : 0 .. x - 1 \subseteq Nat
OBVIOUS

LEMMA WrittenWords ==
  ASSUME NpuInv, phase = "submit", Len(tasks) \in Nat, tile \in 1 .. Len(tasks) + 1,
         tile <= Len(tasks), NEW f, NEW w
  PROVE  DOMAIN Written(tasks[tile], f, w) \subseteq Nat
<1>1. WritesOnce(tasks, OutSize)
  BY TasksWriteOnce
<1>2. tasks = Generator.tasks /\ Accepted(Generator) /\ AtOperator
  BY DEF NpuInv, TasksAreGenerated
<1>3. DOMAIN tasks = 1 .. Len(tasks)
  BY <1>2, GeneratedTasks
<1>4. tile \in DOMAIN tasks
  BY <1>3
<1>5. WordsOf(tasks[tile]) \subseteq 0 .. OutSize - 1
  BY <1>1, <1>4 DEF WritesOnce
<1>6. DOMAIN Written(tasks[tile], f, w) = WordsOf(tasks[tile])
  BY DEF Written, WordsOf
<1>7. QED BY <1>5, <1>6, IntervalIsNat

LEMMA BuffersTypedStep ==
  /\ WorkloadInit => BuffersTyped
  /\ NpuInv /\ BuffersTyped /\ [WorkloadNext]_workload_vars => BuffersTyped'
<1>1. ASSUME WorkloadInit PROVE BuffersTyped
  <2>1. CASE phase = "off"
    BY <2>1 DEF BuffersTyped
  <2>2. CASE phase # "off"
    <3>1. Init
      BY <1>1, <2>2 DEF WorkloadInit, NpuConvOff
    <3>2. feat = << >> /\ out = << >> /\ tasks = << >> /\ tile = 1
      BY <3>1 DEF Init
    <3>3. DOMAIN << >> = {} /\ Len(<< >>) = 0
      OBVIOUS
    <3>4. QED BY <3>2, <3>3 DEF BuffersTyped
  <2>3. QED BY <2>1, <2>2
<1>2. ASSUME BuffersTyped, UNCHANGED vars PROVE BuffersTyped'
  BY <1>2 DEF vars, BuffersTyped
<1>3. ASSUME NpuInv, BuffersTyped, phase # "off", Next PROVE BuffersTyped'
  <2>0. /\ DOMAIN feat \subseteq Nat /\ DOMAIN out \subseteq Nat
        /\ Len(tasks) \in Nat /\ tile \in 1 .. Len(tasks) + 1
    BY <1>3 DEF BuffersTyped
  <2>1. CASE LayOut
    <3>1. feat' = Overlay(Image(FeatSize, Features), feat) /\ UNCHANGED <<tasks, tile>>
          /\ (out' = out \/ out' = Overlay(Image(OutSize, {}), out))
      BY <2>1 DEF LayOut
    <3>2. DOMAIN Overlay(Image(FeatSize, Features), feat) = 0 .. FeatSize - 1 \cup DOMAIN feat
      BY DEF Overlay, Image
    <3>3. DOMAIN Overlay(Image(OutSize, {}), out) = 0 .. OutSize - 1 \cup DOMAIN out
      BY DEF Overlay, Image
    <3>4. DOMAIN feat' \subseteq Nat /\ DOMAIN out' \subseteq Nat
      BY <2>0, <3>1, <3>2, <3>3, IntervalIsNat
    <3>5. QED BY <2>0, <3>1, <3>4 DEF BuffersTyped
  <2>2. CASE Generate
    <3>1. /\ Accepted(Generator) /\ tasks' = Generator.tasks /\ tile' = 1
          /\ UNCHANGED <<feat, out>>
      BY <2>2 DEF Generate
    <3>2. Len(tasks') \in Nat
      BY <1>3, <3>1, GeneratedTasks DEF NpuInv
    <3>3. tile' \in 1 .. Len(tasks') + 1
      BY <3>1, <3>2
    <3>4. QED BY <2>0, <3>1, <3>2, <3>3 DEF BuffersTyped
  <2>3. CASE SubmitTile
    <3>1. /\ phase = "submit" /\ tile <= Len(tasks) /\ tile' = tile + 1
          /\ out' = Overlay(Written(tasks[tile], feat, Image(WeightSize, Weights)), out)
          /\ UNCHANGED <<phase, feat, tasks>>
      BY <2>3 DEF SubmitTile
    <3> DEFINE w == Written(tasks[tile], feat, Image(WeightSize, Weights))
    <3>2. DOMAIN w \subseteq Nat
      BY <1>3, <2>0, <3>1, WrittenWords
    <3>3. out' = Overlay(w, out)
      BY <3>1
    <3> HIDE DEF w
    <3>4. DOMAIN Overlay(w, out) = DOMAIN w \cup DOMAIN out
      BY DEF Overlay
    <3>5. DOMAIN out' \subseteq Nat
      BY <2>0, <3>2, <3>3, <3>4
    <3>6. tile' \in 1 .. Len(tasks') + 1
      BY <2>0, <3>1
    <3>7. QED BY <2>0, <3>1, <3>5, <3>6 DEF BuffersTyped
  <2>4. CASE UNCHANGED <<feat, out, tasks, tile>>
    BY <2>0, <2>4 DEF BuffersTyped
  <2>5. LayOut \/ Generate \/ SubmitTile \/ UNCHANGED <<feat, out, tasks, tile>>
    BY <1>3 DEF Next, GiveUp, ReadBack, NextOperator, Rest, vars
  <2>6. QED BY <2>1, <2>2, <2>3, <2>4, <2>5
<1>4. ASSUME NpuInv, BuffersTyped, [WorkloadNext]_workload_vars PROVE BuffersTyped'
  <2>1. UNCHANGED vars \/ (phase # "off" /\ Next)
    BY <1>4 DEF WorkloadNext, workload_vars, Halt
  <2>2. QED BY <1>2, <1>3, <1>4, <2>1
<1>5. QED BY <1>1, <1>4

(* Whichever test runs, its state keeps its types: the blocks of an        *)
(* operator stay below its pixels, what is laid out and written lies at    *)
(* bytes and words, a story stays in the cache, and the boxes of the       *)
(* detector in their table (NpuConv, llm_forward.c, yolo_postprocess.c).   *)
THEOREM TheTestsAreWellTyped == WorkloadSpec => []WorkloadTypeOK
<1>1. NpuInv /\ BuffersTyped => (phase # "off" => TypeOK)
  <2> SUFFICES ASSUME NpuInv, BuffersTyped, phase # "off" PROVE TypeOK
    OBVIOUS
  <2>1. phase \in Running /\ AtOperator
    BY DEF NpuInv
  <2>2. prog \in Programs /\ at \in 1 .. Len(prog) /\ m0 \in Nat /\ m0 < PixelsOf(op)
    BY <2>1 DEF AtOperator
  <2>3. phase \in Phase
    BY <2>1 DEF Running, Phase
  <2>4. QED BY <2>2, <2>3 DEF BuffersTyped, TypeOK
<1>2. WorkloadSpec => [](phase # "off" => TypeOK)
  <2>1. WorkloadSpec => [](NpuInv /\ BuffersTyped)
    <3>1. WorkloadInit => NpuInv /\ BuffersTyped
      BY NpuInvStep, BuffersTypedStep
    <3>2. NpuInv /\ BuffersTyped /\ [WorkloadNext]_workload_vars => (NpuInv /\ BuffersTyped)'
      BY NpuInvStep, BuffersTypedStep
    <3>3. QED BY <3>1, <3>2, PTL DEF WorkloadSpec
  <2>2. QED BY <1>1, <2>1, PTL
<1>3. WorkloadTypeOK <=> (phase # "off" => TypeOK) /\ LlmTypeOK /\ YoloTypeOK
  BY DEF WorkloadTypeOK
<1>4. QED BY <1>2, <1>3, StoriesFitTheCache, DetectorTypes, PTL

-----------------------------------------------------------------------------
(* Where an element lies. *)

\* Entry c % A of surface c \div A, at position s of S.
Place(A, S, c, s) == (c \div A) * S * A + s * A + (c % A)

\* Input f of kernel n, of W groups of inputs.
WeightPlace(C, n, f) ==
  (n \div Group) * Group * C + (f \div Group) * Group * Group
    + (n % Group) * Group + (f % Group)

LEMMA PlaceDigits ==
  ASSUME NEW A \in Nat \ {0}, NEW S \in Nat \ {0}, NEW c \in Nat, NEW s \in 0 .. S - 1
  PROVE  /\ Place(A, S, c, s) = ((c \div A) * S + s) * A + (c % A)
         /\ Place(A, S, c, s) \in Nat
<1> DEFINE q == c \div A
           r == c % A
<1>1. q \in Nat /\ r \in Nat /\ s \in Nat
  OBVIOUS
<1>2. Place(A, S, c, s) = q * S * A + s * A + r
  BY DEF Place
<1> HIDE DEF q, r
<1>3. q * S * A + s * A + r = (q * S + s) * A + r /\ (q * S + s) * A + r \in Nat
  BY <1>1
<1>4. QED BY <1>2, <1>3 DEF q, r

LEMMA PlaceApart ==
  ASSUME NEW A \in Nat \ {0}, NEW S \in Nat \ {0}, NEW c \in Nat, NEW s \in 0 .. S - 1,
         NEW d \in Nat, NEW u \in 0 .. S - 1, Place(A, S, c, s) = Place(A, S, d, u)
  PROVE  c = d /\ s = u
<1> DEFINE q == c \div A
           r == c % A
           q2 == d \div A
           r2 == d % A
<1>1. /\ q \in Nat /\ r \in 0 .. A - 1 /\ c = q * A + r
      /\ q2 \in Nat /\ r2 \in 0 .. A - 1 /\ d = q2 * A + r2
  BY DivMod
<1>2. (q * S + s) * A + r = (q2 * S + u) * A + r2
  <2>1. Place(A, S, c, s) = (q * S + s) * A + r
    BY PlaceDigits
  <2>2. Place(A, S, d, u) = (q2 * S + u) * A + r2
    BY PlaceDigits
  <2>3. QED BY <2>1, <2>2
<1> HIDE DEF q, r, q2, r2
<1>3. q * S + s \in Nat /\ q2 * S + u \in Nat
  BY <1>1
<1>4. q * S + s = q2 * S + u /\ r = r2
  BY <1>1, <1>2, <1>3, OneRow
<1>5. q = q2 /\ s = u
  BY <1>1, <1>4, OneRow
<1>6. QED BY <1>1, <1>4, <1>5

LEMMA WeightDigits ==
  ASSUME NEW W \in Nat \ {0}, NEW n \in Nat, NEW f \in 0 .. W * Group - 1
  PROVE  LET x == (n \div Group) * W + (f \div Group)
             y == x * Group + (n % Group)
         IN  /\ WeightPlace(W * Group, n, f) = y * Group + (f % Group)
             /\ x \in Nat /\ y \in Nat
             /\ n \div Group \in Nat /\ f \div Group \in 0 .. W - 1
             /\ n % Group \in 0 .. Group - 1 /\ f % Group \in 0 .. Group - 1
<1> DEFINE G == Group
           a == n \div G
           b == n % G
           c == f \div G
           d == f % G
<1>0. G \in Nat \ {0}
  BY HardwareSizes
<1> HIDE DEF G
<1>1. a \in Nat /\ b \in 0 .. G - 1 /\ d \in 0 .. G - 1 /\ f \in Nat /\ f < W * G
  <2>1. f \in Nat /\ f < W * G
    BY <1>0 DEF G
  <2>2. a \in Nat /\ b \in 0 .. G - 1
    BY <1>0, DivMod
  <2>3. d \in 0 .. G - 1
    BY <1>0, <2>1, DivMod
  <2>4. QED BY <2>1, <2>2, <2>3
<1>2. c \in 0 .. W - 1
  BY <1>0, <1>1, DigitBelow
<1>3. WeightPlace(W * G, n, f) = a * G * (W * G) + c * G * G + b * G + d
  BY DEF WeightPlace, G
<1> HIDE DEF a, b, c, d
<1>4. a * W + c \in Nat /\ (a * W + c) * G + b \in Nat
  BY <1>0, <1>1, <1>2
<1>5. a * G * (W * G) + c * G * G + b * G + d = ((a * W + c) * G + b) * G + d
  BY <1>0, <1>1, <1>2
<1>6. QED BY <1>0, <1>1, <1>2, <1>3, <1>4, <1>5 DEF a, b, c, d, G

LEMMA WeightsApart ==
  ASSUME NEW W \in Nat \ {0}, NEW n \in Nat, NEW f \in 0 .. W * Group - 1,
         NEW m \in Nat, NEW g \in 0 .. W * Group - 1,
         WeightPlace(W * Group, n, f) = WeightPlace(W * Group, m, g)
  PROVE  n = m /\ f = g
<1> DEFINE G == Group
           a == n \div G
           b == n % G
           c == f \div G
           d == f % G
           a2 == m \div G
           b2 == m % G
           c2 == g \div G
           d2 == g % G
           x == a * W + c
           x2 == a2 * W + c2
           y == x * G + b
           y2 == x2 * G + b2
<1>0. G \in Nat \ {0}
  BY HardwareSizes
<1>1. /\ WeightPlace(W * Group, n, f) = y * G + d /\ x \in Nat /\ y \in Nat
      /\ a \in Nat /\ c \in 0 .. W - 1 /\ b \in 0 .. G - 1 /\ d \in 0 .. G - 1
  BY WeightDigits
<1>2. /\ WeightPlace(W * Group, m, g) = y2 * G + d2 /\ x2 \in Nat /\ y2 \in Nat
      /\ a2 \in Nat /\ c2 \in 0 .. W - 1 /\ b2 \in 0 .. G - 1 /\ d2 \in 0 .. G - 1
  BY WeightDigits
<1>3. n = a * G + b /\ m = a2 * G + b2 /\ f \in Nat /\ g \in Nat
  BY <1>0, DivMod
<1>4. f = c * G + d /\ g = c2 * G + d2
  BY <1>0, <1>3, DivMod
<1> HIDE DEF G, a, b, c, d, a2, b2, c2, d2, y, y2
<1>5. y = y2 /\ d = d2
  BY <1>0, <1>1, <1>2, OneRow
<1> HIDE DEF x, x2
<1>6. x = x2 /\ b = b2
  BY <1>0, <1>1, <1>2, <1>5, OneRow DEF y, y2
<1>7. a = a2 /\ c = c2
  BY <1>1, <1>2, <1>6, OneRow DEF x, x2
<1>8. QED BY <1>3, <1>4, <1>5, <1>6, <1>7

-----------------------------------------------------------------------------
(* A buffer as a table of what was laid out: <<channel, position, element>> *)
(* of a cube, <<kernel, input, element>> of the weights.                   *)

Ranged(T, C, S) == \A y \in T : y[1] \in 0 .. C - 1 /\ y[2] \in 0 .. S - 1

Held(T, c, s) == {y[3] : y \in {z \in T : z[1] = c /\ z[2] = s}}

CubeStores(A, S, T) == {<<Place(A, S, y[1], y[2]), y[3]>> : y \in T}
WeightStores(C, T) == {<<WeightPlace(C, y[1], y[2]), y[3]>> : y \in T}

LEMMA ImagePlaced ==
  ASSUME NEW A \in Nat \ {0}, NEW S \in Nat \ {0}, NEW C \in Nat, NEW T, Ranged(T, C, S),
         NEW size, NEW c \in 0 .. C - 1, NEW s \in 0 .. S - 1,
         Place(A, S, c, s) \in 0 .. size - 1
  PROVE  Image(size, CubeStores(A, S, T))[Place(A, S, c, s)] = Held(T, c, s)
<1> DEFINE a == Place(A, S, c, s)
<1>1. Image(size, CubeStores(A, S, T))[a] = {e[2] : e \in {x \in CubeStores(A, S, T) : x[1] = a}}
  BY DEF Image
<1>2. ASSUME NEW y \in T PROVE Place(A, S, y[1], y[2]) = a <=> y[1] = c /\ y[2] = s
  <2>1. y[1] \in 0 .. C - 1 /\ y[2] \in 0 .. S - 1 /\ y[1] \in Nat /\ c \in Nat
    BY DEF Ranged
  <2>2. QED BY <2>1, PlaceApart
<1> HIDE DEF a
<1>3. {e[2] : e \in {x \in CubeStores(A, S, T) : x[1] = a}} = Held(T, c, s)
  <2> DEFINE L == {e[2] : e \in {x \in CubeStores(A, S, T) : x[1] = a}}
  <2>1. ASSUME NEW v \in L PROVE v \in Held(T, c, s)
    <3>1. PICK x \in CubeStores(A, S, T) : x[1] = a /\ v = x[2]
      OBVIOUS
    <3>2. PICK y \in T : x = <<Place(A, S, y[1], y[2]), y[3]>>
      BY <3>1 DEF CubeStores
    <3>3. Place(A, S, y[1], y[2]) = a /\ v = y[3]
      BY <3>1, <3>2
    <3>4. QED BY <1>2, <3>3 DEF Held
  <2>2. ASSUME NEW v \in Held(T, c, s) PROVE v \in L
    <3>1. PICK y \in T : y[1] = c /\ y[2] = s /\ v = y[3]
      BY DEF Held
    <3>2. Place(A, S, y[1], y[2]) = a
      BY <1>2, <3>1
    <3> DEFINE x == <<Place(A, S, y[1], y[2]), y[3]>>
    <3>3. x \in CubeStores(A, S, T)
      BY DEF CubeStores
    <3>4. x[1] = a /\ x[2] = v
      BY <3>1, <3>2
    <3> HIDE DEF x
    <3>5. QED BY <3>3, <3>4
  <2>3. QED BY <2>1, <2>2
<1>4. QED BY <1>1, <1>3 DEF a

LEMMA ImageWeights ==
  ASSUME NEW W \in Nat \ {0}, NEW N \in Nat, NEW T, Ranged(T, N, W * Group),
         NEW size, NEW n \in 0 .. N - 1, NEW f \in 0 .. W * Group - 1,
         WeightPlace(W * Group, n, f) \in 0 .. size - 1
  PROVE  Image(size, WeightStores(W * Group, T))[WeightPlace(W * Group, n, f)]
           = Held(T, n, f)
<1> DEFINE C == W * Group
           a == WeightPlace(C, n, f)
<1>1. Image(size, WeightStores(C, T))[a]
        = {e[2] : e \in {x \in WeightStores(C, T) : x[1] = a}}
  BY DEF Image
<1>2. ASSUME NEW y \in T PROVE WeightPlace(C, y[1], y[2]) = a <=> y[1] = n /\ y[2] = f
  <2>1. y[1] \in 0 .. N - 1 /\ y[2] \in 0 .. C - 1 /\ y[1] \in Nat /\ n \in Nat
    BY DEF Ranged
  <2>2. QED BY <2>1, WeightsApart
<1> HIDE DEF a, C
<1>3. {e[2] : e \in {x \in WeightStores(C, T) : x[1] = a}} = Held(T, n, f)
  <2> DEFINE L == {e[2] : e \in {x \in WeightStores(C, T) : x[1] = a}}
  <2>1. ASSUME NEW v \in L PROVE v \in Held(T, n, f)
    <3>1. PICK x \in WeightStores(C, T) : x[1] = a /\ v = x[2]
      OBVIOUS
    <3>2. PICK y \in T : x = <<WeightPlace(C, y[1], y[2]), y[3]>>
      BY <3>1 DEF WeightStores
    <3>3. WeightPlace(C, y[1], y[2]) = a /\ v = y[3]
      BY <3>1, <3>2
    <3>4. QED BY <1>2, <3>3 DEF Held
  <2>2. ASSUME NEW v \in Held(T, n, f) PROVE v \in L
    <3>1. PICK y \in T : y[1] = n /\ y[2] = f /\ v = y[3]
      BY DEF Held
    <3>2. WeightPlace(C, y[1], y[2]) = a
      BY <1>2, <3>1
    <3> DEFINE x == <<WeightPlace(C, y[1], y[2]), y[3]>>
    <3>3. x \in WeightStores(C, T)
      BY DEF WeightStores
    <3>4. x[1] = a /\ x[2] = v
      BY <3>1, <3>2
    <3> HIDE DEF x
    <3>5. QED BY <3>3, <3>4
  <2>3. QED BY <2>1, <2>2
<1>4. QED BY <1>1, <1>3 DEF a, C

(* The pitch of a cube whose height is aligned, or of one entry.           *)
LEMMA PitchExact ==
  ASSUME NEW w \in Nat \ {0}, NEW h \in Nat \ {0}, w * h < 2^28, w * RowAlign < 2^28,
         h % RowAlign = 0 \/ (w = 1 /\ h = 1)
  PROVE  (w * RowAlign + (SurfStride(w * RowAlign, h) % 2^28)) % 2^28 = w * h
<1> DEFINE R == RowAlign
           line == w * R
           q == h \div R
           s == line * (q - 1)
<1>1. R \in Nat \ {0} /\ line \in Nat \ {0} /\ q \in Nat /\ line < 268435456
      /\ w * h \in Nat /\ w * h < 268435456 /\ R < 131072
  BY HardwareSizes, Positive, FieldWidths
<1>2. SurfStride(line, h) = IF s < 0 THEN s + 1 ELSE s
  BY DEF SurfStride
<1>3. CASE h % R = 0
  <2>1. q \in Nat \ {0} /\ h = q * R
    BY <1>1, <1>3, Whole
  <2> HIDE DEF q
  <2>2. s = w * h - line /\ w * h >= line
    <3>1. line * q = w * h
      BY <1>1, <2>1
    <3>2. line * q >= line
      BY <1>1, <2>1, Positive
    <3>3. s = line * q - line
      BY <1>1, <2>1
    <3>4. QED BY <3>1, <3>2, <3>3
  <2> HIDE DEF s, line, R
  <2> DEFINE S == w * h
  <2>3. S \in Nat /\ S < 268435456 /\ S >= line /\ s = S - line /\ line \in Nat
        /\ SurfStride(line, h) = s
    BY <1>1, <1>2, <2>2
  <2> HIDE DEF S
  <2>4. s % 268435456 = s /\ (line + s) % 268435456 = S
    BY <2>3
  <2>5. QED BY <2>3, <2>4, FieldWidths DEF S, line, R
<1>4. CASE h % R # 0
  <2>1. w = 1 /\ h = 1
    BY <1>4
  <2>2. R > 1
    BY <1>1, <1>4, <2>1
  <2>3. q = 0 /\ line = R
    BY <1>1, <2>1, <2>2
  <2>4. SurfStride(line, h) = 1 - R
    BY <1>1, <1>2, <2>2, <2>3
  <2> HIDE DEF R, q, s, line
  <2>5. (1 - R) % 268435456 = 268435457 - R
    BY <1>1, <2>2
  <2>6. (R + (268435457 - R)) % 268435456 = 1
    BY <1>1
  <2>7. QED BY <2>1, <2>3, <2>4, <2>5, <2>6, FieldWidths DEF R, line
<1>5. QED BY <1>3, <1>4

-----------------------------------------------------------------------------
(* What a task sums. *)

SummingTask(t, w, h, from) ==
  /\ CubeTask(t, w, h, from) /\ (h % RowAlign = 0 \/ (w = 1 /\ h = 1))
  /\ t.kh \in Nat \ {0} /\ t.kw \in Nat \ {0} /\ t.in_c \in Nat \ {0} /\ t.in_c % Group = 0
  /\ t.wbpk = t.kw * t.kh * t.in_c /\ t.kernels \in Nat /\ t.kernels % Group = 0
  /\ t.out_h \in Nat /\ t.out_w \in Nat /\ t.stride_h \in Nat /\ t.stride_w \in Nat
  /\ t.pad_top \in Nat /\ t.pad_left \in Nat

RowRead(t, oy, x) == oy * t.stride_h + x[1][1] - t.pad_top
ColumnRead(t, ox, x) == ox * t.stride_w + x[1][2] - t.pad_left

\* The position in the cube and the input of the kernel of a term.
PositionRead(t, w, from, oy, ox, x) == from + (RowRead(t, oy, x) * w + ColumnRead(t, ox, x))
InputRead(t, x) == (x[1][1] * t.kw + x[1][2]) * t.in_c + x[2]

CellSum(t, FT, WT, w, from, n, oy, ox) ==
  UNION {Held(FT, x[2], PositionRead(t, w, from, oy, ox, x)) \X Held(WT, n, InputRead(t, x)) :
           x \in Terms(t, oy, ox)}

LEMMA TermFacts ==
  ASSUME NEW t, NEW w, NEW h, NEW from, SummingTask(t, w, h, from),
         NEW oy \in Nat, NEW ox \in Nat, NEW x \in Terms(t, oy, ox)
  PROVE  /\ x[1][1] \in 0 .. t.kh - 1 /\ x[1][2] \in 0 .. t.kw - 1 /\ x[2] \in 0 .. t.in_c - 1
         /\ x = <<<<x[1][1], x[1][2]>>, x[2]>>
         /\ RowRead(t, oy, x) \in 0 .. t.in_h - 1 /\ ColumnRead(t, ox, x) \in 0 .. w - 1
<1>1. /\ t.kh \in Nat \ {0} /\ t.kw \in Nat \ {0} /\ t.in_c \in Nat \ {0} /\ t.in_w = w
      /\ t.stride_h \in Nat /\ t.stride_w \in Nat /\ t.pad_top \in Nat /\ t.pad_left \in Nat
      /\ t.in_h \in Nat /\ w \in Nat
  BY DEF SummingTask, CubeTask
<1>2. x \in ((0 .. t.kh - 1) \X (0 .. t.kw - 1)) \X (0 .. t.in_c - 1)
  BY DEF Terms
<1>3. x[1][1] \in 0 .. t.kh - 1 /\ x[1][2] \in 0 .. t.kw - 1 /\ x[2] \in 0 .. t.in_c - 1
      /\ x = <<<<x[1][1], x[1][2]>>, x[2]>>
  BY <1>2
<1>4. Inside(RowRead(t, oy, x), t.in_h) /\ Inside(ColumnRead(t, ox, x), w)
  BY <1>1 DEF Terms, RowRead, ColumnRead
<1>5. oy * t.stride_h \in Nat /\ ox * t.stride_w \in Nat
  BY <1>1
<1>6. RowRead(t, oy, x) \in Int /\ ColumnRead(t, ox, x) \in Int
  BY <1>1, <1>3, <1>5 DEF RowRead, ColumnRead
<1>7. QED BY <1>1, <1>3, <1>4, <1>6 DEF Inside

LEMMA FeatureHeld ==
  ASSUME NEW t, NEW w, NEW h, NEW from, SummingTask(t, w, h, from),
         NEW oy \in Nat, NEW ox \in Nat, NEW x \in Terms(t, oy, ox)
  PROVE  /\ FeatureOf(t, oy, ox, x)
              = Place(Atom, w * h, x[2], PositionRead(t, w, from, oy, ox, x))
         /\ PositionRead(t, w, from, oy, ox, x) \in 0 .. w * h - 1
<1> DEFINE c == x[2]
           S == w * h
           iy == RowRead(t, oy, x)
           ix == ColumnRead(t, ox, x)
           place == iy * w + ix
<1>1. /\ w \in Nat \ {0} /\ h \in Nat \ {0} /\ S < 2^28 /\ w * RowAlign < 2^28
      /\ t.line_stride = w * RowAlign /\ t.surf_stride = SurfStride(w * RowAlign, h) % 2^28
      /\ from \in Nat /\ t.feature_base = from * Atom
      /\ t.in_w = w /\ t.in_h \in Nat /\ from + t.in_h * w <= S
      /\ (h % RowAlign = 0 \/ (w = 1 /\ h = 1))
      /\ t.in_c \in Nat
  BY DEF SummingTask, CubeTask
<1>2. c \in 0 .. t.in_c - 1 /\ iy \in 0 .. t.in_h - 1 /\ ix \in 0 .. w - 1
  BY TermFacts
<1>3. Atom \in Nat \ {0} /\ RowAlign \in Nat \ {0}
  BY HardwareSizes
<1>4. S \in Nat \ {0}
  BY <1>1, Positive
<1>5. SurfacePitch(t) = S
  BY <1>1, PitchExact DEF SurfacePitch
<1>6. t.line_stride \div RowAlign = w
  BY <1>1, <1>3, Multiple
<1>7. FeatureOf(t, oy, ox, x) = FeatureByte(t, c, iy, ix)
  BY DEF FeatureOf, RowRead, ColumnRead
<1>8. FeatureByte(t, c, iy, ix)
        = from * Atom + (c \div Atom) * S * Atom + place * Atom + (c % Atom)
  BY <1>1, <1>5, <1>6 DEF FeatureByte
<1> HIDE DEF iy, ix
<1>9. place \in Nat /\ from + place < S
  <2>1. place \in 0 .. t.in_h * w - 1
    BY <1>1, <1>2, TwoDigits
  <2>2. t.in_h * w \in Nat
    BY <1>1
  <2> HIDE DEF place
  <2>3. QED BY <1>1, <1>4, <2>1, <2>2
<1>10. PositionRead(t, w, from, oy, ox, x) = from + place
  BY DEF PositionRead, iy, ix
<1>11. c \div Atom \in Nat /\ c % Atom \in Nat
  BY <1>1, <1>2, <1>3
<1> DEFINE u == c \div Atom
           v == c % Atom
<1> HIDE DEF place, S, u, v
<1>12. from * Atom + u * S * Atom + place * Atom + v = u * S * Atom + (from + place) * Atom + v
  BY <1>1, <1>3, <1>4, <1>9, <1>11 DEF u, v
<1>13. Place(Atom, S, c, from + place) = u * S * Atom + (from + place) * Atom + v
  BY DEF Place, u, v
<1>14. from + place \in 0 .. S - 1
  BY <1>1, <1>4, <1>9
<1>15. QED BY <1>7, <1>8, <1>10, <1>12, <1>13, <1>14 DEF S, u, v

LEMMA WeightHeld ==
  ASSUME NEW t, NEW w, NEW h, NEW from, SummingTask(t, w, h, from),
         NEW oy \in Nat, NEW ox \in Nat, NEW x \in Terms(t, oy, ox), NEW n
  PROVE  /\ WeightByte(t, n, x[1], x[2]) = WeightPlace(t.wbpk, n, InputRead(t, x))
         /\ InputRead(t, x) \in 0 .. t.wbpk - 1
<1>1. WeightByte(t, n, x[1], x[2]) = WeightPlace(t.wbpk, n, InputRead(t, x))
  BY DEF WeightByte, WeightPlace, InputRead
<1>2. /\ t.kh \in Nat \ {0} /\ t.kw \in Nat \ {0} /\ t.in_c \in Nat \ {0}
      /\ t.wbpk = t.kw * t.kh * t.in_c
  BY DEF SummingTask
<1>3. x[1][1] \in 0 .. t.kh - 1 /\ x[1][2] \in 0 .. t.kw - 1 /\ x[2] \in 0 .. t.in_c - 1
  BY TermFacts
<1> DEFINE e == x[1][1] * t.kw + x[1][2]
           E == t.kh * t.kw
<1>4. e \in 0 .. E - 1 /\ E \in Nat /\ t.wbpk = E * t.in_c
  <2>1. e \in 0 .. E - 1
    BY <1>2, <1>3, TwoDigits
  <2>2. E \in Nat /\ t.wbpk = E * t.in_c
    BY <1>2
  <2>3. QED BY <2>1, <2>2
<1> DEFINE ic == x[2]
<1>5. InputRead(t, x) = e * t.in_c + ic
  BY DEF InputRead
<1> HIDE DEF e, E, ic
<1>6. e * t.in_c + ic \in 0 .. E * t.in_c - 1
  BY <1>2, <1>3, <1>4, TwoDigits DEF ic
<1>7. QED BY <1>1, <1>4, <1>5, <1>6

LEMMA SumOfTables ==
  ASSUME NEW t, NEW w, NEW h, NEW from, SummingTask(t, w, h, from),
         NEW FT, NEW WT, Ranged(FT, t.in_c, w * h), Ranged(WT, t.kernels, t.wbpk),
         NEW n \in 0 .. t.kernels - 1, NEW oy \in 0 .. t.out_h - 1,
         NEW ox \in 0 .. t.out_w - 1,
         NEW fs, NEW ws, fs = t.in_c * (w * h), ws = t.kernels * t.wbpk
  PROVE  Accumulator(t, Image(fs, CubeStores(Atom, w * h, FT)), Image(ws, WeightStores(t.wbpk, WT)),
             n, oy, ox)
           = CellSum(t, FT, WT, w, from, n, oy, ox)
<1> DEFINE f == Image(fs, CubeStores(Atom, w * h, FT))
           g == Image(ws, WeightStores(t.wbpk, WT))
<1>1. /\ CubeTask(t, w, h, from) /\ t.kh \in Nat \ {0} /\ t.kw \in Nat \ {0}
      /\ t.in_c \in Nat \ {0} /\ t.in_c % Group = 0
      /\ t.wbpk = t.kw * t.kh * t.in_c /\ t.kernels \in Nat /\ t.kernels % Group = 0
      /\ t.out_h \in Nat /\ t.out_w \in Nat /\ t.stride_h \in Nat /\ t.stride_w \in Nat
      /\ t.pad_top \in Nat /\ t.pad_left \in Nat /\ w \in Nat \ {0} /\ h \in Nat \ {0}
  BY DEF SummingTask, CubeTask
<1>2. ReadsInside(t, fs, ws)
  BY <1>1, TaskReads
<1>3. oy \in Nat /\ ox \in Nat
  BY <1>1
<1>4. DOMAIN f = 0 .. fs - 1 /\ DOMAIN g = 0 .. ws - 1
  BY DEF Image
<1>5. w * h \in Nat \ {0} /\ Atom \in Nat \ {0}
  BY <1>1, Positive, HardwareSizes
<1> DEFINE W == t.kw * t.kh * (t.in_c \div Group)
<1>6. W \in Nat \ {0} /\ t.wbpk = W * Group
  <2>1. Group \in Nat \ {0}
    BY HardwareSizes
  <2>2. t.in_c \div Group \in Nat \ {0} /\ t.in_c = (t.in_c \div Group) * Group
    <3> DEFINE k == t.in_c
    <3>1. k \in Nat /\ k > 0 /\ k % Group = 0
      BY <1>1
    <3> HIDE DEF k
    <3>2. k \div Group \in Nat \ {0} /\ k = (k \div Group) * Group
      BY <2>1, <3>1, Whole
    <3>3. QED BY <3>2 DEF k
  <2> DEFINE d == t.in_c \div Group
             z == t.kw * t.kh
  <2>3. z \in Nat \ {0}
    BY <1>1, Positive
  <2> HIDE DEF d, z
  <2>4. z * (d * Group) = (z * d) * Group
    BY <2>1, <2>2, <2>3 DEF d
  <2>5. z * d \in Nat \ {0}
    BY <2>2, <2>3, Positive DEF d
  <2>6. QED BY <1>1, <2>2, <2>4, <2>5 DEF d, z
<1>7. ASSUME NEW x \in Terms(t, oy, ox) 
      PROVE  Load(f, FeatureOf(t, oy, ox, x)) \X Load(g, WeightByte(t, n, x[1], x[2]))
               = Held(FT, x[2], PositionRead(t, w, from, oy, ox, x)) \X Held(WT, n, InputRead(t, x))
  <2> DEFINE c == x[2]
             s == PositionRead(t, w, from, oy, ox, x)
             a == FeatureOf(t, oy, ox, x)
             b == WeightByte(t, n, x[1], x[2])
             i == InputRead(t, x)
  <2>1. /\ a = Place(Atom, w * h, c, s) /\ s \in 0 .. w * h - 1
        /\ b = WeightPlace(t.wbpk, n, i) /\ i \in 0 .. t.wbpk - 1
        /\ c \in 0 .. t.in_c - 1 /\ x[1] \in (0 .. t.kh - 1) \X (0 .. t.kw - 1)
    <3>1. a = Place(Atom, w * h, c, s) /\ s \in 0 .. w * h - 1
      BY <1>3, FeatureHeld
    <3>2. b = WeightPlace(t.wbpk, n, i) /\ i \in 0 .. t.wbpk - 1
      BY <1>3, WeightHeld
    <3>3. c \in 0 .. t.in_c - 1
      BY <1>3, TermFacts
    <3>4. x[1] \in (0 .. t.kh - 1) \X (0 .. t.kw - 1)
      BY DEF Terms
    <3>5. QED BY <3>1, <3>2, <3>3, <3>4
  <2>2. a \in 0 .. fs - 1 /\ b \in 0 .. ws - 1
    BY <1>2, <2>1 DEF ReadsInside
  <2>3. Load(f, a) = f[a] /\ Load(g, b) = g[b]
    BY <1>4, <2>2 DEF Load
  <2> HIDE DEF W, c, s, a, b, i
  <2>4. f[a] = Held(FT, c, s)
    BY <1>1, <1>5, <2>1, <2>2, ImagePlaced, SMTT(30)
  <2>5. g[b] = Held(WT, n, i)
    BY <1>1, <1>6, <2>1, <2>2, ImageWeights
  <2>6. QED BY <2>3, <2>4, <2>5 DEF a, b, c, s, i
<1> HIDE DEF f, g, W
<1>8. UNION {Load(f, FeatureOf(t, oy, ox, x)) \X Load(g, WeightByte(t, n, x[1], x[2])) :
               x \in Terms(t, oy, ox)}
        = UNION {Held(FT, x[2], PositionRead(t, w, from, oy, ox, x)) \X Held(WT, n, InputRead(t, x)) :
                   x \in Terms(t, oy, ox)}
  BY <1>7
<1>9. QED BY <1>8 DEF Accumulator, CellSum, f, g

-----------------------------------------------------------------------------
(* The layouts of npulib. *)

LEMMA FeatureDataPlace ==
  ASSUME NEW H \in Nat, NEW W \in Nat, NEW A \in Nat \ {0},
         NEW c \in Nat \ {0}, NEW h \in Nat \ {0}, NEW w \in Nat \ {0}
  PROVE  feature_data(H, W, A, c, h, w) = Place(A, W * H, c - 1, (h - 1) * W + (w - 1))
<1> DEFINE q == (c - 1) \div A
           r == (c - 1) % A
           s == (h - 1) * W + (w - 1)
<1>1. c - 1 \in Nat
  OBVIOUS
<1>2. q \in Nat /\ r \in Nat /\ s \in Nat
  <2>1. q \in Nat /\ r \in Nat
    BY <1>1, DivMod
  <2>2. s \in Nat
    OBVIOUS
  <2>3. QED BY <2>1, <2>2
<1>3. feature_data(H, W, A, c, h, w) = q * H * W * A + A * s + r
  BY DEF feature_data
<1>4. Place(A, W * H, c - 1, s) = q * (W * H) * A + s * A + r
  BY DEF Place
<1> HIDE DEF q, r, s
<1>5. q * H * W * A + A * s + r = q * (W * H) * A + s * A + r
  <2>1. q * H * W = q * (W * H)
    BY <1>2
  <2>2. A * s = s * A
    BY <1>2
  <2>3. QED BY <2>1, <2>2
<1>6. QED BY <1>3, <1>4, <1>5 DEF s

FeatureDataAt(H, W, A, c, h, w) ==
  feature_data(H, W, A, c, h, w) = Place(A, W * H, c - 1, (h - 1) * W + (w - 1))

LEMMA FeatureDataPlaced ==
  ASSUME NEW H \in Nat, NEW W \in Nat, NEW A \in Nat \ {0},
         NEW c \in Nat \ {0}, NEW h \in Nat \ {0}, NEW w \in Nat \ {0}
  PROVE  FeatureDataAt(H, W, A, c, h, w)
BY FeatureDataPlace DEF FeatureDataAt

LEMMA WeightDataPlace ==
  ASSUME NEW C \in Nat, NEW k \in Nat \ {0}, NEW c \in Nat \ {0}
  PROVE  weight_int8(C, k, c) = WeightPlace(C, k - 1, c - 1)
<1> DEFINE G == Group
           a == (c - 1) \div G
           b == (k - 1) \div G
           d == (c - 1) % G
           e == (k - 1) % G
<1>1. G \in Nat \ {0} /\ c - 1 \in Nat /\ k - 1 \in Nat
  BY HardwareSizes
<1> HIDE DEF G
<1>2. a \in Nat /\ b \in Nat /\ d \in Nat /\ e \in Nat
  BY <1>1
<1>3. weight_int8(C, k, c) = a * G * G + b * G * C + d + e * G
  BY DEF weight_int8, G
<1>4. WeightPlace(C, k - 1, c - 1) = b * G * C + a * G * G + e * G + d
  BY DEF WeightPlace, G
<1> HIDE DEF a, b, d, e
<1>5. a * G * G \in Nat /\ b * G * C \in Nat /\ e * G \in Nat
  BY <1>1, <1>2
<1>6. QED BY <1>2, <1>3, <1>4, <1>5

Flat2(kw, in_c, r, ic) == (r[1] * kw + r[2]) * in_c + ic

KernelDataAt(in_c, kh, kw, oc, ic, r1, r2) ==
  conv2d_weight(in_c, kh, kw, oc, ic, r1, r2)
    = WeightPlace(kw * kh * in_c, oc - 1, Flat2(kw, in_c, <<r1, r2>>, ic - 1))

LEMMA KernelDataPlace ==
  ASSUME NEW in_c \in Nat \ {0}, NEW kh \in Nat, NEW kw \in Nat,
         NEW oc \in Nat \ {0}, NEW ic \in Nat \ {0}, NEW r1 \in Nat, NEW r2 \in Nat
  PROVE  KernelDataAt(in_c, kh, kw, oc, ic, r1, r2)
<1> DEFINE f == r1 * kw * in_c + r2 * in_c + ic
<1>1. r1 * kw * in_c + r2 * in_c = (r1 * kw + r2) * in_c /\ (r1 * kw + r2) * in_c \in Nat
  <2> DEFINE z == r1 * kw
  <2>1. z \in Nat
    OBVIOUS
  <2> HIDE DEF z
  <2>2. z * in_c + r2 * in_c = (z + r2) * in_c /\ (z + r2) * in_c \in Nat
    BY <2>1
  <2>3. QED BY <2>2 DEF z
<1>2. f \in Nat \ {0} /\ f - 1 = Flat2(kw, in_c, <<r1, r2>>, ic - 1)
  BY <1>1 DEF Flat2
<1>3. kh * kw * in_c = kw * kh * in_c /\ kh * kw * in_c \in Nat
  <2>1. kh * kw = kw * kh /\ kh * kw \in Nat
    OBVIOUS
  <2>2. QED BY <2>1
<1>4. conv2d_weight(in_c, kh, kw, oc, ic, r1, r2) = weight_int8(kh * kw * in_c, oc, f)
  BY DEF conv2d_weight
<1> HIDE DEF f
<1> DEFINE C == kh * kw * in_c
<1>5. C \in Nat
  BY <1>3
<1> HIDE DEF C
<1>6. weight_int8(C, oc, f) = WeightPlace(C, oc - 1, f - 1)
  BY <1>2, <1>5, WeightDataPlace
<1>7. QED BY <1>2, <1>3, <1>4, <1>6 DEF C, KernelDataAt

LEMMA FlatApart ==
  ASSUME NEW kw \in Nat \ {0}, NEW in_c \in Nat \ {0},
         NEW r, NEW u, r[1] \in Nat, r[2] \in 0 .. kw - 1, u[1] \in Nat, u[2] \in 0 .. kw - 1,
         NEW ic \in 0 .. in_c - 1, NEW jc \in 0 .. in_c - 1,
         Flat2(kw, in_c, r, ic) = Flat2(kw, in_c, u, jc)
  PROVE  r[1] = u[1] /\ r[2] = u[2] /\ ic = jc
<1> DEFINE x == r[1] * kw + r[2]
           y == u[1] * kw + u[2]
<1>1. x \in Nat /\ y \in Nat
  <2>1. r[1] * kw \in Nat /\ u[1] * kw \in Nat
    OBVIOUS
  <2>2. QED BY <2>1
<1>2. x * in_c + ic = y * in_c + jc
  BY DEF Flat2
<1>3. x = y /\ ic = jc
  <2> HIDE DEF x, y
  <2>1. QED BY <1>1, <1>2, OneRow
<1>4. r[1] = u[1] /\ r[2] = u[2]
  <2> DEFINE r1 == r[1]
             r2 == r[2]
             u1 == u[1]
             u2 == u[2]
  <2>1. r1 \in Nat /\ r2 \in 0 .. kw - 1 /\ u1 \in Nat /\ u2 \in 0 .. kw - 1
        /\ r1 * kw + r2 = u1 * kw + u2
    BY <1>3
  <2> HIDE DEF r1, r2, u1, u2
  <2>2. r1 = u1 /\ r2 = u2
    BY <2>1, OneRow
  <2>3. QED BY <2>2 DEF r1, r2, u1, u2
<1>5. QED BY <1>3, <1>4

LEMMA FlatBelow ==
  ASSUME NEW kh \in Nat \ {0}, NEW kw \in Nat \ {0}, NEW in_c \in Nat \ {0},
         NEW r, r[1] \in 0 .. kh - 1, r[2] \in 0 .. kw - 1, NEW ic \in 0 .. in_c - 1
  PROVE  Flat2(kw, in_c, r, ic) \in 0 .. kw * kh * in_c - 1
<1> DEFINE x == r[1] * kw + r[2]
           E == kh * kw
<1>1. x \in 0 .. E - 1 /\ E \in Nat
  BY TwoDigits
<1>2. kw * kh * in_c = E * in_c /\ Flat2(kw, in_c, r, ic) = x * in_c + ic
  BY DEF Flat2
<1> HIDE DEF x, E
<1>3. x * in_c + ic \in 0 .. E * in_c - 1
  BY <1>1, TwoDigits
<1>4. QED BY <1>2, <1>3

-----------------------------------------------------------------------------
(* The weights of the on-board convolutions. *)

ConvKinds == {"conv", "depthwise", "grouped", "deconv"}

ConvShape(o) ==
  /\ o.kind \in ConvKinds
  /\ o.p.in_c \in Nat \ {0} /\ o.p.out_c \in Nat \ {0}
  /\ o.p.kh \in Nat \ {0} /\ o.p.kw \in Nat \ {0}
  /\ o.kind = "depthwise" => o.p.out_c = o.p.in_c
  /\ o.kind = "grouped" =>
       /\ o.groups \in Nat
       /\ o.p.in_c % Groups(o.groups) = 0 /\ o.p.out_c % Groups(o.groups) = 0

\* The pairs <<channel of the input, channel of the kernel>> that kernel n sums.
ChannelsOf(o, n) ==
  LET ICG == o.p.in_c \div Groups(o.groups)
      OCG == o.p.out_c \div Groups(o.groups)
  IN  CASE o.kind = "depthwise" -> {<<n, n>>}
        [] o.kind = "grouped"   -> {<<((n - 1) \div OCG) * ICG + j, j>> : j \in 1..ICG}
        [] OTHER                -> {<<c, c>> : c \in 1..o.p.in_c}

\* Where position r of the kernel is laid: a deconvolution turns its kernel round.
Turned(o, r) ==
  IF o.kind = "deconv" THEN <<o.p.kh - 1 - r[1], o.p.kw - 1 - r[2]>> ELSE <<r[1], r[2]>>

KernelIndices(o) ==
  {d \in (1..o.p.out_c) \X ((1..o.p.in_c) \X (1..o.p.in_c)) \X Kernel(o.p) :
     d[2] \in ChannelsOf(o, d[1])}

KernelTable(o) ==
  {<<e[1] - 1, Flat2(o.p.kw, o.p.in_c, Turned(o, e[3]), e[2][1] - 1),
     <<at, e[1], e[2][2], e[3][1], e[3][2]>>>> : e \in KernelIndices(o)}

KernelStore(o, e) ==
  <<conv2d_weight(o.p.in_c, o.p.kh, o.p.kw, e[1], e[2][1],
                  Turned(o, e[3])[1], Turned(o, e[3])[2]),
    <<at, e[1], e[2][2], e[3][1], e[3][2]>>>>

LEMMA TurnedInKernel ==
  ASSUME NEW o, ConvShape(o), NEW r \in Kernel(o.p)
  PROVE  /\ r = <<r[1], r[2]>> /\ r[1] \in 0 .. o.p.kh - 1 /\ r[2] \in 0 .. o.p.kw - 1
         /\ Turned(o, r) \in Kernel(o.p) /\ Turned(o, Turned(o, r)) = r
         /\ Turned(o, r)[1] \in 0 .. o.p.kh - 1 /\ Turned(o, r)[2] \in 0 .. o.p.kw - 1
         /\ Turned(o, r) = <<Turned(o, r)[1], Turned(o, r)[2]>>
<1>1. o.p.kh \in Nat \ {0} /\ o.p.kw \in Nat \ {0}
  BY DEF ConvShape
<1>2. r = <<r[1], r[2]>> /\ r[1] \in 0 .. o.p.kh - 1 /\ r[2] \in 0 .. o.p.kw - 1
  BY DEF Kernel
<1>3. CASE o.kind = "deconv"
  <2>1. Turned(o, r) = <<o.p.kh - 1 - r[1], o.p.kw - 1 - r[2]>>
    BY <1>3 DEF Turned
  <2> DEFINE a == o.p.kh - 1 - r[1]
             b == o.p.kw - 1 - r[2]
  <2>2. a \in 0 .. o.p.kh - 1 /\ b \in 0 .. o.p.kw - 1
    BY <1>1, <1>2
  <2>3. Turned(o, <<a, b>>) = <<o.p.kh - 1 - a, o.p.kw - 1 - b>>
    BY <1>3 DEF Turned
  <2>4. o.p.kh - 1 - a = r[1] /\ o.p.kw - 1 - b = r[2]
    BY <1>1, <1>2
  <2> HIDE DEF a, b
  <2>5. Turned(o, r) = <<a, b>>
    BY <2>1 DEF a, b
  <2>6. <<a, b>> \in Kernel(o.p)
    BY <2>2 DEF Kernel
  <2>7. QED BY <1>2, <2>2, <2>3, <2>4, <2>5, <2>6
<1>4. CASE o.kind # "deconv"
  <2>1. Turned(o, r) = r
    BY <1>2, <1>4 DEF Turned
  <2>2. QED BY <1>2, <2>1
<1>5. QED BY <1>3, <1>4

LEMMA GroupsFacts ==
  ASSUME NEW o, ConvShape(o), o.kind = "grouped"
  PROVE  LET g == Groups(o.groups)
             ICG == o.p.in_c \div g
             OCG == o.p.out_c \div g
         IN  /\ g \in Nat \ {0} /\ ICG \in Nat \ {0} /\ OCG \in Nat \ {0}
             /\ o.p.in_c = g * ICG /\ o.p.out_c = g * OCG
<1> DEFINE g == Groups(o.groups)
           c == o.p.in_c
           n == o.p.out_c
<1>1. g \in Nat \ {0}
  BY DEF ConvShape, Groups
<1>2. c \in Nat \ {0} /\ n \in Nat \ {0} /\ c % g = 0 /\ n % g = 0
  BY DEF ConvShape
<1> HIDE DEF g, c, n
<1>3. c \div g \in Nat /\ c = (c \div g) * g /\ c \div g > 0
  BY <1>1, <1>2, Whole
<1>4. n \div g \in Nat /\ n = (n \div g) * g /\ n \div g > 0
  BY <1>1, <1>2, Whole
<1>5. (c \div g) * g = g * (c \div g) /\ (n \div g) * g = g * (n \div g)
  BY <1>1, <1>3, <1>4
<1>6. QED BY <1>1, <1>3, <1>4, <1>5 DEF g, c, n

LEMMA ChannelsAre ==
  ASSUME NEW o, ConvShape(o), NEW n \in 1 .. o.p.out_c
  PROVE  ChannelsOf(o, n) \subseteq (1 .. o.p.in_c) \X (1 .. o.p.in_c)
<1>0. o.p.in_c \in Nat \ {0} /\ o.p.out_c \in Nat \ {0}
  BY DEF ConvShape
<1>1. CASE o.kind = "depthwise"
  <2>1. o.p.out_c = o.p.in_c /\ ChannelsOf(o, n) = {<<n, n>>}
    BY <1>1 DEF ConvShape, ChannelsOf
  <2>2. QED BY <2>1
<1>2. CASE o.kind = "grouped"
  <2> DEFINE g == Groups(o.groups)
             ICG == o.p.in_c \div g
             OCG == o.p.out_c \div g
             k == (n - 1) \div OCG
  <2>1. /\ g \in Nat \ {0} /\ ICG \in Nat \ {0} /\ OCG \in Nat \ {0}
        /\ o.p.in_c = g * ICG /\ o.p.out_c = g * OCG
    BY <1>2, GroupsFacts
  <2>2. ChannelsOf(o, n) = {<<k * ICG + j, j>> : j \in 1..ICG}
    BY <1>2 DEF ChannelsOf
  <2> HIDE DEF g, ICG, OCG
  <2>3. n - 1 \in Nat /\ n - 1 < g * OCG
    BY <1>0, <2>1
  <2>4. k \in 0 .. g - 1
    BY <2>1, <2>3, DigitBelow
  <2> HIDE DEF k
  <2>5. ASSUME NEW j \in 1 .. ICG PROVE <<k * ICG + j, j>> \in (1 .. o.p.in_c) \X (1 .. o.p.in_c)
    <3>1. j - 1 \in 0 .. ICG - 1 /\ g \in Nat /\ ICG \in Nat \ {0}
      BY <2>1
    <3>2. k * ICG + (j - 1) \in 0 .. g * ICG - 1
      BY <2>4, <3>1, TwoDigits
    <3>3. k * ICG \in Nat
      BY <2>1, <2>4
    <3> DEFINE z == k * ICG
    <3> HIDE DEF z
    <3>4. z + j \in 1 .. o.p.in_c
      BY <1>0, <2>1, <3>2, <3>3 DEF z
    <3>5. j \in 1 .. o.p.in_c
      <4>1. g * ICG >= ICG
        BY <2>1, Positive
      <4>2. QED BY <1>0, <2>1, <4>1
    <3>6. QED BY <3>4, <3>5 DEF z
  <2>6. QED BY <2>2, <2>5
<1>3. CASE o.kind \in {"conv", "deconv"}
  <2>1. ChannelsOf(o, n) = {<<c, c>> : c \in 1..o.p.in_c}
    BY <1>3 DEF ChannelsOf
  <2>2. QED BY <2>1
<1>4. QED BY <1>1, <1>2, <1>3 DEF ConvShape, ConvKinds

LEMMA IndexFacts ==
  ASSUME NEW o, ConvShape(o), NEW e \in KernelIndices(o)
  PROVE  /\ e[1] \in 1 .. o.p.out_c /\ e[2] \in ChannelsOf(o, e[1])
         /\ e[2][1] \in 1 .. o.p.in_c /\ e[2][2] \in 1 .. o.p.in_c
         /\ e[2] = <<e[2][1], e[2][2]>> /\ e[3] \in Kernel(o.p)
         /\ e[1] - 1 \in 0 .. o.p.out_c - 1 /\ e[2][1] - 1 \in 0 .. o.p.in_c - 1
<1>1. /\ e \in (1..o.p.out_c) \X ((1..o.p.in_c) \X (1..o.p.in_c)) \X Kernel(o.p)
      /\ e[2] \in ChannelsOf(o, e[1])
  BY DEF KernelIndices
<1>2. e[1] \in 1 .. o.p.out_c /\ e[2] \in (1..o.p.in_c) \X (1..o.p.in_c) /\ e[3] \in Kernel(o.p)
  BY <1>1
<1>3. o.p.out_c \in Nat /\ o.p.in_c \in Nat
  BY DEF ConvShape
<1>4. QED BY <1>1, <1>2, <1>3

LEMMA KernelTableRanged ==
  ASSUME NEW o, ConvShape(o)
  PROVE  Ranged(KernelTable(o), o.p.out_c, o.p.kw * o.p.kh * o.p.in_c)
<1>1. o.p.kh \in Nat \ {0} /\ o.p.kw \in Nat \ {0} /\ o.p.in_c \in Nat \ {0}
  BY DEF ConvShape
<1>2. ASSUME NEW e \in KernelIndices(o)
      PROVE  Flat2(o.p.kw, o.p.in_c, Turned(o, e[3]), e[2][1] - 1)
               \in 0 .. o.p.kw * o.p.kh * o.p.in_c - 1
  <2>1. e[3] \in Kernel(o.p) /\ e[2][1] - 1 \in 0 .. o.p.in_c - 1
    BY IndexFacts
  <2> DEFINE r == Turned(o, e[3])
             ic == e[2][1] - 1
  <2>2. r[1] \in 0 .. o.p.kh - 1 /\ r[2] \in 0 .. o.p.kw - 1
    BY <2>1, TurnedInKernel
  <2> HIDE DEF r, ic
  <2>3. Flat2(o.p.kw, o.p.in_c, r, ic) \in 0 .. o.p.kw * o.p.kh * o.p.in_c - 1
    BY <1>1, <2>1, <2>2, FlatBelow DEF ic
  <2>4. QED BY <2>3 DEF r, ic
<1>3. ASSUME NEW y \in KernelTable(o)
      PROVE  y[1] \in 0 .. o.p.out_c - 1 /\ y[2] \in 0 .. o.p.kw * o.p.kh * o.p.in_c - 1
  <2>1. PICK e \in KernelIndices(o) :
          y = <<e[1] - 1, Flat2(o.p.kw, o.p.in_c, Turned(o, e[3]), e[2][1] - 1),
                <<at, e[1], e[2][2], e[3][1], e[3][2]>>>>
    BY DEF KernelTable
  <2>2. y[1] = e[1] - 1
        /\ y[2] = Flat2(o.p.kw, o.p.in_c, Turned(o, e[3]), e[2][1] - 1)
    BY <2>1
  <2>3. e[1] - 1 \in 0 .. o.p.out_c - 1
    BY IndexFacts
  <2>4. QED BY <1>2, <2>2, <2>3
<1>4. QED BY <1>3 DEF Ranged

LEMMA StoresOfTable ==
  ASSUME NEW o, ConvShape(o)
  PROVE  WeightStores(o.p.kw * o.p.kh * o.p.in_c, KernelTable(o))
           = {KernelStore(o, e) : e \in KernelIndices(o)}
<1> DEFINE C == o.p.kw * o.p.kh * o.p.in_c
           Row(e) == <<e[1] - 1, Flat2(o.p.kw, o.p.in_c, Turned(o, e[3]), e[2][1] - 1),
                       <<at, e[1], e[2][2], e[3][1], e[3][2]>>>>
<1>1. o.p.kh \in Nat \ {0} /\ o.p.kw \in Nat \ {0} /\ o.p.in_c \in Nat \ {0}
      /\ o.p.out_c \in Nat
  BY DEF ConvShape
<1>2. ASSUME NEW e \in KernelIndices(o)
      PROVE  <<WeightPlace(C, Row(e)[1], Row(e)[2]), Row(e)[3]>> = KernelStore(o, e)
  <2> DEFINE r == Turned(o, e[3])
             ic == e[2][1]
             oc == e[1]
  <2>1. oc \in Nat \ {0} /\ ic \in Nat \ {0} /\ e[3] \in Kernel(o.p)
    BY <1>1, IndexFacts
  <2>2. r[1] \in Nat /\ r[2] \in Nat /\ r = <<r[1], r[2]>>
    BY <1>1, <2>1, TurnedInKernel
  <2> DEFINE r1 == r[1]
             r2 == r[2]
  <2> HIDE DEF r, ic, oc, C
  <2>8. r1 \in Nat /\ r2 \in Nat
    BY <2>2
  <2> HIDE DEF r1, r2
  <2>3. conv2d_weight(o.p.in_c, o.p.kh, o.p.kw, oc, ic, r1, r2)
          = WeightPlace(o.p.kw * o.p.kh * o.p.in_c, oc - 1,
                        Flat2(o.p.kw, o.p.in_c, <<r1, r2>>, ic - 1))
    <3>1. o.p.in_c \in Nat \ {0} /\ o.p.kh \in Nat /\ o.p.kw \in Nat
      BY <1>1
    <3>2. oc \in Nat \ {0} /\ ic \in Nat \ {0}
      BY <2>1
    <3>3. KernelDataAt(o.p.in_c, o.p.kh, o.p.kw, oc, ic, r1, r2)
      BY <2>8, <3>1, <3>2, KernelDataPlace
    <3>4. QED BY <3>3, Zenon DEF KernelDataAt
  <2>4. <<r1, r2>> = r
    BY <2>2 DEF r1, r2
  <2>5. KernelStore(o, e)
          = <<conv2d_weight(o.p.in_c, o.p.kh, o.p.kw, oc, ic, r1, r2),
              <<at, e[1], e[2][2], e[3][1], e[3][2]>>>>
    BY DEF KernelStore, oc, ic, r, r1, r2
  <2>6. Row(e)[1] = oc - 1 /\ Row(e)[2] = Flat2(o.p.kw, o.p.in_c, r, ic - 1)
        /\ Row(e)[3] = <<at, e[1], e[2][2], e[3][1], e[3][2]>>
    BY DEF oc, ic, r
  <2>7. QED BY <2>3, <2>4, <2>5, <2>6 DEF C
<1>3. KernelTable(o) = {Row(e) : e \in KernelIndices(o)}
  BY DEF KernelTable
<1> HIDE DEF C, Row
<1>4. WeightStores(C, KernelTable(o))
        = {<<WeightPlace(C, y[1], y[2]), y[3]>> : y \in KernelTable(o)}
  BY DEF WeightStores
<1>5. {<<WeightPlace(C, y[1], y[2]), y[3]>> : y \in KernelTable(o)}
        = {KernelStore(o, e) : e \in KernelIndices(o)}
  BY <1>2, <1>3
<1>6. QED BY <1>4, <1>5 DEF C

LEMMA ConvWeightsAre ==
  ASSUME NEW o, ConvShape(o)
  PROVE  ConvWeights(o) = WeightStores(o.p.kw * o.p.kh * o.p.in_c, KernelTable(o))
<1> DEFINE p == o.p
           K == KernelIndices(o)
           S == {KernelStore(o, e) : e \in K}
<1>1. p.in_c \in Nat \ {0} /\ p.out_c \in Nat \ {0} /\ p.kh \in Nat \ {0} /\ p.kw \in Nat \ {0}
  BY DEF ConvShape
<1>2. ASSUME NEW oc \in 1 .. p.out_c, NEW ch \in ChannelsOf(o, oc), NEW r \in Kernel(p),
             NEW a, NEW v, v = <<a, <<at, oc, ch[2], r[1], r[2]>>>>,
             a = conv2d_weight(p.in_c, p.kh, p.kw, oc, ch[1], Turned(o, r)[1], Turned(o, r)[2])
      PROVE  v \in S
  <2> DEFINE e == <<oc, ch, r>>
  <2>1. ch \in (1 .. p.in_c) \X (1 .. p.in_c)
    BY ChannelsAre
  <2>2. e \in K
    BY <2>1 DEF KernelIndices
  <2>3. KernelStore(o, e) = v
    BY <1>2 DEF KernelStore
  <2> HIDE DEF e, K
  <2>4. QED BY <2>2, <2>3
<1>3. ASSUME NEW v \in S
      PROVE  \E oc \in 1 .. p.out_c, r \in Kernel(p) : \E ch \in ChannelsOf(o, oc) :
               v = <<conv2d_weight(p.in_c, p.kh, p.kw, oc, ch[1], Turned(o, r)[1],
                                   Turned(o, r)[2]),
                     <<at, oc, ch[2], r[1], r[2]>>>>
  <2>1. PICK e \in K : v = KernelStore(o, e)
    OBVIOUS
  <2>2. e[1] \in 1 .. p.out_c /\ e[3] \in Kernel(p) /\ e[2] \in ChannelsOf(o, e[1])
    BY IndexFacts
  <2>3. QED BY <2>1, <2>2 DEF KernelStore
<1> HIDE DEF S, K
<1>4. CASE o.kind = "conv"
  <2>1. ConvWeights(o) =
         {<<conv2d_weight(p.in_c, p.kh, p.kw, oc, ic, r[1], r[2]),
            <<at, oc, ic, r[1], r[2]>>>> :
            oc \in 1..p.out_c, ic \in 1..p.in_c, r \in Kernel(p)}
    BY <1>4 DEF ConvWeights
  <2>2. \A n : ChannelsOf(o, n) = {<<c, c>> : c \in 1 .. p.in_c}
    BY <1>4 DEF ChannelsOf
  <2>3. \A r : Turned(o, r) = <<r[1], r[2]>>
    BY <1>4 DEF Turned
  <2>4. ASSUME NEW v \in ConvWeights(o) PROVE v \in S
    <3>1. PICK oc \in 1..p.out_c, ic \in 1..p.in_c, r \in Kernel(p) :
            v = <<conv2d_weight(p.in_c, p.kh, p.kw, oc, ic, r[1], r[2]),
                  <<at, oc, ic, r[1], r[2]>>>>
      BY <2>1
    <3> DEFINE ch == <<ic, ic>>
    <3>2. ch \in ChannelsOf(o, oc) /\ ch[1] = ic /\ ch[2] = ic
      BY <2>2
    <3> HIDE DEF ch
    <3>3. Turned(o, r)[1] = r[1] /\ Turned(o, r)[2] = r[2]
      BY <2>3
    <3>4. QED BY <1>2, <3>1, <3>2, <3>3
  <2>5. ASSUME NEW v \in S PROVE v \in ConvWeights(o)
    <3>1. PICK oc \in 1 .. p.out_c, r \in Kernel(p) : \E ch \in ChannelsOf(o, oc) :
               v = <<conv2d_weight(p.in_c, p.kh, p.kw, oc, ch[1], Turned(o, r)[1],
                                   Turned(o, r)[2]),
                     <<at, oc, ch[2], r[1], r[2]>>>>
      BY <1>3
    <3>2. PICK c \in 1 .. p.in_c :
               v = <<conv2d_weight(p.in_c, p.kh, p.kw, oc, c, Turned(o, r)[1],
                                   Turned(o, r)[2]),
                     <<at, oc, c, r[1], r[2]>>>>
      BY <2>2, <3>1
    <3>3. Turned(o, r)[1] = r[1] /\ Turned(o, r)[2] = r[2]
      BY <2>3
    <3>4. QED BY <2>1, <3>2, <3>3
  <2>6. QED BY <2>4, <2>5, StoresOfTable DEF S, K
<1>5. CASE o.kind = "depthwise"
  <2>1. ConvWeights(o) =
         {<<conv2d_weight(p.in_c, p.kh, p.kw, ch, ch, r[1], r[2]),
            <<at, ch, ch, r[1], r[2]>>>> : ch \in 1..p.in_c, r \in Kernel(p)}
    BY <1>5 DEF ConvWeights, dwconv2d_weight
  <2>2. p.out_c = p.in_c /\ \A n : ChannelsOf(o, n) = {<<n, n>>}
    BY <1>5 DEF ChannelsOf, ConvShape
  <2>3. \A r : Turned(o, r) = <<r[1], r[2]>>
    BY <1>5 DEF Turned
  <2>4. ASSUME NEW v \in ConvWeights(o) PROVE v \in S
    <3>1. PICK oc \in 1..p.in_c, r \in Kernel(p) :
            v = <<conv2d_weight(p.in_c, p.kh, p.kw, oc, oc, r[1], r[2]),
                  <<at, oc, oc, r[1], r[2]>>>>
      BY <2>1
    <3> DEFINE ch == <<oc, oc>>
    <3>2. ch \in ChannelsOf(o, oc) /\ ch[1] = oc /\ ch[2] = oc /\ oc \in 1 .. p.out_c
      BY <2>2
    <3> HIDE DEF ch
    <3>3. Turned(o, r)[1] = r[1] /\ Turned(o, r)[2] = r[2]
      BY <2>3
    <3>4. QED BY <1>2, <3>1, <3>2, <3>3
  <2>5. ASSUME NEW v \in S PROVE v \in ConvWeights(o)
    <3>1. PICK oc \in 1 .. p.out_c, r \in Kernel(p) : \E ch \in ChannelsOf(o, oc) :
               v = <<conv2d_weight(p.in_c, p.kh, p.kw, oc, ch[1], Turned(o, r)[1],
                                   Turned(o, r)[2]),
                     <<at, oc, ch[2], r[1], r[2]>>>>
      BY <1>3
    <3>2. v = <<conv2d_weight(p.in_c, p.kh, p.kw, oc, oc, Turned(o, r)[1],
                              Turned(o, r)[2]),
                <<at, oc, oc, r[1], r[2]>>>>
      BY <2>2, <3>1
    <3>3. Turned(o, r)[1] = r[1] /\ Turned(o, r)[2] = r[2]
      BY <2>3
    <3>4. QED BY <2>1, <2>2, <3>2, <3>3
  <2>6. QED BY <2>4, <2>5, StoresOfTable DEF S, K
<1>6. CASE o.kind = "grouped"
  <2> DEFINE g == Groups(o.groups)
             ICG == p.in_c \div g
             OCG == p.out_c \div g
  <2>1. ConvWeights(o) =
         {<<conv2d_weight(p.in_c, p.kh, p.kw, oc, ((oc - 1) \div OCG) * ICG + icg, r[1], r[2]),
            <<at, oc, icg, r[1], r[2]>>>> :
            oc \in 1..p.out_c, icg \in 1..ICG, r \in Kernel(p)}
    BY <1>6 DEF ConvWeights, grouped_conv2d_weight
  <2>2. \A n : ChannelsOf(o, n) = {<<((n - 1) \div OCG) * ICG + j, j>> : j \in 1..ICG}
    BY <1>6 DEF ChannelsOf
  <2> HIDE DEF g, ICG, OCG
  <2>3. \A r : Turned(o, r) = <<r[1], r[2]>>
    BY <1>6 DEF Turned
  <2>4. ASSUME NEW v \in ConvWeights(o) PROVE v \in S
    <3>1. PICK oc \in 1..p.out_c, icg \in 1..ICG, r \in Kernel(p) :
            v = <<conv2d_weight(p.in_c, p.kh, p.kw, oc, ((oc - 1) \div OCG) * ICG + icg,
                                r[1], r[2]),
                  <<at, oc, icg, r[1], r[2]>>>>
      BY <2>1
    <3> DEFINE ch == <<((oc - 1) \div OCG) * ICG + icg, icg>>
    <3>2. ch \in ChannelsOf(o, oc)
          /\ ch[1] = ((oc - 1) \div OCG) * ICG + icg /\ ch[2] = icg
      BY <2>2
    <3> HIDE DEF ch
    <3>3. Turned(o, r)[1] = r[1] /\ Turned(o, r)[2] = r[2]
      BY <2>3
    <3>4. QED BY <1>2, <3>1, <3>2, <3>3
  <2>5. ASSUME NEW v \in S PROVE v \in ConvWeights(o)
    <3>1. PICK oc \in 1 .. p.out_c, r \in Kernel(p) : \E ch \in ChannelsOf(o, oc) :
               v = <<conv2d_weight(p.in_c, p.kh, p.kw, oc, ch[1], Turned(o, r)[1],
                                   Turned(o, r)[2]),
                     <<at, oc, ch[2], r[1], r[2]>>>>
      BY <1>3
    <3>2. PICK icg \in 1..ICG :
            v = <<conv2d_weight(p.in_c, p.kh, p.kw, oc, ((oc - 1) \div OCG) * ICG + icg,
                                Turned(o, r)[1], Turned(o, r)[2]),
                  <<at, oc, icg, r[1], r[2]>>>>
      BY <2>2, <3>1
    <3>3. Turned(o, r)[1] = r[1] /\ Turned(o, r)[2] = r[2]
      BY <2>3
    <3>4. QED BY <2>1, <3>2, <3>3
  <2>6. QED BY <2>4, <2>5, StoresOfTable DEF S, K
<1>7. CASE o.kind = "deconv"
  <2>1. ConvWeights(o) =
         {<<conv2d_weight(p.in_c, p.kh, p.kw, co, ci, p.kh - 1 - r[1], p.kw - 1 - r[2]),
            <<at, co, ci, r[1], r[2]>>>> :
            co \in 1..p.out_c, ci \in 1..p.in_c, r \in Kernel(p)}
    BY <1>7 DEF ConvWeights, deconv_weight
  <2>2. \A n : ChannelsOf(o, n) = {<<c, c>> : c \in 1 .. p.in_c}
    BY <1>7 DEF ChannelsOf
  <2>3. \A r : Turned(o, r) = <<p.kh - 1 - r[1], p.kw - 1 - r[2]>>
    BY <1>7 DEF Turned
  <2>4. ASSUME NEW v \in ConvWeights(o) PROVE v \in S
    <3>1. PICK oc \in 1..p.out_c, ic \in 1..p.in_c, r \in Kernel(p) :
            v = <<conv2d_weight(p.in_c, p.kh, p.kw, oc, ic, p.kh - 1 - r[1], p.kw - 1 - r[2]),
                  <<at, oc, ic, r[1], r[2]>>>>
      BY <2>1
    <3> DEFINE ch == <<ic, ic>>
    <3>2. ch \in ChannelsOf(o, oc) /\ ch[1] = ic /\ ch[2] = ic
      BY <2>2
    <3> HIDE DEF ch
    <3>3. Turned(o, r)[1] = p.kh - 1 - r[1] /\ Turned(o, r)[2] = p.kw - 1 - r[2]
      BY <2>3
    <3>4. QED BY <1>2, <3>1, <3>2, <3>3
  <2>5. ASSUME NEW v \in S PROVE v \in ConvWeights(o)
    <3>1. PICK oc \in 1 .. p.out_c, r \in Kernel(p) : \E ch \in ChannelsOf(o, oc) :
               v = <<conv2d_weight(p.in_c, p.kh, p.kw, oc, ch[1], Turned(o, r)[1],
                                   Turned(o, r)[2]),
                     <<at, oc, ch[2], r[1], r[2]>>>>
      BY <1>3
    <3>2. PICK c \in 1 .. p.in_c :
               v = <<conv2d_weight(p.in_c, p.kh, p.kw, oc, c, Turned(o, r)[1],
                                   Turned(o, r)[2]),
                     <<at, oc, c, r[1], r[2]>>>>
      BY <2>2, <3>1
    <3>3. Turned(o, r)[1] = p.kh - 1 - r[1] /\ Turned(o, r)[2] = p.kw - 1 - r[2]
      BY <2>3
    <3>4. QED BY <2>1, <3>2, <3>3
  <2>6. QED BY <2>4, <2>5, StoresOfTable DEF S, K
<1>8. QED BY <1>4, <1>5, <1>6, <1>7 DEF ConvShape, ConvKinds

\* The elements of kernel n that term r, ic of the engine meets.
KernelElements(o, n, r, ic) ==
  {<<at, n + 1, c[2], Turned(o, r)[1], Turned(o, r)[2]>> :
     c \in {d \in ChannelsOf(o, n + 1) : d[1] = ic + 1}}

LEMMA KernelHeld ==
  ASSUME NEW o, ConvShape(o), NEW n \in 0 .. o.p.out_c - 1, NEW r \in Kernel(o.p),
         NEW ic \in 0 .. o.p.in_c - 1
  PROVE  Held(KernelTable(o), n, Flat2(o.p.kw, o.p.in_c, r, ic)) = KernelElements(o, n, r, ic)
<1> DEFINE f == Flat2(o.p.kw, o.p.in_c, r, ic)
           H == Held(KernelTable(o), n, f)
           KE == KernelElements(o, n, r, ic)
<1>1. o.p.kh \in Nat \ {0} /\ o.p.kw \in Nat \ {0} /\ o.p.in_c \in Nat \ {0}
      /\ o.p.out_c \in Nat \ {0}
  BY DEF ConvShape
<1>2. ASSUME NEW v \in H PROVE v \in KE
  <2>1. PICK y \in KernelTable(o) : y[1] = n /\ y[2] = f /\ v = y[3]
    BY DEF Held
  <2>2. PICK e \in KernelIndices(o) :
          y = <<e[1] - 1, Flat2(o.p.kw, o.p.in_c, Turned(o, e[3]), e[2][1] - 1),
                <<at, e[1], e[2][2], e[3][1], e[3][2]>>>>
    BY DEF KernelTable
  <2>3. /\ e[1] - 1 = n /\ Flat2(o.p.kw, o.p.in_c, Turned(o, e[3]), e[2][1] - 1) = f
        /\ v = <<at, e[1], e[2][2], e[3][1], e[3][2]>>
    BY <2>1, <2>2
  <2>4. /\ e[1] \in 1 .. o.p.out_c /\ e[2] \in ChannelsOf(o, e[1])
        /\ e[2][1] - 1 \in 0 .. o.p.in_c - 1 /\ e[3] \in Kernel(o.p)
        /\ e[2][1] \in 1 .. o.p.in_c
    BY IndexFacts
  <2> DEFINE u == Turned(o, e[3])
             jc == e[2][1] - 1
  <2>5. u[1] \in Nat /\ u[2] \in 0 .. o.p.kw - 1 /\ r[1] \in Nat /\ r[2] \in 0 .. o.p.kw - 1
        /\ u = <<u[1], u[2]>> /\ r = <<r[1], r[2]>>
    BY <1>1, <2>4, TurnedInKernel
  <2> HIDE DEF u, jc
  <2>6. u[1] = r[1] /\ u[2] = r[2] /\ jc = ic
    <3>1. Flat2(o.p.kw, o.p.in_c, u, jc) = Flat2(o.p.kw, o.p.in_c, r, ic) /\ jc \in 0 .. o.p.in_c - 1
      BY <2>3, <2>4 DEF u, jc
    <3>2. QED BY <1>1, <2>5, <3>1, FlatApart
  <2>7. u = r
    BY <2>5, <2>6
  <2>8. Turned(o, r) = e[3] /\ e[3] = <<e[3][1], e[3][2]>>
    BY <2>4, <2>7, TurnedInKernel DEF u
  <2>9. e[2][1] = ic + 1 /\ e[1] = n + 1
    BY <2>3, <2>4, <2>6 DEF jc
  <2>10. v = <<at, n + 1, e[2][2], Turned(o, r)[1], Turned(o, r)[2]>>
    BY <2>3, <2>8, <2>9
  <2>11. QED BY <2>4, <2>9, <2>10 DEF KernelElements
<1>3. ASSUME NEW v \in KE PROVE v \in H
  <2>1. PICK c \in ChannelsOf(o, n + 1) :
          c[1] = ic + 1 /\ v = <<at, n + 1, c[2], Turned(o, r)[1], Turned(o, r)[2]>>
    BY DEF KernelElements
  <2> DEFINE u == Turned(o, r)
             e == <<n + 1, c, u>>
  <2>2. n + 1 \in 1 .. o.p.out_c
    BY <1>1
  <2>3. c \in (1 .. o.p.in_c) \X (1 .. o.p.in_c)
    BY <2>2, ChannelsAre
  <2>4. u \in Kernel(o.p) /\ Turned(o, u) = r
    BY TurnedInKernel
  <2>5. e \in KernelIndices(o)
    BY <2>2, <2>3, <2>4 DEF KernelIndices
  <2> DEFINE y == <<e[1] - 1, Flat2(o.p.kw, o.p.in_c, Turned(o, e[3]), e[2][1] - 1),
                    <<at, e[1], e[2][2], e[3][1], e[3][2]>>>>
  <2>6. y \in KernelTable(o)
    BY <2>5 DEF KernelTable
  <2>7. e[1] = n + 1 /\ e[2] = c /\ e[3] = u
    OBVIOUS
  <2>8. e[1] - 1 = n /\ e[2][1] - 1 = ic
    BY <1>1, <2>1, <2>7
  <2> HIDE DEF e, u
  <2>9. y[1] = n /\ y[2] = f /\ y[3] = v
    BY <2>1, <2>4, <2>7, <2>8 DEF u
  <2>10. QED BY <2>6, <2>9 DEF Held
<1>4. QED BY <1>2, <1>3

-----------------------------------------------------------------------------
(* The cube of the on-board convolutions. *)

InputSpacing(o) == IF o.kind = "deconv" THEN <<o.p.stride_h, o.p.stride_w>> ELSE <<1, 1>>

CubeShape(o) ==
  LET q == Lowered(o) IN
  /\ o.p.in_c \in Nat \ {0} /\ o.p.in_h \in Nat \ {0} /\ o.p.in_w \in Nat \ {0}
  /\ q.in_c = o.p.in_c /\ q.in_h \in Nat \ {0} /\ q.in_w \in Nat \ {0}
  /\ InputSpacing(o)[1] \in Nat \ {0} /\ InputSpacing(o)[2] \in Nat \ {0}
  /\ (o.p.in_h - 1) * InputSpacing(o)[1] < q.in_h /\ (o.p.in_w - 1) * InputSpacing(o)[2] < q.in_w

CubePixels(o) == (1..o.p.in_c) \X (0..o.p.in_h - 1) \X (0..o.p.in_w - 1)

CubeTable(o) ==
  {<<e[1] - 1, (e[2] * InputSpacing(o)[1]) * Lowered(o).in_w + e[3] * InputSpacing(o)[2],
     <<at, e[1], e[2], e[3]>>>> : e \in CubePixels(o)}

LEMMA PixelFacts ==
  ASSUME NEW o, CubeShape(o), NEW e \in CubePixels(o)
  PROVE  LET q == Lowered(o)
             y == e[2] * InputSpacing(o)[1]
             x == e[3] * InputSpacing(o)[2]
         IN  /\ e[1] \in Nat \ {0} /\ e[1] - 1 \in 0 .. q.in_c - 1
             /\ e[2] \in 0 .. o.p.in_h - 1 /\ e[3] \in 0 .. o.p.in_w - 1
             /\ y \in 0 .. q.in_h - 1 /\ x \in 0 .. q.in_w - 1
             /\ y * q.in_w + x \in 0 .. q.in_w * q.in_h - 1
<1> DEFINE q == Lowered(o)
           s1 == InputSpacing(o)[1]
           s2 == InputSpacing(o)[2]
           y == e[2] * s1
           x == e[3] * s2
           H == q.in_h
           W == q.in_w
<1>1. /\ o.p.in_c \in Nat \ {0} /\ o.p.in_h \in Nat \ {0} /\ o.p.in_w \in Nat \ {0}
      /\ q.in_c = o.p.in_c /\ H \in Nat \ {0} /\ W \in Nat \ {0}
      /\ s1 \in Nat \ {0} /\ s2 \in Nat \ {0}
      /\ (o.p.in_h - 1) * s1 < H /\ (o.p.in_w - 1) * s2 < W
  BY DEF CubeShape
<1>2. e[1] \in 1 .. o.p.in_c /\ e[2] \in 0 .. o.p.in_h - 1 /\ e[3] \in 0 .. o.p.in_w - 1
  BY DEF CubePixels
<1> HIDE DEF s1, s2, H, W
<1>3. y \in 0 .. H - 1
  <2> DEFINE a == e[2]
             m == o.p.in_h - 1
  <2>1. a \in Nat /\ m \in Nat /\ a <= m
    BY <1>1, <1>2
  <2> HIDE DEF a, m
  <2>2. a * s1 <= m * s1 /\ a * s1 \in Nat /\ m * s1 \in Nat
    BY <1>1, <2>1, Grows
  <2>3. m * s1 < H
    BY <1>1 DEF m
  <2>4. a * s1 \in 0 .. H - 1
    BY <1>1, <2>2, <2>3
  <2>5. QED BY <2>4 DEF a
<1>4. x \in 0 .. W - 1
  <2> DEFINE a == e[3]
             m == o.p.in_w - 1
  <2>1. a \in Nat /\ m \in Nat /\ a <= m
    BY <1>1, <1>2
  <2> HIDE DEF a, m
  <2>2. a * s2 <= m * s2 /\ a * s2 \in Nat /\ m * s2 \in Nat
    BY <1>1, <2>1, Grows
  <2>3. m * s2 < W
    BY <1>1 DEF m
  <2>4. a * s2 \in 0 .. W - 1
    BY <1>1, <2>2, <2>3
  <2>5. QED BY <2>4 DEF a
<1> HIDE DEF x, y
<1>5. y * W + x \in 0 .. H * W - 1 /\ H * W = W * H
  BY <1>1, <1>3, <1>4, TwoDigits
<1>6. e[1] \in Nat \ {0} /\ e[1] - 1 \in 0 .. q.in_c - 1
  BY <1>1, <1>2
<1>7. QED BY <1>2, <1>3, <1>4, <1>5, <1>6 DEF x, y, s1, s2, H, W

LEMMA CubeTableRanged ==
  ASSUME NEW o, CubeShape(o)
  PROVE  Ranged(CubeTable(o), Lowered(o).in_c, Lowered(o).in_w * Lowered(o).in_h)
<1>1. ASSUME NEW y \in CubeTable(o)
      PROVE  y[1] \in 0 .. Lowered(o).in_c - 1
             /\ y[2] \in 0 .. Lowered(o).in_w * Lowered(o).in_h - 1
  <2>1. PICK e \in CubePixels(o) :
          y = <<e[1] - 1, (e[2] * InputSpacing(o)[1]) * Lowered(o).in_w + e[3] * InputSpacing(o)[2],
                <<at, e[1], e[2], e[3]>>>>
    BY DEF CubeTable
  <2>2. y[1] = e[1] - 1
        /\ y[2] = (e[2] * InputSpacing(o)[1]) * Lowered(o).in_w + e[3] * InputSpacing(o)[2]
    BY <2>1
  <2>3. QED BY <2>2, PixelFacts
<1>2. QED BY <1>1 DEF Ranged

LEMMA ConvFeaturesAre ==
  ASSUME NEW o, CubeShape(o)
  PROVE  ConvFeatures(o)
           = CubeStores(Atom, Lowered(o).in_w * Lowered(o).in_h, CubeTable(o))
<1> DEFINE q == Lowered(o)
           S == InputSpacing(o)
           Row(e) == <<e[1] - 1, (e[2] * S[1]) * q.in_w + e[3] * S[2],
                       <<at, e[1], e[2], e[3]>>>>
           Store(e) == <<feature_data(q.in_h, q.in_w, Atom, e[1], e[2] * S[1] + 1, e[3] * S[2] + 1),
                         <<at, e[1], e[2], e[3]>>>>
<1>1. ConvFeatures(o) = {Store(e) : e \in CubePixels(o)}
  BY DEF ConvFeatures, CubePixels, InputSpacing
<1>2. ASSUME NEW e \in CubePixels(o)
      PROVE  <<Place(Atom, q.in_w * q.in_h, Row(e)[1], Row(e)[2]), Row(e)[3]>> = Store(e)
  <2> DEFINE y == e[2] * S[1]
             x == e[3] * S[2]
             c == e[1]
             h == y + 1
             w == x + 1
             H == q.in_h
             W == q.in_w
  <2>1. c \in Nat \ {0} /\ y \in Nat /\ x \in Nat
    BY PixelFacts
  <2>2. H \in Nat /\ W \in Nat /\ Atom \in Nat \ {0}
    BY HardwareSizes DEF CubeShape
  <2>3. Row(e)[1] = c - 1 /\ Row(e)[2] = y * W + x /\ Row(e)[3] = <<at, e[1], e[2], e[3]>>
    OBVIOUS
  <2>4. Store(e) = <<feature_data(H, W, Atom, c, h, w), <<at, e[1], e[2], e[3]>>>>
    OBVIOUS
  <2>5. W * H = q.in_w * q.in_h
    OBVIOUS
  <2> HIDE DEF y, x, c, H, W, S, q, Row, Store
  <2>6. h \in Nat \ {0} /\ w \in Nat \ {0} /\ h - 1 = y /\ w - 1 = x
    BY <2>1
  <2> HIDE DEF h, w
  <2>7. feature_data(H, W, Atom, c, h, w) = Place(Atom, W * H, c - 1, (h - 1) * W + (w - 1))
    <3>1. FeatureDataAt(H, W, Atom, c, h, w)
      BY <2>1, <2>2, <2>6, FeatureDataPlaced
    <3>2. QED BY <3>1, Zenon DEF FeatureDataAt
  <2>8. QED BY <2>3, <2>4, <2>5, <2>6, <2>7
<1>3. CubeTable(o) = {Row(e) : e \in CubePixels(o)}
  BY DEF CubeTable
<1> HIDE DEF Row, Store, q
<1>4. CubeStores(Atom, q.in_w * q.in_h, CubeTable(o))
        = {<<Place(Atom, q.in_w * q.in_h, y[1], y[2]), y[3]>> : y \in CubeTable(o)}
  BY DEF CubeStores
<1>5. {<<Place(Atom, q.in_w * q.in_h, y[1], y[2]), y[3]>> : y \in CubeTable(o)}
        = {Store(e) : e \in CubePixels(o)}
  BY <1>2, <1>3
<1>6. QED BY <1>1, <1>4, <1>5 DEF q

\* The elements of the input that lie at (iy, ix) of the cube.
CubeElements(o, ic, iy, ix) ==
  {<<at, ic + 1, d[1], d[2]>> :
     d \in {e \in (0..o.p.in_h - 1) \X (0..o.p.in_w - 1) :
              e[1] * InputSpacing(o)[1] = iy /\ e[2] * InputSpacing(o)[2] = ix}}

LEMMA CubeHeld ==
  ASSUME NEW o, CubeShape(o), NEW ic \in 0 .. Lowered(o).in_c - 1,
         NEW iy \in 0 .. Lowered(o).in_h - 1, NEW ix \in 0 .. Lowered(o).in_w - 1
  PROVE  Held(CubeTable(o), ic, iy * Lowered(o).in_w + ix) = CubeElements(o, ic, iy, ix)
<1> DEFINE q == Lowered(o)
           W == q.in_w
           s == iy * W + ix
           L == Held(CubeTable(o), ic, s)
           R == CubeElements(o, ic, iy, ix)
<1>1. q.in_c = o.p.in_c /\ W \in Nat \ {0} /\ q.in_h \in Nat \ {0} /\ o.p.in_c \in Nat \ {0}
  BY DEF CubeShape
<1>2. ASSUME NEW v \in L PROVE v \in R
  <2>1. PICK y \in CubeTable(o) : y[1] = ic /\ y[2] = s /\ v = y[3]
    BY DEF Held
  <2>2. PICK e \in CubePixels(o) :
          y = <<e[1] - 1, (e[2] * InputSpacing(o)[1]) * W + e[3] * InputSpacing(o)[2],
                <<at, e[1], e[2], e[3]>>>>
    BY DEF CubeTable
  <2> DEFINE a == e[2] * InputSpacing(o)[1]
             b == e[3] * InputSpacing(o)[2]
  <2>3. e[1] - 1 = ic /\ a * W + b = s /\ v = <<at, e[1], e[2], e[3]>>
    BY <2>1, <2>2
  <2>4. /\ e[1] \in Nat \ {0} /\ e[2] \in 0 .. o.p.in_h - 1 /\ e[3] \in 0 .. o.p.in_w - 1
        /\ a \in 0 .. q.in_h - 1 /\ b \in 0 .. W - 1
    BY PixelFacts
  <2> HIDE DEF a, b, W
  <2>5. a = iy /\ b = ix
    <3>1. a \in Nat /\ iy \in Nat
      BY <1>1, <2>4
    <3>2. ix \in 0 .. W - 1 /\ b \in 0 .. W - 1 /\ W \in Nat \ {0}
      BY <1>1, <2>4 DEF W
    <3>3. a * W + b = iy * W + ix
      BY <2>3 DEF s
    <3>4. QED BY <3>1, <3>2, <3>3, OneRow
  <2>6. e[1] = ic + 1
    BY <2>3, <2>4
  <2> DEFINE d == <<e[2], e[3]>>
  <2>7. d \in {f \in (0..o.p.in_h - 1) \X (0..o.p.in_w - 1) :
                 f[1] * InputSpacing(o)[1] = iy /\ f[2] * InputSpacing(o)[2] = ix}
    BY <2>4, <2>5 DEF a, b
  <2>8. v = <<at, ic + 1, d[1], d[2]>>
    BY <2>3, <2>6
  <2> HIDE DEF d
  <2>9. QED BY <2>7, <2>8 DEF CubeElements
<1>3. ASSUME NEW v \in R PROVE v \in L
  <2>1. PICK d \in (0..o.p.in_h - 1) \X (0..o.p.in_w - 1) :
          d[1] * InputSpacing(o)[1] = iy /\ d[2] * InputSpacing(o)[2] = ix /\ v = <<at, ic + 1, d[1], d[2]>>
    BY DEF CubeElements
  <2> DEFINE e == <<ic + 1, d[1], d[2]>>
  <2>2. e \in CubePixels(o) /\ e[1] = ic + 1 /\ e[2] = d[1] /\ e[3] = d[2]
    BY <1>1 DEF CubePixels
  <2> HIDE DEF e
  <2> DEFINE y == <<e[1] - 1, (e[2] * InputSpacing(o)[1]) * W + e[3] * InputSpacing(o)[2],
                    <<at, e[1], e[2], e[3]>>>>
  <2>3. y \in CubeTable(o)
    BY <2>2 DEF CubeTable
  <2>4. e[1] - 1 = ic
    BY <1>1, <2>2
  <2>5. y[1] = ic /\ y[2] = s /\ y[3] = v
    BY <2>1, <2>2, <2>4
  <2> HIDE DEF y, s
  <2>6. QED BY <2>3, <2>5 DEF Held
<1>4. QED BY <1>2, <1>3

-----------------------------------------------------------------------------
(* The cells of the on-board convolutions. *)

(* Task t runs the convolution o is lowered to. *)
RunsLowered(t, o) ==
  LET q == Lowered(o) IN
  /\ SummingTask(t, q.in_w, q.in_h, 0) /\ t.in_h = q.in_h
  /\ t.kh = o.p.kh /\ t.kw = o.p.kw /\ t.in_c = o.p.in_c /\ t.kernels = o.p.out_c
  /\ t.stride_h = q.stride_h /\ t.stride_w = q.stride_w
  /\ t.pad_top = q.pad_top /\ t.pad_left = q.pad_left

TermPairs(t, o, n, oy, ox, x) ==
  CubeElements(o, x[2], RowRead(t, oy, x), ColumnRead(t, ox, x))
    \X KernelElements(o, n, x[1], x[2])

(* A cell of a lowered task sums the elements laid out for its terms. *)
LEMMA CellElements ==
  ASSUME NEW o, ConvShape(o), CubeShape(o), NEW t, RunsLowered(t, o),
         NEW n \in 0 .. o.p.out_c - 1, NEW oy \in Nat, NEW ox \in Nat
  PROVE  CellSum(t, CubeTable(o), KernelTable(o), Lowered(o).in_w, 0, n, oy, ox)
           = UNION {TermPairs(t, o, n, oy, ox, x) : x \in Terms(t, oy, ox)}
<1> DEFINE q == Lowered(o)
           W == q.in_w
           H == q.in_h
           FT == CubeTable(o)
           WT == KernelTable(o)
<1>1. /\ SummingTask(t, W, H, 0) /\ t.in_h = H
      /\ t.kh = o.p.kh /\ t.kw = o.p.kw /\ t.in_c = o.p.in_c /\ q.in_c = o.p.in_c
  BY DEF RunsLowered, CubeShape
<1>2. ASSUME NEW x \in Terms(t, oy, ox)
      PROVE  Held(FT, x[2], PositionRead(t, W, 0, oy, ox, x)) \X Held(WT, n, InputRead(t, x))
               = TermPairs(t, o, n, oy, ox, x)
  <2> DEFINE iy == RowRead(t, oy, x)
             ix == ColumnRead(t, ox, x)
             ic == x[2]
             r == x[1]
  <2>1. /\ r[1] \in 0 .. t.kh - 1 /\ r[2] \in 0 .. t.kw - 1 /\ ic \in 0 .. t.in_c - 1
        /\ x = <<<<r[1], r[2]>>, ic>> /\ iy \in 0 .. t.in_h - 1 /\ ix \in 0 .. W - 1
    BY <1>1, TermFacts
  <2>2. r = <<r[1], r[2]>>
    BY <2>1
  <2>3. r \in Kernel(o.p)
    BY <1>1, <2>1, <2>2 DEF Kernel
  <2>4. PositionRead(t, W, 0, oy, ox, x) = 0 + (iy * W + ix)
    BY DEF PositionRead
  <2>5. InputRead(t, x) = Flat2(o.p.kw, o.p.in_c, r, ic)
    BY <1>1 DEF InputRead, Flat2
  <2>6. TermPairs(t, o, n, oy, ox, x) = CubeElements(o, ic, iy, ix) \X KernelElements(o, n, r, ic)
    BY DEF TermPairs
  <2> HIDE DEF iy, ix, ic, r
  <2>7. ic \in 0 .. q.in_c - 1 /\ iy \in 0 .. q.in_h - 1 /\ ix \in 0 .. q.in_w - 1
        /\ ic \in 0 .. o.p.in_c - 1
    BY <1>1, <2>1
  <2>8. Held(FT, ic, iy * W + ix) = CubeElements(o, ic, iy, ix)
    BY <2>7, CubeHeld
  <2>9. Held(WT, n, Flat2(o.p.kw, o.p.in_c, r, ic)) = KernelElements(o, n, r, ic)
    BY <2>3, <2>7, KernelHeld
  <2>10. W \in Nat
    BY DEF CubeShape
  <2>11. PositionRead(t, W, 0, oy, ox, x) = iy * W + ix
    <3> HIDE DEF W
    <3>1. iy * W + ix \in Int
      BY <2>7, <2>10
    <3>2. QED BY <2>4, <3>1
  <2>12. x[2] = ic
    BY DEF ic
  <2>13. QED BY <2>5, <2>6, <2>8, <2>9, <2>11, <2>12
<1>3. CellSum(t, FT, WT, W, 0, n, oy, ox)
        = UNION {Held(FT, x[2], PositionRead(t, W, 0, oy, ox, x)) \X Held(WT, n, InputRead(t, x)) :
                   x \in Terms(t, oy, ox)}
  BY DEF CellSum
<1> HIDE DEF FT, WT, W
<1>4. {Held(FT, x[2], PositionRead(t, W, 0, oy, ox, x)) \X Held(WT, n, InputRead(t, x)) :
         x \in Terms(t, oy, ox)}
        = {TermPairs(t, o, n, oy, ox, x) : x \in Terms(t, oy, ox)}
  BY <1>2
<1>5. QED BY <1>3, <1>4 DEF FT, WT, W

(* A term of a convolution is one pair of the sum. *)
LEMMA DirectTerms ==
  ASSUME NEW o, ConvShape(o), CubeShape(o), o.kind # "deconv", NEW t, RunsLowered(t, o),
         NEW n \in 0 .. o.p.out_c - 1, NEW oy \in Nat, NEW ox \in Nat
  PROVE  UNION {TermPairs(t, o, n, oy, ox, x) : x \in Terms(t, oy, ox)}
           = Direct(o.p, ChannelsOf(o, n + 1), n + 1, oy, ox)
<1> DEFINE p == o.p
           CH == ChannelsOf(o, n + 1)
           L == UNION {TermPairs(t, o, n, oy, ox, x) : x \in Terms(t, oy, ox)}
           R == Direct(p, CH, n + 1, oy, ox)
           Y(r) == oy * p.stride_h + r[1] - p.pad_top
           X(r) == ox * p.stride_w + r[2] - p.pad_left
           Pair(c, r) == <<<<at, c[1], Y(r), X(r)>>, <<at, n + 1, c[2], r[1], r[2]>>>>
<1>1. /\ SummingTask(t, p.in_w, p.in_h, 0) /\ t.in_h = p.in_h /\ Lowered(o) = p
      /\ t.kh = p.kh /\ t.kw = p.kw /\ t.in_c = p.in_c /\ t.in_w = p.in_w
      /\ t.stride_h = p.stride_h /\ t.stride_w = p.stride_w
      /\ t.pad_top = p.pad_top /\ t.pad_left = p.pad_left
  BY DEF RunsLowered, Lowered, SummingTask, CubeTask
<1>2. /\ p.in_h \in Nat \ {0} /\ p.in_w \in Nat \ {0} /\ p.in_c \in Nat \ {0}
      /\ InputSpacing(o) = <<1, 1>> /\ CH \subseteq (1 .. p.in_c) \X (1 .. p.in_c)
  <2>1. n + 1 \in 1 .. p.out_c
    BY DEF ConvShape
  <2>2. CH \subseteq (1 .. p.in_c) \X (1 .. p.in_c)
    BY <2>1, ChannelsAre
  <2>3. QED BY <2>2 DEF CubeShape, InputSpacing
<1>3. ASSUME NEW x \in Terms(t, oy, ox)
      PROVE  /\ x[1] \in Kernel(p) /\ x[2] \in 0 .. p.in_c - 1
             /\ RowRead(t, oy, x) = Y(x[1]) /\ ColumnRead(t, ox, x) = X(x[1])
             /\ Y(x[1]) \in 0 .. p.in_h - 1 /\ X(x[1]) \in 0 .. p.in_w - 1
  <2>1. /\ x[1][1] \in 0 .. t.kh - 1 /\ x[1][2] \in 0 .. t.kw - 1 /\ x[2] \in 0 .. t.in_c - 1
        /\ x = <<<<x[1][1], x[1][2]>>, x[2]>>
        /\ RowRead(t, oy, x) \in 0 .. t.in_h - 1 /\ ColumnRead(t, ox, x) \in 0 .. p.in_w - 1
    BY <1>1, TermFacts
  <2>2. x[1] = <<x[1][1], x[1][2]>>
    BY <2>1
  <2>3. RowRead(t, oy, x) = Y(x[1]) /\ ColumnRead(t, ox, x) = X(x[1])
    BY <1>1 DEF RowRead, ColumnRead
  <2>4. QED BY <1>1, <2>1, <2>2, <2>3 DEF Kernel
<1>4. ASSUME NEW v \in L PROVE v \in R
  <2>1. PICK x \in Terms(t, oy, ox) : v \in TermPairs(t, o, n, oy, ox, x)
    OBVIOUS
  <2> DEFINE iy == RowRead(t, oy, x)
             ix == ColumnRead(t, ox, x)
             r == x[1]
  <2>2. PICK f \in CubeElements(o, x[2], iy, ix), g \in KernelElements(o, n, r, x[2]) :
          v = <<f, g>>
    BY <2>1 DEF TermPairs
  <2>3. PICK c \in CH : c[1] = x[2] + 1 /\ g = <<at, n + 1, c[2], Turned(o, r)[1], Turned(o, r)[2]>>
    BY DEF KernelElements
  <2>4. PICK d \in (0..p.in_h - 1) \X (0..p.in_w - 1) :
          d[1] * 1 = iy /\ d[2] * 1 = ix /\ f = <<at, x[2] + 1, d[1], d[2]>>
    BY <1>2 DEF CubeElements
  <2>5. d[1] = iy /\ d[2] = ix
    BY <2>4
  <2>6. Turned(o, r)[1] = r[1] /\ Turned(o, r)[2] = r[2]
    BY DEF Turned
  <2>7. iy = Y(r) /\ ix = X(r) /\ r \in Kernel(p)
        /\ Y(r) \in 0 .. p.in_h - 1 /\ X(r) \in 0 .. p.in_w - 1
    BY <1>3
  <2>8. v = Pair(c, r)
    BY <2>2, <2>3, <2>4, <2>5, <2>6, <2>7
  <2>9. Inside(Y(r), p.in_h) /\ Inside(X(r), p.in_w)
    BY <1>2, <2>7 DEF Inside
  <2>10. <<c, r>> \in {y \in CH \X Kernel(p) : Inside(Y(y[2]), p.in_h) /\ Inside(X(y[2]), p.in_w)}
    BY <2>7, <2>9
  <2>11. QED BY <2>8, <2>10 DEF Direct
<1>5. ASSUME NEW v \in R PROVE v \in L
  <2>1. PICK y \in CH \X Kernel(p) :
          /\ Inside(Y(y[2]), p.in_h) /\ Inside(X(y[2]), p.in_w) /\ v = Pair(y[1], y[2])
    BY DEF Direct
  <2> DEFINE c == y[1]
             r == y[2]
             ic == c[1] - 1
             x == <<r, ic>>
  <2>2. c \in CH /\ c[1] \in 1 .. p.in_c /\ c[2] \in 1 .. p.in_c /\ r \in Kernel(p)
    BY <1>2
  <2>3. ic \in 0 .. p.in_c - 1 /\ c[1] = ic + 1
    BY <1>2, <2>2
  <2>4. r[1] \in 0 .. p.kh - 1 /\ r[2] \in 0 .. p.kw - 1 /\ r = <<r[1], r[2]>>
    BY <2>2 DEF Kernel
  <2>5. Inside(Y(r), p.in_h) /\ Inside(X(r), p.in_w) /\ v = Pair(c, r)
    BY <2>1
  <2> HIDE DEF c, r, ic
  <2>6. x \in Terms(t, oy, ox) /\ x[1] = r /\ x[2] = ic
    BY <1>1, <2>2, <2>3, <2>4, <2>5 DEF Terms, Kernel
  <2> HIDE DEF x
  <2>7. RowRead(t, oy, x) = Y(r) /\ ColumnRead(t, ox, x) = X(r)
        /\ Y(r) \in 0 .. p.in_h - 1 /\ X(r) \in 0 .. p.in_w - 1
    BY <1>3, <2>6
  <2>8. <<at, c[1], Y(r), X(r)>> \in CubeElements(o, ic, Y(r), X(r))
    <3> DEFINE d == <<Y(r), X(r)>>
    <3>1. d \in (0..p.in_h - 1) \X (0..p.in_w - 1) /\ d[1] = Y(r) /\ d[2] = X(r)
      BY <2>7
    <3>2. d[1] * 1 = Y(r) /\ d[2] * 1 = X(r)
      BY <3>1
    <3> HIDE DEF d, Y, X
    <3>3. d \in {e \in (0..p.in_h - 1) \X (0..p.in_w - 1) :
                   e[1] * InputSpacing(o)[1] = Y(r) /\ e[2] * InputSpacing(o)[2] = X(r)}
      BY <1>2, <3>1, <3>2
    <3>4. QED BY <2>3, <3>1, <3>3 DEF CubeElements
  <2>9. <<at, n + 1, c[2], r[1], r[2]>> \in KernelElements(o, n, r, ic)
    <3>1. Turned(o, r)[1] = r[1] /\ Turned(o, r)[2] = r[2]
      BY DEF Turned
    <3>2. c \in {e \in ChannelsOf(o, n + 1) : e[1] = ic + 1}
      BY <2>2, <2>3
    <3>3. QED BY <3>1, <3>2 DEF KernelElements
  <2>10. v \in TermPairs(t, o, n, oy, ox, x)
    BY <2>5, <2>6, <2>7, <2>8, <2>9 DEF TermPairs
  <2>11. QED BY <2>6, <2>10
<1>6. QED BY <1>4, <1>5

(* A term of a deconvolution reads an input element where the stride put    *)
(* one: the turned kernel meets what the scattered sum adds there.          *)

LEMMA ScatteredTerms ==
  ASSUME NEW o, ConvShape(o), CubeShape(o), o.kind = "deconv", NEW t, RunsLowered(t, o),
         o.p.pad_top \in Nat, o.p.pad_left \in Nat,
         NEW n \in 0 .. o.p.out_c - 1, NEW oy \in Nat, NEW ox \in Nat
  PROVE  UNION {TermPairs(t, o, n, oy, ox, x) : x \in Terms(t, oy, ox)}
           = Scattered(o.p, n + 1, oy, ox)
<1> DEFINE p == o.p
           q == Lowered(o)
           CH == ChannelsOf(o, n + 1)
           L == UNION {TermPairs(t, o, n, oy, ox, x) : x \in Terms(t, oy, ox)}
           R == Scattered(p, n + 1, oy, ox)
           Y(r) == oy * 1 + r[1] - (p.kh - 1 - p.pad_top)
           X(r) == ox * 1 + r[2] - (p.kw - 1 - p.pad_left)
           Pair(c, a, b, u) == <<<<at, c, a, b>>, <<at, n + 1, c, u[1], u[2]>>>>
           Pixels == (1..p.in_c) \X (0..p.in_h - 1) \X (0..p.in_w - 1)
<1>1. /\ SummingTask(t, q.in_w, q.in_h, 0) /\ t.in_h = q.in_h /\ t.in_w = q.in_w
      /\ t.kh = p.kh /\ t.kw = p.kw /\ t.in_c = p.in_c
      /\ t.stride_h = 1 /\ t.stride_w = 1
      /\ t.pad_top = p.kh - 1 - p.pad_top /\ t.pad_left = p.kw - 1 - p.pad_left
  BY DEF RunsLowered, Lowered, DeconvAsConv, SummingTask, CubeTask
<1>2. /\ p.in_h \in Nat \ {0} /\ p.in_w \in Nat \ {0} /\ p.in_c \in Nat \ {0}
      /\ q.in_h \in Nat \ {0} /\ q.in_w \in Nat \ {0}
      /\ p.kh \in Nat \ {0} /\ p.kw \in Nat \ {0}
      /\ InputSpacing(o) = <<p.stride_h, p.stride_w>>
      /\ p.stride_h \in Nat \ {0} /\ p.stride_w \in Nat \ {0}
      /\ CH = {<<c, c>> : c \in 1 .. p.in_c}
  BY DEF CubeShape, ConvShape, InputSpacing, ChannelsOf
<1>3. ASSUME NEW x \in Terms(t, oy, ox)
      PROVE  /\ x[1] \in Kernel(p) /\ x[2] \in 0 .. p.in_c - 1
             /\ RowRead(t, oy, x) = Y(x[1]) /\ ColumnRead(t, ox, x) = X(x[1])
  <2>1. /\ x[1][1] \in 0 .. t.kh - 1 /\ x[1][2] \in 0 .. t.kw - 1 /\ x[2] \in 0 .. t.in_c - 1
        /\ x = <<<<x[1][1], x[1][2]>>, x[2]>>
    BY <1>1, TermFacts
  <2>2. x[1] = <<x[1][1], x[1][2]>>
    BY <2>1
  <2>3. RowRead(t, oy, x) = Y(x[1]) /\ ColumnRead(t, ox, x) = X(x[1])
    BY <1>1 DEF RowRead, ColumnRead
  <2>4. QED BY <1>1, <2>1, <2>2, <2>3 DEF Kernel
<1>4. ASSUME NEW r \in Kernel(p), NEW a \in Nat, NEW b \in Nat
      PROVE  LET u == Turned(o, r) IN
             /\ u \in Kernel(p) /\ Turned(o, u) = r
             /\ Y(r) = a <=> a - p.pad_top + u[1] = oy
             /\ X(r) = b <=> b - p.pad_left + u[2] = ox
  <2> DEFINE u == Turned(o, r)
             u1 == u[1]
             u2 == u[2]
             r1 == r[1]
             r2 == r[2]
  <2>1. u \in Kernel(p) /\ Turned(o, u) = r
    BY TurnedInKernel
  <2>2. u1 = p.kh - 1 - r1 /\ u2 = p.kw - 1 - r2
    BY DEF Turned
  <2>3. r1 \in Int /\ r2 \in Int
    BY DEF Kernel
  <2>4. u1 \in Int /\ u2 \in Int /\ p.kh \in Int /\ p.kw \in Int
        /\ p.pad_top \in Int /\ p.pad_left \in Int
    BY <1>2, <2>2, <2>3
  <2> HIDE DEF u, u1, u2, r1, r2
  <2>5. oy * 1 + r1 - (p.kh - 1 - p.pad_top) = a <=> a - p.pad_top + u1 = oy
    BY <2>2, <2>3, <2>4
  <2>6. ox * 1 + r2 - (p.kw - 1 - p.pad_left) = b <=> b - p.pad_left + u2 = ox
    BY <2>2, <2>3, <2>4
  <2>7. QED BY <2>1, <2>5, <2>6 DEF u, u1, u2, r1, r2
<1>5. ASSUME NEW v \in L PROVE v \in R
  <2>1. PICK x \in Terms(t, oy, ox) : v \in TermPairs(t, o, n, oy, ox, x)
    OBVIOUS
  <2> DEFINE iy == RowRead(t, oy, x)
             ix == ColumnRead(t, ox, x)
             r == x[1]
             u == Turned(o, r)
  <2>2. PICK f \in CubeElements(o, x[2], iy, ix), g \in KernelElements(o, n, r, x[2]) :
          v = <<f, g>>
    BY <2>1 DEF TermPairs
  <2>3. PICK c \in CH : c[1] = x[2] + 1 /\ g = <<at, n + 1, c[2], u[1], u[2]>>
    BY DEF KernelElements
  <2>4. PICK d \in (0..p.in_h - 1) \X (0..p.in_w - 1) :
          d[1] * p.stride_h = iy /\ d[2] * p.stride_w = ix /\ f = <<at, x[2] + 1, d[1], d[2]>>
    BY <1>2 DEF CubeElements
  <2>5. c[1] = c[2] /\ c[1] \in 1 .. p.in_c
    BY <1>2
  <2>6. iy = Y(r) /\ ix = X(r) /\ r \in Kernel(p)
    BY <1>3
  <2> DEFINE a == d[1] * p.stride_h
             b == d[2] * p.stride_w
  <2>7. a \in Nat /\ b \in Nat
    BY <1>2
  <2>8. u \in Kernel(p) /\ a - p.pad_top + u[1] = oy /\ b - p.pad_left + u[2] = ox
    <3>1. Y(r) = a /\ X(r) = b
      BY <2>4, <2>6
    <3> HIDE DEF a, b, u, r, Y, X
    <3>2. QED BY <1>4, <2>6, <2>7, <3>1 DEF u
  <2>9. v = Pair(c[1], d[1], d[2], u)
    BY <2>2, <2>3, <2>4, <2>5
  <2> DEFINE e == <<<<c[1], d[1], d[2]>>, u>>
  <2>10. e \in Pixels \X Kernel(p)
         /\ e[1][1] = c[1] /\ e[1][2] = d[1] /\ e[1][3] = d[2] /\ e[2] = u
    BY <2>5, <2>8
  <2> HIDE DEF e, u
  <2>11. e \in {y \in Pixels \X Kernel(p) :
                  /\ y[1][2] * p.stride_h - p.pad_top + y[2][1] = oy
                  /\ y[1][3] * p.stride_w - p.pad_left + y[2][2] = ox}
    BY <2>8, <2>10
  <2>12. v = Pair(e[1][1], e[1][2], e[1][3], e[2])
    BY <2>9, <2>10
  <2>13. QED BY <2>11, <2>12 DEF Scattered
<1>6. ASSUME NEW v \in R PROVE v \in L
  <2>1. PICK e \in Pixels \X Kernel(p) :
          /\ e[1][2] * p.stride_h - p.pad_top + e[2][1] = oy
          /\ e[1][3] * p.stride_w - p.pad_left + e[2][2] = ox
          /\ v = Pair(e[1][1], e[1][2], e[1][3], e[2])
    BY DEF Scattered
  <2> DEFINE c == e[1][1]
             d == <<e[1][2], e[1][3]>>
             u == e[2]
             r == Turned(o, u)
             ic == c - 1
             x == <<r, ic>>
             a == e[1][2] * p.stride_h
             b == e[1][3] * p.stride_w
  <2>2. /\ c \in 1 .. p.in_c /\ d \in (0..p.in_h - 1) \X (0..p.in_w - 1) /\ u \in Kernel(p)
        /\ ic \in 0 .. p.in_c - 1 /\ c = ic + 1 /\ d[1] = e[1][2] /\ d[2] = e[1][3]
    BY <1>2
  <2>3. r \in Kernel(p) /\ Turned(o, r) = u /\ r = <<r[1], r[2]>>
        /\ r[1] \in 0 .. p.kh - 1 /\ r[2] \in 0 .. p.kw - 1
    BY <2>2, TurnedInKernel
  <2>4. a \in 0 .. q.in_h - 1 /\ b \in 0 .. q.in_w - 1
    <3>1. e[1] \in CubePixels(o)
      BY DEF CubePixels
    <3>2. QED BY <1>2, <3>1, PixelFacts
  <2>5. Y(r) = a /\ X(r) = b
    <3>1. a - p.pad_top + u[1] = oy /\ b - p.pad_left + u[2] = ox
      BY <2>1
    <3>2. a \in Nat /\ b \in Nat
      BY <1>2, <2>4
    <3> HIDE DEF a, b, u, r, Y, X
    <3>3. QED BY <1>4, <2>3, <3>1, <3>2
  <2>6. v = Pair(c, d[1], d[2], u)
    BY <2>1, <2>2
  <2> HIDE DEF c, d, u, r, ic
  <2>7. x \in Terms(t, oy, ox) /\ x[1] = r /\ x[2] = ic
    <3>1. x[1] = r /\ x[2] = ic
      OBVIOUS
    <3>2. x \in ((0..t.kh - 1) \X (0..t.kw - 1)) \X (0..t.in_c - 1)
      BY <1>1, <2>2, <2>3
    <3>3. oy * t.stride_h + x[1][1] - t.pad_top = a /\ ox * t.stride_w + x[1][2] - t.pad_left = b
      BY <1>1, <2>5
    <3>4. Inside(a, t.in_h) /\ Inside(b, t.in_w)
      <4> HIDE DEF a, b
      <4>1. QED BY <1>1, <1>2, <2>4 DEF Inside
    <3> HIDE DEF a, b, x
    <3>5. QED BY <3>1, <3>2, <3>3, <3>4 DEF Terms
  <2> HIDE DEF x
  <2>8. RowRead(t, oy, x) = a /\ ColumnRead(t, ox, x) = b
    BY <1>3, <2>5, <2>7
  <2>9. <<at, c, d[1], d[2]>> \in CubeElements(o, ic, a, b)
    <3>1. d[1] * p.stride_h = a /\ d[2] * p.stride_w = b
      BY <2>2
    <3> HIDE DEF a, b
    <3>2. d \in {f \in (0..p.in_h - 1) \X (0..p.in_w - 1) :
                   f[1] * InputSpacing(o)[1] = a /\ f[2] * InputSpacing(o)[2] = b}
      BY <1>2, <2>2, <3>1
    <3>3. QED BY <2>2, <3>2 DEF CubeElements
  <2>10. <<at, n + 1, c, u[1], u[2]>> \in KernelElements(o, n, r, ic)
    <3> DEFINE f == <<c, c>>
    <3>1. f \in CH /\ f[1] = c /\ f[2] = c
      BY <1>2, <2>2
    <3> HIDE DEF f
    <3>2. f \in {g \in ChannelsOf(o, n + 1) : g[1] = ic + 1}
      BY <2>2, <3>1
    <3>3. QED BY <2>3, <3>1, <3>2 DEF KernelElements
  <2>11. v \in TermPairs(t, o, n, oy, ox, x)
    BY <2>6, <2>7, <2>8, <2>9, <2>10 DEF TermPairs
  <2>12. QED BY <2>7, <2>11
<1>7. QED BY <1>5, <1>6

-----------------------------------------------------------------------------
(* The on-board convolutions sum what they promise. *)

LEMMA DeconvAligned ==
  ASSUME NEW h \in Nat \ {0}, NEW s \in Nat \ {0}
  PROVE  /\ RoundUp((h - 1) * s + 1, RowAlign) % RowAlign = 0
         /\ (h - 1) * s < RoundUp((h - 1) * s + 1, RowAlign)
<1> DEFINE m == h - 1
           a == m * s + 1
<1>1. m \in Nat /\ m * s \in Nat /\ RowAlign \in Nat \ {0}
  <2>1. m \in Nat /\ RowAlign \in Nat \ {0}
    BY HardwareSizes
  <2> HIDE DEF m
  <2>2. QED BY <2>1
<1>2. a \in Nat /\ m * s < a
  <2> HIDE DEF m
  <2>1. QED BY <1>1
<1> HIDE DEF a
<1>3. RoundUp(a, RowAlign) % RowAlign = 0 /\ RoundUp(a, RowAlign) >= a /\ RoundUp(a, RowAlign) \in Nat
  BY <1>1, <1>2, RoundUpFacts
<1>4. m * s < RoundUp(a, RowAlign)
  <2> HIDE DEF m
  <2>1. QED BY <1>1, <1>2, <1>3
<1>5. QED BY <1>3, <1>4 DEF a, m

(* What the parameters of an on-board convolution give. *)
LEMMA ConvKindShapes ==
  ASSUME NEW o, WellFormed(o), AlignedHeight(o), o.kind \in ConvKinds,
         ~NotLowered(o), FitsTheEngine(Lowered(o))
  PROVE  /\ ConvShape(o) /\ CubeShape(o) /\ Lowered(o).in_h % RowAlign = 0
         /\ o.p.in_c = Lowered(o).in_c /\ o.p.out_c = Lowered(o).out_c
         /\ o.p.kh = Lowered(o).kh /\ o.p.kw = Lowered(o).kw
         /\ o.kind = "deconv" =>
              /\ o.p.pad_top \in Nat /\ o.p.pad_left \in Nat
              /\ o.p.pad_bottom \in Nat /\ o.p.pad_right \in Nat
              /\ o.p.output_padding_h \in Nat /\ o.p.output_padding_w \in Nat
<1> DEFINE q == Lowered(o)
           p == o.p
<1>1. /\ q.in_h \in Nat \ {0} /\ q.in_w \in Nat \ {0} /\ q.in_c \in Nat \ {0}
      /\ q.out_c \in Nat \ {0} /\ q.kh \in Nat \ {0} /\ q.kw \in Nat \ {0}
  BY ConvSizes
<1>2. CASE o.kind # "deconv"
  <2>1. o.kind \in {"conv", "depthwise", "grouped"} /\ q = p
    BY <1>2 DEF ConvKinds, Lowered
  <2>2. p.in_h % RowAlign = 0
    BY <2>1 DEF AlignedHeight
  <2>3. o.kind = "depthwise" => p.out_c = p.in_c
    BY DEF WellFormed
  <2>4. o.kind = "grouped" => /\ o.groups \in Nat
                              /\ p.in_c % Groups(o.groups) = 0 /\ p.out_c % Groups(o.groups) = 0
    BY DEF WellFormed, NotLowered
  <2>5. ConvShape(o)
    BY <1>1, <2>1, <2>3, <2>4 DEF ConvShape
  <2>6. InputSpacing(o) = <<1, 1>>
    BY <1>2 DEF InputSpacing
  <2>7. CubeShape(o)
    <3> DEFINE h == p.in_h
               w == p.in_w
    <3>1. h \in Nat \ {0} /\ w \in Nat \ {0}
      BY <1>1, <2>1
    <3> HIDE DEF h, w
    <3>2. (h - 1) * 1 < h /\ (w - 1) * 1 < w
      BY <3>1
    <3>3. (p.in_h - 1) * 1 < p.in_h /\ (p.in_w - 1) * 1 < p.in_w
      BY <3>2 DEF h, w
    <3> HIDE DEF p, q
    <3>4. QED BY <1>1, <2>1, <2>6, <3>3 DEF CubeShape, p, q
  <2>8. QED BY <1>2, <2>1, <2>2, <2>5, <2>7
<1>3. CASE o.kind = "deconv"
  <2>1. /\ q.in_h = RoundUp((p.in_h - 1) * p.stride_h + 1, RowAlign)
        /\ q.in_w = RoundUp((p.in_w - 1) * p.stride_w + 1, RowAlign)
        /\ q.in_c = p.in_c /\ q.out_c = p.out_c /\ q.kh = p.kh /\ q.kw = p.kw
    BY <1>3 DEF Lowered, DeconvAsConv
  <2>2. /\ {p.kh, p.kw, p.pad_top, p.pad_left, p.pad_bottom, p.pad_right,
            p.output_padding_h, p.output_padding_w} \subseteq Nat
        /\ {p.in_h, p.in_w, p.stride_h, p.stride_w} \subseteq Nat \ {0}
    BY <1>3 DEF WellFormed
  <2>3. ConvShape(o)
    BY <1>1, <1>3, <2>1 DEF ConvShape, ConvKinds
  <2>4. InputSpacing(o) = <<p.stride_h, p.stride_w>>
    BY <1>3 DEF InputSpacing
  <2>5. /\ p.in_h \in Nat \ {0} /\ p.in_w \in Nat \ {0}
        /\ p.stride_h \in Nat \ {0} /\ p.stride_w \in Nat \ {0}
    BY <2>2
  <2> HIDE DEF p, q
  <2>6. q.in_h % RowAlign = 0 /\ (p.in_h - 1) * p.stride_h < q.in_h
    BY <2>1, <2>5, DeconvAligned
  <2>7. (p.in_w - 1) * p.stride_w < q.in_w
    BY <2>1, <2>5, DeconvAligned
  <2>8. CubeShape(o)
    BY <1>1, <2>1, <2>4, <2>5, <2>6, <2>7 DEF CubeShape, p, q
  <2>9. QED BY <2>1, <2>2, <2>3, <2>6, <2>8 DEF p, q
<1>4. QED BY <1>2, <1>3

(* The task of a convolution sums. *)
LEMMA ConvSums ==
  ASSUME NEW p, FitsTheEngine(p), p.in_h % RowAlign = 0 \/ (p.in_w = 1 /\ p.in_h = 1)
  PROVE  LET t == ConvTask(p) IN
         /\ SummingTask(t, p.in_w, p.in_h, 0) /\ ConvFields(t, p)
<1> DEFINE t == ConvTask(p)
<1>1. ConvFields(t, p)
  BY ConvTaskFields
<1>2. CubeTask(t, p.in_w, p.in_h, 0)
  BY ConvCube
<1> HIDE DEF t
<1>3. /\ {p.in_h, p.in_w, p.in_c, p.out_c, p.kh, p.kw, p.stride_h, p.stride_w}
           \subseteq Nat \ {0}
      /\ {p.pad_top, p.pad_left, p.pad_bottom, p.pad_right} \subseteq Nat
      /\ ConvOutH(p) \in Nat \ {0} /\ ConvOutW(p) \in Nat \ {0}
  BY ConvSizes
<1>4. p.in_c % Group = 0 /\ p.out_c % Group = 0
  BY Zenon DEF FitsTheEngine
<1>5. /\ t.kh = p.kh /\ t.kw = p.kw /\ t.in_c = p.in_c /\ t.kernels = p.out_c
      /\ t.wbpk = p.kw * p.kh * p.in_c /\ t.out_h = ConvOutH(p) /\ t.out_w = ConvOutW(p)
      /\ t.stride_h = p.stride_h /\ t.stride_w = p.stride_w
      /\ t.pad_top = p.pad_top /\ t.pad_left = p.pad_left
  BY <1>1 DEF ConvFields
<1>6. SummingTask(t, p.in_w, p.in_h, 0)
  BY <1>2, <1>3, <1>4, <1>5 DEF SummingTask
<1>7. QED BY <1>1, <1>6 DEF t

(* What cell c of the task of an on-board convolution sums. *)
LEMMA ConvCell ==
  ASSUME NEW o, WellFormed(o), AlignedHeight(o), o.kind \in ConvKinds,
         ~NotLowered(o), FitsTheEngine(Lowered(o)),
         NEW n \in 0 .. o.p.out_c - 1,
         NEW oy \in 0 .. ConvOutH(Lowered(o)) - 1, NEW ox \in 0 .. ConvOutW(Lowered(o)) - 1,
         NEW fs, NEW ws, fs = Lowered(o).in_c * (Lowered(o).in_w * Lowered(o).in_h),
         ws = Lowered(o).out_c * (Lowered(o).kw * Lowered(o).kh * Lowered(o).in_c)
  PROVE  Accumulator(ConvTask(Lowered(o)), Image(fs, ConvFeatures(o)), Image(ws, ConvWeights(o)),
                     n, oy, ox)
           = IF o.kind = "deconv" THEN Scattered(o.p, n + 1, oy, ox)
             ELSE Direct(o.p, ChannelsOf(o, n + 1), n + 1, oy, ox)
<1> DEFINE q == Lowered(o)
           t == ConvTask(q)
           FT == CubeTable(o)
           WT == KernelTable(o)
<1>1. /\ ConvShape(o) /\ CubeShape(o) /\ q.in_h % RowAlign = 0
      /\ o.p.in_c = q.in_c /\ o.p.out_c = q.out_c /\ o.p.kh = q.kh /\ o.p.kw = q.kw
      /\ o.kind = "deconv" => o.p.pad_top \in Nat /\ o.p.pad_left \in Nat
  BY ConvKindShapes
<1>2. SummingTask(t, q.in_w, q.in_h, 0) /\ ConvFields(t, q)
  BY <1>1, ConvSums
<1> HIDE DEF t
<1>3. /\ t.in_h = q.in_h /\ t.kh = q.kh /\ t.kw = q.kw /\ t.in_c = q.in_c /\ t.kernels = q.out_c
      /\ t.stride_h = q.stride_h /\ t.stride_w = q.stride_w
      /\ t.pad_top = q.pad_top /\ t.pad_left = q.pad_left
      /\ t.wbpk = q.kw * q.kh * q.in_c /\ t.out_h = ConvOutH(q) /\ t.out_w = ConvOutW(q)
  BY <1>2 DEF ConvFields
<1>4. RunsLowered(t, o)
  BY <1>1, <1>2, <1>3 DEF RunsLowered
<1>5. Ranged(FT, t.in_c, q.in_w * q.in_h)
  BY <1>1, <1>3, CubeTableRanged
<1>6. Ranged(WT, t.kernels, t.wbpk)
  BY <1>1, <1>3, KernelTableRanged
<1>7. ConvFeatures(o) = CubeStores(Atom, q.in_w * q.in_h, FT)
  BY <1>1, ConvFeaturesAre
<1>8. ConvWeights(o) = WeightStores(t.wbpk, WT)
  BY <1>1, <1>3, ConvWeightsAre
<1>9. fs = t.in_c * (q.in_w * q.in_h) /\ ws = t.kernels * t.wbpk
      /\ n \in 0 .. t.kernels - 1 /\ oy \in 0 .. t.out_h - 1 /\ ox \in 0 .. t.out_w - 1
  BY <1>1, <1>3
<1>10. /\ oy \in Nat /\ ox \in Nat
  OBVIOUS
<1> HIDE DEF FT, WT, q
<1>11. Accumulator(t, Image(fs, CubeStores(Atom, q.in_w * q.in_h, FT)),
                   Image(ws, WeightStores(t.wbpk, WT)), n, oy, ox)
         = CellSum(t, FT, WT, q.in_w, 0, n, oy, ox)
  BY <1>2, <1>5, <1>6, <1>9, SumOfTables
<1>12. CellSum(t, FT, WT, q.in_w, 0, n, oy, ox)
         = UNION {TermPairs(t, o, n, oy, ox, x) : x \in Terms(t, oy, ox)}
  BY <1>1, <1>4, <1>10, CellElements DEF FT, WT, q
<1>13. CASE o.kind = "deconv"
  <2>1. UNION {TermPairs(t, o, n, oy, ox, x) : x \in Terms(t, oy, ox)}
          = Scattered(o.p, n + 1, oy, ox)
    BY <1>1, <1>4, <1>10, <1>13, ScatteredTerms
  <2>2. QED BY <1>7, <1>8, <1>11, <1>12, <1>13, <2>1 DEF t, q
<1>14. CASE o.kind # "deconv"
  <2>1. UNION {TermPairs(t, o, n, oy, ox, x) : x \in Terms(t, oy, ox)}
          = Direct(o.p, ChannelsOf(o, n + 1), n + 1, oy, ox)
    BY <1>1, <1>4, <1>10, <1>14, DirectTerms
  <2>2. QED BY <1>7, <1>8, <1>11, <1>12, <1>14, <2>1 DEF t, q
<1>15. QED BY <1>13, <1>14

-----------------------------------------------------------------------------
(* The matmuls: 1x1 convolutions over one column. *)

ColumnSum(FT, WT, C, n, s) == UNION {Held(FT, c, s) \X Held(WT, n, c) : c \in 0 .. C - 1}

LEMMA PointwiseCell ==
  ASSUME NEW t, NEW m, NEW k, NEW n, NEW from, NEW rows, SummingTask(t, 1, m, from),
         TileFields(t, m, k, n, from, rows), NEW FT, NEW WT, NEW c, NEW oy \in 0 .. rows - 1,
         rows \in Nat, from \in Nat
  PROVE  CellSum(t, FT, WT, 1, from, c, oy, 0) = ColumnSum(FT, WT, k, c, from + oy)
<1> DEFINE L == CellSum(t, FT, WT, 1, from, c, oy, 0)
           R == ColumnSum(FT, WT, k, c, from + oy)
           Term(x) == Held(FT, x[2], PositionRead(t, 1, from, oy, 0, x)) \X Held(WT, c, InputRead(t, x))
           Column(i) == Held(FT, i, from + oy) \X Held(WT, c, i)
           x0(i) == <<<<0, 0>>, i>>
<1>1. /\ t.in_h = rows /\ t.in_w = 1 /\ t.in_c = k /\ t.kh = 1 /\ t.kw = 1
      /\ t.stride_h = 1 /\ t.stride_w = 1 /\ t.pad_top = 0 /\ t.pad_left = 0
  BY DEF TileFields
<1>2. oy \in Nat /\ oy < rows /\ k \in Nat
  BY <1>1 DEF SummingTask
<1>3. ASSUME NEW i \in 0 .. k - 1
      PROVE  /\ x0(i) \in Terms(t, oy, 0)
             /\ Term(x0(i)) = Column(i)
  <2> DEFINE x == x0(i)
  <2>1. x[1][1] = 0 /\ x[1][2] = 0 /\ x[2] = i
    OBVIOUS
  <2>2. x \in ((0..t.kh - 1) \X (0..t.kw - 1)) \X (0..t.in_c - 1)
    BY <1>1
  <2> HIDE DEF x
  <2>3. x \in Terms(t, oy, 0)
    BY <1>1, <1>2, <2>1, <2>2 DEF Terms, Inside
  <2>4. PositionRead(t, 1, from, oy, 0, x) = from + oy
    BY <1>1, <1>2, <2>1 DEF PositionRead, RowRead, ColumnRead
  <2>5. InputRead(t, x) = i
    BY <1>1, <1>2, <2>1 DEF InputRead
  <2>6. Term(x) = Column(i)
    BY <2>1, <2>4, <2>5
  <2>7. QED BY <2>3, <2>6 DEF x
<1>4. ASSUME NEW x \in Terms(t, oy, 0)
      PROVE  x[2] \in 0 .. k - 1 /\ x = x0(x[2])
  <2>1. x[1] \in (0..0) \X (0..0) /\ x[2] \in 0 .. k - 1 /\ x = <<x[1], x[2]>>
    BY <1>1 DEF Terms
  <2>2. x[1][1] = 0 /\ x[1][2] = 0 /\ x[1] = <<x[1][1], x[1][2]>>
    BY <2>1
  <2>3. QED BY <2>1, <2>2
<1>5. L = UNION {Term(x) : x \in Terms(t, oy, 0)}
  BY DEF CellSum
<1>6. R = UNION {Column(i) : i \in 0 .. k - 1}
  BY DEF ColumnSum
<1> HIDE DEF L, R, Term, Column, x0
<1>7. {Term(x) : x \in Terms(t, oy, 0)} = {Column(i) : i \in 0 .. k - 1}
  <2>1. ASSUME NEW x \in Terms(t, oy, 0) PROVE Term(x) \in {Column(i) : i \in 0 .. k - 1}
    <3>1. x[2] \in 0 .. k - 1 /\ x = x0(x[2])
      BY <1>4
    <3> DEFINE i == x[2]
    <3>2. i \in 0 .. k - 1 /\ x = x0(i)
      BY <3>1
    <3> HIDE DEF i
    <3>3. Term(x) = Column(i)
      BY <1>3, <3>2
    <3>4. QED BY <3>2, <3>3
  <2>2. ASSUME NEW i \in 0 .. k - 1 PROVE Column(i) \in {Term(x) : x \in Terms(t, oy, 0)}
    <3>1. x0(i) \in Terms(t, oy, 0) /\ Term(x0(i)) = Column(i)
      BY <1>3
    <3>2. QED BY <3>1
  <2>3. QED BY <2>1, <2>2
<1>8. QED BY <1>5, <1>6, <1>7 DEF L, R

(* What a cell of a tile sums of what was laid out. *)
TileCellIs(t, m, k, FT, WT, from, c, oy, fs, ws) ==
  Accumulator(t, Image(fs, CubeStores(Atom, m, FT)), Image(ws, WeightStores(k, WT)), c, oy, 0)
    = ColumnSum(FT, WT, k, c, from + oy)

LEMMA TileCell ==
  ASSUME NEW t, NEW m \in Nat \ {0}, NEW k \in Nat \ {0}, NEW n \in Nat, NEW from \in Nat,
         NEW rows \in Nat, SummingTask(t, 1, m, from), TileFields(t, m, k, n, from, rows),
         NEW FT, NEW WT, Ranged(FT, k, m), Ranged(WT, n, k),
         NEW c \in 0 .. n - 1, NEW oy \in 0 .. rows - 1,
         NEW fs, NEW ws, fs = k * m, ws = n * k
  PROVE  TileCellIs(t, m, k, FT, WT, from, c, oy, fs, ws)
<1>1. /\ t.in_c = k /\ t.kernels = n /\ t.wbpk = k /\ t.out_h = rows /\ t.out_w = 1
  BY DEF TileFields
<1>2. 1 * m = m /\ 0 \in 0 .. 1 - 1
  OBVIOUS
<1>3. Ranged(FT, t.in_c, 1 * m) /\ Ranged(WT, t.kernels, t.wbpk)
      /\ fs = t.in_c * (1 * m) /\ ws = t.kernels * t.wbpk
      /\ c \in 0 .. t.kernels - 1 /\ oy \in 0 .. t.out_h - 1 /\ 0 \in 0 .. t.out_w - 1
  BY <1>1, <1>2
<1>4. Accumulator(t, Image(fs, CubeStores(Atom, 1 * m, FT)),
                  Image(ws, WeightStores(t.wbpk, WT)), c, oy, 0)
        = CellSum(t, FT, WT, 1, from, c, oy, 0)
  BY <1>3, SumOfTables
<1>5. CellSum(t, FT, WT, 1, from, c, oy, 0) = ColumnSum(FT, WT, k, c, from + oy)
  BY PointwiseCell
<1>6. QED BY <1>1, <1>2, <1>4, <1>5 DEF TileCellIs

(* A matrix of N kernels of K inputs. *)
MatrixTable(N, K) == {<<e[1] - 1, e[2] - 1, <<at, e[1], e[2], 0, 0>>>> : e \in (1..N) \X (1..K)}

MatrixStoresAre(C, N, K) ==
  {<<weight_int8(C, n, k), <<at, n, k, 0, 0>>>> : n \in 1..N, k \in 1..K}
    = WeightStores(C, MatrixTable(N, K))

LEMMA MatrixStores ==
  ASSUME NEW C \in Nat, NEW N \in Nat, NEW K \in Nat
  PROVE  MatrixStoresAre(C, N, K)
<1> DEFINE Row(e) == <<e[1] - 1, e[2] - 1, <<at, e[1], e[2], 0, 0>>>>
           Store(e) == <<weight_int8(C, e[1], e[2]), <<at, e[1], e[2], 0, 0>>>>
           E == (1..N) \X (1..K)
           L == {<<weight_int8(C, n, k), <<at, n, k, 0, 0>>>> : n \in 1..N, k \in 1..K}
<1>1. L = {Store(e) : e \in E}
  <2>1. ASSUME NEW v \in L PROVE v \in {Store(e) : e \in E}
    <3>1. PICK n \in 1..N, k \in 1..K : v = <<weight_int8(C, n, k), <<at, n, k, 0, 0>>>>
      OBVIOUS
    <3> DEFINE e == <<n, k>>
    <3>2. e \in E /\ e[1] = n /\ e[2] = k
      OBVIOUS
    <3> HIDE DEF e
    <3>3. v = Store(e)
      BY <3>1, <3>2
    <3>4. QED BY <3>2, <3>3
  <2>2. ASSUME NEW e \in E PROVE Store(e) \in L
    <3>1. e[1] \in 1..N /\ e[2] \in 1..K
      OBVIOUS
    <3>2. QED BY <3>1
  <2>3. QED BY <2>1, <2>2
<1>2. ASSUME NEW e \in E
      PROVE  <<WeightPlace(C, Row(e)[1], Row(e)[2]), Row(e)[3]>> = Store(e)
  <2>1. e[1] \in Nat \ {0} /\ e[2] \in Nat \ {0}
    OBVIOUS
  <2> DEFINE n == e[1]
             k == e[2]
  <2> HIDE DEF n, k
  <2>2. weight_int8(C, n, k) = WeightPlace(C, n - 1, k - 1)
    BY <2>1, WeightDataPlace DEF n, k
  <2>3. Row(e)[1] = n - 1 /\ Row(e)[2] = k - 1 /\ Row(e)[3] = <<at, n, k, 0, 0>>
    BY DEF n, k
  <2>4. Store(e) = <<weight_int8(C, n, k), <<at, n, k, 0, 0>>>>
    BY DEF n, k
  <2>5. QED BY <2>2, <2>3, <2>4
<1>3. MatrixTable(N, K) = {Row(e) : e \in E}
  BY DEF MatrixTable
<1> HIDE DEF Row, Store, E, L
<1>4. WeightStores(C, MatrixTable(N, K))
        = {<<WeightPlace(C, y[1], y[2]), y[3]>> : y \in MatrixTable(N, K)}
  BY DEF WeightStores
<1>5. {<<WeightPlace(C, y[1], y[2]), y[3]>> : y \in MatrixTable(N, K)} = {Store(e) : e \in E}
  BY <1>2, <1>3
<1>6. QED BY <1>1, <1>4, <1>5 DEF L, MatrixStoresAre

LEMMA MatrixRanged ==
  ASSUME NEW N \in Nat, NEW K \in Nat, NEW NP \in Nat, NEW KP \in Nat, N <= NP, K <= KP
  PROVE  Ranged(MatrixTable(N, K), NP, KP)
<1>1. ASSUME NEW y \in MatrixTable(N, K) PROVE y[1] \in 0 .. NP - 1 /\ y[2] \in 0 .. KP - 1
  <2>1. PICK e \in (1..N) \X (1..K) : y = <<e[1] - 1, e[2] - 1, <<at, e[1], e[2], 0, 0>>>>
    BY DEF MatrixTable
  <2>2. y[1] = e[1] - 1 /\ y[2] = e[2] - 1 /\ e[1] \in 1..N /\ e[2] \in 1..K
    BY <2>1
  <2>3. QED BY <2>2
<1>2. QED BY <1>1 DEF Ranged

LEMMA MatrixHeld ==
  ASSUME NEW N \in Nat, NEW K \in Nat, NEW n \in 0 .. N - 1, NEW c \in Nat
  PROVE  Held(MatrixTable(N, K), n, c)
           = IF c < K THEN {<<at, n + 1, c + 1, 0, 0>>} ELSE {}
<1>1. ASSUME NEW v \in Held(MatrixTable(N, K), n, c)
      PROVE  c < K /\ v = <<at, n + 1, c + 1, 0, 0>>
  <2>1. PICK y \in MatrixTable(N, K) : y[1] = n /\ y[2] = c /\ v = y[3]
    BY DEF Held
  <2>2. PICK e \in (1..N) \X (1..K) : y = <<e[1] - 1, e[2] - 1, <<at, e[1], e[2], 0, 0>>>>
    BY DEF MatrixTable
  <2>3. y[1] = e[1] - 1 /\ y[2] = e[2] - 1 /\ y[3] = <<at, e[1], e[2], 0, 0>>
        /\ e[1] \in 1..N /\ e[2] \in 1..K
    BY <2>2
  <2>4. e[1] = n + 1 /\ e[2] = c + 1 /\ c < K
    BY <2>1, <2>3
  <2>5. QED BY <2>1, <2>3, <2>4
<1>2. ASSUME c < K
      PROVE  <<at, n + 1, c + 1, 0, 0>> \in Held(MatrixTable(N, K), n, c)
  <2> DEFINE e == <<n + 1, c + 1>>
             y == <<e[1] - 1, e[2] - 1, <<at, e[1], e[2], 0, 0>>>>
  <2>1. e \in (1..N) \X (1..K) /\ e[1] = n + 1 /\ e[2] = c + 1
    BY <1>2
  <2>2. e[1] - 1 = n /\ e[2] - 1 = c
    BY <2>1
  <2> HIDE DEF e
  <2>3. y \in MatrixTable(N, K)
    BY <2>1 DEF MatrixTable
  <2>4. y[1] = n /\ y[2] = c /\ y[3] = <<at, n + 1, c + 1, 0, 0>>
    BY <2>1, <2>2
  <2> HIDE DEF y
  <2>5. QED BY <2>3, <2>4 DEF Held
<1>3. QED BY <1>1, <1>2

(* An input of K elements, element k at position S[k] of its column. *)
InputTable(K, S) == {<<k - 1, S[k], <<at, k, 0, 0>>>> : k \in 1..K}

InputStoresAre(m, K, S) ==
  {<<feature_data(m, 1, Atom, k, S[k] + 1, 1), <<at, k, 0, 0>>>> : k \in 1..K}
    = CubeStores(Atom, m, InputTable(K, S))

LEMMA InputStores ==
  ASSUME NEW m \in Nat \ {0}, NEW K \in Nat, NEW S \in [1..K -> 0..m - 1]
  PROVE  InputStoresAre(m, K, S)
<1> DEFINE Row(k) == <<k - 1, S[k], <<at, k, 0, 0>>>>
           Store(k) == <<feature_data(m, 1, Atom, k, S[k] + 1, 1), <<at, k, 0, 0>>>>
<1>1. ASSUME NEW k \in 1..K
      PROVE  <<Place(Atom, m, Row(k)[1], Row(k)[2]), Row(k)[3]>> = Store(k)
  <2> DEFINE h == S[k] + 1
             w == 1
             M == w * m
             s == (h - 1) * w + (w - 1)
  <2>1. S[k] \in Nat /\ h \in Nat \ {0} /\ k \in Nat \ {0} /\ w \in Nat \ {0} /\ h - 1 = S[k]
        /\ w \in Nat
    OBVIOUS
  <2>0. Atom \in Nat \ {0}
    BY HardwareSizes
  <2>2. Row(k)[1] = k - 1 /\ Row(k)[2] = S[k] /\ Row(k)[3] = <<at, k, 0, 0>>
    OBVIOUS
  <2>3. M = m
    OBVIOUS
  <2> HIDE DEF h, w
  <2>4. FeatureDataAt(m, w, Atom, k, h, w)
    BY <2>0, <2>1, FeatureDataPlaced
  <2>5. feature_data(m, w, Atom, k, h, w) = Place(Atom, M, k - 1, s)
    BY <2>4, Zenon DEF FeatureDataAt
  <2>6. s = S[k]
    BY <2>1 DEF w
  <2> HIDE DEF s, M
  <2>7. Store(k) = <<feature_data(m, w, Atom, k, h, w), <<at, k, 0, 0>>>>
    BY DEF h, w
  <2>8. QED BY <2>2, <2>3, <2>5, <2>6, <2>7
<1>2. InputTable(K, S) = {Row(k) : k \in 1..K}
  BY DEF InputTable
<1> HIDE DEF Row
<1>3. CubeStores(Atom, m, InputTable(K, S))
        = {<<Place(Atom, m, y[1], y[2]), y[3]>> : y \in InputTable(K, S)}
  BY DEF CubeStores
<1> HIDE DEF Store
<1>4. {<<Place(Atom, m, y[1], y[2]), y[3]>> : y \in InputTable(K, S)} = {Store(k) : k \in 1..K}
  BY <1>1, <1>2
<1>5. QED BY <1>3, <1>4 DEF Store, InputStoresAre

LEMMA InputRanged ==
  ASSUME NEW m \in Nat \ {0}, NEW K \in Nat, NEW S \in [1..K -> 0..m - 1]
  PROVE  Ranged(InputTable(K, S), K, m)
<1>1. ASSUME NEW y \in InputTable(K, S) PROVE y[1] \in 0 .. K - 1 /\ y[2] \in 0 .. m - 1
  <2>1. PICK k \in 1..K : y = <<k - 1, S[k], <<at, k, 0, 0>>>>
    BY DEF InputTable
  <2>2. y[1] = k - 1 /\ y[2] = S[k]
    BY <2>1
  <2>3. QED BY <2>2
<1>2. QED BY <1>1 DEF Ranged

InputHeldIs(K, S, c, s) ==
  Held(InputTable(K, S), c, s) = IF S[c + 1] = s THEN {<<at, c + 1, 0, 0>>} ELSE {}

LEMMA InputHeld ==
  ASSUME NEW m \in Nat \ {0}, NEW K \in Nat, NEW S \in [1..K -> 0..m - 1],
         NEW c \in 0 .. K - 1, NEW s
  PROVE  InputHeldIs(K, S, c, s)
<1>1. ASSUME NEW v \in Held(InputTable(K, S), c, s)
      PROVE  S[c + 1] = s /\ v = <<at, c + 1, 0, 0>>
  <2>1. PICK y \in InputTable(K, S) : y[1] = c /\ y[2] = s /\ v = y[3]
    BY DEF Held
  <2>2. PICK k \in 1..K : y = <<k - 1, S[k], <<at, k, 0, 0>>>>
    BY DEF InputTable
  <2>3. k - 1 = c /\ S[k] = s /\ v = <<at, k, 0, 0>>
    BY <2>1, <2>2
  <2>4. k = c + 1
    BY <2>3
  <2>5. QED BY <2>3, <2>4
<1>2. ASSUME S[c + 1] = s
      PROVE  <<at, c + 1, 0, 0>> \in Held(InputTable(K, S), c, s)
  <2> DEFINE k == c + 1
             y == <<k - 1, S[k], <<at, k, 0, 0>>>>
  <2>1. k \in 1..K /\ k - 1 = c
    OBVIOUS
  <2>2. S[k] = s
    BY <1>2
  <2> HIDE DEF k
  <2>3. y \in InputTable(K, S)
    BY <2>1 DEF InputTable
  <2>4. y[1] = c /\ y[2] = s /\ y[3] = <<at, k, 0, 0>>
    BY <2>1, <2>2
  <2> HIDE DEF y
  <2>5. QED BY <2>3, <2>4 DEF Held, k
<1>3. QED BY <1>1, <1>2 DEF InputHeldIs

(* The task of a matmul. *)
LEMMA PointwiseSums ==
  ASSUME NEW m \in Nat \ {0}, NEW k \in Nat, NEW n \in Nat, FitsTheEngine(PointwiseTask(m, k, n)),
         m % RowAlign = 0 \/ m = 1
  PROVE  LET t == ConvTask(PointwiseTask(m, k, n)) IN
         /\ SummingTask(t, 1, m, 0) /\ TileFields(t, m, k, n, 0, m)
         /\ k \in Nat \ {0} /\ n \in Nat \ {0} /\ k % Group = 0 /\ n % Group = 0
<1> DEFINE p == PointwiseTask(m, k, n)
           t == ConvTask(p)
<1>1. p.in_h = m /\ p.in_w = 1 /\ p.in_c = k /\ p.out_c = n
  BY DEF PointwiseTask
<1> HIDE DEF p
<1>2. FitsTheEngine(p)
  BY DEF p
<1>3. SummingTask(t, p.in_w, p.in_h, 0) /\ ConvFields(t, p)
  BY <1>1, <1>2, ConvSums
<1>4. TileFields(t, m, k, n, 0, m)
  BY <1>3, PointwiseFields DEF p
<1>5. /\ p.in_c \in Nat \ {0} /\ p.out_c \in Nat \ {0}
      /\ p.in_c % Group = 0 /\ p.out_c % Group = 0
  BY <1>2, ConvSizes, Zenon DEF FitsTheEngine
<1>6. QED BY <1>1, <1>3, <1>4, <1>5 DEF p

LEMMA LlmCell ==
  ASSUME NEW o, o.c \in Nat, o.n \in Nat, FitsTheEngine(PointwiseTask(1, o.c, o.n)),
         NEW n \in 1 .. o.n, NEW fs, NEW ws, fs = o.c, ws = o.n * o.c
  PROVE  Accumulator(ConvTask(PointwiseTask(1, o.c, o.n)), Image(fs, LlmFeatures(o)),
                     Image(ws, LlmWeights(o)), n - 1, 0, 0)
           = {<<<<at, k, 0, 0>>, <<at, n, k, 0, 0>>>> : k \in 1..o.c}
<1> DEFINE m == 1
           z == 0
           C == o.c
           N == o.n
           t == ConvTask(PointwiseTask(m, C, N))
           S == [k \in 1..C |-> z]
           FT == InputTable(C, S)
           WT == MatrixTable(N, C)
           x == n - 1
<1>1. /\ SummingTask(t, 1, m, z) /\ TileFields(t, m, C, N, z, m)
      /\ C \in Nat \ {0} /\ N \in Nat \ {0}
  BY PointwiseSums
<1>2. S \in [1..C -> 0..m - 1]
  OBVIOUS
<1>0. m \in Nat \ {0} /\ m \in Nat /\ z \in Nat /\ z \in 0..m - 1
  OBVIOUS
<1> HIDE DEF t
<1>3. LlmFeatures(o) = CubeStores(Atom, m, FT)
  <2>1. LlmFeatures(o) = {<<feature_data(m, 1, Atom, k, S[k] + 1, 1), <<at, k, 0, 0>>>> : k \in 1..C}
    BY DEF LlmFeatures
  <2> HIDE DEF C, S, m
  <2>2. InputStoresAre(m, C, S)
    BY <1>0, <1>1, <1>2, InputStores
  <2>3. QED BY <2>1, <2>2 DEF InputStoresAre
<1>4. LlmWeights(o) = WeightStores(C, WT)
  <2>1. LlmWeights(o) = {<<weight_int8(C, i, k), <<at, i, k, 0, 0>>>> : i \in 1..N, k \in 1..C}
    BY DEF LlmWeights
  <2> HIDE DEF C, N
  <2>2. MatrixStoresAre(C, N, C)
    BY <1>1, MatrixStores
  <2>3. QED BY <2>1, <2>2, SMT DEF MatrixStoresAre
<1> HIDE DEF C, N, S, m, z
<1>5. Ranged(FT, C, m) /\ Ranged(WT, N, C)
  <2>1. Ranged(FT, C, m)
    BY <1>0, <1>1, <1>2, InputRanged
  <2>2. Ranged(WT, N, C)
    <3>1. C \in Nat /\ N \in Nat /\ C <= C /\ N <= N
      BY <1>1
    <3> HIDE DEF FT
    <3>2. QED BY <3>1, MatrixRanged
  <2>3. QED BY <2>1, <2>2
<1>6. fs = C * m /\ ws = N * C /\ x \in 0 .. N - 1 /\ x + 1 = n
  BY <1>1 DEF C, N, m
<1> HIDE DEF FT, WT, x
<1>7. Accumulator(t, Image(fs, CubeStores(Atom, m, FT)), Image(ws, WeightStores(C, WT)), x, z, 0)
        = ColumnSum(FT, WT, C, x, z + z)
  <2>1. TileCellIs(t, m, C, FT, WT, z, x, z, fs, ws)
    BY <1>0, <1>1, <1>5, <1>6, TileCell
  <2>2. QED BY <2>1, Zenon DEF TileCellIs
<1>8. ASSUME NEW c \in 0 .. C - 1
      PROVE  Held(FT, c, z) \X Held(WT, x, c)
               = {<<<<at, c + 1, 0, 0>>, <<at, n, c + 1, 0, 0>>>>}
  <2>1. Held(FT, c, z) = {<<at, c + 1, 0, 0>>}
    <3>0. InputHeldIs(C, S, c, z)
      BY <1>0, <1>1, <1>2, InputHeld
    <3>1. Held(FT, c, z) = IF S[c + 1] = z THEN {<<at, c + 1, 0, 0>>} ELSE {}
      BY <3>0, Zenon DEF FT, InputHeldIs
    <3>2. c + 1 \in 1..C
      BY <1>1
    <3>3. S[c + 1] = z
      BY <3>2 DEF S
    <3>4. QED BY <3>1, <3>3
  <2>2. Held(WT, x, c) = {<<at, n, c + 1, 0, 0>>}
    <3>1. c \in Nat /\ c < C
      BY <1>1
    <3>2. Held(WT, x, c) = IF c < C THEN {<<at, x + 1, c + 1, 0, 0>>} ELSE {}
      BY <1>1, <1>6, <3>1, MatrixHeld DEF WT
    <3>3. QED BY <1>6, <3>1, <3>2
  <2>3. QED BY <2>1, <2>2
<1>9. ColumnSum(FT, WT, C, x, z)
        = {<<<<at, k, 0, 0>>, <<at, n, k, 0, 0>>>> : k \in 1..C}
  <2> DEFINE L == UNION {Held(FT, c, z) \X Held(WT, x, c) : c \in 0 .. C - 1}
             R == {<<<<at, k, 0, 0>>, <<at, n, k, 0, 0>>>> : k \in 1..C}
  <2>1. ASSUME NEW v \in L PROVE v \in R
    <3>1. PICK c \in 0 .. C - 1 : v \in Held(FT, c, z) \X Held(WT, x, c)
      OBVIOUS
    <3> DEFINE k == c + 1
    <3>2. k \in 1..C /\ v = <<<<at, k, 0, 0>>, <<at, n, k, 0, 0>>>>
      BY <1>1, <1>8, <3>1
    <3> HIDE DEF k
    <3>3. QED BY <3>2
  <2>2. ASSUME NEW v \in R PROVE v \in L
    <3>1. PICK k \in 1..C : v = <<<<at, k, 0, 0>>, <<at, n, k, 0, 0>>>>
      OBVIOUS
    <3> DEFINE c == k - 1
    <3>2. c \in 0 .. C - 1 /\ c + 1 = k
      BY <1>1
    <3> HIDE DEF c
    <3>3. v \in Held(FT, c, z) \X Held(WT, x, c)
      BY <1>8, <3>1, <3>2
    <3>4. QED BY <3>2, <3>3
  <2>3. L = R
    BY <2>1, <2>2
  <2>4. QED BY <2>3 DEF ColumnSum
<1>10. z + z = z
  BY <1>0 DEF z
<1>11. Accumulator(t, Image(fs, LlmFeatures(o)), Image(ws, LlmWeights(o)), x, z, 0)
         = {<<<<at, k, 0, 0>>, <<at, n, k, 0, 0>>>> : k \in 1..C}
  BY <1>3, <1>4, <1>7, <1>9, <1>10
<1>12. QED BY <1>11 DEF t, C, N, x, m, z

LEMMA TransposeCell ==
  ASSUME NEW o, o.rows \in Nat \ {0}, o.cols \in Nat \ {0},
         NEW K, NEW N, K = RoundUp(o.cols, Group), N = RoundUp(o.rows, Group),
         FitsTheEngine(PointwiseTask(K, K, N)),
         NEW b \in 1 .. o.rows, NEW a \in 0 .. o.cols - 1, NEW fs, NEW ws, fs = K * K, ws = N * K
  PROVE  /\ Accumulator(ConvTask(PointwiseTask(K, K, N)), Image(fs, TransposeFeatures(o)),
                        Image(ws, TransposeWeights(o)), b - 1, a, 0)
              = {<<<<at, a + 1, 0, 0>>, <<at, b, a + 1, 0, 0>>>>}
         /\ K \in Nat \ {0} /\ K >= o.cols /\ N >= o.rows /\ N \in Nat \ {0}
<1> DEFINE t == ConvTask(PointwiseTask(K, K, N))
           z == 0
           S == [k \in 1..K |-> k - 1]
           FT == InputTable(K, S)
           WT == MatrixTable(o.rows, o.cols)
           x == b - 1
<1>1. /\ K \in Nat \ {0} /\ N \in Nat \ {0} /\ K >= o.cols /\ N >= o.rows /\ K % RowAlign = 0
  <2>1. /\ K \in Nat /\ K >= o.cols /\ N \in Nat /\ N >= o.rows /\ K % Group = 0
    <3>1. o.cols \in Nat /\ o.rows \in Nat /\ Group \in Nat \ {0}
      BY HardwareSizes
    <3>2. RoundUp(o.cols, Group) \in Nat /\ RoundUp(o.cols, Group) >= o.cols
          /\ RoundUp(o.cols, Group) % Group = 0
      BY <3>1, RoundUpFacts
    <3>3. RoundUp(o.rows, Group) \in Nat /\ RoundUp(o.rows, Group) >= o.rows
      BY <3>1, RoundUpFacts
    <3>4. QED BY <3>2, <3>3
  <2>2. K % RowAlign = 0
    <3>1. Group % RowAlign = 0 /\ Group \in Nat \ {0} /\ RowAlign \in Nat \ {0}
      BY BlocksAreAligned, HardwareSizes
    <3> DEFINE g == Group \div RowAlign
               d == K \div Group
               e == d * g
    <3>2. Group = g * RowAlign /\ g \in Nat
      BY <3>1, Whole
    <3>3. K = d * Group /\ d \in Nat
      BY <2>1, <3>1, Whole
    <3> HIDE DEF g, d
    <3>4. e \in Nat /\ e * RowAlign = d * (g * RowAlign)
      BY <3>1, <3>2, <3>3
    <3>5. K = e * RowAlign
      BY <3>2, <3>3, <3>4
    <3> HIDE DEF e
    <3>6. QED BY <3>1, <3>4, <3>5, Multiple
  <2>3. K \in Nat \ {0} /\ N \in Nat \ {0}
    <3>1. o.cols > 0 /\ o.rows > 0 /\ o.cols \in Nat /\ o.rows \in Nat
      OBVIOUS
    <3> DEFINE c == o.cols
               r == o.rows
    <3>2. c > 0 /\ r > 0 /\ c \in Nat /\ r \in Nat /\ K >= c /\ N >= r /\ K \in Nat /\ N \in Nat
      BY <2>1, <3>1
    <3> HIDE DEF c, r
    <3>3. QED BY <3>2
  <2>4. QED BY <2>1, <2>2, <2>3
<1>2. SummingTask(t, 1, K, z) /\ TileFields(t, K, K, N, z, K)
  BY <1>1, PointwiseSums
<1> HIDE DEF t
<1>3. S \in [1..K -> 0..K - 1]
  BY <1>1
<1>4. TransposeFeatures(o) = CubeStores(Atom, K, FT)
  <2>1. TransposeFeatures(o) = {<<feature_data(K, 1, Atom, k, k, 1), <<at, k, 0, 0>>>> : k \in 1..K}
    BY DEF TransposeFeatures
  <2>2. \A k \in 1..K : S[k] + 1 = k
    BY <1>1
  <2> HIDE DEF S, FT
  <2>3. {<<feature_data(K, 1, Atom, k, S[k] + 1, 1), <<at, k, 0, 0>>>> : k \in 1..K}
          = {<<feature_data(K, 1, Atom, k, k, 1), <<at, k, 0, 0>>>> : k \in 1..K}
    BY <2>2
  <2>4. {<<feature_data(K, 1, Atom, k, S[k] + 1, 1), <<at, k, 0, 0>>>> : k \in 1..K}
          = CubeStores(Atom, K, FT)
    <3>1. InputStoresAre(K, K, S)
      BY <1>1, <1>3, InputStores
    <3>2. QED BY <3>1, Zenon DEF InputStoresAre, FT
  <2>5. QED BY <2>1, <2>3, <2>4
<1>5. TransposeWeights(o) = WeightStores(K, WT)
  <2>1. TransposeWeights(o)
          = {<<weight_int8(K, n, k), <<at, n, k, 0, 0>>>> : n \in 1..o.rows, k \in 1..o.cols}
    BY DEF TransposeWeights
  <2>2. {<<weight_int8(K, n, k), <<at, n, k, 0, 0>>>> : n \in 1..o.rows, k \in 1..o.cols}
          = WeightStores(K, WT)
    <3>1. MatrixStoresAre(K, o.rows, o.cols)
      BY <1>1, MatrixStores
    <3>2. QED BY <3>1, SMT DEF MatrixStoresAre
  <2>3. QED BY <2>1, <2>2
<1>6. Ranged(FT, K, K) /\ Ranged(WT, N, K)
  <2>1. Ranged(FT, K, K)
    BY <1>1, <1>3, InputRanged
  <2>2. Ranged(WT, N, K)
    BY <1>1, MatrixRanged
  <2>3. QED BY <2>1, <2>2
<1>7. x \in 0 .. N - 1 /\ x \in 0 .. o.rows - 1 /\ x + 1 = b /\ a \in 0 .. K - 1
  BY <1>1
<1>0. z \in Nat /\ z + a = a
  BY <1>7
<1> HIDE DEF S, FT, WT, x, z
<1>8. Accumulator(t, Image(fs, CubeStores(Atom, K, FT)), Image(ws, WeightStores(K, WT)), x, a, 0)
        = ColumnSum(FT, WT, K, x, z + a)
  <2>1. TileCellIs(t, K, K, FT, WT, z, x, a, fs, ws)
    BY <1>0, <1>1, <1>2, <1>6, <1>7, TileCell
  <2>2. QED BY <2>1, Zenon DEF TileCellIs
<1>9. ASSUME NEW c \in 0 .. K - 1
      PROVE  Held(FT, c, a) \X Held(WT, x, c)
               = IF c = a THEN {<<<<at, a + 1, 0, 0>>, <<at, b, a + 1, 0, 0>>>>} ELSE {}
  <2>1. Held(FT, c, a) = IF c = a THEN {<<at, a + 1, 0, 0>>} ELSE {}
    <3>1. Held(FT, c, a) = IF S[c + 1] = a THEN {<<at, c + 1, 0, 0>>} ELSE {}
      <4>1. InputHeldIs(K, S, c, a)
        BY <1>1, <1>3, InputHeld
      <4>2. QED BY <4>1, Zenon DEF InputHeldIs, FT
    <3> DEFINE k == c + 1
    <3>2. k \in 1..K /\ k - 1 = c
      BY <1>1
    <3> HIDE DEF k
    <3>3. S[k] = c
      BY <3>2 DEF S
    <3>4. QED BY <3>1, <3>3 DEF k
  <2>2. Held(WT, x, a) = {<<at, b, a + 1, 0, 0>>}
    <3>1. a \in Nat /\ a < o.cols
      OBVIOUS
    <3>2. Held(WT, x, a) = IF a < o.cols THEN {<<at, x + 1, a + 1, 0, 0>>} ELSE {}
      BY <1>7, <3>1, MatrixHeld DEF WT
    <3>3. QED BY <1>7, <3>1, <3>2
  <2>3. QED BY <2>1, <2>2
<1>10. ColumnSum(FT, WT, K, x, a) = {<<<<at, a + 1, 0, 0>>, <<at, b, a + 1, 0, 0>>>>}
  <2> DEFINE v == <<<<at, a + 1, 0, 0>>, <<at, b, a + 1, 0, 0>>>>
             T(c) == Held(FT, c, a) \X Held(WT, x, c)
  <2>1. \A c \in 0 .. K - 1 : T(c) = IF c = a THEN {v} ELSE {}
    BY <1>9
  <2>2. ColumnSum(FT, WT, K, x, a) = UNION {T(c) : c \in 0 .. K - 1}
    BY DEF ColumnSum
  <2> HIDE DEF v, T
  <2>3. UNION {T(c) : c \in 0 .. K - 1} = {v}
    BY <1>7, <2>1
  <2>4. QED BY <2>2, <2>3 DEF v
<1>11. QED BY <1>0, <1>1, <1>4, <1>5, <1>7, <1>8, <1>10 DEF t, x

-----------------------------------------------------------------------------
(* A block of a convolution of the network: im2col. *)

(* Element (c, kr, kc) of a patch, and where row 'row' of the block reads it. *)
PatchAt(o, c, kr, kc) == (c * o.k + kr) * o.k + kc
PatchRow(o, row, kr) == ((m0 + row) \div OutW(o)) * o.stride - o.pad + kr
PatchColumn(o, row, kc) == ((m0 + row) % OutW(o)) * o.stride - o.pad + kc

PatchTable(o, mb) ==
  {<<PatchAt(o, e[2], e[3], e[4]), e[1],
     <<at, e[2] + 1, PatchRow(o, e[1], e[3]), PatchColumn(o, e[1], e[4])>>>> :
     e \in {x \in (0..mb - 1) \X (0..o.c - 1) \X (0..o.k - 1) \X (0..o.k - 1) :
              Inside(PatchRow(o, x[1], x[3]), o.h) /\ Inside(PatchColumn(o, x[1], x[4]), o.w)}}

FilterTable(o) ==
  {<<e[1], PatchAt(o, e[2], e[3], e[4]), <<at, e[1] + 1, e[2] + 1, e[3], e[4]>>>> :
     e \in (0..o.n - 1) \X (0..o.c - 1) \X (0..o.k - 1) \X (0..o.k - 1)}

(* The elements of a patch lie apart, below PatchK. *)
PatchAlone(o, c, kr, kc) ==
  \A d \in 0 .. o.c - 1, lr \in 0 .. o.k - 1, lc \in 0 .. o.k - 1 :
    PatchAt(o, c, kr, kc) = PatchAt(o, d, lr, lc) => c = d /\ kr = lr /\ kc = lc

LEMMA PatchApart ==
  ASSUME NEW o, o.c \in Nat \ {0}, o.k \in Nat \ {0},
         NEW c \in 0 .. o.c - 1, NEW kr \in 0 .. o.k - 1, NEW kc \in 0 .. o.k - 1
  PROVE  /\ PatchAt(o, c, kr, kc) \in 0 .. PatchK(o) - 1
         /\ PatchAlone(o, c, kr, kc)
<1> DEFINE C == o.c
           k == o.k
           r == <<c, kr>>
<1>1. C \in Nat \ {0} /\ k \in Nat \ {0} /\ r[1] \in 0 .. C - 1 /\ r[2] \in 0 .. k - 1 /\ kc \in 0 .. k - 1
  OBVIOUS
<1>2. PatchAt(o, c, kr, kc) = Flat2(k, k, r, kc)
  BY DEF PatchAt, Flat2
<1>3. PatchK(o) = k * C * k
  <2> HIDE DEF C, k
  <2>1. C * k * k = k * C * k
    BY <1>1
  <2>2. QED BY <2>1 DEF PatchK, C, k
<1> HIDE DEF C, k, r
<1>4. Flat2(k, k, r, kc) \in 0 .. k * C * k - 1
  BY <1>1, FlatBelow
<1>5. ASSUME NEW d \in 0 .. o.c - 1, NEW lr \in 0 .. o.k - 1, NEW lc \in 0 .. o.k - 1,
             PatchAt(o, c, kr, kc) = PatchAt(o, d, lr, lc)
      PROVE  c = d /\ kr = lr /\ kc = lc
  <2> DEFINE u == <<d, lr>>
  <2>1. u[1] = d /\ u[2] = lr /\ r[1] = c /\ r[2] = kr
    BY DEF r
  <2>2. PatchAt(o, d, lr, lc) = Flat2(k, k, u, lc)
    BY DEF PatchAt, Flat2, k
  <2>3. r[1] \in Nat /\ u[1] \in Nat /\ u[2] \in 0 .. k - 1 /\ lc \in 0 .. k - 1
    BY <1>1 DEF k, r
  <2> HIDE DEF u
  <2>4. Flat2(k, k, r, kc) = Flat2(k, k, u, lc)
    BY <1>2, <1>5, <2>2
  <2>5. r[1] = u[1] /\ r[2] = u[2] /\ kc = lc
    BY <1>1, <2>3, <2>4, FlatApart
  <2>6. QED BY <2>1, <2>5
<1>6. QED BY <1>2, <1>3, <1>4, <1>5 DEF PatchAlone

LEMMA PatchPlaced ==
  ASSUME NEW k \in Nat, NEW mb \in Nat, NEW row \in Nat
  PROVE  kbase(k, mb) + row * Atom = Place(Atom, mb, k, row)
<1> DEFINE q == k \div Atom
           r == k % Atom
           a == q * mb * Atom
           b == row * Atom
<1>1. Atom \in Nat \ {0}
  BY HardwareSizes
<1>2. q \in Nat /\ r \in Nat
  BY <1>1, DivMod
<1>3. a \in Nat /\ b \in Nat
  <2> HIDE DEF q
  <2>1. QED BY <1>1, <1>2
<1>4. kbase(k, mb) = a + r
  BY DEF kbase
<1>5. Place(Atom, mb, k, row) = a + b + r
  BY DEF Place
<1> HIDE DEF a, b, r
<1>6. QED BY <1>2, <1>3, <1>4, <1>5 DEF b

LEMMA YoloFeaturesAre ==
  ASSUME NEW o, o.c \in Nat \ {0}, o.k \in Nat \ {0}, Rows(o) \in Nat
  PROVE  YoloFeatures(o) = CubeStores(Atom, Rows(o), PatchTable(o, Rows(o)))
<1> DEFINE mb == Rows(o)
           E == {x \in (0..mb - 1) \X (0..o.c - 1) \X (0..o.k - 1) \X (0..o.k - 1) :
                   Inside(PatchRow(o, x[1], x[3]), o.h) /\ Inside(PatchColumn(o, x[1], x[4]), o.w)}
           Value(e) == <<at, e[2] + 1, PatchRow(o, e[1], e[3]), PatchColumn(o, e[1], e[4])>>
           Row(e) == <<PatchAt(o, e[2], e[3], e[4]), e[1], Value(e)>>
           Store(e) == <<kbase(PatchAt(o, e[2], e[3], e[4]), mb) + e[1] * Atom, Value(e)>>
<1>1. YoloFeatures(o) = {Store(e) : e \in E}
  BY DEF YoloFeatures, PatchAt, PatchRow, PatchColumn
<1>2. ASSUME NEW e \in E
      PROVE  <<Place(Atom, mb, Row(e)[1], Row(e)[2]), Row(e)[3]>> = Store(e)
  <2> DEFINE k == PatchAt(o, e[2], e[3], e[4])
             row == e[1]
  <2>1. e[1] \in 0 .. mb - 1 /\ e[2] \in 0 .. o.c - 1 /\ e[3] \in 0 .. o.k - 1 /\ e[4] \in 0 .. o.k - 1
    OBVIOUS
  <2>2. k \in Nat
    <3>1. k \in 0 .. PatchK(o) - 1
      BY <2>1, PatchApart
    <3>2. QED BY <3>1
  <2>3. row \in Nat
    BY <2>1
  <2>4. Row(e)[1] = k /\ Row(e)[2] = row /\ Row(e)[3] = Value(e)
    OBVIOUS
  <2>5. Store(e) = <<kbase(k, mb) + row * Atom, Value(e)>>
    OBVIOUS
  <2> HIDE DEF k, row, Row, Store, Value, mb
  <2>6. mb \in Nat
    BY DEF mb
  <2>7. kbase(k, mb) + row * Atom = Place(Atom, mb, k, row)
    BY <2>2, <2>3, <2>6, PatchPlaced
  <2>8. QED BY <2>4, <2>5, <2>7
<1>3. PatchTable(o, mb) = {Row(e) : e \in E}
  BY DEF PatchTable
<1> HIDE DEF Row, Store, E, Value, mb
<1>4. CubeStores(Atom, mb, PatchTable(o, mb))
        = {<<Place(Atom, mb, y[1], y[2]), y[3]>> : y \in PatchTable(o, mb)}
  BY DEF CubeStores
<1>5. {<<Place(Atom, mb, y[1], y[2]), y[3]>> : y \in PatchTable(o, mb)} = {Store(e) : e \in E}
  BY <1>2, <1>3
<1>6. QED BY <1>1, <1>4, <1>5 DEF mb

LEMMA PatchRanged ==
  ASSUME NEW o, o.c \in Nat \ {0}, o.k \in Nat \ {0}, NEW mb \in Nat,
         NEW K \in Nat, PatchK(o) <= K, PatchK(o) \in Nat
  PROVE  Ranged(PatchTable(o, mb), K, mb)
<1>1. ASSUME NEW y \in PatchTable(o, mb) PROVE y[1] \in 0 .. K - 1 /\ y[2] \in 0 .. mb - 1
  <2>1. PICK e \in (0..mb - 1) \X (0..o.c - 1) \X (0..o.k - 1) \X (0..o.k - 1) :
          y = <<PatchAt(o, e[2], e[3], e[4]), e[1],
                <<at, e[2] + 1, PatchRow(o, e[1], e[3]), PatchColumn(o, e[1], e[4])>>>>
    BY DEF PatchTable
  <2>2. y[1] = PatchAt(o, e[2], e[3], e[4]) /\ y[2] = e[1]
    BY <2>1
  <2>3. e[1] \in 0 .. mb - 1 /\ e[2] \in 0 .. o.c - 1 /\ e[3] \in 0 .. o.k - 1 /\ e[4] \in 0 .. o.k - 1
    OBVIOUS
  <2>4. PatchAt(o, e[2], e[3], e[4]) \in 0 .. PatchK(o) - 1
    BY <2>3, PatchApart
  <2>5. QED BY <2>2, <2>3, <2>4
<1>2. QED BY <1>1 DEF Ranged

LEMMA YoloWeightsAre ==
  ASSUME NEW o, o.c \in Nat \ {0}, o.k \in Nat \ {0}, o.n \in Nat, PaddedK(o) \in Nat
  PROVE  YoloWeights(o) = WeightStores(PaddedK(o), FilterTable(o))
<1> DEFINE K == PaddedK(o)
           E == (0..o.n - 1) \X (0..o.c - 1) \X (0..o.k - 1) \X (0..o.k - 1)
           Value(e) == <<at, e[1] + 1, e[2] + 1, e[3], e[4]>>
           Row(e) == <<e[1], PatchAt(o, e[2], e[3], e[4]), Value(e)>>
           Store(e) == <<weight_int8(K, e[1] + 1, PatchAt(o, e[2], e[3], e[4]) + 1), Value(e)>>
<1>1. YoloWeights(o) = {Store(e) : e \in E}
  BY DEF YoloWeights, PatchAt
<1>2. ASSUME NEW e \in E
      PROVE  <<WeightPlace(K, Row(e)[1], Row(e)[2]), Row(e)[3]>> = Store(e)
  <2> DEFINE f == PatchAt(o, e[2], e[3], e[4])
             n == e[1] + 1
             k == f + 1
  <2>1. e[1] \in 0 .. o.n - 1 /\ e[2] \in 0 .. o.c - 1 /\ e[3] \in 0 .. o.k - 1 /\ e[4] \in 0 .. o.k - 1
    OBVIOUS
  <2>2. f \in Nat
    <3>1. f \in 0 .. PatchK(o) - 1
      BY <2>1, PatchApart
    <3>2. QED BY <3>1
  <2>3. n \in Nat \ {0} /\ n - 1 = e[1]
    BY <2>1
  <2>4. Row(e)[1] = e[1] /\ Row(e)[2] = f /\ Row(e)[3] = Value(e)
    OBVIOUS
  <2>5. Store(e) = <<weight_int8(K, n, k), Value(e)>>
    OBVIOUS
  <2> HIDE DEF f, n, Row, Store, Value, K
  <2>6. k \in Nat \ {0} /\ k - 1 = f /\ K \in Nat
    BY <2>2 DEF K
  <2> HIDE DEF k
  <2>7. weight_int8(K, n, k) = WeightPlace(K, n - 1, k - 1)
    BY <2>3, <2>6, WeightDataPlace
  <2>8. QED BY <2>3, <2>4, <2>5, <2>6, <2>7
<1>3. FilterTable(o) = {Row(e) : e \in E}
  BY DEF FilterTable
<1> HIDE DEF Row, Store, E, Value, K
<1>4. WeightStores(K, FilterTable(o))
        = {<<WeightPlace(K, y[1], y[2]), y[3]>> : y \in FilterTable(o)}
  BY DEF WeightStores
<1>5. {<<WeightPlace(K, y[1], y[2]), y[3]>> : y \in FilterTable(o)} = {Store(e) : e \in E}
  BY <1>2, <1>3
<1>6. QED BY <1>1, <1>4, <1>5 DEF K

LEMMA FilterRanged ==
  ASSUME NEW o, o.c \in Nat \ {0}, o.k \in Nat \ {0}, o.n \in Nat,
         NEW N \in Nat, o.n <= N, NEW K \in Nat, PatchK(o) <= K, PatchK(o) \in Nat
  PROVE  Ranged(FilterTable(o), N, K)
<1>1. ASSUME NEW y \in FilterTable(o) PROVE y[1] \in 0 .. N - 1 /\ y[2] \in 0 .. K - 1
  <2>1. PICK e \in (0..o.n - 1) \X (0..o.c - 1) \X (0..o.k - 1) \X (0..o.k - 1) :
          y = <<e[1], PatchAt(o, e[2], e[3], e[4]), <<at, e[1] + 1, e[2] + 1, e[3], e[4]>>>>
    BY DEF FilterTable
  <2>2. y[1] = e[1] /\ y[2] = PatchAt(o, e[2], e[3], e[4])
    BY <2>1
  <2>3. e[1] \in 0 .. o.n - 1 /\ e[2] \in 0 .. o.c - 1 /\ e[3] \in 0 .. o.k - 1 /\ e[4] \in 0 .. o.k - 1
    OBVIOUS
  <2>4. PatchAt(o, e[2], e[3], e[4]) \in 0 .. PatchK(o) - 1
    BY <2>3, PatchApart
  <2>5. QED BY <2>2, <2>3, <2>4
<1>2. QED BY <1>1 DEF Ranged

InChannels(C) == {<<c, c>> : c \in 1..C}

LEMMA ReadShift ==
  ASSUME NEW a \in Nat, NEW s \in Nat, NEW pad \in Nat, NEW r \in Nat
  PROVE  a * s - pad + r = a * s + r - pad
<1> DEFINE b == a * s
<1>1. b \in Int
  OBVIOUS
<1> HIDE DEF b
<1>2. b - pad + r = b + r - pad
  BY <1>1
<1>3. QED BY <1>2 DEF b

(* A row of the block against a kernel is the sum of its pixel. *)
LEMMA PatchSum ==
  ASSUME NEW o, {o.c, o.h, o.w, o.n, o.k, o.stride} \subseteq Nat \ {0}, o.pad \in Nat,
         OutW(o) \in Nat \ {0}, m0 \in Nat, NEW mb \in Nat, NEW K \in Nat, PatchK(o) <= K,
         PatchK(o) \in Nat, NEW n \in 0 .. o.n - 1, NEW s \in 0 .. mb - 1
  PROVE  ColumnSum(PatchTable(o, mb), FilterTable(o), K, n, s)
           = Direct(YoloParams(o), InChannels(o.c), n + 1,
                    (m0 + s) \div OutW(o), (m0 + s) % OutW(o))
<1> DEFINE p == YoloParams(o)
           FT == PatchTable(o, mb)
           WT == FilterTable(o)
           oy == (m0 + s) \div OutW(o)
           ox == (m0 + s) % OutW(o)
           L == UNION {Held(FT, k, s) \X Held(WT, n, k) : k \in 0 .. K - 1}
           R == Direct(p, InChannels(o.c), n + 1, oy, ox)
           Y(kr) == PatchRow(o, s, kr)
           X(kc) == PatchColumn(o, s, kc)
           Pair(c, kr, kc) == <<<<at, c + 1, Y(kr), X(kc)>>, <<at, n + 1, c + 1, kr, kc>>>>
<1>1. /\ o.c \in Nat \ {0} /\ o.h \in Nat \ {0} /\ o.w \in Nat \ {0} /\ o.n \in Nat \ {0}
      /\ o.k \in Nat \ {0} /\ o.stride \in Nat \ {0}
  OBVIOUS
<1>2. /\ p.in_h = o.h /\ p.in_w = o.w /\ p.kh = o.k /\ p.kw = o.k
      /\ p.stride_h = o.stride /\ p.stride_w = o.stride /\ p.pad_top = o.pad /\ p.pad_left = o.pad
  BY DEF YoloParams
<1> HIDE DEF p
<1>3. oy \in Nat /\ ox \in Nat
  <2> DEFINE r == m0 + s
             w == OutW(o)
  <2>1. r \in Nat /\ w \in Nat \ {0}
    OBVIOUS
  <2> HIDE DEF r, w
  <2>2. r \div w \in Nat /\ r % w \in Nat
    <3>1. r \div w \in Nat /\ r % w \in 0 .. w - 1
      BY <2>1, DivMod
    <3>2. QED BY <3>1
  <2>3. QED BY <2>2 DEF r, w
<1>4. ASSUME NEW r \in Nat
      PROVE  /\ Y(r) = oy * p.stride_h + r - p.pad_top
             /\ X(r) = ox * p.stride_w + r - p.pad_left
  <2>1. Y(r) = oy * o.stride - o.pad + r /\ X(r) = ox * o.stride - o.pad + r
    BY DEF PatchRow, PatchColumn
  <2> DEFINE z == o.stride
             q == o.pad
  <2>2. z \in Nat /\ q \in Nat
    BY <1>1
  <2> HIDE DEF oy, ox, z, q
  <2>3. oy * z - q + r = oy * z + r - q
    BY <1>3, <2>2, ReadShift
  <2>4. ox * z - q + r = ox * z + r - q
    BY <1>3, <2>2, ReadShift
  <2>5. QED BY <1>2, <2>1, <2>3, <2>4 DEF z, q, oy, ox
<1> HIDE DEF oy, ox, Y, X
<1>5. ASSUME NEW v \in L PROVE v \in R
  <2>1. PICK k \in 0 .. K - 1 : v \in Held(FT, k, s) \X Held(WT, n, k)
    OBVIOUS
  <2>2. PICK f \in Held(FT, k, s), g \in Held(WT, n, k) : v = <<f, g>>
    BY <2>1
  <2>3. PICK y \in FT : y[1] = k /\ y[2] = s /\ f = y[3]
    BY DEF Held
  <2>4. PICK z \in WT : z[1] = n /\ z[2] = k /\ g = z[3]
    BY DEF Held
  <2>5. PICK e \in (0..mb - 1) \X (0..o.c - 1) \X (0..o.k - 1) \X (0..o.k - 1) :
          /\ Inside(PatchRow(o, e[1], e[3]), o.h) /\ Inside(PatchColumn(o, e[1], e[4]), o.w)
          /\ y = <<PatchAt(o, e[2], e[3], e[4]), e[1],
                   <<at, e[2] + 1, PatchRow(o, e[1], e[3]), PatchColumn(o, e[1], e[4])>>>>
    BY DEF PatchTable
  <2>6. PICK d \in (0..o.n - 1) \X (0..o.c - 1) \X (0..o.k - 1) \X (0..o.k - 1) :
          z = <<d[1], PatchAt(o, d[2], d[3], d[4]), <<at, d[1] + 1, d[2] + 1, d[3], d[4]>>>>
    BY DEF FilterTable
  <2> DEFINE c == e[2]
             kr == e[3]
             kc == e[4]
  <2>7. /\ e[1] = s /\ PatchAt(o, c, kr, kc) = k
        /\ f = <<at, c + 1, PatchRow(o, e[1], kr), PatchColumn(o, e[1], kc)>>
        /\ Inside(PatchRow(o, e[1], kr), o.h) /\ Inside(PatchColumn(o, e[1], kc), o.w)
    BY <2>3, <2>5
  <2>8. /\ d[1] = n /\ PatchAt(o, d[2], d[3], d[4]) = k
        /\ g = <<at, d[1] + 1, d[2] + 1, d[3], d[4]>>
    BY <2>4, <2>6
  <2>9. /\ c \in 0 .. o.c - 1 /\ kr \in 0 .. o.k - 1 /\ kc \in 0 .. o.k - 1
        /\ d[2] \in 0 .. o.c - 1 /\ d[3] \in 0 .. o.k - 1 /\ d[4] \in 0 .. o.k - 1
    OBVIOUS
  <2> HIDE DEF c, kr, kc
  <2>10. c = d[2] /\ kr = d[3] /\ kc = d[4]
    <3> DEFINE c2 == d[2]
               kr2 == d[3]
               kc2 == d[4]
    <3>1. c2 \in 0 .. o.c - 1 /\ kr2 \in 0 .. o.k - 1 /\ kc2 \in 0 .. o.k - 1
      BY <2>9
    <3>2. PatchAt(o, c, kr, kc) = PatchAt(o, c2, kr2, kc2)
      BY <2>7, <2>8
    <3> HIDE DEF c2, kr2, kc2
    <3>3. PatchAlone(o, c, kr, kc)
      BY <1>1, <2>9, PatchApart
    <3>4. c = c2 /\ kr = kr2 /\ kc = kc2
      BY <3>1, <3>2, <3>3, Zenon DEF PatchAlone
    <3>5. QED BY <3>4 DEF c2, kr2, kc2
  <2>11. /\ v = Pair(c, kr, kc) /\ Inside(Y(kr), o.h) /\ Inside(X(kc), o.w)
    BY <2>2, <2>7, <2>8, <2>10 DEF Y, X
  <2> DEFINE x == <<<<c + 1, c + 1>>, <<kr, kc>>>>
  <2>12. /\ x[1][1] = c + 1 /\ x[1][2] = c + 1 /\ x[2][1] = kr /\ x[2][2] = kc
    OBVIOUS
  <2>13. x \in InChannels(o.c) \X Kernel(p)
    <3>1. c + 1 \in 1 .. o.c
      BY <1>1, <2>9
    <3>2. <<c + 1, c + 1>> \in InChannels(o.c)
      BY <3>1 DEF InChannels
    <3>3. <<kr, kc>> \in Kernel(p)
      BY <1>2, <2>9 DEF Kernel
    <3>4. QED BY <3>2, <3>3
  <2>14. kr \in Nat /\ kc \in Nat
    BY <2>9
  <2> HIDE DEF x
  <2>15. /\ Y(kr) = oy * p.stride_h + x[2][1] - p.pad_top
         /\ X(kc) = ox * p.stride_w + x[2][2] - p.pad_left
    BY <1>4, <2>12, <2>14
  <2>16. /\ Inside(oy * p.stride_h + x[2][1] - p.pad_top, p.in_h)
         /\ Inside(ox * p.stride_w + x[2][2] - p.pad_left, p.in_w)
    BY <1>2, <2>11, <2>15
  <2>17. v = <<<<at, x[1][1], oy * p.stride_h + x[2][1] - p.pad_top,
                              ox * p.stride_w + x[2][2] - p.pad_left>>,
               <<at, n + 1, x[1][2], x[2][1], x[2][2]>>>>
    BY <2>11, <2>12, <2>15
  <2>18. QED BY <2>13, <2>16, <2>17 DEF Direct
<1>6. ASSUME NEW v \in R PROVE v \in L
  <2>1. PICK x \in InChannels(o.c) \X Kernel(p) :
          /\ Inside(oy * p.stride_h + x[2][1] - p.pad_top, p.in_h)
          /\ Inside(ox * p.stride_w + x[2][2] - p.pad_left, p.in_w)
          /\ v = <<<<at, x[1][1], oy * p.stride_h + x[2][1] - p.pad_top,
                                  ox * p.stride_w + x[2][2] - p.pad_left>>,
                   <<at, n + 1, x[1][2], x[2][1], x[2][2]>>>>
    BY DEF Direct
  <2> DEFINE b == x[1][1]
             kr == x[2][1]
             kc == x[2][2]
             c == b - 1
  <2>2. b \in 1 .. o.c /\ x[1][2] = b
    BY DEF InChannels
  <2>3. kr \in 0 .. o.k - 1 /\ kc \in 0 .. o.k - 1
    BY <1>2 DEF Kernel
  <2>4. c \in 0 .. o.c - 1 /\ c + 1 = b
    BY <1>1, <2>2
  <2>5. kr \in Nat /\ kc \in Nat
    BY <2>3
  <2> HIDE DEF kr, kc, b
  <2>6. /\ Y(kr) = oy * p.stride_h + kr - p.pad_top
        /\ X(kc) = ox * p.stride_w + kc - p.pad_left
    BY <1>4, <2>5
  <2> HIDE DEF c
  <2>7. v = Pair(c, kr, kc) /\ Inside(Y(kr), o.h) /\ Inside(X(kc), o.w)
    BY <1>2, <2>1, <2>2, <2>4, <2>6 DEF kr, kc, b
  <2> DEFINE e == <<s, c, kr, kc>>
             d == <<n, c, kr, kc>>
             k == PatchAt(o, c, kr, kc)
             y == <<k, s, <<at, c + 1, Y(kr), X(kc)>>>>
             z == <<n, k, <<at, n + 1, c + 1, kr, kc>>>>
  <2>8. k \in 0 .. K - 1
    <3>1. k \in 0 .. PatchK(o) - 1
      BY <1>1, <2>3, <2>4, PatchApart
    <3>2. QED BY <3>1
  <2>9. y \in FT
    <3>1. /\ e \in (0..mb - 1) \X (0..o.c - 1) \X (0..o.k - 1) \X (0..o.k - 1)
          /\ e[1] = s /\ e[2] = c /\ e[3] = kr /\ e[4] = kc
      BY <2>3, <2>4
    <3> HIDE DEF e
    <3>2. Inside(PatchRow(o, e[1], e[3]), o.h) /\ Inside(PatchColumn(o, e[1], e[4]), o.w)
      BY <2>7, <3>1 DEF Y, X
    <3>3. y = <<PatchAt(o, e[2], e[3], e[4]), e[1],
                <<at, e[2] + 1, PatchRow(o, e[1], e[3]), PatchColumn(o, e[1], e[4])>>>>
      BY <3>1 DEF Y, X
    <3>4. QED BY <3>1, <3>2, <3>3 DEF PatchTable
  <2>10. z \in WT
    <3>1. /\ d \in (0..o.n - 1) \X (0..o.c - 1) \X (0..o.k - 1) \X (0..o.k - 1)
          /\ d[1] = n /\ d[2] = c /\ d[3] = kr /\ d[4] = kc
      BY <2>3, <2>4
    <3> HIDE DEF d
    <3>2. z = <<d[1], PatchAt(o, d[2], d[3], d[4]), <<at, d[1] + 1, d[2] + 1, d[3], d[4]>>>>
      BY <3>1
    <3>3. QED BY <3>1, <3>2 DEF FilterTable
  <2>11. y[1] = k /\ y[2] = s /\ y[3] = <<at, c + 1, Y(kr), X(kc)>>
         /\ z[1] = n /\ z[2] = k /\ z[3] = <<at, n + 1, c + 1, kr, kc>>
    OBVIOUS
  <2> HIDE DEF y, z, k
  <2>12. <<at, c + 1, Y(kr), X(kc)>> \in Held(FT, k, s)
    BY <2>9, <2>11 DEF Held
  <2>13. <<at, n + 1, c + 1, kr, kc>> \in Held(WT, n, k)
    BY <2>10, <2>11 DEF Held
  <2>14. v \in Held(FT, k, s) \X Held(WT, n, k)
    BY <2>7, <2>12, <2>13
  <2>15. QED BY <2>8, <2>14
<1>7. L = R
  BY <1>5, <1>6
<1>8. QED BY <1>7 DEF ColumnSum, oy, ox, p

-----------------------------------------------------------------------------
(* What is read back. *)

FI == Image(FeatSize, Features)
WI == Image(WeightSize, Weights)

(* Some task writes word e[2], and sums there what output e[1] is. *)
ReadsExact(e) ==
  \E i \in DOMAIN Generator.tasks : \E c \in Cells(Generator.tasks[i]) :
    /\ e[2] = OutWord(Generator.tasks[i], c[1], c[2], c[3])
    /\ e[1] \in DOMAIN Reference
    /\ Accumulator(Generator.tasks[i], FI, WI, c[1], c[2], c[3]) = Reference[e[1]]

LEMMA ByTask ==
  ASSUME NEW e, NEW i \in DOMAIN Generator.tasks, NEW t, t = Generator.tasks[i],
         NEW n \in 0 .. t.kernels - 1, NEW oy \in 0 .. t.out_h - 1, NEW ox \in 0 .. t.out_w - 1,
         e[2] = OutWord(t, n, oy, ox), e[1] \in DOMAIN Reference,
         Accumulator(t, FI, WI, n, oy, ox) = Reference[e[1]]
  PROVE  ReadsExact(e)
<1> DEFINE c == <<n, oy, ox>>
<1>1. c \in Cells(t) /\ c[1] = n /\ c[2] = oy /\ c[3] = ox
  BY DEF Cells
<1> HIDE DEF c
<1>2. QED BY <1>1 DEF ReadsExact

LEMMA WordPlace ==
  ASSUME NEW t, NEW from \in Nat, t.dst_base \div OutElem = from * OutC2,
         NEW P \in Nat, t.dst_surf_stride = P, NEW W \in Nat, t.out_w = W,
         NEW n \in Nat, NEW oy \in Nat, NEW ox \in Nat, NEW s, s = from + (oy * W + ox)
  PROVE  OutWord(t, n, oy, ox) = Place(OutC2, P, n, s)
<1> DEFINE q == n \div OutC2
           r == n % OutC2
           a == q * P * OutC2
           b == oy * W + ox
<1>1. OutC2 \in Nat \ {0}
  <2>1. Group \in Nat /\ Group % Group = 0
    BY HardwareSizes
  <2>2. QED BY <2>1, GroupsAreAtoms
<1>2. q \in Nat /\ r \in Nat
  <2>1. q \in Nat /\ r \in 0 .. OutC2 - 1
    BY <1>1, DivMod
  <2>2. QED BY <2>1
<1>3. a \in Nat /\ b \in Nat
  <2>1. b \in Nat
    OBVIOUS
  <2> HIDE DEF q
  <2>2. a \in Nat
    BY <1>1, <1>2
  <2>3. QED BY <2>1, <2>2
<1>4. OutWord(t, n, oy, ox) = from * OutC2 + a + b * OutC2 + r
  BY DEF OutWord
<1>5. Place(OutC2, P, n, s) = a + s * OutC2 + r
  BY DEF Place
<1> HIDE DEF a, b, r
<1>6. s = from + b
  BY DEF b
<1>7. s * OutC2 = from * OutC2 + b * OutC2
  BY <1>1, <1>3, <1>6
<1>8. from * OutC2 \in Nat /\ b * OutC2 \in Nat
  BY <1>1, <1>3
<1>9. QED BY <1>2, <1>3, <1>4, <1>5, <1>7, <1>8

(* A whole cube starts at 0: its words are those of feature_data. *)
WordIs(t, H, W, n, oy, ox) ==
  OutWord(t, n, oy, ox) = feature_data(H, W, OutC2, n + 1, oy + 1, ox + 1)

LEMMA CubeWord ==
  ASSUME NEW t, t.dst_base = 0, NEW H \in Nat, NEW W \in Nat,
         t.dst_surf_stride = H * W, t.out_w = W,
         NEW n \in Nat, NEW oy \in Nat, NEW ox \in Nat
  PROVE  WordIs(t, H, W, n, oy, ox)
<1> DEFINE P == H * W
           z == 0
           s == oy * W + ox
           c == n + 1
           h == oy + 1
           w == ox + 1
           Q == W * H
           u == (h - 1) * W + (w - 1)
           x == c - 1
<1>1. OutC2 \in Nat \ {0}
  <2>1. Group \in Nat /\ Group % Group = 0
    BY HardwareSizes
  <2>2. QED BY <2>1, GroupsAreAtoms
<1>2. P \in Nat /\ Q = P /\ z \in Nat /\ s \in Nat /\ s = z + s
  OBVIOUS
<1>3. c \in Nat \ {0} /\ h \in Nat \ {0} /\ w \in Nat \ {0} /\ h - 1 = oy /\ w - 1 = ox /\ x = n
  OBVIOUS
<1>4. t.dst_base \div OutElem = z * OutC2
  BY <1>1, HardwareSizes
<1> HIDE DEF c, h, w
<1>5. u = s
  BY <1>3
<1>6. FeatureDataAt(H, W, OutC2, c, h, w)
  BY <1>1, <1>3, FeatureDataPlaced
<1>7. feature_data(H, W, OutC2, c, h, w) = Place(OutC2, Q, x, u)
  BY <1>6, Zenon DEF FeatureDataAt
<1>8. OutWord(t, n, oy, ox) = Place(OutC2, P, n, s)
  <2>1. s = z + (oy * W + ox)
    BY <1>2
  <2> HIDE DEF s, z, P
  <2>2. t.dst_surf_stride = P
    BY DEF P
  <2>3. QED BY <1>2, <1>4, <2>1, <2>2, WordPlace
<1> HIDE DEF P, Q, s, u, x
<1>9. OutWord(t, n, oy, ox) = feature_data(H, W, OutC2, c, h, w)
  BY <1>2, <1>3, <1>5, <1>7, <1>8
<1>10. QED BY <1>9 DEF WordIs, c, h, w

LEMMA BaseWord ==
  ASSUME NEW n \in Nat, NEW mb \in Nat, NEW row \in Nat
  PROVE  nbase(n, mb) + row * OutC2 = Place(OutC2, mb, n, row)
<1> DEFINE q == n \div OutC2
           r == n % OutC2
           a == q * mb * OutC2
           b == row * OutC2
<1>1. OutC2 \in Nat \ {0}
  <2>1. Group \in Nat /\ Group % Group = 0
    BY HardwareSizes
  <2>2. QED BY <2>1, GroupsAreAtoms
<1>2. q \in Nat /\ r \in Nat
  BY <1>1, DivMod
<1>3. a \in Nat /\ b \in Nat
  <2> HIDE DEF q
  <2>1. QED BY <1>1, <1>2
<1>4. nbase(n, mb) = a + r
  BY DEF nbase
<1>5. Place(OutC2, mb, n, row) = a + b + r
  BY DEF Place
<1> HIDE DEF a, b, r
<1>6. QED BY <1>2, <1>3, <1>4, <1>5 DEF b

(* The outputs of a matmul. *)
LEMMA LlmReads ==
  ASSUME WellFormed(op), op.kind = "llm", Generator.tasks = <<ConvTask(Lowering(op))>>,
         NEW e \in ReadBackWords
  PROVE  ReadsExact(e)
<1> DEFINE C == op.c
           N == op.n
           t == ConvTask(PointwiseTask(1, C, N))
           h == 1
<1>1. t = ConvTask(Lowering(op)) /\ FitsTheEngine(PointwiseTask(1, C, N))
  BY DEF Lowering, WellFormed
<1>2. C \in Nat \ {0} /\ N \in Nat \ {0} /\ C % Group = 0 /\ N % Group = 0
  <2> DEFINE p == PointwiseTask(1, C, N)
  <2>1. p.in_c = C /\ p.out_c = N
    BY DEF PointwiseTask
  <2>2. FitsTheEngine(p)
    BY <1>1
  <2> HIDE DEF p
  <2>3. p.in_c \in Nat \ {0} /\ p.out_c \in Nat \ {0}
    BY <2>2, ConvSizes
  <2>4. p.in_c % Group = 0 /\ p.out_c % Group = 0
    BY <2>2, Zenon DEF FitsTheEngine
  <2>5. QED BY <2>1, <2>3, <2>4
<1>3. TileFields(t, h, C, N, 0, h)
  BY <1>1, <1>2, PointwiseSums
<1> HIDE DEF t
<1>4. PICK n \in 1 .. N : e = <<<<n, 0>>, feature_data(1, 1, OutC2, n, 1, 1)>>
  BY DEF ReadBackWords
<1>5. FeatSize = C /\ WeightSize = N * C
  <2>1. FeatSize = RoundUp(C, Atom) /\ WeightSize = RoundUp(C, Group) * RoundUp(N, Group)
    BY DEF FeatSize, WeightSize
  <2>2. C % Atom = 0 /\ Atom \in Nat \ {0} /\ Group \in Nat \ {0} /\ C \in Nat /\ N \in Nat
    BY <1>2, GroupsAreAtoms, HardwareSizes
  <2> HIDE DEF C, N
  <2>3. RoundUp(C, Atom) = C
    BY <2>2, RoundUpFacts
  <2>4. RoundUp(C, Group) = C
    BY <1>2, <2>2, RoundUpFacts
  <2>5. RoundUp(N, Group) = N
    BY <1>2, <2>2, RoundUpFacts
  <2>6. QED BY <2>1, <2>2, <2>3, <2>4, <2>5
<1>6. Features = LlmFeatures(op) /\ Weights = LlmWeights(op)
  BY DEF Features, Weights
<1> DEFINE x == n - 1
           fs == C
           ws == N * C
<1>7. Accumulator(t, Image(fs, LlmFeatures(op)), Image(ws, LlmWeights(op)), x, 0, 0)
        = {<<<<at, k, 0, 0>>, <<at, n, k, 0, 0>>>> : k \in 1..C}
  BY <1>1, <1>2, LlmCell DEF t
<1>8. Reference = [c \in (1..N) \X {0} |->
                     {<<<<at, k, 0, 0>>, <<at, c[1], k, 0, 0>>>> : k \in 1..C}]
  BY DEF Reference
<1>9. e[1] \in DOMAIN Reference
      /\ Reference[e[1]] = {<<<<at, k, 0, 0>>, <<at, n, k, 0, 0>>>> : k \in 1..C}
  <2> DEFINE c == <<n, 0>>
  <2>1. e[1] = c /\ c \in (1..N) \X {0} /\ c[1] = n
    BY <1>4
  <2> HIDE DEF c, C, N
  <2>2. QED BY <1>8, <2>1
<1>10. Accumulator(t, FI, WI, x, 0, 0) = Reference[e[1]]
  BY <1>5, <1>6, <1>7, <1>9 DEF FI, WI
<1>11. /\ t.dst_base = 0 /\ t.dst_surf_stride = 1 /\ t.out_w = 1 /\ t.out_h = 1 /\ t.kernels = N
  BY <1>3, HardwareSizes DEF TileFields
<1>12. x \in 0 .. t.kernels - 1 /\ x \in Nat /\ x + 1 = n
       /\ 0 \in 0 .. t.out_h - 1 /\ 0 \in 0 .. t.out_w - 1
  BY <1>2, <1>11
<1> HIDE DEF x
<1>13. OutWord(t, x, 0, 0) = feature_data(1, 1, OutC2, n, 1, 1)
  <2> DEFINE H == 1
             z == 0
             y == z + 1
             v == x + 1
  <2>1. H \in Nat /\ z \in Nat /\ H * H = H /\ y = 1 /\ v = n
    BY <1>12
  <2>2. t.dst_base = z /\ t.dst_surf_stride = H * H /\ t.out_w = H
    BY <1>11, <2>1
  <2> HIDE DEF H
  <2>3. t.dst_base = 0
    BY <1>11
  <2> HIDE DEF z
  <2>4. WordIs(t, H, H, x, z, z)
    BY <1>12, <2>1, <2>2, <2>3, CubeWord
  <2>5. OutWord(t, x, z, z) = feature_data(H, H, OutC2, v, y, y)
    BY <2>4, Zenon DEF WordIs
  <2> HIDE DEF y, v
  <2>6. QED BY <2>1, <2>5 DEF H, z
<1>14. e[2] = OutWord(t, x, 0, 0)
  BY <1>4, <1>13
<1>15. 1 \in DOMAIN Generator.tasks /\ t = Generator.tasks[1]
  BY <1>1
<1>16. QED BY <1>9, <1>10, <1>12, <1>14, <1>15, ByTask

LEMMA TransposeReads ==
  ASSUME WellFormed(op), op.kind = "transpose", Generator.tasks = <<ConvTask(Lowering(op))>>,
         NEW e \in ReadBackWords
  PROVE  ReadsExact(e)
<1> DEFINE K == RoundUp(op.cols, Group)
           N == RoundUp(op.rows, Group)
           t == ConvTask(PointwiseTask(K, K, N))
           fs == K * K
           ws == N * K
           z == 0
           one == 1
<1>1. /\ t = ConvTask(Lowering(op)) /\ FitsTheEngine(PointwiseTask(K, K, N))
      /\ op.rows \in Nat \ {0} /\ op.cols \in Nat \ {0}
  BY DEF Lowering, WellFormed
<1>2. PICK b \in 1 .. op.rows, a1 \in 1 .. op.cols :
        e = <<<<b, a1 - 1>>, feature_data(K, 1, OutC2, b, a1, 1)>>
  BY DEF ReadBackWords
<1>3. FeatSize = fs /\ WeightSize = ws /\ Features = TransposeFeatures(op)
      /\ Weights = TransposeWeights(op)
  BY DEF FeatSize, WeightSize, Features, Weights
<1> DEFINE a == a1 - 1
           x == b - 1
<1>4. a \in 0 .. op.cols - 1 /\ a + 1 = a1 /\ x + 1 = b /\ x \in 0 .. op.rows - 1
      /\ a \in Nat /\ x \in Nat
  BY <1>1
<1>5. Reference = [c \in (1..op.rows) \X (0..op.cols - 1) |->
                     {<<<<at, c[2] + 1, 0, 0>>, <<at, c[1], c[2] + 1, 0, 0>>>>}]
  BY DEF Reference
<1>6. e[1] \in DOMAIN Reference
      /\ Reference[e[1]] = {<<<<at, a + 1, 0, 0>>, <<at, b, a + 1, 0, 0>>>>}
  <2> DEFINE c == <<b, a>>
  <2>1. e[1] = c /\ c \in (1..op.rows) \X (0..op.cols - 1) /\ c[1] = b /\ c[2] = a
    BY <1>2, <1>4
  <2> HIDE DEF c, a
  <2>2. QED BY <1>5, <2>1
<1> HIDE DEF t, a, x, fs, ws, z
<1>7. /\ Accumulator(t, Image(fs, TransposeFeatures(op)), Image(ws, TransposeWeights(op)), x, a, 0)
           = {<<<<at, a + 1, 0, 0>>, <<at, b, a + 1, 0, 0>>>>}
      /\ K \in Nat \ {0} /\ K >= op.cols /\ N >= op.rows /\ N \in Nat \ {0}
  <2> HIDE DEF K, N
  <2>1. K = RoundUp(op.cols, Group) /\ N = RoundUp(op.rows, Group)
    BY DEF K, N
  <2>2. fs = K * K /\ ws = N * K
    BY DEF fs, ws
  <2>3. /\ Accumulator(ConvTask(PointwiseTask(K, K, N)), Image(fs, TransposeFeatures(op)),
                       Image(ws, TransposeWeights(op)), b - 1, a, 0)
             = {<<<<at, a + 1, 0, 0>>, <<at, b, a + 1, 0, 0>>>>}
        /\ K \in Nat \ {0} /\ K >= op.cols /\ N >= op.rows /\ N \in Nat \ {0}
    BY <1>1, <1>4, <2>1, <2>2, TransposeCell
  <2>4. QED BY <2>3 DEF t, x
<1>8. Accumulator(t, FI, WI, x, a, 0) = Reference[e[1]]
  BY <1>3, <1>6, <1>7 DEF FI, WI
<1>9. TileFields(t, K, K, N, 0, K)
  <2> DEFINE p == PointwiseTask(K, K, N)
  <2>1. ConvFields(t, p)
    BY <1>1, ConvTaskFields DEF t
  <2> HIDE DEF K, N
  <2>2. K \in Nat \ {0} /\ K \in Nat /\ N \in Nat
    BY <1>7
  <2>3. QED BY <2>1, <2>2, PointwiseFields
<1>10. /\ t.dst_base = 0 /\ t.dst_surf_stride = K /\ t.out_w = 1 /\ t.out_h = K /\ t.kernels = N
  BY <1>9, HardwareSizes DEF TileFields
<1> HIDE DEF K, N
<1>11. x \in 0 .. t.kernels - 1 /\ a \in 0 .. t.out_h - 1 /\ 0 \in 0 .. t.out_w - 1
  BY <1>1, <1>4, <1>7, <1>10
<1>12. OutWord(t, x, a, 0) = feature_data(K, 1, OutC2, b, a1, 1)
  <2> DEFINE u == x + 1
             v == a + 1
             w == z + 1
  <2>1. K \in Nat /\ z \in Nat /\ one \in Nat /\ u = b /\ v = a1 /\ w = one /\ K * one = K
    BY <1>4, <1>7 DEF z
  <2>2. t.dst_base = 0 /\ t.dst_surf_stride = K * one /\ t.out_w = one
    BY <1>10, <2>1
  <2> HIDE DEF one
  <2>3. WordIs(t, K, one, x, a, z)
    BY <1>4, <2>1, <2>2, CubeWord
  <2>4. OutWord(t, x, a, z) = feature_data(K, one, OutC2, u, v, w)
    BY <2>3, Zenon DEF WordIs
  <2> HIDE DEF u, v, w
  <2>5. QED BY <2>1, <2>4 DEF one, z
<1>13. e[2] = OutWord(t, x, a, 0)
  BY <1>2, <1>12
<1>14. 1 \in DOMAIN Generator.tasks /\ t = Generator.tasks[1]
  BY <1>1
<1>15. QED BY <1>6, <1>8, <1>11, <1>13, <1>14, ByTask

(* A transposed convolution is read back from the cube its lowering writes. *)
LEMMA RoomForDeconv ==
  ASSUME NEW m \in Nat, NEW A \in Nat, m < A, NEW k \in Nat, NEW pt \in Nat, NEW pb \in Nat,
         NEW op_h \in Nat
  PROVE  m - (pt + pb) + k + op_h
           <= (A + ((k - 1 - pt) + (k - 1 - pb + op_h)) - k) \div 1 + 1
OBVIOUS

DeconvH(o) == IF o.kind = "deconv" THEN DeconvOutH(o.p) ELSE ConvOutH(Lowered(o))
DeconvW(o) == IF o.kind = "deconv" THEN DeconvOutW(o.p) ELSE ConvOutW(Lowered(o))

LEMMA ReadBackFits ==
  ASSUME NEW o, WellFormed(o), AlignedHeight(o), o.kind \in ConvKinds, ~NotLowered(o),
         FitsTheEngine(Lowered(o))
  PROVE  /\ DeconvH(o) \in Nat \ {0} /\ DeconvW(o) \in Nat \ {0}
         /\ DeconvH(o) <= ConvOutH(Lowered(o)) /\ DeconvW(o) <= ConvOutW(Lowered(o))
<1> DEFINE q == Lowered(o)
           p == o.p
<1>1. ConvOutH(q) \in Nat \ {0} /\ ConvOutW(q) \in Nat \ {0}
  BY ConvSizes
<1>2. CASE o.kind # "deconv"
  <2>1. DeconvH(o) = ConvOutH(q) /\ DeconvW(o) = ConvOutW(q)
    BY <1>2 DEF DeconvH, DeconvW
  <2> HIDE DEF q
  <2>2. QED BY <1>1, <2>1 DEF q
<1>3. CASE o.kind = "deconv"
  <2>1. /\ q.in_h \in Nat \ {0} /\ q.in_w \in Nat \ {0} /\ CubeShape(o)
        /\ p.pad_top \in Nat /\ p.pad_left \in Nat /\ p.pad_bottom \in Nat /\ p.pad_right \in Nat
        /\ p.output_padding_h \in Nat /\ p.output_padding_w \in Nat
        /\ p.kh \in Nat /\ p.kw \in Nat
    BY <1>3, ConvKindShapes DEF CubeShape, ConvShape
  <2>2. /\ q.pad_top = p.kh - 1 - p.pad_top /\ q.pad_left = p.kw - 1 - p.pad_left
        /\ q.pad_bottom = p.kh - 1 - p.pad_bottom + p.output_padding_h
        /\ q.pad_right = p.kw - 1 - p.pad_right + p.output_padding_w
        /\ q.stride_h = 1 /\ q.stride_w = 1 /\ q.kh = p.kh /\ q.kw = p.kw
        /\ q = DeconvAsConv(p)
    BY <1>3 DEF Lowered, DeconvAsConv
  <2>3. /\ {p.kh, p.kw, p.pad_top, p.pad_left, p.pad_bottom, p.pad_right,
            p.output_padding_h, p.output_padding_w} \subseteq Nat
        /\ {p.in_h, p.in_w, p.stride_h, p.stride_w} \subseteq Nat \ {0}
        /\ (\A pad \in {q.pad_top, q.pad_bottom, q.pad_left, q.pad_right} : pad >= 0)
             => DeconvOutH(p) > 0 /\ DeconvOutW(p) > 0
    BY <1>3, <2>2 DEF WellFormed
  <2>4. {q.pad_top, q.pad_left, q.pad_bottom, q.pad_right} \subseteq Nat
    BY ConvSizes
  <2>5. DeconvOutH(p) > 0 /\ DeconvOutW(p) > 0
    <3> HIDE DEF q, p
    <3>1. QED BY <2>3, <2>4
  <2> DEFINE hs == (p.in_h - 1) * p.stride_h
             vs == (p.in_w - 1) * p.stride_w
  <2>6. hs \in Nat /\ vs \in Nat /\ hs < q.in_h /\ vs < q.in_w
    <3>1. InputSpacing(o) = <<p.stride_h, p.stride_w>>
      BY <1>3 DEF InputSpacing
    <3>2. hs < q.in_h /\ vs < q.in_w
      BY <2>1, <3>1 DEF CubeShape
    <3> DEFINE h == p.in_h - 1
               w == p.in_w - 1
    <3>3. h \in Nat /\ w \in Nat /\ p.stride_h \in Nat /\ p.stride_w \in Nat
      BY <2>3
    <3> HIDE DEF h, w
    <3>4. h * p.stride_h \in Nat /\ w * p.stride_w \in Nat
      BY <3>3
    <3>5. QED BY <3>2, <3>4 DEF h, w
  <2>7. DeconvOutH(p) = hs - (p.pad_top + p.pad_bottom) + p.kh + p.output_padding_h
        /\ DeconvOutW(p) = vs - (p.pad_left + p.pad_right) + p.kw + p.output_padding_w
    BY DEF DeconvOutH, DeconvOutW
  <2>8. /\ ConvOutH(q) = (q.in_h + ((p.kh - 1 - p.pad_top)
                                      + (p.kh - 1 - p.pad_bottom + p.output_padding_h)) - p.kh) \div 1 + 1
        /\ ConvOutW(q) = (q.in_w + ((p.kw - 1 - p.pad_left)
                                      + (p.kw - 1 - p.pad_right + p.output_padding_w)) - p.kw) \div 1 + 1
    BY <2>2 DEF ConvOutH, ConvOutW, OutDim
  <2> HIDE DEF hs, vs, q, p
  <2>9. DeconvOutH(p) \in Int /\ DeconvOutW(p) \in Int
    BY <2>1, <2>6, <2>7 DEF p
  <2>10. DeconvOutH(p) <= ConvOutH(q)
    BY <2>1, <2>6, <2>7, <2>8, RoomForDeconv DEF p
  <2>11. DeconvOutW(p) <= ConvOutW(q)
    BY <2>1, <2>6, <2>7, <2>8, RoomForDeconv DEF p
  <2>12. DeconvH(o) = DeconvOutH(p) /\ DeconvW(o) = DeconvOutW(p)
    BY <1>3 DEF DeconvH, DeconvW, p
  <2>13. QED BY <2>5, <2>9, <2>10, <2>11, <2>12 DEF q
<1>4. QED BY <1>2, <1>3

(* The outputs of the on-board convolutions. *)
LEMMA ConvReference ==
  ASSUME op.kind \in ConvKinds, op.kind # "deconv"
  PROVE  Reference = [c \in (1..op.p.out_c) \X (0..ConvOutH(op.p) * ConvOutW(op.p) - 1) |->
                        Direct(op.p, ChannelsOf(op, c[1]), c[1],
                               c[2] \div ConvOutW(op.p), c[2] % ConvOutW(op.p))]
<1>1. CASE op.kind = "conv"
  BY <1>1 DEF Reference, Convolution, ChannelsOf
<1>2. CASE op.kind = "depthwise"
  BY <1>2 DEF Reference, Convolution, ChannelsOf
<1>3. CASE op.kind = "grouped"
  BY <1>3 DEF Reference, Convolution, ChannelsOf
<1>4. QED BY <1>1, <1>2, <1>3 DEF ConvKinds

LEMMA DeconvReference ==
  ASSUME op.kind = "deconv"
  PROVE  Reference = [c \in (1..op.p.out_c) \X (0..DeconvOutH(op.p) * DeconvOutW(op.p) - 1) |->
                        Scattered(op.p, c[1], c[2] \div DeconvOutW(op.p),
                                  c[2] % DeconvOutW(op.p))]
BY DEF Reference

\* What output (oc, oh, ow) of a convolution is.
OutputOf(o, oc, oh, ow) ==
  IF o.kind = "deconv" THEN Scattered(o.p, oc, oh, ow)
  ELSE Direct(o.p, ChannelsOf(o, oc), oc, oh, ow)

LEMMA ConvKindReference ==
  ASSUME op.kind \in ConvKinds
  PROVE  Reference = [c \in (1..op.p.out_c) \X (0..DeconvH(op) * DeconvW(op) - 1) |->
                        OutputOf(op, c[1], c[2] \div DeconvW(op), c[2] % DeconvW(op))]
<1>1. CASE op.kind = "deconv"
  <2>1. DeconvH(op) = DeconvOutH(op.p) /\ DeconvW(op) = DeconvOutW(op.p)
    BY <1>1 DEF DeconvH, DeconvW
  <2>2. QED BY <1>1, <2>1, DeconvReference DEF OutputOf
<1>2. CASE op.kind # "deconv"
  <2>1. DeconvH(op) = ConvOutH(op.p) /\ DeconvW(op) = ConvOutW(op.p)
    BY <1>2 DEF DeconvH, DeconvW, Lowered
  <2>2. QED BY <1>2, <2>1, ConvReference DEF OutputOf
<1>3. QED BY <1>1, <1>2

LEMMA ConvKindReads ==
  ASSUME WellFormed(op), AlignedHeight(op), op.kind \in ConvKinds, ~NotLowered(op),
         FitsTheEngine(Lowered(op)), Generator.tasks = <<ConvTask(Lowered(op))>>,
         NEW e \in ReadBackWords
  PROVE  ReadsExact(e)
<1> DEFINE q == Lowered(op)
           t == ConvTask(q)
           OH == ConvOutH(q)
           OW == ConvOutW(q)
           H == DeconvH(op)
           W == DeconvW(op)
           fs == q.in_c * (q.in_w * q.in_h)
           ws == q.out_c * (q.kw * q.kh * q.in_c)
<1>1. /\ H \in Nat \ {0} /\ W \in Nat \ {0} /\ H <= OH /\ W <= OW
      /\ OH \in Nat \ {0} /\ OW \in Nat \ {0} /\ q.out_c \in Nat \ {0} /\ op.p.out_c = q.out_c
  BY ReadBackFits, ConvSizes, ConvKindShapes
<1>2. PICK oc \in 1 .. q.out_c, oh \in 0 .. H - 1, ow \in 0 .. W - 1 :
        e = <<<<oc, oh * W + ow>>, feature_data(OH, OW, OutC2, oc, oh + 1, ow + 1)>>
  BY DEF ReadBackWords, ConvKinds, DeconvH, DeconvW
<1> DEFINE n == oc - 1
           x == oh * W + ow
<1>3. n \in 0 .. op.p.out_c - 1 /\ n + 1 = oc /\ oh \in 0 .. OH - 1 /\ ow \in 0 .. OW - 1
      /\ n \in Nat /\ oh \in Nat /\ ow \in Nat
  <2> HIDE DEF H, W, OH, OW, q
  <2>1. QED BY <1>1
<1>4. ConvFields(t, q)
  BY ConvTaskFields
<1>5. /\ t.dst_base = 0 /\ t.dst_surf_stride = OH * OW /\ t.out_w = OW /\ t.out_h = OH
      /\ t.kernels = q.out_c
  BY <1>4, Zenon DEF ConvFields
<1>6. FeatSize = fs /\ WeightSize = ws /\ Features = ConvFeatures(op) /\ Weights = ConvWeights(op)
  <2>1. Lowering(op) = q /\ SingleKinds(op)
    BY DEF Lowering, SingleKinds, Singles, ConvKinds
  <2>2. FeatSize = fs /\ WeightSize = ws
    BY <2>1, SingleSizes
  <2>3. QED BY <2>2 DEF Features, Weights, ConvKinds
<1>7. Accumulator(t, Image(fs, ConvFeatures(op)), Image(ws, ConvWeights(op)), n, oh, ow)
        = OutputOf(op, n + 1, oh, ow)
  BY <1>3, ConvCell DEF OutputOf
<1>8. x \in 0 .. H * W - 1 /\ x \div W = oh /\ x % W = ow
  <2> HIDE DEF H, W
  <2>1. x \in 0 .. H * W - 1
    BY <1>1, TwoDigits
  <2>2. x \div W = oh /\ x % W = ow
    BY <1>1, <1>3, Digits
  <2>3. QED BY <2>1, <2>2
<1> HIDE DEF x, H, W, OH, OW, t, fs, ws
<1>9. e[1] \in DOMAIN Reference /\ Reference[e[1]] = OutputOf(op, oc, oh, ow)
  <2> DEFINE c == <<oc, x>>
  <2>1. e[1] = c /\ c \in (1..op.p.out_c) \X (0..H * W - 1) /\ c[1] = oc /\ c[2] = x
    BY <1>1, <1>2, <1>8 DEF x
  <2>2. Reference = [d \in (1..op.p.out_c) \X (0..H * W - 1) |->
                       OutputOf(op, d[1], d[2] \div W, d[2] % W)]
    BY ConvKindReference DEF H, W
  <2> HIDE DEF c
  <2>3. e[1] \in DOMAIN Reference
        /\ Reference[e[1]] = OutputOf(op, c[1], c[2] \div W, c[2] % W)
    BY <2>1, <2>2
  <2>4. QED BY <1>8, <2>1, <2>3
<1>10. Accumulator(t, FI, WI, n, oh, ow) = Reference[e[1]]
  BY <1>3, <1>6, <1>7, <1>9 DEF FI, WI
<1>11. n \in 0 .. t.kernels - 1 /\ oh \in 0 .. t.out_h - 1 /\ ow \in 0 .. t.out_w - 1
  BY <1>1, <1>3, <1>5
<1>12. OutWord(t, n, oh, ow) = e[2]
  <2> DEFINE c == n + 1
             h == oh + 1
             w == ow + 1
  <2>1. WordIs(t, OH, OW, n, oh, ow)
    BY <1>1, <1>3, <1>5, CubeWord
  <2>2. OutWord(t, n, oh, ow) = feature_data(OH, OW, OutC2, c, h, w)
    BY <2>1, Zenon DEF WordIs
  <2>3. c = oc
    BY <1>3
  <2>4. e[2] = feature_data(OH, OW, OutC2, oc, h, w)
    BY <1>2
  <2> HIDE DEF c, h, w
  <2>5. QED BY <2>2, <2>3, <2>4
<1>13. 1 \in DOMAIN Generator.tasks /\ t = Generator.tasks[1]
  BY DEF t
<1>14. QED BY <1>9, <1>10, <1>11, <1>12, <1>13, ByTask

(* The outputs of a block of a convolution of the network. *)
LEMMA WholeDifference ==
  ASSUME NEW r \in Nat \ {0}, NEW a \in Nat, NEW b \in Nat, b <= a, a % r = 0, b % r = 0
  PROVE  (a - b) % r = 0
<1> DEFINE x == a \div r
           y == b \div r
           d == x - y
<1>1. x \in Nat /\ y \in Nat /\ a = x * r /\ b = y * r
  OBVIOUS
<1> HIDE DEF x, y
<1>2. y <= x
  BY <1>1, Cancel
<1>3. d \in Nat
  BY <1>1, <1>2
<1>4. a - b = d * r
  BY <1>1
<1> HIDE DEF d
<1>5. (d * r) % r = 0
  BY <1>3, Multiple
<1>6. QED BY <1>4, <1>5

LEMMA RowsAligned ==
  ASSUME AtOperator, op.kind = "yolo", m0 % RowAlign = 0
  PROVE  Rows(op) % RowAlign = 0
<1> DEFINE P == PixelsOf(op)
<1>1. P \in Nat /\ m0 \in Nat /\ m0 < P /\ P % RowAlign = 0
  BY OperatorIsWellFormed, YoloSizes DEF AtOperator, AlignedHeight
<1>2. Block % RowAlign = 0 /\ RowAlign \in Nat \ {0}
  BY BlocksAreAligned, HardwareSizes
<1>3. Rows(op) = IF Block < P - m0 THEN Block ELSE P - m0
  BY DEF Rows, Least
<1> HIDE DEF P
<1>4. (P - m0) % RowAlign = 0
  <2>1. m0 <= P
    BY <1>1
  <2>2. QED BY <1>1, <1>2, <2>1, WholeDifference
<1>5. QED BY <1>2, <1>3, <1>4

LEMMA TileSums ==
  ASSUME NEW m \in Nat \ {0}, m % RowAlign = 0, NEW k, NEW n, NEW M, Tileable(m, k, n, M),
         NEW from \in Nat, NEW rows \in 1 .. M, from + rows <= m,
         NEW t, TileFields(t, m, k, n, from, rows)
  PROVE  SummingTask(t, 1, m, from)
<1>1. CubeTask(t, 1, m, from)
  BY TileCube
<1>2. /\ k % Group = 0 /\ n % Group = 0 /\ k \in Nat \ {0} /\ n \in Nat \ {0} /\ M \in Nat
      /\ 1 * 1 * k = k
  BY TileableFacts, HardwareSizes
<1>3. /\ t.in_c = k /\ t.kh = 1 /\ t.kw = 1 /\ t.kernels = n /\ t.wbpk = k
      /\ t.out_h = rows /\ t.out_w = 1 /\ t.stride_h = 1 /\ t.stride_w = 1
      /\ t.pad_top = 0 /\ t.pad_left = 0
  BY DEF TileFields
<1>4. QED BY <1>1, <1>2, <1>3 DEF SummingTask

LEMMA YoloReference ==
  ASSUME op.kind = "yolo", {op.h, op.w, op.k, op.stride} \subseteq Nat \ {0}, op.pad \in Nat
  PROVE  Reference = [c \in (1..op.n) \X (0..OutH(op) * OutW(op) - 1) |->
                        Direct(YoloParams(op), InChannels(op.c), c[1],
                               c[2] \div OutW(op), c[2] % OutW(op))]
<1> DEFINE p == YoloParams(op)
<1>1. p.out_c = op.n /\ ConvOutH(p) = OutDim(op.h, op.pad + op.pad, op.k, op.stride)
      /\ ConvOutW(p) = OutDim(op.w, op.pad + op.pad, op.k, op.stride)
  BY DEF YoloParams, ConvOutH, ConvOutW
<1>2. op.pad + op.pad = 2 * op.pad
  OBVIOUS
<1>3. ConvOutH(p) = OutH(op) /\ ConvOutW(p) = OutW(op)
  BY <1>1, <1>2 DEF OutH, OutW
<1> HIDE DEF p
<1>4. Reference = [c \in (1..p.out_c) \X (0..ConvOutH(p) * ConvOutW(p) - 1) |->
                     Direct(p, InChannels(op.c), c[1],
                            c[2] \div ConvOutW(p), c[2] % ConvOutW(p))]
  BY DEF Reference, Convolution, InChannels, p
<1>5. QED BY <1>1, <1>3, <1>4 DEF p

LEMMA YoloReads ==
  ASSUME AtOperator, Accepted(Generator), op.kind = "yolo", m0 % RowAlign = 0,
         NEW e \in ReadBackWords
  PROVE  ReadsExact(e)
<1> DEFINE m == Rows(op)
           k == PaddedK(op)
           N == PaddedN(op)
           FT == PatchTable(op, m)
           WT == FilterTable(op)
           fs == k * m
           ws == N * k
<1>1. /\ WellFormed(op)
      /\ {op.c, op.h, op.w, op.n, op.k, op.stride} \subseteq Nat \ {0} /\ op.pad \in Nat
      /\ OutW(op) \in Nat \ {0} /\ OutH(op) \in Nat \ {0} /\ PixelsOf(op) = OutH(op) * OutW(op)
      /\ PatchK(op) \in Nat \ {0} /\ PatchK(op) <= k /\ op.n <= N
  BY OperatorIsWellFormed, YoloSizes
<1>2. m \in Nat \ {0} /\ m0 + m <= PixelsOf(op) /\ m0 \in Nat /\ m % RowAlign = 0
  BY RowsOfBlock, RowsAligned DEF AtOperator
<1>3. PICK M : Tileable(m, k, N, M) /\ Tiled(Generator.tasks, m, k, N, M)
  BY GeneratedTasks
<1>4. k \in Nat \ {0} /\ N \in Nat \ {0} /\ M \in Nat \ {0}
  BY <1>3, TileableFacts, HardwareSizes
<1>5. PICK n \in 0 .. op.n - 1, row \in 0 .. m - 1 :
        e = <<<<n + 1, m0 + row>>, nbase(n, m) + row * OutC2>>
  BY DEF ReadBackWords
<1>6. FeatSize = fs /\ WeightSize = ws
  <2>1. FeatSize = PaddedK(op) * Rows(op) /\ WeightSize = PaddedK(op) * PaddedN(op)
    BY <1>1, <1>2, YoloBufferSizes
  <2> HIDE DEF m, k, N
  <2>2. k * N = N * k
    BY <1>4
  <2>3. QED BY <2>1, <2>2 DEF m, k, N
<1>7. Features = CubeStores(Atom, m, FT) /\ Weights = WeightStores(k, WT)
  <2>1. YoloFeatures(op) = CubeStores(Atom, Rows(op), PatchTable(op, Rows(op)))
    BY <1>1, <1>2, YoloFeaturesAre
  <2>2. YoloWeights(op) = WeightStores(PaddedK(op), FilterTable(op))
    BY <1>1, <1>4, YoloWeightsAre
  <2>3. Features = YoloFeatures(op) /\ Weights = YoloWeights(op)
    BY DEF Features, Weights
  <2>4. QED BY <2>1, <2>2, <2>3
<1> HIDE DEF fs, ws, m, k, N
<1>8. Ranged(FT, k, m)
  BY <1>1, <1>2, <1>4, PatchRanged
<1>9. Ranged(WT, N, k)
  BY <1>1, <1>4, FilterRanged
<1>10. PICK i \in 1 .. CeilDiv(m, M), oy \in Nat : oy < TileRows(m, M, i) /\ row = (i - 1) * M + oy
  <2>1. InATile(m, M, row)
    BY <1>2, <1>4, RowInTile
  <2>2. QED BY <2>1, Zenon DEF InATile
<1> DEFINE t == Generator.tasks[i]
           from == (i - 1) * M
           rows == TileRows(m, M, i)
<1>11. /\ i \in DOMAIN Generator.tasks /\ rows \in 1 .. M /\ from \in Nat /\ from + rows <= m
       /\ TileFields(t, m, k, N, from, rows)
  <2>1. i \in DOMAIN Generator.tasks
    BY <1>3, <1>10 DEF Tiled
  <2>2. QED BY <1>3, <2>1, TaskOfTiling
<1>12. n \in 0 .. N - 1 /\ oy \in 0 .. rows - 1 /\ row = from + oy /\ n \in Nat /\ rows \in Nat
       /\ row \in Nat
  BY <1>1, <1>2, <1>4, <1>10, <1>11
<1> HIDE DEF t, from, rows, FT, WT
<1>13. SummingTask(t, 1, m, from)
  BY <1>2, <1>3, <1>11, TileSums
<1>14. TileCellIs(t, m, k, FT, WT, from, n, oy, fs, ws)
  <2>1. fs = k * m /\ ws = N * k
    BY DEF fs, ws
  <2>2. QED BY <1>2, <1>4, <1>8, <1>9, <1>11, <1>12, <1>13, <2>1, TileCell
<1>15. Accumulator(t, FI, WI, n, oy, 0) = ColumnSum(FT, WT, k, n, row)
  <2>1. Accumulator(t, Image(fs, CubeStores(Atom, m, FT)), Image(ws, WeightStores(k, WT)), n, oy, 0)
          = ColumnSum(FT, WT, k, n, from + oy)
    BY <1>14, Zenon DEF TileCellIs
  <2>2. QED BY <1>6, <1>7, <1>12, <2>1 DEF FI, WI
<1>16. ColumnSum(FT, WT, k, n, row)
         = Direct(YoloParams(op), InChannels(op.c), n + 1,
                  (m0 + row) \div OutW(op), (m0 + row) % OutW(op))
  BY <1>1, <1>2, <1>4, PatchSum DEF FT, WT
<1>17. e[1] \in DOMAIN Reference
       /\ Reference[e[1]] = Direct(YoloParams(op), InChannels(op.c), n + 1,
                                   (m0 + row) \div OutW(op), (m0 + row) % OutW(op))
  <2> DEFINE c == <<n + 1, m0 + row>>
             s == m0 + row
             W == OutW(op)
  <2>1. Reference = [d \in (1..op.n) \X (0..OutH(op) * W - 1) |->
                       Direct(YoloParams(op), InChannels(op.c), d[1], d[2] \div W, d[2] % W)]
    BY <1>1, YoloReference
  <2>2. n + 1 \in 1 .. op.n /\ s \in 0 .. PixelsOf(op) - 1
    BY <1>1, <1>2, <1>5
  <2> HIDE DEF s, W
  <2>3. e[1] = c /\ c[1] = n + 1 /\ c[2] = s
    BY <1>5 DEF s
  <2>4. c \in (1..op.n) \X (0..OutH(op) * W - 1)
    BY <1>1, <2>2 DEF s, W
  <2> HIDE DEF c
  <2>5. e[1] \in DOMAIN Reference
        /\ Reference[e[1]] = Direct(YoloParams(op), InChannels(op.c), c[1], c[2] \div W, c[2] % W)
    BY <2>1, <2>3, <2>4
  <2>6. QED BY <2>3, <2>5 DEF s, W
<1>18. Accumulator(t, FI, WI, n, oy, 0) = Reference[e[1]]
  BY <1>15, <1>16, <1>17
<1>19. n \in 0 .. t.kernels - 1 /\ oy \in 0 .. t.out_h - 1 /\ 0 \in 0 .. t.out_w - 1
  <2>1. t.kernels = N /\ t.out_h = rows /\ t.out_w = 1
    BY <1>11 DEF TileFields
  <2>2. QED BY <1>12, <2>1
<1>20. e[2] = OutWord(t, n, oy, 0)
  <2> DEFINE W == 1
             z == 0
  <2>1. t.dst_base = from * Atom /\ t.dst_surf_stride = m /\ t.out_w = W
    BY <1>11 DEF TileFields
  <2>2. t.dst_base \div OutElem = from * OutC2
    <3>1. N % Group = 0 /\ N \in Nat
      BY <1>3, <1>4, TileableFacts
    <3>2. SurfaceTask(t, N \div OutC2, m, from)
      BY <1>2, <1>11, <1>12, <3>1, TileSurface
    <3>3. QED BY <3>2 DEF SurfaceTask
  <2>3. W \in Nat /\ z \in Nat /\ oy \in Nat /\ oy * W + z = oy /\ row = from + (oy * W + z)
    BY <1>12
  <2> HIDE DEF W, z
  <2>4. OutWord(t, n, oy, z) = Place(OutC2, m, n, row)
    BY <1>2, <1>11, <1>12, <2>1, <2>2, <2>3, WordPlace
  <2>5. e[2] = Place(OutC2, m, n, row)
    BY <1>2, <1>5, <1>12, BaseWord
  <2>6. QED BY <2>4, <2>5 DEF z
<1>21. QED BY <1>11, <1>17, <1>18, <1>19, <1>20, ByTask DEF t

-----------------------------------------------------------------------------
(* All that is read back, and nothing else, is what the operator defines. *)

LEMMA SumsAreExact ==
  ASSUME AtOperator, Accepted(Generator), m0 % RowAlign = 0, NEW e \in ReadBackWords
  PROVE  ReadsExact(e)
<1>1. WellFormed(op) /\ AlignedHeight(op)
  BY OperatorIsWellFormed
<1>2. SingleKinds(op) \/ op.kind = "yolo"
  BY <1>1 DEF WellFormed, SingleKinds, Singles
<1>3. CASE op.kind = "yolo"
  BY <1>3, YoloReads
<1>4. CASE SingleKinds(op)
  <2>1. /\ ~NotLowered(op) /\ FitsTheEngine(Lowering(op))
        /\ Generator.tasks = <<ConvTask(Lowering(op))>>
    BY <1>4, GeneratedTasks
  <2>2. CASE op.kind = "llm"
    BY <1>1, <2>1, <2>2, LlmReads
  <2>3. CASE op.kind = "transpose"
    BY <1>1, <2>1, <2>3, TransposeReads
  <2>4. CASE op.kind \in ConvKinds
    <3>1. Lowering(op) = Lowered(op)
      BY <2>4 DEF Lowering, ConvKinds
    <3>2. QED BY <1>1, <2>1, <2>4, <3>1, ConvKindReads
  <2>5. QED BY <1>4, <2>2, <2>3, <2>4 DEF SingleKinds, Singles, ConvKinds
<1>5. QED BY <1>2, <1>3, <1>4

ReadBackCells == {e[1] : e \in ReadBackWords}

\* The outputs of the blocks before this one.
DoneRows == {c \in DOMAIN Reference : c[2] \in 0 .. m0 - 1}

LEMMA ReferenceIsFunction ==
  ASSUME AtOperator
  PROVE  Reference = [c \in DOMAIN Reference |-> Reference[c]]
<1>1. WellFormed(op)
  BY OperatorIsWellFormed
<1>2. CASE op.kind = "yolo"
  BY <1>1, <1>2, YoloSizes, YoloReference
<1>3. CASE op.kind = "llm"
  BY <1>3 DEF Reference
<1>4. CASE op.kind = "transpose"
  BY <1>4 DEF Reference
<1>5. CASE op.kind \in ConvKinds
  BY <1>5, ConvKindReference
<1>6. QED BY <1>1, <1>2, <1>3, <1>4, <1>5 DEF WellFormed, ConvKinds

LEMMA ConvKindCells ==
  ASSUME WellFormed(op), AlignedHeight(op), op.kind \in ConvKinds, ~NotLowered(op),
         FitsTheEngine(Lowered(op)), NEW c \in DOMAIN Reference
  PROVE  c \in ReadBackCells
<1> DEFINE q == Lowered(op)
           OH == ConvOutH(q)
           OW == ConvOutW(q)
           H == DeconvH(op)
           W == DeconvW(op)
           oc == c[1]
           x == c[2]
           oh == x \div W
           ow == x % W
           e == <<<<oc, oh * W + ow>>, feature_data(OH, OW, OutC2, oc, oh + 1, ow + 1)>>
<1>1. H \in Nat \ {0} /\ W \in Nat \ {0} /\ op.p.out_c = q.out_c
  BY ReadBackFits, ConvKindShapes
<1>2. DOMAIN Reference = (1..op.p.out_c) \X (0..H * W - 1)
  BY ConvKindReference
<1>3. oc \in 1 .. q.out_c /\ x \in 0 .. H * W - 1 /\ c = <<oc, x>>
  BY <1>1, <1>2
<1>4. oh \in 0 .. H - 1 /\ ow \in 0 .. W - 1 /\ x = oh * W + ow
  <2> HIDE DEF H, W, x
  <2>1. x \in Nat /\ x < H * W
    BY <1>1, <1>3
  <2>2. QED BY <1>1, <2>1, DigitBelow, DivMod
<1>5. ReadBackWords = {<<<<u, v * W + w>>, feature_data(OH, OW, OutC2, u, v + 1, w + 1)>> :
                         u \in 1 .. q.out_c, v \in 0 .. H - 1, w \in 0 .. W - 1}
  BY DEF ReadBackWords, ConvKinds, DeconvH, DeconvW
<1> HIDE DEF q, OH, OW, H, W, oc, x, oh, ow
<1>6. e \in ReadBackWords
  BY <1>3, <1>4, <1>5
<1>7. e[1] = c
  BY <1>3, <1>4
<1>8. QED BY <1>6, <1>7 DEF ReadBackCells

LEMMA CellsReadBack ==
  ASSUME AtOperator, Accepted(Generator), m0 % RowAlign = 0
  PROVE  /\ ReadBackCells \subseteq DOMAIN Reference
         /\ op.kind # "yolo" => ReadBackCells = DOMAIN Reference
         /\ op.kind = "yolo" =>
              ReadBackCells = {c \in DOMAIN Reference : c[2] \in m0 .. m0 + Rows(op) - 1}
<1>1. ReadBackCells \subseteq DOMAIN Reference
  BY SumsAreExact DEF ReadBackCells, ReadsExact
<1>2. WellFormed(op) /\ AlignedHeight(op)
  BY OperatorIsWellFormed
<1>3. CASE op.kind = "yolo"
  <2>1. /\ {op.h, op.w, op.k, op.stride} \subseteq Nat \ {0} /\ op.pad \in Nat /\ op.n \in Nat \ {0}
        /\ PixelsOf(op) = OutH(op) * OutW(op) /\ PixelsOf(op) \in Nat
    BY <1>2, <1>3, YoloSizes
  <2>2. DOMAIN Reference = (1..op.n) \X (0..PixelsOf(op) - 1)
    BY <1>3, <2>1, YoloReference
  <2>3. m0 \in Nat /\ Rows(op) \in Nat
    BY <1>3, RowsOfBlock DEF AtOperator
  <2>4. ReadBackWords = {<<<<n + 1, m0 + row>>, nbase(n, Rows(op)) + row * OutC2>> :
                           n \in 0..op.n - 1, row \in 0..Rows(op) - 1}
    BY <1>3 DEF ReadBackWords
  <2>5. ASSUME NEW c \in ReadBackCells PROVE c[2] \in m0 .. m0 + Rows(op) - 1
    <3>1. PICK n \in 0..op.n - 1, row \in 0..Rows(op) - 1 : c = <<n + 1, m0 + row>>
      BY <2>4 DEF ReadBackCells
    <3>2. QED BY <2>3, <3>1
  <2>6. ASSUME NEW c \in DOMAIN Reference, c[2] \in m0 .. m0 + Rows(op) - 1
        PROVE  c \in ReadBackCells
    <3> DEFINE n == c[1] - 1
               row == c[2] - m0
               e == <<<<n + 1, m0 + row>>, nbase(n, Rows(op)) + row * OutC2>>
    <3>1. c[1] \in 1 .. op.n /\ c = <<c[1], c[2]>>
      BY <2>2
    <3>2. n \in 0 .. op.n - 1 /\ row \in 0 .. Rows(op) - 1 /\ n + 1 = c[1] /\ m0 + row = c[2]
      BY <2>1, <2>3, <2>6, <3>1
    <3> HIDE DEF n, row
    <3>3. e \in ReadBackWords
      BY <2>4, <3>2
    <3>4. e[1] = c
      BY <3>1, <3>2
    <3>5. QED BY <3>3, <3>4 DEF ReadBackCells
  <2>7. QED BY <1>1, <1>3, <2>5, <2>6
<1>4. CASE op.kind # "yolo"
  <2>1. SingleKinds(op)
    BY <1>2, <1>4 DEF WellFormed, SingleKinds, Singles
  <2>2. ~NotLowered(op) /\ FitsTheEngine(Lowering(op))
    BY <2>1, GeneratedTasks
  <2>3. ASSUME NEW c \in DOMAIN Reference PROVE c \in ReadBackCells
    <3>1. CASE op.kind = "llm"
      <4> DEFINE e == <<<<c[1], 0>>, feature_data(1, 1, OutC2, c[1], 1, 1)>>
      <4>1. c \in (1..op.n) \X {0}
        BY <3>1 DEF Reference
      <4>2. e \in ReadBackWords /\ e[1] = c
        BY <3>1, <4>1 DEF ReadBackWords
      <4>3. QED BY <4>2 DEF ReadBackCells
    <3>2. CASE op.kind = "transpose"
      <4> DEFINE K == RoundUp(op.cols, Group)
                 a == c[2] + 1
                 e == <<<<c[1], a - 1>>, feature_data(K, 1, OutC2, c[1], a, 1)>>
      <4>1. c \in (1..op.rows) \X (0..op.cols - 1)
        BY <3>2 DEF Reference
      <4>2. op.cols \in Nat
        BY <1>2, <3>2 DEF WellFormed
      <4>3. a \in 1 .. op.cols /\ a - 1 = c[2] /\ c[1] \in 1 .. op.rows /\ c = <<c[1], c[2]>>
        BY <4>1, <4>2
      <4>4. ReadBackWords = {<<<<b, y - 1>>, feature_data(K, 1, OutC2, b, y, 1)>> :
                               b \in 1..op.rows, y \in 1..op.cols}
        BY <3>2 DEF ReadBackWords
      <4> HIDE DEF a, K
      <4>5. e \in ReadBackWords /\ e[1] = c
        BY <4>3, <4>4
      <4>6. QED BY <4>5 DEF ReadBackCells
    <3>3. CASE op.kind \in ConvKinds
      <4>1. Lowering(op) = Lowered(op)
        BY <3>3 DEF Lowering, ConvKinds
      <4>2. QED BY <1>2, <2>2, <3>3, <4>1, ConvKindCells
    <3>4. QED BY <2>1, <3>1, <3>2, <3>3 DEF SingleKinds, Singles, ConvKinds
  <2>4. QED BY <1>1, <1>4, <2>3
<1>5. QED BY <1>3, <1>4

-----------------------------------------------------------------------------
(* What the buffers hold while an operator runs. *)

(* The engine finds in the buffer what was laid out, and reads nothing else. *)
FeaturesHeld == \A a \in 0 .. FeatSize - 1 : a \in DOMAIN feat /\ feat[a] = FI[a]

LEMMA SumsOfTheBuffer ==
  ASSUME AtOperator, Accepted(Generator), NEW i \in DOMAIN Generator.tasks,
         NEW t, t = Generator.tasks[i], FeaturesHeld,
         NEW n, NEW oy \in 0 .. t.out_h - 1, NEW ox \in 0 .. t.out_w - 1
  PROVE  Accumulator(t, feat, WI, n, oy, ox) = Accumulator(t, FI, WI, n, oy, ox)
<1>1. ReadsInside(t, FeatSize, WeightSize)
  BY GeneratedReads
<1>2. ASSUME NEW x \in Terms(t, oy, ox)
      PROVE  Load(feat, FeatureOf(t, oy, ox, x)) = Load(FI, FeatureOf(t, oy, ox, x))
  <2> DEFINE a == FeatureOf(t, oy, ox, x)
  <2>1. a \in 0 .. FeatSize - 1
    BY <1>1 DEF ReadsInside
  <2> HIDE DEF a
  <2>2. a \in DOMAIN FI
    BY <2>1 DEF FI, Image
  <2>3. QED BY <2>1, <2>2 DEF FeaturesHeld, Load, a
<1> DEFINE A(x) == Load(feat, FeatureOf(t, oy, ox, x)) \X Load(WI, WeightByte(t, n, x[1], x[2]))
           B(x) == Load(FI, FeatureOf(t, oy, ox, x)) \X Load(WI, WeightByte(t, n, x[1], x[2]))
<1>3. \A x \in Terms(t, oy, ox) : A(x) = B(x)
  BY <1>2
<1>4. /\ Accumulator(t, feat, WI, n, oy, ox) = UNION {A(x) : x \in Terms(t, oy, ox)}
      /\ Accumulator(t, FI, WI, n, oy, ox) = UNION {B(x) : x \in Terms(t, oy, ox)}
  BY DEF Accumulator
<1> HIDE DEF A, B
<1>5. {A(x) : x \in Terms(t, oy, ox)} = {B(x) : x \in Terms(t, oy, ox)}
  BY <1>3
<1>6. QED BY <1>4, <1>5

(* Every task writes a surface, a word for a cell. *)
OnASurface(t) == \E D, P, from : SurfaceTask(t, D, P, from)

LEMMA GeneratedSurfaces ==
  ASSUME AtOperator, Accepted(Generator), NEW i \in DOMAIN Generator.tasks
  PROVE  OnASurface(Generator.tasks[i])
<1> DEFINE t == Generator.tasks[i]
<1>1. WellFormed(op)
  BY OperatorIsWellFormed
<1>2. CASE op.kind = "yolo"
  <2>1. PICK M : /\ Tileable(Rows(op), PaddedK(op), PaddedN(op), M)
                 /\ Tiled(Generator.tasks, Rows(op), PaddedK(op), PaddedN(op), M)
    BY <1>2, GeneratedTasks
  <2> DEFINE m == Rows(op)
             k == PaddedK(op)
             n == PaddedN(op)
             from == (i - 1) * M
             rows == TileRows(m, M, i)
  <2>2. m \in Nat \ {0}
    BY <1>2, RowsOfBlock
  <2> HIDE DEF m, k, n
  <2>3. rows \in 1 .. M /\ from \in Nat /\ from + rows <= m /\ TileFields(t, m, k, n, from, rows)
    BY <2>1, TaskOfTiling DEF m, k, n
  <2>4. n \in Nat /\ n % Group = 0 /\ M \in Nat
    BY <2>1, TileableFacts, HardwareSizes DEF m, k, n
  <2> HIDE DEF from, rows, t
  <2>5. rows \in Nat
    BY <2>3, <2>4
  <2>6. SurfaceTask(t, n \div OutC2, m, from)
    BY <2>2, <2>3, <2>4, <2>5, TileSurface
  <2>7. QED BY <2>6 DEF OnASurface, t
<1>3. CASE op.kind # "yolo"
  <2>1. SingleKinds(op)
    BY <1>1, <1>3 DEF WellFormed, SingleKinds, Singles
  <2>2. FitsTheEngine(Lowering(op)) /\ t = ConvTask(Lowering(op))
    BY <2>1, GeneratedTasks
  <2> DEFINE q == Lowering(op)
  <2> HIDE DEF q, t
  <2>3. SurfaceTask(t, q.out_c \div OutC2, ConvOutH(q) * ConvOutW(q), 0)
    BY <2>2, ConvSurface DEF q
  <2>4. QED BY <2>3 DEF OnASurface, t
<1>4. QED BY <1>2, <1>3

LEMMA OneCellPerWord ==
  ASSUME NEW t, OnASurface(t), NEW c \in Cells(t), NEW d \in Cells(t),
         OutWord(t, c[1], c[2], c[3]) = OutWord(t, d[1], d[2], d[3])
  PROVE  c = d
<1>1. PICK D, P, from : SurfaceTask(t, D, P, from)
  BY DEF OnASurface
<1>2. /\ c = <<c[1], c[2], c[3]>> /\ d = <<d[1], d[2], d[3]>>
      /\ c[1] \in 0 .. t.kernels - 1 /\ c[2] \in 0 .. t.out_h - 1 /\ c[3] \in 0 .. t.out_w - 1
      /\ d[1] \in 0 .. t.kernels - 1 /\ d[2] \in 0 .. t.out_h - 1 /\ d[3] \in 0 .. t.out_w - 1
  BY DEF Cells
<1> DEFINE w == OutWord(t, c[1], c[2], c[3])
           s == (w \div OutC2) % P
<1>3. /\ c[1] = ((w \div OutC2) \div P) * OutC2 + (w % OutC2)
      /\ c[2] = (s - from) \div t.out_w /\ c[3] = (s - from) % t.out_w
  BY <1>1, <1>2, WordOfCell
<1>4. /\ d[1] = ((w \div OutC2) \div P) * OutC2 + (w % OutC2)
      /\ d[2] = (s - from) \div t.out_w /\ d[3] = (s - from) % t.out_w
  BY <1>1, <1>2, WordOfCell
<1>5. QED BY <1>2, <1>3, <1>4, Zenon

LEMMA WrittenWord ==
  ASSUME NEW t, OnASurface(t), NEW f, NEW w, NEW c \in Cells(t)
  PROVE  /\ OutWord(t, c[1], c[2], c[3]) \in DOMAIN Written(t, f, w)
         /\ Written(t, f, w)[OutWord(t, c[1], c[2], c[3])]
              = Accumulator(t, f, w, c[1], c[2], c[3])
<1> DEFINE a == OutWord(t, c[1], c[2], c[3])
           A(d) == Accumulator(t, f, w, d[1], d[2], d[3])
           D == {d \in Cells(t) : OutWord(t, d[1], d[2], d[3]) = a}
<1>1. a \in DOMAIN Written(t, f, w) /\ Written(t, f, w)[a] = UNION {A(d) : d \in D}
  BY DEF Written
<1>2. D = {c}
  BY OneCellPerWord
<1> HIDE DEF D, A
<1>3. {A(d) : d \in D} = {A(c)}
  BY <1>2
<1>4. UNION {A(c)} = A(c)
  OBVIOUS
<1>5. QED BY <1>1, <1>3, <1>4 DEF A

(* The words of the tasks that are over hold their sums. *)
WordHeld(t, c) ==
  /\ OutWord(t, c[1], c[2], c[3]) \in DOMAIN out
  /\ out[OutWord(t, c[1], c[2], c[3])] = Accumulator(t, FI, WI, c[1], c[2], c[3])
WordsHeld == \A i \in DOMAIN tasks : i < tile => \A c \in Cells(tasks[i]) : WordHeld(tasks[i], c)

(* The blocks that are over hold their outputs. *)
RowsHeld == DOMAIN result = DoneRows /\ \A c \in DoneRows : result[c] = Reference[c]

SumsHeld ==
  phase # "off" =>
    /\ m0 % RowAlign = 0
    /\ phase \in {"gen", "submit"} => FeaturesHeld
    /\ phase = "submit" => WordsHeld
    /\ phase \in {"layout", "gen", "submit"} => RowsHeld
    /\ ResultExact

LEMMA SameSums ==
  ASSUME UNCHANGED <<prog, at, m0>>
  PROVE  UNCHANGED <<FI, WI, FeatSize, Reference, DoneRows>>
<1>1. op' = op /\ at' = at /\ m0' = m0
  BY DEF op
<1>2. Rows(op)' = Rows(op)
  BY <1>1 DEF Rows
<1>3. FeatSize' = FeatSize
  BY <1>1, <1>2 DEF FeatSize, YoloFeatSize
<1>4. WeightSize' = WeightSize
  BY <1>1 DEF WeightSize
<1>5. Features' = Features
  BY <1>1, <1>2 DEF Features, YoloFeatures, LlmFeatures, TransposeFeatures, ConvFeatures
<1>6. Weights' = Weights
  BY <1>1 DEF Weights, YoloWeights, LlmWeights, TransposeWeights, ConvWeights
<1>7. FI' = FI /\ WI' = WI
  BY <1>3, <1>4, <1>5, <1>6 DEF FI, WI
<1>8. Reference' = Reference
  BY <1>1 DEF Reference, Convolution, Direct, Scattered
<1>9. DoneRows' = DoneRows
  BY <1>1, <1>8 DEF DoneRows
<1>10. QED BY <1>3, <1>7, <1>8, <1>9

(* A task adds its words and disturbs none of an earlier one. *)
LEMMA SubmitSums ==
  ASSUME NpuInv, phase = "submit", FeaturesHeld, WordsHeld, SubmitTile
  PROVE  WordsHeld'
<1>1. /\ tile <= Len(tasks) /\ tile' = tile + 1
      /\ out' = Overlay(Written(tasks[tile], feat, Image(WeightSize, Weights)), out)
      /\ UNCHANGED <<prog, at, m0, phase, feat, tasks, result>>
  BY DEF SubmitTile
<1>2. AtOperator /\ Accepted(Generator) /\ tasks = Generator.tasks /\ tile \in 1 .. Len(tasks) + 1
  BY DEF NpuInv, TasksAreGenerated
<1>3. DOMAIN tasks = 1 .. Len(tasks) /\ Len(tasks) \in Nat
  BY <1>2, GeneratedTasks
<1>4. tile \in DOMAIN tasks
  BY <1>1, <1>2, <1>3
<1> DEFINE t == tasks[tile]
           new == Written(t, feat, WI)
<1>5. out' = Overlay(new, out) /\ OnASurface(t)
  BY <1>1, <1>2, <1>4, GeneratedSurfaces DEF WI
<1>6. FI' = FI /\ WI' = WI
  BY <1>1, SameSums
<1>7. \A i, j \in DOMAIN tasks : i # j => WordsOf(tasks[i]) \cap WordsOf(tasks[j]) = {}
  BY TasksWriteOnce DEF WritesOnce
<1>8. DOMAIN new = WordsOf(t)
  BY DEF Written, WordsOf
<1> HIDE DEF new
<1>9. ASSUME NEW i \in DOMAIN tasks, i < tile', NEW c \in Cells(tasks[i])
      PROVE  /\ OutWord(tasks[i], c[1], c[2], c[3]) \in DOMAIN out'
             /\ out'[OutWord(tasks[i], c[1], c[2], c[3])]
                  = Accumulator(tasks[i], FI, WI, c[1], c[2], c[3])
  <2> DEFINE a == OutWord(tasks[i], c[1], c[2], c[3])
  <2>1. i < tile \/ i = tile
    BY <1>1, <1>2, <1>3, <1>9
  <2>2. CASE i = tile
    <3>1. a \in DOMAIN new /\ new[a] = Accumulator(t, feat, WI, c[1], c[2], c[3])
      BY <1>5, <1>9, <2>2, WrittenWord DEF new
    <3>2. c[2] \in 0 .. t.out_h - 1 /\ c[3] \in 0 .. t.out_w - 1
      BY <1>9, <2>2 DEF Cells
    <3>3. Accumulator(t, feat, WI, c[1], c[2], c[3]) = Accumulator(t, FI, WI, c[1], c[2], c[3])
      <4> DEFINE n == c[1]
      <4> HIDE DEF n
      <4>1. Accumulator(t, feat, WI, n, c[2], c[3]) = Accumulator(t, FI, WI, n, c[2], c[3])
        BY <1>2, <1>4, <3>2, SumsOfTheBuffer
      <4>2. QED BY <4>1 DEF n
    <3> HIDE DEF a, t
    <3>4. a \in DOMAIN out' /\ out'[a] = new[a]
      BY <1>5, <3>1 DEF Overlay
    <3>5. QED BY <2>2, <3>1, <3>3, <3>4 DEF a, t
  <2>3. CASE i < tile
    <3>1. a \in DOMAIN out /\ out[a] = Accumulator(tasks[i], FI, WI, c[1], c[2], c[3])
      BY <1>9, <2>3 DEF WordsHeld, WordHeld
    <3>2. a \in WordsOf(tasks[i])
      BY <1>9 DEF WordsOf
    <3>3. i # tile
      BY <1>2, <1>3, <2>3
    <3>4. a \notin DOMAIN new
      BY <1>4, <1>7, <1>8, <1>9, <3>2, <3>3
    <3> HIDE DEF a, t
    <3>5. a \in DOMAIN out' /\ out'[a] = out[a]
      BY <1>5, <3>1, <3>4 DEF Overlay
    <3>6. QED BY <3>1, <3>5 DEF a
  <2>4. QED BY <2>1, <2>2, <2>3
<1>10. QED BY <1>1, <1>6, <1>9 DEF WordsHeld, WordHeld

(* What is collected is what the operator defines. *)
LEMMA CollectedSums ==
  ASSUME AtOperator, Accepted(Generator), m0 % RowAlign = 0, tasks = Generator.tasks,
         WordsHeld, \A i \in DOMAIN tasks : i < tile
  PROVE  /\ DOMAIN Collected = ReadBackCells
         /\ \A c \in ReadBackCells : Collected[c] = Reference[c]
<1>1. DOMAIN Collected = ReadBackCells
  BY DEF Collected, ReadBackCells
<1>2. ASSUME NEW c \in ReadBackCells PROVE Collected[c] = Reference[c]
  <2> DEFINE e == CHOOSE x \in ReadBackWords : x[1] = c
  <2>1. \E x \in ReadBackWords : x[1] = c
    BY DEF ReadBackCells
  <2>2. e \in ReadBackWords /\ e[1] = c
    BY <2>1
  <2>3. Collected[c] = Load(out, e[2])
    BY DEF Collected, ReadBackCells
  <2> HIDE DEF e
  <2>4. ReadsExact(e)
    BY <2>2, SumsAreExact
  <2>5. PICK i \in DOMAIN tasks : \E d \in Cells(tasks[i]) :
          /\ e[2] = OutWord(tasks[i], d[1], d[2], d[3])
          /\ Accumulator(tasks[i], FI, WI, d[1], d[2], d[3]) = Reference[e[1]]
    BY <2>4 DEF ReadsExact
  <2>6. PICK d \in Cells(tasks[i]) :
          /\ e[2] = OutWord(tasks[i], d[1], d[2], d[3])
          /\ Accumulator(tasks[i], FI, WI, d[1], d[2], d[3]) = Reference[e[1]]
    BY <2>5
  <2>7. WordHeld(tasks[i], d)
    BY DEF WordsHeld
  <2>8. e[2] \in DOMAIN out /\ out[e[2]] = Reference[c]
    BY <2>2, <2>6, <2>7 DEF WordHeld
  <2>9. QED BY <2>3, <2>8 DEF Load
<1>3. QED BY <1>1, <1>2

LEMMA WholeSum ==
  ASSUME NEW r \in Nat \ {0}, NEW a \in Nat, NEW b \in Nat, a % r = 0, b % r = 0
  PROVE  (a + b) % r = 0
<1> DEFINE x == a \div r
           y == b \div r
           d == x + y
<1>1. x \in Nat /\ y \in Nat /\ a = x * r /\ b = y * r
  OBVIOUS
<1> HIDE DEF x, y
<1>2. d \in Nat
  BY <1>1
<1>3. a + b = d * r
  BY <1>1
<1> HIDE DEF d
<1>4. (d * r) % r = 0
  BY <1>2, Multiple
<1>5. QED BY <1>3, <1>4

LEMMA ReadBackSums ==
  ASSUME NpuInv, SumsHeld, phase # "off", ReadBack
  PROVE  SumsHeld'
<1>1. /\ phase = "submit" /\ tile > Len(tasks)
      /\ result' = Overlay(Collected, result)
      /\ \/ LastBlock /\ phase' = "done" /\ m0' = m0
         \/ ~LastBlock /\ phase' = "layout" /\ m0' = m0 + Block
      /\ UNCHANGED <<prog, at>>
  BY DEF ReadBack
<1>2. AtOperator /\ Accepted(Generator) /\ tasks = Generator.tasks /\ tile \in 1 .. Len(tasks) + 1
  BY <1>1 DEF NpuInv, TasksAreGenerated
<1>3. m0 % RowAlign = 0 /\ WordsHeld /\ RowsHeld
  BY <1>1 DEF SumsHeld
<1>4. DOMAIN tasks = 1 .. Len(tasks) /\ Len(tasks) \in Nat
  BY <1>2, GeneratedTasks
<1>5. \A i \in DOMAIN tasks : i < tile
  BY <1>1, <1>2, <1>4
<1>6. DOMAIN Collected = ReadBackCells /\ \A c \in ReadBackCells : Collected[c] = Reference[c]
  BY <1>2, <1>3, <1>5, CollectedSums
<1> DEFINE D == ReadBackCells \cup DoneRows
<1>7. result' = [c \in D |-> Reference[c]]
  <2>1. DOMAIN result = DoneRows /\ \A c \in DoneRows : result[c] = Reference[c]
    BY <1>3 DEF RowsHeld
  <2>2. result' = [c \in ReadBackCells \cup DoneRows |->
                     IF c \in ReadBackCells THEN Collected[c] ELSE result[c]]
    BY <1>1, <1>6, <2>1 DEF Overlay
  <2>3. \A c \in D : (IF c \in ReadBackCells THEN Collected[c] ELSE result[c]) = Reference[c]
    BY <1>6, <2>1
  <2>4. QED BY <2>2, <2>3
<1>8. op' = op /\ at' = at /\ Reference' = Reference
  <2>1. op' = op /\ at' = at
    BY <1>1 DEF op
  <2>2. QED BY <2>1 DEF Reference, Convolution, Direct, Scattered
<1>9. /\ ReadBackCells \subseteq DOMAIN Reference
      /\ op.kind # "yolo" => ReadBackCells = DOMAIN Reference
      /\ op.kind = "yolo" =>
           ReadBackCells = {c \in DOMAIN Reference : c[2] \in m0 .. m0 + Rows(op) - 1}
  BY <1>2, <1>3, CellsReadBack
<1>10. m0 \in Nat /\ PixelsOf(op) \in Nat \ {0} /\ m0 < PixelsOf(op) /\ WellFormed(op)
       /\ Block \in Nat \ {0}
  BY <1>2, OperatorIsWellFormed, WholePixels, BlocksArePositive DEF AtOperator
<1>11. DoneRows \subseteq DOMAIN Reference /\ (op.kind # "yolo" => DoneRows = {})
  <2>1. op.kind # "yolo" => 0 .. m0 - 1 = {}
    <3>1. op.kind # "yolo" => PixelsOf(op) = 1
      BY DEF PixelsOf
    <3>2. QED BY <1>10, <3>1
  <2>2. QED BY <2>1 DEF DoneRows
<1>12. op.kind = "yolo" => \A c \in DOMAIN Reference : c[2] \in 0 .. PixelsOf(op) - 1
  <2> SUFFICES ASSUME op.kind = "yolo", NEW c \in DOMAIN Reference
               PROVE  c[2] \in 0 .. PixelsOf(op) - 1
    OBVIOUS
  <2>1. /\ {op.h, op.w, op.k, op.stride} \subseteq Nat \ {0} /\ op.pad \in Nat
        /\ PixelsOf(op) = OutH(op) * OutW(op)
    BY <1>10, YoloSizes
  <2>2. DOMAIN Reference = (1..op.n) \X (0..PixelsOf(op) - 1)
    BY <2>1, YoloReference
  <2>3. QED BY <2>2
<1>13. Rows(op) = IF Block < PixelsOf(op) - m0 THEN Block ELSE PixelsOf(op) - m0
  BY DEF Rows, Least
<1>14. CASE LastBlock
  <2>1. phase' = "done" /\ m0' = m0 /\ m0 + Block >= PixelsOf(op)
    BY <1>1, <1>14 DEF LastBlock
  <2>2. ASSUME op.kind = "yolo" PROVE D = DOMAIN Reference
    <3>1. m0 + Rows(op) = PixelsOf(op)
      BY <1>10, <1>13, <2>1
    <3>2. ASSUME NEW c \in DOMAIN Reference PROVE c \in D
      <4>1. c[2] \in 0 .. PixelsOf(op) - 1
        BY <1>12, <2>2
      <4>2. c[2] < m0 \/ c[2] \in m0 .. PixelsOf(op) - 1
        BY <1>10, <4>1
      <4>3. CASE c[2] < m0
        <5>1. c[2] \in 0 .. m0 - 1
          BY <1>10, <4>1, <4>3
        <5>2. QED BY <5>1 DEF DoneRows
      <4>4. CASE c[2] \in m0 .. PixelsOf(op) - 1
        <5>1. m0 + (Rows(op) - 1) = PixelsOf(op) - 1
          BY <1>10, <1>13, <3>1
        <5> DEFINE hi == m0 + (Rows(op) - 1)
        <5>2. ReadBackCells = {x \in DOMAIN Reference : x[2] \in m0 .. hi}
          BY <1>9, <2>2
        <5>3. c[2] \in m0 .. hi
          BY <4>4, <5>1
        <5> HIDE DEF hi
        <5>4. c \in ReadBackCells
          BY <5>2, <5>3
        <5>5. QED BY <5>4
      <4>5. QED BY <4>2, <4>3, <4>4
    <3>3. QED BY <1>9, <1>11, <3>2
  <2>3. D = DOMAIN Reference
    BY <1>9, <1>11, <2>2
  <2> HIDE DEF D
  <2>4. result' = Reference'
    BY <1>2, <1>7, <1>8, <2>3, ReferenceIsFunction
  <2>5. QED BY <1>3, <2>1, <2>4 DEF SumsHeld, ResultExact
<1>15. CASE ~LastBlock
  <2>1. phase' = "layout" /\ m0' = m0 + Block /\ ~(m0 + Block >= PixelsOf(op))
    BY <1>1, <1>15 DEF LastBlock
  <2>2. op.kind = "yolo"
    <3>1. PixelsOf(op) # 1
      BY <1>10, <2>1
    <3>2. QED BY <3>1 DEF PixelsOf
  <2>3. Rows(op) = Block
    BY <1>10, <1>13, <2>1
  <2>4. D = {c \in DOMAIN Reference : c[2] \in 0 .. m0 + Block - 1}
    <3>1. ASSUME NEW c \in DOMAIN Reference
          PROVE  c \in D <=> c[2] \in 0 .. m0 + Block - 1
      <4>1. c[2] \in Int
        BY <1>12, <2>2
      <4>2. c \in ReadBackCells <=> c[2] \in m0 .. m0 + Block - 1
        BY <1>9, <2>2, <2>3
      <4>3. c \in DoneRows <=> c[2] \in 0 .. m0 - 1
        BY DEF DoneRows
      <4>4. QED BY <1>10, <4>1, <4>2, <4>3
    <3>2. D \subseteq DOMAIN Reference
      BY <1>9, <1>11
    <3> HIDE DEF D
    <3>3. QED BY <3>1, <3>2
  <2> HIDE DEF D
  <2>5. DoneRows' = D
    <3>1. DoneRows' = {c \in DOMAIN Reference' : c[2] \in 0 .. m0' - 1}
      BY DEF DoneRows
    <3>2. m0' - 1 = m0 + (Block - 1)
      BY <1>10, <2>1
    <3>3. QED BY <1>8, <2>4, <3>1, <3>2
  <2>6. RowsHeld'
    BY <1>7, <1>8, <2>5 DEF RowsHeld
  <2>7. m0' % RowAlign = 0
    <3>1. Block % RowAlign = 0 /\ RowAlign \in Nat \ {0} /\ Block \in Nat
      BY <1>10, BlocksAreAligned, HardwareSizes
    <3>2. (m0 + Block) % RowAlign = 0
      BY <1>3, <1>10, <3>1, WholeSum
    <3>3. QED BY <2>1, <3>2
  <2>8. QED BY <2>1, <2>6, <2>7 DEF SumsHeld, ResultExact
<1>16. QED BY <1>14, <1>15

LEMMA SumsHeldStep ==
  /\ WorkloadInit => SumsHeld
  /\ NpuInv /\ SumsHeld /\ [WorkloadNext]_workload_vars => SumsHeld'
<1>1. ASSUME WorkloadInit PROVE SumsHeld
  <2>1. CASE phase = "off"
    BY <2>1 DEF SumsHeld
  <2>2. CASE phase # "off"
    <3>1. Init
      BY <1>1, <2>2 DEF WorkloadInit, NpuConvOff
    <3>2. m0 = 0 /\ phase = "layout" /\ result = << >>
      BY <3>1 DEF Init
    <3>3. DoneRows = {}
      BY <3>2 DEF DoneRows
    <3>4. DOMAIN result = {}
      BY <3>2
    <3>5. 0 % RowAlign = 0
      BY HardwareSizes
    <3>6. RowsHeld
      BY <3>3, <3>4 DEF RowsHeld
    <3>7. QED BY <3>2, <3>5, <3>6 DEF SumsHeld, ResultExact
  <2>3. QED BY <2>1, <2>2
<1>2. ASSUME SumsHeld, UNCHANGED vars PROVE SumsHeld'
  <2>1. UNCHANGED <<prog, at, m0>> /\ UNCHANGED <<phase, feat, out, tasks, tile, result>>
    BY <1>2 DEF vars
  <2>2. UNCHANGED <<FI, WI, FeatSize, Reference, DoneRows>>
    BY <2>1, SameSums
  <2>3. QED BY <1>2, <2>1, <2>2 DEF SumsHeld, FeaturesHeld, WordsHeld, WordHeld, RowsHeld, ResultExact
<1>3. ASSUME NpuInv, SumsHeld, phase # "off", Next PROVE SumsHeld'
  <2>0. m0 % RowAlign = 0 /\ AtOperator
    BY <1>3 DEF SumsHeld, NpuInv
  <2>1. CASE LayOut
    <3>1. /\ phase = "layout" /\ phase' = "gen"
          /\ feat' = Overlay(Image(FeatSize, Features), feat)
          /\ UNCHANGED <<prog, at, m0>> /\ result' = result
      BY <2>1 DEF LayOut
    <3>2. UNCHANGED <<FI, WI, FeatSize, Reference, DoneRows>>
      BY <3>1, SameSums
    <3>3. RowsHeld'
      BY <1>3, <3>1, <3>2 DEF SumsHeld, RowsHeld
    <3>4. DOMAIN FI = 0 .. FeatSize - 1
      BY DEF FI, Image
    <3>5. feat' = Overlay(FI, feat)
      BY <3>1 DEF FI
    <3>6. \A a \in 0 .. FeatSize - 1 : a \in DOMAIN feat' /\ feat'[a] = FI[a]
      BY <3>4, <3>5 DEF Overlay
    <3>7. FeaturesHeld'
      BY <3>2, <3>6 DEF FeaturesHeld
    <3>8. QED BY <2>0, <3>1, <3>3, <3>7 DEF SumsHeld, ResultExact
  <2>2. CASE Generate
    <3>1. /\ phase = "gen" /\ phase' = "submit" /\ tasks' = Generator.tasks /\ tile' = 1
          /\ UNCHANGED <<prog, at, m0>> /\ UNCHANGED <<feat, result>> /\ Accepted(Generator)
      BY <2>2 DEF Generate
    <3>2. UNCHANGED <<FI, WI, FeatSize, Reference, DoneRows>>
      BY <3>1, SameSums
    <3>3. RowsHeld' /\ FeaturesHeld'
      BY <1>3, <3>1, <3>2 DEF SumsHeld, RowsHeld, FeaturesHeld
    <3>4. WordsHeld'
      <4>1. DOMAIN tasks' = 1 .. Len(Generator.tasks)
        BY <2>0, <3>1, GeneratedTasks
      <4>2. QED BY <3>1, <4>1 DEF WordsHeld
    <3>5. QED BY <2>0, <3>1, <3>3, <3>4 DEF SumsHeld, ResultExact
  <2>3. CASE GiveUp
    <3>1. phase' = "failed" /\ m0' = m0
      BY <2>3 DEF GiveUp
    <3>2. QED BY <2>0, <3>1 DEF SumsHeld, ResultExact
  <2>4. CASE SubmitTile
    <3>1. /\ phase = "submit" /\ UNCHANGED <<prog, at, m0>>
          /\ UNCHANGED <<phase, feat, tasks, result>>
      BY <2>4 DEF SubmitTile
    <3>2. UNCHANGED <<FI, WI, FeatSize, Reference, DoneRows>>
      BY <3>1, SameSums
    <3>3. FeaturesHeld /\ WordsHeld /\ RowsHeld
      BY <1>3, <3>1 DEF SumsHeld
    <3>4. WordsHeld'
      BY <1>3, <2>4, <3>1, <3>3, SubmitSums
    <3>5. RowsHeld' /\ FeaturesHeld'
      BY <3>1, <3>2, <3>3 DEF RowsHeld, FeaturesHeld
    <3>6. QED BY <2>0, <3>1, <3>4, <3>5 DEF SumsHeld, ResultExact
  <2>5. CASE ReadBack
    BY <1>3, <2>5, ReadBackSums
  <2>6. CASE NextOperator
    <3>1. m0' = 0 /\ phase' = "layout" /\ result' = << >>
      BY <2>6 DEF NextOperator
    <3>2. DoneRows' = {} /\ DOMAIN result' = {}
      BY <3>1 DEF DoneRows
    <3>3. 0 % RowAlign = 0
      BY HardwareSizes
    <3>4. QED BY <3>1, <3>2, <3>3 DEF SumsHeld, RowsHeld, ResultExact
  <2>7. CASE Rest
    BY <1>2, <1>3, <2>7 DEF Rest
  <2>8. QED BY <1>3, <2>1, <2>2, <2>3, <2>4, <2>5, <2>6, <2>7 DEF Next
<1>4. ASSUME NpuInv, SumsHeld, [WorkloadNext]_workload_vars PROVE SumsHeld'
  <2>1. UNCHANGED vars \/ (phase # "off" /\ Next)
    BY <1>4 DEF WorkloadNext, workload_vars, Halt
  <2>2. QED BY <1>2, <1>3, <1>4, <2>1
<1>5. QED BY <1>1, <1>4

(* Whichever operator runs, in whatever blocks and tiles, over whatever its *)
(* buffers held before: when it is done, every output is the sum that       *)
(* defines it, no term lost or taken from a padding lane, another tile or   *)
(* an operator before it, and no other output was stored (yolo_conv_npu,    *)
(* llm_npu_matmul, the generators of npulib and the layouts of the tests).  *)
THEOREM ResultsAreExact == WorkloadSpec => []ResultExact
<1>1. SumsHeld => ResultExact
  BY DEF SumsHeld, ResultExact
<1>2. WorkloadInit => NpuInv /\ SumsHeld
  BY NpuInvStep, SumsHeldStep
<1>3. NpuInv /\ SumsHeld /\ [WorkloadNext]_workload_vars => (NpuInv /\ SumsHeld)'
  BY NpuInvStep, SumsHeldStep
<1>4. QED BY <1>1, <1>2, <1>3, PTL DEF WorkloadSpec
=============================================================================
