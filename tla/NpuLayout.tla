----------------------------- MODULE NpuLayout -----------------------------
(* The memory layouts and the task generators of src/src/npulib: where an   *)
(* element of a feature cube or of a weight lies, and which registers each  *)
(* gen_* function programs.  Pure operators: NpuConv runs them.             *)
(*                                                                          *)
(* The INT8 generators are modelled (nothing calls the fp16 ones) with      *)
(* INT32 output; activation and output conversion do not change where       *)
(* anything is read or written, and are left out.  A cube is NC1HWC2.       *)
EXTENDS Integers, Sequences, FiniteSets

CONSTANTS
  Atom,       \* bytes of a cube entry: C2 of an int8 feature cube (16)
  OutElem,    \* bytes of an output element (4)
  Group,      \* kernels and channels of a weight tile (32)
  RowAlign,   \* the 4 of line_stride, surf_stride and max_m
  Bank,       \* NPU_CBUF_BANK_SIZE (32768)
  Banks,      \* NPU_CBUF_BANKS (12)
  TileCap,    \* most rows of a tile (512)
  GrainBits   \* width of the feature_grains field (10)

ASSUME SizesArePositive ==
  {Atom, OutElem, Group, RowAlign, Bank, TileCap, GrainBits} \subseteq Nat \ {0}
ASSUME SizesDivide ==
  Atom % OutElem = 0 /\ Group % Atom = 0 /\ TileCap % RowAlign = 0
ASSUME BanksAreShared == Banks \in Nat /\ Banks > 1
ASSUME TileFitsGrains == TileCap + 1 < 2^GrainBits /\ TileCap < 2^11 /\ RowAlign < 2^17
ASSUME BanksFitTheirFields ==   \* 12 banks of 32 KiB, groups of 32
  Banks <= Group /\ Banks < 2^4 /\ Bank < 2^16 /\ Banks * Bank < 2^14 * Group

CeilDiv(a, b) == (a + b - 1) \div b
RoundUp(a, b) == CeilDiv(a, b) * b
Least(a, b) == IF a < b THEN a ELSE b
BanksFor(bytes) == CeilDiv(bytes, Bank)

OutC2 == Atom \div OutElem              \* C2 of an int32 output cube (4)

----------------------------------------------------------------------------
(* Layouts.  Channels, kernels, rows and columns count from 1, the rows and *)
(* columns of a kernel from 0, as in the code.                              *)

feature_data(H, W, C2, c, h, w) ==
  ((c - 1) \div C2) * H * W * C2 + C2 * ((h - 1) * W + (w - 1)) + ((c - 1) % C2)

weight_int8(C, k, c) ==
  ((c - 1) \div Group) * Group * Group + ((k - 1) \div Group) * Group * C
    + ((c - 1) % Group) + ((k - 1) % Group) * Group

conv2d_weight(in_c, kh, kw, oc, ic, krow, kcol) ==
  weight_int8(kh * kw * in_c, oc, krow * kw * in_c + kcol * in_c + ic)

Groups(groups) == IF groups = 0 THEN 1 ELSE groups

grouped_conv2d_weight(in_c, kh, kw, out_c, groups, oc, ic_in_group, krow, kcol) ==
  LET grp == (oc - 1) \div (out_c \div Groups(groups))
  IN  conv2d_weight(in_c, kh, kw, oc,
                    grp * (in_c \div Groups(groups)) + ic_in_group, krow, kcol)

dwconv2d_weight(kh, kw, channels, ch, krow, kcol) ==
  conv2d_weight(channels, kh, kw, ch, ch, krow, kcol)

deconv_weight(in_c, kh, kw, co, ci, ki, kj) ==
  conv2d_weight(in_c, kh, kw, co, ci, kh - 1 - ki, kw - 1 - kj)

----------------------------------------------------------------------------
(* Task generators.  Each returns the code's status and the tasks written.  *)

Generated(tasks) == [ret |-> 0, tasks |-> tasks]
Refused(code) == [ret |-> code, tasks |-> << >>]

(* Every descriptor field lands in a register field of limited width.       *)
gen_matmul_task(d) ==
  [d EXCEPT !.grains          = @ % 2^GrainBits,
            !.in_h            = @ % 2^11,
            !.in_w            = @ % 2^11,
            !.in_c            = @ % 2^16,
            !.out_h           = @ % 2^13,
            !.out_w           = @ % 2^11,
            !.kernels         = @ % 2^14,
            !.kh              = @ % 2^5,
            !.kw              = @ % 2^5,
            !.stride_h        = @ % 2^3,
            !.stride_w        = @ % 2^3,
            !.pad_top         = @ % 2^4,
            !.pad_left        = @ % 2^4,
            !.wbpk            = @ % 2^19,
            !.weight_bank     = @ % 2^4,
            !.data_bank       = @ % 2^4,
            !.line_stride     = @ % 2^28,
            !.surf_stride     = @ % 2^28,
            !.dst_surf_stride = @ % 2^28]

(* surf_stride of a cube of h rows, in RowAlign-byte words.                 *)
SurfStride(line_stride, h) ==
  LET s == line_stride * ((h \div RowAlign) - 1)
  IN  IF s < 0 THEN s + 1 ELSE s

ConvTask(p) ==
  LET out_h == (p.in_h + p.pad_top + p.pad_bottom - p.kh) \div p.stride_h + 1
      out_w == (p.in_w + p.pad_left + p.pad_right - p.kw) \div p.stride_w + 1
      wbpk  == p.kw * p.kh * p.in_c
      fd_banks == BanksFor(p.in_w * p.in_h * p.in_c)
      line_stride == p.in_w * RowAlign
  IN  gen_matmul_task(
        [grains |-> p.in_h + 1, in_h |-> p.in_h, in_w |-> p.in_w,
         in_c |-> p.in_c, out_h |-> out_h, out_w |-> out_w,
         kernels |-> p.out_c, kh |-> p.kh, kw |-> p.kw,
         stride_h |-> p.stride_h, stride_w |-> p.stride_w,
         pad_top |-> p.pad_top, pad_left |-> p.pad_left,
         wbytes |-> wbpk * p.out_c, wbpk |-> wbpk,
         weight_bank |-> Banks - fd_banks, data_bank |-> fd_banks,
         line_stride |-> line_stride,
         surf_stride |-> SurfStride(line_stride, p.in_h),
         feature_base |-> 0, dst_base |-> 0,
         dst_surf_stride |-> out_h * out_w])

gen_conv2d_int8(p) ==
  CASE BanksFor(p.in_w * p.in_h * p.in_c) > Banks - 1 -> Refused(-1)
    [] /\ BanksFor(p.in_w * p.in_h * p.in_c) <= Banks - 1
       /\ p.kw * p.kh * p.in_c > Bank -> Refused(-2)
    [] OTHER -> Generated(<<ConvTask(p)>>)

(* A matmul fills the descriptor of a 1x1 convolution over one column.      *)
PointwiseTask(m, k, n) ==
  [in_h |-> m, in_w |-> 1, in_c |-> k, out_c |-> n, kh |-> 1, kw |-> 1,
   stride_h |-> 1, stride_w |-> 1, pad_top |-> 0, pad_left |-> 0,
   pad_bottom |-> 0, pad_right |-> 0]

gen_matmul_int8(m, k, n) == gen_conv2d_int8(PointwiseTask(m, k, n))

MaxRowsUncapped(k, weight_banks) ==   \* variant: no clamp
  ((((Banks - weight_banks) * Bank) \div k) \div RowAlign) * RowAlign
MaxRowsSpareBank(k, weight_banks) ==  \* variant: a bank is left unused
  LET rows == ((Banks - weight_banks - 1) * Bank) \div k
  IN  Least((rows \div RowAlign) * RowAlign, TileCap)

(* Rows of a tile: what the banks left by the weights hold, in whole        *)
(* RowAlign rows, at most TileCap.                                          *)
MaxRows(k, weight_banks) ==
  LET rows == ((Banks - weight_banks) * Bank) \div k
  IN  Least((rows \div RowAlign) * RowAlign, TileCap)

Tile(m, k, n, wbytes, m_offset, tile_m) ==
  LET fd_banks == BanksFor(tile_m * k) IN
  gen_matmul_task(
    [grains |-> tile_m + 1, in_h |-> tile_m, in_w |-> 1, in_c |-> k,
     out_h |-> tile_m, out_w |-> 1, kernels |-> n, kh |-> 1, kw |-> 1,
     stride_h |-> 1, stride_w |-> 1, pad_top |-> 0, pad_left |-> 0,
     wbytes |-> wbytes, wbpk |-> k,
     weight_bank |-> Banks - fd_banks, data_bank |-> fd_banks,
     line_stride |-> RowAlign, surf_stride |-> SurfStride(RowAlign, m),
     feature_base |-> m_offset * Atom, dst_base |-> m_offset * Atom,
     dst_surf_stride |-> m])

WholeTile(m, max_m, t) == max_m   \* variant: the last tile is not cut
TileRows(m, max_m, t) == Least(max_m, m - (t - 1) * max_m)

gen_matmul_int8_tiled(m, k, n) ==
  LET wbytes == RoundUp(k, Group) * RoundUp(n, Group)
      weight_banks == BanksFor(wbytes)
      max_m == MaxRows(k, weight_banks)
  IN  CASE weight_banks >= Banks -> Refused(-2)
        [] weight_banks < Banks /\ max_m = 0 -> Refused(-1)
        [] weight_banks < Banks /\ max_m >= m -> gen_matmul_int8(m, k, n)
        [] OTHER -> Generated(
             [t \in 1..CeilDiv(m, max_m) |->
                Tile(m, k, n, wbytes, (t - 1) * max_m, TileRows(m, max_m, t))])

gen_dwconv2d_int8(p) == gen_conv2d_int8([p EXCEPT !.out_c = p.in_c])

gen_avgpool_int8(p) == gen_dwconv2d_int8(p)

gen_grouped_conv2d_int8(p, groups) ==
  IF p.in_c % Groups(groups) # 0 \/ p.out_c % Groups(groups) # 0
  THEN Refused(-10) ELSE gen_conv2d_int8(p)

(* The convolution a transposed convolution is lowered to: the input spread *)
(* out by the stride and padded to RowAlign, the padding mirrored.          *)
DeconvAsConv(p) ==
  [in_h |-> RoundUp((p.in_h - 1) * p.stride_h + 1, RowAlign),
   in_w |-> RoundUp((p.in_w - 1) * p.stride_w + 1, RowAlign),
   in_c |-> p.in_c, out_c |-> p.out_c, kh |-> p.kh, kw |-> p.kw,
   stride_h |-> 1, stride_w |-> 1,
   pad_top    |-> p.kh - 1 - p.pad_top,
   pad_left   |-> p.kw - 1 - p.pad_left,
   pad_bottom |-> p.kh - 1 - p.pad_bottom + p.output_padding_h,
   pad_right  |-> p.kw - 1 - p.pad_right + p.output_padding_w]

gen_deconv_int8(p) ==
  LET c == DeconvAsConv(p) IN
  IF \E pad \in {c.pad_top, c.pad_bottom, c.pad_left, c.pad_right} : pad < 0
  THEN Refused(-3) ELSE gen_conv2d_int8(c)

gen_transpose2d_int8(p, q) ==
  gen_matmul_int8(RoundUp(q, Group), RoundUp(q, Group), RoundUp(p, Group))
=============================================================================
