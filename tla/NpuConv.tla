------------------------------ MODULE NpuConv ------------------------------
(* One operator of the network on the engine: lay the operands out in the   *)
(* shared DMA buffers, generate the tasks, submit them one by one, read the *)
(* result back; yolo_conv_npu does so block by block.  A program is what    *)
(* one caller runs: the convolutions of yolo_forward, the matmuls of        *)
(* llm_forward, or one operator of the on-board tests.                      *)
(*                                                                          *)
(* A number is modelled by where it comes from: a byte of a buffer is the   *)
(* set of the elements laid out there ({} is zero), an accumulator the set  *)
(* of the pairs <<input element, weight element>> it has summed.  So a      *)
(* result is exact iff it equals the sum the operator defines, whatever the *)
(* numbers are.  Two elements laid at one byte stay both visible there.     *)
EXTENDS NpuLayout

CONSTANTS
  Programs,   \* the sequences of operators a caller may run
  Block,      \* YOLO_M_BLOCK (1024)
  MaxTiles    \* YOLO_MAX_TILES (32)

ASSUME BlocksArePositive ==
  Block \in Nat \ {0} /\ Block < 2^26 /\ MaxTiles \in Nat \ {0}

VARIABLES
  prog,     \* the operators to run
  at,       \* the one being run
  m0,       \* first row of the block being run
  phase,
  feat,     \* dma_input: byte |-> elements
  out,      \* dma_output: int32 |-> pairs
  tasks,    \* dma_regcmd
  tile,     \* next task to submit
  result    \* out32: <<kernel, pixel>> |-> pairs

vars == <<prog, at, m0, phase, feat, out, tasks, tile, result>>

op == prog[at]

----------------------------------------------------------------------------
(* The shapes of an operator.  yolo: im2col of a c*h*w tensor, K values of  *)
(* a patch for each of M output pixels.  llm: one row of K inputs.  conv,   *)
(* depthwise (and the average pool built on it), grouped, deconv: the       *)
(* parameters p of their generator.  transpose: a rows*cols matrix.         *)

OutDim(in, pad, k, stride) == (in + pad - k) \div stride + 1

OutH(o) == OutDim(o.h, 2 * o.pad, o.k, o.stride)
OutW(o) == OutDim(o.w, 2 * o.pad, o.k, o.stride)
PatchK(o) == o.c * o.k * o.k
PaddedK(o) == RoundUp(PatchK(o), Group)
PaddedN(o) == RoundUp(o.n, Group)
PixelsOf(o) == IF o.kind = "yolo" THEN OutH(o) * OutW(o) ELSE 1
Rows(o) == Least(Block, PixelsOf(o) - m0)

Lowered(o) == IF o.kind = "deconv" THEN DeconvAsConv(o.p) ELSE o.p
ConvOutH(p) == OutDim(p.in_h, p.pad_top + p.pad_bottom, p.kh, p.stride_h)
ConvOutW(p) == OutDim(p.in_w, p.pad_left + p.pad_right, p.kw, p.stride_w)
DeconvOutH(p) == (p.in_h - 1) * p.stride_h - (p.pad_top + p.pad_bottom)
                   + p.kh + p.output_padding_h
DeconvOutW(p) == (p.in_w - 1) * p.stride_w - (p.pad_left + p.pad_right)
                   + p.kw + p.output_padding_w

Inside(x, n) == 0 <= x /\ x < n

(* What the callers in the repository respect: channels and kernels in      *)
(* whole groups, values that fit their register fields, an input and a      *)
(* kernel that fit their banks.                                             *)
ConvParams ==
  [in_h : Nat, in_w : Nat, in_c : Nat, out_c : Nat, kh : Nat, kw : Nat,
   stride_h : Nat, stride_w : Nat,
   pad_top : Nat, pad_left : Nat, pad_bottom : Nat, pad_right : Nat]

FitsTheFields(p) ==
  /\ p.in_h + 1 < 2^GrainBits /\ p.in_h < 2^11 /\ p.in_w < 2^11
  /\ p.kh < 2^5 /\ p.kw < 2^5 /\ p.stride_h < 2^3 /\ p.stride_w < 2^3
  /\ p.pad_top < 2^4 /\ p.pad_left < 2^4 /\ p.out_c < 2^14
  /\ ConvOutH(p) < 2^13 /\ ConvOutW(p) < 2^11

FitsTheEngine(p) ==
  /\ p \in ConvParams
  /\ 0 \notin {p.in_h, p.in_w, p.in_c, p.out_c, p.kh, p.kw, p.stride_h, p.stride_w}
  /\ p.kh <= p.in_h + p.pad_top + p.pad_bottom
  /\ p.kw <= p.in_w + p.pad_left + p.pad_right
  /\ p.in_c % Group = 0 /\ p.out_c % Group = 0
  /\ p.in_w * p.in_h * p.in_c <= (Banks - 1) * Bank
  /\ p.kw * p.kh * p.in_c <= Bank
  /\ FitsTheFields(p)

WellFormed(o) ==
  CASE o.kind = "yolo" ->
         /\ {o.c, o.h, o.w, o.n, o.k, o.stride} \subseteq Nat \ {0} /\ o.pad \in Nat
         /\ o.k <= o.h + 2 * o.pad /\ o.k <= o.w + 2 * o.pad
    [] o.kind = "llm" -> FitsTheEngine(PointwiseTask(1, o.c, o.n))
    [] o.kind = "transpose" ->
         /\ {o.rows, o.cols} \subseteq Nat \ {0}
         /\ FitsTheEngine(PointwiseTask(RoundUp(o.cols, Group), RoundUp(o.cols, Group),
                                        RoundUp(o.rows, Group)))
    [] o.kind = "conv" -> FitsTheEngine(o.p)
    [] o.kind = "depthwise" -> FitsTheEngine(o.p) /\ o.p.out_c = o.p.in_c
    [] o.kind = "grouped" -> FitsTheEngine(o.p) /\ o.groups \in Nat
    [] o.kind = "deconv" ->
         LET c == DeconvAsConv(o.p) IN
         /\ {o.p.kh, o.p.kw, o.p.pad_top, o.p.pad_left, o.p.pad_bottom, o.p.pad_right,
             o.p.output_padding_h, o.p.output_padding_w} \subseteq Nat
         /\ {o.p.in_h, o.p.in_w, o.p.stride_h, o.p.stride_w} \subseteq Nat \ {0}
         /\ (\A pad \in {c.pad_top, c.pad_bottom, c.pad_left, c.pad_right} : pad >= 0)
              => FitsTheEngine(c) /\ DeconvOutH(o.p) > 0 /\ DeconvOutW(o.p) > 0
    [] OTHER -> FALSE

(* surf_stride divides the height of a cube by RowAlign and so holds for    *)
(* whole multiples (ALIGNMENT REQUIREMENT of npu_deconv.h): every layer of  *)
(* the network and every test has one; deconvolutions are padded to it, a   *)
(* single row needs none.                                                   *)
AlignedHeight(o) ==
  CASE o.kind = "yolo" -> PixelsOf(o) % RowAlign = 0
    [] o.kind \in {"conv", "depthwise", "grouped"} -> o.p.in_h % RowAlign = 0
    [] OTHER -> TRUE

ASSUME BlocksAreAligned == Group % RowAlign = 0 /\ Block % RowAlign = 0
ASSUME ProgramsAreWellFormed ==
  \A p \in Programs :
    Len(p) \in Nat \ {0} /\ \A i \in 1..Len(p) : WellFormed(p[i]) /\ AlignedHeight(p[i])

----------------------------------------------------------------------------
(* What each caller lays out: pairs <<byte, element>>.  An element of the   *)
(* input is <<operator, channel, row, column>>, one of a weight             *)
(* <<operator, kernel, channel, row, column>>, channels and kernels from 1. *)

(* yolo_conv_npu, one block: element k of the patch of row 'row'.           *)
kbase(k, mb) == (k \div Atom) * mb * Atom + (k % Atom)

YoloFeatures(o) ==
  LET mb == Rows(o)
      Y(row, kr) == ((m0 + row) \div OutW(o)) * o.stride - o.pad + kr
      X(row, kc) == ((m0 + row) % OutW(o)) * o.stride - o.pad + kc
      Patch == (0..mb - 1) \X (0..o.c - 1) \X (0..o.k - 1) \X (0..o.k - 1)
      Real == {e \in Patch : Inside(Y(e[1], e[3]), o.h) /\ Inside(X(e[1], e[4]), o.w)}
  IN  {<<kbase((e[2] * o.k + e[3]) * o.k + e[4], mb) + e[1] * Atom,
         <<at, e[2] + 1, Y(e[1], e[3]), X(e[1], e[4])>>>> : e \in Real}

YoloWeightsUnpadded(o) ==   \* variant: tiled by the real K
  {<<weight_int8(PatchK(o), e[1] + 1, (e[2] * o.k + e[3]) * o.k + e[4] + 1),
     <<at, e[1] + 1, e[2] + 1, e[3], e[4]>>>> :
     e \in (0..o.n - 1) \X (0..o.c - 1) \X (0..o.k - 1) \X (0..o.k - 1)}

(* prelayout_conv_weight: resident weights, tiled by the padded K.          *)
YoloWeights(o) ==
  {<<weight_int8(PaddedK(o), e[1] + 1, (e[2] * o.k + e[3]) * o.k + e[4] + 1),
     <<at, e[1] + 1, e[2] + 1, e[3], e[4]>>>> :
     e \in (0..o.n - 1) \X (0..o.c - 1) \X (0..o.k - 1) \X (0..o.k - 1)}

LlmFeatures(o) ==
  {<<feature_data(1, 1, Atom, k, 1, 1), <<at, k, 0, 0>>>> : k \in 1..o.c}

LlmWeights(o) ==
  {<<weight_int8(o.c, n, k), <<at, n, k, 0, 0>>>> : n \in 1..o.n, k \in 1..o.c}

(* The tests: the cube of the convolution the generator sees; for a         *)
(* transposed convolution the input is spread out by the stride.            *)
ConvFeatures(o) ==
  LET q == Lowered(o)
      S == IF o.kind = "deconv" THEN <<o.p.stride_h, o.p.stride_w>> ELSE <<1, 1>>
  IN  {<<feature_data(q.in_h, q.in_w, Atom, e[1], e[2] * S[1] + 1, e[3] * S[2] + 1),
         <<at, e[1], e[2], e[3]>>>> :
         e \in (1..o.p.in_c) \X (0..o.p.in_h - 1) \X (0..o.p.in_w - 1)}

Kernel(p) == (0..p.kh - 1) \X (0..p.kw - 1)

ConvWeights(o) ==
  LET p == o.p IN
  CASE o.kind = "conv" ->
         {<<conv2d_weight(p.in_c, p.kh, p.kw, oc, ic, r[1], r[2]),
            <<at, oc, ic, r[1], r[2]>>>> :
            oc \in 1..p.out_c, ic \in 1..p.in_c, r \in Kernel(p)}
    [] o.kind = "depthwise" ->
         {<<dwconv2d_weight(p.kh, p.kw, p.in_c, ch, r[1], r[2]),
            <<at, ch, ch, r[1], r[2]>>>> : ch \in 1..p.in_c, r \in Kernel(p)}
    [] o.kind = "grouped" ->
         {<<grouped_conv2d_weight(p.in_c, p.kh, p.kw, p.out_c, o.groups,
                                  oc, icg, r[1], r[2]),
            <<at, oc, icg, r[1], r[2]>>>> :
            oc \in 1..p.out_c, icg \in 1..(p.in_c \div Groups(o.groups)), r \in Kernel(p)}
    [] o.kind = "deconv" ->
         {<<deconv_weight(p.in_c, p.kh, p.kw, co, ci, r[1], r[2]),
            <<at, co, ci, r[1], r[2]>>>> :
            co \in 1..p.out_c, ci \in 1..p.in_c, r \in Kernel(p)}

(* The identity as the input, the matrix as the kernels.                    *)
TransposeFeatures(o) ==
  LET qa == RoundUp(o.cols, Group) IN
  {<<feature_data(qa, 1, Atom, i, i, 1), <<at, i, 0, 0>>>> : i \in 1..qa}

TransposeWeights(o) ==
  {<<weight_int8(RoundUp(o.cols, Group), n, k), <<at, n, k, 0, 0>>>> :
     n \in 1..o.rows, k \in 1..o.cols}

Features ==
  CASE op.kind = "yolo"      -> YoloFeatures(op)
    [] op.kind = "llm"       -> LlmFeatures(op)
    [] op.kind = "transpose" -> TransposeFeatures(op)
    [] OTHER                 -> ConvFeatures(op)

Weights ==
  CASE op.kind = "yolo"      -> YoloWeights(op)
    [] op.kind = "llm"       -> LlmWeights(op)
    [] op.kind = "transpose" -> TransposeWeights(op)
    [] OTHER                 -> ConvWeights(op)

(* The sizes the callers clear, clean and invalidate.                       *)
YoloFeatSizeUnpadded(o) == RoundUp(PatchK(o), Atom) * Rows(o)  \* variant
YoloFeatSize(o) == RoundUp(PaddedK(o), Atom) * Rows(o)

FeatSize ==
  CASE op.kind = "yolo"      -> YoloFeatSize(op)
    [] op.kind = "llm"       -> RoundUp(op.c, Atom)
    [] op.kind = "transpose" -> RoundUp(op.cols, Group) * RoundUp(op.cols, Group)
    [] OTHER -> LET q == Lowered(op) IN q.in_c * q.in_h * q.in_w

WeightSize ==
  CASE op.kind = "yolo"      -> PaddedK(op) * PaddedN(op)
    [] op.kind = "llm"       -> RoundUp(op.c, Group) * RoundUp(op.n, Group)
    [] op.kind = "transpose" -> RoundUp(op.rows, Group) * RoundUp(op.cols, Group)
    [] OTHER -> op.p.out_c * op.p.kh * op.p.kw * op.p.in_c

OutSize ==
  CASE op.kind = "yolo"      -> RoundUp(PaddedN(op), OutC2) * Rows(op)
    [] op.kind = "llm"       -> RoundUp(op.n, OutC2)
    [] op.kind = "transpose" -> RoundUp(op.cols, Group) * RoundUp(op.rows, Group)
    [] OTHER -> LET q == Lowered(op) IN q.out_c * ConvOutH(q) * ConvOutW(q)

(* A buffer after a memset and the stores of the pairs given.               *)
Image(size, pairs) ==
  [a \in 0..size - 1 |-> {e[2] : e \in {x \in pairs : x[1] = a}}]

(* A memory after stores: the rest keeps what it held.                      *)
Overlay(stores, memory) ==
  [a \in DOMAIN stores \cup DOMAIN memory |->
     IF a \in DOMAIN stores THEN stores[a] ELSE memory[a]]

----------------------------------------------------------------------------
(* The engine (not in src): what a task reads and writes, as the layouts,   *)
(* the comments and the on-board tests of the repository tell it.           *)

Load(memory, a) == IF a \in DOMAIN memory THEN memory[a] ELSE {"garbage"}

SurfacePitch(t) == (t.line_stride + t.surf_stride) % 2^28

FeatureByte(t, ic, iy, ix) ==
  t.feature_base + (ic \div Atom) * SurfacePitch(t) * Atom
    + (iy * (t.line_stride \div RowAlign) + ix) * Atom + (ic % Atom)

WeightByte(t, n, r, ic) ==
  LET flat == (r[1] * t.kw + r[2]) * t.in_c + ic IN
  (n \div Group) * Group * t.wbpk + (flat \div Group) * Group * Group
    + (n % Group) * Group + (flat % Group)

OutWord(t, n, oy, ox) ==
  t.dst_base \div OutElem + (n \div OutC2) * t.dst_surf_stride * OutC2
    + (oy * t.out_w + ox) * OutC2 + (n % OutC2)

(* The terms of an output pixel: kernel position and channel, the padding   *)
(* left out.                                                                *)
Terms(t, oy, ox) ==
  {x \in ((0..t.kh - 1) \X (0..t.kw - 1)) \X (0..t.in_c - 1) :
     /\ Inside(oy * t.stride_h + x[1][1] - t.pad_top, t.in_h)
     /\ Inside(ox * t.stride_w + x[1][2] - t.pad_left, t.in_w)}

FeatureOf(t, oy, ox, x) ==
  FeatureByte(t, x[2], oy * t.stride_h + x[1][1] - t.pad_top,
                       ox * t.stride_w + x[1][2] - t.pad_left)

Accumulator(t, f, w, n, oy, ox) ==
  UNION {Load(f, FeatureOf(t, oy, ox, x)) \X Load(w, WeightByte(t, n, x[1], x[2])) :
           x \in Terms(t, oy, ox)}

Cells(t) == (0..t.kernels - 1) \X (0..t.out_h - 1) \X (0..t.out_w - 1)

Written(t, f, w) ==
  [a \in {OutWord(t, c[1], c[2], c[3]) : c \in Cells(t)} |->
     UNION {Accumulator(t, f, w, c[1], c[2], c[3]) :
              c \in {d \in Cells(t) : OutWord(t, d[1], d[2], d[3]) = a}}]

(* What the engine takes without hanging: fields that hold their values,    *)
(* channels and kernels in whole groups, the input in its banks and a       *)
(* kernel in one of its own.                                                *)
EngineTakes(t) ==
  /\ t.grains = t.in_h + 1
  /\ t.in_c % Group = 0 /\ t.kernels % Group = 0
  /\ t.in_h * t.in_w * t.in_c <= t.data_bank * Bank
  /\ t.wbpk <= Bank /\ t.weight_bank > 0
  /\ t.data_bank + t.weight_bank <= Banks

----------------------------------------------------------------------------
(* The steps of an operator.                                                *)

Init ==
  /\ prog \in Programs
  /\ at = 1 /\ m0 = 0
  /\ phase = "layout"
  /\ feat = << >> /\ out = << >>
  /\ tasks = << >> /\ tile = 1
  /\ result = << >>

(* memset and layout of the input; all callers but yolo clear the output.   *)
LayOut ==
  /\ phase = "layout"
  /\ feat' = Overlay(Image(FeatSize, Features), feat)
  /\ out' = IF op.kind = "yolo" THEN out ELSE Overlay(Image(OutSize, {}), out)
  /\ phase' = "gen"
  /\ UNCHANGED <<prog, at, m0, tasks, tile, result>>

Generator ==
  CASE op.kind = "yolo"      -> gen_matmul_int8_tiled(Rows(op), PaddedK(op), PaddedN(op))
    [] op.kind = "llm"       -> gen_matmul_int8(1, op.c, op.n)
    [] op.kind = "transpose" -> gen_transpose2d_int8(op.rows, op.cols)
    [] op.kind = "conv"      -> gen_conv2d_int8(op.p)
    [] op.kind = "depthwise" -> gen_avgpool_int8(op.p)
    [] op.kind = "grouped"   -> gen_grouped_conv2d_int8(op.p, op.groups)
    [] op.kind = "deconv"    -> gen_deconv_int8(op.p)

Accepted(g) == g.ret = 0 /\ (op.kind = "yolo" => Len(g.tasks) <= MaxTiles)

Generate ==
  /\ phase = "gen"
  /\ Accepted(Generator)
  /\ tasks' = Generator.tasks
  /\ tile' = 1
  /\ phase' = "submit"
  /\ UNCHANGED <<prog, at, m0, feat, out, result>>

(* The caller logs the refusal and gives the program up.                    *)
GiveUp ==
  /\ phase = "gen"
  /\ ~Accepted(Generator)
  /\ phase' = "failed"
  /\ UNCHANGED <<prog, at, m0, feat, out, tasks, tile, result>>

(* rknpu_submit_task: the task is over when it returns.                     *)
SubmitTile ==
  /\ phase = "submit"
  /\ tile <= Len(tasks)
  /\ out' = Overlay(Written(tasks[tile], feat, Image(WeightSize, Weights)), out)
  /\ tile' = tile + 1
  /\ UNCHANGED <<prog, at, m0, phase, feat, tasks, result>>

(* What is read back: pairs <<(kernel, pixel), int32 word>>.                *)
nbase(n, mb) == (n \div OutC2) * mb * OutC2 + (n % OutC2)

ReadBackWords ==
  CASE op.kind = "yolo" ->
         {<<<<n + 1, m0 + row>>, nbase(n, Rows(op)) + row * OutC2>> :
            n \in 0..op.n - 1, row \in 0..Rows(op) - 1}
    [] op.kind = "llm" ->
         {<<<<n, 0>>, feature_data(1, 1, OutC2, n, 1, 1)>> : n \in 1..op.n}
    [] op.kind = "transpose" ->
         {<<<<b, a - 1>>, feature_data(RoundUp(op.cols, Group), 1, OutC2, b, a, 1)>> :
            b \in 1..op.rows, a \in 1..op.cols}
    [] OTHER ->
         LET q == Lowered(op)
             H == IF op.kind = "deconv" THEN DeconvOutH(op.p) ELSE ConvOutH(q)
             W == IF op.kind = "deconv" THEN DeconvOutW(op.p) ELSE ConvOutW(q)
         IN  {<<<<oc, oh * W + ow>>,
                feature_data(ConvOutH(q), ConvOutW(q), OutC2, oc, oh + 1, ow + 1)>> :
                oc \in 1..q.out_c, oh \in 0..H - 1, ow \in 0..W - 1}

Collected ==
  [c \in {e[1] : e \in ReadBackWords} |->
     Load(out, (CHOOSE e \in ReadBackWords : e[1] = c)[2])]

LastBlock == m0 + Block >= PixelsOf(op)

ReadBack ==
  /\ phase = "submit"
  /\ tile > Len(tasks)
  /\ result' = Overlay(Collected, result)
  /\ IF LastBlock THEN phase' = "done" /\ m0' = m0
                  ELSE phase' = "layout" /\ m0' = m0 + Block
  /\ UNCHANGED <<prog, at, feat, out, tasks, tile>>

NextOperator ==
  /\ phase = "done"
  /\ at < Len(prog)
  /\ at' = at + 1
  /\ m0' = 0
  /\ phase' = "layout"
  /\ result' = << >>
  /\ UNCHANGED <<prog, feat, out, tasks, tile>>

Finished == phase = "failed" \/ (phase = "done" /\ at = Len(prog))

Rest == Finished /\ UNCHANGED vars

Next == LayOut \/ Generate \/ GiveUp \/ SubmitTile \/ ReadBack \/ NextOperator \/ Rest

Spec == Init /\ [][Next]_vars

----------------------------------------------------------------------------
(* What an operator promises: the sum each output is, written from the CPU  *)
(* references of the tests.                                                 *)

(* Output pixel (oy, ox) of kernel n, over the pairs of an input channel    *)
(* and the kernel's channel it meets.                                       *)
Direct(p, channels, n, oy, ox) ==
  {<< <<at, x[1][1], oy * p.stride_h + x[2][1] - p.pad_top,
                     ox * p.stride_w + x[2][2] - p.pad_left>>,
      <<at, n, x[1][2], x[2][1], x[2][2]>> >> :
     x \in {y \in channels \X Kernel(p) :
              /\ Inside(oy * p.stride_h + y[2][1] - p.pad_top, p.in_h)
              /\ Inside(ox * p.stride_w + y[2][2] - p.pad_left, p.in_w)}}

Convolution(p, Channels(_)) ==
  [c \in (1..p.out_c) \X (0..ConvOutH(p) * ConvOutW(p) - 1) |->
     Direct(p, Channels(c[1]), c[1], c[2] \div ConvOutW(p), c[2] % ConvOutW(p))]

YoloParams(o) ==
  [in_h |-> o.h, in_w |-> o.w, in_c |-> o.c, out_c |-> o.n,
   kh |-> o.k, kw |-> o.k, stride_h |-> o.stride, stride_w |-> o.stride,
   pad_top |-> o.pad, pad_bottom |-> o.pad, pad_left |-> o.pad, pad_right |-> o.pad]

(* deconv_int8_ref: every input element is scattered over the outputs its   *)
(* kernel covers.                                                           *)
Scattered(p, co, oy, ox) ==
  {<< <<at, e[1][1], e[1][2], e[1][3]>>, <<at, co, e[1][1], e[2][1], e[2][2]>> >> :
     e \in {x \in ((1..p.in_c) \X (0..p.in_h - 1) \X (0..p.in_w - 1)) \X Kernel(p) :
              /\ x[1][2] * p.stride_h - p.pad_top + x[2][1] = oy
              /\ x[1][3] * p.stride_w - p.pad_left + x[2][2] = ox}}

Reference ==
  LET all(n) == {<<c, c>> : c \in 1..(IF op.kind = "yolo" THEN op.c ELSE op.p.in_c)}
      own(n) == {<<n, n>>}
      ICG == op.p.in_c \div Groups(op.groups)
      OCG == op.p.out_c \div Groups(op.groups)
      block(n) == {<<((n - 1) \div OCG) * ICG + j, j>> : j \in 1..ICG}
  IN
  CASE op.kind = "yolo"      -> Convolution(YoloParams(op), all)
    [] op.kind = "conv"      -> Convolution(op.p, all)
    [] op.kind = "depthwise" -> Convolution(op.p, own)
    [] op.kind = "grouped"   -> Convolution(op.p, block)
    [] op.kind = "llm" ->
         [c \in (1..op.n) \X {0} |->
            {<<<<at, k, 0, 0>>, <<at, c[1], k, 0, 0>>>> : k \in 1..op.c}]
    [] op.kind = "transpose" ->
         [c \in (1..op.rows) \X (0..op.cols - 1) |->
            {<<<<at, c[2] + 1, 0, 0>>, <<at, c[1], c[2] + 1, 0, 0>>>>}]
    [] op.kind = "deconv" ->
         LET W == DeconvOutW(op.p) IN
         [c \in (1..op.p.out_c) \X (0..DeconvOutH(op.p) * W - 1) |->
            Scattered(op.p, c[1], c[2] \div W, c[2] % W)]

----------------------------------------------------------------------------
(* Properties.                                                              *)

Phase == {"layout", "gen", "submit", "done", "failed"}

(* The progress of a program stays in its bounds, and the buffers are       *)
(* indexed by bytes and words.                                              *)
TypeOK ==
  /\ prog \in Programs /\ at \in 1..Len(prog)
  /\ m0 \in Nat /\ m0 < PixelsOf(op)
  /\ phase \in Phase
  /\ DOMAIN feat \subseteq Nat /\ DOMAIN out \subseteq Nat
  /\ tile \in 1..Len(tasks) + 1

(* An operator that is done has computed, at every output, exactly the sum  *)
(* of its definition: no term of a padding lane, of another tile, of the    *)
(* block or the operator that used the buffers before, and none lost.       *)
(* (run_matmul and yolo_conv_npu, llm_npu_matmul, the gen_* lowerings.)     *)
ResultExact == phase = "done" => result = Reference

(* No task reaches the engine that would hang it or run past its on-chip    *)
(* banks, and every tile of a layer holds all its weights in the banks it   *)
(* leaves them: the clamps and paddings of gen_matmul_int8_tiled and of its *)
(* callers.                                                                 *)
EngineTakesEveryTask ==
  phase = "submit" => \A i \in DOMAIN tasks :
    /\ EngineTakes(tasks[i])
    /\ op.kind = "yolo" => tasks[i].wbytes <= tasks[i].weight_bank * Bank

(* The tasks of a block together write each word of the range that was      *)
(* cleaned and will be invalidated once, and no other word: what is read    *)
(* back is always theirs (yolo_conv_npu does not clear the output).         *)
TilesPartitionTheOutput ==
  phase = "submit" /\ tile = 1 =>
    LET words(t) == {OutWord(t, c[1], c[2], c[3]) : c \in Cells(t)} IN
    /\ UNION {words(tasks[i]) : i \in DOMAIN tasks} = 0..OutSize - 1
    /\ \A i \in DOMAIN tasks : Cardinality(words(tasks[i])) = Cardinality(Cells(tasks[i]))
    /\ \A i, j \in DOMAIN tasks :
         i # j => words(tasks[i]) \cap words(tasks[j]) = {}

(* The engine reads no byte outside the ranges its caller wrote and cleaned *)
(* from the cache for it: feat_bytes of the input, wt_size of the weights.  *)
EngineReadsWhatWasCleaned ==
  phase = "submit" /\ tile = 1 =>
    \A i \in DOMAIN tasks :
      LET t == tasks[i] IN
      /\ \A oy \in 0..t.out_h - 1, ox \in 0..t.out_w - 1 :
           \A x \in Terms(t, oy, ox) : FeatureOf(t, oy, ox, x) \in 0..FeatSize - 1
      /\ \A n \in 0..t.kernels - 1, r \in (0..t.kh - 1) \X (0..t.kw - 1),
            ic \in 0..t.in_c - 1 : WeightByte(t, n, r, ic) \in 0..WeightSize - 1

(* A convolution of the network is given up only when its weights and one   *)
(* aligned row group do not fit the banks together, or when the tiles that  *)
(* fit are more than MaxTiles; a lowering only when the engine cannot       *)
(* express it.                                                              *)
RefusesOnlyWhatCannotFit ==
  phase = "failed" =>
    CASE op.kind = "yolo" ->
           LET rows == RoundUp(CeilDiv(Rows(op), MaxTiles), RowAlign) IN
           \/ MaxTiles * TileCap < Rows(op)
           \/ BanksFor(PaddedK(op) * PaddedN(op)) + BanksFor(rows * PaddedK(op)) > Banks
      [] op.kind = "grouped" -> op.p.in_c % Groups(op.groups) # 0
                                  \/ op.p.out_c % Groups(op.groups) # 0
      [] op.kind = "deconv" -> op.p.kh <= op.p.pad_top \/ op.p.kw <= op.p.pad_left
                                 \/ op.p.kh + op.p.output_padding_h <= op.p.pad_bottom
                                 \/ op.p.kw + op.p.output_padding_w <= op.p.pad_right
      [] OTHER -> FALSE
=============================================================================
