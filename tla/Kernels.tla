------------------------------ MODULE Kernels ------------------------------
(* The integer arithmetic both networks run on the CPU between two NPU      *)
(* operators: requantisation to int8 with a running scale, norm, attention, *)
(* gates, joins of tensors of different scales, npulib's softmax, channel   *)
(* concat and transpose, and the tokenizer's encoding.  One action computes *)
(* one call; the properties compare it with the real number it stands for.  *)
(*                                                                          *)
(* A tensor is a sequence of int8 values with a scale: real = value * scale *)
(* / One.  Integers have no width here: the code carries these in 64 bits.  *)
(* The two lookup tables are data, of which only the shape is assumed.      *)
EXTENDS Tokenizer

CONSTANTS
  KernelCases,  \* the calls: records with a field "kernel"
  One,          \* the real number 1 of a scale (2^20)
  ProbOne,      \* the probability 1 of the attention (65535)
  LutOne,       \* the top of sigmoid_lut, its +128 included (255)
  sigmoid_lut,  \* index -128..127 |-> 0..LutOne, 32 steps to a unit
  exp_lut       \* distance 0..255 |-> weight, 32 steps to a unit

ASSUME ScalesArePositive == {One, ProbOne, LutOne} \subseteq Nat \ {0}
ASSUME LutsAreMonotone ==
  /\ sigmoid_lut \in [-128..127 -> 0..LutOne] /\ exp_lut \in [0..255 -> Nat]
  /\ \A i \in -128..126 : sigmoid_lut[i] <= sigmoid_lut[i + 1]
  /\ sigmoid_lut[-128] = 0 /\ sigmoid_lut[127] = LutOne
  /\ \A d \in 0..254 : exp_lut[d] >= exp_lut[d + 1]
  /\ exp_lut[0] > 0

Int8 == -128..127
LargestMean == 128 * 128   \* of squares of int8 values
Vectors(S) == Seq(S) \ {<< >>}

(* What every caller of a kernel passes: tensors of the sizes it says, with *)
(* scales that are never negative, and none of zero to divide by.  isqrt    *)
(* gets a mean of squares of int8 or the width of a head.                   *)
WellFormedCall(o) ==
  CASE o.kernel = "requant"   -> o.v \in Seq(Int)
    [] o.kernel = "isqrt"     -> o.range \subseteq 0..LargestMean
    [] o.kernel = "rms_norm"  ->
         o.x \in Vectors(Int8) /\ o.w \in [DOMAIN o.x -> Int8] /\ o.w_scale \in Nat
    [] o.kernel = "rope"      ->
         LET half == 1..Len(o.head) \div 2 IN
         /\ o.head \in Seq(Int8) /\ Len(o.head) % 2 = 0
         /\ o.cos \in [half -> Int8] /\ o.sin \in [half -> Int8]
    [] o.kernel \in {"add_res", "add"} ->
         o.a \in Seq(Int8) /\ o.b \in [DOMAIN o.a -> Int8] /\ {o.a_s, o.b_s} \subseteq Nat
    [] o.kernel = "attention" ->
         /\ o.dots \in Vectors(Int) /\ o.q_s \in Nat /\ o.k_s \in [DOMAIN o.dots -> Nat]
         /\ o.v \in [DOMAIN o.dots -> Int8] /\ o.v_s \in [DOMAIN o.dots -> Nat]
         /\ o.dqkv \in 1..LargestMean
    [] o.kernel = "swiglu"    -> {o.g, o.u} \subseteq Int8 /\ {o.g_s, o.u_s} \subseteq Nat
    [] o.kernel = "matmul"    -> o.acc \in Seq(Int) /\ {o.ws, o.x_s} \subseteq Nat
    [] o.kernel = "conv"      ->
         /\ o.lin \in BOOLEAN /\ {o.m, o.x_s} \subseteq Nat \ {0} /\ o.ws \in Nat
         /\ {o.acc, o.bias} \subseteq Seq(Int) /\ Len(o.acc) = Len(o.bias) * o.m
    [] o.kernel \in {"maxpool", "upsample"} ->
         {o.c, o.h, o.w} \subseteq Nat /\ o.x \in [1..o.c * o.h * o.w -> Int8]
    [] o.kernel = "concat"    ->
         {o.a, o.b} \subseteq Seq(Int8) /\ {o.a_s, o.b_s} \subseteq Nat \ {0}
    [] o.kernel = "softmax"   -> o.x \in Vectors(Int8)
    [] o.kernel = "channels"  ->
         /\ o.pixels \in Nat \ {0} /\ o.parts \in Seq(Seq(Int8))
         /\ \A i \in DOMAIN o.parts : Len(o.parts[i]) % o.pixels = 0
    [] o.kernel = "transpose" ->
         /\ o.id \in [1..4 -> Nat \ {0}] /\ o.perm \in [1..4 -> 1..4]
         /\ \A j \in 1..4 : \E k \in 1..4 : o.perm[k] = j
    [] o.kernel = "encode"    -> TRUE

KernelNames ==
  {"requant", "isqrt", "rms_norm", "rope", "add_res", "attention", "swiglu", "matmul",
   "conv", "maxpool", "upsample", "concat", "add", "softmax", "channels", "transpose",
   "encode"}

ASSUME CallsAreWellFormed ==
  \A o \in KernelCases : o.kernel \in KernelNames /\ WellFormedCall(o)

(* No text holds the marker itself.                                         *)
ASSUME TextsAreTexts ==
  \A o \in KernelCases :
    o.kernel = "encode" => o.text \in Seq(STRING \ {Mark}) /\ o.max_ids \in Nat

VARIABLES kcase, kout

kernel_vars == <<kcase, kout>>

Magnitude(a) == IF a < 0 THEN -a ELSE a
Quot(a, b) == IF a >= 0 THEN a \div b ELSE -((-a) \div b)   \* C's '/', b > 0
AtLeast1(a) == IF a < 1 THEN 1 ELSE a
Clip8(a) == IF a > 127 THEN 127 ELSE IF a < -128 THEN -128 ELSE a
Total(v) == FoldLeft(LAMBDA acc, x : acc + x, 0, v)

----------------------------------------------------------------------------
(* llm_forward.c.                                                           *)

absmax64(v) == Max({1} \cup {Magnitude(v[i]) : i \in DOMAIN v})

requant_i8_floor(v, mx) ==   \* variant: Python's '//', as the comment has it
  [i \in DOMAIN v |-> Clip8(IF v[i] >= 0 THEN (254 * v[i] + mx) \div (2 * mx)
                                         ELSE (254 * v[i] - mx) \div (2 * mx))]
requant_i8(v, mx) ==
  [i \in DOMAIN v |-> Clip8(IF v[i] >= 0 THEN Quot(254 * v[i] + mx, 2 * mx)
                                         ELSE Quot(254 * v[i] - mx, 2 * mx))]

Requantised(v) ==
  LET mx == absmax64(v) IN [y |-> requant_i8(v, mx), s |-> AtLeast1(mx \div 127)]

(* Newton from above, at most 20 rounds, until it no longer falls.          *)
isqrt_u32(x) ==
  LET newton(r, k) == LET nr == (r + x \div r) \div 2 IN IF nr >= r THEN r ELSE nr
  IN  IF x <= 1 THEN x ELSE FoldLeft(newton, x, [k \in 1..20 |-> k])

rms_norm(x, w, w_scale) ==
  LET ms == Total([i \in DOMAIN x |-> x[i] * x[i]]) \div Len(x)
      rms == AtLeast1(isqrt_u32(AtLeast1(ms)))
  IN  Requantised([i \in DOMAIN x |-> Quot(x[i] * w[i] * w_scale, rms)])

(* One head in place, both halves of a pair from the values before.         *)
rope(head, cos_row, sin_row) ==
  LET half == Len(head) \div 2 IN
  [i \in DOMAIN head |->
     IF i <= half
     THEN Clip8((head[i] * cos_row[i] - head[i + half] * sin_row[i]) \div 128)
     ELSE Clip8((head[i] * cos_row[i - half] + head[i - half] * sin_row[i - half]) \div 128)]

add_res(a, a_s, b, b_s) == Requantised([i \in DOMAIN a |-> a[i] * a_s + b[i] * b_s])

(* One head of the attention: dots[p] = q.k(p), scales of the query, of the *)
(* keys and of the values, one component of the values.                     *)
attn_raw(o) == [p \in DOMAIN o.dots |-> o.dots[p] * o.q_s * o.k_s[p]]

attn_index(o, p) ==
  LET raw == attn_raw(o)
      rawmax == Max({raw[i] : i \in DOMAIN raw})
      denom == One * One * AtLeast1(isqrt_u32(o.dqkv))
      d == ((rawmax - raw[p]) * 32 + denom \div 2) \div denom
  IN  IF d > 255 THEN 255 ELSE d

attn_probs(o) ==
  LET psum == AtLeast1(Total([p \in DOMAIN o.dots |-> exp_lut[attn_index(o, p)]]))
  IN  [p \in DOMAIN o.dots |-> (exp_lut[attn_index(o, p)] * ProbOne) \div psum]

attention(o) ==
  LET probs == attn_probs(o)
  IN  Quot(Total([p \in DOMAIN o.dots |-> probs[p] * o.v[p] * o.v_s[p]]), ProbOne)

SigmoidAt(v) ==
  LET idx == (v * 32) \div One IN sigmoid_lut[Clip8(idx)]

(* SwiGLU of one element.                                                   *)
swiglu(g, g_s, u, u_s) ==
  (Quot(g * g_s * SigmoidAt(g * g_s), LutOne) * u * u_s) \div One

(* The end of llm_npu_matmul: the accumulators of a row.                    *)
requant_matmul(acc, w_scale, in_scale) ==
  LET mx == absmax64(acc)
  IN  [y |-> requant_i8(acc, mx), s |-> AtLeast1((mx * w_scale * in_scale) \div (127 * One))]

----------------------------------------------------------------------------
(* yolo_ops.c: '//' floors, so '\div'.  A tensor is flat, channels first.   *)

requant(acc) ==
  LET mx == absmax64(acc) IN
  [mx |-> mx,
   y  |-> [i \in DOMAIN acc |->
             Clip8(IF acc[i] >= 0 THEN (254 * acc[i] + mx) \div (2 * mx)
                                  ELSE (254 * acc[i] - mx) \div (2 * mx))]]

(* acc32 is [oc][M].                                                        *)
biased(o) ==
  [i \in DOMAIN o.acc |-> o.acc[i] + o.bias[(i - 1) \div o.m + 1] \div o.x_s]

conv_y(o) ==
  LET r == requant(biased(o))
  IN  [y |-> r.y, s |-> AtLeast1((r.mx * o.ws * o.x_s) \div (127 * One))]

yolo_conv_finish(o) ==
  IF o.lin THEN conv_y(o)
  ELSE LET t == conv_y(o)
           r == requant([i \in DOMAIN t.y |-> t.y[i] * SigmoidAt(t.y[i] * t.s)])
       IN  [y |-> r.y, s |-> AtLeast1((r.mx * t.s) \div (127 * LutOne))]

(* Flat results: address |-> the values stored there.                       *)
Stores(size, S, dst(_), val(_)) ==
  [a \in 0..size - 1 |-> {val(e) : e \in {x \in S : dst(x) = a}}]

Grid(c, h, w) == (0..c - 1) \X (0..h - 1) \X (0..w - 1)
Flat(e, h, w) == e[1] * h * w + e[2] * w + e[3]

yolo_maxpool(o) ==
  LET around(e) == {(e[2] - 2 + k[1]) * o.w + (e[3] - 2 + k[2]) :
                      k \in {x \in (0..4) \X (0..4) :
                               /\ e[2] - 2 + x[1] \in 0..o.h - 1
                               /\ e[3] - 2 + x[2] \in 0..o.w - 1}}
      most(e) == Max({-128} \cup {o.x[e[1] * o.h * o.w + i + 1] : i \in around(e)})
  IN  Stores(o.c * o.h * o.w, Grid(o.c, o.h, o.w),
             LAMBDA e : Flat(e, o.h, o.w), most)

yolo_upsample(o) ==
  LET OH == 2 * o.h
      OW == 2 * o.w
  IN  Stores(o.c * OH * OW, Grid(o.c, o.h, o.w) \X ({0, 1} \X {0, 1}),
             LAMBDA e : e[1][1] * OH * OW + (2 * e[1][2] + e[2][1]) * OW
                          + 2 * e[1][3] + e[2][2],
             LAMBDA e : o.x[Flat(e[1], o.h, o.w) + 1])

yolo_concat(o) ==
  LET big == IF o.a_s >= o.b_s THEN o.a_s ELSE o.b_s
      aligned(x, s) == [i \in DOMAIN x |-> Clip8((x[i] * s + big \div 2) \div big)]
      a == IF o.a_s = big THEN o.a ELSE aligned(o.a, o.a_s)
      b == IF o.a_s >= o.b_s THEN aligned(o.b, o.b_s) ELSE o.b
  IN  [y |-> a \o b, s |-> big]

yolo_add(o) ==
  LET r == requant([i \in DOMAIN o.a |-> o.a[i] * o.a_s + o.b[i] * o.b_s])
  IN  [y |-> r.y, s |-> AtLeast1(r.mx \div 127)]

----------------------------------------------------------------------------
(* npulib's CPU operators that cast to signed char or only move bytes.      *)
(* ('char' is unsigned on this target: maxpool_int8 and eltwise_add_int8    *)
(* lack the cast and are no operators on int8 values.)                      *)

softmax_int8(x) ==
  LET top == Max({x[i] : i \in DOMAIN x})
      sum == AtLeast1(Total([i \in DOMAIN x |-> exp_lut[top - x[i]]]))
  IN  [i \in DOMAIN x |-> Clip8((exp_lut[top - x[i]] * 255) \div sum - 128)]

(* parts: the inputs, each with its channels last over the same pixels.     *)
concat_channel_int8(parts, pixels) ==
  LET ch(i) == Len(parts[i]) \div pixels
      before(i) == Total([j \in 1..i - 1 |-> ch(j)])
      total_c == before(Len(parts) + 1)
      cells == UNION {{i} \X (0..pixels - 1) \X (0..ch(i) - 1) : i \in DOMAIN parts}
  IN  Stores(total_c * pixels, cells,
             LAMBDA e : e[2] * total_c + before(e[1]) + e[3],
             LAMBDA e : parts[e[1]][e[2] * ch(e[1]) + e[3] + 1])

(* perm and id index axes from 1; the element is its own flat address.      *)
strides(d) == <<d[2] * d[3] * d[4], d[3] * d[4], d[4], 1>>

transpose_int8(id, perm) ==
  LET od == [k \in 1..4 |-> id[perm[k]]]
      cells == (0..id[1] - 1) \X (0..id[2] - 1) \X (0..id[3] - 1) \X (0..id[4] - 1)
      at(e, s) == e[1] * s[1] + e[2] * s[2] + e[3] * s[3] + e[4] * s[4]
  IN  Stores(id[1] * id[2] * id[3] * id[4], cells,
             LAMBDA e : at([k \in 1..4 |-> e[perm[k]]], strides(od)),
             LAMBDA e : at(e, strides(id)))

----------------------------------------------------------------------------
(* One call.                                                                *)

Run(o) ==
  CASE o.kernel = "requant"   -> Requantised(o.v)
    [] o.kernel = "isqrt"     -> [x \in o.range |-> isqrt_u32(x)]
    [] o.kernel = "rms_norm"  -> rms_norm(o.x, o.w, o.w_scale)
    [] o.kernel = "rope"      -> rope(o.head, o.cos, o.sin)
    [] o.kernel = "add_res"   -> add_res(o.a, o.a_s, o.b, o.b_s)
    [] o.kernel = "attention" -> attention(o)
    [] o.kernel = "swiglu"    -> swiglu(o.g, o.g_s, o.u, o.u_s)
    [] o.kernel = "matmul"    -> requant_matmul(o.acc, o.ws, o.x_s)
    [] o.kernel = "conv"      -> yolo_conv_finish(o)
    [] o.kernel = "maxpool"   -> yolo_maxpool(o)
    [] o.kernel = "upsample"  -> yolo_upsample(o)
    [] o.kernel = "concat"    -> yolo_concat(o)
    [] o.kernel = "add"       -> yolo_add(o)
    [] o.kernel = "softmax"   -> softmax_int8(o.x)
    [] o.kernel = "channels"  -> concat_channel_int8(o.parts, o.pixels)
    [] o.kernel = "transpose" -> transpose_int8(o.id, o.perm)
    [] o.kernel = "encode"    -> llm_tokenizer_encode(o.text, o.max_ids)

KernelInit == kcase \in KernelCases /\ kout = << >>

Compute ==
  /\ kout = << >>
  /\ kout' = <<Run(kcase)>>
  /\ UNCHANGED kcase

----------------------------------------------------------------------------
(* What each call promises, in the real numbers it approximates.            *)

(* value q with scale s stands for num / den within 'halves' half steps of  *)
(* the scale, and the remainder of the division that made the scale.        *)
Represents(q, s, num, den, halves) ==
  2 * Magnitude(q * s * den - num) <= (halves * (s + 1) + 2 * Magnitude(q)) * den

(* Nearest, ties away from zero: no value drifts towards one side.          *)
RoundsToNearest(v, mx, q) ==
  LET e == 2 * (q * mx - 127 * v) IN
  /\ Magnitude(e) <= mx
  /\ e = mx => v > 0
  /\ e = -mx => v < 0

(* Negative values go a further half step down, and reach -128.             *)
RoundsDown(v, mx, q) ==
  IF v >= 0 THEN RoundsToNearest(v, mx, q)
  ELSE 2 * mx * q <= 254 * v - mx /\ 254 * v - mx < 2 * mx * (q + 1)

RootOf(x) == Max({r \in 0..128 : r * r <= x})

AttentionMeans(o, out) ==
  LET raw == attn_raw(o)
      real(p) == o.v[p] * o.v_s[p]
      e(p) == exp_lut[attn_index(o, p)]
      psum == Total([p \in DOMAIN o.dots |-> e(p)])
      reach == Total([p \in DOMAIN o.dots |-> Magnitude(real(p))])
      far(p) == 32 * (Max({raw[i] : i \in DOMAIN raw}) - raw[p])
      unit == One * One * RootOf(o.dqkv)
  IN  /\ \A p \in DOMAIN o.v :
           \/ 2 * Magnitude(attn_index(o, p) * unit - far(p)) <= unit
           \/ attn_index(o, p) = 255 /\ far(p) > 254 * unit
      /\ Total(attn_probs(o)) <= ProbOne
      /\ Magnitude(out) <= Max({Magnitude(real(p)) : p \in DOMAIN o.v})
      /\ ProbOne * Magnitude(out * psum - Total([p \in DOMAIN o.dots |-> e(p) * real(p)]))
           <= psum * (reach + ProbOne)
      /\ \A p, r \in DOMAIN o.v :
           raw[p] >= raw[r] => attn_probs(o)[p] >= attn_probs(o)[r]

Promised(o, out) ==
  CASE o.kernel = "requant" ->
         \A i \in DOMAIN o.v : /\ RoundsToNearest(o.v[i], absmax64(o.v), out.y[i])
                               /\ Represents(out.y[i], out.s, o.v[i], 1, 1)
    [] o.kernel = "isqrt" -> \A x \in o.range : out[x] = RootOf(x)
    [] o.kernel = "rms_norm" ->
         LET ms == AtLeast1(Total([i \in DOMAIN o.x |-> o.x[i] * o.x[i]]) \div Len(o.x))
         IN  \A i \in DOMAIN o.x :
               Represents(out.y[i], out.s, o.x[i] * o.w[i] * o.w_scale, RootOf(ms), 3)
    [] o.kernel = "rope" ->
         LET h == Len(o.head) \div 2
             near(q, x) == q = Clip8(q) /\ (128 * q <= x \/ q = -128)
                                        /\ (x < 128 * (q + 1) \/ q = 127)
         IN  \A i \in 1..h :
               /\ near(out[i], o.head[i] * o.cos[i] - o.head[i + h] * o.sin[i])
               /\ near(out[i + h], o.head[i + h] * o.cos[i] + o.head[i] * o.sin[i])
    [] o.kernel = "add_res" ->
         \A i \in DOMAIN o.a :
           Represents(out.y[i], out.s, o.a[i] * o.a_s + o.b[i] * o.b_s, 1, 1)
    [] o.kernel = "attention" -> AttentionMeans(o, out)
    [] o.kernel = "swiglu" ->
         LET full == o.g * o.g_s * o.u * o.u_s IN
         /\ out \in (Min({0, full}) \div One)..(Max({0, full}) \div One)
         /\ o.g * o.g_s * 32 >= 127 * One => out = full \div One
         /\ o.g * o.g_s * 32 < -127 * One => out = 0
    [] o.kernel = "matmul" ->
         \A i \in DOMAIN o.acc :
           Represents(out.y[i], out.s, o.acc[i] * o.ws * o.x_s, One, 1)
    [] o.kernel = "conv" ->
         LET b == biased(o)
             t == conv_y(o) IN
         /\ \A oc \in DOMAIN o.bias, k \in 1..o.m :
              LET i == (oc - 1) * o.m + k
                  real == o.acc[i] * o.x_s + o.bias[oc]
              IN  b[i] * o.x_s <= real /\ real < (b[i] + 1) * o.x_s
         /\ \A i \in DOMAIN b :
              /\ RoundsDown(b[i], absmax64(b), t.y[i])
              /\ Represents(t.y[i], t.s, b[i] * o.ws * o.x_s, One, 3)
         /\ o.lin => out = t
         /\ ~o.lin => \A i \in DOMAIN b :
              Represents(out.y[i], out.s, t.y[i] * SigmoidAt(t.y[i] * t.s) * t.s, LutOne, 3)
    [] o.kernel = "maxpool" ->
         \A e \in Grid(o.c, o.h, o.w) :
           LET near == {f \in Grid(o.c, o.h, o.w) :
                          /\ f[1] = e[1]
                          /\ Magnitude(f[2] - e[2]) <= 2
                          /\ Magnitude(f[3] - e[3]) <= 2}
           IN  out[Flat(e, o.h, o.w)] = {Max({o.x[Flat(f, o.h, o.w) + 1] : f \in near})}
    [] o.kernel = "upsample" ->
         \A e \in Grid(o.c, 2 * o.h, 2 * o.w) :
           out[Flat(e, 2 * o.h, 2 * o.w)] =
             {o.x[Flat(<<e[1], e[2] \div 2, e[3] \div 2>>, o.h, o.w) + 1]}
    [] o.kernel = "concat" ->
         LET all == o.a \o o.b
             from(i) == IF i <= Len(o.a) THEN o.a_s ELSE o.b_s
         IN  /\ out.s = Max({o.a_s, o.b_s})
             /\ \A i \in DOMAIN all :
                  /\ 2 * Magnitude(out.y[i] * out.s - all[i] * from(i)) <= out.s
                  /\ from(i) = out.s => out.y[i] = all[i]
    [] o.kernel = "add" ->
         \A i \in DOMAIN o.a :
           Represents(out.y[i], out.s, o.a[i] * o.a_s + o.b[i] * o.b_s, 1, 3)
    [] o.kernel = "softmax" ->
         /\ Total([i \in DOMAIN o.x |-> out[i] + 128]) \in 0..255
         /\ \A i, j \in DOMAIN o.x : o.x[i] >= o.x[j] => out[i] >= out[j]
    [] o.kernel = "channels" ->
         \A px \in 0..o.pixels - 1 :
           LET ch(i) == Len(o.parts[i]) \div o.pixels
               row == FlattenSeq([i \in DOMAIN o.parts |->
                         SubSeq(o.parts[i], px * ch(i) + 1, (px + 1) * ch(i))])
           IN  \A c \in DOMAIN row : out[px * Len(row) + c - 1] = {row[c]}
    [] o.kernel = "transpose" ->
         LET od == [k \in 1..4 |-> o.id[o.perm[k]]]
             digit(a, d, k) == (a \div strides(d)[k]) % d[k]
         IN  \A a \in DOMAIN out : \E src \in DOMAIN out :
               /\ out[a] = {src}
               /\ \A k \in 1..4 : digit(a, od, k) = digit(src, o.id, o.perm[k])

(* Every call of the integer arithmetic gives the number it stands for, to  *)
(* the rounding its scale allows: no bias but the documented one, no wrong  *)
(* root, no attention outside the values it averages, no sign lost, and     *)
(* every element of a moved tensor at its place (llm_forward.c, yolo_ops.c, *)
(* the end of llm_npu_matmul; softmax, concat and transpose of npulib).     *)
KernelsExact ==
  kout # << >> /\ kcase.kernel # "encode" => Promised(kcase, kout[1])

(* A text reaches the model as its byte pair encoding: one pass per rule in *)
(* rank order ends where merging the best pair again and again ends, and    *)
(* where every character is a token each starts as its own and the ids read *)
(* back as the text (llm_tokenizer_encode, _decode).  It does not say what  *)
(* another character should become: the code takes <unk>, its comment       *)
(* (llm_tokenizer.c:128) the token of the byte.                             *)
TextsEncoded ==
  kout # << >> /\ kcase.kernel = "encode" =>
    EncodedAsBpe(kcase.text, kcase.max_ids, kout[1])
=============================================================================
