----------------------------- MODULE MCWorkload -----------------------------
(* Small instances for Workload: the operators of MCNpuConv, bounded calls  *)
(* of the arithmetic, three stories of a two-layer model, and a detector of *)
(* two heads.                                                               *)
EXTENDS Workload, MCNpuConv

(* Tables of the right shape: straight lines.                               *)
MCSigmoidLut == [i \in -128..127 |-> i + 128]
MCExpLut == [d \in 0..255 |-> IF d < 96 THEN 64 \div 2^(d \div 16) ELSE 0]

----------------------------------------------------------------------------
(* Tokens: 0 unknown, 1 the marker, 2 "a", 3 "b", 4 the end of a story.     *)
MCVocab == << <<"?">>, <<"_">>, <<"a">>, <<"b">>, <<"e">>,
              <<"a", "a">>, <<"a", "b">>, <<"_", "a">>, <<"a", "a", "b">>,
              <<"_", "a", "a">>, <<"a", "b", "a", "b">> >>
MCMerges == << <<2, 2, 5>>, <<2, 3, 6>>, <<1, 2, 7>>, <<5, 3, 8>>, <<1, 5, 9>>,
               <<6, 6, 10>> >>

MCPrompts == << <<"a", "b", " ">>, << >>, <<" ", "b">> >>

(* Logits close enough for a penalty to change the best token.              *)
Row(best, v, next, w) == [i \in 0..10 |-> CASE i = best -> v [] i = next -> w [] OTHER -> -9]
MCLogitRows == {Row(2, 5, 3, 4), Row(3, 5, 6, 5), Row(4, 7, 2, 2)}

(* The tensors of a file, in the exporter's order and backwards.            *)
PerLayerSeq == <<"RMS_ATT_W", "WQ", "WK", "WV", "WO", "RMS_FFN_W", "W_GATE", "W_UP", "W_DOWN">>
ExporterOrder ==
  <<[id |-> "EMBEDDING", layer |-> 0]>>
    \o FlattenSeq([l \in 1..Layers |->
         [k \in 1..9 |-> [id |-> PerLayerSeq[k], layer |-> l - 1]]])
    \o <<[id |-> "RMS_OUT_W", layer |-> 0], [id |-> "LM_HEAD", layer |-> 0]>>
MCTensorTables == {ExporterOrder, Reverse(ExporterOrder)}

----------------------------------------------------------------------------
(* Calls of the arithmetic.                                                 *)
V == {-130, -127, -3, 0, 1, 64, 381}
W8 == {-128, -5, 0, 127}
Texts == UNION {[1..n -> {"a", "b", " ", "z"}] : n \in 0..4}

MCKernelCases ==
  {[kernel |-> "requant", v |-> v] : v \in [1..3 -> V]}
  \cup {[kernel |-> "isqrt", range |-> 0..16384]}
  \cup {[kernel |-> "rms_norm", x |-> x, w |-> w, w_scale |-> s] :
          x \in [1..2 -> W8], w \in {<<127, -3>>, <<-1, 20>>}, s \in {1, 16}}
  \cup {[kernel |-> "rope", head |-> h, cos |-> <<c[1]>>, sin |-> <<c[2]>>] :
          h \in [1..2 -> W8], c \in {<<127, 0>>, <<90, 90>>, <<0, -127>>, <<-128, 3>>}}
  \cup {[kernel |-> "add_res", a |-> a, a_s |-> s[1], b |-> b, b_s |-> s[2]] :
          a \in [1..2 -> W8], b \in {<<127, -5>>, <<-128, 0>>, <<0, 3>>},
          s \in {<<1, 1>>, <<40, 3>>}}
  \cup {[kernel |-> "attention", dots |-> d, q_s |-> 2, k_s |-> ks, dqkv |-> 4,
         v |-> v, v_s |-> <<3, 1, 2>>] :
          d \in [1..3 -> {-40, 0, 9, 60}], ks \in {<<1, 1, 1>>, <<1, 3, 2>>},
          v \in {<<127, -128, 5>>, <<-7, -7, -7>>, <<0, 100, -1>>}}
  \cup {[kernel |-> "swiglu", g |-> g, g_s |-> gs, u |-> u, u_s |-> 3] :
          g \in W8 \cup {1, -1, 7}, gs \in {1, 6}, u \in W8}
  \cup {[kernel |-> "matmul", acc |-> a, ws |-> w, x_s |-> x] :
          a \in [1..2 -> {-1000, -7, 0, 2, 640}], w \in {1, 12}, x \in {1, 9}}
  \cup {[kernel |-> "conv", lin |-> l, acc |-> a, m |-> 2, bias |-> b, ws |-> 5, x_s |-> x] :
          l \in BOOLEAN, a \in [1..4 -> {-700, -3, 200}],
          b \in {<<0, 0>>, <<-50, 7>>}, x \in {1, 6}}
  \cup {[kernel |-> "maxpool", c |-> 1, h |-> 3, w |-> 4, x |-> x] :
          x \in {<<-128, 1, 2, 3, -4, -5, -6, -7, 0, 9, 127, -128>>,
                 <<-128, -127, -3, -4, -5, -6, -7, -8, -128, -128, -1, -2>>}}
  \cup {[kernel |-> "upsample", c |-> 2, h |-> 2, w |-> 3, x |-> [i \in 1..12 |-> i - 6]]}
  \cup {[kernel |-> "concat", a |-> a, a_s |-> s[1], b |-> b, b_s |-> s[2]] :
          a \in [1..2 -> W8], b \in {<<127>>, <<-128>>, <<-5>>, <<2>>},
          s \in {<<4, 4>>, <<10, 3>>, <<2, 7>>}}
  \cup {[kernel |-> "add", a |-> a, a_s |-> s[1], b |-> b, b_s |-> s[2]] :
          a \in [1..2 -> W8], b \in {<<127, -5>>, <<-128, 0>>}, s \in {<<1, 1>>, <<9, 4>>}}
  \cup {[kernel |-> "softmax", x |-> x] : x \in [1..3 -> {-128, -20, 0, 127}]}
  \cup {[kernel |-> "channels", pixels |-> 2,
         parts |-> << <<1, 2, 3, 4>>, <<5, 6>>, <<7, 8, 9, 10, 11, 12>> >>]}
  \cup {[kernel |-> "transpose", id |-> <<2, 3, 1, 4>>, perm |-> p] :
          p \in {q \in [1..4 -> 1..4] : \A i, j \in 1..4 : q[i] = q[j] => i = j}}
  \cup {[kernel |-> "encode", text |-> t, max_ids |-> n] : t \in Texts, n \in {3, 64}}

----------------------------------------------------------------------------
(* Two heads of two anchors: 1 x 2 cells and one cell.                      *)
MCInput == [c |-> 1, h |-> 1, w |-> 2]

YoloOp(type, a, b, o, stride) ==
  [type |-> type, in_a |-> a, in_b |-> b, out |-> o, out_c |-> 14, k |-> 1,
   stride |-> stride, pad |-> 0]

MCModels ==
  {[ops |-> <<YoloOp("conv", -1, -1, 0, 1), YoloOp("maxpool", 0, -1, 1, 1),
              YoloOp("add", 0, 1, 2, 1), YoloOp("conv_lin", 2, -1, 3, 1),
              YoloOp("conv_lin", 2, -1, 4, 2)>>, detect |-> <<3, 4>>],
   [ops |-> <<YoloOp("conv_lin", -1, -1, 1, 1), YoloOp("upsample", 1, -1, 0, 1),
              YoloOp("concat", 1, 1, 2, 1), YoloOp("future", 2, -1, 3, 1)>>,
    detect |-> <<1, 3>>],
   [ops |-> [i \in 1..6 |-> YoloOp("maxpool", -1, -1, i - 1, 1)], detect |-> <<5>>]}

(* Logits -2..2; nothing there, and boxes large and small, of two classes.  *)
MCSigmoid == [v \in -2..2 |-> 8 + 4 * v]
MCDetectData ==
  {<<0, 0, 0, 0, -2, 0, 0>>, <<0, 0, 2, 2, 2, 2, 1>>, <<1, 0, 1, 1, 2, 1, 0>>,
   <<-1, 0, 2, 1, 1, 1, 2>>}
MCAnchors == << << <<24, 32>>, <<32, 40>> >>, << <<24, 32>>, <<40, 32>> >> >>
MCStrides == <<4, 8>>
MCPad == <<0, 1>>
MCOrig == <<12, 9>>
=============================================================================
