----------------------------- MODULE MCNpuConv -----------------------------
(* Small operators for NpuConv: with 8 channels to a group, 4 bytes to an   *)
(* entry, 2 rows of alignment, 6 banks of 128 bytes and blocks of 16 rows,  *)
(* the convolutions below need padding in K and N, several blocks, several  *)
(* tiles of the cap and of what the banks leave, and each refusal.          *)
EXTENDS NpuConv

Yolo(c, h, w, n, k, stride, pad) ==
  [kind |-> "yolo", c |-> c, h |-> h, w |-> w, n |-> n, k |-> k,
   stride |-> stride, pad |-> pad]

Llm(c, n) == [kind |-> "llm", c |-> c, n |-> n]

Params(h, w, c, n, kh, kw, s, pad) ==
  [in_h |-> h, in_w |-> w, in_c |-> c, out_c |-> n, kh |-> kh, kw |-> kw,
   stride_h |-> s, stride_w |-> s, pad_top |-> pad[1], pad_left |-> pad[2],
   pad_bottom |-> pad[3], pad_right |-> pad[4]]

DeconvParams(h, w, s, k, pad, op_h, op_w) ==
  [in_h |-> h, in_w |-> w, in_c |-> 8, out_c |-> 8, kh |-> k, kw |-> k,
   stride_h |-> s, stride_w |-> s, pad_top |-> pad, pad_left |-> pad,
   pad_bottom |-> pad, pad_right |-> pad,
   output_padding_h |-> op_h, output_padding_w |-> op_w]

(* The layers of a network, each able to follow any other.                  *)
NetLayers ==
  {Yolo(3, 6, 3, 5, 1, 1, 0),     \* 18 rows: a block of two tiles, one of 2 rows
   Yolo(2, 4, 4, 10, 3, 1, 1),    \* padded K and N, padded borders, two tiles
   Yolo(2, 4, 4, 6, 3, 2, 1),     \* stride 2
   Yolo(1, 4, 3, 6, 3, 1, 1),     \* a tile of 8 rows and one of 4
   Yolo(10, 3, 3, 12, 2, 1, 0)}   \* one bank left: tiles of 2 rows

Refusals ==
  {Yolo(8, 4, 3, 8, 3, 1, 1),     \* no aligned row fits
   Yolo(12, 3, 3, 16, 2, 1, 0),   \* the weights fill the banks
   Yolo(10, 5, 5, 12, 2, 1, 0)}   \* more tiles than the task buffer holds

Single ==
  {[kind |-> "conv", p |-> Params(4, 4, 8, 8, 3, 3, 1, <<1, 1, 1, 1>>)],
   [kind |-> "conv", p |-> Params(4, 3, 8, 16, 2, 1, 2, <<1, 0, 1, 1>>)],
   [kind |-> "depthwise", p |-> Params(4, 4, 8, 8, 2, 2, 2, <<0, 0, 0, 0>>)],
   [kind |-> "grouped", p |-> Params(4, 2, 8, 16, 2, 2, 1, <<1, 0, 0, 1>>), groups |-> 4],
   [kind |-> "grouped", p |-> Params(4, 2, 8, 16, 2, 2, 1, <<1, 0, 0, 1>>), groups |-> 3],
   [kind |-> "grouped", p |-> Params(4, 2, 8, 8, 1, 1, 1, <<0, 0, 0, 0>>), groups |-> 0],
   [kind |-> "deconv", p |-> DeconvParams(2, 2, 2, 2, 0, 0, 0)],
   [kind |-> "deconv", p |-> DeconvParams(3, 2, 2, 3, 1, 1, 0)],
   [kind |-> "deconv", p |-> DeconvParams(2, 2, 1, 1, 1, 0, 0)],
   [kind |-> "transpose", rows |-> 3, cols |-> 5],
   [kind |-> "transpose", rows |-> 9, cols |-> 8]}

MCPrograms ==
  {<<a, b>> : a \in NetLayers, b \in NetLayers \cup Refusals}
    \cup {<<Llm(16, 8), Llm(8, 16), Llm(16, 24)>>, <<Llm(8, 8), Llm(24, 8)>>}
    \cup {<<s>> : s \in Single}
=============================================================================
