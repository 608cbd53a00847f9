-------------------------------- MODULE Yolo --------------------------------
(* Object detection (yolo_model_load, yolo_forward, yolo_postprocess): the  *)
(* op table is walked, one result tensor per op, then the detect tensors    *)
(* are decoded into boxes, suppressed and scaled back to the image.         *)
(*                                                                          *)
(* The values of the inner tensors are exact by Kernels and NpuConv, and    *)
(* are left out here: a result is its shape.  A detect tensor carries its   *)
(* logits, any of DetectData.  Coordinates are in Unit-ths of a pixel.      *)
EXTENDS Integers, Sequences, FiniteSetsExt, SequencesExt

CONSTANTS
  Models,      \* model files: [ops |-> the op table, detect |-> detect_idx]
  MaxOps,      \* YOLO_MAX_OPS (128)
  Input,       \* the input tensor: [c, h, w]
  Classes,     \* nc (80)
  na,          \* anchors of a cell (3)
  Anchors,     \* anchors_q16, of each scale: <<width, height>> in Unit-ths
  Strides,     \* strides, one per detect tensor
  DetectData,  \* cell and anchor |-> logits <<x, y, w, h, object, class...>>
  Sigmoid,     \* logit |-> probability in Unit-ths (sigmoid_q16)
  Unit,        \* Q16's one (65536)
  Conf, Iou,   \* thresholds, in Unit-ths
  MaxBoxes,    \* MAX_BOXES (512)
  Pad, Orig,   \* <<width, height>> of the letterbox padding and of the image
  InvScale     \* inv_scale_q16, in Unit-ths

ASSUME DetectionSizes ==
  /\ {MaxOps, Classes, na, Unit, MaxBoxes, InvScale} \subseteq Nat \ {0}
  /\ Iou \in 0..Unit /\ Conf \in 0..Unit
  /\ Pad \in Nat \X Nat /\ Orig \in Nat \X Nat
  /\ Strides \in Seq(Nat) /\ Anchors \in Seq([1..na -> Nat \X Nat])
  /\ Input.h \in Nat /\ Input.w \in Nat

ASSUME LogitsHaveProbabilities ==
  /\ DOMAIN Sigmoid \subseteq Int /\ Sigmoid \in [DOMAIN Sigmoid -> 0..Unit]
  /\ DetectData \subseteq [1..5 + Classes -> DOMAIN Sigmoid]

KnownOps == {"conv", "conv_lin", "maxpool", "upsample", "concat", "add"}
Op == [type : STRING, in_a : Int, in_b : Int, out : 0..MaxOps - 1,
       out_c : Nat, k : Nat, stride : Nat \ {0}, pad : Nat]

(* As the exporter writes a table that is not too long: an op reads results *)
(* of earlier ops, the padding of a convolution covers its kernel but for a *)
(* stride, and only heads write the detect tensors.                         *)
ASSUME OpTables ==
  \A m \in Models : Len(m.ops) \in Nat /\ (Len(m.ops) <= MaxOps =>
    /\ m.ops \in Seq(Op) /\ m.detect \in Seq(0..MaxOps - 1)
    /\ Len(m.detect) <= Len(Strides) /\ Len(m.detect) <= Len(Anchors)
    /\ \A i \in DOMAIN m.ops :
         LET o == m.ops[i] IN
         /\ {o.in_a, o.in_b} \subseteq {-1} \cup {m.ops[j].out : j \in 1..i - 1}
         /\ o.type \in {"conv", "conv_lin"} => o.k <= 2 * o.pad + o.stride
         /\ o.type \in KnownOps \ {"conv_lin"} =>
              \A si \in DOMAIN m.detect : m.detect[si] # o.out)

VARIABLES
  ystage, ops, detect_idx, op_at,
  results,     \* op index, from 0 |-> tensor, or NoTensorYet
  boxes, removed, keep,
  detections   \* what is printed: <<box, coordinates>>

yolo_vars == <<ystage, ops, detect_idx, op_at, results, boxes, removed, keep, detections>>

(* memset by the load: no data, no cells.                                   *)
NoTensorYet == [c |-> 0, h |-> 0, w |-> 0, logits |-> << >>]

yolo_init_at(stage) ==
  /\ ystage = stage
  /\ ops = << >> /\ detect_idx = << >> /\ op_at = 0
  /\ results = [i \in 0..MaxOps - 1 |-> NoTensorYet]
  /\ boxes = << >> /\ removed = {} /\ keep = << >> /\ detections = << >>

----------------------------------------------------------------------------
(* yolo_model_load: a table that is too long is refused.                    *)
yolo_model_load ==
  /\ ystage = "load"
  /\ \E m \in Models :
       /\ ops' = m.ops /\ detect_idx' = m.detect
       /\ ystage' = IF Len(m.ops) > MaxOps THEN "failed" ELSE "forward"
  /\ op_at' = 0
  /\ UNCHANGED <<results, boxes, removed, keep, detections>>

----------------------------------------------------------------------------
(* yolo_forward.                                                            *)

input_tensor(idx) ==
  IF idx < 0 THEN [c |-> Input.c, h |-> Input.h, w |-> Input.w, logits |-> << >>]
  ELSE results[idx]

Shape(c, h, w) == [c |-> c, h |-> h, w |-> w, logits |-> << >>]

OutSide(in, o) == (in + 2 * o.pad - o.k) \div o.stride + 1

ResultOf(o) ==
  LET a == input_tensor(o.in_a) IN
  CASE o.type \in {"conv", "conv_lin"} -> Shape(o.out_c, OutSide(a.h, o), OutSide(a.w, o))
    [] o.type = "upsample" -> Shape(a.c, 2 * a.h, 2 * a.w)
    [] o.type = "concat"   -> Shape(a.c + input_tensor(o.in_b).c, a.h, a.w)
    [] OTHER               -> Shape(a.c, a.h, a.w)   \* maxpool, add

CurrentOp == ops[op_at + 1]
Anchored(t) == (0..t.h - 1) \X (0..t.w - 1) \X (1..na)

(* Each op leaves its result; a head that predicts leaves logits.           *)
RunOp ==
  /\ ystage = "forward" /\ op_at < Len(ops)
  /\ CurrentOp.type \in KnownOps
  /\ LET r == ResultOf(CurrentOp) IN
     IF CurrentOp.type = "conv_lin"
     THEN \E d \in [Anchored(r) -> DetectData] :
            results' = [results EXCEPT ![CurrentOp.out] = [r EXCEPT !.logits = d]]
     ELSE results' = [results EXCEPT ![CurrentOp.out] = r]
  /\ op_at' = op_at + 1
  /\ UNCHANGED <<ystage, ops, detect_idx, boxes, removed, keep, detections>>

(* yolo_conv_npu refuses, or an op is unknown: yolo_forward returns, and    *)
(* its caller, which cannot tell, goes on to the detections.                *)
StopForward ==
  /\ ystage = "forward" /\ op_at < Len(ops)
  /\ CurrentOp.type \notin KnownOps \/ CurrentOp.type \in {"conv", "conv_lin"}
  /\ ystage' = "decode"
  /\ UNCHANGED <<ops, detect_idx, op_at, results, boxes, removed, keep, detections>>

EndForward ==
  /\ ystage = "forward" /\ op_at = Len(ops)
  /\ ystage' = "decode"
  /\ UNCHANGED <<ops, detect_idx, op_at, results, boxes, removed, keep, detections>>

----------------------------------------------------------------------------
(* decode: the cells over the threshold, in the order of the loops, as long *)
(* as there is room.                                                        *)

BestClass(l) ==
  LET logit(c) == l[5 + c] IN
  Min({c \in 1..Classes : \A d \in 1..Classes : logit(c) >= logit(d)})

Score(l) == (Sigmoid[l[5]] * Sigmoid[l[5 + BestClass(l)]]) \div Unit

Over(l) == Sigmoid[l[5]] >= Conf /\ Score(l) >= Conf

(* The box of a cell <<row, column, anchor>> of detect tensor si.           *)
BoxOf(si, cell, l) ==
  LET centre(v, g) == (2 * Sigmoid[v] - Unit \div 2 + g * Unit) * Strides[si]
      size(v, anchor) ==
        (((((2 * Sigmoid[v]) * (2 * Sigmoid[v])) \div Unit) * anchor) \div Unit) * Strides[si]
      cx == centre(l[1], cell[2])
      cy == centre(l[2], cell[1])
      hw == size(l[3], Anchors[si][cell[3]][1]) \div 2
      hh == size(l[4], Anchors[si][cell[3]][2]) \div 2
  IN  [x1 |-> cx - hw, y1 |-> cy - hh, x2 |-> cx + hw, y2 |-> cy + hh,
       score |-> Score(l), cls |-> BestClass(l)]

(* The cells of a tensor in the order they are visited: by anchor, row and  *)
(* column.                                                                  *)
InOrder(t) ==
  [n \in 1..t.h * t.w * na |->
     <<((n - 1) \div t.w) % t.h, (n - 1) % t.w, (n - 1) \div (t.h * t.w) + 1>>]

(* The boxes found before, and those of one tensor as long as there is      *)
(* room.                                                                    *)
CandidatesOf(si, before) ==
  LET t == results[detect_idx[si]]
      visit(found, cell) ==
        IF Over(t.logits[cell]) /\ Len(found) < MaxBoxes
        THEN Append(found, BoxOf(si, cell, t.logits[cell])) ELSE found
  IN  FoldLeft(visit, before, InOrder(t))

Candidates ==
  FoldLeft(LAMBDA found, si : CandidatesOf(si, found), << >>,
           [si \in DOMAIN detect_idx |-> si])

Decode ==
  /\ ystage = "decode"
  /\ boxes' = Candidates
  /\ removed' = {} /\ keep' = << >>
  /\ ystage' = "nms"
  /\ UNCHANGED <<ops, detect_idx, op_at, results, detections>>

----------------------------------------------------------------------------
(* nms, on whole pixels.                                                    *)

Px(v) == v \div Unit
Lesser(a, b) == IF a < b THEN a ELSE b
Greater(a, b) == IF a > b THEN a ELSE b
Area(b) == (Px(b.x2) - Px(b.x1)) * (Px(b.y2) - Px(b.y1))
InterW(a, b) == Lesser(Px(a.x2), Px(b.x2)) - Greater(Px(a.x1), Px(b.x1))
InterH(a, b) == Lesser(Px(a.y2), Px(b.y2)) - Greater(Px(a.y1), Px(b.y1))

Overlaps(a, b) ==
  LET inter == InterW(a, b) * InterH(a, b)
      uni == Area(a) + Area(b) - inter
  IN  /\ InterW(a, b) > 0 /\ InterH(a, b) > 0
      /\ uni > 0
      /\ (inter * Unit) \div uni > Iou

Remaining == DOMAIN boxes \ removed

BestBoxAny == CHOOSE i \in Remaining : TRUE   \* variant: boxes taken as they come
BestBox ==
  Min({i \in Remaining : \A j \in Remaining : boxes[i].score >= boxes[j].score})

(* The best box left is kept, and removes those of its class it overlaps.   *)
Suppress ==
  /\ ystage = "nms" /\ Remaining # {}
  /\ keep' = Append(keep, BestBox)
  /\ removed' = removed \cup {BestBox}
       \cup {i \in Remaining : /\ boxes[i].cls = boxes[BestBox].cls
                               /\ Overlaps(boxes[BestBox], boxes[i])}
  /\ UNCHANGED <<ystage, ops, detect_idx, op_at, results, boxes, detections>>

----------------------------------------------------------------------------
(* The kept boxes, moved out of the letterbox and clipped to the image.     *)

Rescaled(v, pad, lim) ==
  LET o == ((v - pad * Unit) * InvScale) \div (Unit * Unit)
  IN  Greater(0, Lesser(o, lim))

Report ==
  /\ ystage = "nms" /\ Remaining = {}
  /\ detections' =
       [i \in DOMAIN keep |->
          LET b == boxes[keep[i]] IN
          [box |-> b,
           x1 |-> Rescaled(b.x1, Pad[1], Orig[1]), y1 |-> Rescaled(b.y1, Pad[2], Orig[2]),
           x2 |-> Rescaled(b.x2, Pad[1], Orig[1]), y2 |-> Rescaled(b.y2, Pad[2], Orig[2])]]
  /\ ystage' = "done"
  /\ UNCHANGED <<ops, detect_idx, op_at, results, boxes, removed, keep>>

YoloNext ==
  \/ yolo_model_load \/ RunOp \/ StopForward \/ EndForward
  \/ Decode \/ Suppress \/ Report

----------------------------------------------------------------------------
(* Properties.                                                              *)

YoloTypeOK ==
  /\ ystage \in {"load", "failed", "forward", "decode", "nms", "done", "off"}
  /\ op_at \in 0..Len(ops)
  /\ DOMAIN results = 0..MaxOps - 1
  /\ Len(boxes) <= MaxBoxes /\ removed \subseteq DOMAIN boxes
  /\ \A i \in DOMAIN keep : keep[i] \in removed

(* The cells over the threshold, as a set, by what the forward left.        *)
Seen ==
  UNION {{BoxOf(si, cell, results[detect_idx[si]].logits[cell]) :
            cell \in {c \in Anchored(results[detect_idx[si]]) :
                        Over(results[detect_idx[si]].logits[c])}} : si \in DOMAIN detect_idx}

(* What is reported, also after a forward that stopped half way, is a       *)
(* maximal set of what the detect tensors it did compute show: no two of a  *)
(* class overlap, best first; every other candidate lost to a reported one  *)
(* of its class that overlaps it and scores at least as high; none is left  *)
(* out but by a full table; each lies in the image (decode, nms,            *)
(* yolo_postprocess).                                                       *)
DetectionsSound ==
  ystage = "done" =>
    LET reported == {detections[i].box : i \in DOMAIN detections}
    IN
    /\ reported \subseteq Seen
    /\ Len(boxes) < MaxBoxes => Seen = {boxes[i] : i \in DOMAIN boxes}
    /\ \A i, j \in DOMAIN detections : i < j =>
         LET a == detections[i].box
             b == detections[j].box IN
         /\ a.score >= b.score
         /\ a.cls = b.cls => ~Overlaps(a, b) /\ ~Overlaps(b, a)
    /\ \A n \in DOMAIN boxes :
         \/ boxes[n] \in reported
         \/ \E b \in reported : /\ b.cls = boxes[n].cls /\ b.score >= boxes[n].score
                                /\ Overlaps(b, boxes[n])
    /\ \A i \in DOMAIN detections :
         LET d == detections[i] IN
         /\ 0 <= d.x1 /\ d.x1 <= d.x2 /\ d.x2 <= Orig[1]
         /\ 0 <= d.y1 /\ d.y1 <= d.y2 /\ d.y2 <= Orig[2]
         /\ d.box.score >= Conf
=============================================================================
