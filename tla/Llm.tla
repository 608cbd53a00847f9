-------------------------------- MODULE Llm --------------------------------
(* Text generation (llm_model_load, llm_generate, llm_forward), told story  *)
(* after story over one KV cache that is never cleared (test_llm.c).        *)
(*                                                                          *)
(* An activation is modelled by what it depends on: the tokens, each with   *)
(* the story it was fed in, that reach it through the attention.  What acts *)
(* on one position alone (norms, projections, SwiGLU, rope) keeps that, and *)
(* is exact by Kernels and NpuConv.  A head is one cell of the flat caches. *)
EXTENDS Tokenizer

CONSTANTS
  Layers,        \* num_hidden_layers (2 in story.tlm, at most 8)
  KvHeads,       \* num_kv_heads
  QueryPerKv,    \* n_groups: query heads that share one K and V head
  MaxSeq,        \* max_seq_len
  MaxIds,        \* ids a prompt may have (64)
  MaxTokens,     \* tokens of a story (256)
  RecentCap,     \* entries of recent (16)
  Eos,
  Prompts,       \* the texts, in order
  TensorTables,  \* the orders of the tensors in a model file
  LogitRows      \* what the LM head may compute: id |-> logit

ASSUME ModelSizes ==
  /\ {Layers, KvHeads, QueryPerKv, MaxSeq, MaxIds, RecentCap} \subseteq Nat \ {0}
  /\ MaxTokens \in Nat /\ Eos \in Nat

ASSUME PromptsAreTexts == Prompts \in Seq(Seq(STRING \ {Mark}))

(* test_llm.c asks for 64 + 256 positions of the 512 of story.tlm.          *)
ASSUME StoriesFit == MaxIds + MaxTokens <= MaxSeq

VARIABLES
  lstage, weights,
  story,               \* number of the prompt
  ids, pos, steps,
  next_token,
  layer,
  res,                 \* the tokens the residual depends on
  k_cache, v_cache, k_scale, v_scale,
  ctx,                 \* query head |-> position |-> what attention read there
  recent,
  fed                  \* the tokens of this story, as fed (not in the code)

caches == <<k_cache, v_cache, k_scale, v_scale>>
llm_vars == <<lstage, weights, story, ids, pos, steps, next_token, layer, res,
              caches, ctx, recent, fed>>

----------------------------------------------------------------------------
(* Loading.  The table puts each tensor in the slot its id and layer name.  *)

PerLayer == {"RMS_ATT_W", "WQ", "WK", "WV", "WO", "RMS_FFN_W", "W_GATE", "W_UP", "W_DOWN"}
Global == {"EMBEDDING", "RMS_OUT_W", "LM_HEAD"}

Slot(e) == IF e.id \in Global THEN <<e.id>> ELSE <<e.id, e.layer>>
Slots == {<<t>> : t \in Global} \cup (PerLayer \X (0..Layers - 1))

NoTensor == [id |-> "unset", layer |-> 0]

LoadedTensors(table) ==
  FoldLeft(LAMBDA w, e : [w EXCEPT ![Slot(e)] = e], [s \in Slots |-> NoTensor], table)

(* As tools/quantize_model.py writes them: every tensor is in the file.     *)
ASSUME FilesAreComplete ==
  \A table \in TensorTables :
    /\ table \in Seq([id : PerLayer \cup Global, layer : Nat])
    /\ \A s \in Slots : \E i \in DOMAIN table : Slot(table[i]) = s

kv_stride == MaxSeq * KvHeads
CacheCells == 0..Layers * kv_stride - 1
ScaleCells == 0..Layers * MaxSeq - 1
Cleared == [by |-> NoTensor, head |-> -1, at |-> 0, sees |-> << >>]

llm_init_at(stage) ==
  /\ lstage = stage
  /\ weights = [s \in Slots |-> NoTensor]
  /\ story = 0 /\ ids = << >> /\ pos = 0 /\ steps = 0 /\ next_token = 0 /\ layer = 0
  /\ res = << >> /\ ctx = << >> /\ recent = << >> /\ fed = << >>
  /\ k_cache = [c \in CacheCells |-> Cleared] /\ v_cache = k_cache
  /\ k_scale = [c \in ScaleCells |-> Cleared] /\ v_scale = k_scale

llm_model_load ==
  /\ lstage = "load"
  /\ \E table \in TensorTables : weights' = LoadedTensors(table)
  /\ lstage' = "prompt"
  /\ UNCHANGED <<story, ids, pos, steps, next_token, layer, res, caches, ctx,
                 recent, fed>>

(* A wrong magic number: test_llm gives up.                                 *)
BadMagic ==
  /\ lstage = "load"
  /\ lstage' = "failed"
  /\ UNCHANGED <<weights, story, ids, pos, steps, next_token, layer, res,
                 caches, ctx, recent, fed>>

----------------------------------------------------------------------------
(* llm_generate.                                                            *)

FirstPosKept == pos   \* variant: a story goes on where the one before ended
FirstPos == 0

BeginStory ==
  /\ lstage = "prompt"
  /\ story < Len(Prompts)
  /\ story' = story + 1
  /\ ids' = llm_tokenizer_encode(Prompts[story + 1], MaxIds)
  /\ pos' = FirstPos
  /\ recent' = << >>
  /\ next_token' = 0 /\ steps' = 0
  /\ fed' = << >>
  /\ lstage' = "feed"
  /\ UNCHANGED <<weights, layer, res, caches, ctx>>

InPrompt == Len(fed) < Len(ids)

(* The call of llm_forward with token t: the gather of its embedding.       *)
Forward(t) ==
  /\ fed' = Append(fed, <<story, t>>)
  /\ res' = << <<story, t>> >>
  /\ layer' = 0
  /\ lstage' = "project"
  /\ UNCHANGED <<weights, story, ids, pos, next_token, caches, ctx, recent>>

FeedPrompt ==
  /\ lstage = "feed" /\ InPrompt
  /\ Forward(ids[Len(fed) + 1])
  /\ UNCHANGED steps

(* The token is printed, and fed back.                                      *)
FeedBack ==
  /\ lstage = "feed" /\ ~InPrompt
  /\ steps < MaxTokens /\ next_token # Eos
  /\ steps' = steps + 1
  /\ Forward(next_token)

EndStory ==
  /\ lstage = "feed" /\ ~InPrompt
  /\ steps = MaxTokens \/ next_token = Eos
  /\ lstage' = "prompt"
  /\ UNCHANGED <<weights, story, ids, pos, steps, next_token, layer, res,
                 caches, ctx, recent, fed>>

----------------------------------------------------------------------------
(* llm_forward, layer by layer.                                             *)

KvCellByLayer(l, p, head) ==   \* variant: the stride of the scales
  l * MaxSeq + p * KvHeads + head
KvCell(l, p, head) == l * kv_stride + p * KvHeads + head
ScaleCell(l, p) == l * MaxSeq + p
AllHeads == -1   \* a scale is of all heads

(* What projection w gives at this position: of what, rotated by what.      *)
Projected(w, head) ==
  [by |-> weights[<<w, layer>>], head |-> head, at |-> pos, sees |-> res]

(* Norm, Q, K and V, rope, K and V into the cache with their scales.        *)
Project ==
  /\ lstage = "project"
  /\ LET store(cache, w) ==
           [c \in CacheCells |->
              IF \E g \in 0..KvHeads - 1 : c = KvCell(layer, pos, g)
              THEN Projected(w, CHOOSE g \in 0..KvHeads - 1 : c = KvCell(layer, pos, g))
              ELSE cache[c]]
         scaled(s, w) == [s EXCEPT ![ScaleCell(layer, pos)] = Projected(w, AllHeads)]
     IN  /\ k_cache' = store(k_cache, "WK") /\ v_cache' = store(v_cache, "WV")
         /\ k_scale' = scaled(k_scale, "WK") /\ v_scale' = scaled(v_scale, "WV")
  /\ lstage' = "attend"
  /\ UNCHANGED <<weights, story, ids, pos, steps, next_token, layer, res,
                 ctx, recent, fed>>

(* Every query head reads K and V of positions 0..pos, of the head its      *)
(* group shares; the output projection and the residual follow.             *)
ReadAt(qh, p) ==
  LET kvg == qh \div QueryPerKv IN
  [k |-> k_cache[KvCell(layer, p, kvg)], ks |-> k_scale[ScaleCell(layer, p)],
   v |-> v_cache[KvCell(layer, p, kvg)], vs |-> v_scale[ScaleCell(layer, p)]]

Own(e) == IF e.v.sees = << >> THEN <<0, 0>> ELSE Last(e.v.sees)

Attend ==
  /\ lstage = "attend"
  /\ ctx' = [qh \in 0..KvHeads * QueryPerKv - 1 |-> [p \in 0..pos |-> ReadAt(qh, p)]]
  /\ res' = [i \in 1..pos + 1 |-> Own(ctx'[0][i - 1])]
  /\ lstage' = "mlp"
  /\ UNCHANGED <<weights, story, ids, pos, steps, next_token, layer, caches,
                 recent, fed>>

Mlp ==
  /\ lstage = "mlp"
  /\ ctx' = << >>
  /\ layer' = layer + 1
  /\ lstage' = IF layer + 1 < Layers THEN "project" ELSE "head"
  /\ UNCHANGED <<weights, story, ids, pos, steps, next_token, res, caches,
                 recent, fed>>

(* Every entry of recent moves its logit half way to zero, once per entry.  *)
Penalised(row) ==
  FoldLeft(LAMBDA r, t :
             [r EXCEPT ![t] = IF @ > 0 THEN @ \div 2 ELSE @ + ((-@) \div 2)],
           row, recent)

ArgMax(row) ==
  Min({i \in DOMAIN row : \A j \in DOMAIN row : row[i] >= row[j]})

Recorded(t) ==
  IF Len(recent) < RecentCap THEN Append(recent, t) ELSE Append(Tail(recent), t)

LmHead ==
  /\ lstage = "head"
  /\ \E row \in LogitRows :
       LET result == ArgMax(Penalised(row)) IN
       /\ next_token' = result
       /\ recent' = Recorded(result)
  /\ pos' = pos + 1
  /\ lstage' = "feed"
  /\ UNCHANGED <<weights, story, ids, steps, layer, res, caches, ctx, fed>>

LlmNext ==
  \/ llm_model_load \/ BadMagic
  \/ BeginStory \/ FeedPrompt \/ FeedBack \/ EndStory
  \/ Project \/ Attend \/ Mlp \/ LmHead

----------------------------------------------------------------------------
(* Properties.                                                              *)

LlmTypeOK ==
  /\ lstage \in {"load", "failed", "prompt", "feed", "project", "attend", "mlp", "head", "off"}
  /\ story \in 0..Len(Prompts) /\ steps \in 0..MaxTokens
  /\ pos \in 0..MaxSeq /\ (lstage \in {"project", "attend", "mlp", "head"} => pos < MaxSeq)
  /\ layer \in 0..Layers
  /\ DOMAIN k_cache = CacheCells /\ DOMAIN v_cache = CacheCells
  /\ Len(recent) <= RecentCap /\ Len(ids) <= MaxIds

(* The K and V rows the attention of layer l reads at p: made from what     *)
(* position p of this story depended on there, by that layer's tensors.     *)
KvOf(w, l, p, head) ==
  [by |-> [id |-> w, layer |-> l], head |-> head, at |-> p,
   sees |-> IF l = 0 THEN <<fed[p + 1]>> ELSE SubSeq(fed, 1, p + 1)]

(* Whatever stories were told before and however the model file is ordered, *)
(* every query head of every layer attends to exactly the tokens of this    *)
(* story so far, each at its position, with that position's own scales and  *)
(* the K and V head of its group; and the repetition history is the last    *)
(* results of this story (llm_forward's flat cache addresses, llm_generate  *)
(* that clears no cache).                                                   *)
AttentionSeesTheStory ==
  /\ ctx # << >> =>
       /\ DOMAIN fed = 1..pos + 1
       /\ \A qh \in DOMAIN ctx :
            LET g == qh \div QueryPerKv IN
            ctx[qh] = [p \in 0..pos |->
              [k |-> KvOf("WK", layer, p, g), ks |-> KvOf("WK", layer, p, AllHeads),
               v |-> KvOf("WV", layer, p, g), vs |-> KvOf("WV", layer, p, AllHeads)]]
  /\ lstage = "feed" =>
       /\ Len(recent) = Min({pos, RecentCap})
       /\ pos > 0 => Last(recent) = next_token
       /\ \A i \in 1..Min({steps, Len(recent) - 1}) :
            recent[Len(recent) - i] = fed[Len(fed) - i + 1][2]

(* The prompts of the stories reach the model as their encodings.           *)
StoriesEncoded ==
  lstage = "feed" => EncodedAsBpe(Prompts[story], MaxIds, ids)
=============================================================================
