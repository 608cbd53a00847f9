----------------------------- MODULE Tokenizer -----------------------------
(* llm_tokenizer.c: text to token ids by merging pairs, and back.  A text   *)
(* and the string of a token are sequences of characters; Mark is U+2581,   *)
(* which stands for a space inside a token (its three bytes are one         *)
(* character here, as no other token ends inside them).                     *)
EXTENDS Integers, Sequences, FiniteSetsExt, SequencesExt

CONSTANTS
  Mark,      \* the word boundary marker
  Vocab,     \* the token strings; id i is Vocab[i + 1], id 0 is <unk>
  Merges     \* the rules <<a, b, r>>: ids a b become r, in rank order

ASSUME TablesAreSequences ==
  Mark \in STRING /\ Vocab \in Seq(Seq(STRING)) /\ Merges \in Seq(Nat \X Nat \X Nat)

(* <unk> is in no rule.                                                     *)
ASSUME MergesAreTokens ==
  \A k \in DOMAIN Merges :
    /\ {Merges[k][i] : i \in 1..3} \subseteq 1..Len(Vocab) - 1
    /\ Vocab[Merges[k][3] + 1] = Vocab[Merges[k][1] + 1] \o Vocab[Merges[k][2] + 1]

(* As in story.tkn: a rule's result is used by later rules only, and no two *)
(* rules make the same token.                                               *)
ASSUME MergesAreRanked ==
  \A k, j \in DOMAIN Merges :
    /\ Merges[j][3] \in {Merges[k][1], Merges[k][2]} => j < k
    /\ Merges[j][3] = Merges[k][3] => j = k

tok_get_str(id) == IF id < Len(Vocab) THEN Vocab[id + 1] ELSE << >>

(* The first token with this string, 0 when there is none.                  *)
tok_find(str) ==
  LET found == {i \in 1..Len(Vocab) : Vocab[i] = str}
  IN  IF found = {} THEN 0 ELSE Min(found) - 1

(* One rule over the ids: at i, merge and look at i again, or go on.        *)
MergePassSkip(ids, rule) ==   \* variant: goes on after a merge
  LET look(st, k) ==
        IF st.i >= Len(st.ids) THEN st
        ELSE IF st.ids[st.i] = rule[1] /\ st.ids[st.i + 1] = rule[2]
        THEN [ids |-> ReplaceAt(RemoveAt(st.ids, st.i + 1), st.i, rule[3]), i |-> st.i + 2]
        ELSE [st EXCEPT !.i = st.i + 1]
  IN  FoldLeft(look, [ids |-> ids, i |-> 1], [k \in 1..2 * Len(ids) |-> k]).ids

MergePass(ids, rule) ==
  LET look(st, k) ==
        IF st.i >= Len(st.ids) THEN st
        ELSE IF st.ids[st.i] = rule[1] /\ st.ids[st.i + 1] = rule[2]
        THEN [st EXCEPT !.ids = ReplaceAt(RemoveAt(st.ids, st.i + 1), st.i, rule[3])]
        ELSE [st EXCEPT !.i = st.i + 1]
  IN  FoldLeft(look, [ids |-> ids, i |-> 1], [k \in 1..2 * Len(ids) |-> k]).ids

(* The normaliser: a marker in front, one for every space; max_ids ids.     *)
Normalised(text) ==
  <<Mark>> \o [i \in DOMAIN text |-> IF text[i] = " " THEN Mark ELSE text[i]]

Characters(text, max_ids) ==
  LET t == Normalised(text)
  IN  [i \in 1..Min({Len(t), max_ids}) |-> tok_find(<<t[i]>>)]

llm_tokenizer_encode(text, max_ids) ==
  FoldLeft(LAMBDA ids, rule : IF Len(ids) > 1 THEN MergePass(ids, rule) ELSE ids,
           Characters(text, max_ids), Merges)

llm_tokenizer_decode(id, buflen) ==
  LET s == tok_get_str(id)
      shown == [i \in DOMAIN s |-> IF s[i] = Mark THEN " " ELSE s[i]]
  IN  SubSeq(shown, 1, Min({Len(s), buflen - 1}))

----------------------------------------------------------------------------
(* Byte pair encoding: merge the best ranked pair present, leftmost first,  *)
(* until no rule applies.                                                   *)

Applies(ids, k, i) == ids[i] = Merges[k][1] /\ ids[i + 1] = Merges[k][2]

BpeStep(ids) ==
  LET pairs == {e \in (DOMAIN Merges) \X (1..Len(ids) - 1) : Applies(ids, e[1], e[2])}
      best == Min({e[1] : e \in pairs})
      first == Min({e[2] : e \in {x \in pairs : x[1] = best}})
  IN  IF pairs = {} THEN ids
      ELSE ReplaceAt(RemoveAt(ids, first + 1), first, Merges[best][3])

Bpe(ids) == FoldLeft(LAMBDA s, k : BpeStep(s), ids, [k \in 1..Len(ids) |-> k])

PieceLen == 64   \* decode_buf; story.tkn has two tokens that it cuts

(* Every character of the text is a token.                                  *)
Known(text) ==
  \A i \in DOMAIN Normalised(text) :
    \E k \in 1..Len(Vocab) : Vocab[k] = <<Normalised(text)[i]>>

(* The ids are where merging what the characters became ends, whatever they *)
(* became.  In a known text they became their tokens, and the ids of all of *)
(* it read back as the text.                                                *)
EncodedAsBpe(text, max_ids, ids) ==
  LET start == Characters(text, max_ids)
      told == FlattenSeq([i \in DOMAIN ids |-> llm_tokenizer_decode(ids[i], PieceLen)])
      whole == \A i \in DOMAIN ids : Len(tok_get_str(ids[i])) < PieceLen
  IN  /\ ids = Bpe(start)
      /\ BpeStep(ids) = ids
      /\ Len(ids) <= max_ids
      /\ Known(text) =>
           /\ \A i \in DOMAIN start : tok_get_str(start[i]) = <<Normalised(text)[i]>>
           /\ whole /\ Len(text) < max_ids => told = <<" ">> \o text
=============================================================================
