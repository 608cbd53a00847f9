--------------------------- MODULE WorkloadProofs ---------------------------
(***************************************************************************)
(* Theorems about the story teller (Llm, Tokenizer) and the detector       *)
(* (Yolo), and their proofs; then the integer arithmetic of both networks  *)
(* (Kernels), one lemma for each kernel (..Exact), for any tensor and any  *)
(* scale.  The kernels that only move a tensor, and the theorem about all  *)
(* of them, are in OperatorProofs, with the layouts of the engine.         *)
(***************************************************************************)
EXTENDS Workload, SequenceTheorems, FiniteSetTheorems, WellFoundedInduction, TLAPS

(* A natural number of every non-empty set of them is the least.           *)
LEMMA LeastOf ==
  ASSUME NEW T, T \subseteq Nat, T # {}
  PROVE  \E n \in T : \A m \in T : n <= m
<1>1. PICK n \in T : \A m \in T : ~(<<m, n>> \in OpToRel(<, Nat))
  BY NatLessThanWellFounded, WFMin
<1>2. \A m \in T : ~(m < n)
  BY <1>1 DEF OpToRel
<1>3. QED BY <1>2

(* The greatest of a non-empty set of positions.                           *)
LEMMA MaxOf ==
  ASSUME NEW n \in Nat, NEW s, s \subseteq 1 .. n, s # {}
  PROVE  Max(s) \in s /\ \A i \in s : i <= Max(s)
<1> DEFINE T == {m \in 0 .. n : n - m \in s}
<1>1. T \subseteq Nat /\ T # {}
  <2>1. PICK i \in s : TRUE
    OBVIOUS
  <2>2. n - i \in 0 .. n /\ n - (n - i) = i
    BY <2>1
  <2>3. n - i \in T
    BY <2>2
  <2>4. T \subseteq Nat
    OBVIOUS
  <2>5. T # {}
    BY <2>3
  <2> HIDE DEF T
  <2>6. QED BY <2>4, <2>5
<1>2. PICK m \in T : \A k \in T : m <= k
  <2> HIDE DEF T
  <2>1. QED BY <1>1, LeastOf
<1>3. n - m \in s
  BY <1>2
<1>4. ASSUME NEW i \in s PROVE i <= n - m
  <2>1. n - i \in 0 .. n /\ n - (n - i) = i /\ i \in 1 .. n
    OBVIOUS
  <2>2. m <= n - i /\ m \in Nat
    BY <1>1, <1>2, <2>1
  <2>3. QED BY <2>1, <2>2
<1>5. \E x \in s : \A y \in s : x >= y
  <2>1. s \subseteq Int /\ n - m \in Int
    BY <1>3
  <2>2. QED BY <1>3, <1>4, <2>1
<1>6. Max(s) \in s /\ \A y \in s : Max(s) >= y
  BY <1>5, Zenon DEF Max
<1>7. QED BY <1>6

(* Taking the greatest position away shortens the range.                   *)
LEMMA WithoutMax ==
  ASSUME NEW k \in Nat, k > 0, NEW s \in SUBSET (1 .. k), s # {}
  PROVE  Max(s) \in s /\ s \ {Max(s)} \in SUBSET (1 .. k - 1)
<1>1. Max(s) \in s /\ \A i \in s : i <= Max(s)
  BY MaxOf
<1>2. ASSUME NEW i \in s \ {Max(s)} PROVE i \in 1 .. k - 1
  <2>1. i \in 1 .. k /\ Max(s) \in 1 .. k /\ i <= Max(s) /\ i # Max(s)
    BY <1>1
  <2>2. QED BY <2>1
<1>3. QED BY <1>1, <1>2

(* g folds F over positions 1..k, the way FoldLeft takes them.             *)
Folds(g, k, S, base, F) ==
  /\ g \in [SUBSET (1 .. k) -> S]
  /\ \A s \in SUBSET (1 .. k) :
       g[s] = IF s = {} THEN base ELSE F[<<g[s \ {Max(s)}], Max(s)>>]

(* A fold whose steps stay in a set has a value.                           *)
LEMMA FoldExists ==
  ASSUME NEW n \in Nat, NEW S, NEW base \in S, NEW F \in [S \X (1 .. n) -> S]
  PROVE  \E g : Folds(g, n, S, base, F)
<1> DEFINE Solves(g, k) == Folds(g, k, S, base, F)
           T == {k \in 0 .. n : ~ \E g : Solves(g, k)}
<1>1. SUFFICES ASSUME T # {} PROVE FALSE
  <2>1. n \in 0 .. n
    OBVIOUS
  <2>2. QED BY <1>1, <2>1
<1>2. T \subseteq Nat
  OBVIOUS
<1>3. PICK k \in T : \A m \in T : k <= m
  <2> HIDE DEF T
  <2>1. QED BY <1>1, <1>2, LeastOf
<1>4. k \in 0 .. n /\ ~ \E g : Solves(g, k)
  BY <1>3
<1>5. k # 0
  <2>1. SUFFICES ASSUME k = 0 PROVE FALSE
    OBVIOUS
  <2> DEFINE g == [s \in SUBSET (1 .. 0) |-> base]
  <2>2. SUBSET (1 .. 0) = {{}}
    <3>1. 1 .. 0 = {}
      OBVIOUS
    <3>2. QED BY <3>1
  <2>3. Solves(g, 0)
    BY <2>2 DEF Folds
  <2> HIDE DEF g, Solves
  <2>4. QED BY <1>4, <2>1, <2>3
<1>6. k - 1 \in 0 .. n /\ k - 1 \notin T
  <2>1. k - 1 \in 0 .. n /\ ~(k <= k - 1)
    BY <1>4, <1>5
  <2> HIDE DEF T
  <2>2. QED BY <1>3, <2>1
<1>7. PICK g : Solves(g, k - 1)
  <2> HIDE DEF Solves
  <2>1. QED BY <1>6
<1> DEFINE h == [s \in SUBSET (1 .. k) |->
                   IF s = {} THEN base ELSE F[<<g[s \ {Max(s)}], Max(s)>>]]
<1>8. ASSUME NEW s \in SUBSET (1 .. k), s # {}
      PROVE  Max(s) \in 1 .. n /\ s \ {Max(s)} \in SUBSET (1 .. k - 1)
  <2>1. k \in Nat /\ k > 0
    BY <1>4, <1>5
  <2>2. Max(s) \in s /\ s \ {Max(s)} \in SUBSET (1 .. k - 1)
    BY <1>8, <2>1, WithoutMax
  <2>3. Max(s) \in 1 .. k
    BY <2>2
  <2>4. QED BY <2>2, <2>3, <1>4
<1>9. h \in [SUBSET (1 .. k) -> S]
  <2>1. ASSUME NEW s \in SUBSET (1 .. k), s # {}
        PROVE  F[<<g[s \ {Max(s)}], Max(s)>>] \in S
    <3>1. g[s \ {Max(s)}] \in S /\ Max(s) \in 1 .. n
      BY <1>7, <1>8, <2>1 DEF Folds
    <3>2. <<g[s \ {Max(s)}], Max(s)>> \in S \X (1 .. n)
      BY <3>1
    <3>3. QED BY <3>2
  <2>2. QED BY <2>1
<1>10. ASSUME NEW t \in SUBSET (1 .. k - 1)
       PROVE  t \in SUBSET (1 .. k) /\ h[t] = g[t]
  <2>1. t \in SUBSET (1 .. k)
    BY <1>4
  <2>2. h[t] = IF t = {} THEN base ELSE F[<<g[t \ {Max(t)}], Max(t)>>]
    BY <2>1
  <2> HIDE DEF h
  <2>3. g[t] = IF t = {} THEN base ELSE F[<<g[t \ {Max(t)}], Max(t)>>]
    BY <1>7 DEF Folds
  <2>4. QED BY <2>1, <2>2, <2>3
<1>11. ASSUME NEW s \in SUBSET (1 .. k)
       PROVE  h[s] = IF s = {} THEN base ELSE F[<<h[s \ {Max(s)}], Max(s)>>]
  <2>1. h[s] = IF s = {} THEN base ELSE F[<<g[s \ {Max(s)}], Max(s)>>]
    OBVIOUS
  <2> HIDE DEF h
  <2>2. s # {} => h[s \ {Max(s)}] = g[s \ {Max(s)}]
    BY <1>8, <1>10
  <2>3. QED BY <2>1, <2>2
<1>12. Solves(h, k)
  <2> HIDE DEF h
  <2>1. QED BY <1>9, <1>11 DEF Folds
<1> HIDE DEF h, Solves
<1>13. QED BY <1>4, <1>12

(* What every step keeps, the fold keeps.                                  *)
LEMMA FoldStays ==
  ASSUME NEW n \in Nat, NEW S, NEW f, f[{}] \in S,
         \A s \in SUBSET (1 .. n) : s # {} /\ f[s \ {Max(s)}] \in S => f[s] \in S
  PROVE  \A s \in SUBSET (1 .. n) : f[s] \in S
<1> DEFINE T == {k \in 0 .. n : ~ \A s \in SUBSET (1 .. k) : f[s] \in S}
<1>1. SUFFICES ASSUME T # {} PROVE FALSE
  <2>1. n \in 0 .. n
    OBVIOUS
  <2>2. QED BY <1>1, <2>1
<1>2. T \subseteq Nat
  OBVIOUS
<1>3. PICK k \in T : \A m \in T : k <= m
  <2> HIDE DEF T
  <2>1. QED BY <1>1, <1>2, LeastOf
<1>4. k \in 0 .. n
  BY <1>3
<1>5. PICK s \in SUBSET (1 .. k) : f[s] \notin S
  BY <1>3
<1>6. s # {} /\ k # 0
  <2>1. s # {}
    BY <1>5
  <2>2. ASSUME k = 0 PROVE s = {}
    BY <2>2
  <2>3. QED BY <2>1, <2>2
<1>7. k - 1 \in 0 .. n /\ k - 1 \notin T
  <2>1. k - 1 \in 0 .. n /\ ~(k <= k - 1)
    BY <1>4, <1>6
  <2> HIDE DEF T
  <2>2. QED BY <1>3, <2>1
<1>8. \A t \in SUBSET (1 .. k - 1) : f[t] \in S
  BY <1>7
<1>9. s \ {Max(s)} \in SUBSET (1 .. k - 1)
  <2>1. k \in Nat /\ k > 0
    BY <1>4, <1>6
  <2>2. QED BY <1>6, <2>1, WithoutMax
<1>10. s \in SUBSET (1 .. n)
  BY <1>4
<1>11. QED BY <1>5, <1>6, <1>8, <1>9, <1>10
(* What RemoveAt leaves at each position. *)
LEMMA RemoveAtIndex ==
  ASSUME NEW S, NEW l \in Seq(S), NEW i \in 1 .. Len(l)
  PROVE  /\ RemoveAt(l, i) \in Seq(S)
         /\ Len(RemoveAt(l, i)) = Len(l) - 1
         /\ \A j \in 1 .. Len(l) - 1 :
              RemoveAt(l, i)[j] = IF j < i THEN l[j] ELSE l[j + 1]
<1> DEFINE p == SubSeq(l, 1, i - 1)
           q == SubSeq(l, i + 1, Len(l))
<1>0. /\ Len(l) \in Nat /\ i \in Nat
      /\ \A j \in 1 .. Len(l) : l[j] \in S
  BY LenProperties, ElementOfSeq
<1>1. /\ p \in Seq(S) /\ Len(p) = i - 1
      /\ \A j \in 1 .. i - 1 : p[j] = l[j]
  <2>1. \A j \in 1 .. i - 1 : l[j] \in S
    BY <1>0
  <2>2. /\ p \in Seq(S)
        /\ Len(p) = IF 1 <= i - 1 THEN (i - 1) - 1 + 1 ELSE 0
        /\ \A j \in 1 .. (i - 1) - 1 + 1 : p[j] = l[1 + j - 1]
    BY <2>1, <1>0, SubSeqProperties
  <2>3. QED BY <2>2, <1>0
<1>2. /\ q \in Seq(S) /\ Len(q) = Len(l) - i
      /\ \A j \in 1 .. Len(l) - i : q[j] = l[i + j]
  <2>1. \A j \in i + 1 .. Len(l) : l[j] \in S
    BY <1>0
  <2>2. /\ q \in Seq(S)
        /\ Len(q) = IF i + 1 <= Len(l) THEN Len(l) - (i + 1) + 1 ELSE 0
        /\ \A j \in 1 .. Len(l) - (i + 1) + 1 : q[j] = l[(i + 1) + j - 1]
    BY <2>1, <1>0, SubSeqProperties
  <2>3. QED BY <2>2, <1>0
<1>5. RemoveAt(l, i) = p \o q
  BY DEF RemoveAt
<1> HIDE DEF p, q
<1>3. /\ p \o q \in Seq(S)
      /\ Len(p \o q) = Len(p) + Len(q)
      /\ \A j \in 1 .. Len(p) + Len(q) :
           (p \o q)[j] = IF j <= Len(p) THEN p[j] ELSE q[j - Len(p)]
  BY <1>1, <1>2, ConcatProperties
<1>4. ASSUME NEW j \in 1 .. Len(l) - 1
      PROVE  (p \o q)[j] = IF j < i THEN l[j] ELSE l[j + 1]
  <2>1. CASE j < i
    BY <2>1, <1>0, <1>1, <1>2, <1>3
  <2>2. CASE ~(j < i)
    <3>1. (p \o q)[j] = q[j - (i - 1)]
      BY <2>2, <1>0, <1>1, <1>2, <1>3
    <3>2. j - (i - 1) \in 1 .. Len(l) - i
      BY <2>2, <1>0
    <3>3. q[j - (i - 1)] = l[i + (j - (i - 1))]
      BY <3>2, <1>2
    <3>4. i + (j - (i - 1)) = j + 1
      BY <1>0
    <3>5. QED BY <3>1, <3>3, <3>4, <2>2
  <2>3. QED BY <2>1, <2>2
<1>6. Len(p \o q) = Len(l) - 1
  BY <1>0, <1>1, <1>2, <1>3
<1>7. QED
  BY <1>3, <1>4, <1>5, <1>6

-----------------------------------------------------------------------------
(* The encoder.                                                            *)

(* One look of a pass, and the recursion its fold runs.                    *)
Look(st, rule) ==
  IF st.i >= Len(st.ids) THEN st
  ELSE IF st.ids[st.i] = rule[1] /\ st.ids[st.i + 1] = rule[2]
  THEN [st EXCEPT !.ids = ReplaceAt(RemoveAt(st.ids, st.i + 1), st.i, rule[3])]
  ELSE [st EXCEPT !.i = st.i + 1]

PassRec(f, toks, rule) ==
  f = [s \in SUBSET (1 .. 2 * Len(toks)) |->
         IF s = {} THEN [ids |-> toks, i |-> 1] ELSE Look(f[s \ {Max(s)}], rule)]

LEMMA PassEquation ==
  ASSUME NEW toks, NEW rule, NEW g, PassRec(g, toks, rule)
  PROVE  \E f : /\ PassRec(f, toks, rule)
                /\ MergePass(toks, rule) = f[1 .. 2 * Len(toks)].ids
<1>1. DOMAIN [k \in 1 .. 2 * Len(toks) |-> k] = 1 .. 2 * Len(toks)
  OBVIOUS
<1>2. QED
  BY <1>1, Zenon DEF MergePass, FoldLeft, MapThenFoldSet, PassRec, Look

(* The states of a pass over at most n ids.                                *)
PassStates(n) == {st \in [ids : Seq(Nat), i : Nat \ {0}] : Len(st.ids) <= n}

Rules == Nat \X Nat \X Nat

LEMMA LookStays ==
  ASSUME NEW n \in Nat, NEW st \in PassStates(n), NEW rule \in Rules
  PROVE  Look(st, rule) \in PassStates(n)
<1>1. /\ st \in [ids : Seq(Nat), i : Nat \ {0}] /\ st.ids \in Seq(Nat) /\ st.i \in Nat \ {0}
      /\ Len(st.ids) <= n /\ Len(st.ids) \in Nat /\ rule[3] \in Nat
  BY LenProperties DEF PassStates, Rules
<1>2. CASE st.i >= Len(st.ids)
  BY <1>2 DEF Look
<1>3. CASE /\ ~(st.i >= Len(st.ids))
           /\ st.ids[st.i] = rule[1] /\ st.ids[st.i + 1] = rule[2]
  <2> DEFINE r == RemoveAt(st.ids, st.i + 1)
             q == [r EXCEPT ![st.i] = rule[3]]
  <2>1. st.i + 1 \in 1 .. Len(st.ids)
    BY <1>1, <1>3
  <2>2. r \in Seq(Nat) /\ Len(r) = Len(st.ids) - 1
    BY <1>1, <2>1, RemoveAtIndex
  <2> HIDE DEF r
  <2>3. st.i \in 1 .. Len(r)
    <3>1. ~(st.i >= Len(st.ids))
      BY <1>3
    <3>2. QED BY <3>1, <1>1, <2>2
  <2>4. q \in Seq(Nat) /\ Len(q) = Len(r)
    BY <1>1, <2>2, <2>3, ExceptSeq
  <2>5. Look(st, rule) = [st EXCEPT !.ids = q]
    BY <1>3 DEF Look, ReplaceAt, r
  <2> HIDE DEF q
  <2>6. QED BY <1>1, <2>2, <2>4, <2>5 DEF PassStates
<1>4. CASE /\ ~(st.i >= Len(st.ids))
           /\ ~(st.ids[st.i] = rule[1] /\ st.ids[st.i + 1] = rule[2])
  <2>1. Look(st, rule) = [st EXCEPT !.i = st.i + 1]
    BY <1>4 DEF Look
  <2>2. QED BY <1>1, <2>1 DEF PassStates
<1>5. QED BY <1>2, <1>3, <1>4

(* Induction up to n.                                                      *)
LEMMA Upward ==
  ASSUME NEW n \in Nat, NEW G, 0 \in G, \A m \in 1 .. n : m - 1 \in G => m \in G
  PROVE  \A m \in 0 .. n : m \in G
<1> DEFINE T == {m \in 0 .. n : m \notin G}
<1>1. SUFFICES ASSUME T # {} PROVE FALSE
  OBVIOUS
<1>2. T \subseteq Nat
  OBVIOUS
<1>3. PICK k \in T : \A m \in T : k <= m
  <2> HIDE DEF T
  <2>1. QED BY <1>1, <1>2, LeastOf
<1>4. k \in 1 .. n /\ k \notin G
  BY <1>3
<1>5. k - 1 \in 0 .. n /\ ~(k <= k - 1)
  BY <1>4
<1>6. k - 1 \in G
  BY <1>3, <1>5
<1>7. QED BY <1>4, <1>6

LEMMA PrefixOf ==
  ASSUME NEW n \in Nat, NEW m \in 1 .. n
  PROVE  /\ 1 .. m \in SUBSET (1 .. n) /\ 1 .. m # {}
         /\ Max(1 .. m) = m /\ (1 .. m) \ {m} = 1 .. m - 1
<1>1. 1 .. m \subseteq 1 .. n /\ m \in 1 .. m
  OBVIOUS
<1>2. Max(1 .. m) \in 1 .. m /\ \A i \in 1 .. m : i <= Max(1 .. m)
  <2>1. 1 .. m \subseteq 1 .. n /\ 1 .. m # {}
    BY <1>1
  <2>2. QED BY <2>1, MaxOf
<1>3. Max(1 .. m) = m
  BY <1>1, <1>2
<1>4. (1 .. m) \ {m} = 1 .. m - 1
  OBVIOUS
<1>5. QED BY <1>1, <1>3, <1>4

(* A pass, look by look.                                                   *)
LEMMA PassChain ==
  ASSUME NEW toks \in Seq(Nat), NEW rule \in Rules
  PROVE  \E c : /\ c[0] = [ids |-> toks, i |-> 1]
                /\ \A m \in 1 .. 2 * Len(toks) : c[m] = Look(c[m - 1], rule)
                /\ MergePass(toks, rule) = c[2 * Len(toks)].ids
<1> DEFINE n == 2 * Len(toks)
           S == PassStates(Len(toks))
           start == [ids |-> toks, i |-> 1]
           F == [x \in S \X (1 .. n) |-> Look(x[1], rule)]
<1>1. Len(toks) \in Nat /\ n \in Nat
  BY LenProperties
<1>2. start \in S
  BY <1>1 DEF PassStates
<1>3. \A st \in S : Look(st, rule) \in S
  BY <1>1, LookStays
<1>4. F \in [S \X (1 .. n) -> S]
  BY <1>3
<1> HIDE DEF start, S, n
<1>5. PICK g : Folds(g, n, S, start, F)
  <2> HIDE DEF F
  <2>1. n \in Nat /\ start \in S /\ F \in [S \X (1 .. n) -> S]
    BY <1>1, <1>2, <1>4
  <2>2. QED BY <2>1, FoldExists
<1>6. ASSUME NEW s \in SUBSET (1 .. n), s # {}
      PROVE  s \ {Max(s)} \in SUBSET (1 .. n) /\ Max(s) \in 1 .. n
  BY <1>1, <1>6, MaxOf
<1>7. ASSUME NEW s \in SUBSET (1 .. n)
      PROVE  g[s] = IF s = {} THEN start ELSE Look(g[s \ {Max(s)}], rule)
  <2>1. CASE s = {}
    BY <1>5, <2>1 DEF Folds
  <2>2. CASE s # {}
    <3>1. g[s \ {Max(s)}] \in S /\ Max(s) \in 1 .. n
      BY <1>5, <1>6, <2>2 DEF Folds
    <3>2. F[<<g[s \ {Max(s)}], Max(s)>>] = Look(g[s \ {Max(s)}], rule)
      BY <3>1
    <3> HIDE DEF F
    <3>3. QED BY <1>5, <2>2, <3>2 DEF Folds
  <2>3. QED BY <2>1, <2>2
<1>8. PassRec(g, toks, rule)
  <2>1. g = [s \in SUBSET (1 .. n) |-> g[s]]
    BY <1>5 DEF Folds
  <2>2. g = [s \in SUBSET (1 .. n) |->
               IF s = {} THEN start ELSE Look(g[s \ {Max(s)}], rule)]
    BY <1>7, <2>1, Zenon
  <2>3. QED BY <2>2 DEF PassRec, n, start
<1>9. PICK f : PassRec(f, toks, rule) /\ MergePass(toks, rule) = f[1 .. 2 * Len(toks)].ids
  BY <1>8, PassEquation
<1> DEFINE c == [m \in 0 .. n |-> f[1 .. m]]
<1>10. f = [s \in SUBSET (1 .. n) |-> IF s = {} THEN start ELSE Look(f[s \ {Max(s)}], rule)]
  BY <1>9 DEF PassRec, n, start
<1>11. c[0] = start
  <2>1. 1 .. 0 = {} /\ 0 \in 0 .. n
    BY <1>1
  <2>2. QED BY <1>10, <2>1
<1>12. ASSUME NEW m \in 1 .. n PROVE c[m] = Look(c[m - 1], rule)
  <2>1. m \in 0 .. n /\ m - 1 \in 0 .. n
    BY <1>1
  <2>2. /\ 1 .. m \in SUBSET (1 .. n) /\ 1 .. m # {}
        /\ Max(1 .. m) = m /\ (1 .. m) \ {m} = 1 .. m - 1
    BY <1>1, PrefixOf
  <2>3. f[1 .. m] = Look(f[1 .. m - 1], rule)
    BY <1>10, <2>2
  <2>4. QED BY <2>1, <2>3
<1>13. c[n] = f[1 .. n]
  BY <1>1
<1> HIDE DEF c
<1>14. c[0] = [ids |-> toks, i |-> 1]
  BY <1>11 DEF start
<1>15. MergePass(toks, rule) = c[2 * Len(toks)].ids
  BY <1>9, <1>13 DEF n
<1>16. QED BY <1>12, <1>14, <1>15 DEF n

(* One rule over the ids never makes more of them.                         *)
LEMMA PassLength ==
  ASSUME NEW toks \in Seq(Nat), NEW rule \in Rules
  PROVE  MergePass(toks, rule) \in Seq(Nat) /\ Len(MergePass(toks, rule)) <= Len(toks)
<1> DEFINE n == 2 * Len(toks)
           S == PassStates(Len(toks))
<1>1. Len(toks) \in Nat /\ n \in Nat
  BY LenProperties
<1>2. PICK c : /\ c[0] = [ids |-> toks, i |-> 1]
               /\ \A m \in 1 .. n : c[m] = Look(c[m - 1], rule)
               /\ MergePass(toks, rule) = c[n].ids
  BY PassChain
<1> DEFINE G == {m \in 0 .. n : c[m] \in S}
<1>3. 0 \in G
  BY <1>1, <1>2 DEF PassStates
<1>4. ASSUME NEW m \in 1 .. n, m - 1 \in G PROVE m \in G
  <2>1. c[m] = Look(c[m - 1], rule) /\ c[m - 1] \in S
    BY <1>2, <1>4
  <2>2. c[m] \in S
    BY <1>1, <2>1, LookStays
  <2>3. QED BY <2>2
<1>5. n \in G
  <2> HIDE DEF G, n
  <2>1. \A m \in 0 .. n : m \in G
    BY <1>1, <1>3, <1>4, Upward
  <2>2. QED BY <1>1, <2>1
<1>6. c[n] \in S
  BY <1>5
<1>7. QED BY <1>2, <1>6 DEF PassStates

LEMMA MinOfTwo ==
  ASSUME NEW a \in Int, NEW b \in Int
  PROVE  Min({a, b}) \in {a, b} /\ Min({a, b}) <= a /\ Min({a, b}) <= b
<1>1. \E x \in {a, b} : \A y \in {a, b} : x =< y
  BY SMT
<1>2. Min({a, b}) \in {a, b} /\ \A y \in {a, b} : Min({a, b}) =< y
  BY <1>1, Zenon DEF Min
<1>3. QED BY <1>2

LEMMA MinOf ==
  ASSUME NEW T, T \subseteq Nat, T # {}
  PROVE  Min(T) \in T
<1>1. \E x \in T : \A y \in T : x =< y
  BY LeastOf
<1>2. QED BY <1>1, Zenon DEF Min

LEMMA FoundIds ==
  ASSUME NEW str
  PROVE  tok_find(str) \in Nat
<1> DEFINE found == {i \in 1 .. Len(Vocab) : Vocab[i] = str}
<1>1. found \subseteq Nat /\ \A i \in found : i - 1 \in Nat
  OBVIOUS
<1>2. tok_find(str) = IF found = {} THEN 0 ELSE Min(found) - 1
  BY DEF tok_find
<1> HIDE DEF found
<1>3. CASE found = {}
  BY <1>2, <1>3
<1>4. CASE found # {}
  <2>1. Min(found) \in found
    BY <1>1, <1>4, MinOf
  <2>2. QED BY <1>1, <1>2, <1>4, <2>1
<1>5. QED BY <1>3, <1>4

LEMMA TableSequence ==
  ASSUME NEW S, NEW m \in Nat, NEW s, s \in [1 .. m -> S]
  PROVE  s \in Seq(S) /\ Len(s) = m
<1>1. s \in Seq(S)
  BY SeqDef
<1>2. DOMAIN s = 1 .. m /\ DOMAIN s = 1 .. Len(s) /\ Len(s) \in Nat
  BY <1>1, LenProperties
<1>3. QED BY <1>1, <1>2

(* The ids before any merge: one per character and one for the marker, at  *)
(* most max_ids.                                                           *)
LEMMA CharactersLength ==
  ASSUME NEW text \in Seq(STRING), NEW max_ids \in Nat
  PROVE  /\ Characters(text, max_ids) \in Seq(Nat)
         /\ Len(Characters(text, max_ids)) <= max_ids
<1> DEFINE S == STRING \cup {Mark}
           u == [i \in DOMAIN text |-> IF text[i] = " " THEN Mark ELSE text[i]]
           t == Normalised(text)
           m == Min({Len(t), max_ids})
           c == [i \in 1 .. m |-> tok_find(<<t[i]>>)]
<1>1. u \in Seq(S)
  <2>1. DOMAIN text = 1 .. Len(text) /\ Len(text) \in Nat
    BY LenProperties
  <2>2. \A i \in 1 .. Len(text) : text[i] \in STRING
    BY ElementOfSeq
  <2>3. u \in [1 .. Len(text) -> S]
    BY <2>1, <2>2
  <2> HIDE DEF u, S
  <2>4. QED BY <2>1, <2>3, TableSequence
<1>2. <<Mark>> \in Seq(S)
  OBVIOUS
<1>3. t = <<Mark>> \o u
  BY DEF Normalised
<1> HIDE DEF u, t
<1>4. t \in Seq(S) /\ Len(t) \in Nat
  <2> HIDE DEF S
  <2>1. t \in Seq(S)
    BY <1>1, <1>2, <1>3, ConcatProperties
  <2>2. QED BY <2>1, LenProperties
<1>5. m \in Nat /\ m <= max_ids
  <2>1. Len(t) \in Int /\ max_ids \in Int
    BY <1>4
  <2>2. m \in {Len(t), max_ids} /\ m <= max_ids
    BY <2>1, MinOfTwo
  <2> HIDE DEF m
  <2>3. QED BY <1>4, <2>2
<1>6. c \in [1 .. m -> Nat]
  BY FoundIds
<1>7. Characters(text, max_ids) = c
  BY DEF Characters, t
<1> HIDE DEF c, m
<1>8. c \in Seq(Nat) /\ Len(c) = m
  BY <1>5, <1>6, TableSequence
<1>9. QED BY <1>5, <1>7, <1>8

(* The fold over the rules.                                                *)
MergeStep(toks, rule) == IF Len(toks) > 1 THEN MergePass(toks, rule) ELSE toks

MergeRec(f, text, max_ids) ==
  f = [s \in SUBSET (1 .. Len(Merges)) |->
         IF s = {} THEN Characters(text, max_ids)
         ELSE LET k == Max(s) IN MergeStep(f[s \ {k}], Merges[k])]

LEMMA MergeEquation ==
  ASSUME NEW text, NEW max_ids, NEW g, MergeRec(g, text, max_ids)
  PROVE  \E f : /\ MergeRec(f, text, max_ids)
                /\ llm_tokenizer_encode(text, max_ids) = f[1 .. Len(Merges)]
<1>1. DOMAIN Merges = 1 .. Len(Merges)
  BY TablesAreSequences, LenProperties
<1>2. QED
  BY <1>1, Zenon DEF llm_tokenizer_encode, FoldLeft, MapThenFoldSet, MergeRec, MergeStep

(* The rules, one by one.                                                  *)
LEMMA MergeChain ==
  ASSUME NEW text \in Seq(STRING), NEW max_ids \in Nat
  PROVE  \E c : /\ c[0] = Characters(text, max_ids)
                /\ \A m \in 1 .. Len(Merges) : c[m] = MergeStep(c[m - 1], Merges[m])
                /\ llm_tokenizer_encode(text, max_ids) = c[Len(Merges)]
<1> DEFINE n == Len(Merges)
           S == {toks \in Seq(Nat) : Len(toks) <= max_ids}
           start == Characters(text, max_ids)
           F == [x \in S \X (1 .. n) |-> MergeStep(x[1], Merges[x[2]])]
<1>1. n \in Nat /\ \A k \in 1 .. n : Merges[k] \in Rules
  BY TablesAreSequences, LenProperties, ElementOfSeq DEF Rules
<1>2. start \in S
  BY CharactersLength
<1>3. ASSUME NEW toks \in S, NEW k \in 1 .. n PROVE MergeStep(toks, Merges[k]) \in S
  <2>1. toks \in Seq(Nat) /\ Len(toks) \in Nat /\ Len(toks) <= max_ids /\ Merges[k] \in Rules
    BY <1>1, LenProperties
  <2>2. /\ MergePass(toks, Merges[k]) \in Seq(Nat)
        /\ Len(MergePass(toks, Merges[k])) <= Len(toks)
    BY <2>1, PassLength
  <2>3. Len(MergePass(toks, Merges[k])) \in Nat
    BY <2>2, LenProperties
  <2>4. QED BY <2>1, <2>2, <2>3 DEF MergeStep
<1>4. F \in [S \X (1 .. n) -> S]
  <2>1. ASSUME NEW x \in S \X (1 .. n) PROVE MergeStep(x[1], Merges[x[2]]) \in S
    <3>1. x[1] \in S /\ x[2] \in 1 .. n
      OBVIOUS
    <3> HIDE DEF S, n
    <3>2. QED BY <3>1, <1>3
  <2> HIDE DEF S, n
  <2>2. QED BY <2>1
<1> HIDE DEF start, S, n
<1>5. PICK g : Folds(g, n, S, start, F)
  <2> HIDE DEF F
  <2>1. n \in Nat /\ start \in S /\ F \in [S \X (1 .. n) -> S]
    BY <1>1, <1>2, <1>4
  <2>2. QED BY <2>1, FoldExists
<1>6. ASSUME NEW s \in SUBSET (1 .. n), s # {}
      PROVE  s \ {Max(s)} \in SUBSET (1 .. n) /\ Max(s) \in 1 .. n
  BY <1>1, <1>6, MaxOf
<1>7. ASSUME NEW s \in SUBSET (1 .. n)
      PROVE  g[s] = IF s = {} THEN start ELSE MergeStep(g[s \ {Max(s)}], Merges[Max(s)])
  <2>1. CASE s = {}
    BY <1>5, <2>1 DEF Folds
  <2>2. CASE s # {}
    <3>1. g[s \ {Max(s)}] \in S /\ Max(s) \in 1 .. n
      BY <1>5, <1>6, <2>2 DEF Folds
    <3>2. F[<<g[s \ {Max(s)}], Max(s)>>] = MergeStep(g[s \ {Max(s)}], Merges[Max(s)])
      BY <3>1
    <3> HIDE DEF F
    <3>3. QED BY <1>5, <2>2, <3>2 DEF Folds
  <2>3. QED BY <2>1, <2>2
<1>8. MergeRec(g, text, max_ids)
  <2>1. g = [s \in SUBSET (1 .. n) |-> g[s]]
    BY <1>5 DEF Folds
  <2>2. g = [s \in SUBSET (1 .. n) |->
               IF s = {} THEN start ELSE MergeStep(g[s \ {Max(s)}], Merges[Max(s)])]
    BY <1>7, <2>1, Zenon
  <2>3. QED BY <2>2 DEF MergeRec, n, start
<1>9. PICK f : MergeRec(f, text, max_ids) /\ llm_tokenizer_encode(text, max_ids) = f[1 .. n]
  BY <1>8, MergeEquation DEF n
<1>10. f = [s \in SUBSET (1 .. n) |->
              IF s = {} THEN start ELSE MergeStep(f[s \ {Max(s)}], Merges[Max(s)])]
  BY <1>9 DEF MergeRec, n, start
<1> DEFINE c == [m \in 0 .. n |-> f[1 .. m]]
<1>11. c[0] = start
  <2>1. 1 .. 0 = {} /\ 0 \in 0 .. n
    BY <1>1
  <2>2. QED BY <1>10, <2>1
<1>12. ASSUME NEW m \in 1 .. n PROVE c[m] = MergeStep(c[m - 1], Merges[m])
  <2>1. m \in 0 .. n /\ m - 1 \in 0 .. n
    BY <1>1
  <2>2. /\ 1 .. m \in SUBSET (1 .. n) /\ 1 .. m # {}
        /\ Max(1 .. m) = m /\ (1 .. m) \ {m} = 1 .. m - 1
    BY <1>1, PrefixOf
  <2>3. f[1 .. m] = MergeStep(f[1 .. m - 1], Merges[m])
    BY <1>10, <2>2
  <2>4. QED BY <2>1, <2>3
<1>13. c[n] = f[1 .. n]
  BY <1>1
<1> HIDE DEF c
<1>14. QED BY <1>9, <1>11, <1>12, <1>13 DEF n, start

(* The encoder never returns more ids than the caller has room for.        *)
THEOREM EncodingFits ==
  ASSUME NEW text \in Seq(STRING), NEW max_ids \in Nat
  PROVE  /\ llm_tokenizer_encode(text, max_ids) \in Seq(Nat)
         /\ Len(llm_tokenizer_encode(text, max_ids)) <= max_ids
<1> DEFINE n == Len(Merges)
           S == {toks \in Seq(Nat) : Len(toks) <= max_ids}
<1>1. n \in Nat /\ \A k \in 1 .. n : Merges[k] \in Rules
  BY TablesAreSequences, LenProperties, ElementOfSeq DEF Rules
<1>2. PICK c : /\ c[0] = Characters(text, max_ids)
               /\ \A m \in 1 .. n : c[m] = MergeStep(c[m - 1], Merges[m])
               /\ llm_tokenizer_encode(text, max_ids) = c[n]
  BY MergeChain
<1> DEFINE G == {m \in 0 .. n : c[m] \in S}
<1>3. 0 \in G
  BY <1>1, <1>2, CharactersLength
<1>4. ASSUME NEW m \in 1 .. n, m - 1 \in G PROVE m \in G
  <2> DEFINE x == c[m - 1]
  <2>1. x \in Seq(Nat) /\ Len(x) <= max_ids /\ c[m] = MergeStep(x, Merges[m])
    BY <1>2, <1>4
  <2> HIDE DEF x
  <2>2. /\ MergePass(x, Merges[m]) \in Seq(Nat) /\ Len(MergePass(x, Merges[m])) <= Len(x)
        /\ Len(x) \in Nat
    BY <1>1, <2>1, PassLength, LenProperties
  <2>3. Len(MergePass(x, Merges[m])) \in Nat
    BY <2>2, LenProperties
  <2>4. c[m] \in S
    BY <2>1, <2>2, <2>3 DEF MergeStep
  <2>5. QED BY <2>4
<1>5. n \in G
  <2> HIDE DEF G, n
  <2>1. \A m \in 0 .. n : m \in G
    BY <1>1, <1>3, <1>4, Upward
  <2>2. QED BY <1>1, <2>1
<1>6. c[n] \in S
  BY <1>5
<1>7. QED BY <1>2, <1>6

-----------------------------------------------------------------------------
(* Byte pair encoding: the passes in rank order end where it ends.         *)

(* Rule k at place i of toks.                                              *)
Merged(toks, k, i) == ReplaceAt(RemoveAt(toks, i + 1), i, Merges[k][3])

(* No rule before k applies; and rule k not before place i.                *)
Quiet(toks, k) ==
  \A j \in DOMAIN Merges : j < k => \A p \in 1 .. Len(toks) - 1 : ~Applies(toks, j, p)
QuietBefore(toks, k, i) == \A p \in 1 .. Len(toks) - 1 : p < i => ~Applies(toks, k, p)

LEMMA RuleFacts ==
  /\ DOMAIN Merges = 1 .. Len(Merges) /\ Len(Merges) \in Nat
  /\ \A k \in DOMAIN Merges :
       /\ Merges[k] \in Rules /\ k \in Nat
       /\ Merges[k][1] \in Nat /\ Merges[k][2] \in Nat /\ Merges[k][3] \in Nat
<1>1. Merges \in Seq(Rules)
  BY TablesAreSequences DEF Rules
<1>2. DOMAIN Merges = 1 .. Len(Merges) /\ Len(Merges) \in Nat
  BY <1>1, LenProperties
<1>3. \A k \in DOMAIN Merges : Merges[k] \in Rules /\ k \in Nat
  BY <1>1, <1>2, ElementOfSeq
<1>4. QED BY <1>2, <1>3 DEF Rules

LEMMA MergedFacts ==
  ASSUME NEW toks \in Seq(Nat), NEW k \in DOMAIN Merges, NEW i \in 1 .. Len(toks) - 1
  PROVE  /\ Merged(toks, k, i) \in Seq(Nat) /\ Len(Merged(toks, k, i)) = Len(toks) - 1
         /\ \A j \in 1 .. Len(toks) - 1 :
              Merged(toks, k, i)[j] = IF j < i THEN toks[j]
                                      ELSE IF j = i THEN Merges[k][3] ELSE toks[j + 1]
<1>1. Len(toks) \in Nat /\ i + 1 \in 1 .. Len(toks) /\ Merges[k][3] \in Nat
  BY LenProperties, RuleFacts
<1> DEFINE r == RemoveAt(toks, i + 1)
<1>2. /\ r \in Seq(Nat) /\ Len(r) = Len(toks) - 1
      /\ \A j \in 1 .. Len(toks) - 1 : r[j] = IF j < i + 1 THEN toks[j] ELSE toks[j + 1]
  BY <1>1, RemoveAtIndex
<1>3. Merged(toks, k, i) = [r EXCEPT ![i] = Merges[k][3]]
  BY DEF Merged, ReplaceAt
<1> HIDE DEF r
<1> DEFINE e == Merges[k][3]
           q == [r EXCEPT ![i] = e]
<1>4. /\ q \in Seq(Nat) /\ Len(q) = Len(r)
      /\ \A j \in 1 .. Len(r) : q[j] = IF j = i THEN e ELSE r[j]
  <2>1. i \in 1 .. Len(r) /\ r \in Seq(Nat) /\ e \in Nat
    BY <1>1, <1>2
  <2> HIDE DEF e
  <2>2. /\ q \in Seq(Nat) /\ Len(q) = Len(r) /\ q[i] = e
        /\ \A j \in 1 .. Len(r) \ {i} : q[j] = r[j]
    <3>1. q \in Seq(Nat) /\ Len(q) = Len(r)
      BY <2>1, ExceptSeq
    <3>2. DOMAIN r = 1 .. Len(r)
      BY <2>1, LenProperties
    <3>3. QED BY <2>1, <3>1, <3>2
  <2>3. QED BY <2>2
<1>5. Merged(toks, k, i) = q
  BY <1>3
<1> HIDE DEF q
<1>6. ASSUME NEW j \in 1 .. Len(toks) - 1
      PROVE  q[j] = IF j < i THEN toks[j] ELSE IF j = i THEN e ELSE toks[j + 1]
  <2>1. q[j] = IF j = i THEN e ELSE IF j < i + 1 THEN toks[j] ELSE toks[j + 1]
    BY <1>2, <1>4
  <2>2. QED BY <1>1, <2>1
<1>7. QED BY <1>2, <1>4, <1>5, <1>6

(* The best rule that applies, at the first place it does.                 *)
LEMMA StepMerges ==
  ASSUME NEW toks \in Seq(Nat), NEW k \in DOMAIN Merges, NEW i \in 1 .. Len(toks) - 1,
         Applies(toks, k, i), Quiet(toks, k), QuietBefore(toks, k, i)
  PROVE  BpeStep(toks) = Merged(toks, k, i)
<1> DEFINE pairs == {e \in (DOMAIN Merges) \X (1 .. Len(toks) - 1) : Applies(toks, e[1], e[2])}
           ranks == {e[1] : e \in pairs}
           firsts == {e[2] : e \in {x \in pairs : x[1] = k}}
<1>1. <<k, i>> \in pairs
  OBVIOUS
<1>2. k \in ranks /\ ranks \subseteq Nat /\ \A j \in ranks : k <= j
  <2>1. k \in ranks /\ ranks \subseteq Nat
    <3>1. <<k, i>>[1] = k
      OBVIOUS
    <3>2. k \in ranks
      BY <1>1, <3>1, Zenon
    <3>3. ASSUME NEW e \in pairs PROVE e[1] \in Nat
      BY RuleFacts
    <3>4. ranks \subseteq Nat
      BY <3>3
    <3>5. QED BY <3>2, <3>4
  <2>2. ASSUME NEW j \in ranks PROVE ~(j < k)
    BY RuleFacts DEF Quiet
  <2>3. \A j \in ranks : k <= j
    <3> HIDE DEF ranks
    <3>1. QED BY <2>1, <2>2
  <2>4. QED BY <2>1, <2>3
<1>3. i \in firsts /\ firsts \subseteq Nat /\ \A j \in firsts : i <= j
  <2>1. i \in firsts
    <3>1. <<k, i>>[1] = k /\ <<k, i>>[2] = i
      OBVIOUS
    <3>2. QED BY <1>1, <3>1, Zenon
  <2>2. firsts \subseteq 1 .. Len(toks) - 1 /\ firsts \subseteq Nat
    OBVIOUS
  <2>3. ASSUME NEW j \in firsts PROVE ~(j < i)
    BY <2>2 DEF QuietBefore
  <2>4. \A j \in firsts : i <= j
    <3> HIDE DEF firsts
    <3>1. QED BY <2>1, <2>2, <2>3
  <2>5. QED BY <2>1, <2>2, <2>4
<1>4. Min(ranks) = k
  <2> HIDE DEF ranks
  <2>1. \A x \in Nat : (x \in ranks /\ \A y \in ranks : x =< y) => x = k
    BY <1>2
  <2>2. Min(ranks) \in ranks /\ \A y \in ranks : Min(ranks) =< y
    BY <1>2, Zenon DEF Min
  <2>3. QED BY <1>2, <2>1, <2>2
<1>5. Min(firsts) = i
  <2> HIDE DEF firsts
  <2>1. \A x \in Nat : (x \in firsts /\ \A y \in firsts : x =< y) => x = i
    BY <1>3
  <2>2. Min(firsts) \in firsts /\ \A y \in firsts : Min(firsts) =< y
    BY <1>3, Zenon DEF Min
  <2>3. QED BY <1>3, <2>1, <2>2
<1>6. pairs # {}
  BY <1>1
<1>7. QED BY <1>4, <1>5, <1>6, Zenon DEF BpeStep, Merged

(* Where no rule applies a step changes nothing.                           *)
Settled(toks) == \A k \in DOMAIN Merges, p \in 1 .. Len(toks) - 1 : ~Applies(toks, k, p)

LEMMA StepRests ==
  ASSUME NEW toks, Settled(toks)
  PROVE  BpeStep(toks) = toks
<1>1. {e \in (DOMAIN Merges) \X (1 .. Len(toks) - 1) : Applies(toks, e[1], e[2])} = {}
  BY DEF Settled
<1>2. QED BY <1>1, Zenon DEF BpeStep

(* Where one does, some rule is the best and has a first place.            *)
LEMMA BestOf ==
  ASSUME NEW toks \in Seq(Nat), ~Settled(toks)
  PROVE  \E k \in DOMAIN Merges, i \in 1 .. Len(toks) - 1 :
           Applies(toks, k, i) /\ Quiet(toks, k) /\ QuietBefore(toks, k, i)
<1> DEFINE R == {k \in DOMAIN Merges : \E p \in 1 .. Len(toks) - 1 : Applies(toks, k, p)}
<1>1. R \subseteq Nat /\ R # {}
  BY RuleFacts DEF Settled
<1>2. PICK k \in R : \A j \in R : k <= j
  <2> HIDE DEF R
  <2>1. QED BY <1>1, LeastOf
<1>3. Quiet(toks, k)
  <2>1. ASSUME NEW j \in DOMAIN Merges, j < k, NEW p \in 1 .. Len(toks) - 1, Applies(toks, j, p)
        PROVE  FALSE
    <3>1. j \in R
      BY <2>1
    <3>2. k <= j /\ j \in Nat /\ k \in Nat
      BY <1>1, <1>2, <3>1
    <3>3. QED BY <2>1, <3>2
  <2>2. QED BY <2>1 DEF Quiet
<1> DEFINE P == {p \in 1 .. Len(toks) - 1 : Applies(toks, k, p)}
<1>4. P \subseteq Nat /\ P # {}
  BY <1>2
<1>5. PICK i \in P : \A p \in P : i <= p
  <2> HIDE DEF P
  <2>1. QED BY <1>4, LeastOf
<1>6. QuietBefore(toks, k, i)
  BY <1>4, <1>5 DEF QuietBefore
<1>7. QED BY <1>2, <1>3, <1>5, <1>6

LEMMA StepType ==
  ASSUME NEW toks \in Seq(Nat)
  PROVE  BpeStep(toks) \in Seq(Nat)
<1>1. CASE Settled(toks)
  BY <1>1, StepRests
<1>2. CASE ~Settled(toks)
  BY <1>2, BestOf, StepMerges, MergedFacts
<1>3. QED BY <1>1, <1>2

BpeRec(f, toks) ==
  f = [s \in SUBSET (1 .. Len(toks)) |->
         IF s = {} THEN toks ELSE BpeStep(f[s \ {Max(s)}])]

LEMMA BpeEquation ==
  ASSUME NEW toks, NEW g, BpeRec(g, toks)
  PROVE  \E f : BpeRec(f, toks) /\ Bpe(toks) = f[1 .. Len(toks)]
<1>1. DOMAIN [k \in 1 .. Len(toks) |-> k] = 1 .. Len(toks)
  OBVIOUS
<1>2. QED
  BY <1>1, Zenon DEF Bpe, FoldLeft, MapThenFoldSet, BpeRec

LEMMA BpeChain ==
  ASSUME NEW toks \in Seq(Nat)
  PROVE  \E c : /\ c[0] = toks
                /\ \A m \in 1 .. Len(toks) : c[m] = BpeStep(c[m - 1])
                /\ Bpe(toks) = c[Len(toks)]
<1> DEFINE n == Len(toks)
           S == Seq(Nat)
           F == [x \in S \X (1 .. n) |-> BpeStep(x[1])]
<1>1. n \in Nat
  BY LenProperties
<1>4. F \in [S \X (1 .. n) -> S]
  <2>1. ASSUME NEW x \in S \X (1 .. n) PROVE BpeStep(x[1]) \in S
    BY StepType
  <2> HIDE DEF S, n
  <2>2. QED BY <2>1
<1> HIDE DEF S, n
<1>5. PICK g : Folds(g, n, S, toks, F)
  <2> HIDE DEF F
  <2>1. n \in Nat /\ toks \in S /\ F \in [S \X (1 .. n) -> S]
    BY <1>1, <1>4 DEF S
  <2>2. QED BY <2>1, FoldExists
<1>6. ASSUME NEW s \in SUBSET (1 .. n), s # {}
      PROVE  s \ {Max(s)} \in SUBSET (1 .. n) /\ Max(s) \in 1 .. n
  BY <1>1, <1>6, MaxOf
<1>7. ASSUME NEW s \in SUBSET (1 .. n)
      PROVE  g[s] = IF s = {} THEN toks ELSE BpeStep(g[s \ {Max(s)}])
  <2>1. CASE s = {}
    BY <1>5, <2>1 DEF Folds
  <2>2. CASE s # {}
    <3>1. g[s \ {Max(s)}] \in S /\ Max(s) \in 1 .. n
      BY <1>5, <1>6, <2>2 DEF Folds
    <3>2. F[<<g[s \ {Max(s)}], Max(s)>>] = BpeStep(g[s \ {Max(s)}])
      BY <3>1
    <3> HIDE DEF F
    <3>3. QED BY <1>5, <2>2, <3>2 DEF Folds
  <2>3. QED BY <2>1, <2>2
<1>8. BpeRec(g, toks)
  <2>1. g = [s \in SUBSET (1 .. n) |-> g[s]]
    BY <1>5 DEF Folds
  <2>2. g = [s \in SUBSET (1 .. n) |-> IF s = {} THEN toks ELSE BpeStep(g[s \ {Max(s)}])]
    BY <1>7, <2>1, Zenon
  <2>3. QED BY <2>2 DEF BpeRec, n
<1>9. PICK f : BpeRec(f, toks) /\ Bpe(toks) = f[1 .. n]
  BY <1>8, BpeEquation DEF n
<1>10. f = [s \in SUBSET (1 .. n) |-> IF s = {} THEN toks ELSE BpeStep(f[s \ {Max(s)}])]
  BY <1>9 DEF BpeRec, n
<1> DEFINE c == [m \in 0 .. n |-> f[1 .. m]]
<1>11. c[0] = toks
  <2>1. 1 .. 0 = {} /\ 0 \in 0 .. n
    BY <1>1
  <2>2. QED BY <1>10, <2>1
<1>12. ASSUME NEW m \in 1 .. n PROVE c[m] = BpeStep(c[m - 1])
  <2>1. m \in 0 .. n /\ m - 1 \in 0 .. n
    BY <1>1
  <2>2. /\ 1 .. m \in SUBSET (1 .. n) /\ 1 .. m # {}
        /\ Max(1 .. m) = m /\ (1 .. m) \ {m} = 1 .. m - 1
    BY <1>1, PrefixOf
  <2>3. f[1 .. m] = BpeStep(f[1 .. m - 1])
    BY <1>10, <2>2
  <2>4. QED BY <2>1, <2>3
<1>13. c[n] = f[1 .. n]
  BY <1>1
<1> HIDE DEF c
<1>14. QED BY <1>9, <1>11, <1>12, <1>13 DEF n

LEMMA BpeOfSettled ==
  ASSUME NEW toks \in Seq(Nat), Settled(toks)
  PROVE  Bpe(toks) = toks
<1>1. PICK c : /\ c[0] = toks
               /\ \A m \in 1 .. Len(toks) : c[m] = BpeStep(c[m - 1])
               /\ Bpe(toks) = c[Len(toks)]
  BY BpeChain
<1> DEFINE G == {m \in 0 .. Len(toks) : c[m] = toks}
<1>2. Len(toks) \in Nat
  BY LenProperties
<1>3. 0 \in G
  BY <1>1, <1>2
<1>4. ASSUME NEW m \in 1 .. Len(toks), m - 1 \in G PROVE m \in G
  BY <1>1, <1>2, <1>4, StepRests
<1>5. \A m \in 0 .. Len(toks) : m \in G
  <2> HIDE DEF G
  <2>1. QED BY <1>2, <1>3, <1>4, Upward
<1>6. Len(toks) \in G
  BY <1>2, <1>5
<1>7. QED BY <1>1, <1>6

(* A step of byte pair encoding does not change where it ends.             *)
LEMMA BpeAbsorbs ==
  ASSUME NEW toks \in Seq(Nat), NEW next \in Seq(Nat),
         BpeStep(toks) = next, Len(next) = Len(toks) - 1
  PROVE  Bpe(next) = Bpe(toks)
<1>1. PICK c : /\ c[0] = toks
               /\ \A m \in 1 .. Len(toks) : c[m] = BpeStep(c[m - 1])
               /\ Bpe(toks) = c[Len(toks)]
  BY BpeChain
<1>2. PICK d : /\ d[0] = next
               /\ \A m \in 1 .. Len(next) : d[m] = BpeStep(d[m - 1])
               /\ Bpe(next) = d[Len(next)]
  BY BpeChain
<1>3. Len(toks) \in Nat /\ Len(next) \in Nat /\ Len(next) + 1 = Len(toks)
  BY LenProperties
<1> DEFINE G == {m \in 0 .. Len(next) : d[m] = c[m + 1]}
<1>4. 0 \in G
  <2>1. c[1] = BpeStep(c[0])
    <3>1. 1 \in 1 .. Len(toks) /\ 1 - 1 = 0
      BY <1>3
    <3>2. QED BY <1>1, <3>1
  <2>2. QED BY <1>1, <1>2, <1>3, <2>1
<1>5. ASSUME NEW m \in 1 .. Len(next), m - 1 \in G PROVE m \in G
  <2>1. d[m - 1] = c[m] /\ d[m] = BpeStep(d[m - 1])
    BY <1>2, <1>5
  <2>2. m + 1 \in 1 .. Len(toks) /\ (m + 1) - 1 = m
    BY <1>3
  <2>3. c[m + 1] = BpeStep(c[m])
    BY <1>1, <2>2
  <2>4. QED BY <2>1, <2>3
<1>6. \A m \in 0 .. Len(next) : m \in G
  <2> HIDE DEF G
  <2>1. QED BY <1>3, <1>4, <1>5, Upward
<1>7. Len(next) \in G
  BY <1>3, <1>6
<1>8. QED BY <1>1, <1>2, <1>3, <1>7

-----------------------------------------------------------------------------
(* The text the ids stand for.                                             *)

(* The piece of text t from a on to b is the string of token id.           *)
PieceAt(id, t, a, b) ==
  /\ id \in 0 .. Len(Vocab) - 1
  /\ b = a + Len(Vocab[id + 1])
  /\ \A q \in 1 .. Len(Vocab[id + 1]) : t[a + q] = Vocab[id + 1][q]

(* The strings of toks, one after the other, are t.                        *)
Spells(toks, t) ==
  \E cut \in [0 .. Len(toks) -> 0 .. Len(t)] :
    /\ cut[0] = 0 /\ cut[Len(toks)] = Len(t)
    /\ \A i \in 1 .. Len(toks) : PieceAt(toks[i], t, cut[i - 1], cut[i])

LEMMA PieceJoined ==
  ASSUME NEW k \in DOMAIN Merges, NEW t, NEW a \in Nat, NEW b \in Nat, NEW c \in Nat,
         PieceAt(Merges[k][1], t, a, b), PieceAt(Merges[k][2], t, b, c)
  PROVE  PieceAt(Merges[k][3], t, a, c)
<1> DEFINE x == Vocab[Merges[k][1] + 1]
           y == Vocab[Merges[k][2] + 1]
           z == Vocab[Merges[k][3] + 1]
<1>1. /\ Merges[k][1] \in 0 .. Len(Vocab) - 1 /\ Merges[k][2] \in 0 .. Len(Vocab) - 1
      /\ b = a + Len(x) /\ c = b + Len(y)
      /\ \A q \in 1 .. Len(x) : t[a + q] = x[q]
      /\ \A q \in 1 .. Len(y) : t[b + q] = y[q]
  BY DEF PieceAt
<1>2. Merges[k][3] \in 1 .. Len(Vocab) - 1 /\ z = x \o y
  <2>1. {Merges[k][i] : i \in 1 .. 3} \subseteq 1 .. Len(Vocab) - 1
    BY MergesAreTokens
  <2>2. Merges[k][3] \in {Merges[k][i] : i \in 1 .. 3}
    OBVIOUS
  <2>3. QED BY <2>1, <2>2, MergesAreTokens
<1>3. x \in Seq(STRING) /\ y \in Seq(STRING)
  <2>1. Vocab \in Seq(Seq(STRING)) /\ Len(Vocab) \in Nat
    BY TablesAreSequences, LenProperties
  <2> DEFINE m == Merges[k][1]
             n == Merges[k][2]
  <2>2. m \in 0 .. Len(Vocab) - 1 /\ n \in 0 .. Len(Vocab) - 1
    BY <1>1
  <2> HIDE DEF m, n
  <2>3. m + 1 \in 1 .. Len(Vocab) /\ n + 1 \in 1 .. Len(Vocab)
    BY <2>1, <2>2
  <2>4. Vocab[m + 1] \in Seq(STRING) /\ Vocab[n + 1] \in Seq(STRING)
    BY <2>1, <2>3, ElementOfSeq
  <2>5. QED BY <2>4 DEF m, n, x, y
<1> HIDE DEF x, y, z
<1>4. Len(x) \in Nat /\ Len(y) \in Nat
  BY <1>3, LenProperties
<1>5. /\ Len(z) = Len(x) + Len(y)
      /\ \A q \in 1 .. Len(x) + Len(y) : z[q] = IF q <= Len(x) THEN x[q] ELSE y[q - Len(x)]
  BY <1>2, <1>3, ConcatProperties
<1>6. ASSUME NEW q \in 1 .. Len(z) PROVE t[a + q] = z[q]
  <2>1. CASE q <= Len(x)
    BY <1>1, <1>4, <1>5, <2>1
  <2>2. CASE ~(q <= Len(x))
    <3>1. q - Len(x) \in 1 .. Len(y) /\ b + (q - Len(x)) = a + q
      BY <1>1, <1>4, <1>5, <2>2
    <3>2. t[b + (q - Len(x))] = y[q - Len(x)]
      BY <1>1, <3>1
    <3>3. z[q] = y[q - Len(x)]
      BY <1>4, <1>5, <2>2
    <3>4. QED BY <3>1, <3>2, <3>3
  <2>3. QED BY <2>1, <2>2
<1>7. c = a + Len(z)
  BY <1>1, <1>4, <1>5
<1>8. Merges[k][3] \in 0 .. Len(Vocab) - 1
  BY <1>2
<1>9. QED BY <1>6, <1>7, <1>8 DEF PieceAt, z

LEMMA MergedSpells ==
  ASSUME NEW toks \in Seq(Nat), NEW k \in DOMAIN Merges, NEW i \in 1 .. Len(toks) - 1,
         Applies(toks, k, i), NEW t, Len(t) \in Nat, Spells(toks, t)
  PROVE  Spells(Merged(toks, k, i), t)
<1> DEFINE y == Merged(toks, k, i)
<1>1. /\ y \in Seq(Nat) /\ Len(y) = Len(toks) - 1 /\ Len(toks) \in Nat /\ Len(y) \in Nat
      /\ \A j \in 1 .. Len(toks) - 1 :
           y[j] = IF j < i THEN toks[j] ELSE IF j = i THEN Merges[k][3] ELSE toks[j + 1]
  BY MergedFacts, LenProperties
<1>2. toks[i] = Merges[k][1] /\ toks[i + 1] = Merges[k][2]
  BY DEF Applies
<1> HIDE DEF y
<1>3. PICK cut \in [0 .. Len(toks) -> 0 .. Len(t)] :
        /\ cut[0] = 0 /\ cut[Len(toks)] = Len(t)
        /\ \A j \in 1 .. Len(toks) : PieceAt(toks[j], t, cut[j - 1], cut[j])
  BY DEF Spells
<1> DEFINE new == [j \in 0 .. Len(y) |-> IF j < i THEN cut[j] ELSE cut[j + 1]]
<1>4. \A j \in 0 .. Len(y) : j \in 0 .. Len(toks) /\ j + 1 \in 0 .. Len(toks)
  BY <1>1
<1>5. new \in [0 .. Len(y) -> 0 .. Len(t)]
  BY <1>3, <1>4
<1>6. new[0] = 0 /\ new[Len(y)] = Len(t)
  <2>1. 0 \in 0 .. Len(y) /\ 0 < i /\ Len(y) \in 0 .. Len(y) /\ ~(Len(y) < i)
        /\ Len(y) + 1 = Len(toks)
    BY <1>1
  <2>2. QED BY <1>3, <2>1
<1>7. ASSUME NEW j \in 1 .. Len(y) PROVE PieceAt(y[j], t, new[j - 1], new[j])
  <2>1. j \in 0 .. Len(y) /\ j - 1 \in 0 .. Len(y) /\ j \in 1 .. Len(toks) - 1
    <3>1. Len(y) = Len(toks) - 1 /\ Len(y) \in Nat
      BY <1>1
    <3> HIDE DEF new
    <3>2. QED BY <3>1
  <2>2. CASE j < i
    <3>1. new[j - 1] = cut[j - 1] /\ new[j] = cut[j] /\ y[j] = toks[j]
      BY <1>1, <2>1, <2>2
    <3> HIDE DEF new
    <3>2. QED BY <1>3, <2>1, <3>1
  <2>3. CASE j = i
    <3>1. new[j - 1] = cut[i - 1] /\ new[j] = cut[i + 1] /\ y[j] = Merges[k][3]
      <4>1. j - 1 < i /\ ~(j < i)
        BY <2>3
      <4>2. new[j - 1] = cut[j - 1] /\ new[j] = cut[j + 1]
        BY <2>1, <4>1
      <4>3. y[j] = Merges[k][3]
        BY <1>1, <2>1, <2>3, <4>1
      <4>4. QED BY <2>3, <4>2, <4>3
    <3> HIDE DEF new
    <3>2. i \in 1 .. Len(toks) /\ i + 1 \in 1 .. Len(toks) /\ (i + 1) - 1 = i
          /\ i - 1 \in 0 .. Len(toks) /\ i \in 0 .. Len(toks) /\ i + 1 \in 0 .. Len(toks)
      <4>1. Len(toks) \in Nat
        BY <1>1
      <4>2. QED BY <4>1
    <3>3. PieceAt(Merges[k][1], t, cut[i - 1], cut[i]) /\ PieceAt(Merges[k][2], t, cut[i], cut[i + 1])
      BY <1>2, <1>3, <3>2
    <3>4. cut[i - 1] \in Nat /\ cut[i] \in Nat /\ cut[i + 1] \in Nat
      <4>1. 0 .. Len(t) \subseteq Nat
        OBVIOUS
      <4>2. QED BY <1>3, <3>2, <4>1
    <3>5. PieceAt(Merges[k][3], t, cut[i - 1], cut[i + 1])
      BY <3>3, <3>4, PieceJoined
    <3>6. QED BY <3>1, <3>5
  <2>4. CASE j > i
    <3>1. new[j - 1] = cut[(j + 1) - 1] /\ new[j] = cut[j + 1] /\ y[j] = toks[j + 1]
      <4>1. ~(j - 1 < i) /\ ~(j < i) /\ j # i /\ (j - 1) + 1 = (j + 1) - 1
        BY <2>4
      <4>2. new[j - 1] = cut[(j - 1) + 1] /\ new[j] = cut[j + 1]
        BY <2>1, <4>1
      <4>3. y[j] = toks[j + 1]
        BY <1>1, <2>1, <4>1
      <4>4. QED BY <4>1, <4>2, <4>3
    <3> HIDE DEF new
    <3>2. j + 1 \in 1 .. Len(toks)
      BY <1>1, <2>1
    <3>3. QED BY <1>3, <3>1, <3>2
  <2>5. QED BY <2>2, <2>3, <2>4
<1> HIDE DEF new
<1>8. QED BY <1>5, <1>6, <1>7 DEF Spells, y

(* A state of the pass of rule k over base.                                *)
Passing(st, k, base, t) ==
  /\ st \in [ids : Seq(Nat), i : Nat \ {0}]
  /\ Quiet(st.ids, k) /\ QuietBefore(st.ids, k, st.i)
  /\ Bpe(st.ids) = Bpe(base)
  /\ Spells(base, t) => Spells(st.ids, t)

LEMMA LookKeeps ==
  ASSUME NEW k \in DOMAIN Merges, NEW base, NEW t, Len(t) \in Nat,
         NEW st, Passing(st, k, base, t)
  PROVE  LET next == Look(st, Merges[k]) IN
         /\ Passing(next, k, base, t)
         /\ st.i >= Len(st.ids) => next = st
         /\ st.i < Len(st.ids) => next.i - Len(next.ids) = st.i - Len(st.ids) + 1
<1> DEFINE next == Look(st, Merges[k])
           x == st.ids
           i == st.i
           y == Merged(x, k, i)
<1>1. /\ st \in [ids : Seq(Nat), i : Nat \ {0}]
      /\ x \in Seq(Nat) /\ Len(x) \in Nat /\ i \in Nat \ {0} /\ k \in Nat
      /\ Quiet(x, k) /\ QuietBefore(x, k, i)
      /\ Bpe(x) = Bpe(base) /\ (Spells(base, t) => Spells(x, t))
  BY LenProperties, RuleFacts DEF Passing
<1>2. CASE i >= Len(x)
  <2>1. next = st
    BY <1>2 DEF Look
  <2>2. ~(i < Len(x))
    BY <1>1, <1>2
  <2>3. QED BY <2>1, <2>2
<1>3. CASE i < Len(x) /\ Applies(x, k, i)
  <2>1. i \in 1 .. Len(x) - 1 /\ ~(i >= Len(x))
    BY <1>1, <1>3
  <2>2. next = [st EXCEPT !.ids = y]
    BY <1>3, <2>1 DEF Look, Applies, Merged
  <2> HIDE DEF x, i, next
  <2>3. /\ y \in Seq(Nat) /\ Len(y) = Len(x) - 1 /\ Len(y) \in Nat
        /\ \A j \in 1 .. Len(x) - 1 :
             y[j] = IF j < i THEN x[j] ELSE IF j = i THEN Merges[k][3] ELSE x[j + 1]
    BY <1>1, <2>1, MergedFacts, LenProperties
  <2>4. next.ids = y /\ next.i = i /\ next \in [ids : Seq(Nat), i : Nat \ {0}]
    BY <1>1, <2>2, <2>3 DEF i
  <2>5. Bpe(y) = Bpe(base)
    BY <1>1, <1>3, <2>1, <2>3, StepMerges, BpeAbsorbs
  <2>6. Spells(base, t) => Spells(y, t)
    BY <1>1, <1>3, <2>1, MergedSpells
  <2> HIDE DEF y
  <2>7. ASSUME NEW j \in DOMAIN Merges, j <= k, NEW p \in 1 .. Len(y) - 1, Applies(y, j, p),
               j = k => p < i
        PROVE  FALSE
    <3>1. j \in Nat /\ p \in 1 .. Len(x) - 1 /\ p + 1 \in 1 .. Len(x) - 1
      BY <2>1, <2>3, RuleFacts
    <3>2. Merges[k][3] \notin {Merges[j][1], Merges[j][2]}
      <4>1. Merges[k][3] \in {Merges[j][1], Merges[j][2]} => k < j
        BY <2>7, MergesAreRanked
      <4>2. ~(k < j)
        BY <1>1, <2>7, <3>1
      <4>3. QED BY <4>1, <4>2
    <3>3. y[p] = Merges[j][1] /\ y[p + 1] = Merges[j][2]
      BY <2>7 DEF Applies
    <3>4. p # i /\ p + 1 # i
      <4>1. i \in 1 .. Len(x) - 1 /\ y[i] = Merges[k][3]
        <5>1. ~(i < i)
          BY <2>1
        <5>2. QED BY <2>1, <2>3, <5>1
      <4>2. QED BY <3>2, <3>3, <4>1
    <3>5. CASE p + 1 < i
      <4>1. y[p] = x[p] /\ y[p + 1] = x[p + 1]
        <5>1. p < i
          BY <2>1, <3>1, <3>5
        <5>2. y[p] = x[p]
          BY <2>3, <3>1, <5>1
        <5>3. y[p + 1] = x[p + 1]
          BY <2>3, <3>1, <3>5
        <5>4. QED BY <5>2, <5>3
      <4>2. Applies(x, j, p)
        BY <3>3, <4>1 DEF Applies
      <4>3. p < i
        BY <1>1, <3>1, <3>5
      <4>4. CASE j = k
        BY <1>1, <3>1, <4>2, <4>3, <4>4 DEF QuietBefore
      <4>5. CASE j < k
        BY <1>1, <3>1, <4>2, <4>5 DEF Quiet
      <4>6. j < k \/ j = k
        BY <1>1, <2>7, <3>1
      <4>7. QED BY <4>4, <4>5, <4>6
    <3>6. CASE p > i
      <4>1. y[p] = x[p + 1] /\ y[p + 1] = x[(p + 1) + 1]
        <5>1. ~(p < i) /\ p # i /\ ~(p + 1 < i) /\ p + 1 # i
          BY <2>1, <3>1, <3>6
        <5>2. y[p] = x[p + 1]
          BY <2>3, <3>1, <5>1
        <5>3. y[p + 1] = x[(p + 1) + 1]
          BY <2>3, <3>1, <5>1
        <5>4. QED BY <5>2, <5>3
      <4>2. Applies(x, j, p + 1)
        BY <3>3, <4>1 DEF Applies
      <4>3. j < k
        <5>1. ~(p < i)
          BY <2>1, <3>1, <3>6
        <5>2. j # k
          BY <2>7, <5>1
        <5>3. QED BY <1>1, <2>7, <3>1, <5>2
      <4>4. QED BY <1>1, <3>1, <4>2, <4>3 DEF Quiet
    <3>7. QED BY <2>1, <3>1, <3>4, <3>5, <3>6
  <2>8. Quiet(y, k)
    <3>1. SUFFICES ASSUME NEW j \in DOMAIN Merges, j < k, NEW p \in 1 .. Len(y) - 1, Applies(y, j, p)
                   PROVE  FALSE
      BY DEF Quiet
    <3>2. j <= k /\ j # k
      BY <1>1, <3>1, RuleFacts
    <3>3. QED BY <2>7, <3>1, <3>2
  <2>9. QuietBefore(y, k, i)
    <3>1. SUFFICES ASSUME NEW p \in 1 .. Len(y) - 1, p < i, Applies(y, k, p) PROVE FALSE
      BY DEF QuietBefore
    <3>2. k <= k
      BY <1>1
    <3>3. QED BY <2>7, <3>1, <3>2
  <2>10. Passing(next, k, base, t)
    BY <2>4, <2>5, <2>6, <2>8, <2>9 DEF Passing
  <2>11. next.i - Len(next.ids) = i - Len(x) + 1
    <3>1. Len(x) \in Nat /\ i \in Nat
      BY <1>1
    <3>2. Len(next.ids) = Len(x) - 1 /\ next.i = i
      BY <2>3, <2>4
    <3> DEFINE a == next.i
               b == Len(next.ids)
               d == Len(x)
    <3>3. b = d - 1 /\ a = i /\ d \in Nat /\ i \in Nat
      BY <3>1, <3>2
    <3> HIDE DEF a, b, d
    <3>4. a - b = i - d + 1
      BY <3>3
    <3>5. QED BY <3>4 DEF a, b, d
  <2>12. QED BY <2>1, <2>10, <2>11 DEF next, i, x
<1>4. CASE i < Len(x) /\ ~Applies(x, k, i)
  <2>1. i \in 1 .. Len(x) - 1 /\ ~(i >= Len(x))
    BY <1>1, <1>4
  <2>2. next = [st EXCEPT !.i = i + 1]
    BY <1>4, <2>1 DEF Look, Applies
  <2> HIDE DEF next
  <2>3. next.ids = x /\ next.i = i + 1 /\ next \in [ids : Seq(Nat), i : Nat \ {0}]
    BY <1>1, <2>2
  <2> HIDE DEF x, i
  <2>4. QuietBefore(x, k, i + 1)
    <3>1. ASSUME NEW p \in 1 .. Len(x) - 1, p < i + 1 PROVE ~Applies(x, k, p)
      <4>1. p < i \/ p = i
        BY <1>1, <3>1
      <4>2. QED BY <1>1, <1>4, <4>1 DEF QuietBefore
    <3>2. QED BY <3>1 DEF QuietBefore
  <2>5. Passing(next, k, base, t)
    BY <1>1, <2>3, <2>4 DEF Passing
  <2>6. next.i - Len(next.ids) = i - Len(x) + 1
    <3>1. Len(x) \in Nat /\ i \in Nat
      BY <1>1
    <3>2. next.i - Len(next.ids) = (i + 1) - Len(x)
      BY <2>3
    <3>3. QED BY <3>1, <3>2
  <2>7. QED BY <2>1, <2>5, <2>6 DEF next, i, x
<1>5. i >= Len(x) \/ i < Len(x)
  BY <1>1
<1>6. QED BY <1>2, <1>3, <1>4, <1>5

(* A whole pass leaves no place for its rule.                              *)
LEMMA PassKeeps ==
  ASSUME NEW k \in DOMAIN Merges, NEW t, Len(t) \in Nat,
         NEW toks \in Seq(Nat), Quiet(toks, k)
  PROVE  LET x == MergePass(toks, Merges[k]) IN
         /\ x \in Seq(Nat) /\ Quiet(x, k + 1) /\ Bpe(x) = Bpe(toks)
         /\ Spells(toks, t) => Spells(x, t)
<1> DEFINE n == 2 * Len(toks)
           L == Len(toks)
<1>1. Merges[k] \in Rules /\ L \in Nat /\ n \in Nat /\ k \in Nat
  BY RuleFacts, LenProperties
<1>2. PICK c : /\ c[0] = [ids |-> toks, i |-> 1]
               /\ \A m \in 1 .. n : c[m] = Look(c[m - 1], Merges[k])
               /\ MergePass(toks, Merges[k]) = c[n].ids
  BY <1>1, PassChain
<1> DEFINE Ahead(m) == c[m].i >= Len(c[m].ids) \/ c[m].i - Len(c[m].ids) >= m + 1 - L
           G == {m \in 0 .. n : Passing(c[m], k, toks, t) /\ Ahead(m)}
<1>3. 0 \in G
  <2>1. c[0].ids = toks /\ c[0].i = 1 /\ c[0] \in [ids : Seq(Nat), i : Nat \ {0}]
    BY <1>2
  <2>2. QuietBefore(toks, k, 1)
    BY DEF QuietBefore
  <2>3. Passing(c[0], k, toks, t)
    BY <2>1, <2>2 DEF Passing
  <2>4. Ahead(0)
    BY <1>1, <2>1
  <2>5. QED BY <1>1, <2>3, <2>4
<1>4. ASSUME NEW m \in 1 .. n, m - 1 \in G PROVE m \in G
  <2> DEFINE st == c[m - 1]
             next == Look(st, Merges[k])
  <2>1. Passing(st, k, toks, t) /\ Ahead(m - 1) /\ c[m] = next
    BY <1>2, <1>4
  <2>2. /\ Passing(next, k, toks, t)
        /\ st.i >= Len(st.ids) => next = st
        /\ st.i < Len(st.ids) => next.i - Len(next.ids) = st.i - Len(st.ids) + 1
    BY <2>1, LookKeeps
  <2>3. st.i \in Nat /\ Len(st.ids) \in Nat /\ next.i \in Nat /\ Len(next.ids) \in Nat
    BY <2>1, <2>2, LenProperties DEF Passing
  <2>4. st.i >= Len(st.ids) \/ st.i - Len(st.ids) >= (m - 1) + 1 - L
    BY <2>1
  <2> HIDE DEF st, next
  <2>5. next.i >= Len(next.ids) \/ next.i - Len(next.ids) >= m + 1 - L
    <3>1. CASE st.i >= Len(st.ids)
      BY <2>2, <3>1
    <3>2. CASE st.i < Len(st.ids)
      BY <1>1, <2>2, <2>3, <2>4, <3>2
    <3>3. QED BY <2>3, <3>1, <3>2
  <2>6. QED BY <2>1, <2>2, <2>5
<1>5. \A m \in 0 .. n : m \in G
  <2> HIDE DEF G, n
  <2>1. QED BY <1>1, <1>3, <1>4, Upward
<1>6. n \in G
  BY <1>1, <1>5
<1> DEFINE e == c[n]
<1>7. Passing(e, k, toks, t) /\ (e.i >= Len(e.ids) \/ e.i - Len(e.ids) >= n + 1 - L)
  BY <1>6
<1> HIDE DEF G, Ahead, e
<1>8. e.i \in Nat /\ e.ids \in Seq(Nat) /\ Len(e.ids) \in Nat /\ Quiet(e.ids, k) /\ QuietBefore(e.ids, k, e.i)
  BY <1>7, LenProperties DEF Passing
<1>9. e.i >= Len(e.ids)
  BY <1>1, <1>7, <1>8
<1>10. Quiet(e.ids, k + 1)
  <2>1. SUFFICES ASSUME NEW j \in DOMAIN Merges, j < k + 1, NEW p \in 1 .. Len(e.ids) - 1
                 PROVE  ~Applies(e.ids, j, p)
    BY DEF Quiet
  <2>2. p < e.i
    BY <1>8, <1>9
  <2>3. j < k \/ j = k
    BY <1>1, <2>1, RuleFacts
  <2>4. QED BY <1>8, <2>2, <2>3 DEF Quiet, QuietBefore
<1>11. MergePass(toks, Merges[k]) = e.ids
  BY <1>2 DEF e
<1>12. Bpe(e.ids) = Bpe(toks) /\ (Spells(toks, t) => Spells(e.ids, t))
  BY <1>7 DEF Passing
<1>13. QED BY <1>8, <1>10, <1>11, <1>12

(* The passes in rank order end where byte pair encoding ends.             *)
LEMMA EncodeEnds ==
  ASSUME NEW text \in Seq(STRING), NEW max_ids \in Nat, NEW t, Len(t) \in Nat
  PROVE  LET toks == llm_tokenizer_encode(text, max_ids)
             chars == Characters(text, max_ids)
         IN  /\ toks \in Seq(Nat) /\ Settled(toks) /\ toks = Bpe(chars)
             /\ Spells(chars, t) => Spells(toks, t)
<1> DEFINE n == Len(Merges)
           chars == Characters(text, max_ids)
<1>1. n \in Nat /\ DOMAIN Merges = 1 .. n
  BY RuleFacts
<1>2. PICK c : /\ c[0] = chars
               /\ \A m \in 1 .. n : c[m] = MergeStep(c[m - 1], Merges[m])
               /\ llm_tokenizer_encode(text, max_ids) = c[n]
  BY MergeChain
<1> DEFINE Encoding(m) == /\ c[m] \in Seq(Nat) /\ Quiet(c[m], m + 1) /\ Bpe(c[m]) = Bpe(chars)
                          /\ Spells(chars, t) => Spells(c[m], t)
           G == {m \in 0 .. n : Encoding(m)}
<1>3. 0 \in G
  <2>1. chars \in Seq(Nat)
    BY CharactersLength
  <2>2. Quiet(chars, 0 + 1)
    BY <1>1 DEF Quiet
  <2>3. QED BY <1>1, <1>2, <2>1, <2>2
<1>4. ASSUME NEW m \in 1 .. n, m - 1 \in G PROVE m \in G
  <2> DEFINE x == c[m - 1]
             y == MergePass(x, Merges[m])
  <2>1. /\ x \in Seq(Nat) /\ Quiet(x, m) /\ Bpe(x) = Bpe(chars) /\ (Spells(chars, t) => Spells(x, t))
        /\ c[m] = MergeStep(x, Merges[m])
    <3>1. (m - 1) + 1 = m
      OBVIOUS
    <3>2. QED BY <1>2, <1>4, <3>1
  <2>2. CASE Len(x) > 1
    <3>1. c[m] = y
      BY <2>1, <2>2 DEF MergeStep
    <3>2. /\ y \in Seq(Nat) /\ Quiet(y, m + 1) /\ Bpe(y) = Bpe(x)
          /\ Spells(x, t) => Spells(y, t)
      BY <1>1, <2>1, PassKeeps
    <3>3. QED BY <2>1, <3>1, <3>2
  <2>3. CASE ~(Len(x) > 1)
    <3>1. c[m] = x
      BY <2>1, <2>3 DEF MergeStep
    <3>2. Quiet(x, m + 1)
      BY <2>1, <2>3, LenProperties DEF Quiet
    <3>3. QED BY <2>1, <3>1, <3>2
  <2>4. QED BY <2>2, <2>3
<1>5. \A m \in 0 .. n : m \in G
  <2> HIDE DEF G, n
  <2>1. QED BY <1>1, <1>3, <1>4, Upward
<1>6. n \in G
  BY <1>1, <1>5
<1>7. Encoding(n)
  BY <1>6
<1>8. Settled(c[n])
  BY <1>1, <1>7 DEF Settled, Quiet
<1>9. Bpe(c[n]) = c[n]
  BY <1>7, <1>8, BpeOfSettled
<1>10. QED BY <1>2, <1>7, <1>8, <1>9

(* The text a token stands for.                                            *)
Shown(s) == [i \in DOMAIN s |-> IF s[i] = Mark THEN " " ELSE s[i]]

(* What a text shows (a literal is a string, which the provers do not see). *)
Shapes == STRING \cup {" "}

Before(e, s) == <<e>> \o s

LEMMA Prefixed ==
  ASSUME NEW S, NEW e \in S, NEW s \in Seq(S)
  PROVE  /\ Before(e, s) \in Seq(S) /\ Len(Before(e, s)) = Len(s) + 1 /\ Len(s) \in Nat
         /\ Before(e, s)[1] = e
         /\ \A i \in 1 .. Len(s) : Before(e, s)[i + 1] = s[i]
<1> DEFINE w == <<e>>
           n == Len(s)
           t == w \o s
<1>1. w \in Seq(S) /\ Len(w) = 1 /\ w[1] = e
  OBVIOUS
<1>2. n \in Nat
  BY LenProperties
<1> HIDE DEF w
<1>3. /\ t \in Seq(S) /\ Len(t) = Len(w) + Len(s)
      /\ \A i \in 1 .. Len(w) + Len(s) : t[i] = IF i <= Len(w) THEN w[i] ELSE s[i - Len(w)]
  BY <1>1, ConcatProperties
<1> HIDE DEF t
<1>4. Len(t) = n + 1 /\ \A i \in 1 .. n + 1 : t[i] = IF i <= 1 THEN w[i] ELSE s[i - 1]
  <2>1. Len(w) + Len(s) = n + 1
    BY <1>1, <1>2
  <2>2. QED BY <1>1, <1>3, <2>1
<1> HIDE DEF n
<1>5. t[1] = e
  <2>1. 1 \in 1 .. n + 1 /\ 1 <= 1
    BY <1>2
  <2>2. t[1] = w[1]
    BY <1>4, <2>1
  <2>3. QED BY <1>1, <2>2
<1>6. ASSUME NEW i \in 1 .. n PROVE t[i + 1] = s[i]
  <2>1. i + 1 \in 1 .. n + 1 /\ ~(i + 1 <= 1) /\ (i + 1) - 1 = i
    BY <1>2
  <2>2. t[i + 1] = s[(i + 1) - 1]
    BY <1>4, <2>1
  <2>3. QED BY <2>1, <2>2
<1>7. Before(e, s) = t
  BY DEF Before, t, w
<1>8. QED BY <1>2, <1>3, <1>4, <1>5, <1>6, <1>7 DEF n

LEMMA NormalisedIn ==
  ASSUME NEW S, Mark \in S, NEW text \in Seq(S)
  PROVE  /\ Normalised(text) \in Seq(S) /\ Len(text) \in Nat
         /\ Len(Normalised(text)) = Len(text) + 1
         /\ Normalised(text)[1] = Mark
         /\ \A i \in 1 .. Len(text) :
              Normalised(text)[i + 1] = IF text[i] = " " THEN Mark ELSE text[i]
<1> DEFINE u == [i \in DOMAIN text |-> IF text[i] = " " THEN Mark ELSE text[i]]
           n == Len(text)
           t == Before(Mark, u)
<1>1. DOMAIN text = 1 .. n /\ n \in Nat
  BY LenProperties
<1>2. \A i \in 1 .. n : text[i] \in S
  BY ElementOfSeq
<1>3. u \in [1 .. n -> S]
  BY <1>1, <1>2
<1>4. \A i \in 1 .. n : u[i] = IF text[i] = " " THEN Mark ELSE text[i]
  BY <1>1
<1>5. Normalised(text) = t
  BY DEF Normalised, Before
<1> HIDE DEF u, n
<1>6. u \in Seq(S) /\ Len(u) = n
  BY <1>1, <1>3, TableSequence
<1>7. /\ t \in Seq(S) /\ Len(t) = Len(u) + 1 /\ t[1] = Mark
      /\ \A i \in 1 .. Len(u) : t[i + 1] = u[i]
  <2>1. Mark \in S /\ u \in Seq(S)
    BY <1>6
  <2>2. QED BY <2>1, Prefixed
<1> HIDE DEF t
<1>8. QED BY <1>1, <1>4, <1>5, <1>6, <1>7 DEF n

LEMMA NormalisedFacts ==
  ASSUME NEW text \in Seq(STRING)
  PROVE  /\ Normalised(text) \in Seq(STRING) /\ Len(text) \in Nat
         /\ Len(Normalised(text)) = Len(text) + 1
         /\ Normalised(text)[1] = Mark
         /\ \A i \in 1 .. Len(text) :
              Normalised(text)[i + 1] = IF text[i] = " " THEN Mark ELSE text[i]
  BY TablesAreSequences, NormalisedIn

LEMMA FoundToken ==
  ASSUME NEW str, \E k \in 1 .. Len(Vocab) : Vocab[k] = str
  PROVE  tok_find(str) \in 0 .. Len(Vocab) - 1 /\ Vocab[tok_find(str) + 1] = str
<1> DEFINE found == {i \in 1 .. Len(Vocab) : Vocab[i] = str}
           m == Min(found)
<1>1. found \subseteq Nat
  OBVIOUS
<1>2. tok_find(str) = IF found = {} THEN 0 ELSE m - 1
  BY DEF tok_find
<1>3. found # {} /\ tok_find(str) = m - 1
  <2>1. found # {}
    OBVIOUS
  <2>2. QED BY <1>2, <2>1
<1>4. m \in found
  <2> HIDE DEF found
  <2>1. QED BY <1>1, <1>3, MinOf
<1>5. m \in 1 .. Len(Vocab) /\ Vocab[m] = str
  BY <1>4
<1>6. Len(Vocab) \in Nat
  BY TablesAreSequences, LenProperties
<1> HIDE DEF m, found
<1>7. (m - 1) + 1 = m /\ m - 1 \in 0 .. Len(Vocab) - 1
  BY <1>5, <1>6
<1>8. QED BY <1>3, <1>5, <1>7

(* Before any merge each id of a known text is its character's token, and  *)
(* together they spell the marked text.                                    *)
LEMMA CharacterTokens ==
  ASSUME NEW text \in Seq(STRING), NEW max_ids \in Nat, Known(text),
         NEW i \in DOMAIN Characters(text, max_ids)
  PROVE  /\ i \in 1 .. Len(Normalised(text))
         /\ Characters(text, max_ids)[i] \in 0 .. Len(Vocab) - 1
         /\ Vocab[Characters(text, max_ids)[i] + 1] = <<Normalised(text)[i]>>
         /\ tok_get_str(Characters(text, max_ids)[i]) = <<Normalised(text)[i]>>
<1> DEFINE t == Normalised(text)
           n == Len(t)
           c == Characters(text, max_ids)
           m == Min({n, max_ids})
<1>1. n \in Nat /\ DOMAIN t = 1 .. n
  <2>1. t \in Seq(STRING)
    BY NormalisedFacts
  <2> HIDE DEF t
  <2>2. QED BY <2>1, LenProperties
<1>2. m <= n /\ m \in Int
  <2> HIDE DEF n
  <2>1. n \in Int /\ max_ids \in Int
    BY <1>1
  <2>2. Min({n, max_ids}) \in {n, max_ids} /\ Min({n, max_ids}) <= n
    BY <2>1, MinOfTwo
  <2>3. QED BY <2>1, <2>2
<1>3. c = [k \in 1 .. m |-> tok_find(<<t[k]>>)]
  BY DEF Characters
<1>4. \A k \in DOMAIN t : \E v \in 1 .. Len(Vocab) : Vocab[v] = <<t[k]>>
  BY DEF Known
<1>5. i \in DOMAIN c
  OBVIOUS
<1> HIDE DEF c, t, n, m
<1>6. i \in 1 .. m /\ c[i] = tok_find(<<t[i]>>)
  BY <1>3, <1>5
<1>7. i \in 1 .. n
  BY <1>1, <1>2, <1>6
<1>8. c[i] \in 0 .. Len(Vocab) - 1 /\ Vocab[c[i] + 1] = <<t[i]>>
  BY <1>1, <1>4, <1>6, <1>7, FoundToken
<1>9. tok_get_str(c[i]) = <<t[i]>>
  <2>1. Len(Vocab) \in Nat
    BY TablesAreSequences, LenProperties
  <2>2. c[i] < Len(Vocab)
    BY <1>8, <2>1
  <2>3. QED BY <1>8, <2>2 DEF tok_get_str
<1>10. QED BY <1>7, <1>8, <1>9 DEF c, t, n

LEMMA CharactersSpell ==
  ASSUME NEW text \in Seq(STRING), NEW max_ids \in Nat, Len(text) < max_ids, Known(text)
  PROVE  Spells(Characters(text, max_ids), Normalised(text))
<1> DEFINE t == Normalised(text)
           n == Len(t)
           c == Characters(text, max_ids)
<1>1. n \in Nat /\ n <= max_ids
  <2>1. Len(t) = Len(text) + 1 /\ Len(text) \in Nat
    BY NormalisedFacts
  <2> HIDE DEF t
  <2>2. QED BY <2>1
<1>2. Min({n, max_ids}) = n
  <2> HIDE DEF n
  <2>1. n \in Int /\ max_ids \in Int
    BY <1>1
  <2>2. Min({n, max_ids}) \in {n, max_ids} /\ Min({n, max_ids}) <= n /\ Min({n, max_ids}) <= max_ids
    BY <2>1, MinOfTwo
  <2>3. QED BY <1>1, <2>2
<1>3. c = [i \in 1 .. n |-> tok_find(<<t[i]>>)]
  BY <1>2 DEF Characters
<1>4. c \in [1 .. n -> Nat]
  BY <1>3, FoundIds
<1>5. \A i \in DOMAIN c : c[i] \in 0 .. Len(Vocab) - 1 /\ Vocab[c[i] + 1] = <<t[i]>>
  BY CharacterTokens
<1> HIDE DEF c, t, n
<1>6. Len(c) = n
  BY <1>1, <1>4, TableSequence
<1> DEFINE cut == [i \in 0 .. n |-> i]
<1>7. cut \in [0 .. n -> 0 .. n] /\ cut[0] = 0 /\ cut[n] = n
  BY <1>1
<1>8. ASSUME NEW i \in 1 .. n PROVE PieceAt(c[i], t, cut[i - 1], cut[i])
  <2>1. c[i] \in 0 .. Len(Vocab) - 1 /\ Vocab[c[i] + 1] = <<t[i]>>
    BY <1>4, <1>5
  <2>2. cut[i - 1] = i - 1 /\ cut[i] = i
    BY <1>1
  <2> DEFINE v == <<t[i]>>
  <2>3. Len(v) = 1 /\ v[1] = t[i]
    OBVIOUS
  <2>4. Vocab[c[i] + 1] = v
    BY <2>1
  <2> HIDE DEF v, cut
  <2>5. \A q \in 1 .. Len(v) : t[(i - 1) + q] = v[q]
    <3>1. SUFFICES ASSUME NEW q \in 1 .. Len(v) PROVE t[(i - 1) + q] = v[q]
      OBVIOUS
    <3>2. q = 1 /\ (i - 1) + q = i
      BY <2>3
    <3>3. QED BY <2>3, <3>2
  <2>6. i = (i - 1) + Len(v)
    BY <2>3
  <2>7. QED BY <2>1, <2>2, <2>4, <2>5, <2>6 DEF PieceAt
<1> HIDE DEF cut
<1>9. Spells(c, t)
  BY <1>6, <1>7, <1>8 DEF Spells, n
<1>10. QED BY <1>9 DEF c, t

LEMMA ShownFacts ==
  ASSUME NEW s \in Seq(STRING)
  PROVE  /\ Shown(s) \in Seq(Shapes) /\ Len(Shown(s)) = Len(s) /\ Len(s) \in Nat
         /\ \A i \in 1 .. Len(s) : Shown(s)[i] = IF s[i] = Mark THEN " " ELSE s[i]
<1> DEFINE n == Len(s)
           u == Shown(s)
<1>1. DOMAIN s = 1 .. n /\ n \in Nat
  BY LenProperties
<1>2. \A i \in 1 .. n : s[i] \in STRING
  BY ElementOfSeq
<1> DEFINE e(i) == IF s[i] = Mark THEN " " ELSE s[i]
<1>3. u \in [1 .. n -> Shapes] /\ \A i \in 1 .. n : u[i] = e(i)
  <2>1. \A i \in 1 .. n : e(i) \in Shapes
    BY <1>2 DEF Shapes
  <2>2. u = [i \in 1 .. n |-> e(i)]
    BY <1>1 DEF Shown
  <2> HIDE DEF e, u
  <2>3. QED BY <2>1, <2>2
<1> HIDE DEF u, n
<1>4. u \in Seq(Shapes) /\ Len(u) = n
  BY <1>1, <1>3, TableSequence
<1>5. QED BY <1>1, <1>3, <1>4 DEF u, n

Begins(u, e, s) ==
  Len(u) = Len(s) + 1 /\ u[1] = e /\ \A i \in 1 .. Len(s) : u[i + 1] = s[i]

LEMMA BeginsBefore ==
  ASSUME NEW T, NEW e \in T, NEW s \in Seq(T), NEW u \in Seq(T), Begins(u, e, s)
  PROVE  u = Before(e, s)
<1> DEFINE n == Len(s)
           v == Before(e, s)
<1>1. /\ v \in Seq(T) /\ Len(v) = Len(s) + 1 /\ Len(s) \in Nat /\ v[1] = e
      /\ \A i \in 1 .. Len(s) : v[i + 1] = s[i]
  BY Prefixed
<1> HIDE DEF v
<1>2. n \in Nat /\ Len(v) = n + 1 /\ Len(u) = n + 1 /\ v[1] = e /\ u[1] = e
  BY <1>1 DEF Begins
<1>3. \A i \in 1 .. n : v[i + 1] = s[i] /\ u[i + 1] = s[i]
  BY <1>1 DEF Begins
<1> HIDE DEF n
<1>4. ASSUME NEW i \in 1 .. n + 1 PROVE u[i] = v[i]
  <2>1. CASE i = 1
    BY <1>2, <2>1
  <2>2. CASE i # 1
    <3>1. i - 1 \in 1 .. n /\ (i - 1) + 1 = i
      BY <1>2, <2>2
    <3>2. v[(i - 1) + 1] = u[(i - 1) + 1]
      BY <1>3, <3>1
    <3>3. QED BY <3>1, <3>2
  <2>3. QED BY <2>1, <2>2
<1>5. u = v
  <2>1. Len(u) = Len(v) /\ Len(v) = n + 1
    BY <1>2
  <2>2. QED BY <1>1, <1>4, <2>1, SeqEqual
<1>6. QED BY <1>5 DEF v

LEMMA TextShown ==
  ASSUME NEW S, S \subseteq STRING, Mark \notin S, NEW text \in Seq(S)
  PROVE  Shown(Normalised(text)) = <<" ">> \o text
<1> DEFINE t == Normalised(text)
           n == Len(text)
           u == Shown(t)
           blank == " "
<1>1. text \in Seq(STRING) /\ n \in Nat /\ \A i \in 1 .. n : text[i] # Mark
  <2>1. \A i \in 1 .. n : text[i] \in S
    BY ElementOfSeq
  <2>2. n \in Nat
    BY LenProperties
  <2>3. text \in Seq(STRING)
    BY SeqMonotonic
  <2>4. QED BY <2>1, <2>2, <2>3
<1>2. /\ t \in Seq(STRING) /\ Len(t) = n + 1 /\ t[1] = Mark
      /\ \A i \in 1 .. n : t[i + 1] = IF text[i] = " " THEN Mark ELSE text[i]
  BY <1>1, NormalisedFacts
<1>3. blank \in Shapes /\ text \in Seq(Shapes)
  <2>1. S \subseteq Shapes /\ blank \in Shapes
    BY DEF Shapes
  <2>2. QED BY <2>1, SeqMonotonic
<1> HIDE DEF t
<1>4. /\ u \in Seq(Shapes) /\ Len(u) = n + 1
      /\ \A i \in 1 .. n + 1 : u[i] = IF t[i] = Mark THEN " " ELSE t[i]
  BY <1>2, ShownFacts
<1> HIDE DEF u, n
<1>5. u[1] = " "
  <2>1. 1 \in 1 .. n + 1
    BY <1>1
  <2>2. u[1] = IF t[1] = Mark THEN " " ELSE t[1]
    BY <1>4, <2>1
  <2>3. QED BY <1>2, <2>2
<1>6. ASSUME NEW i \in 1 .. n PROVE u[i + 1] = text[i]
  <2>1. i + 1 \in 1 .. n + 1
    BY <1>1
  <2>2. u[i + 1] = IF t[i + 1] = Mark THEN " " ELSE t[i + 1]
    BY <1>4, <2>1
  <2>3. t[i + 1] = IF text[i] = " " THEN Mark ELSE text[i]
    BY <1>2
  <2>4. text[i] # Mark
    BY <1>1
  <2>5. QED BY <2>2, <2>3, <2>4
<1>7. Begins(u, blank, text)
  BY <1>4, <1>5, <1>6 DEF Begins, n, blank
<1> HIDE DEF blank
<1>8. u = Before(blank, text)
  <2>1. blank \in Shapes /\ text \in Seq(Shapes) /\ u \in Seq(Shapes)
    BY <1>3, <1>4
  <2>2. QED BY <2>1, <1>7, BeginsBefore
<1>9. QED BY <1>8 DEF u, t, blank, Before

(* FlattenSeq is the last of the partial concatenations.                   *)
FlattenRec(f, seqs) ==
  f = [i \in 1 .. Len(seqs) |-> IF i = 1 THEN seqs[i] ELSE f[i - 1] \o seqs[i]]

LEMMA FlattenEquation ==
  ASSUME NEW seqs, Len(seqs) # 0, NEW g, FlattenRec(g, seqs)
  PROVE  \E f : FlattenRec(f, seqs) /\ FlattenSeq(seqs) = f[Len(seqs)]
  BY Zenon DEF FlattenSeq, FlattenRec

Partials(g, seqs) ==
  /\ g = [i \in 1 .. Len(seqs) |-> g[i]]
  /\ g[1] = seqs[1] /\ \A i \in 2 .. Len(seqs) : g[i] = g[i - 1] \o seqs[i]

LEMMA Flattened ==
  ASSUME NEW seqs, Len(seqs) \in Nat \ {0}, NEW g, Partials(g, seqs)
  PROVE  FlattenSeq(seqs) = g[Len(seqs)]
<1> DEFINE n == Len(seqs)
<1>0. /\ n \in Nat \ {0} /\ g = [i \in 1 .. n |-> g[i]]
      /\ g[1] = seqs[1] /\ \A i \in 2 .. n : g[i] = g[i - 1] \o seqs[i]
  BY DEF Partials
<1>1. ASSUME NEW i \in 1 .. n PROVE g[i] = IF i = 1 THEN seqs[i] ELSE g[i - 1] \o seqs[i]
  <2>1. i = 1 \/ i \in 2 .. n
    BY <1>0
  <2>2. QED BY <1>0, <2>1
<1>2. FlattenRec(g, seqs)
  BY <1>0, <1>1, Zenon DEF FlattenRec
<1>3. PICK f : FlattenRec(f, seqs) /\ FlattenSeq(seqs) = f[n]
  <2>1. Len(seqs) # 0
    BY <1>0
  <2>2. QED BY <1>2, <2>1, FlattenEquation
<1>4. \A i \in 1 .. n : f[i] = IF i = 1 THEN seqs[i] ELSE f[i - 1] \o seqs[i]
  <2>1. f = [i \in 1 .. n |-> IF i = 1 THEN seqs[i] ELSE f[i - 1] \o seqs[i]]
    BY <1>3 DEF FlattenRec
  <2> DEFINE F(i) == IF i = 1 THEN seqs[i] ELSE f[i - 1] \o seqs[i]
  <2>2. \A i \in 1 .. n : f[i] = F(i)
    <3>1. f = [i \in 1 .. n |-> F(i)]
      BY <2>1
    <3> HIDE DEF F
    <3>2. QED BY <3>1
  <2>3. QED BY <2>2
<1> DEFINE G == {0} \cup {i \in 1 .. n : f[i] = g[i]}
<1>5. ASSUME NEW m \in 1 .. n, m - 1 \in G PROVE m \in G
  <2>1. CASE m = 1
    BY <1>1, <1>4, <2>1
  <2>2. CASE m # 1
    <3>1. f[m - 1] = g[m - 1]
      BY <1>5, <2>2
    <3>2. f[m] = f[m - 1] \o seqs[m] /\ g[m] = g[m - 1] \o seqs[m]
      BY <1>1, <1>4, <2>2
    <3>3. QED BY <3>1, <3>2
  <2>3. QED BY <2>1, <2>2
<1>6. \A m \in 0 .. n : m \in G
  <2>1. n \in Nat /\ 0 \in G
    BY <1>0
  <2> HIDE DEF G
  <2>2. QED BY <1>5, <2>1, Upward
<1>7. f[n] = g[n]
  <2>1. n \in 0 .. n /\ n # 0
    BY <1>0
  <2>2. n \in G
    <3> HIDE DEF G, n
    <3>1. QED BY <1>6, <2>1
  <2> HIDE DEF n
  <2>3. QED BY <2>1, <2>2
<1>8. QED BY <1>3, <1>7

LEMMA DecodedWhole ==
  ASSUME NEW id \in 0 .. Len(Vocab) - 1, Len(tok_get_str(id)) < PieceLen
  PROVE  /\ llm_tokenizer_decode(id, PieceLen) = Shown(Vocab[id + 1])
         /\ Vocab[id + 1] \in Seq(STRING)
<1> DEFINE s == Vocab[id + 1]
<1>1. Vocab \in Seq(Seq(STRING)) /\ Len(Vocab) \in Nat
  BY TablesAreSequences, LenProperties
<1>2. id + 1 \in 1 .. Len(Vocab) /\ id < Len(Vocab)
  BY <1>1
<1>3. s \in Seq(STRING)
  BY <1>1, <1>2, ElementOfSeq
<1>4. tok_get_str(id) = s
  BY <1>2 DEF tok_get_str
<1> HIDE DEF s
<1>5. Len(s) \in Nat /\ Len(s) < PieceLen
  BY <1>3, <1>4, LenProperties
<1> DEFINE n == Len(s)
<1>6. Min({n, PieceLen - 1}) = n
  <2>1. n \in Nat /\ n <= PieceLen - 1 /\ PieceLen - 1 \in Int
    BY <1>5 DEF PieceLen
  <2> HIDE DEF n
  <2> DEFINE b == PieceLen - 1
  <2>2. n \in Int /\ b \in Int /\ n <= b
    BY <2>1
  <2> HIDE DEF b
  <2>3. Min({n, b}) \in {n, b} /\ Min({n, b}) <= n /\ Min({n, b}) <= b
    BY <2>2, MinOfTwo
  <2>4. Min({n, b}) = n
    BY <2>2, <2>3
  <2>5. QED BY <2>4 DEF b
<1>7. llm_tokenizer_decode(id, PieceLen) = SubSeq(Shown(s), 1, n)
  BY <1>4, <1>6 DEF llm_tokenizer_decode, Shown
<1>8. Shown(s) \in Seq(Shapes) /\ Len(Shown(s)) = n
  BY <1>3, ShownFacts
<1>9. SubSeq(Shown(s), 1, Len(Shown(s))) = Shown(s)
  BY <1>8, SubSeqFull
<1>10. llm_tokenizer_decode(id, PieceLen) = Shown(s)
  BY <1>7, <1>8, <1>9
<1>11. QED BY <1>3, <1>10 DEF s

(* The pieces, one after the other.                                        *)
LEMMA PieceShown ==
  ASSUME NEW id, NEW t \in Seq(STRING), NEW a \in 0 .. Len(t), NEW b \in 0 .. Len(t),
         PieceAt(id, t, a, b), Len(tok_get_str(id)) < PieceLen
  PROVE  a <= b /\ llm_tokenizer_decode(id, PieceLen) = SubSeq(Shown(t), a + 1, b)
<1> DEFINE s == Vocab[id + 1]
           T == Shown(t)
           d == Shown(s)
           r == SubSeq(T, a + 1, b)
<1>1. /\ id \in 0 .. Len(Vocab) - 1 /\ b = a + Len(s)
      /\ \A q \in 1 .. Len(s) : t[a + q] = s[q]
  BY DEF PieceAt
<1>2. llm_tokenizer_decode(id, PieceLen) = d /\ s \in Seq(STRING)
  BY <1>1, DecodedWhole
<1>3. /\ d \in Seq(Shapes) /\ Len(d) = Len(s) /\ Len(s) \in Nat
      /\ \A i \in 1 .. Len(s) : d[i] = IF s[i] = Mark THEN " " ELSE s[i]
  BY <1>2, ShownFacts
<1>4. /\ T \in Seq(Shapes) /\ Len(T) = Len(t) /\ Len(t) \in Nat
      /\ \A i \in 1 .. Len(t) : T[i] = IF t[i] = Mark THEN " " ELSE t[i]
  BY ShownFacts
<1> HIDE DEF T, d, s
<1> DEFINE m == Len(s)
<1>5. a \in Nat /\ b \in Nat /\ a <= b /\ b - (a + 1) + 1 = m /\ m \in Nat
  <2>1. a \in Nat /\ b \in Nat
    <3> DEFINE l == Len(t)
    <3>1. l \in Nat /\ a \in 0 .. l /\ b \in 0 .. l
      BY <1>4
    <3> HIDE DEF l
    <3>2. QED BY <3>1
  <2>2. b = a + m /\ m \in Nat
    BY <1>1, <1>3
  <2> HIDE DEF m
  <2>3. QED BY <2>1, <2>2
<1>6. /\ r \in Seq(Shapes) /\ Len(r) = Len(s)
      /\ \A i \in 1 .. Len(s) : r[i] = T[a + i]
  <2>1. a + 1 \in Int /\ b \in Int
    BY <1>5
  <2>2. \A i \in a + 1 .. b : T[i] \in Shapes
    <3>1. SUFFICES ASSUME NEW i \in a + 1 .. b PROVE T[i] \in Shapes
      OBVIOUS
    <3>2. i \in 1 .. Len(t)
      <4> DEFINE l == Len(t)
      <4>1. l \in Nat /\ b \in 0 .. l
        BY <1>4
      <4> HIDE DEF l, m
      <4>2. i \in 1 .. l
        BY <1>5, <4>1
      <4>3. QED BY <4>2 DEF l
    <3>3. QED BY <1>4, <3>2, ElementOfSeq
  <2>3. /\ r \in Seq(Shapes)
        /\ Len(r) = IF a + 1 <= b THEN b - (a + 1) + 1 ELSE 0
        /\ \A i \in 1 .. b - (a + 1) + 1 : r[i] = T[(a + 1) + i - 1]
    BY <2>1, <2>2, SubSeqProperties
  <2> HIDE DEF r
  <2>4. Len(r) = m
    <3> HIDE DEF m
    <3>1. QED BY <1>5, <2>3
  <2>5. ASSUME NEW i \in 1 .. Len(s) PROVE r[i] = T[a + i]
    <3>1. (a + 1) + i - 1 = a + i
      BY <1>5
    <3>2. QED BY <1>5, <2>3, <3>1
  <2>6. QED BY <2>3, <2>4, <2>5
<1> HIDE DEF r
<1>7. ASSUME NEW i \in 1 .. Len(d) PROVE d[i] = r[i]
  <2>1. i \in 1 .. Len(s) /\ a + i \in 1 .. Len(t)
    <3> DEFINE l == Len(t)
    <3>1. i \in 1 .. m /\ l \in Nat /\ b \in 0 .. l
      BY <1>3, <1>4
    <3> HIDE DEF l, m
    <3>2. i \in 1 .. m /\ a + i \in 1 .. l
      BY <1>5, <3>1
    <3>3. QED BY <3>2 DEF l, m
  <2>2. t[a + i] = s[i] /\ r[i] = T[a + i]
    BY <1>1, <1>6, <2>1
  <2>3. T[a + i] = IF t[a + i] = Mark THEN " " ELSE t[a + i]
    BY <1>4, <2>1
  <2>4. d[i] = IF s[i] = Mark THEN " " ELSE s[i]
    BY <1>3, <2>1
  <2>5. QED BY <2>2, <2>3, <2>4
<1>8. d = r
  <2>1. Len(d) = Len(r)
    BY <1>3, <1>6
  <2>2. QED BY <1>3, <1>6, <1>7, <2>1, SeqEqual
<1>9. QED BY <1>2, <1>5, <1>8 DEF r, T

LEMMA SpelledTold ==
  ASSUME NEW toks \in Seq(Nat), NEW t \in Seq(STRING), Len(t) # 0, Spells(toks, t),
         \A i \in DOMAIN toks : Len(tok_get_str(toks[i])) < PieceLen
  PROVE  FlattenSeq([i \in DOMAIN toks |-> llm_tokenizer_decode(toks[i], PieceLen)]) = Shown(t)
<1> DEFINE n == Len(toks)
           T == Shown(t)
           told == [i \in DOMAIN toks |-> llm_tokenizer_decode(toks[i], PieceLen)]
<1>1. n \in Nat /\ DOMAIN toks = 1 .. n
  BY LenProperties
<1>2. PICK cut \in [0 .. n -> 0 .. Len(t)] :
        /\ cut[0] = 0 /\ cut[n] = Len(t)
        /\ \A i \in 1 .. n : PieceAt(toks[i], t, cut[i - 1], cut[i])
  BY DEF Spells
<1>3. n # 0
  BY <1>2
<1>4. T \in Seq(Shapes) /\ Len(T) = Len(t) /\ Len(t) \in Nat
  BY ShownFacts
<1>5. ASSUME NEW i \in 1 .. n
      PROVE  /\ cut[i - 1] \in 0 .. Len(t) /\ cut[i] \in 0 .. Len(t) /\ cut[i - 1] <= cut[i]
             /\ told[i] = SubSeq(T, cut[i - 1] + 1, cut[i])
  <2>1. i - 1 \in 0 .. n /\ i \in 0 .. n
    BY <1>1
  <2>2. cut[i - 1] \in 0 .. Len(t) /\ cut[i] \in 0 .. Len(t)
    BY <1>2, <2>1
  <2>3. Len(tok_get_str(toks[i])) < PieceLen /\ PieceAt(toks[i], t, cut[i - 1], cut[i])
    BY <1>1, <1>2
  <2>4. /\ cut[i - 1] <= cut[i]
        /\ llm_tokenizer_decode(toks[i], PieceLen) = SubSeq(T, cut[i - 1] + 1, cut[i])
    BY <2>2, <2>3, PieceShown
  <2>5. told[i] = llm_tokenizer_decode(toks[i], PieceLen)
    BY <1>1
  <2>6. QED BY <2>2, <2>4, <2>5
<1>6. Len(told) = n
  <2>1. told = [i \in 1 .. n |-> llm_tokenizer_decode(toks[i], PieceLen)]
    BY <1>1
  <2>2. \A i \in 1 .. n : told[i] \in Seq(Shapes)
    <3>1. SUFFICES ASSUME NEW i \in 1 .. n PROVE told[i] \in Seq(Shapes)
      OBVIOUS
    <3> DEFINE a == cut[i - 1]
               b == cut[i]
    <3>2. a \in 0 .. Len(t) /\ b \in 0 .. Len(t) /\ told[i] = SubSeq(T, a + 1, b)
      BY <1>5
    <3> HIDE DEF a, b, told, T
    <3>3. \A j \in a + 1 .. b : T[j] \in Shapes
      <4>1. SUFFICES ASSUME NEW j \in a + 1 .. b PROVE T[j] \in Shapes
        OBVIOUS
      <4>2. j \in 1 .. Len(T)
        BY <1>4, <3>2
      <4>3. QED BY <1>4, <4>2, ElementOfSeq
    <3>4. a + 1 \in Int /\ b \in Int
      BY <3>2
    <3>5. QED BY <3>2, <3>3, <3>4, SubSeqProperties
  <2>3. DOMAIN told = 1 .. n
    BY <1>1
  <2>4. told \in [1 .. n -> Seq(Shapes)]
    BY <2>1, <2>2
  <2> HIDE DEF told, n
  <2>5. QED BY <1>1, <2>4, TableSequence
<1> DEFINE g == [i \in 1 .. n |-> SubSeq(T, 1, cut[i])]
<1> HIDE DEF told, T, n
<1>7. g[1] = told[1]
  <2>1. 1 \in 1 .. n /\ 1 - 1 = 0 /\ 0 + 1 = 1
    BY <1>1, <1>3
  <2>2. g[1] = SubSeq(T, 1, cut[1])
    BY <2>1
  <2>3. told[1] = SubSeq(T, cut[1 - 1] + 1, cut[1])
    BY <1>5, <2>1
  <2>4. QED BY <1>2, <2>1, <2>2, <2>3
<1>8. ASSUME NEW i \in 2 .. n PROVE g[i] = g[i - 1] \o told[i]
  <2>1. i \in 1 .. n /\ i - 1 \in 1 .. n
    BY <1>1
  <2> DEFINE a == cut[i - 1]
             b == cut[i]
  <2>2. g[i] = SubSeq(T, 1, b) /\ g[i - 1] = SubSeq(T, 1, a)
    BY <2>1
  <2>3. a \in 0 .. Len(t) /\ b \in 0 .. Len(t) /\ a <= b /\ told[i] = SubSeq(T, a + 1, b)
    BY <1>5, <2>1
  <2> HIDE DEF a, b, g
  <2>4. 1 \in 1 .. Len(T) + 1 /\ a \in 1 - 1 .. Len(T) /\ b \in a .. Len(T)
    BY <1>4, <2>3
  <2>5. SubSeq(T, 1, a) \o SubSeq(T, a + 1, b) = SubSeq(T, 1, b)
    BY <1>4, <2>4, ConcatAdjacentSubSeq
  <2>6. QED BY <2>2, <2>3, <2>5
<1>9. g[n] = T
  <2>1. n \in 1 .. n
    BY <1>1, <1>3
  <2>2. g[n] = SubSeq(T, 1, Len(T))
    BY <1>2, <1>4, <2>1
  <2>3. QED BY <1>4, <2>2, SubSeqFull
<1>10. DOMAIN g = 1 .. n /\ g = [i \in 1 .. n |-> g[i]]
  OBVIOUS
<1> HIDE DEF g
<1>11. n \in Nat \ {0}
  BY <1>1, <1>3
<1>12. FlattenSeq(told) = g[n]
  <2>1. Partials(g, told)
    BY <1>6, <1>7, <1>8, <1>10 DEF Partials
  <2>2. QED BY <1>6, <1>11, <2>1, Flattened
<1>13. QED BY <1>9, <1>12 DEF told, T

(* What the encoder returns is the byte pair encoding of its text.  Where   *)
(* every character is known each became its token, and the ids read back    *)
(* as the text.                                                             *)
LEMMA EncodingIsBpe ==
  ASSUME NEW S, S \subseteq STRING, Mark \notin S, NEW text \in Seq(S), NEW max_ids \in Nat
  PROVE  EncodedAsBpe(text, max_ids, llm_tokenizer_encode(text, max_ids))
<1> DEFINE toks == llm_tokenizer_encode(text, max_ids)
           chars == Characters(text, max_ids)
           t == Normalised(text)
           told == FlattenSeq([i \in DOMAIN toks |-> llm_tokenizer_decode(toks[i], PieceLen)])
           whole == \A i \in DOMAIN toks : Len(tok_get_str(toks[i])) < PieceLen
<1>1. text \in Seq(STRING)
  BY SeqMonotonic
<1>2. t \in Seq(STRING) /\ Len(t) \in Nat /\ Len(t) # 0
  <2>1. t \in Seq(STRING) /\ Len(t) = Len(text) + 1 /\ Len(text) \in Nat
    BY <1>1, NormalisedFacts
  <2> HIDE DEF t
  <2>2. QED BY <2>1
<1>3. /\ toks \in Seq(Nat) /\ Settled(toks) /\ toks = Bpe(chars)
      /\ Spells(chars, t) => Spells(toks, t)
  BY <1>1, <1>2, EncodeEnds
<1>4. Len(toks) <= max_ids
  BY <1>1, EncodingFits
<1>5. BpeStep(toks) = toks
  BY <1>3, StepRests
<1> HIDE DEF toks
<1>6. ASSUME Known(text), whole, Len(text) < max_ids PROVE told = <<" ">> \o text
  <2>1. Spells(toks, t)
    BY <1>1, <1>3, <1>6, CharactersSpell
  <2>2. told = Shown(t)
    BY <1>2, <1>3, <1>6, <2>1, SpelledTold
  <2>3. QED BY <2>2, TextShown
<1>7. Known(text) => \A i \in DOMAIN chars : tok_get_str(chars[i]) = <<t[i]>>
  BY <1>1, CharacterTokens
<1>8. EncodedAsBpe(text, max_ids, toks)
  <2>1. Known(text) /\ whole /\ Len(text) < max_ids => told = <<" ">> \o text
    BY <1>6
  <2>2. QED BY <1>3, <1>4, <1>5, <1>7, <2>1 DEF EncodedAsBpe
<1>9. QED BY <1>8 DEF toks

-----------------------------------------------------------------------------
(* Loading.                                                                *)

Entries == [id : PerLayer \cup Global, layer : Nat]
Loads == [Slots -> Entries \cup {NoTensor}]
LoadStep(w, e) == [w EXCEPT ![Slot(e)] = e]

LoadRec(f, table) ==
  f = [s \in SUBSET (1 .. Len(table)) |->
         IF s = {} THEN [sl \in Slots |-> NoTensor]
         ELSE LET k == Max(s) IN LoadStep(f[s \ {k}], table[k])]

LEMMA LoadEquation ==
  ASSUME NEW table \in Seq(Entries), NEW g, LoadRec(g, table)
  PROVE  \E f : LoadRec(f, table) /\ LoadedTensors(table) = f[1 .. Len(table)]
<1>1. DOMAIN table = 1 .. Len(table)
  BY LenProperties
<1>2. QED
  BY <1>1, Zenon DEF LoadedTensors, FoldLeft, MapThenFoldSet, LoadRec, LoadStep

(* Whatever the order of the table, a slot that it names holds a tensor    *)
(* that belongs there.                                                     *)
LEMMA LoadedWhereNamed ==
  ASSUME NEW table \in Seq(Entries), NEW sl \in Slots, NEW i \in 1 .. Len(table),
         Slot(table[i]) = sl
  PROVE  LoadedTensors(table)[sl] \in Entries /\ Slot(LoadedTensors(table)[sl]) = sl
<1> DEFINE n == Len(table)
           S == Loads
           start == [x \in Slots |-> NoTensor]
           F == [x \in S \X (1 .. n) |-> LoadStep(x[1], table[x[2]])]
<1>1. n \in Nat /\ \A k \in 1 .. n : table[k] \in Entries
  BY LenProperties, ElementOfSeq
<1>2. start \in S
  BY DEF Loads
<1>3. ASSUME NEW w \in S, NEW k \in 1 .. n PROVE LoadStep(w, table[k]) \in S
  BY <1>1 DEF LoadStep, Loads
<1>4. F \in [S \X (1 .. n) -> S]
  <2>1. ASSUME NEW x \in S \X (1 .. n) PROVE LoadStep(x[1], table[x[2]]) \in S
    <3>1. x[1] \in S /\ x[2] \in 1 .. n
      OBVIOUS
    <3> HIDE DEF S, n
    <3>2. QED BY <3>1, <1>3
  <2> HIDE DEF S, n
  <2>2. QED BY <2>1
<1> HIDE DEF start, S, n
<1>5. PICK g : Folds(g, n, S, start, F)
  <2> HIDE DEF F
  <2>1. n \in Nat /\ start \in S /\ F \in [S \X (1 .. n) -> S]
    BY <1>1, <1>2, <1>4
  <2>2. QED BY <2>1, FoldExists
<1>6. ASSUME NEW s \in SUBSET (1 .. n), s # {}
      PROVE  s \ {Max(s)} \in SUBSET (1 .. n) /\ Max(s) \in 1 .. n /\ Max(s) \in s
  BY <1>1, <1>6, MaxOf
<1>7. ASSUME NEW s \in SUBSET (1 .. n)
      PROVE  g[s] = IF s = {} THEN start ELSE LoadStep(g[s \ {Max(s)}], table[Max(s)])
  <2>1. CASE s = {}
    BY <1>5, <2>1 DEF Folds
  <2>2. CASE s # {}
    <3>1. g[s \ {Max(s)}] \in S /\ Max(s) \in 1 .. n
      BY <1>5, <1>6, <2>2 DEF Folds
    <3>2. F[<<g[s \ {Max(s)}], Max(s)>>] = LoadStep(g[s \ {Max(s)}], table[Max(s)])
      BY <3>1
    <3> HIDE DEF F
    <3>3. QED BY <1>5, <2>2, <3>2 DEF Folds
  <2>3. QED BY <2>1, <2>2
<1>8. LoadRec(g, table)
  <2>1. g = [s \in SUBSET (1 .. n) |-> g[s]]
    BY <1>5 DEF Folds
  <2>2. g = [s \in SUBSET (1 .. n) |->
               IF s = {} THEN start ELSE LoadStep(g[s \ {Max(s)}], table[Max(s)])]
    BY <1>7, <2>1, Zenon
  <2>3. QED BY <2>2 DEF LoadRec, n, start
<1>9. PICK f : LoadRec(f, table) /\ LoadedTensors(table) = f[1 .. n]
  BY <1>8, LoadEquation DEF n
<1>10. f = [s \in SUBSET (1 .. n) |->
              IF s = {} THEN start ELSE LoadStep(f[s \ {Max(s)}], table[Max(s)])]
  BY <1>9 DEF LoadRec, n, start
<1> DEFINE Holds(w, s) ==
             \A x \in Slots : (\E k \in s : Slot(table[k]) = x)
                                => w[x] \in Entries /\ Slot(w[x]) = x
           G == {e \in S \X SUBSET (1 .. n) : Holds(e[1], e[2])}
           h == [s \in SUBSET (1 .. n) |-> <<f[s], s>>]
<1>11. h[{}] \in G
  <2>1. f[{}] = start
    BY <1>10
  <2>2. QED BY <1>2, <2>1
<1>12. ASSUME NEW s \in SUBSET (1 .. n), s # {}, h[s \ {Max(s)}] \in G
       PROVE  h[s] \in G
  <2> DEFINE k == Max(s)
             w == f[s \ {Max(s)}]
  <2>1. w \in S /\ Holds(w, s \ {k}) /\ k \in 1 .. n /\ k \in s
    BY <1>6, <1>12
  <2>2. f[s] = LoadStep(w, table[k])
    BY <1>10, <1>12
  <2>3. f[s] \in S
    BY <1>3, <2>1, <2>2
  <2> HIDE DEF w, k
  <2>4. Holds(f[s], s)
    <3>1. SUFFICES ASSUME NEW x \in Slots, NEW j \in s, Slot(table[j]) = x
                   PROVE  f[s][x] \in Entries /\ Slot(f[s][x]) = x
      OBVIOUS
    <3>2. table[k] \in Entries
      BY <1>1, <2>1
    <3>3. f[s][x] = IF x = Slot(table[k]) THEN table[k] ELSE w[x]
      BY <2>1, <2>2, <3>1 DEF LoadStep, Loads, S
    <3>4. CASE x = Slot(table[k])
      BY <3>2, <3>3, <3>4
    <3>5. CASE x # Slot(table[k])
      <4>1. j \in s \ {k}
        BY <3>1, <3>5
      <4>2. QED BY <2>1, <3>1, <3>3, <3>5, <4>1
    <3>6. QED BY <3>4, <3>5
  <2>5. QED BY <2>3, <2>4
<1>13. h[1 .. n] \in G
  <2> HIDE DEF h, G
  <2>1. \A s \in SUBSET (1 .. n) : h[s] \in G
    BY <1>1, <1>11, <1>12, FoldStays
  <2>2. QED BY <2>1
<1>14. Holds(f[1 .. n], 1 .. n)
  BY <1>13
<1>15. QED BY <1>9, <1>14 DEF n

(* Every layer gets its own projections from a complete file.              *)
LEMMA LayersLoaded ==
  ASSUME NEW table \in TensorTables, NEW w \in PerLayer, NEW l \in 0 .. Layers - 1
  PROVE  LoadedTensors(table)[<<w, l>>] = [id |-> w, layer |-> l]
<1> DEFINE e == LoadedTensors(table)[<<w, l>>]
<1>1. <<w, l>> \in Slots
  BY DEF Slots
<1>2. table \in Seq(Entries)
  BY FilesAreComplete DEF Entries
<1>3. PICK i \in DOMAIN table : Slot(table[i]) = <<w, l>>
  BY <1>1, FilesAreComplete
<1>4. i \in 1 .. Len(table)
  BY <1>2, <1>3, LenProperties
<1>5. e \in Entries /\ Slot(e) = <<w, l>>
  BY <1>1, <1>2, <1>3, <1>4, LoadedWhereNamed
<1> HIDE DEF e
<1>6. e.id \notin Global
  <2>1. SUFFICES ASSUME e.id \in Global PROVE FALSE
    OBVIOUS
  <2>2. <<e.id>> = <<w, l>>
    BY <1>5, <2>1 DEF Slot
  <2>3. QED BY <2>2
<1>7. e.id = w /\ e.layer = l
  BY <1>5, <1>6 DEF Slot
<1>8. e = [id |-> w, layer |-> l]
  BY <1>5, <1>7 DEF Entries
<1>9. QED BY <1>8 DEF e

-----------------------------------------------------------------------------
(* Sequences and cells.                                                    *)

(* A sequence of anything.                                                 *)
Listed(s) == \E S : s \in Seq(S)

LEMMA SeqFacts ==
  ASSUME NEW s, Listed(s)
  PROVE  /\ Len(s) \in Nat /\ DOMAIN s = 1 .. Len(s)
         /\ Last(s) = s[Len(s)]
<1>1. PICK S : s \in Seq(S)
  BY DEF Listed
<1>2. QED BY <1>1, LenProperties DEF Last

LEMMA AppendFacts ==
  ASSUME NEW s, Listed(s), NEW x
  PROVE  /\ Listed(Append(s, x)) /\ Len(Append(s, x)) = Len(s) + 1
         /\ \A i \in 1 .. Len(s) : Append(s, x)[i] = s[i]
         /\ Append(s, x)[Len(s) + 1] = x
<1>1. PICK S : s \in Seq(S)
  BY DEF Listed
<1>2. s \in Seq(S \cup {x}) /\ x \in S \cup {x}
  <2>1. Len(s) \in Nat /\ s \in [1 .. Len(s) -> S]
    BY <1>1, LenProperties
  <2>2. s \in [1 .. Len(s) -> S \cup {x}]
    BY <2>1
  <2>3. QED BY <2>1, <2>2, SeqDef
<1>3. Append(s, x) \in Seq(S \cup {x})
  BY <1>2, AppendProperties
<1>4. QED BY <1>2, <1>3, AppendProperties DEF Listed

LEMMA TailFacts ==
  ASSUME NEW s, Listed(s), Len(s) > 0
  PROVE  /\ Listed(Tail(s)) /\ Len(Tail(s)) = Len(s) - 1
         /\ \A i \in 1 .. Len(s) - 1 : Tail(s)[i] = s[i + 1]
<1>1. PICK S : s \in Seq(S)
  BY DEF Listed
<1>2. s # << >>
  BY <1>1, EmptySeq
<1>3. Tail(s) \in Seq(S) /\ Len(Tail(s)) = Len(s) - 1
      /\ \A i \in 1 .. Len(Tail(s)) : Tail(s)[i] = s[i + 1]
  BY <1>1, <1>2, HeadTailProperties
<1>4. QED BY <1>3 DEF Listed

LEMMA FrontOf ==
  ASSUME NEW s, Listed(s), NEW p \in 0 .. Len(s)
  PROVE  SubSeq(s, 1, p) = [i \in 1 .. p |-> s[i]]
<1>1. PICK S : s \in Seq(S)
  BY DEF Listed
<1>2. Len(s) \in Nat /\ \A i \in 1 .. Len(s) : s[i] \in S
  BY <1>1, LenProperties, ElementOfSeq
<1>3. \A i \in 1 .. p : s[i] \in S
  BY <1>2
<1>4. /\ SubSeq(s, 1, p) \in Seq(S)
      /\ Len(SubSeq(s, 1, p)) = IF 1 <= p THEN p - 1 + 1 ELSE 0
      /\ \A i \in 1 .. p - 1 + 1 : SubSeq(s, 1, p)[i] = s[1 + i - 1]
  BY <1>2, <1>3, SubSeqProperties
<1>5. Len(SubSeq(s, 1, p)) = p
  BY <1>2, <1>4
<1>6. SubSeq(s, 1, p) \in [1 .. p -> S]
  BY <1>4, <1>5, LenProperties
<1>7. \A i \in 1 .. p : SubSeq(s, 1, p)[i] = s[i]
  BY <1>2, <1>4
<1>8. QED BY <1>6, <1>7

LEMMA Product ==
  ASSUME NEW a \in Nat, NEW b \in Nat
  PROVE  a * b \in Nat
OBVIOUS

LEMMA RowOf ==
  ASSUME NEW x \in Nat, NEW n \in Nat \ {0}
  PROVE  /\ x \div n \in Nat /\ x % n \in 0 .. n - 1
         /\ (x \div n) * n \in Nat /\ x = (x \div n) * n + (x % n)
OBVIOUS

LEMMA RowsAscend ==
  ASSUME NEW a \in Nat, NEW b \in Nat, a < b, NEW n \in Nat \ {0}
  PROVE  a * n + n <= b * n
<1>1. PICK d \in Nat : b = a + 1 + d
  <2>1. b - a - 1 \in Nat /\ b = a + 1 + (b - a - 1)
    OBVIOUS
  <2>2. QED BY <2>1
<1>2. b * n = a * n + n + d * n
  BY <1>1
<1>3. d * n \in Nat /\ a * n \in Nat
  BY Product
<1>4. QED BY <1>2, <1>3

LEMMA OneRow ==
  ASSUME NEW a \in Nat, NEW b \in Nat, NEW n \in Nat \ {0},
         NEW r \in 0 .. n - 1, NEW s \in 0 .. n - 1, a * n + r = b * n + s
  PROVE  a = b /\ r = s
<1>1. a * n \in Nat /\ b * n \in Nat
  BY Product
<1>2. ~(a < b)
  <2>1. ASSUME a < b PROVE FALSE
    <3>1. a * n + n <= b * n
      BY <2>1, RowsAscend
    <3>2. QED BY <3>1, <1>1
  <2>2. QED BY <2>1
<1>3. ~(b < a)
  <2>1. ASSUME b < a PROVE FALSE
    <3>1. b * n + n <= a * n
      BY <2>1, RowsAscend
    <3>2. QED BY <3>1, <1>1
  <2>2. QED BY <2>1
<1>4. a = b
  BY <1>2, <1>3
<1>5. QED BY <1>1, <1>4

LEMMA InRows ==
  ASSUME NEW m \in Nat, NEW a \in 0 .. m - 1, NEW n \in Nat \ {0}, NEW r \in 0 .. n - 1
  PROVE  a * n + r \in 0 .. m * n - 1
<1>1. a * n \in Nat /\ m * n \in Nat
  BY Product
<1>2. a * n + n <= m * n
  BY RowsAscend
<1>3. QED BY <1>1, <1>2

LEMMA Sizes ==
  /\ Layers \in Nat \ {0} /\ KvHeads \in Nat \ {0} /\ QueryPerKv \in Nat \ {0}
  /\ MaxSeq \in Nat \ {0} /\ MaxIds \in Nat \ {0} /\ RecentCap \in Nat \ {0}
  /\ MaxTokens \in Nat /\ MaxIds + MaxTokens <= MaxSeq
  /\ kv_stride \in Nat \ {0}
<1>1. kv_stride \in Nat \ {0}
  <2>1. MaxSeq \in Nat \ {0} /\ KvHeads \in Nat \ {0}
    BY ModelSizes
  <2>2. 0 * KvHeads + KvHeads <= MaxSeq * KvHeads
    BY <2>1, RowsAscend
  <2>3. MaxSeq * KvHeads \in Nat
    BY <2>1, Product
  <2>4. QED BY <2>1, <2>2, <2>3 DEF kv_stride
<1>2. QED BY <1>1, ModelSizes, StoriesFit

PlaceIn == 0 .. MaxSeq - 1
LayerOf == 0 .. Layers - 1
HeadOf == 0 .. KvHeads - 1

(* Every layer, position and head has a cell of the flat cache to itself.  *)
LEMMA CellsApart ==
  ASSUME NEW l \in LayerOf, NEW p \in PlaceIn, NEW g \in HeadOf
  PROVE  /\ KvCell(l, p, g) \in CacheCells
         /\ \A l2 \in LayerOf, p2 \in PlaceIn, g2 \in HeadOf :
              KvCell(l, p, g) = KvCell(l2, p2, g2) => l = l2 /\ p = p2 /\ g = g2
<1> USE Sizes DEF LayerOf, PlaceIn, HeadOf
<1>1. ASSUME NEW l2 \in LayerOf, NEW p2 \in PlaceIn, NEW g2 \in HeadOf
      PROVE  /\ p2 * KvHeads + g2 \in 0 .. kv_stride - 1
             /\ KvCell(l2, p2, g2) = l2 * kv_stride + (p2 * KvHeads + g2)
             /\ p2 * KvHeads \in Nat /\ l2 * kv_stride \in Nat
  <2>1. p2 * KvHeads + g2 \in 0 .. MaxSeq * KvHeads - 1
    BY InRows
  <2>2. p2 * KvHeads \in Nat /\ l2 * kv_stride \in Nat
    BY Product
  <2>3. l2 * kv_stride + p2 * KvHeads + g2 = l2 * kv_stride + (p2 * KvHeads + g2)
    BY <2>2
  <2>4. QED BY <2>1, <2>2, <2>3 DEF KvCell, kv_stride
<1>2. KvCell(l, p, g) \in CacheCells
  <2>1. l * kv_stride + (p * KvHeads + g) \in 0 .. Layers * kv_stride - 1
    BY <1>1, InRows
  <2>2. QED BY <1>1, <2>1 DEF CacheCells
<1>3. ASSUME NEW l2 \in LayerOf, NEW p2 \in PlaceIn, NEW g2 \in HeadOf,
             KvCell(l, p, g) = KvCell(l2, p2, g2)
      PROVE  l = l2 /\ p = p2 /\ g = g2
  <2>1. l * kv_stride + (p * KvHeads + g) = l2 * kv_stride + (p2 * KvHeads + g2)
    BY <1>1, <1>3
  <2>2. /\ p * KvHeads + g \in 0 .. kv_stride - 1
        /\ p2 * KvHeads + g2 \in 0 .. kv_stride - 1
    BY <1>1
  <2>3. l = l2 /\ p * KvHeads + g = p2 * KvHeads + g2
    <3> DEFINE r == p * KvHeads + g
               s == p2 * KvHeads + g2
    <3>1. l \in Nat /\ l2 \in Nat /\ kv_stride \in Nat \ {0}
      OBVIOUS
    <3>2. r \in 0 .. kv_stride - 1 /\ s \in 0 .. kv_stride - 1
          /\ l * kv_stride + r = l2 * kv_stride + s
      BY <2>1, <2>2
    <3> HIDE DEF r, s
    <3>3. l = l2 /\ r = s
      BY <3>1, <3>2, OneRow
    <3>4. QED BY <3>3 DEF r, s
  <2>4. p = p2 /\ g = g2
    BY <2>3, OneRow
  <2>5. QED BY <2>3, <2>4
<1>4. QED BY <1>2, <1>3

LEMMA ScalesApart ==
  ASSUME NEW l \in LayerOf, NEW p \in PlaceIn
  PROVE  /\ ScaleCell(l, p) \in ScaleCells
         /\ \A l2 \in LayerOf, p2 \in PlaceIn :
              ScaleCell(l, p) = ScaleCell(l2, p2) => l = l2 /\ p = p2
<1> USE Sizes DEF LayerOf, PlaceIn
<1>1. l * MaxSeq + p \in 0 .. Layers * MaxSeq - 1
  BY InRows
<1>2. ASSUME NEW l2 \in LayerOf, NEW p2 \in PlaceIn, l * MaxSeq + p = l2 * MaxSeq + p2
      PROVE  l = l2 /\ p = p2
  BY <1>2, OneRow
<1>3. QED BY <1>1, <1>2 DEF ScaleCell, ScaleCells

(* The group of a query head.                                              *)
LEMMA GroupOf ==
  ASSUME NEW qh \in 0 .. KvHeads * QueryPerKv - 1
  PROVE  qh \div QueryPerKv \in HeadOf
<1> DEFINE q == qh \div QueryPerKv
<1>1. KvHeads \in Nat \ {0} /\ QueryPerKv \in Nat \ {0} /\ KvHeads * QueryPerKv \in Nat
  BY Sizes, Product
<1>2. qh \in Nat /\ qh <= KvHeads * QueryPerKv - 1
  BY <1>1
<1>3. q \in Nat /\ qh % QueryPerKv \in Nat /\ qh = q * QueryPerKv + (qh % QueryPerKv)
  BY <1>1, <1>2, RowOf
<1> HIDE DEF q
<1>4. ~(q >= KvHeads)
  <2>1. ASSUME q >= KvHeads PROVE FALSE
    <3>1. KvHeads * QueryPerKv <= q * QueryPerKv
      <4>1. CASE q = KvHeads
        BY <4>1, <1>1
      <4>2. CASE q # KvHeads
        <5>1. KvHeads * QueryPerKv + QueryPerKv <= q * QueryPerKv
          BY <1>1, <1>3, <2>1, <4>2, RowsAscend
        <5>2. q * QueryPerKv \in Nat
          BY <1>1, <1>3, Product
        <5>3. QED BY <5>1, <5>2, <1>1
      <4>3. QED BY <4>1, <4>2
    <3>2. q * QueryPerKv \in Nat
      BY <1>1, <1>3, Product
    <3>3. QED BY <3>1, <3>2, <1>1, <1>2, <1>3
  <2>2. QED BY <2>1
<1>5. QED BY <1>1, <1>3, <1>4 DEF HeadOf, q
-----------------------------------------------------------------------------
(* The invariant of the story teller.                                      *)

Forwarding == {"project", "attend", "mlp", "head"}
Telling == {"prompt", "feed"} \cup Forwarding

(* The types, and the bounds StoriesFit gives.                             *)
LlmTyped ==
  /\ lstage \in {"load", "failed", "off"} \cup Telling
  /\ story \in 0 .. Len(Prompts) /\ steps \in 0 .. MaxTokens
  /\ pos \in 0 .. MaxSeq /\ layer \in 0 .. Layers
  /\ Listed(ids) /\ Len(ids) <= MaxIds
  /\ Listed(fed) /\ Listed(recent) /\ Len(recent) <= RecentCap
  /\ DOMAIN k_cache = CacheCells /\ DOMAIN v_cache = CacheCells
  /\ DOMAIN k_scale = ScaleCells /\ DOMAIN v_scale = ScaleCells

(* How far the story is: n tokens of it have been fed.                     *)
Fed(n) ==
  /\ Len(fed) = n /\ n <= Len(ids) + steps
  /\ steps > 0 => n = Len(ids) + steps

Placed ==
  /\ lstage = "feed" => Fed(pos)
  /\ lstage \in Forwarding => Fed(pos + 1)
  /\ lstage \in Forwarding \ {"head"} => layer < Layers
  /\ lstage = "head" => layer = Layers

(* Each layer has its own K and V projections, whatever the file's order.  *)
WeightsPlaced ==
  lstage \in Telling =>
    \A w \in {"WK", "WV"}, l \in LayerOf : weights[<<w, l>>] = [id |-> w, layer |-> l]

(* The positions of this story layer l has put into the cache.             *)
InCache(l, p) ==
  \/ lstage \in {"feed"} \cup Forwarding /\ p < pos
  \/ lstage \in Forwarding /\ p = pos /\ l < layer
  \/ lstage \in {"attend", "mlp"} /\ p = pos /\ l = layer

Kept(l, p) ==
  /\ \A g \in HeadOf : /\ k_cache[KvCell(l, p, g)] = KvOf("WK", l, p, g)
                       /\ v_cache[KvCell(l, p, g)] = KvOf("WV", l, p, g)
  /\ k_scale[ScaleCell(l, p)] = KvOf("WK", l, p, AllHeads)
  /\ v_scale[ScaleCell(l, p)] = KvOf("WV", l, p, AllHeads)

CacheKept == \A l \in LayerOf, p \in PlaceIn : InCache(l, p) => Kept(l, p)

(* What the residual depends on, before and after the attention.           *)
ResidualRight ==
  /\ lstage \in {"project", "attend"} =>
       res = IF layer = 0 THEN <<fed[pos + 1]>> ELSE SubSeq(fed, 1, pos + 1)
  /\ lstage = "mlp" => res = SubSeq(fed, 1, pos + 1)

Expected(qh) ==
  LET g == qh \div QueryPerKv IN
  [p \in 0 .. pos |->
     [k |-> KvOf("WK", layer, p, g), ks |-> KvOf("WK", layer, p, AllHeads),
      v |-> KvOf("WV", layer, p, g), vs |-> KvOf("WV", layer, p, AllHeads)]]

ContextRight ==
  /\ lstage # "mlp" => ctx = << >>
  /\ lstage = "mlp" => \A qh \in DOMAIN ctx : ctx[qh] = Expected(qh)

(* recent ends with the results this story was fed back, newest last; while *)
(* a result waits to be fed, after that one.                               *)
HistoryKept ==
  /\ lstage \in {"feed"} \cup Forwarding =>
       Len(recent) = IF pos < RecentCap THEN pos ELSE RecentCap
  /\ lstage = "feed" =>
       /\ pos > 0 => recent[Len(recent)] = next_token
       /\ \A i \in Nat \ {0} : i <= steps /\ i < Len(recent) =>
            recent[Len(recent) - i] = fed[Len(fed) - i + 1][2]
  /\ lstage \in Forwarding =>
       \A i \in Nat \ {0} : i <= steps /\ i <= Len(recent) =>
         recent[Len(recent) - i + 1] = fed[Len(fed) - i + 1][2]

LlmInv ==
  /\ LlmTyped /\ Placed /\ WeightsPlaced /\ CacheKept
  /\ ResidualRight /\ ContextRight /\ HistoryKept

LEMMA LlmInvInit ==
  ASSUME llm_init_at("off") \/ llm_init_at("load")
  PROVE  LlmInv
<1>0. Listed(<< >>) /\ Len(<< >>) = 0
  <2>1. << >> \in Seq({})
    OBVIOUS
  <2>2. QED BY <2>1 DEF Listed
<1>1. lstage \in {"off", "load"} /\ llm_init_at(lstage)
  BY DEF llm_init_at
<1>2. LlmTyped
  <2>1. Len(Prompts) \in Nat
    BY PromptsAreTexts, LenProperties
  <2>2. DOMAIN k_cache = CacheCells /\ DOMAIN v_cache = CacheCells
        /\ DOMAIN k_scale = ScaleCells /\ DOMAIN v_scale = ScaleCells
    BY <1>1 DEF llm_init_at
  <2>3. QED BY <1>0, <1>1, <2>1, <2>2, Sizes DEF LlmTyped, llm_init_at
<1>3. Placed /\ WeightsPlaced /\ CacheKept /\ ResidualRight /\ HistoryKept
  BY <1>1 DEF Placed, WeightsPlaced, CacheKept, InCache, ResidualRight, HistoryKept,
              Forwarding, Telling
<1>4. ContextRight
  BY <1>1 DEF ContextRight, llm_init_at
<1>5. QED BY <1>2, <1>3, <1>4 DEF LlmInv

(* While the transformer runs, its position is one of the cache.           *)
LEMMA PlaceFits ==
  ASSUME LlmTyped, Placed, lstage \in Forwarding
  PROVE  pos \in PlaceIn
<1>1. /\ Len(ids) \in Nat /\ Len(ids) <= MaxIds /\ steps \in Nat /\ steps <= MaxTokens
      /\ pos \in Nat
  BY SeqFacts, Sizes DEF LlmTyped
<1>2. pos + 1 <= Len(ids) + steps
  BY DEF Placed, Fed
<1>3. QED BY <1>1, <1>2, Sizes DEF PlaceIn

(* A story that grows keeps what its earlier tokens made.                  *)
LEMMA KvOfKept ==
  ASSUME Listed(fed), NEW x, fed' = Append(fed, x), NEW w, NEW l \in LayerOf, NEW h,
         NEW p \in Nat, p < Len(fed)
  PROVE  KvOf(w, l, p, h)' = KvOf(w, l, p, h)
<1>1. /\ Len(fed) \in Nat /\ Listed(fed') /\ Len(fed') = Len(fed) + 1
      /\ \A i \in 1 .. Len(fed) : fed'[i] = fed[i]
  BY SeqFacts, AppendFacts
<1>2. p + 1 \in 0 .. Len(fed) /\ p + 1 \in 0 .. Len(fed') /\ p + 1 \in 1 .. Len(fed)
  BY <1>1
<1>3. /\ SubSeq(fed, 1, p + 1) = [i \in 1 .. p + 1 |-> fed[i]]
      /\ SubSeq(fed', 1, p + 1) = [i \in 1 .. p + 1 |-> fed'[i]]
  BY <1>1, <1>2, FrontOf
<1>4. \A i \in 1 .. p + 1 : fed'[i] = fed[i]
  BY <1>1, <1>2
<1>5. SubSeq(fed', 1, p + 1) = SubSeq(fed, 1, p + 1) /\ fed'[p + 1] = fed[p + 1]
  BY <1>2, <1>3, <1>4
<1>6. QED BY <1>5 DEF KvOf

(* The steps that change neither the caches nor what the story was fed.    *)
LEMMA KeptStays ==
  ASSUME UNCHANGED <<caches, fed>>
  PROVE  \A l, p : Kept(l, p)' <=> Kept(l, p)
BY DEF Kept, caches, KvOf, KvCell, ScaleCell

LEMMA LoadStepKeeps ==
  ASSUME LlmInv, llm_model_load \/ BadMagic
  PROVE  LlmInv'
<1> USE DEF LlmInv
<1>1. /\ lstage = "load" /\ lstage' \in {"prompt", "failed"}
      /\ UNCHANGED <<story, ids, pos, steps, next_token, layer, res, caches, ctx, recent, fed>>
  BY DEF llm_model_load, BadMagic
<1>2. LlmTyped'
  BY <1>1 DEF LlmTyped, caches, Telling, CacheCells, ScaleCells, kv_stride
<1>3. WeightsPlaced'
  <2>1. CASE llm_model_load
    <3>1. PICK table \in TensorTables : weights' = LoadedTensors(table)
      BY <2>1 DEF llm_model_load
    <3>2. \A w \in {"WK", "WV"}, l \in LayerOf :
            LoadedTensors(table)[<<w, l>>] = [id |-> w, layer |-> l]
      BY LayersLoaded DEF PerLayer, LayerOf
    <3>3. QED BY <3>1, <3>2 DEF WeightsPlaced
  <2>2. CASE BadMagic
    BY <2>2 DEF BadMagic, WeightsPlaced, Telling, Forwarding
  <2>3. QED BY <2>1, <2>2
<1>4. Placed' /\ CacheKept' /\ ResidualRight' /\ HistoryKept'
  BY <1>1 DEF Placed, CacheKept, InCache, ResidualRight, HistoryKept, Forwarding
<1>5. ContextRight'
  BY <1>1 DEF ContextRight
<1>6. QED BY <1>2, <1>3, <1>4, <1>5

LEMMA BeginStoryKeeps ==
  ASSUME LlmInv, BeginStory
  PROVE  LlmInv'
<1> USE DEF LlmInv
<1>0. Listed(<< >>) /\ Len(<< >>) = 0
  <2>1. << >> \in Seq({})
    OBVIOUS
  <2>2. QED BY <2>1 DEF Listed
<1>1. /\ lstage = "prompt" /\ lstage' = "feed" /\ story < Len(Prompts) /\ story' = story + 1
      /\ pos' = 0 /\ steps' = 0 /\ recent' = << >> /\ fed' = << >>
      /\ UNCHANGED <<weights, layer, res, caches, ctx>>
  BY DEF BeginStory, FirstPos
<1>2. Listed(ids') /\ Len(ids') <= MaxIds /\ Len(ids') \in Nat
  <2>1. story + 1 \in 1 .. Len(Prompts)
    BY <1>1, PromptsAreTexts, LenProperties DEF LlmTyped
  <2>2. Prompts[story + 1] \in Seq(STRING)
    BY <2>1, PromptsAreTexts, ElementOfSeq
  <2>3. ids' \in Seq(Nat) /\ Len(ids') <= MaxIds
    BY <2>2, EncodingFits, Sizes DEF BeginStory
  <2>4. QED BY <2>3, LenProperties DEF Listed
<1>3. LlmTyped'
  <2>1. story' \in 0 .. Len(Prompts)
    BY <1>1, PromptsAreTexts, LenProperties DEF LlmTyped
  <2>2. QED BY <1>0, <1>1, <1>2, <2>1, Sizes
             DEF LlmTyped, caches, Telling, CacheCells, ScaleCells, kv_stride
<1>4. Placed'
  BY <1>0, <1>1, <1>2 DEF Placed, Fed, Forwarding
<1>5. WeightsPlaced'
  BY <1>1 DEF WeightsPlaced, Telling
<1>6. CacheKept'
  BY <1>1 DEF CacheKept, InCache, PlaceIn, Forwarding
<1>7. ResidualRight' /\ ContextRight'
  BY <1>1 DEF ResidualRight, ContextRight
<1>8. HistoryKept'
  BY <1>0, <1>1, Sizes DEF HistoryKept, Forwarding
<1>9. QED BY <1>3, <1>4, <1>5, <1>6, <1>7, <1>8

LEMMA EndStoryKeeps ==
  ASSUME LlmInv, EndStory
  PROVE  LlmInv'
<1> USE DEF LlmInv
<1>1. /\ lstage = "feed" /\ lstage' = "prompt"
      /\ UNCHANGED <<weights, story, ids, pos, steps, next_token, layer, res, caches, ctx,
                     recent, fed>>
  BY DEF EndStory
<1>2. LlmTyped'
  BY <1>1 DEF LlmTyped, caches, Telling, CacheCells, ScaleCells, kv_stride
<1>3. WeightsPlaced'
  BY <1>1 DEF WeightsPlaced, Telling
<1>4. Placed' /\ CacheKept' /\ ResidualRight' /\ HistoryKept'
  BY <1>1 DEF Placed, CacheKept, InCache, ResidualRight, HistoryKept, Forwarding
<1>5. ContextRight'
  BY <1>1 DEF ContextRight
<1>6. QED BY <1>2, <1>3, <1>4, <1>5

(* A token of the prompt, or the last result, goes into the transformer.   *)
LEMMA FeedKeeps ==
  ASSUME LlmInv, FeedPrompt \/ FeedBack
  PROVE  LlmInv'
<1> USE DEF LlmInv
<1>1. PICK t : /\ \/ InPrompt /\ steps' = steps
                  \/ ~InPrompt /\ steps' = steps + 1 /\ steps < MaxTokens /\ t = next_token
               /\ lstage = "feed" /\ Forward(t)
  <2>1. CASE FeedPrompt
    BY <2>1 DEF FeedPrompt
  <2>2. CASE FeedBack
    BY <2>2 DEF FeedBack
  <2>3. QED BY <2>1, <2>2
<1>2. /\ fed' = Append(fed, <<story, t>>) /\ res' = << <<story, t>> >> /\ layer' = 0
      /\ lstage' = "project"
      /\ UNCHANGED <<weights, story, ids, pos, next_token, caches, ctx, recent>>
  BY <1>1 DEF Forward
<1>3. /\ Len(fed) \in Nat /\ Len(fed) = pos /\ Len(ids) \in Nat /\ Len(recent) \in Nat
      /\ pos <= Len(ids) + steps /\ steps \in Nat /\ steps' \in 0 .. MaxTokens
      /\ steps > 0 => pos = Len(ids) + steps
  BY <1>1, SeqFacts, Sizes DEF LlmTyped, Placed, Fed
<1>4. /\ Listed(fed') /\ Len(fed') = pos + 1 /\ fed'[pos + 1] = <<story, t>>
      /\ \A i \in 1 .. pos : fed'[i] = fed[i]
  BY <1>2, <1>3, AppendFacts DEF LlmTyped
<1>5. LlmTyped'
  <2>1. lstage' \in Telling /\ layer' \in 0 .. Layers
    BY <1>2, Sizes DEF Telling, Forwarding
  <2>2. QED BY <1>2, <1>3, <1>4, <2>1
             DEF LlmTyped, caches, CacheCells, ScaleCells, kv_stride
<1>6. Placed'
  <2>1. InPrompt => steps = 0
    BY <1>3 DEF InPrompt
  <2>2. pos + 1 <= Len(ids) + steps' /\ (steps' > 0 => pos + 1 = Len(ids) + steps')
    BY <1>1, <1>3, <2>1 DEF InPrompt
  <2>3. QED BY <1>2, <1>4, <2>2, Sizes DEF Placed, Fed, Forwarding
<1>7. WeightsPlaced'
  BY <1>1, <1>2 DEF WeightsPlaced, Telling
<1>8. CacheKept'
  <2>1. SUFFICES ASSUME NEW l \in LayerOf, NEW p \in PlaceIn, InCache(l, p)' PROVE Kept(l, p)'
    BY DEF CacheKept
  <2>2. p < pos /\ p \in Nat
    BY <1>2, <2>1, Sizes DEF InCache, LayerOf, PlaceIn
  <2>3. Kept(l, p)
    BY <1>1, <2>2 DEF CacheKept, InCache
  <2>4. \A w, h : KvOf(w, l, p, h)' = KvOf(w, l, p, h)
    BY <1>2, <1>3, <2>2, KvOfKept DEF LlmTyped
  <2>5. QED BY <1>2, <2>3, <2>4 DEF Kept, caches, KvCell, ScaleCell, kv_stride, HeadOf
<1>9. ResidualRight'
  BY <1>2, <1>4 DEF ResidualRight
<1>10. ContextRight'
  BY <1>1, <1>2 DEF ContextRight
<1>11. HistoryKept'
  <2>1. Len(recent)' = IF pos < RecentCap THEN pos ELSE RecentCap
    BY <1>1, <1>2 DEF HistoryKept
  <2>2. ASSUME NEW i \in Nat \ {0}, i <= steps', i <= Len(recent)
        PROVE  recent[Len(recent) - i + 1] = fed'[Len(fed') - i + 1][2]
    <3>1. CASE InPrompt
      <4>1. steps' = 0
        BY <1>1, <1>3, <3>1 DEF InPrompt
      <4>2. QED BY <2>2, <4>1
    <3>2. CASE ~InPrompt /\ i = 1
      <4>1. pos > 0
        BY <1>1, <1>3, <2>1, <1>2, <2>2, Sizes
      <4>2. recent[Len(recent)] = next_token
        BY <1>1, <4>1 DEF HistoryKept
      <4>3. Len(recent) - i + 1 = Len(recent) /\ Len(fed') - i + 1 = pos + 1 /\ t = next_token
        BY <1>1, <1>3, <1>4, <3>2
      <4>4. QED BY <1>4, <4>2, <4>3
    <3>3. CASE ~InPrompt /\ i # 1
      <4>1. /\ i - 1 \in Nat \ {0} /\ i - 1 <= steps /\ i - 1 < Len(recent)
            /\ Len(fed) - (i - 1) + 1 = Len(fed') - i + 1
            /\ Len(recent) - (i - 1) = Len(recent) - i + 1
        BY <1>1, <1>3, <1>4, <2>2, <3>3
      <4>2. recent[Len(recent) - (i - 1)] = fed[Len(fed) - (i - 1) + 1][2]
        BY <1>1, <4>1 DEF HistoryKept
      <4>3. Len(fed') - i + 1 \in 1 .. pos
        BY <1>3, <1>4, <4>1, SMTT(30)
      <4>4. QED BY <1>4, <4>1, <4>2, <4>3
    <3>4. QED BY <3>1, <3>2, <3>3
  <2>3. QED BY <1>2, <2>1, <2>2 DEF HistoryKept
<1>12. QED BY <1>5, <1>6, <1>7, <1>8, <1>9, <1>10, <1>11

(* A layer puts K and V of this position into its own cells.               *)
LEMMA ProjectKeeps ==
  ASSUME LlmInv, Project
  PROVE  LlmInv'
<1> USE DEF LlmInv
<1>1. /\ lstage = "project" /\ lstage' = "attend"
      /\ UNCHANGED <<weights, story, ids, pos, steps, next_token, layer, res, ctx, recent, fed>>
  BY DEF Project
<1>2. pos \in PlaceIn /\ layer \in LayerOf /\ pos \in Nat
  <2>1. pos \in PlaceIn
    BY <1>1, PlaceFits DEF Forwarding
  <2>2. QED BY <1>1, <2>1, Sizes DEF Placed, Forwarding, LlmTyped, LayerOf, PlaceIn
<1>3. /\ k_cache' = [c \in CacheCells |->
             IF \E g \in HeadOf : c = KvCell(layer, pos, g)
             THEN Projected("WK", CHOOSE g \in HeadOf : c = KvCell(layer, pos, g))
             ELSE k_cache[c]]
      /\ v_cache' = [c \in CacheCells |->
             IF \E g \in HeadOf : c = KvCell(layer, pos, g)
             THEN Projected("WV", CHOOSE g \in HeadOf : c = KvCell(layer, pos, g))
             ELSE v_cache[c]]
      /\ k_scale' = [k_scale EXCEPT ![ScaleCell(layer, pos)] = Projected("WK", AllHeads)]
      /\ v_scale' = [v_scale EXCEPT ![ScaleCell(layer, pos)] = Projected("WV", AllHeads)]
  BY DEF Project, HeadOf
<1>4. LlmTyped'
  BY <1>1, <1>3 DEF LlmTyped, Telling, Forwarding, CacheCells, ScaleCells, kv_stride
<1>5. Placed'
  BY <1>1 DEF Placed, Fed, Forwarding
<1>6. WeightsPlaced'
  BY <1>1 DEF WeightsPlaced, Telling, Forwarding
<1>7. CacheKept'
  <2>1. SUFFICES ASSUME NEW l \in LayerOf, NEW p \in PlaceIn, InCache(l, p)' PROVE Kept(l, p)'
    BY DEF CacheKept
  <2>2. \A w, h : KvOf(w, l, p, h)' = KvOf(w, l, p, h)
    BY <1>1 DEF KvOf
  <2>3. \A g \in HeadOf : KvCell(l, p, g) \in CacheCells
    BY CellsApart
  <2>4. ScaleCell(l, p) \in ScaleCells
    BY ScalesApart
  <2>5. CASE l = layer /\ p = pos
    <3>1. ASSUME NEW w \in {"WK", "WV"}, NEW h PROVE Projected(w, h) = KvOf(w, l, p, h)
      <4>1. weights[<<w, layer>>] = [id |-> w, layer |-> l]
        BY <1>1, <2>5 DEF WeightsPlaced, Telling, Forwarding
      <4>2. res = IF l = 0 THEN <<fed[p + 1]>> ELSE SubSeq(fed, 1, p + 1)
        BY <1>1, <2>5 DEF ResidualRight
      <4>3. QED BY <2>5, <4>1, <4>2 DEF Projected, KvOf
    <3>2. ASSUME NEW g \in HeadOf
          PROVE  (CHOOSE h \in HeadOf : KvCell(l, p, g) = KvCell(layer, pos, h)) = g
      BY <2>5, CellsApart
    <3>3. \A g \in HeadOf : \E h \in HeadOf : KvCell(l, p, g) = KvCell(layer, pos, h)
      BY <2>5
    <3>4. \A g \in HeadOf : /\ k_cache'[KvCell(l, p, g)] = Projected("WK", g)
                            /\ v_cache'[KvCell(l, p, g)] = Projected("WV", g)
      BY <1>3, <2>3, <3>2, <3>3
    <3>5. /\ k_scale'[ScaleCell(l, p)] = Projected("WK", AllHeads)
          /\ v_scale'[ScaleCell(l, p)] = Projected("WV", AllHeads)
      BY <1>3, <2>4, <2>5 DEF LlmTyped
    <3>6. QED BY <2>2, <3>1, <3>4, <3>5 DEF Kept, KvCell, ScaleCell, kv_stride, HeadOf, AllHeads
  <2>6. CASE ~(l = layer /\ p = pos)
    <3>1. InCache(l, p)
      BY <1>1, <2>1, <2>6 DEF InCache, Forwarding
    <3>2. Kept(l, p)
      BY <3>1 DEF CacheKept
    <3>3. \A g, h \in HeadOf : KvCell(l, p, g) # KvCell(layer, pos, h)
      BY <1>2, <2>6, CellsApart
    <3>4. \A g \in HeadOf : /\ k_cache'[KvCell(l, p, g)] = k_cache[KvCell(l, p, g)]
                            /\ v_cache'[KvCell(l, p, g)] = v_cache[KvCell(l, p, g)]
      BY <1>3, <2>3, <3>3
    <3>5. ScaleCell(l, p) # ScaleCell(layer, pos)
      BY <1>2, <2>6, ScalesApart
    <3>6. /\ k_scale'[ScaleCell(l, p)] = k_scale[ScaleCell(l, p)]
          /\ v_scale'[ScaleCell(l, p)] = v_scale[ScaleCell(l, p)]
      BY <1>3, <2>4, <3>5 DEF LlmTyped
    <3>7. QED BY <2>2, <3>2, <3>4, <3>6 DEF Kept, KvCell, ScaleCell, kv_stride, HeadOf, AllHeads
  <2>7. QED BY <2>5, <2>6
<1>8. ResidualRight'
  BY <1>1 DEF ResidualRight
<1>9. ContextRight'
  BY <1>1 DEF ContextRight
<1>10. HistoryKept'
  BY <1>1 DEF HistoryKept, Forwarding
<1>11. QED BY <1>4, <1>5, <1>6, <1>7, <1>8, <1>9, <1>10

(* What the attention of a layer reads.                                    *)
LEMMA ReadsRight ==
  ASSUME LlmInv, lstage = "attend", NEW qh \in 0 .. KvHeads * QueryPerKv - 1, NEW p \in 0 .. pos
  PROVE  LET g == qh \div QueryPerKv IN
         ReadAt(qh, p) =
           [k |-> KvOf("WK", layer, p, g), ks |-> KvOf("WK", layer, p, AllHeads),
            v |-> KvOf("WV", layer, p, g), vs |-> KvOf("WV", layer, p, AllHeads)]
<1> DEFINE g == qh \div QueryPerKv
<1>1. pos \in PlaceIn /\ layer \in LayerOf
  <2>1. pos \in PlaceIn
    BY PlaceFits DEF Forwarding, LlmInv
  <2>2. QED BY <2>1, Sizes DEF Placed, Forwarding, LlmTyped, LayerOf, LlmInv
<1>2. p \in PlaceIn
  BY <1>1, Sizes DEF PlaceIn
<1>3. InCache(layer, p)
  BY <1>1, <1>2, Sizes DEF InCache, Forwarding, PlaceIn
<1>4. Kept(layer, p) /\ g \in HeadOf
  BY <1>1, <1>2, <1>3, GroupOf DEF CacheKept, LlmInv
<1> HIDE DEF g
<1>5. ReadAt(qh, p) = [k |-> k_cache[KvCell(layer, p, g)], ks |-> k_scale[ScaleCell(layer, p)],
                       v |-> v_cache[KvCell(layer, p, g)], vs |-> v_scale[ScaleCell(layer, p)]]
  BY DEF ReadAt, g
<1>6. ReadAt(qh, p) =
           [k |-> KvOf("WK", layer, p, g), ks |-> KvOf("WK", layer, p, AllHeads),
            v |-> KvOf("WV", layer, p, g), vs |-> KvOf("WV", layer, p, AllHeads)]
  BY <1>4, <1>5 DEF Kept
<1>7. QED BY <1>6 DEF g

LEMMA AttendKeeps ==
  ASSUME LlmInv, Attend
  PROVE  LlmInv'
<1> USE DEF LlmInv
<1>1. /\ lstage = "attend" /\ lstage' = "mlp"
      /\ UNCHANGED <<weights, story, ids, pos, steps, next_token, layer, caches, recent, fed>>
      /\ ctx' = [qh \in 0 .. KvHeads * QueryPerKv - 1 |-> [p \in 0 .. pos |-> ReadAt(qh, p)]]
      /\ res' = [i \in 1 .. pos + 1 |-> Own(ctx'[0][i - 1])]
  BY DEF Attend
<1>2. pos \in PlaceIn /\ pos \in Nat /\ Len(fed) = pos + 1 /\ Listed(fed)
  <2>1. pos \in PlaceIn
    BY <1>1, PlaceFits DEF Forwarding
  <2>2. QED BY <1>1, <2>1, Sizes DEF Placed, Fed, Forwarding, LlmTyped, PlaceIn
<1>3. \A qh \in 0 .. KvHeads * QueryPerKv - 1 : ctx'[qh] = Expected(qh)
  BY <1>1, ReadsRight DEF Expected
<1>4. LlmTyped'
  BY <1>1 DEF LlmTyped, caches, Telling, Forwarding, CacheCells, ScaleCells, kv_stride
<1>5. Placed'
  BY <1>1 DEF Placed, Fed, Forwarding
<1>6. WeightsPlaced'
  BY <1>1 DEF WeightsPlaced, Telling, Forwarding
<1>7. CacheKept'
  BY <1>1, KeptStays DEF CacheKept, InCache, Forwarding
<1>8. ResidualRight'
  <2>1. 0 \in 0 .. KvHeads * QueryPerKv - 1
    <3>1. 0 * QueryPerKv + 0 \in 0 .. KvHeads * QueryPerKv - 1
      BY Sizes, InRows
    <3>2. QED BY <3>1, Sizes
  <2>2. ASSUME NEW i \in 1 .. pos + 1 PROVE Own(ctx'[0][i - 1]) = fed[i]
    <3>1. i - 1 \in 0 .. pos /\ i \in 0 .. Len(fed) /\ (i - 1) + 1 = i /\ i \in Nat \ {0}
      BY <1>2
    <3> DEFINE row == SubSeq(fed, 1, i)
               e == ctx'[0][i - 1]
    <3>2. e.v.sees = IF layer = 0 THEN <<fed[i]>> ELSE row
      <4>1. e = Expected(0)[i - 1]
        BY <1>3, <2>1
      <4>2. e.v = KvOf("WV", layer, i - 1, 0 \div QueryPerKv)
        BY <3>1, <4>1 DEF Expected
      <4>3. e.v.sees = IF layer = 0 THEN <<fed[(i - 1) + 1]>> ELSE SubSeq(fed, 1, (i - 1) + 1)
        BY <4>2 DEF KvOf
      <4>4. QED BY <3>1, <4>3
    <3>3. row = [j \in 1 .. i |-> fed[j]]
      BY <1>2, <3>1, FrontOf
    <3> HIDE DEF row
    <3>4. Listed(row) /\ Len(row) = i
      <4>1. row \in [1 .. i -> {fed[j] : j \in 1 .. i}]
        BY <3>3
      <4>2. QED BY <3>1, <4>1, TableSequence DEF Listed
    <3>5. row # << >> /\ Last(row) = fed[i]
      <4>1. Last(row) = row[i] /\ row[i] = fed[i]
        BY <3>1, <3>3, <3>4, SeqFacts
      <4>2. row # << >>
        BY <3>1, <3>4
      <4>3. QED BY <4>1, <4>2
    <3>6. <<fed[i]>> # << >> /\ Last(<<fed[i]>>) = fed[i]
      BY DEF Last
    <3>7. e.v.sees # << >> /\ Last(e.v.sees) = fed[i]
      BY <3>2, <3>5, <3>6
    <3> HIDE DEF e
    <3>8. Own(e) = fed[i]
      BY <3>7 DEF Own
    <3>9. QED BY <3>8 DEF e
  <2>3. res' = [i \in 1 .. pos + 1 |-> fed[i]]
    BY <1>1, <2>2
  <2>4. SubSeq(fed, 1, pos + 1) = [i \in 1 .. pos + 1 |-> fed[i]]
    BY <1>2, FrontOf
  <2>5. QED BY <1>1, <2>3, <2>4 DEF ResidualRight
<1>9. ContextRight'
  BY <1>1, <1>3 DEF ContextRight, Expected, KvOf
<1>10. HistoryKept'
  BY <1>1 DEF HistoryKept, Forwarding
<1>11. QED BY <1>4, <1>5, <1>6, <1>7, <1>8, <1>9, <1>10

LEMMA MlpKeeps ==
  ASSUME LlmInv, Mlp
  PROVE  LlmInv'
<1> USE DEF LlmInv
<1>1. /\ lstage = "mlp" /\ lstage' = IF layer + 1 < Layers THEN "project" ELSE "head"
      /\ layer' = layer + 1 /\ ctx' = << >>
      /\ UNCHANGED <<weights, story, ids, pos, steps, next_token, res, caches, recent, fed>>
  BY DEF Mlp
<1>2. layer \in LayerOf /\ layer \in Nat /\ lstage' \in {"project", "head"}
  BY <1>1, Sizes DEF Placed, Forwarding, LlmTyped, LayerOf
<1>3. LlmTyped'
  BY <1>1, <1>2, Sizes
     DEF LlmTyped, caches, Telling, Forwarding, LayerOf, CacheCells, ScaleCells, kv_stride
<1>4. Placed'
  BY <1>1, <1>2, Sizes DEF Placed, Fed, Forwarding
<1>5. WeightsPlaced'
  BY <1>1, <1>2 DEF WeightsPlaced, Telling, Forwarding
<1>6. CacheKept'
  <2>1. SUFFICES ASSUME NEW l \in LayerOf, NEW p \in PlaceIn, InCache(l, p)' PROVE Kept(l, p)'
    BY DEF CacheKept
  <2>2. InCache(l, p)
    BY <1>1, <1>2, <2>1, Sizes DEF InCache, Forwarding, LayerOf
  <2>3. QED BY <1>1, <2>2, KeptStays DEF CacheKept
<1>7. ResidualRight'
  BY <1>1, <1>2 DEF ResidualRight
<1>8. ContextRight'
  BY <1>1, <1>2 DEF ContextRight
<1>9. HistoryKept'
  BY <1>1, <1>2 DEF HistoryKept, Forwarding
<1>10. QED BY <1>3, <1>4, <1>5, <1>6, <1>7, <1>8, <1>9

(* recent forgets its oldest entry when it is full.                        *)
LEMMA RecordedFacts ==
  ASSUME Listed(recent), Len(recent) <= RecentCap, NEW t
  PROVE  /\ Listed(Recorded(t))
         /\ Len(Recorded(t)) = IF Len(recent) < RecentCap THEN Len(recent) + 1 ELSE RecentCap
         /\ Recorded(t)[Len(Recorded(t))] = t
         /\ \A i \in Nat \ {0} : i < Len(Recorded(t)) =>
              Recorded(t)[Len(Recorded(t)) - i] = recent[Len(recent) - i + 1]
<1>1. Len(recent) \in Nat /\ RecentCap \in Nat \ {0}
  BY SeqFacts, Sizes
<1>2. CASE Len(recent) < RecentCap
  <2>1. Recorded(t) = Append(recent, t)
    BY <1>2 DEF Recorded
  <2> DEFINE q == Recorded(t)
  <2>2. /\ Listed(q) /\ Len(q) = Len(recent) + 1 /\ q[Len(recent) + 1] = t
        /\ \A i \in 1 .. Len(recent) : q[i] = recent[i]
    BY <2>1, AppendFacts
  <2> HIDE DEF q
  <2>3. ASSUME NEW i \in Nat \ {0}, i < Len(q) PROVE q[Len(q) - i] = recent[Len(recent) - i + 1]
    <3>1. Len(q) - i \in 1 .. Len(recent) /\ Len(q) - i = Len(recent) - i + 1
      BY <1>1, <2>2, <2>3
    <3>2. QED BY <2>2, <3>1
  <2>4. QED BY <1>2, <2>2, <2>3 DEF q
<1>3. CASE ~(Len(recent) < RecentCap)
  <2>1. Recorded(t) = Append(Tail(recent), t) /\ Len(recent) = RecentCap
    BY <1>1, <1>3 DEF Recorded
  <2>2. /\ Listed(Tail(recent)) /\ Len(Tail(recent)) = Len(recent) - 1
        /\ \A i \in 1 .. Len(recent) - 1 : Tail(recent)[i] = recent[i + 1]
    BY <1>1, <2>1, TailFacts
  <2> DEFINE q == Recorded(t)
             r == Tail(recent)
  <2>3. /\ Listed(q) /\ Len(q) = Len(r) + 1 /\ q[Len(r) + 1] = t
        /\ \A i \in 1 .. Len(r) : q[i] = r[i]
    BY <2>1, <2>2, AppendFacts
  <2> HIDE DEF q, r
  <2>4. Len(r) = Len(recent) - 1 /\ \A i \in 1 .. Len(recent) - 1 : r[i] = recent[i + 1]
    BY <2>2 DEF r
  <2>5. ASSUME NEW i \in Nat \ {0}, i < Len(q) PROVE q[Len(q) - i] = recent[Len(recent) - i + 1]
    <3>1. /\ Len(q) - i \in 1 .. Len(recent) - 1 /\ Len(q) - i \in 1 .. Len(r)
          /\ (Len(q) - i) + 1 = Len(recent) - i + 1
      BY <1>1, <2>3, <2>4, <2>5
    <3>2. QED BY <2>3, <2>4, <3>1
  <2>6. Len(q) = RecentCap
    BY <1>1, <2>1, <2>3, <2>4
  <2>7. QED BY <1>1, <1>3, <2>3, <2>4, <2>5, <2>6 DEF q
<1>4. QED BY <1>2, <1>3

LEMMA LmHeadKeeps ==
  ASSUME LlmInv, LmHead
  PROVE  LlmInv'
<1> USE DEF LlmInv
<1>1. /\ lstage = "head" /\ lstage' = "feed" /\ pos' = pos + 1
      /\ recent' = Recorded(next_token')
      /\ UNCHANGED <<weights, story, ids, steps, layer, res, caches, ctx, fed>>
  BY DEF LmHead
<1>2. pos \in PlaceIn /\ pos \in Nat
  <2>1. pos \in PlaceIn
    BY <1>1, PlaceFits DEF Forwarding
  <2>2. QED BY <2>1, Sizes DEF PlaceIn
<1>3. Listed(recent) /\ Len(recent) <= RecentCap /\ Len(recent) \in Nat
  BY SeqFacts DEF LlmTyped
<1>4. /\ Listed(recent')
      /\ Len(recent') = IF Len(recent) < RecentCap THEN Len(recent) + 1 ELSE RecentCap
      /\ recent'[Len(recent')] = next_token'
      /\ \A i \in Nat \ {0} : i < Len(recent') =>
           recent'[Len(recent') - i] = recent[Len(recent) - i + 1]
  BY <1>1, <1>3, RecordedFacts
<1>5. LlmTyped'
  <2>1. Len(recent') <= RecentCap
    BY <1>3, <1>4, Sizes
  <2>2. QED BY <1>1, <1>2, <1>4, <2>1, Sizes
             DEF LlmTyped, caches, Telling, PlaceIn, CacheCells, ScaleCells, kv_stride
<1>6. Placed'
  BY <1>1 DEF Placed, Fed, Forwarding
<1>7. WeightsPlaced'
  BY <1>1 DEF WeightsPlaced, Telling, Forwarding
<1>8. CacheKept'
  <2>1. SUFFICES ASSUME NEW l \in LayerOf, NEW p \in PlaceIn, InCache(l, p)' PROVE Kept(l, p)'
    BY DEF CacheKept
  <2>2. layer = Layers
    BY <1>1 DEF Placed
  <2>3. InCache(l, p)
    BY <1>1, <1>2, <2>1, <2>2, Sizes DEF InCache, Forwarding, LayerOf, PlaceIn
  <2>4. QED BY <1>1, <2>3, KeptStays DEF CacheKept
<1>9. ResidualRight'
  BY <1>1 DEF ResidualRight
<1>10. ContextRight'
  BY <1>1 DEF ContextRight
<1>11. HistoryKept'
  <2>1. Len(recent) = IF pos < RecentCap THEN pos ELSE RecentCap
    BY <1>1 DEF HistoryKept, Forwarding
  <2>2. Len(recent') = IF pos' < RecentCap THEN pos' ELSE RecentCap
    BY <1>1, <1>2, <1>4, <2>1, Sizes
  <2>3. ASSUME NEW i \in Nat \ {0}, i <= steps', i < Len(recent')
        PROVE  recent'[Len(recent') - i] = fed'[Len(fed') - i + 1][2]
    <3>1. i <= steps /\ i <= Len(recent)
      BY <1>1, <1>3, <1>4, <2>3, Sizes
    <3>2. recent[Len(recent) - i + 1] = fed[Len(fed) - i + 1][2]
      BY <1>1, <3>1 DEF HistoryKept, Forwarding
    <3>3. QED BY <1>1, <1>4, <2>3, <3>2
  <2>4. QED BY <1>1, <1>4, <2>2, <2>3 DEF HistoryKept, Forwarding
<1>12. QED BY <1>5, <1>6, <1>7, <1>8, <1>9, <1>10, <1>11

LEMMA LlmInvStep ==
  ASSUME LlmInv, [LlmNext]_llm_vars
  PROVE  LlmInv'
<1>1. CASE LlmNext
  BY <1>1, LoadStepKeeps, BeginStoryKeeps, EndStoryKeeps, FeedKeeps, ProjectKeeps,
     AttendKeeps, MlpKeeps, LmHeadKeeps DEF LlmNext
<1>2. CASE UNCHANGED llm_vars
  <2>1. UNCHANGED <<lstage, weights, story, ids, pos, steps, next_token, layer, res,
                    k_cache, v_cache, k_scale, v_scale, ctx, recent, fed>>
    BY <1>2 DEF llm_vars, caches
  <2> USE DEF LlmInv
  <2>2. LlmTyped' /\ Placed' /\ WeightsPlaced'
    BY <2>1 DEF LlmTyped, Placed, Fed, WeightsPlaced, CacheCells, ScaleCells, kv_stride
  <2>3. CacheKept'
    <3>1. \A l, p : Kept(l, p)' <=> Kept(l, p)
      BY <2>1, KeptStays DEF caches
    <3>2. \A l, p : InCache(l, p)' <=> InCache(l, p)
      BY <2>1 DEF InCache
    <3>3. QED BY <3>1, <3>2 DEF CacheKept
  <2>4. ResidualRight' /\ HistoryKept'
    BY <2>1 DEF ResidualRight, HistoryKept
  <2>5. ContextRight'
    BY <2>1 DEF ContextRight, Expected, KvOf
  <2>6. QED BY <2>2, <2>3, <2>4, <2>5
<1>3. QED BY <1>1, <1>2

LEMMA InvSeesTheStory ==
  ASSUME LlmInv
  PROVE  AttentionSeesTheStory
<1> USE DEF LlmInv
<1>1. ASSUME ctx # << >>
      PROVE  /\ DOMAIN fed = 1 .. pos + 1
             /\ \A qh \in DOMAIN ctx : ctx[qh] = Expected(qh)
  <2>1. lstage = "mlp" /\ Len(fed) = pos + 1
    BY <1>1 DEF ContextRight, Placed, Fed, Forwarding
  <2>2. QED BY <2>1, SeqFacts DEF ContextRight, LlmTyped
<1>2. ASSUME lstage = "feed"
      PROVE  /\ Len(recent) = Min({pos, RecentCap})
             /\ pos > 0 => Last(recent) = next_token
             /\ \A i \in 1 .. Min({steps, Len(recent) - 1}) :
                  recent[Len(recent) - i] = fed[Len(fed) - i + 1][2]
  <2>1. /\ Len(recent) \in Nat /\ pos \in Nat /\ steps \in Nat /\ RecentCap \in Nat
        /\ Last(recent) = recent[Len(recent)]
    BY SeqFacts, Sizes DEF LlmTyped
  <2>2. Len(recent) = Min({pos, RecentCap})
    <3>1. pos \in Int /\ RecentCap \in Int
      BY <2>1
    <3>2. Min({pos, RecentCap}) \in {pos, RecentCap}
          /\ Min({pos, RecentCap}) <= pos /\ Min({pos, RecentCap}) <= RecentCap
      BY <3>1, MinOfTwo
    <3>3. QED BY <1>2, <2>1, <3>2 DEF HistoryKept
  <2>3. ASSUME NEW i \in 1 .. Min({steps, Len(recent) - 1})
        PROVE  recent[Len(recent) - i] = fed[Len(fed) - i + 1][2]
    <3> DEFINE b == Len(recent) - 1
               m == Min({steps, b})
    <3>1. steps \in Int /\ b \in Int
      BY <2>1
    <3> HIDE DEF b
    <3>2. m \in {steps, b} /\ m <= steps /\ m <= b
      BY <3>1, MinOfTwo
    <3>3. i \in 1 .. m
      BY DEF b
    <3> HIDE DEF m
    <3>4. i \in Nat \ {0} /\ i <= steps /\ i <= b
      BY <3>1, <3>2, <3>3
    <3>5. i < Len(recent)
      BY <2>1, <3>4 DEF b
    <3>6. QED BY <1>2, <3>4, <3>5 DEF HistoryKept
  <2>4. QED BY <1>2, <2>1, <2>2, <2>3 DEF HistoryKept
<1>3. QED BY <1>1, <1>2 DEF AttentionSeesTheStory, Expected

-----------------------------------------------------------------------------
(* The story teller among the tests.                                       *)

LEMMA WorkloadKeepsLlm ==
  /\ WorkloadInit => LlmInv
  /\ LlmInv /\ [WorkloadNext]_workload_vars => LlmInv'
<1>1. WorkloadInit => LlmInv
  BY LlmInvInit DEF WorkloadInit
<1>2. [WorkloadNext]_workload_vars => [LlmNext]_llm_vars
  BY DEF WorkloadNext, workload_vars, Halt
<1>3. QED BY <1>1, <1>2, LlmInvStep

(* Whatever stories were told before over the same, never cleared cache,   *)
(* for every number of layers, heads and positions and every order of the  *)
(* model file: every query head of every layer attends to exactly the      *)
(* tokens of this story so far, each at its position with its own scales   *)
(* and head, and recent holds the last results (llm_forward, llm_generate, *)
(* llm_model_load).                                                        *)
THEOREM StoriesStayApart == WorkloadSpec => []AttentionSeesTheStory
<1>1. LlmInv => AttentionSeesTheStory
  BY InvSeesTheStory
<1>2. QED BY <1>1, WorkloadKeepsLlm, PTL DEF WorkloadSpec

(* A story never leaves the cache: the position a token is computed at is  *)
(* one of the max_seq_len positions, a layer's number is one of the        *)
(* model's, the prompt fits its buffer and recent its array.               *)
THEOREM StoriesFitTheCache == WorkloadSpec => []LlmTypeOK
<1>1. LlmInv => LlmTypeOK
  <2>1. ASSUME LlmInv, lstage \in {"project", "attend", "mlp", "head"} PROVE pos < MaxSeq
    BY <2>1, PlaceFits, Sizes DEF LlmInv, Forwarding, PlaceIn
  <2>2. QED BY <2>1 DEF LlmInv, LlmTyped, LlmTypeOK, Telling, Forwarding
<1>2. QED BY <1>1, WorkloadKeepsLlm, PTL DEF WorkloadSpec

-----------------------------------------------------------------------------
(* What the encoder was given, and what it returned.                       *)

StoryEncoded ==
  lstage \in {"feed"} \cup Forwarding =>
    story \in 1 .. Len(Prompts) /\ ids = llm_tokenizer_encode(Prompts[story], MaxIds)

CallEncoded ==
  kcase.kernel = "encode" =>
    /\ kcase \in KernelCases
    /\ kout # << >> => kout[1] = llm_tokenizer_encode(kcase.text, kcase.max_ids)

EncodeInv == StoryEncoded /\ CallEncoded

LEMMA WorkloadKeepsEncodings ==
  /\ WorkloadInit => EncodeInv
  /\ LlmInv /\ EncodeInv /\ [WorkloadNext]_workload_vars => EncodeInv'
<1>1. ASSUME WorkloadInit PROVE EncodeInv
  <2>1. lstage \in {"off", "load"} /\ kout = << >>
    BY <1>1 DEF WorkloadInit, llm_init_at, KernelsOff, KernelInit
  <2>2. kcase.kernel = "encode" => kcase \in KernelCases
    <3>1. kcase \in KernelCases \/ kcase = [kernel |-> "off"]
      BY <1>1 DEF WorkloadInit, KernelsOff, KernelInit
    <3>2. QED BY <3>1
  <2>3. QED BY <2>1, <2>2 DEF EncodeInv, StoryEncoded, CallEncoded, Forwarding
<1>2. ASSUME LlmInv, EncodeInv, [WorkloadNext]_workload_vars PROVE EncodeInv'
  <2>1. StoryEncoded'
    <3>1. CASE BeginStory
      <4>1. /\ lstage' = "feed" /\ story' = story + 1 /\ story < Len(Prompts)
            /\ ids' = llm_tokenizer_encode(Prompts[story + 1], MaxIds)
        BY <3>1 DEF BeginStory
      <4>2. story + 1 \in 1 .. Len(Prompts)
        <5>1. Len(Prompts) \in Nat
          BY PromptsAreTexts, LenProperties
        <5>2. QED BY <1>2, <4>1, <5>1 DEF LlmInv, LlmTyped
      <4>3. QED BY <4>1, <4>2 DEF StoryEncoded
    <3>2. CASE llm_model_load \/ BadMagic \/ EndStory \/ UNCHANGED llm_vars
      BY <1>2, <3>2 DEF EncodeInv, StoryEncoded, Forwarding, llm_model_load, BadMagic,
                        EndStory, llm_vars
    <3>3. CASE FeedPrompt \/ FeedBack
      BY <1>2, <3>3 DEF EncodeInv, StoryEncoded, Forwarding, FeedPrompt, FeedBack, Forward
    <3>4. CASE Project \/ Attend \/ Mlp \/ LmHead
      BY <1>2, <3>4 DEF EncodeInv, StoryEncoded, Forwarding, Project, Attend, Mlp, LmHead
    <3>5. LlmNext \/ UNCHANGED llm_vars
      BY <1>2 DEF WorkloadNext, workload_vars, Halt
    <3>6. QED BY <3>1, <3>2, <3>3, <3>4, <3>5 DEF LlmNext
  <2>2. CallEncoded'
    <3>1. CASE Compute
      <4>1. kcase' = kcase /\ kout' = <<Run(kcase)>>
        BY <3>1 DEF Compute
      <4>2. ASSUME kcase.kernel = "encode"
            PROVE  Run(kcase) = llm_tokenizer_encode(kcase.text, kcase.max_ids)
        BY <4>2 DEF Run
      <4>3. QED BY <1>2, <4>1, <4>2 DEF EncodeInv, CallEncoded
    <3>2. CASE UNCHANGED kernel_vars
      BY <1>2, <3>2 DEF EncodeInv, CallEncoded, kernel_vars
    <3>3. Compute \/ UNCHANGED kernel_vars
      BY <1>2 DEF WorkloadNext, workload_vars, Halt
    <3>4. QED BY <3>1, <3>2, <3>3
  <2>3. QED BY <2>1, <2>2 DEF EncodeInv
<1>3. QED BY <1>1, <1>2

(* Every prompt, and every text, of any vocabulary and any ranked rules,   *)
(* reaches the model as its byte pair encoding, in no more ids than there  *)
(* is room for, and reads back as the text where every character is known  *)
(* and no token is longer than decode_buf (llm_tokenizer_encode, _decode). *)
THEOREM TextsAreEncoded == WorkloadSpec => []EncodeIsBpe
<1> DEFINE S == STRING \ {Mark}
<1>0. /\ S \subseteq STRING /\ Mark \notin S /\ Prompts \in Seq(Seq(S))
      /\ \A o \in KernelCases :
           o.kernel = "encode" => o.text \in Seq(S) /\ o.max_ids \in Nat
  BY PromptsAreTexts, TextsAreTexts
<1> HIDE DEF S
<1>1. EncodeInv => EncodeIsBpe
  <2>1. ASSUME EncodeInv, lstage = "feed" PROVE EncodedAsBpe(Prompts[story], MaxIds, ids)
    <3>1. story \in 1 .. Len(Prompts) /\ ids = llm_tokenizer_encode(Prompts[story], MaxIds)
      BY <2>1 DEF EncodeInv, StoryEncoded
    <3>2. Prompts[story] \in Seq(S) /\ MaxIds \in Nat
      BY <3>1, <1>0, ElementOfSeq, ModelSizes
    <3>3. QED BY <1>0, <3>1, <3>2, EncodingIsBpe
  <2>2. ASSUME EncodeInv, kout # << >>, kcase.kernel = "encode"
        PROVE  EncodedAsBpe(kcase.text, kcase.max_ids, kout[1])
    <3>1. /\ kcase.text \in Seq(S) /\ kcase.max_ids \in Nat
          /\ kout[1] = llm_tokenizer_encode(kcase.text, kcase.max_ids)
      BY <2>2, <1>0 DEF EncodeInv, CallEncoded
    <3>2. QED BY <1>0, <3>1, EncodingIsBpe
  <2>3. QED BY <2>1, <2>2 DEF EncodeIsBpe, StoriesEncoded, TextsEncoded
<1>2. LlmInv /\ EncodeInv /\ [WorkloadNext]_workload_vars => LlmInv' /\ EncodeInv'
  BY WorkloadKeepsLlm, WorkloadKeepsEncodings
<1>3. WorkloadInit => LlmInv /\ EncodeInv
  BY WorkloadKeepsLlm, WorkloadKeepsEncodings
<1>4. QED BY <1>1, <1>2, <1>3, PTL DEF WorkloadSpec

-----------------------------------------------------------------------------
(* The detector.  First the cells of a tensor in the order of decode.      *)

(* The digits of a number written by column, row and anchor.               *)
LEMMA CellOfNumber ==
  ASSUME NEW h \in Nat \ {0}, NEW w \in Nat \ {0}, NEW d \in Nat \ {0},
         NEW k \in 0 .. h * w * d - 1
  PROVE  /\ (k \div w) % h \in 0 .. h - 1 /\ k % w \in 0 .. w - 1
         /\ k \div (h * w) \in 0 .. d - 1
<1>1. w * h \in Nat /\ h * w \in Nat /\ k \in Nat /\ d \in Nat
  BY Product
<1>2. k \div w \in Nat /\ k % w \in 0 .. w - 1
  BY <1>1, RowOf
<1>3. (k \div w) % h \in 0 .. h - 1
  BY <1>2, RowOf
<1> DEFINE n == h * w
           q == k \div n
<1>4. n \in Nat \ {0}
  <2>1. 0 * w + w <= h * w
    BY RowsAscend
  <2>2. QED BY <2>1, <1>1
<1>5. k < n * d /\ n * d \in Nat
  BY <1>1, Product
<1> HIDE DEF n
<1>6. q \in Nat /\ q * n \in Nat /\ k = q * n + (k % n) /\ k % n \in 0 .. n - 1
  BY <1>1, <1>4, RowOf
<1> HIDE DEF q
<1>7. ~(d <= q)
  <2>1. ASSUME d <= q PROVE FALSE
    <3>1. d * n <= q * n
      <4>1. CASE d = q
        BY <4>1, <1>6
      <4>2. CASE d < q
        <5>1. d * n + n <= q * n
          BY <4>2, <1>1, <1>4, <1>6, RowsAscend
        <5>2. d * n \in Nat
          BY <1>1, <1>4, Product
        <5>3. QED BY <5>1, <5>2, <1>4, <1>6
      <4>3. QED BY <2>1, <4>1, <4>2, <1>1, <1>6
    <3>2. d * n = n * d
      BY <1>1, <1>4
    <3>3. QED BY <3>1, <3>2, <1>1, <1>5, <1>6
  <2>2. QED BY <2>1
<1>8. q \in 0 .. d - 1
  BY <1>1, <1>6, <1>7
<1>9. QED BY <1>2, <1>3, <1>8 DEF q, n

Numbered(h, w, d, y, x, a) ==
  \E k \in 0 .. h * w * d - 1 :
    (k \div w) % h = y /\ k % w = x /\ k \div (h * w) = a

LEMMA NumberOfCell ==
  ASSUME NEW h \in Nat \ {0}, NEW w \in Nat \ {0}, NEW d \in Nat \ {0},
         NEW y \in 0 .. h - 1, NEW x \in 0 .. w - 1, NEW a \in 0 .. d - 1
  PROVE  Numbered(h, w, d, y, x, a)
<1> DEFINE n == h * w
           r == a * h + y
           p == y * w + x
           k == r * w + x
<1>1. n \in Nat \ {0} /\ r \in Nat /\ p \in 0 .. n - 1 /\ a * h \in Nat
  <2>1. 0 * w + w <= h * w /\ h * w \in Nat
    BY RowsAscend, Product
  <2>2. a * h \in Nat
    BY Product
  <2>3. y * w + x \in 0 .. h * w - 1
    BY InRows
  <2>4. QED BY <2>1, <2>2, <2>3
<1>2. k = a * n + p
  <2>1. (a * h + y) * w = (a * h) * w + y * w
    BY <1>1
  <2>2. (a * h) * w = a * (h * w)
    OBVIOUS
  <2>3. QED BY <2>1, <2>2, <1>1
<1>3. k \in 0 .. d * n - 1
  <2> HIDE DEF k, p, n
  <2>1. d \in Nat
    OBVIOUS
  <2>2. a * n + p \in 0 .. d * n - 1
    BY <1>1, <2>1, InRows
  <2>3. QED BY <1>2, <2>2
<1>4. k \in Nat /\ r * w \in Nat
  <2>1. r * w \in Nat
    BY <1>1, Product
  <2>2. QED BY <2>1
<1>5. k \div w = r /\ k % w = x
  <2> HIDE DEF r
  <2>1. /\ k \div w \in Nat /\ k % w \in 0 .. w - 1
        /\ k = (k \div w) * w + (k % w)
    BY <1>4, RowOf
  <2> DEFINE q == k \div w
             s == k % w
  <2>2. q \in Nat /\ s \in 0 .. w - 1 /\ q * w + s = r * w + x
    BY <2>1
  <2> HIDE DEF q, s
  <2>3. q = r /\ s = x
    BY <1>1, <2>2, OneRow
  <2>4. QED BY <2>3 DEF q, s
<1>6. r % h = y
  <2>1. /\ r \div h \in Nat /\ r % h \in 0 .. h - 1
        /\ r = (r \div h) * h + (r % h)
    BY <1>1, RowOf
  <2> DEFINE q == r \div h
             s == r % h
  <2>2. q \in Nat /\ s \in 0 .. h - 1 /\ q * h + s = a * h + y /\ a \in Nat
    BY <2>1
  <2> HIDE DEF q, s
  <2>3. s = y
    BY <2>2, OneRow
  <2>4. QED BY <2>3 DEF s
<1>7. k \div n = a
  <2>1. a * n \in Nat
    BY <1>1, Product
  <2> DEFINE q == k \div n
             s == k % n
  <2>2. q \in Nat /\ s \in 0 .. n - 1 /\ k = q * n + s
    <3> HIDE DEF k, n
    <3>1. QED BY <1>1, <1>4, RowOf
  <2>3. q * n + s = a * n + p
    BY <2>2, <1>2
  <2> HIDE DEF q, s, n, p
  <2>4. a \in Nat
    OBVIOUS
  <2>5. q = a
    BY <1>1, <2>2, <2>3, <2>4, OneRow
  <2>6. QED BY <2>5 DEF q
<1>8. d * n = h * w * d
  BY <1>1
<1>9. k \in 0 .. h * w * d - 1
  BY <1>3, <1>8
<1> HIDE DEF k
<1>10. QED BY <1>5, <1>6, <1>7, <1>9 DEF Numbered

Sized(t) == t.h \in Nat /\ t.w \in Nat

(* decode visits every cell of every anchor, and nothing else.             *)
LEMMA OrderFacts ==
  ASSUME NEW t, Sized(t)
  PROVE  /\ t.h * t.w * na \in Nat
         /\ DOMAIN InOrder(t) = 1 .. t.h * t.w * na
         /\ \A n \in 1 .. t.h * t.w * na : InOrder(t)[n] \in Anchored(t)
         /\ \A c \in Anchored(t) : \E n \in 1 .. t.h * t.w * na : InOrder(t)[n] = c
<1> DEFINE h == t.h
           w == t.w
           size == h * w * na
<1>1. h \in Nat /\ w \in Nat /\ na \in Nat \ {0}
  BY DetectionSizes DEF Sized
<1>2. InOrder(t) = [n \in 1 .. size |->
        <<((n - 1) \div w) % h, (n - 1) % w, (n - 1) \div (h * w) + 1>>]
  BY DEF InOrder
<1>3. Anchored(t) = (0 .. h - 1) \X (0 .. w - 1) \X (1 .. na)
  BY DEF Anchored
<1> HIDE DEF h, w
<1>4. size \in Nat
  BY <1>1, Product
<1>5. ASSUME NEW n \in 1 .. size PROVE InOrder(t)[n] \in Anchored(t)
  <2>1. h # 0 /\ w # 0
    <3>1. ASSUME h = 0 \/ w = 0 PROVE FALSE
      <4>1. h * w = 0
        BY <3>1, <1>1
      <4>2. size = 0
        BY <4>1, <1>1
      <4>3. QED BY <4>2
    <3>2. QED BY <3>1
  <2>2. n - 1 \in 0 .. h * w * na - 1
    BY <1>4
  <2>3. h \in Nat \ {0} /\ w \in Nat \ {0}
    BY <1>1, <2>1
  <2>4. /\ ((n - 1) \div w) % h \in 0 .. h - 1 /\ (n - 1) % w \in 0 .. w - 1
        /\ (n - 1) \div (h * w) \in 0 .. na - 1
    <3> DEFINE k == n - 1
    <3>1. k \in 0 .. h * w * na - 1 /\ na \in Nat \ {0}
      BY <1>1, <2>2
    <3> HIDE DEF k
    <3>2. /\ (k \div w) % h \in 0 .. h - 1 /\ k % w \in 0 .. w - 1
          /\ k \div (h * w) \in 0 .. na - 1
      BY <2>3, <3>1, CellOfNumber
    <3>3. QED BY <3>2 DEF k
  <2>5. (n - 1) \div (h * w) + 1 \in 1 .. na
    BY <1>1, <2>4
  <2>6. QED BY <1>2, <1>3, <2>4, <2>5
<1>6. ASSUME NEW c \in Anchored(t) PROVE \E n \in 1 .. size : InOrder(t)[n] = c
  <2>1. PICK y \in 0 .. h - 1, x \in 0 .. w - 1, a \in 1 .. na : c = <<y, x, a>>
    BY <1>3
  <2> DEFINE b == a - 1
  <2>2. h \in Nat \ {0} /\ w \in Nat \ {0} /\ na \in Nat \ {0} /\ b \in 0 .. na - 1
    BY <1>1
  <2> HIDE DEF b
  <2>3. Numbered(h, w, na, y, x, b)
    BY <2>2, NumberOfCell
  <2>4. PICK k \in 0 .. h * w * na - 1 :
          (k \div w) % h = y /\ k % w = x /\ k \div (h * w) = b
    BY <2>3 DEF Numbered
  <2>5. k + 1 \in 1 .. size /\ (k + 1) - 1 = k
    BY <1>4
  <2>6. InOrder(t)[k + 1] = <<(k \div w) % h, k % w, k \div (h * w) + 1>>
    BY <1>2, <2>5
  <2>7. k \div (h * w) + 1 = a
    BY <2>4 DEF b
  <2>8. QED BY <2>1, <2>4, <2>5, <2>6, <2>7
<1>7. DOMAIN InOrder(t) = 1 .. size
  BY <1>2
<1>8. QED BY <1>4, <1>5, <1>6, <1>7 DEF h, w

(* Of the numbers at some positions one is the greatest.                   *)
LEMMA GreatestAt ==
  ASSUME NEW n \in Nat, NEW s, s \subseteq 1 .. n, s # {},
         NEW f, \A i \in s : f[i] \in Int
  PROVE  \E i \in s : \A j \in s : f[i] >= f[j]
<1> DEFINE Part(m) == {i \in s : i <= m}
           G == {m \in 0 .. n : Part(m) # {} =>
                   \E i \in Part(m) : \A j \in Part(m) : f[i] >= f[j]}
<1>0. \A i \in s : i \in Nat /\ 1 <= i /\ i <= n
  OBVIOUS
<1>1. 0 \in G
  <2>1. \A i \in s : ~(i <= 0)
    BY <1>0
  <2>2. Part(0) = {}
    BY <2>1, Zenon
  <2>3. 0 \in 0 .. n
    OBVIOUS
  <2>4. QED BY <2>2, <2>3
<1>2. ASSUME NEW m \in 1 .. n, m - 1 \in G PROVE m \in G
  <2>0. m \in Nat
    OBVIOUS
  <2>1. \A i \in Part(m) : i \in Part(m - 1) \/ i = m
    <3>1. ASSUME NEW i \in s, i <= m, i # m PROVE i <= m - 1
      BY <1>0, <2>0, <3>1
    <3>2. QED BY <3>1
  <2>2. \A i \in Part(m - 1) : i \in Part(m)
    BY <1>0, <2>0
  <2>3. CASE m \notin s
    <3>1. \A i \in Part(m) : i \in Part(m - 1)
      BY <2>1, <2>3
    <3>2. Part(m) # {} => Part(m - 1) # {}
      BY <3>1
    <3>3. Part(m - 1) # {} =>
            \E i \in Part(m - 1) : \A j \in Part(m - 1) : f[i] >= f[j]
      BY <1>2
    <3>4. Part(m) # {} => \E i \in Part(m) : \A j \in Part(m) : f[i] >= f[j]
      <4> HIDE DEF Part
      <4>1. QED BY <2>2, <3>1, <3>2, <3>3
    <3>5. QED BY <3>4
  <2>4. CASE m \in s /\ Part(m - 1) = {}
    <3>1. m \in Part(m) /\ \A j \in Part(m) : j = m
      BY <2>1, <2>4
    <3>2. f[m] >= f[m]
      BY <2>4
    <3>3. \A j \in Part(m) : f[m] >= f[j]
      BY <3>1, <3>2, Zenon
    <3>4. QED BY <3>1, <3>3
  <2>5. CASE m \in s /\ Part(m - 1) # {}
    <3>1. PICK i \in Part(m - 1) : \A j \in Part(m - 1) : f[i] >= f[j]
      BY <1>2, <2>5
    <3>2. f[i] \in Int /\ f[m] \in Int /\ i \in Part(m) /\ m \in Part(m)
      BY <2>2, <2>5
    <3>3. CASE f[i] >= f[m]
      <4>1. \A j \in Part(m) : f[i] >= f[j]
        BY <2>1, <3>1, <3>3
      <4>2. QED BY <3>2, <4>1
    <3>4. CASE ~(f[i] >= f[m])
      <4>1. f[m] >= f[m]
        BY <3>2
      <4>2. ASSUME NEW j \in Part(m - 1) PROVE f[m] >= f[j]
        <5>1. f[j] \in Int /\ f[i] >= f[j]
          BY <3>1
        <5>2. QED BY <3>2, <3>4, <5>1
      <4>3. \A j \in Part(m) : f[m] >= f[j]
        BY <2>1, <4>1, <4>2
      <4>4. QED BY <3>2, <4>3
    <3>5. QED BY <3>3, <3>4
  <2>6. QED BY <2>3, <2>4, <2>5
<1> HIDE DEF G
<1>3. n \in G
  <2>1. \A m \in 0 .. n : m \in G
    BY <1>1, <1>2, Upward
  <2>2. QED BY <2>1
<1>4. Part(n) = s
  BY <1>0
<1>5. QED BY <1>3, <1>4 DEF G

(* A half of a size that is not negative, either side of a centre.         *)
LEMMA Spread ==
  ASSUME NEW c \in Int, NEW v \in Nat, NEW b \in Nat, NEW s \in Nat, NEW u \in Nat \ {0}
  PROVE  LET e == ((((((2 * v) * (2 * v)) \div u) * b) \div u) * s) \div 2 IN
         /\ c - e \in Int /\ c + e \in Int /\ c - e <= c + e
<1> DEFINE p == (2 * v) * (2 * v)
           q == p \div u
           r == q * b
           t == r \div u
           z == t * s
           e == z \div 2
<1>1. p \in Nat
  BY Product
<1>2. q \in Nat
  <2> HIDE DEF p
  <2>1. QED BY <1>1, RowOf
<1>3. r \in Nat
  <2> HIDE DEF q
  <2>1. QED BY <1>2, Product
<1>4. t \in Nat
  <2> HIDE DEF r
  <2>1. QED BY <1>3, RowOf
<1>5. z \in Nat
  <2> HIDE DEF t
  <2>1. QED BY <1>4, Product
<1>6. e \in Nat
  <2> HIDE DEF z
  <2>1. QED BY <1>5
<1>7. c - e \in Int /\ c + e \in Int /\ c - e <= c + e
  <2> HIDE DEF e
  <2>1. QED BY <1>6
<1>8. QED BY <1>7

Logits == [1 .. 5 + Classes -> DOMAIN Sigmoid]

LEMMA ClassFacts ==
  ASSUME NEW l \in Logits
  PROVE  BestClass(l) \in 1 .. Classes /\ Score(l) \in Nat
<1>1. Classes \in Nat \ {0} /\ Unit \in Nat \ {0}
  BY DetectionSizes
<1>2. \A i \in 1 .. 5 + Classes : l[i] \in Int /\ l[i] \in DOMAIN Sigmoid
  BY LogitsHaveProbabilities DEF Logits
<1>3. BestClass(l) \in 1 .. Classes
  <2> DEFINE f == [c \in 1 .. Classes |-> l[5 + c]]
             best == {c \in 1 .. Classes : \A d \in 1 .. Classes : l[5 + c] >= l[5 + d]}
  <2>1. \A c \in 1 .. Classes : f[c] \in Int
    BY <1>1, <1>2
  <2>2. 1 .. Classes # {} /\ Classes \in Nat
    BY <1>1
  <2>3. PICK c \in 1 .. Classes : \A d \in 1 .. Classes : f[c] >= f[d]
    <3> HIDE DEF f
    <3>1. QED BY <2>1, <2>2, GreatestAt
  <2>4. c \in best
    BY <2>3
  <2>5. best \subseteq Nat /\ best # {}
    BY <2>4
  <2>6. BestClass(l) = Min(best)
    BY DEF BestClass
  <2>7. best \subseteq 1 .. Classes
    OBVIOUS
  <2> HIDE DEF best
  <2>8. QED BY <2>5, <2>6, <2>7, MinOf
<1>4. 5 \in 1 .. 5 + Classes /\ 5 + BestClass(l) \in 1 .. 5 + Classes
  BY <1>1, <1>3
<1> DEFINE x == Sigmoid[l[5]]
           y == Sigmoid[l[5 + BestClass(l)]]
<1>5. x \in Nat /\ y \in Nat
  <2>1. l[5] \in DOMAIN Sigmoid /\ l[5 + BestClass(l)] \in DOMAIN Sigmoid
    BY <1>2, <1>4
  <2>2. QED BY <2>1, <1>1, LogitsHaveProbabilities
<1>6. Score(l) = (x * y) \div Unit
  BY DEF Score
<1> HIDE DEF x, y
<1>7. x * y \in Nat
  BY <1>5, Product
<1>8. (x * y) \div Unit \in Nat
  BY <1>1, <1>7, RowOf
<1>9. QED BY <1>3, <1>6, <1>8

(* A box with its corners in order.                                        *)
Box == {b \in [x1 : Int, y1 : Int, x2 : Int, y2 : Int, score : Nat, cls : 1 .. Classes] :
          b.x1 <= b.x2 /\ b.y1 <= b.y2}

CellOf == Int \X Int \X (1 .. na)

LEMMA BoxTyped ==
  ASSUME NEW l \in Logits, NEW si \in DOMAIN Strides, si \in DOMAIN Anchors,
         NEW cell \in CellOf
  PROVE  BoxOf(si, cell, l) \in Box /\ BoxOf(si, cell, l).score = Score(l)
<1> DEFINE s == Strides[si]
           bw == Anchors[si][cell[3]][1]
           bh == Anchors[si][cell[3]][2]
           cx == (2 * Sigmoid[l[1]] - Unit \div 2 + cell[2] * Unit) * s
           cy == (2 * Sigmoid[l[2]] - Unit \div 2 + cell[1] * Unit) * s
           v == Sigmoid[l[3]]
           w == Sigmoid[l[4]]
           ew == ((((((2 * v) * (2 * v)) \div Unit) * bw) \div Unit) * s) \div 2
           eh == ((((((2 * w) * (2 * w)) \div Unit) * bh) \div Unit) * s) \div 2
<1>1. Classes \in Nat \ {0} /\ Unit \in Nat \ {0} /\ na \in Nat
  BY DetectionSizes
<1>2. s \in Nat
  BY DetectionSizes, LenProperties, ElementOfSeq
<1>3. bw \in Nat /\ bh \in Nat
  <2>1. Anchors[si] \in [1 .. na -> Nat \X Nat] /\ cell[3] \in 1 .. na
    <3>1. Anchors \in Seq([1 .. na -> Nat \X Nat])
      BY DetectionSizes
    <3>2. DOMAIN Anchors = 1 .. Len(Anchors)
      BY <3>1, LenProperties
    <3>3. QED BY <3>1, <3>2, ElementOfSeq DEF CellOf
  <2>2. QED BY <2>1
<1>4. \A i \in 1 .. 4 : Sigmoid[l[i]] \in Nat
  <2>1. \A i \in 1 .. 4 : l[i] \in DOMAIN Sigmoid
    BY <1>1 DEF Logits
  <2>2. QED BY <2>1, <1>1, LogitsHaveProbabilities
<1>5. cx \in Int /\ cy \in Int
  <2> DEFINE a == Sigmoid[l[1]]
             b == Sigmoid[l[2]]
  <2>1. a \in Nat /\ b \in Nat /\ cell[1] \in Int /\ cell[2] \in Int
    BY <1>4 DEF CellOf
  <2> HIDE DEF a, b, s
  <2>2. (2 * a - Unit \div 2 + cell[2] * Unit) * s \in Int
    BY <1>1, <1>2, <2>1
  <2>3. (2 * b - Unit \div 2 + cell[1] * Unit) * s \in Int
    BY <1>1, <1>2, <2>1
  <2>4. QED BY <2>2, <2>3 DEF a, b
<1>6. v \in Nat /\ w \in Nat
  BY <1>4
<1>7. BoxOf(si, cell, l) =
        [x1 |-> cx - ew, y1 |-> cy - eh, x2 |-> cx + ew, y2 |-> cy + eh,
         score |-> Score(l), cls |-> BestClass(l)]
  BY DEF BoxOf
<1>8. cx - ew \in Int /\ cx + ew \in Int /\ cx - ew <= cx + ew
  <2> HIDE DEF cx, v, bw, s
  <2>1. QED BY <1>1, <1>2, <1>3, <1>5, <1>6, Spread
<1>9. cy - eh \in Int /\ cy + eh \in Int /\ cy - eh <= cy + eh
  <2> HIDE DEF cy, w, bh, s
  <2>1. QED BY <1>1, <1>2, <1>3, <1>5, <1>6, Spread
<1>10. BestClass(l) \in 1 .. Classes /\ Score(l) \in Nat
  BY ClassFacts
<1> HIDE DEF cx, cy, ew, eh
<1>11. QED BY <1>7, <1>8, <1>9, <1>10 DEF Box

-----------------------------------------------------------------------------
(* decode, cell by cell.                                                   *)

HeadTensor(si) == results[detect_idx[si]]

Visit(si, found, cell) ==
  IF Over(HeadTensor(si).logits[cell]) /\ Len(found) < MaxBoxes
  THEN Append(found, BoxOf(si, cell, HeadTensor(si).logits[cell])) ELSE found

VisitRec(f, si, before) ==
  f = [s \in SUBSET (DOMAIN InOrder(HeadTensor(si))) |->
         IF s = {} THEN before
         ELSE Visit(si, f[s \ {Max(s)}], InOrder(HeadTensor(si))[Max(s)])]

LEMMA VisitEquation ==
  ASSUME NEW si, NEW before, NEW g, VisitRec(g, si, before)
  PROVE  \E f : /\ VisitRec(f, si, before)
                /\ CandidatesOf(si, before) = f[DOMAIN InOrder(HeadTensor(si))]
BY Zenon DEF CandidatesOf, FoldLeft, MapThenFoldSet, VisitRec, Visit, HeadTensor

(* What a detect tensor is when decode comes to it.                        *)
Decodable(si) ==
  /\ si \in DOMAIN Strides /\ si \in DOMAIN Anchors
  /\ Sized(HeadTensor(si))
  /\ \A cell \in Anchored(HeadTensor(si)) : HeadTensor(si).logits[cell] \in Logits

BoxAt(si, cell) == BoxOf(si, cell, HeadTensor(si).logits[cell])
OverAt(si, cell) == Over(HeadTensor(si).logits[cell])

FoundIn(si) == {BoxAt(si, cell) : cell \in {c \in Anchored(HeadTensor(si)) : OverAt(si, c)}}

BoxLists == {found \in Seq(Box) : Len(found) <= MaxBoxes}

Members(s) == {s[i] : i \in DOMAIN s}

LEMMA CellBox ==
  ASSUME NEW si, Decodable(si), NEW cell \in Anchored(HeadTensor(si))
  PROVE  BoxAt(si, cell) \in Box /\ BoxAt(si, cell).score = Score(HeadTensor(si).logits[cell])
<1> DEFINE t == HeadTensor(si)
<1>1. t.h \in Nat /\ t.w \in Nat
  BY DEF Decodable, Sized
<1>2. cell \in (0 .. t.h - 1) \X (0 .. t.w - 1) \X (1 .. na)
  BY DEF Anchored
<1>3. cell \in CellOf
  <2> HIDE DEF t
  <2>1. QED BY <1>1, <1>2 DEF CellOf
<1>4. si \in DOMAIN Strides /\ si \in DOMAIN Anchors /\ t.logits[cell] \in Logits
  BY DEF Decodable
<1>5. BoxOf(si, cell, t.logits[cell]) \in Box
      /\ BoxOf(si, cell, t.logits[cell]).score = Score(t.logits[cell])
  <2> HIDE DEF t
  <2>1. QED BY <1>3, <1>4, BoxTyped
<1>6. QED BY <1>5 DEF BoxAt

(* A look at a cell adds its box, if it is over and there is room.         *)
LEMMA VisitFacts ==
  ASSUME NEW si, Decodable(si), NEW cell \in Anchored(HeadTensor(si)), NEW found \in BoxLists
  PROVE  LET r == Visit(si, found, cell) IN
         /\ r \in BoxLists /\ Len(found) <= Len(r)
         /\ Members(found) \subseteq Members(r)
         /\ Members(r) \subseteq Members(found)
              \cup (IF OverAt(si, cell) THEN {BoxAt(si, cell)} ELSE {})
         /\ Len(r) < MaxBoxes /\ OverAt(si, cell) => BoxAt(si, cell) \in Members(r)
<1> DEFINE r == Visit(si, found, cell)
           b == BoxAt(si, cell)
<1>1. found \in Seq(Box) /\ Len(found) \in Nat /\ Len(found) <= MaxBoxes
      /\ DOMAIN found = 1 .. Len(found) /\ MaxBoxes \in Nat
  BY LenProperties, DetectionSizes DEF BoxLists
<1>2. b \in Box
  BY CellBox
<1>3. CASE OverAt(si, cell) /\ Len(found) < MaxBoxes
  <2>1. r = Append(found, b)
    BY <1>3 DEF Visit, OverAt, BoxAt
  <2> HIDE DEF r, b
  <2>2. /\ r \in Seq(Box) /\ Len(r) = Len(found) + 1
        /\ \A i \in 1 .. Len(found) : r[i] = found[i]
        /\ r[Len(found) + 1] = b
    BY <1>1, <1>2, <2>1, AppendProperties
  <2>3. DOMAIN r = 1 .. Len(found) + 1
    BY <2>2, LenProperties
  <2>4. r \in BoxLists /\ Len(found) <= Len(r)
    BY <1>1, <1>3, <2>2 DEF BoxLists
  <2>5. Members(found) \subseteq Members(r)
    <3>1. ASSUME NEW i \in 1 .. Len(found) PROVE found[i] \in Members(r)
      <4>1. i \in DOMAIN r /\ found[i] = r[i]
        BY <1>1, <2>2, <2>3
      <4>2. QED BY <4>1 DEF Members
    <3>2. QED BY <1>1, <3>1 DEF Members
  <2>6. b \in Members(r)
    <3>1. Len(found) + 1 \in DOMAIN r
      BY <1>1, <2>3
    <3>2. QED BY <2>2, <3>1 DEF Members
  <2>7. ASSUME NEW i \in DOMAIN r PROVE r[i] \in Members(found) \cup {b}
    <3>1. i \in 1 .. Len(found) \/ i = Len(found) + 1
      BY <1>1, <2>3
    <3>2. CASE i \in 1 .. Len(found)
      <4>1. r[i] = found[i] /\ i \in DOMAIN found
        BY <1>1, <2>2, <3>2
      <4>2. QED BY <4>1 DEF Members
    <3>3. CASE i = Len(found) + 1
      BY <2>2, <3>3
    <3>4. QED BY <3>1, <3>2, <3>3
  <2>8. Members(r) \subseteq Members(found) \cup {b}
    BY <2>7 DEF Members
  <2>9. QED BY <1>3, <2>4, <2>5, <2>6, <2>8 DEF r, b
<1>4. CASE ~(OverAt(si, cell) /\ Len(found) < MaxBoxes)
  <2>1. r = found
    BY <1>4 DEF Visit, OverAt
  <2> HIDE DEF r
  <2>2. QED BY <1>1, <1>4, <2>1 DEF r
<1>5. QED BY <1>3, <1>4

(* The chain of looks that decode runs over a tensor.                      *)
LEMMA VisitChain ==
  ASSUME NEW si, Decodable(si), NEW before \in BoxLists
  PROVE  \E n, c :
           /\ n \in Nat /\ c[0] = before
           /\ \A m \in 1 .. n : /\ InOrder(HeadTensor(si))[m] \in Anchored(HeadTensor(si))
                                /\ c[m] = Visit(si, c[m - 1], InOrder(HeadTensor(si))[m])
           /\ \A cell \in Anchored(HeadTensor(si)) :
                \E m \in 1 .. n : InOrder(HeadTensor(si))[m] = cell
           /\ CandidatesOf(si, before) = c[n]
<1> DEFINE t == HeadTensor(si)
           o == InOrder(t)
           n == t.h * t.w * na
           S == BoxLists
           F == [x \in S \X (1 .. n) |-> Visit(si, x[1], o[x[2]])]
<1>1. /\ n \in Nat /\ DOMAIN o = 1 .. n
      /\ \A m \in 1 .. n : o[m] \in Anchored(t)
      /\ \A cell \in Anchored(t) : \E m \in 1 .. n : o[m] = cell
  <2>1. Sized(t)
    BY DEF Decodable
  <2>2. QED BY <2>1, OrderFacts
<1>2. \A found \in S, m \in 1 .. n : Visit(si, found, o[m]) \in S
  BY <1>1, VisitFacts
<1>3. F \in [S \X (1 .. n) -> S]
  BY <1>2
<1> HIDE DEF S, n, o
<1>4. PICK g : Folds(g, n, S, before, F)
  <2> HIDE DEF F
  <2>1. n \in Nat /\ before \in S /\ F \in [S \X (1 .. n) -> S]
    BY <1>1, <1>3 DEF S
  <2>2. QED BY <2>1, FoldExists
<1>5. ASSUME NEW s \in SUBSET (1 .. n), s # {}
      PROVE  s \ {Max(s)} \in SUBSET (1 .. n) /\ Max(s) \in 1 .. n
  BY <1>1, <1>5, MaxOf
<1>6. ASSUME NEW s \in SUBSET (1 .. n)
      PROVE  g[s] = IF s = {} THEN before ELSE Visit(si, g[s \ {Max(s)}], o[Max(s)])
  <2>1. CASE s = {}
    BY <1>4, <2>1 DEF Folds
  <2>2. CASE s # {}
    <3>1. g[s \ {Max(s)}] \in S /\ Max(s) \in 1 .. n
      BY <1>4, <1>5, <2>2 DEF Folds
    <3>2. F[<<g[s \ {Max(s)}], Max(s)>>] = Visit(si, g[s \ {Max(s)}], o[Max(s)])
      BY <3>1
    <3> HIDE DEF F
    <3>3. QED BY <1>4, <2>2, <3>2 DEF Folds
  <2>3. QED BY <2>1, <2>2
<1>7. VisitRec(g, si, before)
  <2>1. g = [s \in SUBSET (1 .. n) |-> g[s]]
    BY <1>4 DEF Folds
  <2>2. g = [s \in SUBSET (1 .. n) |->
               IF s = {} THEN before ELSE Visit(si, g[s \ {Max(s)}], o[Max(s)])]
    BY <1>6, <2>1, Zenon
  <2>3. g = [s \in SUBSET (DOMAIN o) |->
               IF s = {} THEN before ELSE Visit(si, g[s \ {Max(s)}], o[Max(s)])]
    BY <1>1, <2>2, Zenon
  <2>4. QED BY <2>3 DEF VisitRec, o
<1>8. PICK f : VisitRec(f, si, before)
               /\ CandidatesOf(si, before) = f[DOMAIN InOrder(HeadTensor(si))]
  BY <1>7, VisitEquation
<1> DEFINE c == [m \in 0 .. n |-> f[1 .. m]]
<1>9. f = [s \in SUBSET (1 .. n) |-> IF s = {} THEN before
                                     ELSE Visit(si, f[s \ {Max(s)}], o[Max(s)])]
  <2>1. f = [s \in SUBSET (DOMAIN o) |-> IF s = {} THEN before
                                     ELSE Visit(si, f[s \ {Max(s)}], o[Max(s)])]
    BY <1>8 DEF VisitRec, o
  <2>2. QED BY <1>1, <2>1, Zenon
<1>10. c[0] = before
  <2>1. 1 .. 0 = {} /\ 0 \in 0 .. n
    BY <1>1
  <2>2. QED BY <1>9, <2>1
<1>11. ASSUME NEW m \in 1 .. n PROVE c[m] = Visit(si, c[m - 1], o[m])
  <2>1. m \in 0 .. n /\ m - 1 \in 0 .. n
    BY <1>1
  <2>2. /\ 1 .. m \in SUBSET (1 .. n) /\ 1 .. m # {}
        /\ Max(1 .. m) = m /\ (1 .. m) \ {m} = 1 .. m - 1
    BY <1>1, PrefixOf
  <2>3. f[1 .. m] = Visit(si, f[1 .. m - 1], o[m])
    BY <1>9, <2>2
  <2>4. QED BY <2>1, <2>3
<1>12. c[n] = f[1 .. n]
  BY <1>1
<1> HIDE DEF c
<1>13. CandidatesOf(si, before) = c[n]
  BY <1>1, <1>8, <1>12 DEF o
<1>14. /\ n \in Nat /\ c[0] = before
       /\ \A m \in 1 .. n : o[m] \in Anchored(t) /\ c[m] = Visit(si, c[m - 1], o[m])
       /\ \A cell \in Anchored(t) : \E m \in 1 .. n : o[m] = cell
       /\ CandidatesOf(si, before) = c[n]
  BY <1>1, <1>10, <1>11, <1>13
<1>15. QED BY <1>14, Zenon DEF o

(* decode of one tensor finds boxes of its cells over the threshold, and   *)
(* all of them unless the table is full.                                   *)
LEMMA CandidatesOfFacts ==
  ASSUME NEW si, Decodable(si), NEW before \in BoxLists
  PROVE  LET r == CandidatesOf(si, before) IN
         /\ r \in BoxLists /\ Len(before) <= Len(r)
         /\ Members(before) \subseteq Members(r)
         /\ Members(r) \subseteq Members(before) \cup FoundIn(si)
         /\ Len(r) < MaxBoxes => FoundIn(si) \subseteq Members(r)
<1> DEFINE t == HeadTensor(si)
           o == InOrder(t)
<1>1. PICK n, c :
           /\ n \in Nat /\ c[0] = before
           /\ \A m \in 1 .. n : o[m] \in Anchored(t) /\ c[m] = Visit(si, c[m - 1], o[m])
           /\ \A cell \in Anchored(t) : \E m \in 1 .. n : o[m] = cell
           /\ CandidatesOf(si, before) = c[n]
  BY VisitChain
<1> DEFINE Good(m) ==
             /\ c[m] \in BoxLists /\ Len(before) <= Len(c[m])
             /\ Members(before) \subseteq Members(c[m])
             /\ Members(c[m]) \subseteq Members(before) \cup FoundIn(si)
             /\ Len(c[m]) < MaxBoxes =>
                  \A k \in 1 .. m : OverAt(si, o[k]) => BoxAt(si, o[k]) \in Members(c[m])
           G == {m \in 0 .. n : Good(m)}
<1>2. \A x \in BoxLists : Len(x) \in Nat
  BY LenProperties DEF BoxLists
<1>3. 0 \in G
  <2>1. Len(before) \in Nat /\ MaxBoxes \in Nat /\ c[0] = before
    BY <1>1, <1>2, DetectionSizes
  <2>2. Good(0) /\ 0 \in 0 .. n
    BY <1>1, <2>1
  <2>3. QED BY <2>2
<1>4. ASSUME NEW m \in 1 .. n, m - 1 \in G PROVE m \in G
  <2> DEFINE x == c[m - 1]
             y == c[m]
             cell == o[m]
  <2>0. n \in Nat
    BY <1>1
  <2>1. Good(m - 1) /\ m \in 0 .. n
    BY <1>4, <2>0
  <2>2. x \in BoxLists /\ cell \in Anchored(t) /\ y = Visit(si, x, cell)
    BY <1>1, <2>1
  <2>3. /\ y \in BoxLists /\ Len(x) <= Len(y)
        /\ Members(x) \subseteq Members(y)
        /\ Members(y) \subseteq Members(x)
             \cup (IF OverAt(si, cell) THEN {BoxAt(si, cell)} ELSE {})
        /\ Len(y) < MaxBoxes /\ OverAt(si, cell) => BoxAt(si, cell) \in Members(y)
    <3> HIDE DEF x, y, cell
    <3>1. QED BY <2>2, VisitFacts
  <2>4. Len(x) \in Nat /\ Len(y) \in Nat /\ Len(before) \in Nat /\ MaxBoxes \in Nat
    BY <1>2, <2>2, <2>3, DetectionSizes
  <2>5. Len(before) <= Len(y) /\ (Len(y) < MaxBoxes => Len(x) < MaxBoxes)
    BY <2>1, <2>3, <2>4
  <2>6. OverAt(si, cell) => BoxAt(si, cell) \in FoundIn(si)
    BY <2>2 DEF FoundIn
  <2>7. Members(before) \subseteq Members(y)
        /\ Members(y) \subseteq Members(before) \cup FoundIn(si)
    <3> HIDE DEF y, cell
    <3>1. Members(before) \subseteq Members(x) /\ Members(x) \subseteq Members(before) \cup FoundIn(si)
      BY <2>1
    <3> HIDE DEF x
    <3>2. QED BY <2>3, <2>6, <3>1
  <2>8. ASSUME Len(y) < MaxBoxes, NEW k \in 1 .. m, OverAt(si, o[k])
        PROVE  BoxAt(si, o[k]) \in Members(y)
    <3>1. CASE k = m
      BY <2>3, <2>8, <3>1
    <3>2. CASE k # m
      <4>1. k \in 1 .. m - 1
        BY <3>2
      <4>2. BoxAt(si, o[k]) \in Members(x)
        BY <2>1, <2>5, <2>8, <4>1
      <4>3. QED BY <2>3, <4>2
    <3>3. QED BY <3>1, <3>2
  <2>9. Good(m)
    BY <2>3, <2>5, <2>7, <2>8
  <2>10. QED BY <2>1, <2>9
<1>5. n \in G
  <2> HIDE DEF G
  <2>1. n \in Nat
    BY <1>1
  <2>2. \A m \in 0 .. n : m \in G
    BY <1>3, <1>4, <2>1, Upward
  <2>3. QED BY <2>1, <2>2
<1>6. Good(n)
  BY <1>5
<1>7. Len(c[n]) < MaxBoxes => FoundIn(si) \subseteq Members(c[n])
  <2>1. ASSUME Len(c[n]) < MaxBoxes, NEW cell \in Anchored(t), OverAt(si, cell)
        PROVE  BoxAt(si, cell) \in Members(c[n])
    <3>1. PICK k \in 1 .. n : o[k] = cell
      BY <1>1
    <3>2. QED BY <1>6, <2>1, <3>1
  <2>2. QED BY <2>1 DEF FoundIn
<1>8. QED BY <1>1, <1>6, <1>7

(* The detect tensors, one after the other.                                *)
HeadNumbers == [si \in DOMAIN detect_idx |-> si]

HeadsRec(f) ==
  f = [s \in SUBSET (DOMAIN HeadNumbers) |->
         IF s = {} THEN << >> ELSE CandidatesOf(HeadNumbers[Max(s)], f[s \ {Max(s)}])]

LEMMA HeadsEquation ==
  ASSUME NEW g, HeadsRec(g)
  PROVE  \E f : HeadsRec(f) /\ Candidates = f[DOMAIN HeadNumbers]
BY Zenon DEF Candidates, FoldLeft, MapThenFoldSet, HeadsRec, HeadNumbers

HeadsReady ==
  /\ Len(detect_idx) \in Nat /\ DOMAIN detect_idx = 1 .. Len(detect_idx)
  /\ \A si \in DOMAIN detect_idx : Decodable(si)

LEMMA HeadsChain ==
  ASSUME HeadsReady
  PROVE  \E c : /\ c[0] = << >>
                /\ \A m \in DOMAIN detect_idx : c[m] = CandidatesOf(m, c[m - 1])
                /\ Candidates = c[Len(detect_idx)]
<1> DEFINE n == Len(detect_idx)
           S == BoxLists
           F == [x \in S \X (1 .. n) |-> CandidatesOf(x[2], x[1])]
<1>1. n \in Nat /\ DOMAIN detect_idx = 1 .. n /\ \A si \in 1 .. n : Decodable(si)
  BY DEF HeadsReady
<1>2. << >> \in S
  <2>1. << >> \in Seq(Box) /\ Len(<< >>) = 0
    BY EmptySeq
  <2>2. QED BY <2>1, DetectionSizes DEF BoxLists
<1>3. \A found \in S, m \in 1 .. n : CandidatesOf(m, found) \in S
  BY <1>1, CandidatesOfFacts
<1>4. F \in [S \X (1 .. n) -> S]
  BY <1>3
<1>5. DOMAIN HeadNumbers = 1 .. n /\ \A m \in 1 .. n : HeadNumbers[m] = m
  BY <1>1 DEF HeadNumbers
<1> HIDE DEF S, n
<1>6. PICK g : Folds(g, n, S, << >>, F)
  <2> HIDE DEF F
  <2>1. n \in Nat /\ << >> \in S /\ F \in [S \X (1 .. n) -> S]
    BY <1>1, <1>2, <1>4
  <2>2. QED BY <2>1, FoldExists
<1>7. ASSUME NEW s \in SUBSET (1 .. n), s # {}
      PROVE  s \ {Max(s)} \in SUBSET (1 .. n) /\ Max(s) \in 1 .. n
  BY <1>1, <1>7, MaxOf
<1>8. ASSUME NEW s \in SUBSET (1 .. n)
      PROVE  g[s] = IF s = {} THEN << >>
                    ELSE CandidatesOf(HeadNumbers[Max(s)], g[s \ {Max(s)}])
  <2>1. CASE s = {}
    BY <1>6, <2>1 DEF Folds
  <2>2. CASE s # {}
    <3>1. g[s \ {Max(s)}] \in S /\ Max(s) \in 1 .. n
      BY <1>6, <1>7, <2>2 DEF Folds
    <3>2. F[<<g[s \ {Max(s)}], Max(s)>>] = CandidatesOf(Max(s), g[s \ {Max(s)}])
      BY <3>1
    <3>3. HeadNumbers[Max(s)] = Max(s)
      BY <1>5, <3>1
    <3> HIDE DEF F
    <3>4. QED BY <1>6, <2>2, <3>2, <3>3 DEF Folds
  <2>3. QED BY <2>1, <2>2
<1>9. HeadsRec(g)
  <2>1. g = [s \in SUBSET (1 .. n) |-> g[s]]
    BY <1>6 DEF Folds
  <2>2. g = [s \in SUBSET (1 .. n) |->
               IF s = {} THEN << >> ELSE CandidatesOf(HeadNumbers[Max(s)], g[s \ {Max(s)}])]
    BY <1>8, <2>1, Zenon
  <2>3. g = [s \in SUBSET (DOMAIN HeadNumbers) |->
               IF s = {} THEN << >> ELSE CandidatesOf(HeadNumbers[Max(s)], g[s \ {Max(s)}])]
    BY <1>5, <2>2, Zenon
  <2>4. QED BY <2>3 DEF HeadsRec
<1>10. PICK f : HeadsRec(f) /\ Candidates = f[DOMAIN HeadNumbers]
  BY <1>9, HeadsEquation
<1> DEFINE c == [m \in 0 .. n |-> f[1 .. m]]
<1>11. f = [s \in SUBSET (1 .. n) |->
              IF s = {} THEN << >> ELSE CandidatesOf(HeadNumbers[Max(s)], f[s \ {Max(s)}])]
  <2>1. f = [s \in SUBSET (DOMAIN HeadNumbers) |->
               IF s = {} THEN << >> ELSE CandidatesOf(HeadNumbers[Max(s)], f[s \ {Max(s)}])]
    BY <1>10 DEF HeadsRec
  <2>2. QED BY <1>5, <2>1, Zenon
<1>12. c[0] = << >>
  <2>1. 1 .. 0 = {} /\ 0 \in 0 .. n
    BY <1>1
  <2>2. QED BY <1>11, <2>1
<1>13. ASSUME NEW m \in 1 .. n PROVE c[m] = CandidatesOf(m, c[m - 1])
  <2>1. m \in 0 .. n /\ m - 1 \in 0 .. n
    BY <1>1
  <2>2. /\ 1 .. m \in SUBSET (1 .. n) /\ 1 .. m # {}
        /\ Max(1 .. m) = m /\ (1 .. m) \ {m} = 1 .. m - 1
    BY <1>1, PrefixOf
  <2>3. f[1 .. m] = CandidatesOf(HeadNumbers[m], f[1 .. m - 1])
    BY <1>11, <2>2
  <2>4. HeadNumbers[m] = m
    BY <1>5
  <2>5. QED BY <2>1, <2>3, <2>4
<1>14. c[n] = f[1 .. n]
  BY <1>1
<1> HIDE DEF c
<1>15. \A m \in DOMAIN detect_idx : c[m] = CandidatesOf(m, c[m - 1])
  BY <1>1, <1>13
<1>16. Candidates = c[Len(detect_idx)]
  BY <1>5, <1>10, <1>14 DEF n
<1>17. QED BY <1>12, <1>15, <1>16

(* decode finds boxes of what the detect tensors show, and all of them     *)
(* unless the table is full.                                               *)
LEMMA CandidatesFacts ==
  ASSUME HeadsReady
  PROVE  /\ Candidates \in BoxLists
         /\ Members(Candidates) \subseteq Seen
         /\ Len(Candidates) < MaxBoxes => Seen \subseteq Members(Candidates)
<1> DEFINE n == Len(detect_idx)
<1>1. n \in Nat /\ DOMAIN detect_idx = 1 .. n /\ \A si \in 1 .. n : Decodable(si)
  BY DEF HeadsReady
<1>2. PICK c : /\ c[0] = << >>
               /\ \A m \in 1 .. n : c[m] = CandidatesOf(m, c[m - 1])
               /\ Candidates = c[n]
  BY <1>1, HeadsChain
<1> DEFINE Upto(m) == UNION {FoundIn(si) : si \in 1 .. m}
           Good(m) == /\ c[m] \in BoxLists
                      /\ Members(c[m]) \subseteq Upto(m)
                      /\ Len(c[m]) < MaxBoxes => Upto(m) \subseteq Members(c[m])
           G == {m \in 0 .. n : Good(m)}
<1>3. \A x \in BoxLists : Len(x) \in Nat
  BY LenProperties DEF BoxLists
<1>4. 0 \in G
  <2>1. c[0] \in Seq(Box) /\ Len(c[0]) = 0 /\ DOMAIN c[0] = {}
    BY <1>2, EmptySeq
  <2>2. c[0] \in BoxLists /\ Members(c[0]) = {}
    <3>1. 0 <= MaxBoxes
      BY DetectionSizes
    <3>2. c[0] \in BoxLists
      BY <2>1, <3>1 DEF BoxLists
    <3>3. QED BY <2>1, <3>2 DEF Members
  <2>3. Upto(0) = {}
    <3>1. 1 .. 0 = {}
      OBVIOUS
    <3>2. QED BY <3>1
  <2>4. 0 \in 0 .. n
    BY <1>1
  <2>5. QED BY <2>2, <2>3, <2>4
<1>5. ASSUME NEW m \in 1 .. n, m - 1 \in G PROVE m \in G
  <2> DEFINE x == c[m - 1]
             y == c[m]
  <2>1. Good(m - 1) /\ m \in 0 .. n /\ Decodable(m) /\ y = CandidatesOf(m, x)
    BY <1>1, <1>2, <1>5
  <2>2. x \in BoxLists /\ Members(x) \subseteq Upto(m - 1)
        /\ (Len(x) < MaxBoxes => Upto(m - 1) \subseteq Members(x))
    BY <2>1
  <2>3. /\ y \in BoxLists /\ Len(x) <= Len(y)
        /\ Members(x) \subseteq Members(y)
        /\ Members(y) \subseteq Members(x) \cup FoundIn(m)
        /\ Len(y) < MaxBoxes => FoundIn(m) \subseteq Members(y)
    <3> HIDE DEF x, y
    <3>1. QED BY <2>1, <2>2, CandidatesOfFacts
  <2>4. Len(x) \in Nat /\ Len(y) \in Nat /\ MaxBoxes \in Nat
    BY <1>3, <2>2, <2>3, DetectionSizes
  <2>5. Upto(m) = Upto(m - 1) \cup FoundIn(m)
    <3>1. \A si : si \in 1 .. m <=> si \in 1 .. m - 1 \/ si = m
      OBVIOUS
    <3>2. QED BY <3>1, Zenon
  <2> HIDE DEF Upto, x, y
  <2>6. Len(y) < MaxBoxes => Len(x) < MaxBoxes
    BY <2>3, <2>4
  <2>7. Members(y) \subseteq Upto(m)
    BY <2>2, <2>3, <2>5, Zenon
  <2>8. Len(y) < MaxBoxes => Upto(m) \subseteq Members(y)
    BY <2>2, <2>3, <2>5, <2>6, Zenon
  <2>9. QED BY <2>1, <2>3, <2>7, <2>8 DEF y
<1>6. n \in G
  <2> HIDE DEF G, n
  <2>1. \A m \in 0 .. n : m \in G
    BY <1>1, <1>4, <1>5, Upward
  <2>2. QED BY <1>1, <2>1
<1>7. Seen = Upto(n)
  <2>1. Seen = UNION {FoundIn(si) : si \in DOMAIN detect_idx}
    BY DEF Seen, FoundIn, BoxAt, OverAt, HeadTensor
  <2>2. QED BY <1>1, <2>1
<1>8. QED BY <1>2, <1>6, <1>7

(* What the detect tensors show is over the threshold.                     *)
LEMMA SeenFacts ==
  ASSUME HeadsReady, NEW b \in Seen
  PROVE  b \in Box /\ b.score >= Conf
<1>1. PICK si \in DOMAIN detect_idx : b \in FoundIn(si)
  BY DEF Seen, FoundIn, BoxAt, OverAt, HeadTensor
<1>2. PICK cell \in Anchored(HeadTensor(si)) : OverAt(si, cell) /\ b = BoxAt(si, cell)
  BY <1>1 DEF FoundIn
<1>3. b \in Box /\ b.score = Score(HeadTensor(si).logits[cell])
  BY <1>2, CellBox DEF HeadsReady
<1>4. QED BY <1>2, <1>3 DEF OverAt, Over

-----------------------------------------------------------------------------
(* What the detector keeps true.  First, the forward.                      *)

YoloStages == {"load", "failed", "forward", "decode", "nms", "done", "off"}
Loaded == {"forward", "decode", "nms", "done"}

TensorsSized ==
  /\ results = [i \in 0 .. MaxOps - 1 |-> results[i]]
  /\ \A i \in 0 .. MaxOps - 1 : Sized(results[i])
  /\ ystage \in {"load", "failed", "off"} => \A i \in 0 .. MaxOps - 1 : results[i] = NoTensorYet

ModelLoaded ==
  /\ op_at \in Nat /\ Len(ops) \in Nat /\ op_at <= Len(ops)
  /\ ystage \in Loaded =>
       \E m \in Models : Len(m.ops) <= MaxOps /\ ops = m.ops /\ detect_idx = m.detect

(* A detect tensor was not computed yet, and has no cell, or has logits.   *)
HeadsHaveLogits ==
  ystage \in Loaded =>
    \A si \in DOMAIN detect_idx :
      \A cell \in Anchored(HeadTensor(si)) : HeadTensor(si).logits[cell] \in DetectData

ForwardInv == ystage \in YoloStages /\ TensorsSized /\ ModelLoaded /\ HeadsHaveLogits

LEMMA TableFacts ==
  ASSUME ModelLoaded, ystage \in Loaded
  PROVE  /\ Len(detect_idx) \in Nat /\ DOMAIN detect_idx = 1 .. Len(detect_idx)
         /\ \A si \in DOMAIN detect_idx :
              detect_idx[si] \in 0 .. MaxOps - 1 /\ si \in DOMAIN Strides /\ si \in DOMAIN Anchors
         /\ \A i \in 1 .. Len(ops) :
              LET o == ops[i] IN
              /\ o \in Op
              /\ o.type \in {"conv", "conv_lin"} => o.k <= 2 * o.pad + o.stride
              /\ o.type \in KnownOps \ {"conv_lin"} =>
                   \A si \in DOMAIN detect_idx : detect_idx[si] # o.out
<1>1. PICK m \in Models : Len(m.ops) <= MaxOps /\ ops = m.ops /\ detect_idx = m.detect
  BY DEF ModelLoaded
<1>2. /\ ops \in Seq(Op) /\ detect_idx \in Seq(0 .. MaxOps - 1)
      /\ Len(detect_idx) <= Len(Strides) /\ Len(detect_idx) <= Len(Anchors)
      /\ \A i \in DOMAIN ops :
           LET o == ops[i] IN
           /\ o.type \in {"conv", "conv_lin"} => o.k <= 2 * o.pad + o.stride
           /\ o.type \in KnownOps \ {"conv_lin"} =>
                \A si \in DOMAIN detect_idx : detect_idx[si] # o.out
  BY <1>1, OpTables
<1>3. DOMAIN ops = 1 .. Len(ops) /\ \A i \in 1 .. Len(ops) : ops[i] \in Op
  BY <1>2, LenProperties, ElementOfSeq
<1>4. /\ Len(detect_idx) \in Nat /\ DOMAIN detect_idx = 1 .. Len(detect_idx)
      /\ \A si \in 1 .. Len(detect_idx) : detect_idx[si] \in 0 .. MaxOps - 1
  BY <1>2, LenProperties, ElementOfSeq
<1>5. /\ DOMAIN Strides = 1 .. Len(Strides) /\ Len(Strides) \in Nat
      /\ DOMAIN Anchors = 1 .. Len(Anchors) /\ Len(Anchors) \in Nat
  BY DetectionSizes, LenProperties
<1>6. \A si \in DOMAIN detect_idx : si \in DOMAIN Strides /\ si \in DOMAIN Anchors
  BY <1>2, <1>4, <1>5
<1>7. QED BY <1>2, <1>3, <1>4, <1>6

(* A window that the padding covers but for a stride fits, or none does.   *)
LEMMA WindowsCount ==
  ASSUME NEW x \in Nat, NEW k \in Nat, NEW p \in Nat, NEW s \in Nat \ {0}, k <= 2 * p + s
  PROVE  (x + 2 * p - k) \div s + 1 \in Nat
<1> DEFINE y == x + 2 * p - k
           q == y \div s
<1>1. y \in Int /\ y >= -s
  OBVIOUS
<1> HIDE DEF y
<1>2. q \in Int /\ y = q * s + (y % s) /\ y % s \in 0 .. s - 1
  BY <1>1
<1> DEFINE r == y % s
<1>3. y = q * s + r /\ r \in 0 .. s - 1
  BY <1>2
<1> HIDE DEF q, r
<1>4. ~(q <= -2)
  <2>1. ASSUME q <= -2 PROVE FALSE
    <3> DEFINE e == -2 - q
    <3>1. e \in Nat /\ q = -2 - e
      BY <1>2, <2>1
    <3> HIDE DEF e
    <3>2. q * s = -2 * s - e * s
      BY <3>1
    <3>3. e * s \in Nat
      BY <3>1, Product
    <3>4. QED BY <1>1, <1>3, <3>2, <3>3
  <2>2. QED BY <2>1
<1>5. q + 1 \in Nat
  BY <1>2, <1>4
<1>6. QED BY <1>5 DEF q, y

LEMMA ResultSized ==
  ASSUME ForwardInv, ystage = "forward", op_at < Len(ops), CurrentOp.type \in KnownOps
  PROVE  /\ ResultOf(CurrentOp) = Shape(ResultOf(CurrentOp).c, ResultOf(CurrentOp).h,
                                        ResultOf(CurrentOp).w)
         /\ Sized(ResultOf(CurrentOp)) /\ CurrentOp.out \in 0 .. MaxOps - 1
<1> DEFINE o == CurrentOp
           a == input_tensor(o.in_a)
<1>1. o \in Op /\ (o.type \in {"conv", "conv_lin"} => o.k <= 2 * o.pad + o.stride)
      /\ op_at + 1 \in 1 .. Len(ops)
  <2>1. ystage \in Loaded /\ ModelLoaded
    BY DEF ForwardInv, Loaded
  <2>2. op_at + 1 \in 1 .. Len(ops)
    BY <2>1 DEF ModelLoaded
  <2>3. QED BY <2>1, <2>2, TableFacts DEF CurrentOp
<1>2. /\ o.in_a \in Int /\ o.out \in 0 .. MaxOps - 1 /\ o.k \in Nat
      /\ o.stride \in Nat \ {0} /\ o.pad \in Nat
  BY <1>1 DEF Op
<1>3. a.h \in Nat /\ a.w \in Nat
  <2>1. CASE o.in_a < 0
    BY <2>1, DetectionSizes DEF input_tensor
  <2>2. CASE ~(o.in_a < 0)
    <3>1. PICK m \in Models : Len(m.ops) <= MaxOps /\ ops = m.ops
      BY DEF ForwardInv, ModelLoaded, Loaded
    <3>2. DOMAIN m.ops = 1 .. Len(m.ops) /\ \A j \in 1 .. Len(m.ops) : m.ops[j] \in Op
      <4>1. m.ops \in Seq(Op)
        BY <3>1, OpTables
      <4>2. QED BY <4>1, LenProperties, ElementOfSeq
    <3>3. o.in_a \in {-1} \cup {ops[j].out : j \in 1 .. op_at}
      <4>1. op_at + 1 \in DOMAIN m.ops
        BY <1>1, <3>1, <3>2
      <4>2. ASSUME NEW k \in DOMAIN m.ops
            PROVE  {m.ops[k].in_a, m.ops[k].in_b} \subseteq {-1} \cup {m.ops[j].out : j \in 1 .. k - 1}
        BY <3>1, OpTables
      <4> DEFINE k == op_at + 1
      <4>3. k \in DOMAIN m.ops
        BY <4>1
      <4>4. o = m.ops[k]
        BY <3>1 DEF CurrentOp
      <4> HIDE DEF k, o
      <4>5. o.in_a \in {-1} \cup {m.ops[j].out : j \in 1 .. k - 1}
        BY <4>2, <4>3, <4>4
      <4>6. k - 1 = op_at
        <5>1. op_at \in Nat
          BY DEF ForwardInv, ModelLoaded
        <5>2. QED BY <5>1 DEF k
      <4>7. QED BY <3>1, <4>5, <4>6
    <3>4. PICK j \in 1 .. op_at : o.in_a = ops[j].out
      BY <2>2, <3>3
    <3>5. ops[j] \in Op
      BY <3>1, <3>2, <1>1 DEF ForwardInv, ModelLoaded
    <3>6. o.in_a \in 0 .. MaxOps - 1
      BY <3>4, <3>5 DEF Op
    <3>7. Sized(results[o.in_a])
      BY <3>6 DEF ForwardInv, TensorsSized
    <3>8. QED BY <2>2, <3>7 DEF input_tensor, Sized
  <2>3. QED BY <2>1, <2>2
<1>4. o.type \in {"conv", "conv_lin"} => OutSide(a.h, o) \in Nat /\ OutSide(a.w, o) \in Nat
  <2> HIDE DEF a, o
  <2>1. ASSUME o.k <= 2 * o.pad + o.stride, NEW x \in Nat PROVE OutSide(x, o) \in Nat
    BY <1>2, <2>1, WindowsCount DEF OutSide
  <2>2. QED BY <1>1, <1>3, <2>1
<1>5. \E c, h, w : h \in Nat /\ w \in Nat /\ ResultOf(o) = Shape(c, h, w)
  <2>1. CASE o.type \in {"conv", "conv_lin"}
    <3>1. ResultOf(o) = Shape(o.out_c, OutSide(a.h, o), OutSide(a.w, o))
      BY <2>1 DEF ResultOf
    <3>2. QED BY <1>4, <2>1, <3>1
  <2>2. CASE o.type = "upsample"
    <3>1. ResultOf(o) = Shape(a.c, 2 * a.h, 2 * a.w)
      BY <2>2 DEF ResultOf
    <3>2. 2 * a.h \in Nat /\ 2 * a.w \in Nat
      BY <1>3
    <3>3. QED BY <3>1, <3>2
  <2>3. CASE o.type = "concat"
    <3>1. ResultOf(o) = Shape(a.c + input_tensor(o.in_b).c, a.h, a.w)
      BY <2>3 DEF ResultOf
    <3>2. QED BY <1>3, <3>1
  <2>4. CASE o.type \in {"maxpool", "add"}
    <3>1. ResultOf(o) = Shape(a.c, a.h, a.w)
      BY <2>4 DEF ResultOf
    <3>2. QED BY <1>3, <3>1
  <2>5. QED BY <2>1, <2>2, <2>3, <2>4 DEF KnownOps
<1>6. QED
  <2> DEFINE r == ResultOf(o)
  <2>1. PICK c, h, w : h \in Nat /\ w \in Nat /\ r = Shape(c, h, w)
    BY <1>5
  <2> HIDE DEF r
  <2>2. r.c = c /\ r.h = h /\ r.w = w
    BY <2>1 DEF Shape
  <2>3. r = Shape(r.c, r.h, r.w) /\ Sized(r)
    BY <2>1, <2>2 DEF Sized
  <2>4. QED BY <1>2, <2>3 DEF r

(* The boxes are those the detect tensors show.                            *)
BoxesShown ==
  ystage \in {"nms", "done"} =>
    /\ Members(boxes) \subseteq Seen
    /\ Len(boxes) < MaxBoxes => Seen \subseteq Members(boxes)
    /\ \A i \in DOMAIN boxes : boxes[i].score >= Conf

(* a scores at least as b, and leaves it alone.                            *)
Precedes(a, b) == a.score >= b.score /\ (a.cls = b.cls => ~Overlaps(a, b))

(* a takes the place of b.                                                 *)
Supersedes(a, b) == b.cls = a.cls /\ a.score >= b.score /\ Overlaps(a, b)

KeptBox(i) == boxes[keep[i]]

(* Of the boxes, some are kept, the best first, some lost to one of those, *)
(* and the rest is neither better than any kept one nor touched by it.     *)
SomeKept ==
  /\ boxes \in BoxLists /\ removed \subseteq DOMAIN boxes
  /\ keep \in Seq(DOMAIN boxes) /\ \A i \in DOMAIN keep : keep[i] \in removed
  /\ \A i, j \in DOMAIN keep : i < j => Precedes(KeptBox(i), KeptBox(j))
  /\ \A i \in DOMAIN keep : \A n \in DOMAIN boxes \ removed : Precedes(KeptBox(i), boxes[n])
  /\ \A n \in removed : \E i \in DOMAIN keep : keep[i] = n \/ Supersedes(KeptBox(i), boxes[n])

Placed2D(b) ==
  [box |-> b,
   x1 |-> Rescaled(b.x1, Pad[1], Orig[1]), y1 |-> Rescaled(b.y1, Pad[2], Orig[2]),
   x2 |-> Rescaled(b.x2, Pad[1], Orig[1]), y2 |-> Rescaled(b.y2, Pad[2], Orig[2])]

Reported ==
  ystage = "done" =>
    /\ removed = DOMAIN boxes
    /\ detections = [i \in DOMAIN keep |-> Placed2D(KeptBox(i))]

YoloInv == ForwardInv /\ BoxesShown /\ SomeKept /\ Reported

LEMMA NothingKept ==
  ASSUME boxes = << >>, removed = {}, keep = << >>
  PROVE  SomeKept
<1>1. /\ boxes \in Seq(Box) /\ Len(boxes) = 0 /\ DOMAIN boxes = {}
      /\ keep \in Seq(DOMAIN boxes) /\ DOMAIN keep = {}
  BY EmptySeq
<1>2. boxes \in BoxLists
  BY <1>1, DetectionSizes DEF BoxLists
<1>3. QED BY <1>1, <1>2 DEF SomeKept

LEMMA YoloInvInit ==
  ASSUME NEW stage \in {"load", "off"}, yolo_init_at(stage)
  PROVE  YoloInv
<1>1. /\ ystage = stage /\ ops = << >> /\ detect_idx = << >> /\ op_at = 0
      /\ results = [i \in 0 .. MaxOps - 1 |-> NoTensorYet]
      /\ boxes = << >> /\ removed = {} /\ keep = << >>
  BY DEF yolo_init_at
<1>2. ystage \notin Loaded /\ ystage \notin {"nms", "done"} /\ ystage \in YoloStages
  BY <1>1 DEF Loaded, YoloStages
<1>3. TensorsSized
  BY <1>1 DEF TensorsSized, Sized, NoTensorYet
<1>4. ModelLoaded
  <2>1. Len(ops) = 0
    BY <1>1, EmptySeq
  <2>2. QED BY <1>1, <1>2, <2>1 DEF ModelLoaded
<1>5. SomeKept
  BY <1>1, NothingKept
<1>6. QED
  BY <1>2, <1>3, <1>4, <1>5 DEF YoloInv, ForwardInv, HeadsHaveLogits, BoxesShown, Reported

(* Steps that leave the boxes alone, before there are any.                 *)
LEMMA BeforeBoxes ==
  ASSUME YoloInv, ystage' \notin {"nms", "done"}, UNCHANGED <<boxes, removed, keep>>
  PROVE  BoxesShown' /\ SomeKept' /\ Reported'
<1>1. BoxesShown' /\ Reported'
  BY DEF BoxesShown, Reported
<1>2. SomeKept'
  BY DEF YoloInv, SomeKept, KeptBox
<1>3. QED BY <1>1, <1>2

LEMMA LoadKeeps ==
  ASSUME YoloInv, yolo_model_load
  PROVE  YoloInv'
<1>1. PICK m \in Models :
        /\ ops' = m.ops /\ detect_idx' = m.detect
        /\ ystage' = IF Len(m.ops) > MaxOps THEN "failed" ELSE "forward"
  BY DEF yolo_model_load
<1>2. ystage = "load" /\ op_at' = 0 /\ UNCHANGED <<results, boxes, removed, keep, detections>>
  BY DEF yolo_model_load
<1>3. Len(m.ops) \in Nat /\ MaxOps \in Nat
  BY OpTables, DetectionSizes
<1>4. ystage' \in YoloStages /\ ystage' \notin {"nms", "done"} /\ (ystage' \in Loaded => Len(m.ops) <= MaxOps)
  BY <1>1, <1>3 DEF YoloStages, Loaded
<1>5. /\ results = [i \in 0 .. MaxOps - 1 |-> results[i]]
      /\ \A i \in 0 .. MaxOps - 1 : Sized(results[i]) /\ results[i] = NoTensorYet
  BY <1>2 DEF YoloInv, ForwardInv, TensorsSized
<1>6. TensorsSized'
  BY <1>2, <1>5 DEF TensorsSized
<1>7. ModelLoaded'
  BY <1>1, <1>2, <1>3, <1>4 DEF ModelLoaded
<1>8. HeadsHaveLogits'
  <2>1. ASSUME ystage' \in Loaded, NEW si \in DOMAIN detect_idx' PROVE Anchored(HeadTensor(si)') = {}
    <3>1. m.detect \in Seq(0 .. MaxOps - 1)
      BY <1>4, <2>1, OpTables
    <3>2. detect_idx'[si] \in 0 .. MaxOps - 1
      BY <1>1, <2>1, <3>1, LenProperties, ElementOfSeq
    <3>3. HeadTensor(si)' = NoTensorYet
      BY <1>2, <1>5, <3>2 DEF HeadTensor
    <3>4. Anchored(NoTensorYet) = {}
      <4>1. 0 .. NoTensorYet.h - 1 = {}
        BY DEF NoTensorYet
      <4>2. QED BY <4>1 DEF Anchored
    <3>5. QED BY <3>3, <3>4
  <2>2. QED BY <2>1 DEF HeadsHaveLogits
<1>9. QED BY <1>2, <1>4, <1>6, <1>7, <1>8, BeforeBoxes DEF YoloInv, ForwardInv

LEMMA EndForwardKeeps ==
  ASSUME YoloInv, StopForward \/ EndForward
  PROVE  YoloInv'
<1>1. /\ ystage = "forward" /\ ystage' = "decode"
      /\ UNCHANGED <<ops, detect_idx, op_at, results, boxes, removed, keep, detections>>
  BY DEF StopForward, EndForward
<1>2. ystage' \in YoloStages /\ ystage' \notin {"nms", "done"} /\ ystage \in Loaded /\ ystage' \in Loaded
      /\ ystage' \notin {"load", "failed", "off"}
  BY <1>1 DEF YoloStages, Loaded
<1>3. TensorsSized' /\ ModelLoaded' /\ HeadsHaveLogits'
  BY <1>1, <1>2 DEF YoloInv, ForwardInv, TensorsSized, ModelLoaded, HeadsHaveLogits, HeadTensor
<1>4. QED BY <1>1, <1>2, <1>3, BeforeBoxes DEF YoloInv, ForwardInv

LEMMA RunOpKeeps ==
  ASSUME YoloInv, RunOp
  PROVE  YoloInv'
<1> DEFINE o == CurrentOp
           r == ResultOf(o)
<1>1. /\ ystage = "forward" /\ op_at < Len(ops) /\ o.type \in KnownOps /\ op_at' = op_at + 1
      /\ UNCHANGED <<ystage, ops, detect_idx, boxes, removed, keep, detections>>
      /\ ystage \in Loaded /\ ystage \in YoloStages /\ ystage \notin {"nms", "done"}
  BY DEF RunOp, Loaded, YoloStages
<1>2. ForwardInv
  BY DEF YoloInv
<1>3. r = Shape(r.c, r.h, r.w) /\ Sized(r) /\ o.out \in 0 .. MaxOps - 1
  BY <1>1, <1>2, ResultSized
<1>4. \E d, t : /\ results' = [results EXCEPT ![o.out] = t]
                /\ t.h = r.h /\ t.w = r.w /\ t.logits = d
                /\ o.type = "conv_lin" => d \in [Anchored(r) -> DetectData]
  <2>1. CASE o.type = "conv_lin"
    <3>1. PICK d \in [Anchored(r) -> DetectData] :
            results' = [results EXCEPT ![o.out] = [r EXCEPT !.logits = d]]
      BY <2>1 DEF RunOp
    <3> DEFINE t == [r EXCEPT !.logits = d]
    <3>2. t.h = r.h /\ t.w = r.w /\ t.logits = d
      <4> HIDE DEF r
      <4>1. QED BY <1>3 DEF Shape
    <3>3. QED BY <3>1, <3>2
  <2>2. CASE o.type # "conv_lin"
    <3>1. results' = [results EXCEPT ![o.out] = r]
      BY <2>2 DEF RunOp
    <3> HIDE DEF r, o
    <3>2. QED BY <2>2, <3>1
  <2>3. QED BY <2>1, <2>2
<1>5. PICK d, t : /\ results' = [results EXCEPT ![o.out] = t]
                  /\ t.h = r.h /\ t.w = r.w /\ t.logits = d
                  /\ o.type = "conv_lin" => d \in [Anchored(r) -> DetectData]
  BY <1>4
<1> DEFINE place == o.out
<1>6. Sized(t) /\ Anchored(t) = Anchored(r)
  <2> HIDE DEF r
  <2>1. QED BY <1>3, <1>5 DEF Sized, Anchored
<1>7. /\ results = [i \in 0 .. MaxOps - 1 |-> results[i]]
      /\ \A i \in 0 .. MaxOps - 1 : Sized(results[i])
  BY <1>2 DEF ForwardInv, TensorsSized
<1>8. /\ results' = [i \in 0 .. MaxOps - 1 |-> results'[i]]
      /\ \A i \in 0 .. MaxOps - 1 : results'[i] = IF i = place THEN t ELSE results[i]
  <2> HIDE DEF place
  <2>1. results' = [results EXCEPT ![place] = t]
    BY <1>5 DEF place
  <2>2. QED BY <1>7, <2>1
<1>9. TensorsSized'
  BY <1>1, <1>6, <1>7, <1>8 DEF TensorsSized
<1>10. ModelLoaded'
  <2>1. op_at + 1 \in Nat /\ op_at + 1 <= Len(ops)
    BY <1>1, <1>2 DEF ForwardInv, ModelLoaded
  <2>2. QED BY <1>1, <1>2, <2>1 DEF ForwardInv, ModelLoaded
<1>11. HeadsHaveLogits'
  <2>1. /\ \A si \in DOMAIN detect_idx : detect_idx[si] \in 0 .. MaxOps - 1
        /\ o.type # "conv_lin" => \A si \in DOMAIN detect_idx : detect_idx[si] # place
    <3>1. op_at + 1 \in 1 .. Len(ops)
      BY <1>1, <1>2 DEF ForwardInv, ModelLoaded
    <3>2. QED BY <1>1, <1>2, <3>1, TableFacts DEF ForwardInv, CurrentOp
  <2>2. ASSUME NEW si \in DOMAIN detect_idx', NEW cell \in Anchored(HeadTensor(si)')
        PROVE  HeadTensor(si)'.logits[cell] \in DetectData
    <3>1. si \in DOMAIN detect_idx /\ detect_idx'[si] = detect_idx[si]
      BY <1>1
    <3>2. HeadTensor(si)' = IF detect_idx[si] = place THEN t ELSE HeadTensor(si)
      BY <1>8, <2>1, <3>1 DEF HeadTensor
    <3>3. CASE detect_idx[si] = place
      <4>1. o.type = "conv_lin" /\ cell \in Anchored(r)
        BY <1>6, <2>1, <3>1, <3>2, <3>3
      <4>2. d[cell] \in DetectData
        BY <1>5, <4>1
      <4>3. QED BY <1>5, <3>2, <3>3, <4>2
    <3>4. CASE detect_idx[si] # place
      <4>1. HeadTensor(si)' = HeadTensor(si)
        BY <3>2, <3>4
      <4>2. QED BY <1>1, <1>2, <2>2, <3>1, <4>1 DEF ForwardInv, HeadsHaveLogits
    <3>5. QED BY <3>3, <3>4
  <2>3. QED BY <2>2 DEF HeadsHaveLogits
<1>12. ystage' \in YoloStages /\ ystage' \notin {"nms", "done"} /\ UNCHANGED <<boxes, removed, keep>>
  BY <1>1
<1>13. QED BY <1>9, <1>10, <1>11, <1>12, BeforeBoxes DEF YoloInv, ForwardInv

-----------------------------------------------------------------------------
(* The decoded boxes, and the suppression.                                 *)

LEMMA ReadyToDecode ==
  ASSUME ForwardInv, ystage \in Loaded
  PROVE  HeadsReady
<1>1. /\ Len(detect_idx) \in Nat /\ DOMAIN detect_idx = 1 .. Len(detect_idx)
      /\ \A si \in DOMAIN detect_idx :
           detect_idx[si] \in 0 .. MaxOps - 1 /\ si \in DOMAIN Strides /\ si \in DOMAIN Anchors
  BY TableFacts DEF ForwardInv
<1>2. DetectData \subseteq Logits
  BY LogitsHaveProbabilities DEF Logits
<1>3. ASSUME NEW si \in DOMAIN detect_idx PROVE Decodable(si)
  <2>1. Sized(HeadTensor(si))
    BY <1>1 DEF ForwardInv, TensorsSized, HeadTensor
  <2>2. \A cell \in Anchored(HeadTensor(si)) : HeadTensor(si).logits[cell] \in DetectData
    BY DEF ForwardInv, HeadsHaveLogits
  <2>3. QED BY <1>1, <1>2, <2>1, <2>2 DEF Decodable
<1>4. QED BY <1>1, <1>3 DEF HeadsReady

(* Steps that leave the tensors and the tables alone.                      *)
LEMMA ForwardStays ==
  ASSUME ForwardInv, ystage \in Loaded, ystage' \in Loaded,
         UNCHANGED <<ops, detect_idx, op_at, results>>
  PROVE  ForwardInv' /\ Seen' = Seen
<1>1. ystage' \in YoloStages /\ ystage' \notin {"load", "failed", "off"}
  BY DEF YoloStages, Loaded
<1>2. ForwardInv'
  BY <1>1 DEF ForwardInv, TensorsSized, ModelLoaded, HeadsHaveLogits, HeadTensor
<1>3. Seen' = Seen
  BY DEF Seen
<1>4. QED BY <1>2, <1>3

LEMMA DecodeKeeps ==
  ASSUME YoloInv, Decode
  PROVE  YoloInv'
<1>1. /\ ystage = "decode" /\ boxes' = Candidates /\ removed' = {} /\ keep' = << >>
      /\ ystage' = "nms" /\ UNCHANGED <<ops, detect_idx, op_at, results, detections>>
  BY DEF Decode
<1>2. ystage \in Loaded /\ ystage' \in Loaded /\ ForwardInv
  BY <1>1 DEF Loaded, YoloInv
<1>3. HeadsReady
  BY <1>2, ReadyToDecode
<1>4. ForwardInv' /\ Seen' = Seen
  BY <1>1, <1>2, ForwardStays
<1>5. /\ boxes' \in BoxLists /\ Members(boxes') \subseteq Seen
      /\ Len(boxes') < MaxBoxes => Seen \subseteq Members(boxes')
  BY <1>1, <1>3, CandidatesFacts
<1>6. ASSUME NEW i \in DOMAIN boxes' PROVE boxes'[i].score >= Conf
  <2>1. boxes'[i] \in Seen
    BY <1>5 DEF Members
  <2>2. QED BY <1>3, <2>1, SeenFacts
<1>7. BoxesShown'
  BY <1>4, <1>5, <1>6 DEF BoxesShown, Members
<1>8. SomeKept'
  <2>1. keep' \in Seq(DOMAIN boxes') /\ DOMAIN keep' = {}
    BY <1>1, EmptySeq
  <2>2. QED BY <1>1, <1>5, <2>1 DEF SomeKept
<1>9. Reported'
  BY <1>1 DEF Reported
<1>10. QED BY <1>4, <1>7, <1>8, <1>9 DEF YoloInv

LEMMA OverlapsBothWays ==
  ASSUME NEW a \in Box, NEW b \in Box
  PROVE  Overlaps(a, b) <=> Overlaps(b, a)
<1>1. Unit \in Nat \ {0}
  BY DetectionSizes
<1>2. /\ Px(a.x1) \in Int /\ Px(a.x2) \in Int /\ Px(a.y1) \in Int /\ Px(a.y2) \in Int
      /\ Px(b.x1) \in Int /\ Px(b.x2) \in Int /\ Px(b.y1) \in Int /\ Px(b.y2) \in Int
  BY <1>1 DEF Box, Px
<1>3. InterW(a, b) = InterW(b, a) /\ InterH(a, b) = InterH(b, a)
  BY <1>2 DEF InterW, InterH, Lesser, Greater
<1>4. Area(a) \in Int /\ Area(b) \in Int
  BY <1>2 DEF Area
<1>5. InterW(a, b) \in Int /\ InterH(a, b) \in Int
  BY <1>2 DEF InterW, InterH, Lesser, Greater
<1> DEFINE inter(x, y) == InterW(x, y) * InterH(x, y)
           uni(x, y) == Area(x) + Area(y) - inter(x, y)
<1>6. ASSUME NEW x, NEW y
      PROVE  Overlaps(x, y) <=> /\ InterW(x, y) > 0 /\ InterH(x, y) > 0
                                /\ uni(x, y) > 0
                                /\ (inter(x, y) * Unit) \div uni(x, y) > Iou
  BY Zenon DEF Overlaps
<1>7. inter(a, b) = inter(b, a) /\ inter(a, b) \in Int
  BY <1>3, <1>5
<1> HIDE DEF inter
<1>8. uni(a, b) = uni(b, a)
  BY <1>4, <1>7
<1> HIDE DEF uni
<1>9. QED BY <1>3, <1>6, <1>7, <1>8

LEMMA BestFacts ==
  ASSUME SomeKept, Remaining # {}
  PROVE  /\ BestBox \in Remaining
         /\ \A i \in Remaining : boxes[BestBox].score >= boxes[i].score
<1> DEFINE n == Len(boxes)
           best == {i \in Remaining : \A j \in Remaining : boxes[i].score >= boxes[j].score}
<1>1. boxes \in Seq(Box) /\ n \in Nat /\ DOMAIN boxes = 1 .. n
  BY LenProperties DEF SomeKept, BoxLists
<1>2. Remaining \subseteq 1 .. n
  BY <1>1 DEF Remaining
<1>3. \A i \in Remaining : boxes[i].score \in Int
  BY <1>1, <1>2, ElementOfSeq DEF Box
<1> DEFINE f == [i \in Remaining |-> boxes[i].score]
<1>4. PICK i \in Remaining : \A j \in Remaining : f[i] >= f[j]
  <2>1. \A i \in Remaining : f[i] \in Int
    BY <1>3
  <2> HIDE DEF f, n
  <2>2. QED BY <1>1, <1>2, <2>1, GreatestAt
<1>5. i \in best
  BY <1>4
<1>6. best \subseteq Nat /\ best # {} /\ best \subseteq Remaining
  <2>1. \A j \in 1 .. n : j \in Nat
    BY <1>1
  <2>2. \A j \in best : j \in Remaining /\ j \in 1 .. n
    BY <1>2
  <2> HIDE DEF best
  <2>3. QED BY <1>5, <2>1, <2>2
<1>7. BestBox = Min(best)
  BY DEF BestBox
<1>8. Min(best) \in best
  <2> HIDE DEF best
  <2>1. QED BY <1>6, MinOf
<1>9. QED BY <1>7, <1>8

LEMMA SuppressKeeps ==
  ASSUME YoloInv, Suppress
  PROVE  YoloInv'
<1> DEFINE b == BestBox
           lost == {i \in Remaining : boxes[i].cls = boxes[b].cls /\ Overlaps(boxes[b], boxes[i])}
<1>1. /\ ystage = "nms" /\ Remaining # {} /\ keep' = Append(keep, b)
      /\ removed' = removed \cup {b} \cup lost
      /\ UNCHANGED <<ystage, ops, detect_idx, op_at, results, boxes, detections>>
  BY DEF Suppress
<1>2. ystage \in Loaded /\ ystage' \in Loaded /\ ForwardInv /\ SomeKept
  BY <1>1 DEF Loaded, YoloInv
<1>3. ForwardInv' /\ Seen' = Seen
  BY <1>1, <1>2, ForwardStays
<1>4. BoxesShown' /\ Reported'
  BY <1>1, <1>3 DEF YoloInv, BoxesShown, Reported, Members
<1>5. b \in Remaining /\ \A i \in Remaining : boxes[b].score >= boxes[i].score
  BY <1>1, <1>2, BestFacts
<1>6. /\ boxes \in BoxLists /\ removed \subseteq DOMAIN boxes
      /\ keep \in Seq(DOMAIN boxes) /\ \A i \in DOMAIN keep : keep[i] \in removed
      /\ \A i, j \in DOMAIN keep : i < j => Precedes(KeptBox(i), KeptBox(j))
      /\ \A i \in DOMAIN keep : \A n \in Remaining : Precedes(KeptBox(i), boxes[n])
      /\ \A n \in removed : \E i \in DOMAIN keep : keep[i] = n \/ Supersedes(KeptBox(i), boxes[n])
  BY <1>2 DEF SomeKept, Remaining
<1>7. b \in DOMAIN boxes /\ lost \subseteq Remaining /\ Remaining = DOMAIN boxes \ removed
  BY <1>5 DEF Remaining
<1> HIDE DEF b, lost
<1>8. PICK last : last = Len(keep) + 1
  OBVIOUS
<1>9. /\ keep' \in Seq(DOMAIN boxes) /\ Len(keep) \in Nat /\ DOMAIN keep = 1 .. Len(keep)
      /\ DOMAIN keep' = 1 .. last
      /\ \A i \in 1 .. Len(keep) : keep'[i] = keep[i]
      /\ keep'[last] = b
  BY <1>1, <1>6, <1>7, <1>8, AppendProperties, LenProperties
<1>10. removed' \subseteq DOMAIN boxes'
  BY <1>1, <1>6, <1>7
<1>11. \A i \in DOMAIN keep' : i \in DOMAIN keep \/ i = last
  BY <1>8, <1>9
<1>12. \A i \in DOMAIN keep : KeptBox(i)' = KeptBox(i)
  BY <1>1, <1>9 DEF KeptBox
<1>13. KeptBox(last)' = boxes[b]
  BY <1>1, <1>9 DEF KeptBox
<1>14. \A i \in DOMAIN keep' : keep'[i] \in removed'
  BY <1>1, <1>6, <1>9, <1>11
<1>15. ASSUME NEW i \in DOMAIN keep', NEW j \in DOMAIN keep', i < j
       PROVE  Precedes(KeptBox(i)', KeptBox(j)')
  <2>1. i \in DOMAIN keep
    BY <1>8, <1>9, <1>15
  <2>2. CASE j \in DOMAIN keep
    BY <1>6, <1>12, <1>15, <2>1, <2>2
  <2>3. CASE j = last
    BY <1>5, <1>6, <1>12, <1>13, <2>1, <2>3
  <2>4. QED BY <1>11, <2>2, <2>3
<1>16. ASSUME NEW i \in DOMAIN keep', NEW n \in DOMAIN boxes \ removed'
       PROVE  Precedes(KeptBox(i)', boxes[n])
  <2>1. n \in Remaining /\ n \notin lost
    BY <1>1, <1>7
  <2>2. CASE i \in DOMAIN keep
    BY <1>6, <1>12, <2>1, <2>2
  <2>3. CASE i = last
    <3>1. boxes[b].score >= boxes[n].score
      BY <1>5, <2>1
    <3>2. boxes[b].cls = boxes[n].cls => ~Overlaps(boxes[b], boxes[n])
      BY <2>1 DEF lost
    <3>3. QED BY <1>13, <2>3, <3>1, <3>2 DEF Precedes
  <2>4. QED BY <1>11, <2>2, <2>3
<1>17. ASSUME NEW n \in removed'
       PROVE  \E i \in DOMAIN keep' : keep'[i] = n \/ Supersedes(KeptBox(i)', boxes[n])
  <2>1. CASE n \in removed
    <3>1. PICK i \in DOMAIN keep : keep[i] = n \/ Supersedes(KeptBox(i), boxes[n])
      BY <1>6, <2>1
    <3>2. i \in DOMAIN keep' /\ keep'[i] = keep[i] /\ KeptBox(i)' = KeptBox(i)
      BY <1>8, <1>9, <1>12
    <3>3. CASE keep[i] = n
      BY <3>2, <3>3
    <3>4. CASE Supersedes(KeptBox(i), boxes[n])
      <4>1. Supersedes(KeptBox(i)', boxes[n])
        BY <3>2, <3>4
      <4>2. QED BY <3>2, <4>1
    <3>5. QED BY <3>1, <3>3, <3>4
  <2>2. last \in DOMAIN keep'
    BY <1>8, <1>9
  <2>3. CASE n = b
    BY <1>9, <2>2, <2>3
  <2>4. CASE n \in lost
    <3>1. Supersedes(boxes[b], boxes[n])
      BY <1>5, <2>4 DEF lost, Supersedes
    <3>2. QED BY <1>13, <2>2, <3>1
  <2>5. QED BY <1>1, <2>1, <2>3, <2>4
<1>18. SomeKept'
  BY <1>1, <1>6, <1>9, <1>10, <1>14, <1>15, <1>16, <1>17 DEF SomeKept
<1>19. QED BY <1>3, <1>4, <1>18 DEF YoloInv

LEMMA ReportKeeps ==
  ASSUME YoloInv, Report
  PROVE  YoloInv'
<1>1. /\ ystage = "nms" /\ Remaining = {} /\ ystage' = "done"
      /\ UNCHANGED <<ops, detect_idx, op_at, results, boxes, removed, keep>>
  BY DEF Report
<1>2. ystage \in Loaded /\ ystage' \in Loaded /\ ForwardInv /\ SomeKept
  BY <1>1 DEF Loaded, YoloInv
<1>3. ForwardInv' /\ Seen' = Seen
  BY <1>1, <1>2, ForwardStays
<1>4. BoxesShown'
  BY <1>1, <1>3 DEF YoloInv, BoxesShown, Members
<1>5. SomeKept'
  BY <1>1, <1>2 DEF SomeKept, KeptBox
<1>6. removed' = DOMAIN boxes'
  BY <1>1, <1>2 DEF SomeKept, Remaining
<1>7. detections' = [i \in DOMAIN keep |-> Placed2D(KeptBox(i))]
  BY DEF Report, Placed2D, KeptBox
<1>8. Reported'
  BY <1>1, <1>6, <1>7 DEF Reported, KeptBox
<1>9. QED BY <1>3, <1>4, <1>5, <1>8 DEF YoloInv

LEMMA YoloInvStep ==
  ASSUME YoloInv, [YoloNext]_yolo_vars
  PROVE  YoloInv'
<1>1. CASE YoloNext
  BY <1>1, LoadKeeps, RunOpKeeps, EndForwardKeeps, DecodeKeeps, SuppressKeeps, ReportKeeps
     DEF YoloNext
<1>2. CASE UNCHANGED yolo_vars
  <2>1. UNCHANGED <<ystage, ops, detect_idx, op_at, results, boxes, removed, keep, detections>>
    BY <1>2 DEF yolo_vars
  <2>2. Seen' = Seen
    BY <2>1 DEF Seen
  <2>3. ForwardInv'
    BY <2>1 DEF YoloInv, ForwardInv, TensorsSized, ModelLoaded, HeadsHaveLogits, HeadTensor
  <2>4. BoxesShown' /\ SomeKept' /\ Reported'
    BY <2>1, <2>2 DEF YoloInv, BoxesShown, Members, SomeKept, KeptBox, Reported
  <2>5. QED BY <2>3, <2>4 DEF YoloInv
<1>3. QED BY <1>1, <1>2

-----------------------------------------------------------------------------
(* What is printed.                                                        *)

LEMMA QuotientsAscend ==
  ASSUME NEW x \in Int, NEW y \in Int, x <= y, NEW d \in Nat \ {0}
  PROVE  x \div d \in Int /\ y \div d \in Int /\ x \div d <= y \div d
OBVIOUS

(* Moved out of the padding and clipped, corners stay in order and in the  *)
(* image.                                                                  *)
LEMMA RescaledFacts ==
  ASSUME NEW v \in Int, NEW w \in Int, v <= w, NEW pad \in Nat, NEW lim \in Nat
  PROVE  /\ Rescaled(v, pad, lim) \in 0 .. lim /\ Rescaled(w, pad, lim) \in 0 .. lim
         /\ Rescaled(v, pad, lim) <= Rescaled(w, pad, lim)
<1> DEFINE d == Unit * Unit
           x == (v - pad * Unit) * InvScale
           y == (w - pad * Unit) * InvScale
<1>1. Unit \in Nat \ {0} /\ InvScale \in Nat \ {0}
  BY DetectionSizes
<1>2. d \in Nat \ {0}
  BY <1>1
<1>3. x \in Int /\ y \in Int /\ x <= y
  <2>1. pad * Unit \in Int
    BY <1>1
  <2> DEFINE p == v - pad * Unit
             q == w - pad * Unit
             e == q - p
  <2>2. p \in Int /\ e \in Nat /\ q = p + e
    BY <2>1
  <2> HIDE DEF p, q, e
  <2>3. q * InvScale = p * InvScale + e * InvScale
    BY <1>1, <2>2
  <2>4. e * InvScale \in Nat /\ p * InvScale \in Int
    BY <1>1, <2>2, Product
  <2>5. p * InvScale \in Int /\ q * InvScale \in Int /\ p * InvScale <= q * InvScale
    BY <2>3, <2>4
  <2>6. QED BY <2>5 DEF p, q
<1> DEFINE m == x \div d
           n == y \div d
<1>4. m \in Int /\ n \in Int /\ m <= n
  <2> HIDE DEF x, y, d
  <2>1. QED BY <1>2, <1>3, QuotientsAscend
<1>5. Rescaled(v, pad, lim) = Greater(0, Lesser(m, lim))
      /\ Rescaled(w, pad, lim) = Greater(0, Lesser(n, lim))
  BY DEF Rescaled
<1> HIDE DEF m, n
<1>6. QED BY <1>4, <1>5 DEF Greater, Lesser

LEMMA KeptFacts ==
  ASSUME YoloInv
  PROVE  /\ \A n \in DOMAIN boxes : boxes[n] \in Box
         /\ \A i \in DOMAIN keep : keep[i] \in DOMAIN boxes /\ KeptBox(i) \in Box
<1>1. \A n \in DOMAIN boxes : boxes[n] \in Box
  BY LenProperties, ElementOfSeq DEF YoloInv, SomeKept, BoxLists
<1>2. \A i \in DOMAIN keep : keep[i] \in DOMAIN boxes
  BY LenProperties, ElementOfSeq DEF YoloInv, SomeKept
<1>3. QED BY <1>1, <1>2 DEF KeptBox

LEMMA InvDetectsSoundly ==
  ASSUME YoloInv
  PROVE  DetectionsSound
<1> SUFFICES ASSUME ystage = "done" PROVE DetectionsSound
  BY DEF DetectionsSound
<1> DEFINE reported == {detections[i].box : i \in DOMAIN detections}
<1>1. /\ removed = DOMAIN boxes
      /\ DOMAIN detections = DOMAIN keep
      /\ \A i \in DOMAIN keep : detections[i] = Placed2D(KeptBox(i))
  BY DEF YoloInv, Reported
<1>2. \A i \in DOMAIN keep : detections[i].box = KeptBox(i)
  BY <1>1 DEF Placed2D
<1>3. /\ Members(boxes) \subseteq Seen
      /\ Len(boxes) < MaxBoxes => Seen \subseteq Members(boxes)
      /\ \A i \in DOMAIN boxes : boxes[i].score >= Conf
  BY DEF YoloInv, BoxesShown
<1>4. /\ \A n \in DOMAIN boxes : boxes[n] \in Box
      /\ \A i \in DOMAIN keep : keep[i] \in DOMAIN boxes /\ KeptBox(i) \in Box
  BY KeptFacts
<1>5. reported \subseteq Seen
  <2>1. \A i \in DOMAIN keep : KeptBox(i) \in Seen
    BY <1>3, <1>4 DEF KeptBox, Members
  <2>2. QED BY <1>1, <1>2, <2>1
<1>6. Len(boxes) < MaxBoxes => Seen = {boxes[i] : i \in DOMAIN boxes}
  BY <1>3 DEF Members
<1>7. ASSUME NEW i \in DOMAIN detections, NEW j \in DOMAIN detections, i < j
      PROVE  LET a == detections[i].box
                 b == detections[j].box IN
             /\ a.score >= b.score
             /\ a.cls = b.cls => ~Overlaps(a, b) /\ ~Overlaps(b, a)
  <2>1. Precedes(KeptBox(i), KeptBox(j))
    BY <1>1, <1>7 DEF YoloInv, SomeKept
  <2>2. KeptBox(i) \in Box /\ KeptBox(j) \in Box
    BY <1>1, <1>4
  <2>3. Overlaps(KeptBox(i), KeptBox(j)) <=> Overlaps(KeptBox(j), KeptBox(i))
    BY <2>2, OverlapsBothWays
  <2>4. QED BY <1>1, <1>2, <2>1, <2>3 DEF Precedes
<1>8. ASSUME NEW n \in DOMAIN boxes
      PROVE  \/ boxes[n] \in reported
             \/ \E b \in reported : /\ b.cls = boxes[n].cls /\ b.score >= boxes[n].score
                                    /\ Overlaps(b, boxes[n])
  <2>1. PICK i \in DOMAIN keep : keep[i] = n \/ Supersedes(KeptBox(i), boxes[n])
    BY <1>1 DEF YoloInv, SomeKept
  <2>2. KeptBox(i) \in reported
    BY <1>1, <1>2
  <2> HIDE DEF reported
  <2>3. CASE keep[i] = n
    BY <2>2, <2>3 DEF KeptBox
  <2>4. CASE Supersedes(KeptBox(i), boxes[n])
    BY <2>2, <2>4 DEF Supersedes
  <2>5. QED BY <2>1, <2>3, <2>4
<1>9. ASSUME NEW i \in DOMAIN detections
      PROVE  LET d == detections[i] IN
             /\ 0 <= d.x1 /\ d.x1 <= d.x2 /\ d.x2 <= Orig[1]
             /\ 0 <= d.y1 /\ d.y1 <= d.y2 /\ d.y2 <= Orig[2]
             /\ d.box.score >= Conf
  <2> DEFINE b == KeptBox(i)
  <2>1. b \in Box /\ b.score >= Conf /\ detections[i] = Placed2D(b)
    BY <1>1, <1>3, <1>4 DEF KeptBox
  <2> HIDE DEF b
  <2>2. /\ b.x1 \in Int /\ b.x2 \in Int /\ b.x1 <= b.x2
        /\ b.y1 \in Int /\ b.y2 \in Int /\ b.y1 <= b.y2
    BY <2>1 DEF Box
  <2>3. Pad[1] \in Nat /\ Pad[2] \in Nat /\ Orig[1] \in Nat /\ Orig[2] \in Nat
    BY DetectionSizes
  <2>4. /\ Rescaled(b.x1, Pad[1], Orig[1]) \in 0 .. Orig[1]
        /\ Rescaled(b.x2, Pad[1], Orig[1]) \in 0 .. Orig[1]
        /\ Rescaled(b.x1, Pad[1], Orig[1]) <= Rescaled(b.x2, Pad[1], Orig[1])
    BY <2>2, <2>3, RescaledFacts
  <2>5. /\ Rescaled(b.y1, Pad[2], Orig[2]) \in 0 .. Orig[2]
        /\ Rescaled(b.y2, Pad[2], Orig[2]) \in 0 .. Orig[2]
        /\ Rescaled(b.y1, Pad[2], Orig[2]) <= Rescaled(b.y2, Pad[2], Orig[2])
    BY <2>2, <2>3, RescaledFacts
  <2>6. /\ detections[i].x1 = Rescaled(b.x1, Pad[1], Orig[1])
        /\ detections[i].x2 = Rescaled(b.x2, Pad[1], Orig[1])
        /\ detections[i].y1 = Rescaled(b.y1, Pad[2], Orig[2])
        /\ detections[i].y2 = Rescaled(b.y2, Pad[2], Orig[2])
        /\ detections[i].box = b
    BY <2>1 DEF Placed2D
  <2>7. QED BY <2>1, <2>3, <2>4, <2>5, <2>6
<1>10. QED BY <1>5, <1>6, <1>7, <1>8, <1>9 DEF DetectionsSound

LEMMA InvTypesDetector ==
  ASSUME YoloInv
  PROVE  YoloTypeOK
<1>1. op_at \in 0 .. Len(ops)
  BY DEF YoloInv, ForwardInv, ModelLoaded
<1>2. DOMAIN results = 0 .. MaxOps - 1
  BY DEF YoloInv, ForwardInv, TensorsSized
<1>3. QED BY <1>1, <1>2 DEF YoloInv, ForwardInv, YoloStages, SomeKept, BoxLists, YoloTypeOK

LEMMA WorkloadKeepsYolo ==
  /\ WorkloadInit => YoloInv
  /\ YoloInv /\ [WorkloadNext]_workload_vars => YoloInv'
<1>1. WorkloadInit => YoloInv
  BY YoloInvInit DEF WorkloadInit
<1>2. [WorkloadNext]_workload_vars => [YoloNext]_yolo_vars
  BY DEF WorkloadNext, workload_vars, Halt
<1>3. QED BY <1>1, <1>2, YoloInvStep

(* For every op table, every logits the heads can leave, every number of   *)
(* classes, anchors and boxes and every threshold: what is reported, also  *)
(* after a forward that stopped half way, is a maximal set of what the     *)
(* detect tensors show, best first, no two of a class overlapping, every   *)
(* other candidate lost to a better reported one that overlaps it, all in  *)
(* the image (decode, nms, yolo_postprocess).                              *)
THEOREM DetectionsAreSound == WorkloadSpec => []DetectionsSound
<1>1. YoloInv => DetectionsSound
  BY InvDetectsSoundly
<1>2. QED BY <1>1, WorkloadKeepsYolo, PTL DEF WorkloadSpec

(* An op is one of the table, and its result one of YOLO_MAX_OPS; the boxes *)
(* fit their table, and a box that is kept is also removed.                *)
THEOREM DetectorTypes == WorkloadSpec => []YoloTypeOK
<1>1. YoloInv => YoloTypeOK
  BY InvTypesDetector
<1>2. QED BY <1>1, WorkloadKeepsYolo, PTL DEF WorkloadSpec

-----------------------------------------------------------------------------
(* Products, and numbers written in digits.                                *)

LEMMA Cancel ==
  ASSUME NEW x \in Int, NEW y \in Int, NEW b \in Nat \ {0}, x * b < y * b
  PROVE  x < y
OBVIOUS

LEMMA Times ==
  ASSUME NEW a \in Nat, NEW b \in Nat
  PROVE  a * b \in Nat
OBVIOUS

LEMMA Grows ==
  ASSUME NEW x \in Int, NEW y \in Int, NEW z \in Nat, x <= y
  PROVE  x * z <= y * z
OBVIOUS

LEMMA GrowsMore ==
  ASSUME NEW x \in Int, NEW y \in Int, NEW z \in Nat, x < y
  PROVE  x * z + z <= y * z
OBVIOUS

LEMMA DivMod ==
  ASSUME NEW x \in Nat, NEW b \in Nat \ {0}
  PROVE  x \div b \in Nat /\ x % b \in 0 .. b - 1 /\ x = (x \div b) * b + (x % b)
OBVIOUS

(* The digit above x in a number below d * b.                              *)
LEMMA DigitBelow ==
  ASSUME NEW x \in Nat, NEW b \in Nat \ {0}, NEW d \in Nat, x < d * b
  PROVE  x \div b \in 0 .. d - 1
<1> DEFINE q == x \div b
<1>1. q \in Nat /\ q * b <= x
  <2>1. q \in Nat /\ x % b \in Nat /\ x = q * b + (x % b) /\ q * b \in Nat
    BY DivMod
  <2> HIDE DEF q
  <2>2. QED BY <2>1
<1> HIDE DEF q
<1>2. q * b < d * b
  BY <1>1
<1>3. q < d
  BY <1>1, <1>2, Cancel
<1>4. QED BY <1>1, <1>3 DEF q

(* Two digits make a number below the product of their ranges.             *)
LEMMA TwoDigits ==
  ASSUME NEW a \in Nat, NEW b \in Nat \ {0}, NEW x \in 0 .. a - 1, NEW y \in 0 .. b - 1
  PROVE  x * b + y \in 0 .. a * b - 1
<1>1. x * b + b <= a * b /\ x * b \in Nat
  BY GrowsMore
<1>2. QED BY <1>1

LEMMA Digits ==
  ASSUME NEW x \in Nat, NEW b \in Nat \ {0}, NEW y \in 0 .. b - 1
  PROVE  (x * b + y) \div b = x /\ (x * b + y) % b = y
<1> DEFINE z == x * b + y
           q == z \div b
<1>1. z \in Nat
  OBVIOUS
<1>2. q \in Nat /\ z % b \in 0 .. b - 1 /\ z = q * b + (z % b)
  <2> HIDE DEF z
  <2>1. QED BY <1>1, DivMod
<1> HIDE DEF q
<1> DEFINE r == z % b
<1>3. r \in 0 .. b - 1 /\ q * b + r = x * b + y
  BY <1>2
<1> HIDE DEF r
<1>4. q * b < (x + 1) * b /\ x * b < (q + 1) * b
  <2>1. (x + 1) * b = x * b + b /\ (q + 1) * b = q * b + b /\ x * b \in Nat /\ q * b \in Nat
    BY <1>2
  <2>2. QED BY <1>3, <2>1
<1>5. q < x + 1 /\ x < q + 1
  BY <1>2, <1>4, Cancel
<1>6. q = x
  BY <1>2, <1>5
<1>7. r = y
  <2>1. x * b \in Nat
    OBVIOUS
  <2>2. QED BY <1>3, <1>6, <2>1
<1>8. QED BY <1>6, <1>7 DEF q, r, z

-----------------------------------------------------------------------------
(* The arithmetic on the CPU (Kernels).  First C's division, the distance  *)
(* from zero, and sums.                                                    *)

LEMMA FloorOf ==
  ASSUME NEW a \in Int, NEW b \in Nat \ {0}
  PROVE  a \div b \in Int /\ (a \div b) * b <= a /\ a < (a \div b) * b + b
OBVIOUS

LEMMA FloorWithin ==
  ASSUME NEW a \in Int, NEW b \in Nat \ {0}, NEW lo \in Int, NEW hi \in Int,
         lo * b <= a, a < (hi + 1) * b
  PROVE  a \div b \in lo .. hi
<1> DEFINE q == a \div b
<1>1. q \in Int /\ q * b <= a /\ a < q * b + b
  BY FloorOf
<1> HIDE DEF q
<1>2. lo * b < (q + 1) * b
  <2>1. (q + 1) * b = q * b + b /\ lo * b \in Int /\ q * b \in Int
    BY <1>1
  <2>2. QED BY <1>1, <2>1
<1>3. q * b < (hi + 1) * b
  <2>1. (hi + 1) * b \in Int /\ q * b \in Int
    BY <1>1
  <2>2. QED BY <1>1, <2>1
<1>4. lo < q + 1 /\ q < hi + 1
  BY <1>1, <1>2, <1>3, Cancel
<1>5. QED BY <1>1, <1>4 DEF q

LEMMA FloorsAscend ==
  ASSUME NEW a \in Int, NEW c \in Int, a <= c, NEW b \in Nat \ {0}
  PROVE  a \div b <= c \div b
<1> DEFINE q == a \div b
           r == c \div b
<1>1. q \in Int /\ q * b <= a /\ r \in Int /\ c < r * b + b
  BY FloorOf
<1> HIDE DEF q, r
<1>2. q * b < (r + 1) * b
  <2>1. (r + 1) * b = r * b + b /\ q * b \in Int /\ r * b \in Int
    BY <1>1
  <2>2. QED BY <1>1, <2>1
<1>3. q < r + 1
  BY <1>1, <1>2, Cancel
<1>4. QED BY <1>1, <1>3 DEF q, r

LEMMA QuotOf ==
  ASSUME NEW a \in Int, NEW b \in Nat \ {0}
  PROVE  /\ Quot(a, b) \in Int
         /\ a >= 0 => Quot(a, b) >= 0 /\ Quot(a, b) * b <= a /\ a < Quot(a, b) * b + b
         /\ a < 0 => Quot(a, b) <= 0 /\ a <= Quot(a, b) * b /\ Quot(a, b) * b - b < a
<1>1. CASE a >= 0
  <2>1. a \in Nat
    BY <1>1
  <2>2. a \div b \in Nat /\ (a \div b) * b <= a /\ a < (a \div b) * b + b
    BY <2>1
  <2>3. QED BY <1>1, <2>2 DEF Quot
<1>2. CASE a < 0
  <2> DEFINE q == (-a) \div b
  <2>1. -a \in Nat
    BY <1>2
  <2>2. q \in Nat /\ q * b <= -a /\ -a < q * b + b
    BY <2>1
  <2>3. Quot(a, b) = -q
    BY <1>2 DEF Quot
  <2> HIDE DEF q
  <2>4. (-q) * b = -(q * b) /\ q * b \in Nat
    BY <2>2
  <2>5. QED BY <1>2, <2>2, <2>3, <2>4
<1>3. QED BY <1>1, <1>2

LEMMA MagnitudeOf ==
  ASSUME NEW a \in Int
  PROVE  /\ Magnitude(a) \in Nat /\ a <= Magnitude(a) /\ -a <= Magnitude(a)
         /\ Magnitude(a) \in {a, -a}
BY DEF Magnitude

LEMMA MagnitudeTimes ==
  ASSUME NEW a \in Int, NEW b \in Int
  PROVE  Magnitude(a * b) = Magnitude(a) * Magnitude(b)
<1>1. CASE a >= 0 /\ b >= 0
  <2>1. a * b >= 0
    BY <1>1
  <2>2. QED BY <1>1, <2>1 DEF Magnitude
<1>2. CASE a < 0 /\ b < 0
  <2> DEFINE c == -a
             d == -b
  <2>1. c \in Nat /\ d \in Nat /\ c > 0 /\ d > 0 /\ a = -c /\ b = -d
    BY <1>2
  <2> HIDE DEF c, d
  <2>2. a * b = c * d /\ c * d \in Nat
    BY <2>1
  <2>3. QED BY <1>2, <2>1, <2>2 DEF Magnitude
<1>3. CASE a >= 0 /\ b < 0
  <2> DEFINE d == -b
  <2>1. d \in Nat /\ d > 0 /\ b = -d
    BY <1>3
  <2> HIDE DEF d
  <2>2. a * b = -(a * d) /\ a * d \in Nat
    BY <1>3, <2>1
  <2>3. a * b < 0 => Magnitude(a * b) = a * d
    BY <2>2 DEF Magnitude
  <2>4. a * b >= 0 => Magnitude(a * b) = a * d
    BY <2>2 DEF Magnitude
  <2>5. Magnitude(a) = a /\ Magnitude(b) = d
    BY <1>3, <2>1 DEF Magnitude
  <2>6. QED BY <2>2, <2>3, <2>4, <2>5
<1>4. CASE a < 0 /\ b >= 0
  <2> DEFINE c == -a
  <2>1. c \in Nat /\ c > 0 /\ a = -c
    BY <1>4
  <2> HIDE DEF c
  <2>2. a * b = -(c * b) /\ c * b \in Nat
    BY <1>4, <2>1
  <2>3. a * b < 0 => Magnitude(a * b) = c * b
    BY <2>2 DEF Magnitude
  <2>4. a * b >= 0 => Magnitude(a * b) = c * b
    BY <2>2 DEF Magnitude
  <2>5. Magnitude(b) = b /\ Magnitude(a) = c
    BY <1>4, <2>1 DEF Magnitude
  <2>6. QED BY <2>2, <2>3, <2>4, <2>5
<1>5. QED BY <1>1, <1>2, <1>3, <1>4

LEMMA GreatestOf ==
  ASSUME NEW S, S \subseteq Int, S # {}, NEW m \in Int, \A x \in S : x <= m
  PROVE  Max(S) \in S /\ \A y \in S : y <= Max(S)
<1> DEFINE T == {m - x : x \in S}
<1>1. T \subseteq Nat /\ T # {}
  <2>1. \A x \in S : m - x \in Nat
    OBVIOUS
  <2>2. QED BY <2>1
<1>2. PICK t \in T : \A y \in T : t <= y
  <2> HIDE DEF T
  <2>1. QED BY <1>1, LeastOf
<1>3. PICK x \in S : t = m - x
  OBVIOUS
<1>4. ASSUME NEW y \in S PROVE x >= y
  <2>1. m - x <= m - y
    BY <1>2, <1>3
  <2>2. x \in Int /\ y \in Int
    OBVIOUS
  <2>3. QED BY <2>1, <2>2
<1>5. Max(S) \in S /\ \A y \in S : Max(S) >= y
  <2>1. \E z \in S : \A y \in S : z >= y
    BY <1>4
  <2>2. QED BY <2>1, Zenon DEF Max
<1>6. QED BY <1>5

LEMMA MaxOfTwo ==
  ASSUME NEW a \in Int, NEW b \in Int
  PROVE  Max({a, b}) \in {a, b} /\ a <= Max({a, b}) /\ b <= Max({a, b})
<1>1. PICK m \in Int : a <= m /\ b <= m
  OBVIOUS
<1>2. {a, b} \subseteq Int /\ {a, b} # {} /\ \A x \in {a, b} : x <= m
  BY <1>1
<1>3. Max({a, b}) \in {a, b} /\ \A y \in {a, b} : y <= Max({a, b})
  <2> DEFINE S == {a, b}
  <2>1. S \subseteq Int /\ S # {} /\ \A x \in S : x <= m
    BY <1>2
  <2> HIDE DEF S
  <2>2. Max(S) \in S /\ \A y \in S : y <= Max(S)
    BY <2>1, GreatestOf
  <2>3. QED BY <2>2 DEF S
<1>4. QED BY <1>3

(* Total takes the last element first.                                     *)
TotalRec(f, v) ==
  f = [s \in SUBSET DOMAIN v |-> IF s = {} THEN 0 ELSE f[s \ {Max(s)}] + v[Max(s)]]

LEMMA TotalEquation ==
  ASSUME NEW v, NEW g, TotalRec(g, v)
  PROVE  \E f : TotalRec(f, v) /\ Total(v) = f[DOMAIN v]
BY Zenon DEF Total, FoldLeft, MapThenFoldSet, TotalRec

(* g[k] is the sum of the first k elements.                                *)
Sums(g, n, v) ==
  /\ g \in [0 .. n -> Int] /\ g[0] = 0
  /\ \A k \in 1 .. n : g[k] = g[k - 1] + v[k]

LEMMA TotalOf ==
  ASSUME NEW n \in Nat, NEW v \in [1 .. n -> Int]
  PROVE  \E g : Sums(g, n, v) /\ Total(v) = g[n]
<1> DEFINE F == [p \in Int \X (1 .. n) |-> p[1] + v[p[2]]]
<1>1. F \in [Int \X (1 .. n) -> Int]
  OBVIOUS
<1>2. PICK h : Folds(h, n, Int, 0, F)
  <2> HIDE DEF F
  <2>1. 0 \in Int
    OBVIOUS
  <2>2. QED BY <1>1, <2>1, FoldExists
<1>3. ASSUME NEW s \in SUBSET (1 .. n), s # {}
      PROVE  s \ {Max(s)} \in SUBSET (1 .. n) /\ Max(s) \in 1 .. n
  BY <1>3, MaxOf
<1>4. ASSUME NEW s \in SUBSET (1 .. n), s # {}
      PROVE  F[<<h[s \ {Max(s)}], Max(s)>>] = h[s \ {Max(s)}] + v[Max(s)]
  <2>1. h[s \ {Max(s)}] \in Int /\ Max(s) \in 1 .. n
    BY <1>2, <1>3, <1>4 DEF Folds
  <2>2. QED BY <2>1
<1>5. TotalRec(h, v)
  <2> HIDE DEF F
  <2>1. DOMAIN v = 1 .. n /\ h \in [SUBSET (1 .. n) -> Int]
    BY <1>2 DEF Folds
  <2>2. ASSUME NEW s \in SUBSET (1 .. n)
        PROVE  h[s] = IF s = {} THEN 0 ELSE h[s \ {Max(s)}] + v[Max(s)]
    BY <1>2, <1>4 DEF Folds
  <2>3. QED BY <2>1, <2>2 DEF TotalRec
<1>6. PICK f : TotalRec(f, v) /\ Total(v) = f[DOMAIN v]
  BY <1>5, TotalEquation
<1>7. DOMAIN v = 1 .. n
  OBVIOUS
<1>8. ASSUME NEW s \in SUBSET (1 .. n)
      PROVE  f[s] = IF s = {} THEN 0 ELSE f[s \ {Max(s)}] + v[Max(s)]
  BY <1>6, <1>7 DEF TotalRec
<1>9. \A s \in SUBSET (1 .. n) : f[s] \in Int
  <2>1. f[{}] \in Int
    <3>1. {} \in SUBSET (1 .. n)
      OBVIOUS
    <3>2. f[{}] = 0
      BY <1>8, <3>1
    <3>3. QED BY <3>2
  <2>2. ASSUME NEW s \in SUBSET (1 .. n), s # {}, f[s \ {Max(s)}] \in Int PROVE f[s] \in Int
    BY <2>2, <1>3, <1>8
  <2>3. QED BY <2>1, <2>2, FoldStays
<1> DEFINE g == [k \in 0 .. n |-> f[1 .. k]]
<1>10. g \in [0 .. n -> Int]
  <2>1. \A k \in 0 .. n : 1 .. k \in SUBSET (1 .. n)
    OBVIOUS
  <2>2. QED BY <1>9, <2>1
<1>11. g[0] = 0
  <2>1. 1 .. 0 = {} /\ {} \in SUBSET (1 .. n) /\ 0 \in 0 .. n
    OBVIOUS
  <2>2. f[{}] = 0
    BY <1>8
  <2>3. QED BY <2>1, <2>2
<1>12. ASSUME NEW k \in 1 .. n PROVE g[k] = g[k - 1] + v[k]
  <2>1. /\ 1 .. k \in SUBSET (1 .. n) /\ 1 .. k # {}
        /\ Max(1 .. k) = k /\ (1 .. k) \ {k} = 1 .. k - 1
    BY PrefixOf
  <2>2. f[1 .. k] = f[1 .. k - 1] + v[k]
    BY <1>8, <2>1
  <2>3. k \in 0 .. n /\ k - 1 \in 0 .. n
    OBVIOUS
  <2>4. QED BY <2>2, <2>3
<1>13. Total(v) = g[n]
  BY <1>6, <1>7
<1> HIDE DEF g
<1>14. QED BY <1>10, <1>11, <1>12, <1>13 DEF Sums

LEMMA TotalOrder ==
  ASSUME NEW n \in Nat, NEW u \in [1 .. n -> Int], NEW v \in [1 .. n -> Int],
         \A i \in 1 .. n : u[i] <= v[i]
  PROVE  Total(u) \in Int /\ Total(v) \in Int /\ Total(u) <= Total(v)
<1>1. PICK g : Sums(g, n, u) /\ Total(u) = g[n]
  BY TotalOf
<1>2. PICK h : Sums(h, n, v) /\ Total(v) = h[n]
  BY TotalOf
<1> DEFINE G == {k \in 0 .. n : g[k] <= h[k]}
<1>3. 0 \in G
  BY <1>1, <1>2 DEF Sums
<1>4. ASSUME NEW k \in 1 .. n, k - 1 \in G PROVE k \in G
  <2>1. /\ g[k] = g[k - 1] + u[k] /\ h[k] = h[k - 1] + v[k]
        /\ {g[k - 1], h[k - 1], u[k], v[k]} \subseteq Int /\ u[k] <= v[k]
    BY <1>1, <1>2 DEF Sums
  <2>2. QED BY <1>4, <2>1
<1>5. n \in G
  <2>1. n \in 0 .. n
    OBVIOUS
  <2> HIDE DEF G
  <2>2. QED BY <1>3, <1>4, <2>1, Upward
<1>6. QED BY <1>1, <1>2, <1>5 DEF Sums

LEMMA TotalScaled ==
  ASSUME NEW n \in Nat, NEW a \in Int, NEW v \in [1 .. n -> Int], NEW u \in [1 .. n -> Int],
         \A i \in 1 .. n : u[i] = a * v[i]
  PROVE  Total(v) \in Int /\ Total(u) = a * Total(v)
<1>1. PICK g : Sums(g, n, u) /\ Total(u) = g[n]
  BY TotalOf
<1>2. PICK h : Sums(h, n, v) /\ Total(v) = h[n]
  BY TotalOf
<1> DEFINE G == {k \in 0 .. n : g[k] = a * h[k]}
<1>3. 0 \in G
  BY <1>1, <1>2 DEF Sums
<1>4. ASSUME NEW k \in 1 .. n, k - 1 \in G PROVE k \in G
  <2>1. /\ g[k] = g[k - 1] + u[k] /\ h[k] = h[k - 1] + v[k]
        /\ h[k - 1] \in Int /\ v[k] \in Int /\ u[k] = a * v[k] /\ g[k - 1] = a * h[k - 1]
    BY <1>1, <1>2, <1>4 DEF Sums
  <2>2. ASSUME NEW x \in Int, NEW y \in Int PROVE a * x + a * y = a * (x + y)
    OBVIOUS
  <2>3. a * h[k - 1] + a * v[k] = a * (h[k - 1] + v[k])
    BY <2>1, <2>2
  <2>4. g[k] = a * h[k]
    BY <2>1, <2>3
  <2>5. QED BY <2>4
<1>5. n \in G
  <2>1. n \in 0 .. n
    OBVIOUS
  <2> HIDE DEF G
  <2>2. QED BY <1>3, <1>4, <2>1, Upward
<1>6. QED BY <1>1, <1>2, <1>5 DEF Sums

LEMMA TotalMinus ==
  ASSUME NEW n \in Nat, NEW u \in [1 .. n -> Int], NEW v \in [1 .. n -> Int],
         NEW w \in [1 .. n -> Int], \A i \in 1 .. n : w[i] = u[i] - v[i]
  PROVE  Total(u) \in Int /\ Total(v) \in Int /\ Total(w) = Total(u) - Total(v)
<1>1. PICK g : Sums(g, n, u) /\ Total(u) = g[n]
  BY TotalOf
<1>2. PICK h : Sums(h, n, v) /\ Total(v) = h[n]
  BY TotalOf
<1>3. PICK d : Sums(d, n, w) /\ Total(w) = d[n]
  BY TotalOf
<1> DEFINE G == {k \in 0 .. n : d[k] = g[k] - h[k]}
<1>4. 0 \in G
  BY <1>1, <1>2, <1>3 DEF Sums
<1>5. ASSUME NEW k \in 1 .. n, k - 1 \in G PROVE k \in G
  <2>1. /\ g[k] = g[k - 1] + u[k] /\ h[k] = h[k - 1] + v[k] /\ d[k] = d[k - 1] + w[k]
        /\ {g[k - 1], h[k - 1], d[k - 1], u[k], v[k], w[k]} \subseteq Int
        /\ w[k] = u[k] - v[k]
    <3>1. k \in 0 .. n /\ k - 1 \in 0 .. n
      OBVIOUS
    <3>2. /\ g[k] = g[k - 1] + u[k] /\ g \in [0 .. n -> Int]
      BY <1>1 DEF Sums
    <3>3. h[k] = h[k - 1] + v[k] /\ h \in [0 .. n -> Int]
      BY <1>2 DEF Sums
    <3>4. d[k] = d[k - 1] + w[k] /\ d \in [0 .. n -> Int]
      BY <1>3 DEF Sums
    <3>5. QED BY <3>1, <3>2, <3>3, <3>4
  <2>2. QED BY <1>5, <2>1
<1>6. n \in G
  <2>1. n \in 0 .. n
    OBVIOUS
  <2> HIDE DEF G
  <2>2. QED BY <1>4, <1>5, <2>1, Upward
<1>7. QED BY <1>1, <1>2, <1>3, <1>6 DEF Sums

LEMMA TotalHas ==
  ASSUME NEW n \in Nat, NEW v \in [1 .. n -> Nat]
  PROVE  Total(v) \in Nat /\ \A i \in 1 .. n : v[i] <= Total(v)
<1>1. v \in [1 .. n -> Int]
  OBVIOUS
<1>2. PICK g : Sums(g, n, v) /\ Total(v) = g[n]
  BY <1>1, TotalOf
<1> DEFINE G == {k \in 0 .. n : g[k] >= 0 /\ \A i \in 1 .. k : v[i] <= g[k]}
<1>3. 0 \in G
  BY <1>2 DEF Sums
<1>4. ASSUME NEW k \in 1 .. n, k - 1 \in G PROVE k \in G
  <2>1. /\ g[k] = g[k - 1] + v[k] /\ g[k - 1] \in Int /\ v[k] \in Nat /\ g[k - 1] >= 0
        /\ \A i \in 1 .. k - 1 : v[i] <= g[k - 1]
    BY <1>2, <1>4 DEF Sums
  <2>2. ASSUME NEW i \in 1 .. k PROVE v[i] <= g[k]
    <3>1. i = k \/ i \in 1 .. k - 1
      OBVIOUS
    <3>2. v[i] \in Nat
      OBVIOUS
    <3>3. QED BY <2>1, <3>1, <3>2
  <2>3. QED BY <2>1, <2>2
<1>5. n \in G
  <2>1. n \in 0 .. n
    OBVIOUS
  <2> HIDE DEF G
  <2>2. QED BY <1>3, <1>4, <2>1, Upward
<1>6. QED BY <1>2, <1>5 DEF Sums

LEMMA TotalConstant ==
  ASSUME NEW n \in Nat, NEW c \in Int, NEW v \in [1 .. n -> Int], \A i \in 1 .. n : v[i] = c
  PROVE  Total(v) = n * c
<1>1. PICK g : Sums(g, n, v) /\ Total(v) = g[n]
  BY TotalOf
<1> DEFINE G == {k \in 0 .. n : g[k] = k * c}
<1>2. 0 \in G
  BY <1>1 DEF Sums
<1>3. ASSUME NEW k \in 1 .. n, k - 1 \in G PROVE k \in G
  <2>1. g[k] = g[k - 1] + v[k] /\ v[k] = c /\ g[k - 1] = (k - 1) * c
    BY <1>1, <1>3 DEF Sums
  <2>2. (k - 1) * c + c = k * c
    OBVIOUS
  <2>3. QED BY <2>1, <2>2
<1>4. n \in G
  <2>1. n \in 0 .. n
    OBVIOUS
  <2> HIDE DEF G
  <2>2. QED BY <1>2, <1>3, <2>1, Upward
<1>5. QED BY <1>1, <1>4

LEMMA TotalNext ==
  ASSUME NEW n \in Nat, NEW v \in [1 .. n + 1 -> Int], NEW u \in [1 .. n -> Int],
         \A i \in 1 .. n : u[i] = v[i]
  PROVE  Total(u) \in Int /\ Total(v) = Total(u) + v[n + 1]
<1>1. PICK g : Sums(g, n, u) /\ Total(u) = g[n]
  BY TotalOf
<1>2. PICK h : Sums(h, n + 1, v) /\ Total(v) = h[n + 1]
  <2> DEFINE m == n + 1
  <2>1. m \in Nat /\ v \in [1 .. m -> Int]
    OBVIOUS
  <2> HIDE DEF m
  <2>2. \E h : Sums(h, m, v) /\ Total(v) = h[m]
    BY <2>1, TotalOf
  <2>3. QED BY <2>2 DEF m
<1> DEFINE G == {k \in 0 .. n : g[k] = h[k]}
<1>3. 0 \in G
  BY <1>1, <1>2 DEF Sums
<1>4. ASSUME NEW k \in 1 .. n, k - 1 \in G PROVE k \in G
  <2>1. g[k] = g[k - 1] + u[k] /\ u[k] = v[k]
    BY <1>1 DEF Sums
  <2>2. h[k] = h[k - 1] + v[k]
    <3>1. k \in 1 .. n + 1
      OBVIOUS
    <3>2. QED BY <1>2, <3>1 DEF Sums
  <2>3. QED BY <1>4, <2>1, <2>2
<1>5. n \in G
  <2>1. n \in 0 .. n
    OBVIOUS
  <2> HIDE DEF G
  <2>2. QED BY <1>3, <1>4, <2>1, Upward
<1>6. h[n + 1] = h[n] + v[n + 1]
  <2>1. n + 1 \in 1 .. n + 1 /\ n + 1 - 1 = n
    OBVIOUS
  <2>2. QED BY <1>2, <2>1 DEF Sums
<1>7. QED BY <1>1, <1>2, <1>5, <1>6 DEF Sums

LEMMA TotalMagnitude ==
  ASSUME NEW n \in Nat, NEW v \in [1 .. n -> Int], NEW w \in [1 .. n -> Int],
         \A i \in 1 .. n : Magnitude(v[i]) <= w[i]
  PROVE  Total(v) \in Int /\ Total(w) \in Int /\ Magnitude(Total(v)) <= Total(w)
<1>1. \A i \in 1 .. n : v[i] <= w[i] /\ -w[i] <= v[i]
  <2>1. ASSUME NEW i \in 1 .. n PROVE v[i] <= w[i] /\ -w[i] <= v[i]
    <3>1. v[i] \in Int /\ w[i] \in Int /\ Magnitude(v[i]) <= w[i]
      OBVIOUS
    <3> DEFINE x == v[i]
               y == w[i]
    <3>2. x \in Int /\ y \in Int /\ Magnitude(x) <= y
      BY <3>1
    <3> HIDE DEF x, y
    <3>3. x <= Magnitude(x) /\ -x <= Magnitude(x) /\ Magnitude(x) \in Int
      BY <3>2, MagnitudeOf
    <3>4. x <= y /\ -y <= x
      BY <3>2, <3>3
    <3>5. QED BY <3>4 DEF x, y
  <2>2. QED BY <2>1
<1> DEFINE u == [i \in 1 .. n |-> -w[i]]
<1>2. u \in [1 .. n -> Int] /\ \A i \in 1 .. n : u[i] = (-1) * w[i] /\ u[i] <= v[i]
  BY <1>1
<1> HIDE DEF u
<1>3. Total(w) \in Int /\ Total(u) = (-1) * Total(w)
  <2> DEFINE a == -1
  <2>1. a \in Int /\ \A i \in 1 .. n : u[i] = a * w[i]
    BY <1>2
  <2> HIDE DEF a
  <2>2. Total(w) \in Int /\ Total(u) = a * Total(w)
    BY <1>2, <2>1, TotalScaled
  <2>3. QED BY <2>2 DEF a
<1>4. Total(v) \in Int /\ Total(v) <= Total(w)
  BY <1>1, TotalOrder
<1>5. Total(u) <= Total(v)
  BY <1>2, TotalOrder
<1>6. QED BY <1>3, <1>4, <1>5 DEF Magnitude

-----------------------------------------------------------------------------
(* Requantisation.                                                         *)

LEMMA AbsMax ==
  ASSUME NEW n \in Nat, NEW v \in [1 .. n -> Int]
  PROVE  /\ absmax64(v) \in Nat \ {0}
         /\ \A i \in 1 .. n : -absmax64(v) <= v[i] /\ v[i] <= absmax64(v)
<1> DEFINE S == {1} \cup {Magnitude(v[i]) : i \in 1 .. n}
           u == [i \in 1 .. n |-> Magnitude(v[i])]
<1>1. \A i \in 1 .. n : Magnitude(v[i]) \in Nat /\ v[i] <= Magnitude(v[i]) /\ -v[i] <= Magnitude(v[i])
  BY MagnitudeOf
<1>2. S \subseteq Nat /\ 1 \in S
  BY <1>1
<1>3. \E m \in Nat : \A x \in S : x <= m
  <2>1. Total(u) \in Nat /\ \A i \in 1 .. n : u[i] <= Total(u)
    <3>1. u \in [1 .. n -> Nat]
      BY <1>1
    <3> HIDE DEF u
    <3>2. QED BY <3>1, TotalHas
  <2>2. Total(u) + 1 \in Nat /\ \A x \in S : x <= Total(u) + 1
    <3> DEFINE t == Total(u)
    <3>1. t \in Nat /\ \A i \in 1 .. n : Magnitude(v[i]) <= t
      BY <2>1
    <3> HIDE DEF t
    <3>2. t + 1 \in Nat /\ 1 <= t + 1 /\ \A i \in 1 .. n : Magnitude(v[i]) <= t + 1
      BY <1>1, <3>1
    <3>3. QED BY <3>2 DEF t
  <2>3. QED BY <2>2
<1>4. PICK m \in Nat : \A x \in S : x <= m
  BY <1>3
<1> HIDE DEF S
<1>9. Max(S) \in S /\ \A y \in S : y <= Max(S)
  <2>1. S \subseteq Int /\ S # {} /\ m \in Int
    BY <1>2
  <2>2. QED BY <1>4, <2>1, GreatestOf
<1>10. absmax64(v) = Max(S)
  <2>1. DOMAIN v = 1 .. n
    OBVIOUS
  <2>2. QED BY <2>1 DEF absmax64, S
<1>11. Max(S) \in Nat /\ Max(S) >= 1
  BY <1>2, <1>9
<1>12. ASSUME NEW i \in 1 .. n PROVE -Max(S) <= v[i] /\ v[i] <= Max(S)
  <2>1. Magnitude(v[i]) \in S
    BY DEF S
  <2>2. Magnitude(v[i]) <= Max(S)
    BY <1>9, <2>1, <1>11, <1>1
  <2>3. v[i] \in Int
    OBVIOUS
  <2>4. QED BY <1>1, <1>11, <2>2, <2>3
<1>13. QED BY <1>10, <1>11, <1>12

(* q is v * 127 / mx but for h halves.                                     *)
Near(q, v, mx, h) == Magnitude(2 * (q * mx - 127 * v)) <= h * mx

(* The two ways from an accumulator to an int8: of llm_forward.c and of    *)
(* yolo_ops.c.                                                             *)
Nearest8(v, mx) ==
  Clip8(IF v >= 0 THEN Quot(254 * v + mx, 2 * mx) ELSE Quot(254 * v - mx, 2 * mx))
Lower8(v, mx) ==
  Clip8(IF v >= 0 THEN (254 * v + mx) \div (2 * mx) ELSE (254 * v - mx) \div (2 * mx))

(* How far the int8 value q of scale s is from v * W / D, when q is v by   *)
(* mx / 127 but for a rounding of h halves, and s is mx * W / D by 127.    *)
LEMMA ScaleStands ==
  ASSUME NEW q \in Int, NEW v \in Int, NEW mx \in Nat \ {0}, NEW W \in Nat,
         NEW D \in Nat \ {0}, NEW h \in Nat,
         Near(q, v, mx, h)
  PROVE  Represents(q, AtLeast1((mx * W) \div (127 * D)), v * W, D, h)
<1> DEFINE N == 127 * D
           p == mx * W
           t == p \div N
           s == AtLeast1(t)
<1>1. N \in Nat \ {0} /\ p \in Nat
  OBVIOUS
<1>2. t \in Nat /\ t * N <= p /\ p < t * N + N
  <2> HIDE DEF N, p
  <2>1. QED BY <1>1
<1>3. s \in Nat \ {0} /\ p <= s * N + N /\ s * N <= p + N
  <2> HIDE DEF N, p, t
  <2>1. CASE t = 0
    <3>1. s = 1 /\ t * N = 0 /\ s * N = N
      BY <1>1, <2>1 DEF AtLeast1
    <3>2. QED BY <1>1, <1>2, <3>1
  <2>2. CASE t # 0
    <3>1. s = t /\ t * N \in Nat
      BY <1>1, <1>2, <2>2 DEF AtLeast1
    <3>2. QED BY <1>1, <1>2, <2>2, <3>1
  <2>3. QED BY <2>1, <2>2
<1> DEFINE r == p - s * N
           e == 2 * (q * mx - 127 * v)
           X == q * s * D - v * W
           a == Magnitude(q)
<1>4. r \in Int /\ Magnitude(r) <= N /\ p = s * N + r
  <2> HIDE DEF N, p, s
  <2>1. s * N \in Int
    BY <1>1, <1>3
  <2>2. QED BY <1>1, <1>3, <2>1 DEF Magnitude
<1>5. e \in Int /\ X \in Int /\ q * r \in Int /\ e * W \in Int /\ a \in Nat
  <2> HIDE DEF s, r, p, N
  <2>1. QED BY <1>3, <1>4, MagnitudeOf
<1>6. 254 * X = e * W - 2 * (q * r)
  <2> HIDE DEF s
  <2>1. e * W = 2 * (q * (mx * W)) - 254 * (v * W)
    OBVIOUS
  <2>2. q * p = q * (s * N) + q * r
    <3> HIDE DEF r, p, N
    <3>1. QED BY <1>1, <1>3, <1>4
  <2>3. q * (s * N) = 127 * (q * s * D)
    BY <1>3
  <2> HIDE DEF e, r
  <2>4. q * s * D \in Int /\ v * W \in Int /\ q * p \in Int /\ q * (s * N) \in Int
    BY <1>3
  <2> DEFINE A == q * s * D
             B == v * W
             P == q * p
             Q == q * (s * N)
             R == q * r
             E == e * W
  <2>5. /\ {A, B, P, Q, R, E} \subseteq Int /\ E = 2 * P - 254 * B
        /\ P = Q + R /\ Q = 127 * A
    BY <1>5, <2>1, <2>2, <2>3, <2>4
  <2> HIDE DEF A, B, P, Q, R, E
  <2>6. 254 * (A - B) = E - 2 * R
    BY <2>5
  <2>7. QED BY <2>6 DEF A, B, R, E
<1>7. Magnitude(e * W) <= h * p
  <2>1. Magnitude(e * W) = Magnitude(e) * W
    <3>1. Magnitude(W) = W
      BY DEF Magnitude
    <3> HIDE DEF e
    <3>2. QED BY <1>5, <3>1, MagnitudeTimes
  <2>2. Magnitude(e) \in Int /\ h * mx \in Int
    BY <1>5, MagnitudeOf
  <2>3. Magnitude(e) * W <= (h * mx) * W
    <3> HIDE DEF e
    <3>1. Magnitude(e) <= h * mx
      BY DEF e, Near
    <3>2. QED BY <2>2, <3>1, Grows
  <2>4. (h * mx) * W = h * p
    OBVIOUS
  <2>5. QED BY <2>1, <2>3, <2>4
<1>8. Magnitude(q * r) <= a * N
  <2>1. Magnitude(q * r) = a * Magnitude(r) /\ Magnitude(r) \in Nat
    <3> HIDE DEF r
    <3>1. QED BY <1>4, MagnitudeTimes, MagnitudeOf
  <2>2. Magnitude(r) * a <= N * a
    <3> HIDE DEF r, N, a
    <3>1. QED BY <2>1, <1>1, <1>4, <1>5, Grows
  <2>3. Magnitude(r) * a = a * Magnitude(r) /\ N * a = a * N
    <3> HIDE DEF r, N, a
    <3>1. QED BY <2>1, <1>1, <1>5
  <2>4. QED BY <2>1, <2>2, <2>3
<1>9. h * p <= (h * (s + 1)) * N
  <2> HIDE DEF s, p, N
  <2>1. p <= (s + 1) * N /\ (s + 1) * N \in Nat
    <3>1. (s + 1) * N = s * N + N
      BY <1>1, <1>3
    <3>2. (s + 1) * N \in Nat
      BY <1>1, <1>3
    <3>3. QED BY <1>3, <3>1, <3>2
  <2>2. p * h <= ((s + 1) * N) * h
    BY <1>1, <2>1, Grows
  <2>3. p * h = h * p /\ ((s + 1) * N) * h = (h * (s + 1)) * N
    BY <1>1, <1>3
  <2>4. QED BY <2>2, <2>3
<1> DEFINE b == h * (s + 1) + 2 * a
<1>10. 254 * Magnitude(X) <= b * N
  <2>1. b * N = (h * (s + 1)) * N + 2 * (a * N)
    <3> HIDE DEF s, N, a
    <3>1. QED BY <1>1, <1>3, <1>5
  <2>2. (h * (s + 1)) * N \in Int /\ a * N \in Int /\ h * p \in Int
    <3> HIDE DEF s, N, a, p
    <3>1. QED BY <1>1, <1>3, <1>5
  <2> DEFINE y == e * W
             z == q * r
             B == (h * (s + 1)) * N
             A == a * N
             H == h * p
  <2>3. /\ y \in Int /\ z \in Int /\ B \in Int /\ A \in Int /\ H \in Int /\ X \in Int
        /\ 254 * X = y - 2 * z /\ Magnitude(y) <= H /\ H <= B /\ Magnitude(z) <= A
        /\ b * N = B + 2 * A
    BY <1>5, <1>6, <1>7, <1>8, <1>9, <2>1, <2>2
  <2> HIDE DEF y, z, A, B, H, X, b, N
  <2>4. QED BY <2>3 DEF Magnitude
<1>11. 2 * Magnitude(X) <= b * D
  <2>1. b \in Nat
    <3> HIDE DEF s, a
    <3>1. QED BY <1>3, <1>5
  <2> HIDE DEF b, X
  <2>2. b * N = 127 * (b * D) /\ b * D \in Int
    BY <2>1
  <2>3. Magnitude(X) \in Nat
    BY <1>5, MagnitudeOf
  <2> HIDE DEF N
  <2>4. QED BY <1>10, <2>2, <2>3
<1>12. QED BY <1>11 DEF Represents, X, b, s, t, a

LEMMA RequantValue ==
  ASSUME NEW v \in Int, NEW mx \in Nat \ {0}, -mx <= v, v <= mx
  PROVE  /\ Nearest8(v, mx) \in Int8 /\ RoundsToNearest(v, mx, Nearest8(v, mx))
         /\ Near(Nearest8(v, mx), v, mx, 1)
<1> DEFINE n == IF v >= 0 THEN 254 * v + mx ELSE 254 * v - mx
           d == 2 * mx
           q == Quot(n, d)
<1>1. n \in Int /\ d \in Nat \ {0} /\ (v >= 0 => n >= 0) /\ (v < 0 => n < 0)
  OBVIOUS
<1>2. /\ q \in Int
      /\ v >= 0 => q >= 0 /\ q * d <= n /\ n < q * d + d
      /\ v < 0 => q <= 0 /\ n <= q * d /\ q * d - d < n
  <2> HIDE DEF n, d
  <2>1. QED BY <1>1, QuotOf
<1>3. q * d = 2 * (q * mx) /\ q * mx \in Int
  <2> HIDE DEF q
  <2>1. QED BY <1>2
<1>4. -127 <= q /\ q <= 127
  <2> HIDE DEF q
  <2>1. CASE v >= 0
    <3>1. q * mx < 128 * mx
      BY <1>2, <1>3, <2>1
    <3>2. q < 128
      BY <1>2, <3>1, Cancel
    <3>3. QED BY <1>2, <2>1, <3>2
  <2>2. CASE v < 0
    <3>1. (-128) * mx < q * mx
      BY <1>2, <1>3, <2>2
    <3>2. -128 < q
      BY <1>2, <3>1, Cancel
    <3>3. QED BY <1>2, <2>2, <3>2
  <2>3. QED BY <2>1, <2>2
<1>5. RoundsToNearest(v, mx, q)
  <2> HIDE DEF q
  <2> DEFINE z == q * mx
             e == 2 * (z - 127 * v)
  <2>1. z \in Int /\ e \in Int
    BY <1>3
  <2>2. /\ v >= 0 => e <= mx /\ -mx < e
        /\ v < 0 => e < mx /\ -mx <= e
    <3> HIDE DEF z
    <3>1. q * d = 2 * z
      BY <1>3 DEF z
    <3>2. QED BY <1>2, <2>1, <3>1
  <2>3. v = 0 => e # mx
    <3>1. ASSUME v = 0 PROVE q = 0
      <4>1. q * mx < 1 * mx
        BY <1>2, <1>3, <3>1
      <4>2. q < 1
        BY <1>2, <4>1, Cancel
      <4>3. QED BY <1>2, <3>1, <4>2
    <3>2. QED BY <3>1
  <2>4. Magnitude(e) <= mx
    <3> HIDE DEF e
    <3>1. QED BY <2>1, <2>2 DEF Magnitude
  <2>5. (e = mx => v > 0) /\ (e = -mx => v < 0)
    <3> HIDE DEF e
    <3>1. QED BY <2>1, <2>2, <2>3
  <2>6. QED BY <2>4, <2>5 DEF RoundsToNearest
<1>6. Nearest8(v, mx) = q
  <2>1. (IF v >= 0 THEN Quot(254 * v + mx, 2 * mx) ELSE Quot(254 * v - mx, 2 * mx)) = q
    OBVIOUS
  <2> HIDE DEF q
  <2>2. QED BY <1>2, <1>4, <2>1 DEF Clip8, Nearest8
<1> HIDE DEF q
<1>7. Near(q, v, mx, 1)
  BY <1>5 DEF RoundsToNearest, Near
<1>8. QED BY <1>2, <1>4, <1>5, <1>6, <1>7 DEF Int8

LEMMA DownValue ==
  ASSUME NEW v \in Int, NEW mx \in Nat \ {0}, -mx <= v, v <= mx
  PROVE  /\ Lower8(v, mx) \in Int8 /\ RoundsDown(v, mx, Lower8(v, mx))
         /\ Near(Lower8(v, mx), v, mx, 3)
<1> DEFINE q == Lower8(v, mx)
<1>1. CASE v >= 0
  <2>1. (254 * v + mx) \div (2 * mx) = Quot(254 * v + mx, 2 * mx)
    BY <1>1 DEF Quot
  <2>2. q \in Int8 /\ RoundsToNearest(v, mx, q) /\ Near(q, v, mx, 1)
    <3>1. q = Nearest8(v, mx)
      BY <1>1, <2>1 DEF Nearest8, Lower8
    <3> HIDE DEF q
    <3>2. QED BY <3>1, RequantValue
  <2> HIDE DEF q
  <2>3. q \in Int /\ q * mx \in Int
    BY <2>2 DEF Int8
  <2>4. Magnitude(2 * (q * mx - 127 * v)) <= 1 * mx
    BY <2>2 DEF Near
  <2>5. Magnitude(2 * (q * mx - 127 * v)) \in Nat
    BY <2>3, MagnitudeOf
  <2>6. Magnitude(2 * (q * mx - 127 * v)) <= 3 * mx
    BY <2>4, <2>5
  <2>7. RoundsDown(v, mx, q)
    BY <1>1, <2>2 DEF RoundsDown
  <2>8. QED BY <2>2, <2>6, <2>7 DEF q, Near
<1>2. CASE v < 0
  <2> DEFINE n == 254 * v - mx
             d == 2 * mx
             f == n \div d
  <2>1. n \in Int /\ d \in Nat \ {0}
    OBVIOUS
  <2>2. f \in Int /\ f * d <= n /\ n < f * d + d
    <3> HIDE DEF n, d
    <3>1. QED BY <2>1, FloorOf
  <2>3. f * d = 2 * (f * mx) /\ f * mx \in Int
    <3> HIDE DEF f
    <3>1. QED BY <2>2
  <2>4. -128 <= f /\ f <= 0
    <3> HIDE DEF f
    <3>1. (-129) * mx < f * mx
      BY <2>2, <2>3
    <3>2. f * mx < 1 * mx
      BY <1>2, <2>2, <2>3
    <3>3. -129 < f /\ f < 1
      BY <2>2, <3>1, <3>2, Cancel
    <3>4. QED BY <2>2, <3>3
  <2>5. q = f
    <3>1. q = Clip8(f)
      BY <1>2 DEF Lower8
    <3> HIDE DEF q, f
    <3>2. QED BY <2>2, <2>4, <3>1 DEF Clip8
  <2> HIDE DEF f
  <2>6. RoundsDown(v, mx, f)
    <3>1. 2 * mx * f = f * d /\ 2 * mx * (f + 1) = f * d + d
      BY <2>2
    <3> DEFINE z == f * d
    <3>2. z <= 254 * v - mx /\ 254 * v - mx < z + d /\ z \in Int
      BY <2>2
    <3>3. 2 * mx * f = z /\ 2 * mx * (f + 1) = z + d
      BY <3>1
    <3> HIDE DEF z, d
    <3>4. QED BY <1>2, <3>2, <3>3 DEF RoundsDown
  <2>7. Magnitude(2 * (f * mx - 127 * v)) <= 3 * mx
    <3> DEFINE z == f * mx
    <3>1. z \in Int /\ 2 * z <= 254 * v - mx /\ 254 * v - mx < 2 * z + 2 * mx
      BY <2>2, <2>3
    <3> HIDE DEF z
    <3>2. Magnitude(2 * (z - 127 * v)) <= 3 * mx
      BY <3>1 DEF Magnitude
    <3>3. QED BY <3>2 DEF z
  <2>8. f \in Int8
    BY <2>2, <2>4 DEF Int8
  <2> HIDE DEF q
  <2>9. QED BY <2>5, <2>6, <2>7, <2>8 DEF q, Near
<1>3. QED BY <1>1, <1>2

(* requant_i8, with the scale that goes with it.                           *)
LEMMA RequantisedAs ==
  ASSUME NEW n \in Nat, NEW v \in [1 .. n -> Int], NEW W \in Nat, NEW D \in Nat \ {0}
  PROVE  LET mx == absmax64(v)
             y == requant_i8(v, mx)
         IN  \A i \in 1 .. n :
               /\ y[i] \in Int8 /\ RoundsToNearest(v[i], mx, y[i])
               /\ Represents(y[i], AtLeast1((mx * W) \div (127 * D)), v[i] * W, D, 1)
<1> DEFINE mx == absmax64(v)
           y == requant_i8(v, mx)
<1>1. mx \in Nat \ {0} /\ \A i \in 1 .. n : -mx <= v[i] /\ v[i] <= mx
  BY AbsMax
<1> HIDE DEF mx
<1>2. SUFFICES ASSUME NEW i \in 1 .. n
               PROVE  /\ y[i] \in Int8 /\ RoundsToNearest(v[i], mx, y[i])
                      /\ Represents(y[i], AtLeast1((mx * W) \div (127 * D)), v[i] * W, D, 1)
  BY DEF mx
<1>3. v[i] \in Int /\ -mx <= v[i] /\ v[i] <= mx
  BY <1>1
<1>4. y[i] = Nearest8(v[i], mx)
  BY DEF requant_i8, Nearest8
<1> DEFINE x == v[i]
           q == y[i]
           s == AtLeast1((mx * W) \div (127 * D))
<1>5. x \in Int /\ -mx <= x /\ x <= mx /\ q = Nearest8(x, mx)
  BY <1>3, <1>4
<1> HIDE DEF x, y, q
<1>6. q \in Int8 /\ RoundsToNearest(x, mx, q) /\ Near(q, x, mx, 1)
  BY <1>1, <1>5, RequantValue
<1>7. q \in Int /\ 1 \in Nat
  BY <1>6 DEF Int8
<1>8. Represents(q, s, x * W, D, 1)
  BY <1>1, <1>5, <1>6, <1>7, ScaleStands, Zenon
<1>9. QED BY <1>6, <1>8 DEF x, q

(* requant of yolo_ops.c, likewise.                                        *)
LEMMA RequantAs ==
  ASSUME NEW n \in Nat, NEW v \in [1 .. n -> Int], NEW W \in Nat, NEW D \in Nat \ {0}
  PROVE  LET r == requant(v)
         IN  /\ r.mx = absmax64(v) /\ r.mx \in Nat \ {0}
             /\ r.y \in [1 .. n -> Int8]
             /\ \A i \in 1 .. n :
                  /\ RoundsDown(v[i], r.mx, r.y[i])
                  /\ Represents(r.y[i], AtLeast1((r.mx * W) \div (127 * D)), v[i] * W, D, 3)
<1> DEFINE mx == absmax64(v)
           y == requant(v).y
<1>1. mx \in Nat \ {0} /\ \A i \in 1 .. n : -mx <= v[i] /\ v[i] <= mx
  BY AbsMax
<1>2. requant(v).mx = mx
  BY DEF requant
<1>3. y = [i \in 1 .. n |-> Lower8(v[i], mx)]
  BY DEF requant, Lower8
<1> HIDE DEF y, mx
<1>4. ASSUME NEW i \in 1 .. n
      PROVE  /\ y[i] \in Int8 /\ RoundsDown(v[i], mx, y[i])
             /\ Represents(y[i], AtLeast1((mx * W) \div (127 * D)), v[i] * W, D, 3)
  <2>1. v[i] \in Int /\ -mx <= v[i] /\ v[i] <= mx
    BY <1>1
  <2> DEFINE x == v[i]
             q == y[i]
             s == AtLeast1((mx * W) \div (127 * D))
  <2>2. x \in Int /\ -mx <= x /\ x <= mx /\ q = Lower8(x, mx)
    BY <1>3, <2>1
  <2> HIDE DEF x, q
  <2>3. q \in Int8 /\ RoundsDown(x, mx, q) /\ Near(q, x, mx, 3)
    BY <1>1, <2>2, DownValue
  <2>4. q \in Int /\ 3 \in Nat
    BY <2>3 DEF Int8
  <2>5. Represents(q, s, x * W, D, 3)
    BY <1>1, <2>2, <2>3, <2>4, ScaleStands, Zenon
  <2>6. QED BY <2>3, <2>5 DEF x, q
<1>5. y \in [1 .. n -> Int8]
  BY <1>3, <1>4
<1>6. QED BY <1>1, <1>2, <1>4, <1>5 DEF y, mx

LEMMA RequantisedStands ==
  ASSUME NEW n \in Nat, NEW v \in [1 .. n -> Int]
  PROVE  LET r == Requantised(v)
         IN  /\ r.s \in Nat \ {0}
             /\ \A i \in 1 .. n :
                  /\ r.y[i] \in Int8 /\ RoundsToNearest(v[i], absmax64(v), r.y[i])
                  /\ Represents(r.y[i], r.s, v[i], 1, 1)
<1> DEFINE mx == absmax64(v)
           y == requant_i8(v, mx)
           s == AtLeast1(mx \div 127)
<1>1. Requantised(v).y = y /\ Requantised(v).s = s
  BY DEF Requantised
<1>2. mx \in Nat \ {0}
  BY AbsMax
<1>3. \A i \in 1 .. n :
        /\ y[i] \in Int8 /\ RoundsToNearest(v[i], mx, y[i])
        /\ Represents(y[i], AtLeast1((mx * 1) \div (127 * 1)), v[i] * 1, 1, 1)
  <2>1. 1 \in Nat /\ 1 \in Nat \ {0}
    OBVIOUS
  <2>2. QED BY <2>1, RequantisedAs
<1> HIDE DEF y
<1>4. mx * 1 = mx /\ 127 * 1 = 127
  BY <1>2
<1>5. s \in Nat \ {0}
  <2> HIDE DEF mx
  <2>1. mx \div 127 \in Nat
    BY <1>2
  <2>2. QED BY <2>1 DEF AtLeast1
<1>6. ASSUME NEW i \in 1 .. n PROVE Represents(y[i], s, v[i], 1, 1)
  <2>1. v[i] * 1 = v[i]
    OBVIOUS
  <2>2. Represents(y[i], AtLeast1((mx * 1) \div (127 * 1)), v[i] * 1, 1, 1)
    BY <1>3
  <2>3. QED BY <2>1, <2>2, <1>4
<1> HIDE DEF mx, s
<1>7. QED BY <1>1, <1>3, <1>5, <1>6 DEF mx

LEMMA RequantExact ==
  ASSUME NEW o, o.kernel = "requant", WellFormedCall(o)
  PROVE  Promised(o, Run(o))
<1>1. o.v \in Seq(Int) /\ Run(o) = Requantised(o.v)
  BY DEF WellFormedCall, Run
<1>2. Len(o.v) \in Nat /\ o.v \in [1 .. Len(o.v) -> Int] /\ DOMAIN o.v = 1 .. Len(o.v)
  BY <1>1, LenProperties
<1>3. \A i \in DOMAIN o.v :
        /\ RoundsToNearest(o.v[i], absmax64(o.v), Requantised(o.v).y[i])
        /\ Represents(Requantised(o.v).y[i], Requantised(o.v).s, o.v[i], 1, 1)
  BY <1>2, RequantisedStands
<1>4. QED BY <1>1, <1>3 DEF Promised

LEMMA InInt8 ==
  ASSUME NEW x \in Int8
  PROVE  x \in Int /\ -128 <= x /\ x <= 127
BY DEF Int8

LEMMA ScaledSum ==
  ASSUME NEW n \in Nat, NEW a \in [1 .. n -> Int8], NEW b \in [1 .. n -> Int8],
         NEW s \in Nat, NEW t \in Nat
  PROVE  \A i \in 1 .. n : a[i] * s + b[i] * t \in Int
<1>1. SUFFICES ASSUME NEW i \in 1 .. n PROVE a[i] * s + b[i] * t \in Int
  OBVIOUS
<1>2. a[i] \in Int /\ b[i] \in Int
  BY InInt8
<1>3. QED BY <1>2

LEMMA AddResExact ==
  ASSUME NEW o, o.kernel = "add_res", WellFormedCall(o)
  PROVE  Promised(o, Run(o))
<1> DEFINE v == [i \in DOMAIN o.a |-> o.a[i] * o.a_s + o.b[i] * o.b_s]
           r == Requantised(v)
<1>1. /\ o.a \in Seq(Int8) /\ o.b \in [DOMAIN o.a -> Int8] /\ o.a_s \in Nat /\ o.b_s \in Nat
      /\ Run(o) = r
  BY DEF WellFormedCall, Run, add_res
<1>2. Len(o.a) \in Nat /\ o.a \in [1 .. Len(o.a) -> Int8] /\ DOMAIN o.a = 1 .. Len(o.a)
  BY <1>1, LenProperties
<1>3. v \in [1 .. Len(o.a) -> Int]
  <2> DEFINE n == Len(o.a)
             a == o.a
             b == o.b
             c == o.a_s
             d == o.b_s
  <2>1. /\ n \in Nat /\ a \in [1 .. n -> Int8] /\ b \in [1 .. n -> Int8]
        /\ c \in Nat /\ d \in Nat
    BY <1>1, <1>2
  <2>2. v = [i \in 1 .. n |-> a[i] * c + b[i] * d]
    BY <1>2
  <2> HIDE DEF n, a, b, c, d, v
  <2>3. \A i \in 1 .. n : a[i] * c + b[i] * d \in Int
    BY <2>1, ScaledSum, Zenon
  <2>4. v \in [1 .. n -> Int]
    BY <2>2, <2>3
  <2>5. QED BY <2>4 DEF n
<1>4. \A i \in 1 .. Len(o.a) : v[i] = o.a[i] * o.a_s + o.b[i] * o.b_s
  BY <1>2
<1> HIDE DEF v
<1>5. \A i \in 1 .. Len(o.a) : Represents(r.y[i], r.s, v[i], 1, 1)
  BY <1>2, <1>3, RequantisedStands
<1> HIDE DEF r
<1>6. \A i \in DOMAIN o.a : Represents(r.y[i], r.s, o.a[i] * o.a_s + o.b[i] * o.b_s, 1, 1)
  BY <1>2, <1>4, <1>5
<1>7. QED BY <1>1, <1>6 DEF Promised

LEMMA MatmulExact ==
  ASSUME NEW o, o.kernel = "matmul", WellFormedCall(o)
  PROVE  Promised(o, Run(o))
<1> DEFINE mx == absmax64(o.acc)
           y == requant_i8(o.acc, mx)
           W == o.ws * o.x_s
           s == AtLeast1((mx * W) \div (127 * One))
           r == Run(o)
<1>1. o.acc \in Seq(Int) /\ o.ws \in Nat /\ o.x_s \in Nat /\ r = requant_matmul(o.acc, o.ws, o.x_s)
  BY DEF WellFormedCall, Run
<1>2. Len(o.acc) \in Nat /\ o.acc \in [1 .. Len(o.acc) -> Int] /\ DOMAIN o.acc = 1 .. Len(o.acc)
  BY <1>1, LenProperties
<1>3. W \in Nat /\ One \in Nat \ {0}
  BY <1>1, ScalesArePositive
<1>4. r.y = y /\ r.s = s
  <2>1. mx * o.ws * o.x_s = mx * W
    <3>1. mx \in Nat
      BY <1>2, AbsMax
    <3> HIDE DEF mx
    <3>2. QED BY <1>1, <3>1
  <2>2. r.y = y /\ r.s = AtLeast1((mx * o.ws * o.x_s) \div (127 * One))
    BY <1>1 DEF requant_matmul
  <2>3. QED BY <2>1, <2>2
<1> HIDE DEF r
<1>5. \A i \in 1 .. Len(o.acc) : Represents(y[i], s, o.acc[i] * W, One, 1)
  <2> HIDE DEF W
  <2>1. QED BY <1>2, <1>3, RequantisedAs
<1> HIDE DEF y, s
<1>6. ASSUME NEW i \in DOMAIN o.acc PROVE Represents(r.y[i], r.s, o.acc[i] * o.ws * o.x_s, One, 1)
  <2>1. o.acc[i] * W = o.acc[i] * o.ws * o.x_s
    BY <1>1, <1>2
  <2>2. QED BY <1>2, <1>4, <1>5, <2>1
<1>7. QED BY <1>6 DEF Promised, r

(* Three roundings of half a step where one alone is one.                  *)
LEMMA AddExact ==
  ASSUME NEW o, o.kernel = "add", WellFormedCall(o)
  PROVE  Promised(o, Run(o))
<1> DEFINE v == [i \in DOMAIN o.a |-> o.a[i] * o.a_s + o.b[i] * o.b_s]
           r == requant(v)
<1>1. /\ o.a \in Seq(Int8) /\ o.b \in [DOMAIN o.a -> Int8] /\ o.a_s \in Nat /\ o.b_s \in Nat
      /\ Run(o) = yolo_add(o)
  BY DEF WellFormedCall, Run
<1>2. Len(o.a) \in Nat /\ o.a \in [1 .. Len(o.a) -> Int8] /\ DOMAIN o.a = 1 .. Len(o.a)
  BY <1>1, LenProperties
<1>3. v \in [1 .. Len(o.a) -> Int]
  <2> DEFINE n == Len(o.a)
             a == o.a
             b == o.b
             c == o.a_s
             d == o.b_s
  <2>1. /\ n \in Nat /\ a \in [1 .. n -> Int8] /\ b \in [1 .. n -> Int8]
        /\ c \in Nat /\ d \in Nat
    BY <1>1, <1>2
  <2>2. v = [i \in 1 .. n |-> a[i] * c + b[i] * d]
    BY <1>2
  <2> HIDE DEF n, a, b, c, d, v
  <2>3. \A i \in 1 .. n : a[i] * c + b[i] * d \in Int
    BY <2>1, ScaledSum, Zenon
  <2>4. v \in [1 .. n -> Int]
    BY <2>2, <2>3
  <2>5. QED BY <2>4 DEF n
<1>4. \A i \in 1 .. Len(o.a) : v[i] = o.a[i] * o.a_s + o.b[i] * o.b_s
  BY <1>2
<1>5. yolo_add(o).y = r.y /\ yolo_add(o).s = AtLeast1(r.mx \div 127)
  BY DEF yolo_add
<1> HIDE DEF v
<1>6. /\ r.mx \in Nat \ {0}
      /\ \A i \in 1 .. Len(o.a) :
           Represents(r.y[i], AtLeast1((r.mx * 1) \div (127 * 1)), v[i] * 1, 1, 3)
  <2>1. 1 \in Nat /\ 1 \in Nat \ {0}
    OBVIOUS
  <2>2. QED BY <1>2, <1>3, <2>1, RequantAs
<1> HIDE DEF r
<1>7. ASSUME NEW i \in DOMAIN o.a
      PROVE  Represents(r.y[i], AtLeast1(r.mx \div 127), o.a[i] * o.a_s + o.b[i] * o.b_s, 1, 3)
  <2>1. r.mx * 1 = r.mx /\ 127 * 1 = 127 /\ v[i] * 1 = v[i]
    BY <1>2, <1>3, <1>6
  <2>2. Represents(r.y[i], AtLeast1((r.mx * 1) \div (127 * 1)), v[i] * 1, 1, 3)
    BY <1>2, <1>6
  <2>3. QED BY <1>2, <1>4, <2>1, <2>2
<1>8. QED BY <1>1, <1>5, <1>7 DEF Promised

-----------------------------------------------------------------------------
(* The end of a convolution.                                               *)

(* The lookup tables rise, and fall, all along.                            *)
LEMMA SigmoidRises ==
  \A i \in -128 .. 127 : /\ sigmoid_lut[i] \in 0 .. LutOne
                         /\ LutOne \in Nat \ {0}
BY LutsAreMonotone, ScalesArePositive

LEMMA ClipIn ==
  ASSUME NEW a \in Int
  PROVE  Clip8(a) \in -128 .. 127
BY DEF Clip8

LEMMA SigmoidIn ==
  ASSUME NEW v \in Int
  PROVE  SigmoidAt(v) \in 0 .. LutOne
<1> DEFINE a == (v * 32) \div One
<1>1. a \in Int
  <2>1. v * 32 \in Int /\ One \in Nat \ {0}
    BY ScalesArePositive
  <2>2. QED BY <2>1, FloorOf
<1>2. SigmoidAt(v) = sigmoid_lut[Clip8(a)]
  BY DEF SigmoidAt
<1> HIDE DEF a
<1>3. Clip8(a) \in -128 .. 127
  BY <1>1, ClipIn
<1>4. QED BY <1>2, <1>3, SigmoidRises

LEMMA ConvExact ==
  ASSUME NEW o, o.kernel = "conv", WellFormedCall(o)
  PROVE  Promised(o, Run(o))
<1> DEFINE n == Len(o.acc)
           m == o.m
           b == biased(o)
           t == conv_y(o)
           W == o.ws * o.x_s
           r == requant(b)
<1>1. /\ o.lin \in BOOLEAN /\ m \in Nat \ {0} /\ o.x_s \in Nat \ {0} /\ o.ws \in Nat
      /\ o.acc \in Seq(Int) /\ o.bias \in Seq(Int) /\ n = Len(o.bias) * m
      /\ Run(o) = yolo_conv_finish(o)
  BY DEF WellFormedCall, Run
<1>2. /\ n \in Nat /\ o.acc \in [1 .. n -> Int] /\ DOMAIN o.acc = 1 .. n
      /\ Len(o.bias) \in Nat /\ o.bias \in [1 .. Len(o.bias) -> Int]
      /\ DOMAIN o.bias = 1 .. Len(o.bias)
  BY <1>1, LenProperties
<1>3. One \in Nat \ {0} /\ LutOne \in Nat \ {0} /\ W \in Nat
  BY <1>1, ScalesArePositive
<1>4. b = [i \in 1 .. n |-> o.acc[i] + o.bias[(i - 1) \div m + 1] \div o.x_s]
  BY <1>2 DEF biased
<1> HIDE DEF b
<1>5. ASSUME NEW i \in 1 .. n
      PROVE  /\ (i - 1) \div m + 1 \in DOMAIN o.bias
             /\ o.bias[(i - 1) \div m + 1] \div o.x_s \in Int /\ o.acc[i] \in Int
  <2> DEFINE q == (i - 1) \div m
             L == Len(o.bias)
  <2>1. i - 1 \in Nat /\ i - 1 < L * m /\ L \in Nat
    BY <1>1, <1>2
  <2>2. q \in 0 .. L - 1
    <3> DEFINE x == i - 1
    <3>1. x \in Nat /\ x < L * m
      BY <2>1
    <3> HIDE DEF x, L, m
    <3>2. x \div m \in 0 .. L - 1
      BY <1>1, <2>1, <3>1, DigitBelow
    <3>3. QED BY <3>2 DEF x
  <2> HIDE DEF q
  <2>3. q + 1 \in DOMAIN o.bias
    BY <1>2, <2>2
  <2> DEFINE c == o.bias[q + 1]
             d == o.x_s
  <2>4. c \in Int /\ d \in Nat \ {0}
    BY <1>1, <1>2, <2>3
  <2> HIDE DEF c, d
  <2>5. c \div d \in Int
    BY <2>4, FloorOf
  <2>6. QED BY <1>2, <2>3, <2>5 DEF c, d, q
<1>6. b \in [1 .. n -> Int]
  <2>1. ASSUME NEW i \in 1 .. n
        PROVE  o.acc[i] + o.bias[(i - 1) \div m + 1] \div o.x_s \in Int
    BY <1>5
  <2>2. QED BY <1>4, <2>1
<1>7. ASSUME NEW oc \in DOMAIN o.bias, NEW k \in 1 .. m
      PROVE  LET i == (oc - 1) * m + k
                 real == o.acc[i] * o.x_s + o.bias[oc]
             IN  b[i] * o.x_s <= real /\ real < (b[i] + 1) * o.x_s
  <2> DEFINE i == (oc - 1) * m + k
             x == oc - 1
             y == k - 1
             L == Len(o.bias)
  <2>1. x \in 0 .. L - 1 /\ y \in 0 .. m - 1 /\ L \in Nat /\ m \in Nat \ {0}
    BY <1>1, <1>2
  <2>2. x * m + y \in 0 .. n - 1
    <3>1. L * m = n
      BY <1>1
    <3> HIDE DEF x, y, L, m, n
    <3>2. x * m + y \in 0 .. L * m - 1
      BY <2>1, TwoDigits
    <3>3. QED BY <3>1, <3>2
  <2>3. (x * m + y) \div m = x
    <3> HIDE DEF x, y, L, m
    <3>1. QED BY <2>1, Digits
  <2>4. i \in 1 .. n /\ i - 1 = x * m + y
    <3> DEFINE p == x * m
    <3>1. i = p + k /\ y = k - 1
      OBVIOUS
    <3>2. p \in Nat
      BY <2>1
    <3>3. p + y \in 0 .. n - 1
      BY <2>2
    <3> HIDE DEF p, i, n, y
    <3>4. i \in 1 .. n /\ i - 1 = p + y
      BY <1>2, <3>1, <3>2, <3>3
    <3>5. QED BY <3>4 DEF p
  <2>5. (i - 1) \div m + 1 = oc
    <3> HIDE DEF i, m
    <3>1. (i - 1) \div m = x
      BY <2>3, <2>4
    <3>2. oc \in Int
      BY <1>2
    <3>3. QED BY <3>1, <3>2
  <2> HIDE DEF i, x, y
  <2> DEFINE a == o.acc[i]
             c == o.bias[oc]
             d == o.x_s
             f == c \div d
  <2>6. a \in Int /\ c \in Int /\ d \in Nat \ {0}
    BY <1>1, <1>2, <2>4
  <2>7. b[i] = a + f
    <3>1. b[i] = a + o.bias[(i - 1) \div m + 1] \div o.x_s
      BY <1>4, <2>4
    <3>2. QED BY <3>1, <2>5
  <2> HIDE DEF a, c, d
  <2>8. f \in Int /\ f * d <= c /\ c < f * d + d
    BY <2>6, FloorOf
  <2> HIDE DEF f
  <2>9. (a + f) * d = a * d + f * d /\ (a + f + 1) * d = a * d + f * d + d
    BY <2>6, <2>8
  <2>10. a * d \in Int /\ f * d \in Int
    BY <2>6, <2>8
  <2>11. (a + f) * d <= a * d + c /\ a * d + c < (a + f + 1) * d
    BY <2>6, <2>8, <2>9, <2>10
  <2>12. QED BY <2>7, <2>11 DEF a, c, d, i
<1>8. /\ r.mx = absmax64(b) /\ r.mx \in Nat \ {0} /\ r.y \in [1 .. n -> Int8]
      /\ \A i \in 1 .. n :
           /\ RoundsDown(b[i], r.mx, r.y[i])
           /\ Represents(r.y[i], AtLeast1((r.mx * W) \div (127 * One)), b[i] * W, One, 3)
  <2> HIDE DEF n, W
  <2>1. QED BY <1>2, <1>3, <1>6, RequantAs
<1>9. t.y = r.y /\ t.s = AtLeast1((r.mx * W) \div (127 * One)) /\ t.s \in Nat \ {0}
  <2> DEFINE mx == r.mx
  <2>1. mx * o.ws * o.x_s = mx * W /\ mx * W \in Nat
    <3>1. mx \in Nat
      BY <1>8
    <3> HIDE DEF mx
    <3>2. QED BY <1>1, <3>1
  <2>2. t.y = r.y /\ t.s = AtLeast1((mx * o.ws * o.x_s) \div (127 * One))
    BY DEF conv_y, b
  <2> DEFINE p == mx * W
  <2>3. AtLeast1(p \div (127 * One)) \in Nat \ {0}
    <3>1. p \in Nat
      BY <2>1
    <3> HIDE DEF p
    <3>2. p \div (127 * One) \in Nat
      BY <1>3, <3>1
    <3>3. QED BY <3>2 DEF AtLeast1
  <2>4. QED BY <2>1, <2>2, <2>3
<1> HIDE DEF r, t
<1>10. \A i \in DOMAIN b :
         /\ RoundsDown(b[i], absmax64(b), t.y[i])
         /\ Represents(t.y[i], t.s, b[i] * o.ws * o.x_s, One, 3)
  <2>1. ASSUME NEW i \in 1 .. n PROVE b[i] * W = b[i] * o.ws * o.x_s
    <3>1. b[i] \in Int
      BY <1>6
    <3>2. QED BY <1>1, <3>1
  <2>2. DOMAIN b = 1 .. n
    BY <1>6
  <2> HIDE DEF W
  <2>3. QED BY <1>8, <1>9, <2>1, <2>2
<1>11. o.lin => Run(o) = t
  BY <1>1 DEF yolo_conv_finish, t
<1>12. ASSUME ~o.lin
       PROVE  \A i \in DOMAIN b :
                Represents(Run(o).y[i], Run(o).s, t.y[i] * SigmoidAt(t.y[i] * t.s) * t.s, LutOne, 3)
  <2> DEFINE u == [i \in DOMAIN t.y |-> t.y[i] * SigmoidAt(t.y[i] * t.s)]
             g == requant(u)
  <2>1. DOMAIN t.y = 1 .. n /\ \A i \in 1 .. n : t.y[i] \in Int8
    BY <1>8, <1>9
  <2>2. Run(o).y = g.y /\ Run(o).s = AtLeast1((g.mx * t.s) \div (127 * LutOne))
    BY <1>1, <1>12 DEF yolo_conv_finish, t
  <2>3. u \in [1 .. n -> Int]
    <3>1. ASSUME NEW i \in 1 .. n PROVE t.y[i] * SigmoidAt(t.y[i] * t.s) \in Int
      <4> DEFINE y == t.y[i]
                 s == t.s
      <4>1. y \in Int /\ s \in Nat
        BY <2>1, <1>9, InInt8
      <4> HIDE DEF y, s
      <4>2. y * s \in Int
        BY <4>1
      <4>3. SigmoidAt(y * s) \in Int
        BY <4>2, SigmoidIn, SigmoidRises
      <4>4. y * SigmoidAt(y * s) \in Int
        BY <4>1, <4>3
      <4>5. QED BY <4>4 DEF y, s
    <3>2. QED BY <2>1, <3>1
  <2>4. \A i \in 1 .. n : u[i] = t.y[i] * SigmoidAt(t.y[i] * t.s)
    BY <2>1
  <2> HIDE DEF u
  <2>5. \A i \in 1 .. n :
          Represents(g.y[i], AtLeast1((g.mx * t.s) \div (127 * LutOne)), u[i] * t.s, LutOne, 3)
    <3> DEFINE s == t.s
    <3>1. s \in Nat
      BY <1>9
    <3> HIDE DEF s, n
    <3>2. \A i \in 1 .. n :
            Represents(g.y[i], AtLeast1((g.mx * s) \div (127 * LutOne)), u[i] * s, LutOne, 3)
      BY <1>2, <1>3, <2>3, <3>1, RequantAs
    <3>3. QED BY <3>2 DEF s
  <2> HIDE DEF g
  <2>6. DOMAIN b = 1 .. n
    BY <1>6
  <2>7. QED BY <2>2, <2>4, <2>5, <2>6
<1>13. QED BY <1>7, <1>10, <1>11, <1>12 DEF Promised, b, t

-----------------------------------------------------------------------------
(* The square root and the norm.                                           *)

(* 129 squared is above the largest mean.                                  *)
RootBound == 128

LEMMA RootFacts ==
  ASSUME NEW x \in Nat, x <= LargestMean
  PROVE  /\ RootOf(x) \in Nat /\ RootOf(x) <= 128 /\ RootOf(x) * RootOf(x) <= x
         /\ x < (RootOf(x) + 1) * (RootOf(x) + 1)
         /\ x > 0 => RootOf(x) > 0
<1> DEFINE m == RootBound
           S == {r \in 0 .. m : r * r <= x}
           R == Max(S)
<1>1. RootOf(x) = R /\ m \in Nat /\ m = 128
  BY DEF RootOf, RootBound
<1> HIDE DEF m
<1>2. S \subseteq Int /\ 0 \in S /\ \A r \in S : r <= m
  BY <1>1
<1>3. R \in S /\ \A r \in S : r <= R
  <2> HIDE DEF S
  <2>1. m \in Int /\ S # {}
    BY <1>1, <1>2
  <2>2. QED BY <1>2, <2>1, GreatestOf
<1> DEFINE T == R + 1
<1>4. R \in Nat /\ R <= m /\ R * R <= x /\ T \notin S /\ (x > 0 => R >= 1)
  <2>1. x > 0 => 1 \in S
    BY <1>1
  <2>2. R \in Nat /\ R <= m /\ R * R <= x
    BY <1>1, <1>3
  <2> HIDE DEF S, R
  <2>3. T \notin S
    BY <1>3, <2>2
  <2>4. x > 0 => R >= 1
    BY <1>3, <2>1, <2>2
  <2>5. QED BY <2>2, <2>3, <2>4
<1>5. x < T * T
  <2> HIDE DEF R
  <2>1. CASE R = m
    <3>1. T = 129 /\ 129 * 129 = 16641
      BY <1>1, <2>1
    <3>2. T * T = 16641
      BY <3>1
    <3>3. QED BY <3>2 DEF LargestMean
  <2>2. CASE R # m
    <3>1. T \in 0 .. m
      BY <1>1, <1>4, <2>2
    <3> HIDE DEF T
    <3>2. ~(T * T <= x)
      BY <1>4, <3>1
    <3>3. T * T \in Int
      BY <1>1, <3>1
    <3>4. QED BY <3>2, <3>3
  <2>3. QED BY <2>1, <2>2
<1> HIDE DEF S, R
<1>6. QED BY <1>1, <1>4, <1>5 DEF T

(* One round of isqrt_u32.                                                 *)
Newton(x, r) == LET nr == (r + x \div r) \div 2 IN IF nr >= r THEN r ELSE nr

LEMMA NewtonFacts ==
  ASSUME NEW x \in Nat, NEW R \in Nat \ {0}, R * R <= x, x < (R + 1) * (R + 1),
         NEW r \in Nat, r >= R
  PROVE  Newton(x, r) \in Nat /\ Newton(x, r) >= R /\ 2 * (Newton(x, r) - R) <= r - R
<1> DEFINE d == x \div r
<1>1. d \in Nat /\ d * r <= x /\ x < d * r + r /\ r \in Nat \ {0}
  OBVIOUS
<1> HIDE DEF d
<1>2. d * r \in Nat
  BY <1>1
<1>3. r + d >= 2 * R
  <2>1. SUFFICES ASSUME r + d < 2 * R PROVE FALSE
    BY <1>1
  <2> DEFINE e == 2 * R - r - d - 1
             k == r - R
  <2>2. e \in Nat /\ k \in Nat /\ d = R - k - 1 - e /\ r = R + k
    BY <1>1, <2>1
  <2> HIDE DEF e, k
  <2>3. d * r + r = (R - k - e) * (R + k)
    BY <2>2
  <2>4. (R - k - e) * (R + k) = R * R - k * k - e * (R + k)
    BY <2>2
  <2>5. k * k \in Nat /\ e * (R + k) \in Nat /\ R * R \in Nat
    BY <2>2
  <2>6. QED BY <1>1, <1>2, <2>3, <2>4, <2>5
<1>4. r > R => d <= R
  <2>1. SUFFICES ASSUME r > R, d > R PROVE FALSE
    BY <1>1
  <2> DEFINE i == r - R - 1
             j == d - R - 1
             T == R + 1
  <2>2. i \in Nat /\ j \in Nat /\ T \in Nat /\ r = T + i /\ d = T + j
    BY <1>1, <2>1
  <2> HIDE DEF i, j
  <2>3. x < T * T
    OBVIOUS
  <2> HIDE DEF T
  <2>4. d * r = T * T + T * i + j * T + j * i
    BY <2>2
  <2>5. T * i \in Nat /\ j * T \in Nat /\ j * i \in Nat /\ T * T \in Nat
    BY <2>2
  <2>6. QED BY <1>1, <2>3, <2>4, <2>5
<1> DEFINE nr == (r + d) \div 2
<1>5. nr \in Nat /\ 2 * nr <= r + d /\ r + d <= 2 * nr + 1
  BY <1>1
<1>6. Newton(x, r) = IF nr >= r THEN r ELSE nr
  BY DEF Newton, d
<1> HIDE DEF nr
<1>7. CASE r = R
  BY <1>1, <1>3, <1>5, <1>6, <1>7
<1>8. CASE r > R
  BY <1>1, <1>3, <1>4, <1>5, <1>6, <1>8
<1>9. QED BY <1>7, <1>8

Rounds == 20

NewtonRec(f, x) ==
  f = [s \in SUBSET (1 .. Rounds) |-> IF s = {} THEN x ELSE Newton(x, f[s \ {Max(s)}])]

LEMMA NewtonEquation ==
  ASSUME NEW x, ~(x <= 1), NEW g, NewtonRec(g, x)
  PROVE  \E f : NewtonRec(f, x) /\ isqrt_u32(x) = f[1 .. Rounds]
<1>1. DOMAIN [k \in 1 .. 20 |-> k] = 1 .. 20
  OBVIOUS
<1>2. QED BY <1>1, Zenon DEF isqrt_u32, FoldLeft, MapThenFoldSet, NewtonRec, Newton, Rounds

(* Each round at least halves the distance, and 20 rounds are enough.      *)
LEMMA IsqrtIsRoot ==
  ASSUME NEW x \in Nat, x <= LargestMean
  PROVE  isqrt_u32(x) = RootOf(x)
<1> DEFINE R == RootOf(x)
<1>1. R \in Nat /\ R * R <= x /\ x < (R + 1) * (R + 1) /\ (x > 0 => R > 0)
  BY RootFacts
<1> HIDE DEF R
<1>2. CASE x <= 1
  <2>1. x <= 1
    BY <1>2
  <2>2. isqrt_u32(x) = x
    BY <2>1, Zenon DEF isqrt_u32
  <2>3. CASE x = 0
    <3>1. R = 0
      BY <1>1, <2>3
    <3>2. QED BY <2>2, <2>3, <3>1 DEF R
  <2>4. CASE x = 1
    <3>1. R = 1
      <4>1. ~(R > 1)
        <5>1. ASSUME R > 1 PROVE FALSE
          <6> DEFINE k == R - 2
          <6>1. k \in Nat /\ R = k + 2
            BY <1>1, <5>1
          <6> HIDE DEF k
          <6>2. R * R = k * k + 4 * k + 4 /\ k * k \in Nat
            BY <6>1
          <6>3. QED BY <1>1, <2>4, <6>1, <6>2
        <5>2. QED BY <5>1
      <4>2. QED BY <1>1, <2>4, <4>1
    <3>2. QED BY <2>2, <2>4, <3>1 DEF R
  <2>5. QED BY <1>2, <2>3, <2>4
<1>3. CASE ~(x <= 1)
  <2> DEFINE S == {r \in Nat : r >= R}
             F == [p \in S \X (1 .. Rounds) |-> Newton(x, p[1])]
  <2>0. Rounds \in Nat
    BY DEF Rounds
  <2>1. R \in Nat \ {0} /\ x \in Nat
    BY <1>1, <1>3
  <2>2. \A r \in S : Newton(x, r) \in S /\ 2 * (Newton(x, r) - R) <= r - R
    <3>1. ASSUME NEW r \in S
          PROVE  Newton(x, r) \in Nat /\ Newton(x, r) >= R /\ 2 * (Newton(x, r) - R) <= r - R
      <4>1. r \in Nat /\ r >= R
        OBVIOUS
      <4>2. QED BY <1>1, <2>1, <4>1, NewtonFacts
    <3>2. QED BY <3>1
  <2>3. x \in S
    <3> DEFINE k == R - 1
    <3>1. k \in Nat /\ R = k + 1
      BY <2>1
    <3> HIDE DEF k
    <3>2. R * R = k * k + k + R /\ k * k \in Nat
      BY <3>1
    <3>3. R <= x
      BY <1>1, <2>1, <3>1, <3>2
    <3>4. QED BY <2>1, <3>3
  <2> HIDE DEF S
  <2>4. F \in [S \X (1 .. Rounds) -> S]
    BY <2>2
  <2>5. PICK h : Folds(h, Rounds, S, x, F)
    <3> HIDE DEF F
    <3>1. QED BY <2>0, <2>3, <2>4, FoldExists
  <2>6. ASSUME NEW s \in SUBSET (1 .. Rounds), s # {}
        PROVE  s \ {Max(s)} \in SUBSET (1 .. Rounds) /\ Max(s) \in 1 .. Rounds
    BY <2>0, <2>6, MaxOf
  <2>7. NewtonRec(h, x)
    <3>1. ASSUME NEW s \in SUBSET (1 .. Rounds), s # {}
          PROVE  F[<<h[s \ {Max(s)}], Max(s)>>] = Newton(x, h[s \ {Max(s)}])
      <4>1. h[s \ {Max(s)}] \in S /\ Max(s) \in 1 .. Rounds
        BY <2>5, <2>6, <3>1 DEF Folds
      <4>2. QED BY <4>1
    <3> HIDE DEF F
    <3>2. h \in [SUBSET (1 .. Rounds) -> S]
      BY <2>5 DEF Folds
    <3>3. ASSUME NEW s \in SUBSET (1 .. Rounds)
          PROVE  h[s] = IF s = {} THEN x ELSE Newton(x, h[s \ {Max(s)}])
      BY <2>5, <3>1 DEF Folds
    <3>4. QED BY <3>2, <3>3 DEF NewtonRec
  <2>8. PICK f : NewtonRec(f, x) /\ isqrt_u32(x) = f[1 .. Rounds]
    BY <1>3, <2>7, NewtonEquation
  <2>9. ASSUME NEW s \in SUBSET (1 .. Rounds)
        PROVE  f[s] = IF s = {} THEN x ELSE Newton(x, f[s \ {Max(s)}])
    BY <2>8 DEF NewtonRec
  <2>10. \A s \in SUBSET (1 .. Rounds) : f[s] \in S
    <3>1. f[{}] \in S
      <4>1. {} \in SUBSET (1 .. Rounds)
        OBVIOUS
      <4>2. QED BY <2>3, <2>9, <4>1
    <3>2. ASSUME NEW s \in SUBSET (1 .. Rounds), s # {}, f[s \ {Max(s)}] \in S PROVE f[s] \in S
      BY <2>2, <2>9, <3>2
    <3>3. QED BY <2>0, <3>1, <3>2, FoldStays
  <2> DEFINE e == [k \in 0 .. Rounds |-> f[1 .. k] - R]
  <2>11. e \in [0 .. Rounds -> Nat] /\ e[0] <= LargestMean /\ e[Rounds] = isqrt_u32(x) - R
    <3>1. ASSUME NEW k \in 0 .. Rounds PROVE f[1 .. k] \in Nat /\ f[1 .. k] >= R
      <4>1. 1 .. k \in SUBSET (1 .. Rounds)
        BY <2>0
      <4>2. f[1 .. k] \in S
        BY <2>10, <4>1
      <4>3. QED BY <4>2 DEF S
    <3>2. f[1 .. 0] = x
      <4>1. 1 .. 0 = {} /\ {} \in SUBSET (1 .. Rounds)
        OBVIOUS
      <4>2. QED BY <2>9, <4>1
    <3>3. \A k \in 0 .. Rounds : f[1 .. k] - R \in Nat
      BY <2>1, <3>1
    <3>4. e[0] = x - R /\ e[Rounds] = f[1 .. Rounds] - R
      BY <2>0, <3>2
    <3>5. e \in [0 .. Rounds -> Nat]
      BY <3>3
    <3>6. x - R <= LargestMean
      BY <2>1 DEF LargestMean
    <3> HIDE DEF e
    <3>7. QED BY <2>8, <3>4, <3>5, <3>6
  <2>12. ASSUME NEW k \in 1 .. Rounds PROVE 2 * e[k] <= e[k - 1]
    <3>1. /\ 1 .. k \in SUBSET (1 .. Rounds) /\ 1 .. k # {}
          /\ Max(1 .. k) = k /\ (1 .. k) \ {k} = 1 .. k - 1
      <4>1. QED BY <2>0, PrefixOf
    <3>2. f[1 .. k] = Newton(x, f[1 .. k - 1])
      BY <2>9, <3>1
    <3>3. f[1 .. k - 1] \in S
      <4>1. 1 .. k - 1 \in SUBSET (1 .. Rounds)
        BY <2>0
      <4>2. QED BY <2>10, <4>1
    <3>4. 2 * (f[1 .. k] - R) <= f[1 .. k - 1] - R
      BY <2>2, <3>2, <3>3
    <3>5. k \in 0 .. Rounds /\ k - 1 \in 0 .. Rounds
      BY <2>0
    <3>6. QED BY <3>4, <3>5
  <2> HIDE DEF e
  <2>13. ASSUME NEW k \in 4 .. Rounds PROVE 16 * e[k] <= e[k - 4]
    <3> DEFINE b == k - 1
               c == k - 2
               d == k - 3
    <3>1. /\ k \in 1 .. Rounds /\ b \in 1 .. Rounds /\ c \in 1 .. Rounds /\ d \in 1 .. Rounds
          /\ b - 1 = c /\ c - 1 = d /\ d - 1 = k - 4 /\ k - 4 \in 0 .. Rounds
      BY <2>0
    <3>2. 2 * e[k] <= e[b] /\ 2 * e[b] <= e[c] /\ 2 * e[c] <= e[d] /\ 2 * e[d] <= e[k - 4]
      <4> HIDE DEF b, c, d
      <4>1. 2 * e[b] <= e[b - 1] /\ 2 * e[c] <= e[c - 1] /\ 2 * e[d] <= e[d - 1]
        BY <2>12, <3>1
      <4>2. 2 * e[k] <= e[k - 1] /\ k - 1 = b
        BY <2>12, <3>1 DEF b
      <4>3. QED BY <3>1, <4>1, <4>2
    <3>3. {e[k], e[b], e[c], e[d], e[k - 4]} \subseteq Nat
      <4> HIDE DEF b, c, d
      <4>1. b \in 0 .. Rounds /\ c \in 0 .. Rounds /\ d \in 0 .. Rounds /\ k \in 0 .. Rounds
        BY <3>1
      <4>2. QED BY <2>11, <3>1, <4>1
    <3> HIDE DEF b, c, d
    <3>4. QED BY <3>2, <3>3
  <2>14. e[Rounds] = 0
    <3>1. 16 * e[20] <= e[16] /\ 16 * e[16] <= e[12] /\ 16 * e[12] <= e[8]
      BY <2>13 DEF Rounds
    <3>2. 16 * e[8] <= e[4] /\ 16 * e[4] <= e[0]
      BY <2>13 DEF Rounds
    <3>3. {e[0], e[4], e[8], e[12], e[16], e[20]} \subseteq Nat
      BY <2>11 DEF Rounds
    <3>4. e[20] = 0
      <4> DEFINE a0 == e[0]
                 a4 == e[4]
                 a8 == e[8]
                 a12 == e[12]
                 a16 == e[16]
                 a20 == e[20]
      <4>1. /\ {a0, a4, a8, a12, a16, a20} \subseteq Nat
            /\ 16 * a20 <= a16 /\ 16 * a16 <= a12 /\ 16 * a12 <= a8 /\ 16 * a8 <= a4
            /\ 16 * a4 <= a0 /\ a0 <= LargestMean
        BY <2>11, <3>1, <3>2, <3>3
      <4> HIDE DEF a0, a4, a8, a12, a16, a20
      <4>2. 256 * a12 <= a4 /\ 256 * a4 <= 16 * a0
        BY <4>1
      <4>3. a0 <= 64 * 256
        BY <4>1 DEF LargestMean
      <4>4. a4 <= 4 * 256
        BY <4>1, <4>2, <4>3
      <4>5. QED BY <4>1, <4>2, <4>4 DEF a20
    <3>5. QED BY <3>4 DEF Rounds
  <2>15. isqrt_u32(x) = R
    <3>1. isqrt_u32(x) \in Int
      <4>1. 1 .. Rounds \in SUBSET (1 .. Rounds)
        OBVIOUS
      <4>2. f[1 .. Rounds] \in S
        BY <2>10, <4>1
      <4>3. QED BY <2>8, <4>2 DEF S
    <3>2. QED BY <2>1, <2>11, <2>14, <3>1
  <2>16. QED BY <2>15 DEF R
<1>4. QED BY <1>2, <1>3

LEMMA IsqrtExact ==
  ASSUME NEW o, o.kernel = "isqrt", WellFormedCall(o)
  PROVE  Promised(o, Run(o))
<1>1. o.range \subseteq 0 .. LargestMean /\ Run(o) = [x \in o.range |-> isqrt_u32(x)]
  BY DEF WellFormedCall, Run
<1>2. ASSUME NEW x \in o.range PROVE isqrt_u32(x) = RootOf(x)
  <2>1. LargestMean \in Nat
    BY DEF LargestMean
  <2>2. x \in Nat /\ x <= LargestMean
    BY <1>1, <2>1
  <2>3. QED BY <2>2, IsqrtIsRoot
<1>3. \A x \in o.range : Run(o)[x] = RootOf(x)
  BY <1>1, <1>2
<1>4. QED BY <1>3 DEF Promised

LEMMA StandsAfterQuot ==
  ASSUME NEW q \in Int, NEW s \in Nat, NEW N \in Int, NEW R \in Nat \ {0},
         Represents(q, s, Quot(N, R), 1, 1)
  PROVE  Represents(q, s, N, R, 3)
<1> DEFINE v == Quot(N, R)
           a == Magnitude(q)
           z == q * s
           d == z - v
           w == v * R
<1>1. v \in Int /\ z \in Int /\ a \in Nat /\ d \in Int /\ w \in Int
  <2>1. v \in Int
    BY QuotOf
  <2> HIDE DEF v
  <2>2. QED BY <2>1, MagnitudeOf
<1>2. -R < w - N /\ w - N < R
  <2>1. /\ N >= 0 => v * R <= N /\ N < v * R + R
        /\ N < 0 => N <= v * R /\ v * R - R < N
    BY QuotOf
  <2> HIDE DEF v
  <2>2. QED BY <1>1, <2>1
<1>3. 2 * Magnitude(d) <= s + 1 + 2 * a
  <2>1. 2 * Magnitude(q * s * 1 - v) <= (1 * (s + 1) + 2 * a) * 1
    BY DEF Represents
  <2> HIDE DEF v, a
  <2>2. q * s * 1 - v = d /\ (1 * (s + 1) + 2 * a) * 1 = s + 1 + 2 * a
    BY <1>1
  <2>3. QED BY <2>1, <2>2
<1> HIDE DEF v, a, z
<1> DEFINE m == Magnitude(d)
           X == z * R - N
<1>4. m \in Nat /\ X = d * R + (w - N) /\ d * R \in Int
  <2>1. z * R = d * R + w
    BY <1>1
  <2>2. QED BY <1>1, <2>1, MagnitudeOf
<1>5. Magnitude(d * R) = m * R
  <2>1. Magnitude(R) = R
    BY DEF Magnitude
  <2> HIDE DEF d
  <2>2. QED BY <1>1, <2>1, MagnitudeTimes
<1>6. (2 * m) * R <= (s + 1 + 2 * a) * R
  <2> HIDE DEF m
  <2>1. QED BY <1>1, <1>3, <1>4, Grows DEF m
<1>7. (2 * m) * R = 2 * (m * R) /\ m * R \in Nat
  <2> HIDE DEF m
  <2>1. QED BY <1>4
<1>8. 2 * Magnitude(X) <= 2 * (m * R) + 2 * R
  <2> DEFINE e == d * R
             f == w - N
             p == m * R
  <2>1. e \in Int /\ f \in Int /\ p \in Nat /\ Magnitude(e) = p /\ -R < f /\ f < R /\ X = e + f
    BY <1>1, <1>2, <1>4, <1>5, <1>7
  <2> HIDE DEF e, f, p, X
  <2>2. 2 * Magnitude(X) <= 2 * p + 2 * R
    BY <2>1 DEF Magnitude
  <2>3. QED BY <2>2 DEF p
<1>9. (s + 1 + 2 * a) * R + 2 * R <= (3 * (s + 1) + 2 * a) * R
  <2>1. (3 * (s + 1) + 2 * a) * R = (s + 1 + 2 * a) * R + 2 * R + 2 * (s * R)
    BY <1>1
  <2>2. s * R \in Nat /\ (s + 1 + 2 * a) * R \in Int
    BY <1>1
  <2>3. QED BY <2>1, <2>2
<1>10. 2 * Magnitude(X) <= (3 * (s + 1) + 2 * a) * R
  <2> DEFINE p == m * R
             b == (s + 1 + 2 * a) * R
             c == (3 * (s + 1) + 2 * a) * R
             g == 2 * R
             y == 2 * Magnitude(X)
  <2>1. y \in Int
    <3>1. X \in Int
      BY <1>1
    <3> HIDE DEF X
    <3>2. QED BY <3>1, MagnitudeOf
  <2>2. p \in Int /\ b \in Int /\ c \in Int /\ g \in Int
    <3> HIDE DEF m
    <3>1. QED BY <1>1, <1>4
  <2>3. y <= 2 * p + g /\ 2 * p <= b /\ b + g <= c
    BY <1>6, <1>7, <1>8, <1>9
  <2> HIDE DEF p, b, c, g, y
  <2>4. y <= c
    BY <2>1, <2>2, <2>3
  <2>5. QED BY <2>4 DEF y, c
<1>11. QED BY <1>10 DEF Represents, X, z, a

LEMMA SquareOf ==
  ASSUME NEW x \in Int8
  PROVE  x * x \in Nat /\ x * x <= LargestMean
<1>1. x \in Int /\ -128 <= x /\ x <= 127
  BY InInt8
<1> DEFINE a == Magnitude(x)
<1>2. a \in Nat /\ a <= 128 /\ x * x = a * a
  BY <1>1 DEF Magnitude
<1> HIDE DEF a
<1>3. a * a <= 128 * a /\ 128 * a <= 128 * 128 /\ a * a \in Nat
  BY <1>2
<1>4. QED BY <1>2, <1>3 DEF LargestMean

LEMMA MeanOf ==
  ASSUME NEW n \in Nat \ {0}, NEW x \in [1 .. n -> Int8], NEW u, u = [i \in 1 .. n |-> x[i] * x[i]]
  PROVE  Total(u) \div n \in Nat /\ Total(u) \div n <= LargestMean
<1> DEFINE z == [i \in 1 .. n |-> 0]
           w == [i \in 1 .. n |-> LargestMean]
           t == Total(u)
<1>1. LargestMean \in Nat
  BY DEF LargestMean
<1>2. \A i \in 1 .. n : u[i] \in Nat /\ u[i] <= LargestMean
  BY SquareOf
<1>3. u \in [1 .. n -> Int] /\ u \in [1 .. n -> Nat]
  BY <1>2
<1>4. t \in Nat
  BY <1>3, TotalHas
<1>5. t <= n * LargestMean
  <2>1. w \in [1 .. n -> Int] /\ \A i \in 1 .. n : w[i] = LargestMean /\ u[i] <= w[i]
    BY <1>1, <1>2
  <2> HIDE DEF w
  <2>2. Total(w) = n * LargestMean
    BY <1>1, <2>1, TotalConstant
  <2>3. t <= Total(w)
    BY <1>3, <2>1, TotalOrder
  <2>4. QED BY <2>2, <2>3
<1> HIDE DEF t
<1>6. t \div n \in 0 .. LargestMean
  <2> DEFINE L == LargestMean
  <2>1. L \in Nat /\ t <= n * L
    BY <1>1, <1>5
  <2> HIDE DEF L
  <2>2. t < (L + 1) * n /\ 0 * n <= t
    <3>1. (L + 1) * n = n * L + n /\ n * L \in Nat
      BY <2>1
    <3>2. QED BY <1>4, <2>1, <3>1
  <2>3. 0 \in Int
    OBVIOUS
  <2>4. t \div n \in 0 .. L
    BY <1>4, <2>1, <2>2, <2>3, FloorWithin
  <2>5. QED BY <2>4 DEF L
<1>7. QED BY <1>1, <1>6 DEF t

LEMMA NormExact ==
  ASSUME NEW o, o.kernel = "rms_norm", WellFormedCall(o)
  PROVE  Promised(o, Run(o))
<1> DEFINE n == Len(o.x)
           u == [i \in DOMAIN o.x |-> o.x[i] * o.x[i]]
           ms == Total(u) \div n
           M == AtLeast1(ms)
           R == RootOf(M)
           N(i) == o.x[i] * o.w[i] * o.w_scale
           v == [i \in 1 .. n |-> Quot(N(i), R)]
           r == Requantised(v)
<1>1. /\ o.x \in Seq(Int8) /\ o.x # << >> /\ o.w \in [DOMAIN o.x -> Int8] /\ o.w_scale \in Nat
      /\ Run(o) = rms_norm(o.x, o.w, o.w_scale)
  BY DEF WellFormedCall, Run, Vectors
<1>2. n \in Nat \ {0} /\ o.x \in [1 .. n -> Int8] /\ DOMAIN o.x = 1 .. n
  BY <1>1, LenProperties, EmptySeq
<1>3. ms \in Nat /\ ms <= LargestMean
  <2>1. u = [i \in 1 .. n |-> o.x[i] * o.x[i]]
    BY <1>2
  <2> HIDE DEF u
  <2>2. QED BY <1>2, <2>1, MeanOf
<1>4. M \in Nat /\ M <= LargestMean /\ M > 0
  <2> HIDE DEF ms
  <2>1. LargestMean >= 1
    BY DEF LargestMean
  <2>2. QED BY <1>3, <2>1 DEF AtLeast1
<1> HIDE DEF M
<1>5. R \in Nat \ {0} /\ isqrt_u32(M) = R /\ AtLeast1(R) = R
  <2>1. R \in Nat /\ R > 0 /\ isqrt_u32(M) = R
    BY <1>4, RootFacts, IsqrtIsRoot
  <2>2. QED BY <2>1 DEF AtLeast1
<1> HIDE DEF R
<1>6. Run(o) = r
  <2>1. AtLeast1(isqrt_u32(AtLeast1(ms))) = R
    BY <1>5 DEF M
  <2>2. rms_norm(o.x, o.w, o.w_scale) = Requantised([i \in DOMAIN o.x |-> Quot(N(i), R)])
    BY <2>1 DEF rms_norm
  <2>3. QED BY <1>1, <1>2, <2>2
<1>7. ASSUME NEW i \in 1 .. n PROVE N(i) \in Int
  <2>1. o.x[i] \in Int /\ o.w[i] \in Int
    BY <1>1, <1>2, InInt8
  <2>2. QED BY <1>1, <2>1
<1>8. v \in [1 .. n -> Int] /\ \A i \in 1 .. n : v[i] = Quot(N(i), R)
  <2>1. \A i \in 1 .. n : Quot(N(i), R) \in Int
    <3> HIDE DEF N
    <3>1. QED BY <1>5, <1>7, QuotOf
  <2>2. QED BY <2>1
<1> HIDE DEF v
<1>9. r.s \in Nat \ {0} /\ \A i \in 1 .. n : r.y[i] \in Int8 /\ Represents(r.y[i], r.s, v[i], 1, 1)
  BY <1>2, <1>8, RequantisedStands
<1> HIDE DEF r
<1>10. ASSUME NEW i \in 1 .. n PROVE Represents(r.y[i], r.s, N(i), R, 3)
  <2> DEFINE q == r.y[i]
             s == r.s
             k == N(i)
  <2>1. q \in Int /\ s \in Nat /\ k \in Int /\ Represents(q, s, Quot(k, R), 1, 1)
    BY <1>7, <1>8, <1>9, InInt8
  <2> HIDE DEF q, s, k
  <2>2. Represents(q, s, k, R, 3)
    BY <1>5, <2>1, StandsAfterQuot
  <2>3. QED BY <2>2 DEF q, s, k
<1>11. Total([i \in DOMAIN o.x |-> o.x[i] * o.x[i]]) \div Len(o.x) = ms
  OBVIOUS
<1>12. QED BY <1>2, <1>6, <1>10, <1>11 DEF Promised, R, M

-----------------------------------------------------------------------------
(* The rotation and the gate.                                              *)

Rotated(q, x) == /\ q = Clip8(q) /\ (128 * q <= x \/ q = -128)
                 /\ (x < 128 * (q + 1) \/ q = 127)

LEMMA RotatedTo ==
  ASSUME NEW x \in Int
  PROVE  Rotated(Clip8(x \div 128), x)
<1> DEFINE f == x \div 128
<1>1. f \in Int /\ 128 * f <= x /\ x < 128 * (f + 1)
  OBVIOUS
<1> HIDE DEF f
<1>2. Rotated(Clip8(f), x)
  BY <1>1 DEF Rotated, Clip8
<1>3. QED BY <1>2 DEF f

LEMMA TurnsAreInt ==
  ASSUME NEW a \in Int8, NEW b \in Int8, NEW c \in Int8, NEW d \in Int8
  PROVE  a * b - c * d \in Int /\ a * b + c * d \in Int
<1>1. a \in Int /\ b \in Int /\ c \in Int /\ d \in Int
  BY InInt8
<1>2. QED BY <1>1

LEMMA RopeExact ==
  ASSUME NEW o, o.kernel = "rope", WellFormedCall(o)
  PROVE  Promised(o, Run(o))
<1> DEFINE n == Len(o.head)
           h == n \div 2
           x == o.head
           c == o.cos
           s == o.sin
           r == rope(x, c, s)
<1>1. /\ x \in Seq(Int8) /\ n % 2 = 0 /\ c \in [1 .. h -> Int8] /\ s \in [1 .. h -> Int8]
      /\ Run(o) = r
  BY DEF WellFormedCall, Run
<1>2. n \in Nat /\ x \in [1 .. n -> Int8] /\ DOMAIN x = 1 .. n
  BY <1>1, LenProperties
<1>3. h \in Nat /\ n = 2 * h
  <2> HIDE DEF n
  <2>1. QED BY <1>1, <1>2
<1>4. ASSUME NEW i \in 1 .. h
      PROVE  /\ i \in 1 .. n /\ i + h \in 1 .. n /\ ~(i + h <= h) /\ i + h - h = i /\ i <= h
             /\ x[i] \in Int8 /\ x[i + h] \in Int8 /\ c[i] \in Int8 /\ s[i] \in Int8
  <2> HIDE DEF h, n, x, c, s
  <2>1. i \in 1 .. n /\ i + h \in 1 .. n /\ ~(i + h <= h) /\ i + h - h = i /\ i <= h
    BY <1>3
  <2>2. QED BY <1>1, <1>2, <2>1
<1>5. r = [i \in 1 .. n |->
             IF i <= h
             THEN Clip8((x[i] * c[i] - x[i + h] * s[i]) \div 128)
             ELSE Clip8((x[i] * c[i - h] + x[i - h] * s[i - h]) \div 128)]
  BY <1>2 DEF rope
<1> HIDE DEF r, h, n, x, c, s
<1>6. ASSUME NEW i \in 1 .. h
      PROVE  /\ Rotated(r[i], x[i] * c[i] - x[i + h] * s[i])
             /\ Rotated(r[i + h], x[i + h] * c[i] + x[i] * s[i])
  <2> DEFINE a == x[i] * c[i] - x[i + h] * s[i]
             b == x[i + h] * c[i] + x[i] * s[i]
  <2>1. a \in Int /\ b \in Int
    BY <1>4, TurnsAreInt
  <2>2. r[i] = Clip8(a \div 128)
    BY <1>4, <1>5
  <2>3. r[i + h] = Clip8(b \div 128)
    <3> DEFINE j == i + h
    <3>1. j \in 1 .. n /\ ~(j <= h) /\ j - h = i
      BY <1>3
    <3>2. b = x[j] * c[i] + x[i] * s[i]
      OBVIOUS
    <3> HIDE DEF j, b
    <3>3. r[j] = Clip8((x[j] * c[j - h] + x[j - h] * s[j - h]) \div 128)
      BY <1>5, <3>1
    <3>4. r[j] = Clip8(b \div 128)
      BY <3>1, <3>2, <3>3
    <3>5. QED BY <3>4 DEF j
  <2> HIDE DEF a, b
  <2>4. Rotated(r[i], a) /\ Rotated(r[i + h], b)
    BY <2>1, <2>2, <2>3, RotatedTo
  <2>5. QED BY <2>4 DEF a, b
<1>7. QED BY <1>1, <1>6 DEF Promised, Rotated, h, n, x, c, s

LEMMA SigmoidEnds ==
  ASSUME NEW v \in Int
  PROVE  /\ v * 32 >= 127 * One => SigmoidAt(v) = LutOne
         /\ v * 32 < (-127) * One => SigmoidAt(v) = 0
<1> DEFINE a == (v * 32) \div One
           b == v * 32
<1>1. b \in Int /\ One \in Nat \ {0}
  BY ScalesArePositive
<1>2. a \in Int /\ a * One <= b /\ b < a * One + One
  <2> HIDE DEF b
  <2>1. b \div One \in Int /\ (b \div One) * One <= b /\ b < (b \div One) * One + One
    BY <1>1, FloorOf
  <2>2. QED BY <2>1 DEF b
<1>3. SigmoidAt(v) = sigmoid_lut[Clip8(a)]
  BY DEF SigmoidAt
<1> HIDE DEF a, b
<1>4. ASSUME b >= 127 * One PROVE Clip8(a) = 127
  <2>1. 127 * One < (a + 1) * One
    <3>1. (a + 1) * One = a * One + One /\ a * One \in Int
      BY <1>1, <1>2
    <3>2. QED BY <1>1, <1>2, <1>4, <3>1
  <2>2. 127 < a + 1
    BY <1>1, <1>2, <2>1, Cancel
  <2>3. QED BY <1>2, <2>2 DEF Clip8
<1>5. ASSUME b < (-127) * One PROVE Clip8(a) = -128
  <2>1. a * One < (-127) * One
    <3>1. a * One \in Int
      BY <1>1, <1>2
    <3>2. QED BY <1>1, <1>2, <1>5, <3>1
  <2>2. a < -127
    BY <1>1, <1>2, <2>1, Cancel
  <2>3. QED BY <1>2, <2>2 DEF Clip8
<1>6. sigmoid_lut[127] = LutOne /\ sigmoid_lut[-128] = 0
  BY LutsAreMonotone
<1>7. QED BY <1>3, <1>4, <1>5, <1>6 DEF b

(* What a gate lets through lies between nothing and everything.           *)
Through(q, G, k, L) ==
  /\ q \in Int
  /\ G >= 0 => 0 <= q /\ q <= G
  /\ G < 0 => G <= q /\ q <= 0
  /\ k = L => q = G
  /\ k = 0 => q = 0

LEMMA Gated ==
  ASSUME NEW G \in Int, NEW k \in Nat, NEW L \in Nat \ {0}, k <= L
  PROVE  Through(Quot(G * k, L), G, k, L)
<1> DEFINE p == G * k
           q == Quot(p, L)
<1>1. /\ p \in Int /\ (G >= 0 => 0 <= p /\ p <= G * L) /\ (G < 0 => p <= 0 /\ G * L <= p)
      /\ G * L \in Int
  <2>1. G * k \in Int /\ G * L \in Int
    OBVIOUS
  <2>2. G >= 0 => G * k <= G * L /\ 0 <= G * k
    OBVIOUS
  <2>3. G < 0 => G * L <= G * k /\ G * k <= 0
    <3> DEFINE H == -G
    <3>1. SUFFICES ASSUME G < 0 PROVE G * L <= G * k /\ G * k <= 0
      OBVIOUS
    <3>2. H \in Nat /\ G * L = -(H * L) /\ G * k = -(H * k)
      BY <3>1
    <3> HIDE DEF H
    <3>3. H * k <= H * L /\ H * k \in Nat /\ H * L \in Nat
      BY <3>2
    <3>4. QED BY <3>2, <3>3
  <2>4. QED BY <2>1, <2>2, <2>3
<1>2. /\ q \in Int
      /\ p >= 0 => q >= 0 /\ q * L <= p /\ p < q * L + L
      /\ p < 0 => q <= 0 /\ p <= q * L /\ q * L - L < p
  <2> HIDE DEF p
  <2>1. QED BY <1>1, QuotOf
<1>3. k = L => p = G * L
  OBVIOUS
<1>4. k = 0 => p = 0
  OBVIOUS
<1> HIDE DEF p, q
<1>5. q * L \in Int /\ (G + 1) * L = G * L + L /\ (G - 1) * L = G * L - L
  BY <1>2
<1>6. G >= 0 => 0 <= q /\ q <= G
  <2>1. SUFFICES ASSUME G >= 0 PROVE 0 <= q /\ q <= G
    OBVIOUS
  <2>2. q >= 0 /\ q * L < (G + 1) * L
    BY <1>1, <1>2, <1>5, <2>1
  <2>3. q < G + 1
    BY <1>2, <2>2, Cancel
  <2>4. QED BY <1>2, <2>2, <2>3
<1>7. G < 0 => G <= q /\ q <= 0
  <2>1. SUFFICES ASSUME G < 0 PROVE G <= q /\ q <= 0
    OBVIOUS
  <2>2. CASE p = 0
    <3>1. q * L < 1 * L
      BY <1>2, <1>5, <2>2
    <3>2. q < 1
      BY <1>2, <3>1, Cancel
    <3>3. QED BY <1>1, <1>2, <2>1, <2>2, <3>2
  <2>3. CASE p < 0
    <3>1. (G - 1) * L < q * L
      BY <1>1, <1>2, <1>5, <2>1, <2>3
    <3>2. G - 1 < q
      BY <1>2, <3>1, Cancel
    <3>3. QED BY <1>2, <2>3, <3>2
  <2>4. QED BY <1>1, <2>1, <2>2, <2>3
<1>8. k = L => q = G
  <2>1. SUFFICES ASSUME k = L PROVE q = G
    OBVIOUS
  <2>2. p = G * L
    BY <1>3, <2>1
  <2>3. CASE G >= 0
    <3>1. G * L < (q + 1) * L
      <4>1. (q + 1) * L = q * L + L
        BY <1>2
      <4>2. QED BY <1>1, <1>2, <1>5, <2>2, <2>3, <4>1
    <3>2. G < q + 1
      BY <1>2, <3>1, Cancel
    <3>3. QED BY <1>2, <1>6, <2>3, <3>2
  <2>4. CASE G < 0
    <3>1. (q - 1) * L < G * L /\ p < 0
      <4>1. (q - 1) * L = q * L - L
        BY <1>2
      <4>2. G * L < 0
        BY <2>4
      <4>3. QED BY <1>1, <1>2, <1>5, <2>2, <4>1, <4>2
    <3>2. q - 1 < G
      BY <1>2, <3>1, Cancel
    <3>3. QED BY <1>2, <1>7, <2>4, <3>2
  <2>5. QED BY <2>3, <2>4
<1>9. k = 0 => q = 0
  <2>1. SUFFICES ASSUME k = 0 PROVE q = 0
    OBVIOUS
  <2>2. q * L < 1 * L /\ q >= 0
    BY <1>1, <1>2, <1>4, <1>5, <2>1
  <2>3. q < 1
    BY <1>2, <2>2, Cancel
  <2>4. QED BY <1>2, <2>2, <2>3
<1>10. QED BY <1>2, <1>6, <1>7, <1>8, <1>9 DEF p, q, Through

LEMMA GateExact ==
  ASSUME NEW o, o.kernel = "swiglu", WellFormedCall(o)
  PROVE  Promised(o, Run(o))
<1> DEFINE G == o.g * o.g_s
           U == o.u * o.u_s
           k == SigmoidAt(G)
           A == Quot(G * k, LutOne)
           full == o.g * o.g_s * o.u * o.u_s
           lo == Min({0, full})
           hi == Max({0, full})
           got == (A * U) \div One
<1>1. /\ o.g \in Int /\ o.u \in Int /\ o.g_s \in Nat /\ o.u_s \in Nat
      /\ Run(o) = swiglu(o.g, o.g_s, o.u, o.u_s)
  BY InInt8 DEF WellFormedCall, Run
<1>2. One \in Nat \ {0} /\ LutOne \in Nat \ {0}
  BY ScalesArePositive
<1>3. G \in Int /\ U \in Int /\ full = G * U
  BY <1>1
<1> HIDE DEF G
<1>4. k \in Nat /\ k <= LutOne
  BY <1>2, <1>3, SigmoidIn
<1>5. /\ A \in Int
      /\ G >= 0 => 0 <= A /\ A <= G
      /\ G < 0 => G <= A /\ A <= 0
      /\ k = LutOne => A = G
      /\ k = 0 => A = 0
  <2> DEFINE L == LutOne
  <2>1. k \in Nat /\ L \in Nat \ {0} /\ k <= L
    BY <1>2, <1>4
  <2> HIDE DEF k, L
  <2>2. Through(Quot(G * k, L), G, k, L)
    BY <1>3, <2>1, Gated
  <2> DEFINE q == Quot(G * k, L)
  <2>3. A = q
    BY DEF L
  <2> HIDE DEF A, q
  <2>4. Through(A, G, k, L)
    BY <2>2, <2>3 DEF q
  <2>5. QED BY <2>4 DEF L, Through
<1>6. Run(o) = got
  <2>1. o.g * o.g_s * SigmoidAt(o.g * o.g_s) = G * k
    BY DEF G
  <2>2. swiglu(o.g, o.g_s, o.u, o.u_s) = (A * o.u * o.u_s) \div One
    BY <2>1 DEF swiglu
  <2> HIDE DEF A
  <2>3. A * o.u * o.u_s = A * U
    BY <1>1, <1>5
  <2>4. QED BY <1>1, <2>2, <2>3
<1>7. /\ G * 32 >= 127 * One => k = LutOne
      /\ G * 32 < (-127) * One => k = 0
  BY <1>3, SigmoidEnds
<1> HIDE DEF k, A, U, full
<1>8. A * U \in Int /\ full \in Int
  BY <1>3, <1>5
<1>9. \/ 0 <= A * U /\ A * U <= full
      \/ full <= A * U /\ A * U <= 0
  <2>1. CASE G >= 0 /\ U >= 0
    <3>1. 0 <= A /\ A <= G
      BY <1>5, <2>1
    <3>2. 0 * U <= A * U /\ A * U <= G * U
      BY <1>3, <1>5, <2>1, <3>1, Grows
    <3>3. QED BY <1>3, <3>2
  <2>2. CASE G < 0 /\ U >= 0
    <3>1. G <= A /\ A <= 0
      BY <1>5, <2>2
    <3>2. G * U <= A * U /\ A * U <= 0 * U
      BY <1>3, <1>5, <2>2, <3>1, Grows
    <3>3. QED BY <1>3, <3>2
  <2>3. CASE U < 0
    <3> DEFINE V == -U
    <3>1. V \in Nat /\ U = -V
      BY <1>3, <2>3
    <3> HIDE DEF V
    <3>2. A * U = -(A * V) /\ G * U = -(G * V) /\ A * V \in Int /\ G * V \in Int
      BY <1>3, <1>5, <3>1
    <3>3. CASE G >= 0
      <4>1. 0 * V <= A * V /\ A * V <= G * V /\ 0 * V = 0
        BY <1>3, <1>5, <3>1, <3>3, Grows
      <4> DEFINE p == A * V
                 q == G * V
      <4>2. p \in Int /\ q \in Int /\ 0 <= p /\ p <= q /\ A * U = -p /\ full = -q
        BY <1>3, <3>2, <4>1
      <4> HIDE DEF p, q
      <4>3. QED BY <4>2
    <3>4. CASE G < 0
      <4>1. G * V <= A * V /\ A * V <= 0 * V /\ 0 * V = 0
        BY <1>3, <1>5, <3>1, <3>4, Grows
      <4> DEFINE p == A * V
                 q == G * V
      <4>2. p \in Int /\ q \in Int /\ q <= p /\ p <= 0 /\ A * U = -p /\ full = -q
        BY <1>3, <3>2, <4>1
      <4> HIDE DEF p, q
      <4>3. QED BY <4>2
    <3>5. QED BY <1>3, <3>3, <3>4
  <2>4. QED BY <1>3, <2>1, <2>2, <2>3
<1>10. got \in lo \div One .. hi \div One
  <2>1. /\ lo \in {0, full} /\ lo <= 0 /\ lo <= full
        /\ hi \in {0, full} /\ 0 <= hi /\ full <= hi
    <3>1. 0 \in Int
      OBVIOUS
    <3>2. QED BY <1>8, <3>1, MinOfTwo, MaxOfTwo
  <2> DEFINE p == A * U
  <2>2. p \in Int /\ lo \in Int /\ hi \in Int /\ lo <= p /\ p <= hi
    BY <1>8, <1>9, <2>1
  <2> HIDE DEF p, lo, hi
  <2>3. lo \div One <= p \div One /\ p \div One <= hi \div One
    BY <1>2, <2>2, FloorsAscend
  <2>4. p \div One \in Int /\ lo \div One \in Int /\ hi \div One \in Int
    BY <1>2, <2>2, FloorOf
  <2>5. p \div One \in lo \div One .. hi \div One
    BY <2>3, <2>4
  <2>6. QED BY <2>5 DEF p
<1>11. G * 32 >= 127 * One => got = full \div One
  BY <1>3, <1>5, <1>7
<1>12. G * 32 < (-127) * One => got = 0
  <2>1. 0 * U = 0 /\ 0 \div One = 0
    BY <1>2, <1>3
  <2>2. QED BY <1>5, <1>7, <2>1
<1>13. -127 * One = (-127) * One
  BY <1>2
<1> HIDE DEF got, lo, hi
<1>14. QED BY <1>6, <1>10, <1>11, <1>12, <1>13 DEF Promised, G, full, lo, hi

-----------------------------------------------------------------------------
(* Two tensors of one scale.                                               *)

Aligned8(x, s, big) == Clip8((x * s + big \div 2) \div big)

LEMMA AlignNear ==
  ASSUME NEW x \in Int8, NEW s \in Nat, NEW big \in Nat \ {0}, s <= big
  PROVE  /\ Aligned8(x, s, big) \in Int8
         /\ 2 * Magnitude(Aligned8(x, s, big) * big - x * s) <= big
         /\ s = big => Aligned8(x, s, big) = x
<1> DEFINE h == big \div 2
           p == x * s
           f == (p + h) \div big
<1>1. x \in Int /\ -128 <= x /\ x <= 127
  BY InInt8
<1>2. h \in Nat /\ 2 * h <= big /\ big <= 2 * h + 1
  OBVIOUS
<1>3. p \in Int /\ (-128) * big <= p /\ p <= 127 * big
  <2>1. p \in Int
    BY <1>1
  <2>2. CASE x >= 0
    <3>1. x * s <= x * big /\ x * big <= 127 * big /\ 0 <= x * s
      BY <1>1, <2>2
    <3> DEFINE a == x * s
               b == x * big
               c == 127 * big
               d == (-128) * big
    <3>2. /\ a \in Int /\ b \in Int /\ c \in Int /\ d \in Int /\ d <= 0
          /\ a <= b /\ b <= c /\ 0 <= a
      BY <1>1, <2>1, <3>1
    <3> HIDE DEF a, b, c, d
    <3>3. a \in Int /\ d <= a /\ a <= c
      BY <3>2
    <3>4. QED BY <3>3 DEF a, c, d
  <2>3. CASE x < 0
    <3> DEFINE y == -x
    <3>1. y \in Nat /\ y <= 128 /\ x * s = -(y * s)
      BY <1>1, <2>3
    <3> HIDE DEF y
    <3>2. y * s <= y * big /\ y * big <= 128 * big /\ 0 <= y * s
      BY <3>1
    <3>3. y * s \in Int /\ y * big \in Int
      BY <3>1
    <3>4. QED BY <3>1, <3>2, <3>3
  <2>4. QED BY <1>1, <2>2, <2>3
<1>4. s = big => p = x * big
  OBVIOUS
<1> HIDE DEF p, h
<1>5. f \in Int /\ f * big <= p + h /\ p + h < f * big + big
  <2> DEFINE a == p + h
  <2>1. a \in Int
    BY <1>2, <1>3
  <2> HIDE DEF a
  <2>2. a \div big \in Int /\ (a \div big) * big <= a /\ a < (a \div big) * big + big
    BY <2>1, FloorOf
  <2>3. QED BY <2>2 DEF a
<1> HIDE DEF f
<1>6. f * big \in Int /\ (f + 1) * big = f * big + big
  BY <1>5
<1>7. -128 <= f /\ f <= 127
  <2>1. (-128) * big < (f + 1) * big
    BY <1>2, <1>3, <1>5, <1>6
  <2>2. f * big < 128 * big
    BY <1>2, <1>3, <1>5, <1>6
  <2>3. -128 < f + 1 /\ f < 128
    BY <1>5, <2>1, <2>2, Cancel
  <2>4. QED BY <1>5, <2>3
<1>8. Aligned8(x, s, big) = f /\ f \in Int8
  BY <1>5, <1>7 DEF Aligned8, Clip8, Int8, f, p, h
<1>9. 2 * Magnitude(f * big - p) <= big
  <2> DEFINE z == f * big
  <2>1. z \in Int /\ z <= p + h /\ p + h < z + big
    BY <1>5, <1>6
  <2> HIDE DEF z
  <2>2. 2 * Magnitude(z - p) <= big
    BY <1>2, <1>3, <2>1 DEF Magnitude
  <2>3. QED BY <2>2 DEF z
<1>10. s = big => f = x
  <2>1. SUFFICES ASSUME s = big PROVE f = x
    OBVIOUS
  <2>2. p = x * big /\ (x + 1) * big = x * big + big /\ x * big \in Int
    BY <1>1, <1>4, <2>1
  <2>3. h < big
    BY <1>2
  <2>4. f * big < (x + 1) * big /\ x * big < (f + 1) * big
    BY <1>2, <1>5, <1>6, <2>2, <2>3
  <2>5. f < x + 1 /\ x < f + 1
    BY <1>1, <1>5, <2>4, Cancel
  <2>6. QED BY <1>1, <1>5, <2>5
<1>11. QED BY <1>8, <1>9, <1>10 DEF p

(* y is the tensor x of scale s, in the scale big.                         *)
Side(y, x, s, big) ==
  /\ y \in Seq(Int8) /\ Len(y) = Len(x)
  /\ \A i \in 1 .. Len(x) : /\ 2 * Magnitude(y[i] * big - x[i] * s) <= big
                            /\ s = big => y[i] = x[i]

LEMMA SideKept ==
  ASSUME NEW x \in Seq(Int8), NEW big \in Nat \ {0}
  PROVE  Side(x, x, big, big)
<1>1. Len(x) \in Nat /\ x \in [1 .. Len(x) -> Int8]
  BY LenProperties
<1>2. ASSUME NEW i \in 1 .. Len(x) PROVE 2 * Magnitude(x[i] * big - x[i] * big) <= big
  <2> DEFINE z == x[i] * big
  <2>1. x[i] \in Int
    BY <1>1, InInt8
  <2>2. z \in Int
    BY <2>1
  <2> HIDE DEF z
  <2>3. 2 * Magnitude(z - z) <= big
    BY <2>2 DEF Magnitude
  <2>4. QED BY <2>3 DEF z
<1>3. QED BY <1>2 DEF Side

LEMMA SideAligned ==
  ASSUME NEW x \in Seq(Int8), NEW big \in Nat \ {0}, NEW s \in Nat, s <= big
  PROVE  Side([i \in DOMAIN x |-> Aligned8(x[i], s, big)], x, s, big)
<1> DEFINE n == Len(x)
           y == [i \in 1 .. n |-> Aligned8(x[i], s, big)]
<1>1. n \in Nat /\ x \in [1 .. n -> Int8] /\ DOMAIN x = 1 .. n
  BY LenProperties
<1>2. \A i \in 1 .. n :
        /\ Aligned8(x[i], s, big) \in Int8
        /\ 2 * Magnitude(Aligned8(x[i], s, big) * big - x[i] * s) <= big
        /\ s = big => Aligned8(x[i], s, big) = x[i]
  BY <1>1, AlignNear
<1>3. y \in [1 .. n -> Int8] /\ \A i \in 1 .. n : y[i] = Aligned8(x[i], s, big)
  BY <1>2
<1>4. y = [i \in DOMAIN x |-> Aligned8(x[i], s, big)]
  BY <1>1
<1> HIDE DEF y
<1>5. y \in Seq(Int8)
  BY <1>1, <1>3, SeqDef
<1>6. Len(y) = n
  BY <1>1, <1>3, <1>5, LenProperties
<1>7. Side(y, x, s, big)
  BY <1>2, <1>3, <1>5, <1>6 DEF Side
<1>8. QED BY <1>4, <1>7

LEMMA Joined ==
  ASSUME NEW a \in Seq(Int8), NEW b \in Seq(Int8)
  PROVE  \A i \in 1 .. Len(a) + Len(b) :
           (a \o b)[i] = IF i <= Len(a) THEN a[i] ELSE b[i - Len(a)]
BY ConcatProperties

LEMMA ConcatExact ==
  ASSUME NEW o, o.kernel = "concat", WellFormedCall(o)
  PROVE  Promised(o, Run(o))
<1> DEFINE big == IF o.a_s >= o.b_s THEN o.a_s ELSE o.b_s
           a == IF o.a_s = big THEN o.a ELSE [i \in DOMAIN o.a |-> Aligned8(o.a[i], o.a_s, big)]
           b == IF o.a_s >= o.b_s THEN [i \in DOMAIN o.b |-> Aligned8(o.b[i], o.b_s, big)] ELSE o.b
           all == o.a \o o.b
           got == Run(o)
           from(i) == IF i <= Len(o.a) THEN o.a_s ELSE o.b_s
<1>1. /\ o.a \in Seq(Int8) /\ o.b \in Seq(Int8) /\ o.a_s \in Nat \ {0} /\ o.b_s \in Nat \ {0}
      /\ got = yolo_concat(o)
  BY DEF WellFormedCall, Run
<1>2. got.y = a \o b /\ got.s = big
  <2>1. yolo_concat(o) = [y |-> a \o b, s |-> big]
    BY Zenon DEF yolo_concat, Aligned8
  <2> HIDE DEF a, b, big, got
  <2>2. QED BY <1>1, <2>1
<1>3. /\ big \in Nat \ {0} /\ o.a_s <= big /\ o.b_s <= big /\ big \in {o.a_s, o.b_s}
      /\ (~(o.a_s >= o.b_s) => o.b_s = big)
  BY <1>1
<1>4. big = Max({o.a_s, o.b_s})
  <2>1. o.a_s \in Int /\ o.b_s \in Int
    BY <1>1
  <2> DEFINE p == o.a_s
             q == o.b_s
  <2>2. p \in Int /\ q \in Int /\ p <= big /\ q <= big /\ big \in {p, q}
    BY <1>3, <2>1
  <2> HIDE DEF p, q, big
  <2>3. Max({p, q}) \in {p, q} /\ p <= Max({p, q}) /\ q <= Max({p, q})
    BY <2>2, MaxOfTwo
  <2>4. big = Max({p, q})
    BY <2>2, <2>3
  <2>5. QED BY <2>4 DEF p, q
<1>5. Side(a, o.a, o.a_s, big)
  <2>1. CASE o.a_s = big
    <3>1. Side(o.a, o.a, big, big)
      <4> HIDE DEF big
      <4>1. QED BY <1>1, <1>3, SideKept
    <3>2. QED BY <2>1, <3>1
  <2>2. CASE o.a_s # big
    <3> DEFINE s == o.a_s
               y == [i \in DOMAIN o.a |-> Aligned8(o.a[i], s, big)]
    <3>1. a = y
      BY <2>2
    <3>2. s \in Nat /\ s <= big
      BY <1>1, <1>3
    <3> HIDE DEF s, big, a
    <3>3. Side(y, o.a, s, big)
      BY <1>1, <1>3, <3>2, SideAligned
    <3>4. QED BY <3>1, <3>3 DEF s
  <2>3. QED BY <2>1, <2>2
<1>6. Side(b, o.b, o.b_s, big)
  <2>1. CASE o.a_s >= o.b_s
    <3> DEFINE s == o.b_s
               y == [i \in DOMAIN o.b |-> Aligned8(o.b[i], s, big)]
    <3>1. b = y
      BY <2>1
    <3>2. s \in Nat /\ s <= big
      BY <1>1, <1>3
    <3> HIDE DEF s, big, b
    <3>3. Side(y, o.b, s, big)
      BY <1>1, <1>3, <3>2, SideAligned
    <3>4. QED BY <3>1, <3>3 DEF s
  <2>2. CASE ~(o.a_s >= o.b_s)
    <3>1. b = o.b /\ o.b_s = big
      BY <1>3, <2>2
    <3> HIDE DEF b, big
    <3>2. Side(o.b, o.b, big, big)
      BY <1>1, <1>3, SideKept
    <3>3. QED BY <3>1, <3>2
  <2>3. QED BY <2>1, <2>2
<1> HIDE DEF a, b, big, got
<1> DEFINE A == Len(o.a)
           B == Len(o.b)
<1>7. A \in Nat /\ B \in Nat
  BY <1>1, LenProperties
<1>8. /\ all \in Seq(Int8) /\ Len(all) = A + B
      /\ \A i \in 1 .. A + B : all[i] = IF i <= A THEN o.a[i] ELSE o.b[i - A]
  BY <1>1, ConcatProperties
<1>9. \A i \in 1 .. A + B : (a \o b)[i] = IF i <= A THEN a[i] ELSE b[i - A]
  <2>1. a \in Seq(Int8) /\ b \in Seq(Int8) /\ Len(a) = A /\ Len(b) = B
    BY <1>5, <1>6 DEF Side
  <2>2. \A i \in 1 .. Len(a) + Len(b) :
          (a \o b)[i] = IF i <= Len(a) THEN a[i] ELSE b[i - Len(a)]
    BY <2>1, Joined
  <2>3. QED BY <2>1, <2>2
<1>10. DOMAIN all = 1 .. A + B
  BY <1>8, LenProperties
<1>11. ASSUME NEW i \in 1 .. A + B
       PROVE  /\ 2 * Magnitude(got.y[i] * got.s - all[i] * from(i)) <= got.s
              /\ from(i) = got.s => got.y[i] = all[i]
  <2>1. CASE i <= A
    <3>1. i \in 1 .. A
      BY <1>7, <2>1
    <3>2. got.y[i] = a[i] /\ all[i] = o.a[i] /\ from(i) = o.a_s
      BY <1>2, <1>8, <1>9, <2>1
    <3>3. 2 * Magnitude(a[i] * big - o.a[i] * o.a_s) <= big /\ (o.a_s = big => a[i] = o.a[i])
      BY <1>5, <3>1 DEF Side
    <3>4. QED BY <1>2, <3>2, <3>3
  <2>2. CASE ~(i <= A)
    <3> DEFINE j == i - A
    <3>1. j \in 1 .. B
      <4> HIDE DEF A, B
      <4>1. QED BY <1>7, <2>2
    <3>2. got.y[i] = b[j] /\ all[i] = o.b[j] /\ from(i) = o.b_s
      BY <1>2, <1>8, <1>9, <2>2
    <3> HIDE DEF j
    <3>3. 2 * Magnitude(b[j] * big - o.b[j] * o.b_s) <= big /\ (o.b_s = big => b[j] = o.b[j])
      BY <1>6, <3>1 DEF Side
    <3>4. QED BY <1>2, <3>2, <3>3
  <2>3. QED BY <2>1, <2>2
<1> HIDE DEF all
<1>12. QED BY <1>2, <1>4, <1>10, <1>11 DEF Promised, got, all

-----------------------------------------------------------------------------
(* Weights and their shares.                                               *)

LEMMA GreatestAmong ==
  ASSUME NEW n \in Nat \ {0}, NEW v \in [1 .. n -> Int]
  PROVE  LET M == Max({v[i] : i \in DOMAIN v})
         IN  M \in Int /\ (\E i \in 1 .. n : M = v[i]) /\ \A i \in 1 .. n : v[i] <= M
<1> DEFINE S == {v[i] : i \in DOMAIN v}
           m == absmax64(v)
<1>1. m \in Nat /\ \A i \in 1 .. n : v[i] <= m
  BY AbsMax
<1> HIDE DEF m
<1>2. 1 \in 1 .. n /\ v[1] \in S
  OBVIOUS
<1>3. S \subseteq Int /\ S # {} /\ m \in Int /\ \A y \in S : y <= m
  BY <1>1, <1>2
<1>4. Max(S) \in S /\ \A y \in S : y <= Max(S)
  <2> HIDE DEF S
  <2>1. QED BY <1>3, GreatestOf
<1>5. \A i \in 1 .. n : v[i] \in S
  OBVIOUS
<1>6. \A y \in S : y \in Int /\ \E i \in 1 .. n : y = v[i]
  OBVIOUS
<1> HIDE DEF S
<1>7. QED BY <1>4, <1>5, <1>6 DEF S

LEMMA ExpFalls ==
  ASSUME NEW c \in 0 .. 255, NEW d \in 0 .. 255, c <= d
  PROVE  exp_lut[d] \in Nat /\ exp_lut[d] <= exp_lut[c]
<1>1. exp_lut \in [0 .. 255 -> Nat] /\ \A k \in 0 .. 254 : exp_lut[k + 1] <= exp_lut[k]
  BY LutsAreMonotone
<1> DEFINE n == 255 - c
           G == {m \in 0 .. n : exp_lut[c + m] <= exp_lut[c]}
<1>2. n \in Nat
  OBVIOUS
<1>3. 0 \in G
  <2>1. c + 0 = c /\ exp_lut[c] \in Nat
    BY <1>1
  <2>2. exp_lut[c + 0] <= exp_lut[c]
    BY <2>1
  <2>3. QED BY <1>2, <2>2
<1>4. ASSUME NEW m \in 1 .. n, m - 1 \in G PROVE m \in G
  <2> DEFINE k == c + (m - 1)
  <2>1. k \in 0 .. 254 /\ k + 1 = c + m /\ m \in 0 .. n
    OBVIOUS
  <2>2. exp_lut[k] <= exp_lut[c]
    BY <1>4
  <2> HIDE DEF k
  <2>3. exp_lut[k + 1] <= exp_lut[k] /\ {exp_lut[k + 1], exp_lut[k], exp_lut[c]} \subseteq Nat
    <3>1. k \in 0 .. 255 /\ k + 1 \in 0 .. 255
      BY <2>1
    <3>2. QED BY <1>1, <2>1, <3>1
  <2>4. exp_lut[c + m] <= exp_lut[c]
    BY <2>1, <2>2, <2>3
  <2>5. QED BY <2>1, <2>4
<1>5. \A m \in 0 .. n : m \in G
  <2> HIDE DEF n, G
  <2>1. QED BY <1>2, <1>3, <1>4, Upward
<1>6. d - c \in 0 .. n /\ c + (d - c) = d
  OBVIOUS
<1>7. exp_lut[c + (d - c)] <= exp_lut[c]
  BY <1>5, <1>6
<1>8. QED BY <1>1, <1>6, <1>7

(* What each weight gets of the whole P.                                   *)
SharesOf(q, e, n, P) ==
  /\ q \in [1 .. n -> Nat]
  /\ \A i \in 1 .. n : /\ q[i] <= P
                       /\ q[i] * Total(e) <= e[i] * P /\ e[i] * P < q[i] * Total(e) + Total(e)
  /\ Total(q) \in Nat /\ Total(q) <= P
  /\ \A i, j \in 1 .. n : e[j] <= e[i] => q[j] <= q[i]

LEMMA Shares ==
  ASSUME NEW n \in Nat, NEW e \in [1 .. n -> Nat], Total(e) > 0, NEW P \in Nat,
         NEW q, q = [i \in 1 .. n |-> (e[i] * P) \div Total(e)]
  PROVE  SharesOf(q, e, n, P)
<1> DEFINE s == Total(e)
<1>1. s \in Nat \ {0} /\ \A i \in 1 .. n : e[i] <= s
  <2>1. s \in Nat /\ \A i \in 1 .. n : e[i] <= s
    BY TotalHas, Zenon
  <2>2. QED BY <2>1
<1> HIDE DEF s
<1>2. q = [i \in 1 .. n |-> (e[i] * P) \div s]
  BY DEF s
<1>3. \A i \in 1 .. n : e[i] * P \in Nat
  <2>1. \A i \in 1 .. n : e[i] \in Nat
    OBVIOUS
  <2>2. QED BY <2>1, Times
<1>4. ASSUME NEW i \in 1 .. n
      PROVE  q[i] \in Nat /\ q[i] * s <= e[i] * P /\ e[i] * P < q[i] * s + s
  <2> DEFINE p == e[i] * P
             f == p \div s
  <2>1. p \in Nat /\ q[i] = f
    BY <1>2, <1>3
  <2> HIDE DEF p
  <2>2. f \in Nat /\ f * s <= p /\ p < f * s + s
    <3>1. f \in Nat /\ p % s \in 0 .. s - 1 /\ p = f * s + (p % s)
      BY <1>1, <2>1, DivMod
    <3> DEFINE m == p % s
               z == f * s
    <3>2. f \in Nat /\ m \in 0 .. s - 1 /\ p = z + m
      BY <3>1
    <3> HIDE DEF f, m
    <3>3. z \in Nat
      BY <1>1, <3>2
    <3> HIDE DEF z
    <3>4. z <= p /\ p < z + s
      BY <1>1, <3>2, <3>3
    <3>5. QED BY <3>2, <3>4 DEF z
  <2> HIDE DEF f
  <2>3. QED BY <2>1, <2>2 DEF p
<1>5. ASSUME NEW i \in 1 .. n PROVE q[i] <= P
  <2> DEFINE x == e[i]
             y == q[i]
  <2>1. x \in Nat /\ x <= s /\ y \in Nat /\ y * s <= x * P
    BY <1>1, <1>4
  <2> HIDE DEF x, y
  <2>2. x * P <= s * P /\ s * P = P * s /\ x * P \in Nat /\ y * s \in Nat /\ P * s \in Nat
    BY <1>1, <2>1, Grows
  <2>3. y * s < (P + 1) * s
    <3>1. (P + 1) * s = P * s + s
      BY <1>1
    <3> DEFINE a == y * s
               b == x * P
               c == P * s
    <3>2. a \in Int /\ b \in Int /\ c \in Int /\ a <= b /\ b <= c /\ (P + 1) * s = c + s
      BY <2>1, <2>2, <3>1
    <3> HIDE DEF a, b, c
    <3>3. a < (P + 1) * s
      BY <1>1, <3>2
    <3>4. QED BY <3>3 DEF a
  <2>4. y < P + 1
    BY <1>1, <2>1, <2>3, Cancel
  <2>5. QED BY <2>1, <2>4 DEF y
<1>6. q \in [1 .. n -> Nat]
  BY <1>2, <1>4
<1>7. Total(q) \in Nat /\ Total(q) <= P
  <2> DEFINE u == [i \in 1 .. n |-> s * q[i]]
             w == [i \in 1 .. n |-> P * e[i]]
             t == Total(q)
  <2>1. ASSUME NEW i \in 1 .. n PROVE s * q[i] \in Int /\ P * e[i] \in Int /\ s * q[i] <= P * e[i]
    <3> DEFINE x == e[i]
               y == q[i]
    <3>1. x \in Nat /\ y \in Nat /\ y * s <= x * P
      BY <1>4
    <3> HIDE DEF x, y
    <3>2. s * y = y * s /\ P * x = x * P /\ y * s \in Int /\ x * P \in Int
      BY <1>1, <3>1
    <3>3. s * y \in Int /\ P * x \in Int /\ s * y <= P * x
      BY <3>1, <3>2
    <3>4. QED BY <3>3 DEF x, y
  <2>2. /\ u \in [1 .. n -> Int] /\ w \in [1 .. n -> Int]
        /\ \A i \in 1 .. n : u[i] <= w[i] /\ u[i] = s * q[i] /\ w[i] = P * e[i]
    BY <2>1
  <2> HIDE DEF u, w
  <2>3. t \in Nat
    BY <1>6, TotalHas
  <2>4. q \in [1 .. n -> Int] /\ e \in [1 .. n -> Int] /\ s \in Int /\ P \in Int
    BY <1>1, <1>6
  <2>5. Total(u) = s * t
    BY <2>2, <2>4, TotalScaled
  <2>6. Total(w) = P * s
    BY <2>2, <2>4, TotalScaled DEF s
  <2>7. Total(u) <= Total(w)
    BY <2>2, TotalOrder
  <2> HIDE DEF t
  <2>8. t * s < (P + 1) * s
    <3>1. s * t = t * s /\ (P + 1) * s = P * s + s /\ t * s \in Int /\ P * s \in Int
      BY <1>1, <2>3
    <3>2. QED BY <1>1, <2>5, <2>6, <2>7, <3>1
  <2>9. t < P + 1
    BY <1>1, <2>3, <2>8, Cancel
  <2>10. QED BY <2>3, <2>9 DEF t
<1>8. ASSUME NEW i \in 1 .. n, NEW j \in 1 .. n, e[j] <= e[i] PROVE q[j] <= q[i]
  <2> DEFINE x == e[j]
             y == e[i]
  <2>1. x \in Nat /\ y \in Nat /\ x <= y
    BY <1>8
  <2>2. q[i] = (y * P) \div s /\ q[j] = (x * P) \div s
    BY <1>2
  <2> HIDE DEF x, y
  <2> DEFINE a == x * P
             b == y * P
  <2>3. a \in Int /\ b \in Int /\ a <= b
    BY <2>1, Grows
  <2>4. q[i] = b \div s /\ q[j] = a \div s
    BY <2>2
  <2> HIDE DEF a, b
  <2>5. QED BY <1>1, <2>3, <2>4, FloorsAscend
<1>9. QED BY <1>4, <1>5, <1>6, <1>7, <1>8 DEF SharesOf, s

LEMMA SoftmaxExact ==
  ASSUME NEW o, o.kernel = "softmax", WellFormedCall(o)
  PROVE  Promised(o, Run(o))
<1> DEFINE x == o.x
           n == Len(x)
           top == Max({x[i] : i \in DOMAIN x})
           e == [i \in DOMAIN x |-> exp_lut[top - x[i]]]
           P == 255
           q == [i \in 1 .. n |-> (e[i] * P) \div Total(e)]
           got == Run(o)
<1>1. x \in Seq(Int8) /\ x # << >> /\ got = softmax_int8(x)
  BY DEF WellFormedCall, Run, Vectors
<1>2. n \in Nat \ {0} /\ x \in [1 .. n -> Int8] /\ DOMAIN x = 1 .. n
  BY <1>1, LenProperties, EmptySeq
<1> HIDE DEF x, n, got
<1>3. \A i \in 1 .. n : x[i] \in Int /\ -128 <= x[i] /\ x[i] <= 127
  BY <1>2, InInt8
<1>4. top \in Int /\ (\E i \in 1 .. n : top = x[i]) /\ \A i \in 1 .. n : x[i] <= top
  <2>1. x \in [1 .. n -> Int]
    BY <1>2, <1>3
  <2>2. QED BY <1>2, <2>1, GreatestAmong
<1> HIDE DEF top
<1>5. ASSUME NEW i \in 1 .. n PROVE top - x[i] \in 0 .. 255
  <2>1. PICK j \in 1 .. n : top = x[j]
    BY <1>4
  <2>2. top \in Int /\ top <= 127 /\ x[i] <= top
    BY <1>3, <1>4, <2>1
  <2>3. x[i] \in Int /\ -128 <= x[i]
    BY <1>3
  <2>4. QED BY <2>2, <2>3
<1>6. /\ e \in [1 .. n -> Nat] /\ \A i \in 1 .. n : e[i] = exp_lut[top - x[i]]
  <2>1. \A i \in 1 .. n : exp_lut[top - x[i]] \in Nat
    BY <1>5, LutsAreMonotone
  <2>2. QED BY <1>2, <2>1
<1>7. Total(e) \in Nat /\ Total(e) > 0
  <2>1. PICK t \in 1 .. n : top = x[t]
    BY <1>4
  <2>2. top - x[t] = 0
    BY <1>4, <2>1
  <2>3. e[t] > 0
    BY <1>6, <2>2, LutsAreMonotone
  <2> HIDE DEF e
  <2>4. Total(e) \in Nat /\ e[t] <= Total(e) /\ e[t] \in Nat
    BY <1>2, <1>6, TotalHas
  <2>5. QED BY <2>3, <2>4
<1>8. AtLeast1(Total(e)) = Total(e)
  BY <1>7 DEF AtLeast1
<1>9. SharesOf(q, e, n, P)
  <2>1. P \in Nat
    OBVIOUS
  <2> HIDE DEF e, P
  <2>2. QED BY <1>2, <1>6, <1>7, <2>1, Shares
<1>10. got = [i \in 1 .. n |-> Clip8((exp_lut[top - x[i]] * 255) \div Total(e) - 128)]
  <2>1. softmax_int8(x) = [i \in DOMAIN x |->
                             Clip8((exp_lut[top - x[i]] * 255) \div AtLeast1(Total(e)) - 128)]
    BY Zenon DEF softmax_int8, top
  <2> HIDE DEF e
  <2>2. QED BY <1>1, <1>2, <1>8, <2>1
<1>11. ASSUME NEW i \in 1 .. n
       PROVE  got[i] = q[i] - 128 /\ got[i] + 128 = q[i] /\ q[i] \in Nat
  <2>1. q[i] = (exp_lut[top - x[i]] * 255) \div Total(e)
    BY <1>6
  <2>2. q[i] \in Nat /\ q[i] <= 255
    BY <1>9 DEF SharesOf
  <2> HIDE DEF q, e
  <2>3. got[i] = Clip8(q[i] - 128)
    BY <1>10, <2>1
  <2>4. QED BY <2>2, <2>3 DEF Clip8
<1> HIDE DEF e, q
<1>12. [i \in DOMAIN x |-> got[i] + 128] = q
  <2>1. q \in [1 .. n -> Nat]
    BY <1>9 DEF SharesOf
  <2>2. QED BY <1>2, <1>11, <2>1
<1>13. Total(q) \in 0 .. 255
  <2>1. Total(q) \in Nat /\ Total(q) <= 255
    BY <1>9, Zenon DEF SharesOf
  <2>2. QED BY <2>1
<1>14. ASSUME NEW i \in 1 .. n, NEW j \in 1 .. n, x[i] >= x[j] PROVE got[i] >= got[j]
  <2>1. top - x[i] <= top - x[j]
    BY <1>3, <1>4, <1>14
  <2>2. e[j] <= e[i]
    <3> DEFINE c == top - x[i]
               d == top - x[j]
    <3>1. c \in 0 .. 255 /\ d \in 0 .. 255 /\ c <= d /\ e[i] = exp_lut[c] /\ e[j] = exp_lut[d]
      BY <1>5, <1>6, <2>1
    <3> HIDE DEF c, d
    <3>2. exp_lut[d] <= exp_lut[c]
      BY <3>1, ExpFalls
    <3>3. QED BY <3>1, <3>2
  <2>3. q[j] <= q[i]
    BY <1>9, <2>2 DEF SharesOf
  <2>4. QED BY <1>11, <2>3
<1>15. QED BY <1>2, <1>12, <1>13, <1>14 DEF Promised, x, got

-----------------------------------------------------------------------------
(* The attention.                                                          *)

\* What attn_index's division leaves of a distance.
Indexed(d, far, D) ==
  /\ d \in Nat /\ 2 * Magnitude(d * D - far) <= D
  /\ d > 255 => far > 254 * D
  /\ far = 0 => d = 0

LEMMA IndexNear ==
  ASSUME NEW far \in Nat, NEW D \in Nat \ {0}, NEW d, d = (far + D \div 2) \div D
  PROVE  Indexed(d, far, D)
<1> DEFINE h == D \div 2
           a == far + h
<1>1. h \in Nat /\ 2 * h <= D /\ D <= 2 * h + 1 /\ h < D
  OBVIOUS
<1>2. a \in Nat /\ d = a \div D
  BY <1>1
<1>3. d \in Int /\ d * D <= a /\ a < d * D + D
  <2> HIDE DEF a
  <2>1. QED BY <1>2, FloorOf
<1> HIDE DEF h
<1>4. d * D \in Int /\ (d + 1) * D = d * D + D
  BY <1>3
<1>5. d >= 0
  <2>1. 0 * D < (d + 1) * D
    BY <1>2, <1>3, <1>4
  <2>2. 0 < d + 1
    BY <1>3, <2>1, Cancel
  <2>3. QED BY <1>3, <2>2
<1> DEFINE z == d * D
<1>6. z \in Int /\ z <= far + h /\ far + h < z + D
  BY <1>3, <1>4
<1>7. 2 * Magnitude(z - far) <= D
  <2> HIDE DEF z
  <2>1. QED BY <1>1, <1>6 DEF Magnitude
<1>8. d > 255 => far > 254 * D
  <2>1. SUFFICES ASSUME d > 255 PROVE far > 254 * D
    OBVIOUS
  <2>2. 256 * D <= d * D
    BY <1>3, <2>1, Grows
  <2>3. QED BY <1>1, <1>6, <2>2
<1>9. far = 0 => d = 0
  <2>1. SUFFICES ASSUME far = 0 PROVE d = 0
    OBVIOUS
  <2>2. d * D < 1 * D
    BY <1>1, <1>6, <2>1
  <2>3. d < 1
    BY <1>3, <2>2, Cancel
  <2>4. QED BY <1>3, <1>5, <2>3
<1>10. QED BY <1>3, <1>5, <1>7, <1>8, <1>9 DEF Indexed

(* Two products of two nearby factors.                                     *)
LEMMA ShareTimes ==
  ASSUME NEW w \in Nat, NEW p \in Nat, NEW q \in Nat, NEW s \in Nat, NEW r \in Int,
         q * s <= w * p, w * p < q * s + s
  PROVE  Magnitude((w * p - q * s) * r) <= s * Magnitude(r)
<1> DEFINE d == w * p - q * s
           m == Magnitude(r)
<1>1. d \in Nat /\ d <= s
  <2>1. w * p \in Int /\ q * s \in Int
    OBVIOUS
  <2>2. QED BY <2>1
<1>2. m \in Nat
  BY MagnitudeOf
<1> HIDE DEF d
<1>3. Magnitude(d * r) = Magnitude(d) * m /\ Magnitude(d) = d
  <2>1. Magnitude(d) = d
    BY <1>1 DEF Magnitude
  <2>2. QED BY <1>1, <2>1, MagnitudeTimes
<1> HIDE DEF m
<1>4. d * m <= s * m
  BY <1>1, <1>2, Grows
<1>5. QED BY <1>3, <1>4 DEF d, m

LEMMA ErrorsAdd ==
  ASSUME NEW n \in Nat, NEW u \in [1 .. n -> Int], NEW w \in [1 .. n -> Int],
         NEW m \in [1 .. n -> Int], NEW s \in Nat, NEW P \in Nat,
         \A i \in 1 .. n : Magnitude(P * w[i] - s * u[i]) <= s * m[i]
  PROVE  /\ Total(u) \in Int /\ Total(w) \in Int /\ Total(m) \in Int
         /\ Magnitude(P * Total(w) - s * Total(u)) <= s * Total(m)
<1> DEFINE ps == [i \in 1 .. n |-> P * w[i]]
           su == [i \in 1 .. n |-> s * u[i]]
           d == [i \in 1 .. n |-> ps[i] - su[i]]
           sm == [i \in 1 .. n |-> s * m[i]]
<1>1. s \in Int /\ P \in Int
  OBVIOUS
<1>2. ps \in [1 .. n -> Int] /\ \A i \in 1 .. n : ps[i] = P * w[i]
  OBVIOUS
<1>3. su \in [1 .. n -> Int] /\ \A i \in 1 .. n : su[i] = s * u[i]
  OBVIOUS
<1>4. sm \in [1 .. n -> Int] /\ \A i \in 1 .. n : sm[i] = s * m[i]
  OBVIOUS
<1>5. d \in [1 .. n -> Int] /\ \A i \in 1 .. n : d[i] = ps[i] - su[i]
  <2> HIDE DEF ps, su
  <2>1. QED BY <1>2, <1>3
<1>6. \A i \in 1 .. n : Magnitude(d[i]) <= sm[i]
  OBVIOUS
<1> HIDE DEF ps, su, sm, d
<1>7. Total(w) \in Int /\ Total(ps) = P * Total(w)
  BY <1>1, <1>2, TotalScaled
<1>8. Total(u) \in Int /\ Total(su) = s * Total(u)
  BY <1>1, <1>3, TotalScaled
<1>9. Total(m) \in Int /\ Total(sm) = s * Total(m)
  BY <1>1, <1>4, TotalScaled
<1>10. Total(d) = Total(ps) - Total(su)
  BY <1>2, <1>3, <1>5, TotalMinus
<1>11. Magnitude(Total(d)) <= Total(sm)
  BY <1>4, <1>5, <1>6, TotalMagnitude
<1>12. QED BY <1>7, <1>8, <1>9, <1>10, <1>11

\* A weighted sum against the sum of the shares it is replaced by.
Averaged(U, W, E, m, P) ==
  /\ U \in Int /\ W \in Int /\ m \in Int
  /\ Magnitude(P * W - E * U) <= E * m

LEMMA AverageOf ==
  ASSUME NEW n \in Nat, NEW e \in [1 .. n -> Nat], NEW P \in Nat \ {0}, NEW q,
         SharesOf(q, e, n, P), NEW r \in [1 .. n -> Int],
         NEW u, u = [i \in 1 .. n |-> q[i] * r[i]],
         NEW w, w = [i \in 1 .. n |-> e[i] * r[i]],
         NEW m, m = [i \in 1 .. n |-> Magnitude(r[i])]
  PROVE  Averaged(Total(u), Total(w), Total(e), Total(m), P)
<1> DEFINE s == Total(e)
<1>1. s \in Nat
  BY TotalHas, Zenon
<1>2. q \in [1 .. n -> Nat] /\ \A i \in 1 .. n : q[i] * s <= e[i] * P /\ e[i] * P < q[i] * s + s
  BY DEF SharesOf
<1> HIDE DEF s
<1>3. ASSUME NEW i \in 1 .. n
      PROVE  /\ u[i] \in Int /\ w[i] \in Int /\ m[i] \in Int
             /\ Magnitude(P * w[i] - s * u[i]) <= s * m[i]
  <2> DEFINE a == e[i]
             b == q[i]
             c == r[i]
  <2>1. /\ a \in Nat /\ b \in Nat /\ c \in Int /\ b * s <= a * P /\ a * P < b * s + s
        /\ u[i] = b * c /\ w[i] = a * c /\ m[i] = Magnitude(c)
    BY <1>2
  <2> HIDE DEF a, b, c
  <2>2. Magnitude((a * P - b * s) * c) <= s * Magnitude(c)
    BY <1>1, <2>1, ShareTimes
  <2>3. P * (a * c) - s * (b * c) = (a * P - b * s) * c
    BY <1>1, <2>1
  <2>4. b * c \in Int /\ a * c \in Int /\ Magnitude(c) \in Int
    BY <2>1, MagnitudeOf
  <2>5. Magnitude(P * w[i] - s * u[i]) <= s * m[i]
    BY <2>1, <2>2, <2>3
  <2>6. QED BY <2>1, <2>4, <2>5
<1>4. /\ u \in [1 .. n -> Int] /\ w \in [1 .. n -> Int] /\ m \in [1 .. n -> Int]
      /\ P \in Nat /\ \A i \in 1 .. n : Magnitude(P * w[i] - s * u[i]) <= s * m[i]
  BY <1>3
<1>5. /\ Total(u) \in Int /\ Total(w) \in Int /\ Total(m) \in Int
      /\ Magnitude(P * Total(w) - s * Total(u)) <= s * Total(m)
  BY <1>1, <1>4, ErrorsAdd
<1>6. QED BY <1>5 DEF s, Averaged

(* The quotient by P of such a sum.                                        *)
LEMMA QuotientNear ==
  ASSUME NEW T \in Int, NEW P \in Nat \ {0}
  PROVE  /\ Quot(T, P) \in Int /\ Magnitude(P * Quot(T, P) - T) <= P
         /\ Magnitude(Quot(T, P)) * P <= Magnitude(T)
<1> DEFINE x == Quot(T, P)
<1>1. /\ x \in Int
      /\ T >= 0 => x >= 0 /\ x * P <= T /\ T < x * P + P
      /\ T < 0 => x <= 0 /\ T <= x * P /\ x * P - P < T
  BY QuotOf
<1> HIDE DEF x
<1>2. P * x = x * P /\ (-x) * P = -(x * P) /\ x * P \in Int
  BY <1>1
<1> DEFINE z == x * P
<1>3. /\ z \in Int
      /\ T >= 0 => z <= T /\ T < z + P
      /\ T < 0 => T <= z /\ z - P < T
  BY <1>1, <1>2
<1>4. Magnitude(z - T) <= P
  <2> HIDE DEF z
  <2>1. QED BY <1>3 DEF Magnitude
<1>5. Magnitude(x) * P <= Magnitude(T)
  <2>1. CASE T >= 0
    <3>1. Magnitude(x) = x /\ Magnitude(T) = T
      BY <1>1, <2>1 DEF Magnitude
    <3>2. QED BY <1>3, <2>1, <3>1
  <2>2. CASE T < 0
    <3>1. Magnitude(x) = -x /\ Magnitude(T) = -T
      BY <1>1, <2>2 DEF Magnitude
    <3>2. QED BY <1>2, <1>3, <2>2, <3>1
  <2>3. QED BY <2>1, <2>2
<1>6. QED BY <1>1, <1>2, <1>4, <1>5 DEF x

LEMMA AverageNear ==
  ASSUME NEW T \in Int, NEW E \in Int, NEW s \in Nat, NEW P \in Nat \ {0}, NEW reach \in Int,
         Magnitude(P * E - s * T) <= s * reach
  PROVE  P * Magnitude(Quot(T, P) * s - E) <= s * (reach + P)
<1> DEFINE x == Quot(T, P)
           d == P * x - T
           f == P * E - s * T
           g == x * s - E
<1>1. x \in Int /\ Magnitude(d) <= P
  BY QuotientNear
<1> HIDE DEF x
<1>2. d \in Int /\ f \in Int /\ g \in Int /\ P * x \in Int
  BY <1>1
<1>3. P * g = s * d - f
  BY <1>1
<1>4. Magnitude(f) <= s * reach
  OBVIOUS
<1>5. s * (reach + P) = s * reach + s * P /\ s * reach \in Int /\ s * P \in Int
  OBVIOUS
<1> HIDE DEF d, f, g
<1>6. Magnitude(s * d) <= s * P
  <2>1. Magnitude(s * d) = s * Magnitude(d) /\ Magnitude(d) \in Nat
    <3>1. Magnitude(s) = s
      BY DEF Magnitude
    <3>2. s \in Int /\ d \in Int
      BY <1>2
    <3>3. Magnitude(s * d) = Magnitude(s) * Magnitude(d)
      BY <3>2, MagnitudeTimes, Zenon
    <3>4. Magnitude(d) \in Nat
      BY <3>2, MagnitudeOf
    <3>5. QED BY <3>1, <3>3, <3>4
  <2> DEFINE m == Magnitude(d)
  <2>2. m \in Nat /\ m <= P
    BY <1>1, <2>1
  <2> HIDE DEF m
  <2>3. m * s <= P * s /\ m * s = s * m /\ P * s = s * P
    BY <2>2, Grows
  <2>4. QED BY <2>1, <2>3 DEF m
<1>7. P * Magnitude(g) = Magnitude(P * g)
  <2>1. Magnitude(P) = P
    BY DEF Magnitude
  <2>2. QED BY <1>2, <2>1, MagnitudeTimes
<1> DEFINE a == s * d
           b == s * P
           c == s * reach
<1>8. a \in Int /\ b \in Int /\ c \in Int /\ Magnitude(a) <= b /\ Magnitude(f) <= c
  BY <1>2, <1>4, <1>5, <1>6
<1>9. Magnitude(P * g) = Magnitude(a - f)
  BY <1>3
<1> HIDE DEF a, b, c
<1>10. Magnitude(a - f) <= c + b
  BY <1>2, <1>8 DEF Magnitude
<1>11. QED BY <1>5, <1>7, <1>9, <1>10 DEF g, x, b, c

LEMMA AverageWithin ==
  ASSUME NEW n \in Nat, NEW q \in [1 .. n -> Nat], NEW P \in Nat \ {0}, Total(q) <= P,
         NEW r \in [1 .. n -> Int], NEW B \in Nat, \A i \in 1 .. n : Magnitude(r[i]) <= B,
         NEW u \in [1 .. n -> Int], \A i \in 1 .. n : u[i] = q[i] * r[i]
  PROVE  Magnitude(Quot(Total(u), P)) <= B
<1> DEFINE v == [i \in 1 .. n |-> B * q[i]]
           T == Total(u)
           S == Total(q)
<1>1. q \in [1 .. n -> Int] /\ B \in Int
  OBVIOUS
<1>2. v \in [1 .. n -> Int] /\ \A i \in 1 .. n : v[i] = B * q[i]
  OBVIOUS
<1> HIDE DEF v
<1>3. ASSUME NEW i \in 1 .. n PROVE Magnitude(u[i]) <= v[i]
  <2> DEFINE a == q[i]
             b == r[i]
  <2>1. a \in Nat /\ b \in Int /\ u[i] = a * b /\ v[i] = B * a /\ Magnitude(b) <= B
    BY <1>2
  <2> HIDE DEF a, b
  <2>2. Magnitude(a * b) = Magnitude(a) * Magnitude(b) /\ Magnitude(a) = a
    <3>1. Magnitude(a) = a
      BY <2>1 DEF Magnitude
    <3>2. QED BY <2>1, <3>1, MagnitudeTimes
  <2> DEFINE c == Magnitude(b)
  <2>3. c \in Nat /\ c <= B
    BY <2>1, MagnitudeOf
  <2> HIDE DEF c
  <2>4. c * a <= B * a /\ c * a = a * c
    BY <2>1, <2>3, Grows
  <2>5. QED BY <2>1, <2>2, <2>4 DEF c
<1>4. T \in Int /\ Total(v) \in Int /\ Magnitude(T) <= Total(v)
  BY <1>2, <1>3, TotalMagnitude
<1>5. S \in Nat /\ S <= P
  BY TotalHas, Zenon
<1>6. Total(v) = B * S
  BY <1>1, <1>2, TotalScaled
<1> DEFINE x == Quot(T, P)
           y == Magnitude(x)
<1> HIDE DEF T, S
<1>7. x \in Int /\ y * P <= Magnitude(T)
  BY <1>4, QuotientNear
<1>8. y \in Nat
  <2> HIDE DEF x
  <2>1. QED BY <1>7, MagnitudeOf
<1> HIDE DEF y
<1>9. B * S <= B * P
  <2>1. S * B <= P * B /\ S * B = B * S /\ P * B = B * P
    BY <1>5, Grows
  <2>2. QED BY <2>1
<1>10. y * P < (B + 1) * P
  <2> DEFINE a == y * P
             b == B * S
             c == B * P
             d == Magnitude(T)
  <2>1. (B + 1) * P = c + P
    OBVIOUS
  <2>2. /\ a \in Int /\ b \in Int /\ c \in Int /\ d \in Int
        /\ a <= d /\ d <= b /\ b <= c
    BY <1>4, <1>5, <1>6, <1>7, <1>8, <1>9, MagnitudeOf
  <2> HIDE DEF a, b, c, d
  <2>3. a < (B + 1) * P
    BY <2>1, <2>2
  <2>4. QED BY <2>3 DEF a
<1>11. y < B + 1
  BY <1>8, <1>10, Cancel
<1>12. QED BY <1>8, <1>11 DEF y, x, T

LEMMA AttentionExact ==
  ASSUME NEW o, o.kernel = "attention", WellFormedCall(o)
  PROVE  Promised(o, Run(o))
<1> DEFINE n == Len(o.dots)
           raw == attn_raw(o)
           M == Max({raw[i] : i \in DOMAIN raw})
           R == RootOf(o.dqkv)
           D == One * One * R
           far(p) == 32 * (M - raw[p])
           dist(p) == (far(p) + D \div 2) \div D
           idx(p) == attn_index(o, p)
           e == [p \in 1 .. n |-> exp_lut[attn_index(o, p)]]
           P == ProbOne
           q == [p \in 1 .. n |-> (e[p] * P) \div Total(e)]
           real(p) == o.v[p] * o.v_s[p]
           r == [p \in 1 .. n |-> real(p)]
           u == [p \in 1 .. n |-> q[p] * r[p]]
           w == [p \in 1 .. n |-> e[p] * r[p]]
           m == [p \in 1 .. n |-> Magnitude(r[p])]
           got == Run(o)
<1>1. /\ o.dots \in Seq(Int) /\ o.dots # << >> /\ o.q_s \in Nat
      /\ o.k_s \in [DOMAIN o.dots -> Nat] /\ o.v \in [DOMAIN o.dots -> Int8]
      /\ o.v_s \in [DOMAIN o.dots -> Nat] /\ o.dqkv \in 1 .. LargestMean
      /\ got = attention(o)
  BY DEF WellFormedCall, Run, Vectors
<1>2. n \in Nat \ {0} /\ o.dots \in [1 .. n -> Int] /\ DOMAIN o.dots = 1 .. n
  BY <1>1, LenProperties, EmptySeq
<1> HIDE DEF n
<1>3. One \in Nat \ {0} /\ P \in Nat \ {0}
  BY ScalesArePositive
<1>4. R \in Nat \ {0} /\ isqrt_u32(o.dqkv) = R /\ AtLeast1(R) = R
  <2>1. LargestMean \in Nat
    BY DEF LargestMean
  <2> DEFINE x == o.dqkv
  <2>2. x \in Nat /\ x <= LargestMean /\ x > 0
    BY <1>1, <2>1
  <2> HIDE DEF x
  <2>3. RootOf(x) \in Nat /\ RootOf(x) > 0 /\ isqrt_u32(x) = RootOf(x)
    BY <2>2, RootFacts, IsqrtIsRoot
  <2>4. R = RootOf(x)
    BY DEF x
  <2> HIDE DEF R
  <2>5. R \in Nat \ {0}
    BY <2>3, <2>4
  <2>6. QED BY <2>3, <2>4, <2>5 DEF AtLeast1, x
<1> HIDE DEF R
<1>5. D \in Nat \ {0}
  BY <1>3, <1>4
<1>6. raw \in [1 .. n -> Int]
  <2>1. raw = [p \in 1 .. n |-> o.dots[p] * o.q_s * o.k_s[p]]
    BY <1>2 DEF attn_raw
  <2>2. ASSUME NEW p \in 1 .. n PROVE o.dots[p] * o.q_s * o.k_s[p] \in Int
    <3>1. o.dots[p] \in Int /\ o.k_s[p] \in Nat
      BY <1>1, <1>2
    <3>2. QED BY <1>1, <3>1
  <2>3. QED BY <2>1, <2>2
<1>7. M \in Int /\ (\E i \in 1 .. n : M = raw[i]) /\ \A i \in 1 .. n : raw[i] <= M
  <2> HIDE DEF raw
  <2>1. QED BY <1>2, <1>6, GreatestAmong
<1>8. ASSUME NEW p \in 1 .. n
      PROVE  idx(p) = IF dist(p) > 255 THEN 255 ELSE dist(p)
  <2>1. AtLeast1(isqrt_u32(o.dqkv)) = R
    BY <1>4
  <2>2. idx(p) = LET d == ((M - raw[p]) * 32 + D \div 2) \div D
                 IN  IF d > 255 THEN 255 ELSE d
    BY <2>1, Zenon DEF attn_index
  <2> HIDE DEF M, raw, D
  <2>3. (M - raw[p]) * 32 = far(p)
    BY <1>6, <1>7
  <2>4. QED BY <2>2, <2>3
<1> HIDE DEF raw, M, D
<1>9. ASSUME NEW p \in 1 .. n
      PROVE  /\ far(p) \in Nat /\ dist(p) \in Nat /\ idx(p) \in 0 .. 255
             /\ 2 * Magnitude(dist(p) * D - far(p)) <= D
             /\ dist(p) > 255 => far(p) > 254 * D
             /\ far(p) = 0 => dist(p) = 0
  <2> DEFINE f == far(p)
             d == dist(p)
  <2>1. f \in Nat
    BY <1>6, <1>7
  <2>2. d = (f + D \div 2) \div D
    OBVIOUS
  <2>3. idx(p) = IF d > 255 THEN 255 ELSE d
    BY <1>8
  <2> HIDE DEF f, d
  <2>4. Indexed(d, f, D)
    BY <1>5, <2>1, <2>2, IndexNear, Zenon
  <2>5. d \in Nat
    BY <2>4 DEF Indexed
  <2>6. idx(p) \in 0 .. 255
    BY <2>3, <2>5
  <2>7. QED BY <2>1, <2>4, <2>6, Zenon DEF f, d, Indexed
<1>10. ASSUME NEW p \in 1 .. n
       PROVE  \/ 2 * Magnitude(idx(p) * D - far(p)) <= D
              \/ idx(p) = 255 /\ far(p) > 254 * D
  <2>1. CASE dist(p) > 255
    <3>1. idx(p) = 255
      BY <1>8, <2>1
    <3>2. QED BY <1>9, <2>1, <3>1
  <2>2. CASE ~(dist(p) > 255)
    <3>1. idx(p) = dist(p)
      BY <1>8, <2>2
    <3>2. QED BY <1>9, <3>1
  <2>3. QED BY <2>1, <2>2
<1>11. e \in [1 .. n -> Nat] /\ \A p \in 1 .. n : e[p] = exp_lut[idx(p)]
  <2>1. \A p \in 1 .. n : exp_lut[idx(p)] \in Nat
    BY <1>9, LutsAreMonotone
  <2>2. QED BY <2>1
<1>12. Total(e) \in Nat /\ Total(e) > 0
  <2>1. PICK t \in 1 .. n : M = raw[t]
    BY <1>7
  <2>2. far(t) = 0
    BY <1>6, <1>7, <2>1
  <2>3. dist(t) = 0
    BY <1>9, <2>2
  <2>4. idx(t) = 0
    BY <1>8, <2>3
  <2>5. e[t] > 0
    BY <1>11, <2>4, LutsAreMonotone
  <2> HIDE DEF e
  <2>6. Total(e) \in Nat /\ e[t] <= Total(e) /\ e[t] \in Nat
    BY <1>2, <1>11, TotalHas
  <2>7. QED BY <2>5, <2>6
<1>13. attn_probs(o) = q
  <2>1. AtLeast1(Total(e)) = Total(e)
    BY <1>12 DEF AtLeast1
  <2>2. Total([p \in DOMAIN o.dots |-> exp_lut[attn_index(o, p)]]) = Total(e)
    BY <1>2
  <2>3. attn_probs(o) = [p \in DOMAIN o.dots |->
                           (exp_lut[attn_index(o, p)] * ProbOne) \div Total(e)]
    BY <2>1, <2>2, Zenon DEF attn_probs
  <2> DEFINE T == Total(e)
  <2>4. /\ attn_probs(o) = [p \in 1 .. n |-> (exp_lut[attn_index(o, p)] * P) \div T]
        /\ q = [p \in 1 .. n |-> (e[p] * P) \div T]
    BY <1>2, <2>3
  <2>5. \A p \in 1 .. n : e[p] = exp_lut[attn_index(o, p)]
    OBVIOUS
  <2> HIDE DEF T, e, q, P
  <2>6. QED BY <2>4, <2>5
<1>14. SharesOf(q, e, n, P)
  <2>1. n \in Nat /\ P \in Nat
    BY <1>2, <1>3
  <2> HIDE DEF e, P
  <2>2. QED BY <1>11, <1>12, <2>1, Shares
<1>15. q \in [1 .. n -> Nat] /\ Total(q) \in Nat /\ Total(q) <= P
  BY <1>14, Zenon DEF SharesOf
<1> HIDE DEF e, q, P
<1>16. r \in [1 .. n -> Int] /\ \A p \in 1 .. n : r[p] = real(p)
  <2>1. ASSUME NEW p \in 1 .. n PROVE real(p) \in Int
    <3>1. o.v[p] \in Int /\ o.v_s[p] \in Nat
      BY <1>1, <1>2, InInt8
    <3>2. QED BY <3>1
  <2>2. QED BY <2>1
<1>17. got = Quot(Total(u), P)
  <2>1. ASSUME NEW p \in 1 .. n PROVE q[p] * o.v[p] * o.v_s[p] = q[p] * r[p]
    <3>1. o.v[p] \in Int /\ o.v_s[p] \in Nat /\ q[p] \in Nat
      BY <1>1, <1>2, <1>15, InInt8
    <3>2. r[p] = o.v[p] * o.v_s[p]
      OBVIOUS
    <3> HIDE DEF r
    <3>3. QED BY <3>1, <3>2
  <2>2. attention(o) = Quot(Total([p \in DOMAIN o.dots |-> q[p] * o.v[p] * o.v_s[p]]), P)
    BY <1>13, Zenon DEF attention, P
  <2>3. [p \in DOMAIN o.dots |-> q[p] * o.v[p] * o.v_s[p]] = u
    <3> HIDE DEF r
    <3>1. QED BY <1>2, <2>1
  <2>4. QED BY <1>1, <2>2, <2>3
<1> HIDE DEF r
<1>18. /\ Total(u) \in Int /\ Total(w) \in Int /\ Total(m) \in Int
       /\ Magnitude(P * Total(w) - Total(e) * Total(u)) <= Total(e) * Total(m)
  <2>1. n \in Nat
    BY <1>2
  <2>2. /\ u = [i \in 1 .. n |-> q[i] * r[i]] /\ w = [i \in 1 .. n |-> e[i] * r[i]]
        /\ m = [i \in 1 .. n |-> Magnitude(r[i])]
    OBVIOUS
  <2> HIDE DEF u, w, m
  <2>3. Averaged(Total(u), Total(w), Total(e), Total(m), P)
    BY <1>3, <1>11, <1>14, <1>16, <2>1, <2>2, AverageOf, Zenon
  <2>4. QED BY <2>3, Zenon DEF Averaged
<1>19. \A p \in 1 .. n : u[p] = q[p] * r[p] /\ m[p] = Magnitude(r[p])
  OBVIOUS
<1>20. w = [p \in 1 .. n |-> exp_lut[attn_index(o, p)] * real(p)]
  BY <1>11, <1>16
<1>21. m = [p \in 1 .. n |-> Magnitude(real(p))]
  BY <1>16
<1> HIDE DEF u, w, m
<1>22. P * Magnitude(got * Total(e) - Total(w)) <= Total(e) * (Total(m) + P)
  <2> DEFINE T == Total(u)
             E == Total(w)
             s == Total(e)
             reach == Total(m)
  <2>1. /\ T \in Int /\ E \in Int /\ s \in Nat /\ reach \in Int
        /\ Magnitude(P * E - s * T) <= s * reach /\ got = Quot(T, P)
    BY <1>12, <1>17, <1>18
  <2> HIDE DEF T, E, s, reach, got
  <2>2. P * Magnitude(Quot(T, P) * s - E) <= s * (reach + P)
    BY <1>3, <2>1, AverageNear
  <2>3. QED BY <2>1, <2>2 DEF E, s, reach
<1> DEFINE B == Max({Magnitude(real(p)) : p \in DOMAIN o.v})
<1>23. DOMAIN o.v = 1 .. n
  BY <1>1, <1>2
<1>24. m \in [1 .. n -> Nat]
  <2>1. \A p \in 1 .. n : Magnitude(r[p]) \in Nat
    BY <1>16, MagnitudeOf
  <2>2. QED BY <2>1 DEF m
<1>25. B \in Nat /\ \A p \in 1 .. n : m[p] <= B
  <2>1. {Magnitude(real(p)) : p \in DOMAIN o.v} = {m[i] : i \in DOMAIN m}
    BY <1>16, <1>19, <1>23, <1>24
  <2> DEFINE A == Max({m[i] : i \in DOMAIN m})
  <2>2. m \in [1 .. n -> Int]
    BY <1>24
  <2>3. A \in Int /\ (\E i \in 1 .. n : A = m[i]) /\ \A i \in 1 .. n : m[i] <= A
    BY <1>2, <2>2, GreatestAmong
  <2> HIDE DEF A
  <2>4. A \in Nat
    BY <1>24, <2>3
  <2>5. B = A
    BY <2>1 DEF A
  <2>6. QED BY <2>3, <2>4, <2>5
<1> HIDE DEF B
<1>26. u \in [1 .. n -> Int]
  <2>1. ASSUME NEW p \in 1 .. n PROVE q[p] * r[p] \in Int
    <3>1. q[p] \in Nat /\ r[p] \in Int
      BY <1>15, <1>16
    <3>2. QED BY <3>1
  <2>2. QED BY <2>1 DEF u
<1>27. Magnitude(got) <= B
  <2>1. n \in Nat /\ \A p \in 1 .. n : Magnitude(r[p]) <= B
    BY <1>2, <1>19, <1>25
  <2>2. \A p \in 1 .. n : u[p] = q[p] * r[p]
    BY <1>19
  <2>3. Magnitude(Quot(Total(u), P)) <= B
    BY <1>3, <1>15, <1>16, <1>25, <1>26, <2>1, <2>2, AverageWithin
  <2>4. QED BY <1>17, <2>3
<1>28. ASSUME NEW p \in 1 .. n, NEW s \in 1 .. n, raw[p] >= raw[s] PROVE q[p] >= q[s]
  <2> DEFINE a == far(p)
             b == far(s)
             h == D \div 2
  <2>1. a \in Nat /\ b \in Nat /\ a <= b
    <3> DEFINE x == raw[p]
               y == raw[s]
    <3>1. x \in Int /\ y \in Int /\ y <= x /\ x <= M /\ y <= M /\ M \in Int
      BY <1>6, <1>7, <1>28
    <3> HIDE DEF x, y
    <3>2. 32 * (M - x) \in Nat /\ 32 * (M - y) \in Nat /\ 32 * (M - x) <= 32 * (M - y)
      BY <3>1
    <3>3. QED BY <3>2 DEF x, y
  <2>2. h \in Nat
    BY <1>5
  <2>3. dist(p) = (a + h) \div D /\ dist(s) = (b + h) \div D
    OBVIOUS
  <2> DEFINE k == dist(p)
             j == dist(s)
  <2> HIDE DEF a, b, h, k, j
  <2>4. k <= j
    <3> DEFINE x == a + h
               y == b + h
    <3>1. x \in Int /\ y \in Int /\ x <= y
      BY <2>1, <2>2
    <3> HIDE DEF x, y
    <3>2. x \div D <= y \div D
      BY <1>5, <3>1, FloorsAscend
    <3>3. QED BY <2>3, <3>2 DEF x, y, k, j
  <2>5. /\ k \in Nat /\ j \in Nat
        /\ idx(p) = (IF k > 255 THEN 255 ELSE k) /\ idx(s) = (IF j > 255 THEN 255 ELSE j)
    BY <1>8, <1>9 DEF k, j
  <2> DEFINE c == idx(p)
             d == idx(s)
  <2>6. c \in 0 .. 255 /\ d \in 0 .. 255 /\ e[p] = exp_lut[c] /\ e[s] = exp_lut[d]
    BY <1>9, <1>11
  <2>7. c <= d
    <3> HIDE DEF c, d
    <3>1. QED BY <2>4, <2>5 DEF c, d
  <2> HIDE DEF c, d
  <2>8. exp_lut[d] <= exp_lut[c]
    BY <2>6, <2>7, ExpFalls
  <2>9. e[s] <= e[p]
    BY <2>6, <2>8
  <2>10. QED BY <1>14, <1>15, <2>9 DEF SharesOf
<1>29. /\ Total(e) = Total([p \in DOMAIN o.dots |-> exp_lut[attn_index(o, p)]])
       /\ Total(w) = Total([p \in DOMAIN o.dots |-> exp_lut[attn_index(o, p)] * real(p)])
       /\ Total(m) = Total([p \in DOMAIN o.dots |-> Magnitude(real(p))])
  <2>1. e = [p \in DOMAIN o.dots |-> exp_lut[attn_index(o, p)]]
    BY <1>2 DEF e
  <2>2. QED BY <1>2, <1>20, <1>21, <2>1
<1>30. AttentionMeans(o, got)
  <2>1. \A p \in DOMAIN o.v :
          \/ 2 * Magnitude(attn_index(o, p) * D - far(p)) <= D
          \/ attn_index(o, p) = 255 /\ far(p) > 254 * D
    BY <1>10, <1>23
  <2>2. Total(attn_probs(o)) <= ProbOne
    BY <1>13, <1>15 DEF P
  <2>3. \A p, s \in DOMAIN o.v : raw[p] >= raw[s] => attn_probs(o)[p] >= attn_probs(o)[s]
    BY <1>13, <1>23, <1>28
  <2> HIDE DEF got
  <2>4. QED BY <1>22, <1>27, <1>29, <2>1, <2>2, <2>3, Zenon DEF AttentionMeans, P, B, D, M, raw, R
<1>31. QED BY <1>30 DEF Promised
=============================================================================
