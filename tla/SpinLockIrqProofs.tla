------------------------- MODULE SpinLockIrqProofs -------------------------
(***************************************************************************)
(* Mutual exclusion, the lock word and the absence of self-deadlock of     *)
(* SpinLockIrq, for every number of cores, calls and interrupts.           *)
(***************************************************************************)
EXTENDS SpinLockIrq, TLAPS

(* A context past daifset has its core's interrupts masked; its handler is *)
(* active if it is the handler; an armed monitor under stlxr vouches for a *)
(* free lock; and the lock word is 1 exactly while somebody holds it.      *)
LockInv ==
  /\ TypeOK
  /\ \A t \in Ctx : pc[t] \in Guarded => masked[t[1]]
  /\ \A t \in Ctx : t[2] = "irq" /\ pc[t] # "out" => t[1] \in handling
  /\ HandlerNeverWaitsForMain
  /\ \A t \in Ctx : pc[t] = "stlxr" /\ monitor[t[1]] => lock = 0
  /\ MutualExclusion
  /\ LockWordExact

LEMMA CtxFacts ==
  /\ \A t \in Ctx : t[1] \in Core /\ (t[2] = "main" \/ t[2] = "irq")
                    /\ t = <<t[1], t[2]>>
  /\ \A c \in Core : main(c) \in Ctx /\ irq(c) \in Ctx
  /\ \A t, u \in Ctx : t[1] = u[1] /\ t[2] = u[2] => t = u
BY DEF Ctx, main, irq

(* Two contexts of one core never both execute: what is guarded on a core  *)
(* is guarded by the context that runs there.                              *)
LEMMA OneRuns ==
  ASSUME LockInv, NEW t \in Ctx, NEW u \in Ctx, Running(t),
         pc[u] \in Guarded, t[1] = u[1]
  PROVE  t = u
<1>1. pc[u] # "out"
  BY DEF Guarded
<1>2. CASE t[2] = "irq" /\ u[2] = "main"
  <2>1. u = main(t[1]) /\ t[1] \in handling
    BY <1>2, CtxFacts DEF Running, main
  <2>2. QED BY <2>1 DEF LockInv, HandlerNeverWaitsForMain
<1>3. CASE t[2] = "main" /\ u[2] = "irq"
  BY <1>1, <1>3 DEF LockInv, Running
<1>4. QED BY <1>2, <1>3, CtxFacts

LEMMA LockInit == Init => LockInv
<1> SUFFICES ASSUME Init PROVE LockInv
  OBVIOUS
<1>1. TypeOK
  BY DEF Init, TypeOK, Label
<1>2. \A t \in Ctx : pc[t] = "out"
  BY DEF Init
<1>3. QED
  BY <1>1, <1>2
  DEF LockInv, Guarded, HandlerNeverWaitsForMain, MutualExclusion,
      LockWordExact, Init

(* Steps after which nobody holds what nobody held before, and the lock    *)
(* word stays as it is.                                                    *)
LEMMA QuietStep ==
  ASSUME LockInv, NEW t \in Ctx, Running(t), TypeOK',
         lock' = lock, handling' = handling,
         pc[t] # "held", pc'[t] # "held",
         \A u \in Ctx : u # t => pc'[u] = pc[u],
         \A c \in Core : c # t[1] => masked'[c] = masked[c],
         pc'[t] \in Guarded => masked'[t[1]],
         \A c \in Core : c # t[1] /\ monitor'[c] => monitor[c],
         pc'[t] = "stlxr" /\ monitor'[t[1]] => lock = 0
  PROVE  LockInv'
<1>1. \A u \in Ctx : u[1] = t[1] /\ u # t => pc[u] \notin Guarded
  BY OneRuns
<1>2. (\A u \in Ctx : pc[u] \in Guarded => masked[u[1]])'
  BY <1>1, CtxFacts DEF LockInv
<1>3. (\A u \in Ctx : u[2] = "irq" /\ pc[u] # "out" => u[1] \in handling)'
  BY CtxFacts DEF LockInv, Running
<1>4. HandlerNeverWaitsForMain'
  <2> SUFFICES ASSUME NEW c \in handling
               PROVE  pc'[main(c)] \notin Guarded
    BY DEF HandlerNeverWaitsForMain
  <2>1. c \in Core /\ main(c) \in Ctx
    BY CtxFacts DEF LockInv, TypeOK
  <2>2. main(c) # t
    BY <2>1 DEF Running, main
  <2>3. QED BY <2>1, <2>2 DEF LockInv, HandlerNeverWaitsForMain
<1>5. (\A u \in Ctx : pc[u] = "stlxr" /\ monitor[u[1]] => lock = 0)'
  BY <1>1, CtxFacts DEF LockInv, Guarded
<1>6. \A u \in Ctx : pc'[u] = "held" <=> pc[u] = "held"
  OBVIOUS
<1>7. MutualExclusion' /\ LockWordExact'
  BY <1>6 DEF LockInv, MutualExclusion, LockWordExact
<1>8. QED BY <1>2, <1>3, <1>4, <1>5, <1>7 DEF LockInv

LEMMA StepInv ==
  ASSUME LockInv, NEW t \in Ctx, Step(t)
  PROVE  LockInv'
<1>1. TypeOK /\ t[1] \in Core
  BY CtxFacts DEF LockInv
<1>2. ASSUME NEW kind \in {"lock", "trylock"}, Mrs(t, kind)
      PROVE  LockInv'
  <2>1. TypeOK'
    BY <1>1, <1>2 DEF Mrs, TypeOK, Goto, Label
  <2>2. QED
    BY <1>1, <1>2, <2>1, QuietStep DEF Mrs, At, Goto, TypeOK, Guarded
<1>3. CASE Str(t)
  <2>1. TypeOK'
    BY <1>1, <1>3 DEF Str, TypeOK, Goto, Label, StoreFrom
  <2>2. QED
    BY <1>1, <1>3, <2>1, QuietStep
    DEF Str, At, Goto, StoreFrom, TypeOK, Guarded
<1>4. CASE Mask(t)
  <2>1. TypeOK'
    BY <1>1, <1>4 DEF Mask, TypeOK, Goto, Label
  <2>2. QED
    BY <1>1, <1>4, <2>1, QuietStep DEF Mask, At, Goto, TypeOK, Guarded
<1>5. CASE Ldaxr(t)
  <2>1. TypeOK'
    BY <1>1, <1>5 DEF Ldaxr, TypeOK, Goto, Label
  <2>2. masked[t[1]]
    BY <1>5 DEF Ldaxr, At, LockInv, Guarded
  <2>3. QED
    BY <1>1, <1>5, <2>1, <2>2, QuietStep DEF Ldaxr, At, Goto, TypeOK, Guarded
<1>6. CASE Stlxr(t)
  <2>1. TypeOK'
    BY <1>1, <1>6 DEF Stlxr, TypeOK, Goto, Label
  <2>2. masked[t[1]]
    BY <1>6 DEF Stlxr, At, LockInv, Guarded
  <2>3. CASE ~monitor[t[1]]
    BY <1>1, <1>6, <2>1, <2>2, <2>3, QuietStep
    DEF Stlxr, At, Goto, TypeOK, Guarded
  <2>4. CASE monitor[t[1]]
    <3>1. /\ lock = 0 /\ lock' = 1 /\ pc' = [pc EXCEPT ![t] = "held"]
          /\ pc[t] = "stlxr" /\ Running(t)
          /\ \A c \in Core : ~monitor'[c]
          /\ masked' = masked /\ handling' = handling
      BY <1>6, <2>4 DEF Stlxr, At, Goto, LockInv
    <3>2. \A u \in Ctx : pc[u] # "held"
      BY <3>1 DEF LockInv, LockWordExact
    <3>3. pc'[t] = "held" /\ \A u \in Ctx : u # t => pc'[u] = pc[u]
      BY <3>1, <1>1 DEF TypeOK
    <3>4. MutualExclusion' /\ LockWordExact'
      BY <3>1, <3>2, <3>3 DEF MutualExclusion, LockWordExact
    <3>5. HandlerNeverWaitsForMain'
      BY <3>1, <3>3, CtxFacts
      DEF LockInv, HandlerNeverWaitsForMain, Guarded, TypeOK
    <3>6. (\A u \in Ctx : pc[u] \in Guarded => masked[u[1]])'
      BY <3>1, <3>3, <2>2 DEF LockInv
    <3>7. (\A u \in Ctx : u[2] = "irq" /\ pc[u] # "out" => u[1] \in handling)'
      BY <3>1, <3>3 DEF LockInv
    <3>8. (\A u \in Ctx : pc[u] = "stlxr" /\ monitor[u[1]] => lock = 0)'
      BY <3>1, CtxFacts
    <3>9. QED BY <2>1, <3>4, <3>5, <3>6, <3>7, <3>8 DEF LockInv
  <2>5. QED BY <2>3, <2>4
<1>7. CASE Stlr(t)
  <2>1. TypeOK'
    BY <1>1, <1>7 DEF Stlr, TypeOK, Goto, Label, StoreFrom
  <2>2. /\ lock' = 0 /\ pc' = [pc EXCEPT ![t] = "ldr"] /\ pc[t] = "held"
        /\ masked' = masked /\ handling' = handling /\ Running(t)
    BY <1>7 DEF Stlr, At, Goto
  <2>3. pc'[t] = "ldr" /\ \A u \in Ctx : u # t => pc'[u] = pc[u]
    BY <2>2, <1>1 DEF TypeOK
  <2>4. \A u \in Ctx : pc'[u] # "held"
    BY <2>2, <2>3 DEF LockInv, MutualExclusion
  <2>5. MutualExclusion' /\ LockWordExact'
    BY <2>2, <2>4 DEF MutualExclusion, LockWordExact
  <2>6. HandlerNeverWaitsForMain'
    BY <2>2, <2>3, CtxFacts
    DEF LockInv, HandlerNeverWaitsForMain, Guarded, TypeOK
  <2>7. (\A u \in Ctx : pc[u] \in Guarded => masked[u[1]])'
    BY <2>2, <2>3 DEF LockInv, Guarded
  <2>8. (\A u \in Ctx : u[2] = "irq" /\ pc[u] # "out" => u[1] \in handling)'
    BY <2>2, <2>3 DEF LockInv
  <2>9. (\A u \in Ctx : pc[u] = "stlxr" /\ monitor[u[1]] => lock = 0)'
    BY <2>2
  <2>10. QED BY <2>1, <2>5, <2>6, <2>7, <2>8, <2>9 DEF LockInv
<1>8. CASE Ldr(t)
  <2>1. TypeOK'
    BY <1>1, <1>8 DEF Ldr, TypeOK, Goto, Label
  <2>2. QED
    BY <1>1, <1>8, <2>1, QuietStep DEF Ldr, At, Goto, TypeOK, Guarded
<1>9. CASE Restore(t)
  <2>1. TypeOK'
    BY <1>1, <1>9 DEF Restore, TypeOK, Goto, Label
  <2>2. QED
    BY <1>1, <1>9, <2>1, QuietStep DEF Restore, At, Goto, TypeOK, Guarded
<1>10. QED
  BY <1>2, <1>3, <1>4, <1>5, <1>6, <1>7, <1>8, <1>9 DEF Step

LEMMA InterruptInv ==
  ASSUME LockInv, NEW c \in Core, Interrupt(c)
  PROVE  LockInv'
<1>1. TypeOK'
  BY DEF LockInv, TypeOK, Interrupt
<1>2. /\ c \notin handling /\ ~masked[c] /\ handling' = handling \cup {c}
      /\ lock' = lock /\ pc' = pc
      /\ \A d \in Core : masked[d] => masked'[d]
      /\ \A d \in Core : monitor'[d] => monitor[d]
  BY DEF Interrupt, LockInv, TypeOK
<1>3. HandlerNeverWaitsForMain'
  <2>1. main(c) \in Ctx /\ main(c)[1] = c
    BY CtxFacts DEF main
  <2>2. pc[main(c)] \notin Guarded
    BY <2>1, <1>2 DEF LockInv
  <2>3. QED BY <2>2, <1>2 DEF LockInv, HandlerNeverWaitsForMain
<1>4. QED
  BY <1>1, <1>2, <1>3, CtxFacts DEF LockInv, MutualExclusion, LockWordExact

LEMMA EretInv ==
  ASSUME LockInv, NEW c \in Core, Eret(c)
  PROVE  LockInv'
<1>1. TypeOK'
  BY DEF LockInv, TypeOK, Eret
<1>2. /\ c \in handling /\ pc[irq(c)] = "out" /\ handling' = handling \ {c}
      /\ lock' = lock /\ pc' = pc
      /\ \A d \in Core : d # c => masked'[d] = masked[d]
      /\ \A d \in Core : monitor'[d] => monitor[d]
  BY DEF Eret, LockInv, TypeOK
<1>3. \A t \in Ctx : t[1] = c => pc[t] \notin Guarded
  <2> SUFFICES ASSUME NEW t \in Ctx, t[1] = c PROVE pc[t] \notin Guarded
    OBVIOUS
  <2>1. CASE t[2] = "irq"
    <3>1. t = irq(c)
      BY <2>1, CtxFacts DEF irq
    <3>2. QED BY <3>1, <1>2 DEF Guarded
  <2>2. CASE t[2] = "main"
    <3>1. t = main(c)
      BY <2>2, CtxFacts DEF main
    <3>2. QED BY <3>1, <1>2 DEF LockInv, HandlerNeverWaitsForMain
  <2>3. QED BY <2>1, <2>2, CtxFacts
<1>4. (\A t \in Ctx : pc[t] \in Guarded => masked[t[1]])'
  BY <1>2, <1>3, CtxFacts DEF LockInv
<1>5. (\A t \in Ctx : t[2] = "irq" /\ pc[t] # "out" => t[1] \in handling)'
  <2> SUFFICES ASSUME NEW t \in Ctx, t[2] = "irq", pc[t] # "out"
               PROVE  t[1] \in handling \ {c}
    BY <1>2
  <2>1. t # irq(c)
    BY <1>2
  <2>2. t[1] # c
    BY <2>1, CtxFacts DEF irq
  <2>3. QED BY <2>2 DEF LockInv
<1>6. QED
  BY <1>1, <1>2, <1>4, <1>5, CtxFacts
  DEF LockInv, MutualExclusion, LockWordExact, HandlerNeverWaitsForMain

LEMMA LockNext == LockInv /\ [Next]_vars => LockInv'
<1> SUFFICES ASSUME LockInv, [Next]_vars PROVE LockInv'
  OBVIOUS
<1>1. CASE UNCHANGED vars
  BY <1>1 DEF vars, LockInv, TypeOK, HandlerNeverWaitsForMain,
              MutualExclusion, LockWordExact
<1>2. CASE Next
  BY <1>2, StepInv, InterruptInv, EretInv DEF Next
<1>3. QED BY <1>1, <1>2

(* At most one context of all cores and handlers is between lock and       *)
(* unlock, the lock word tells, and no handler runs above a main program   *)
(* that is taking or holding the lock: the deadlock that t_spinlock.h      *)
(* promises to avoid is avoided, although the interrupt state is not       *)
(* restored (see the run that refutes InterruptStateRestored).             *)
THEOREM LockIsSafe ==
  Spec => [](TypeOK /\ MutualExclusion /\ LockWordExact
             /\ HandlerNeverWaitsForMain)
<1>1. LockInv => TypeOK /\ MutualExclusion /\ LockWordExact
                 /\ HandlerNeverWaitsForMain
  BY DEF LockInv
<1>2. QED BY <1>1, LockInit, LockNext, PTL DEF Spec

(* A handler on the core that holds the lock never spins on it: interrupts *)
(* are masked from before the acquisition until after the release.         *)
THEOREM HandlersNeverWaitForTheirCore == Spec => []HandlerNeverWaitsForMain
<1>1. LockInv => HandlerNeverWaitsForMain
  BY DEF LockInv
<1>2. QED BY <1>1, LockInit, LockNext, PTL DEF Spec
=============================================================================
