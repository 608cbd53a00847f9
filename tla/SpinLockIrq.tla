---------------------------- MODULE SpinLockIrq ----------------------------
(***************************************************************************)
(* spin_lock_irqsave, spin_trylock_irqsave and spin_unlock_irqrestore of   *)
(* src/lib/t_spinlock.S, instruction by instruction, on one spinlock_irq_t *)
(* that several cores and their interrupt handlers share, as they share    *)
(* the logger's print_lock.                                                *)
(*                                                                         *)
(* A core runs two contexts: its main program and, above it, its interrupt *)
(* handler, which may take the same lock (job_done logs its errors).  The  *)
(* exclusive monitor of ldaxr/stlxr is a flag per core: armed by ldaxr,    *)
(* cleared by another core's store to the lock structure (both words lie   *)
(* in one granule) and by taking or leaving an interrupt.                  *)
(***************************************************************************)
EXTENDS Naturals

CONSTANTS
  Core,      \* the cores
  IrqCore,   \* cores that enabled interrupts: core 0 in t_kernel_main
  MaxCalls,  \* bound: lock calls of one context
  MaxIrqs    \* bound: interrupts one core takes

ASSUME Bounds == IrqCore \subseteq Core /\ MaxCalls \in Nat /\ MaxIrqs \in Nat

(* A context is a core and a level. *)
Ctx == Core \X {"main", "irq"}
main(c) == <<c, "main">>
irq(c) == <<c, "irq">>

VARIABLES
  lock,       \* lock->lock
  irq_flags,  \* lock->irq_flags, of which only the IRQ mask bit matters
  masked,     \* DAIF.I of each core
  monitor,    \* the exclusive monitor of each core
  pc,         \* the instruction each context is about to run
  x2,         \* the DAIF value a context read or loaded
  call,       \* the call a context is in: "lock" or "trylock"
  entry,      \* DAIF.I of the core when the call began
  calls,      \* lock calls made by each context
  handling,   \* the cores whose interrupt handler is active
  irqs        \* interrupts each core has taken

vars == <<lock, irq_flags, masked, monitor, pc, x2, call, entry, calls,
          handling, irqs>>

(* The context that executes instructions on its core. *)
Running(t) == IF t[2] = "irq" THEN t[1] \in handling ELSE t[1] \notin handling

At(t, label) == Running(t) /\ pc[t] = label

Goto(t, label) == pc' = [pc EXCEPT ![t] = label]

(* A store to the lock structure takes the other cores' monitors away. *)
StoreFrom(c) == monitor' = [d \in Core |-> d = c /\ monitor[d]]

Init ==
  /\ lock = 0
  /\ irq_flags = FALSE
  /\ masked = [c \in Core |-> c \notin IrqCore]
  /\ monitor = [c \in Core |-> FALSE]
  /\ pc = [t \in Ctx |-> "out"]
  /\ x2 = [t \in Ctx |-> FALSE]
  /\ call = [t \in Ctx |-> "lock"]
  /\ entry = [t \in Ctx |-> FALSE]
  /\ calls = [t \in Ctx |-> 0]
  /\ handling = {}
  /\ irqs = [c \in Core |-> 0]

(* The call, and mrs x2, daif. *)
Mrs(t, kind) ==
  /\ At(t, "out")
  /\ calls[t] < MaxCalls
  /\ calls' = [calls EXCEPT ![t] = @ + 1]
  /\ call' = [call EXCEPT ![t] = kind]
  /\ entry' = [entry EXCEPT ![t] = masked[t[1]]]
  /\ x2' = [x2 EXCEPT ![t] = masked[t[1]]]
  /\ Goto(t, "str")
  /\ UNCHANGED <<lock, irq_flags, masked, monitor, handling, irqs>>

(* str w2, [x0, #4]: before the interrupts are masked, before the lock is  *)
(* held.                                                                   *)
Str(t) ==
  /\ At(t, "str")
  /\ irq_flags' = x2[t]
  /\ StoreFrom(t[1])
  /\ Goto(t, "mask")
  /\ UNCHANGED <<lock, masked, x2, call, entry, calls, handling, irqs>>

NoMask(t) ==   \* variant: msr daifset left out
  /\ At(t, "mask")
  /\ Goto(t, "ldaxr")
  /\ UNCHANGED <<lock, irq_flags, masked, monitor, x2, call, entry, calls,
                 handling, irqs>>

(* msr daifset, #2. *)
Mask(t) ==
  /\ At(t, "mask")
  /\ masked' = [masked EXCEPT ![t[1]] = TRUE]
  /\ Goto(t, "ldaxr")
  /\ UNCHANGED <<lock, irq_flags, monitor, x2, call, entry, calls, handling,
                 irqs>>

(* ldaxr and cbnz: a lock that is taken makes spin_lock_irqsave spin and   *)
(* spin_trylock_irqsave give up.                                           *)
Ldaxr(t) ==
  /\ At(t, "ldaxr")
  /\ monitor' = [monitor EXCEPT ![t[1]] = TRUE]
  /\ \/ lock = 0 /\ Goto(t, "stlxr")
     \/ lock = 1 /\ call[t] = "lock" /\ UNCHANGED pc
     \/ lock = 1 /\ call[t] = "trylock" /\ Goto(t, "ldr_fail")
  /\ UNCHANGED <<lock, irq_flags, masked, x2, call, entry, calls, handling,
                 irqs>>

StlxrPlainStore(t) ==   \* variant: str instead of stlxr
  /\ At(t, "stlxr")
  /\ lock' = 1
  /\ monitor' = [c \in Core |-> FALSE]
  /\ Goto(t, "held")
  /\ UNCHANGED <<irq_flags, masked, x2, call, entry, calls, handling, irqs>>

(* stlxr and cbnz, with the exclusive still armed and without. *)
Stlxr(t) ==
  /\ At(t, "stlxr")
  /\ \/ /\ monitor[t[1]]
        /\ lock' = 1
        /\ monitor' = [c \in Core |-> FALSE]
        /\ Goto(t, "held")
     \/ /\ ~monitor[t[1]]
        /\ UNCHANGED <<lock, monitor>>
        /\ \/ call[t] = "lock" /\ Goto(t, "ldaxr")
           \/ call[t] = "trylock" /\ Goto(t, "ldr_fail")
  /\ UNCHANGED <<irq_flags, masked, x2, call, entry, calls, handling, irqs>>

(* spin_unlock_irqrestore: stlr w1, [x0]. *)
Stlr(t) ==
  /\ At(t, "held")
  /\ lock' = 0
  /\ StoreFrom(t[1])
  /\ Goto(t, "ldr")
  /\ UNCHANGED <<irq_flags, masked, x2, call, entry, calls, handling, irqs>>

(* ldr of lock->irq_flags, after the lock was given up, or after a failed  *)
(* attempt.                                                                *)
Ldr(t) ==
  /\ At(t, "ldr") \/ At(t, "ldr_fail")
  /\ x2' = [x2 EXCEPT ![t] = irq_flags]
  /\ Goto(t, "restore")
  /\ UNCHANGED <<lock, irq_flags, masked, monitor, call, entry, calls,
                 handling, irqs>>

(* msr daif and ret. *)
Restore(t) ==
  /\ At(t, "restore")
  /\ masked' = [masked EXCEPT ![t[1]] = x2[t]]
  /\ Goto(t, "out")
  /\ UNCHANGED <<lock, irq_flags, monitor, x2, call, entry, calls, handling,
                 irqs>>

Step(t) ==
  \/ \E kind \in {"lock", "trylock"} : Mrs(t, kind)
  \/ Str(t) \/ Mask(t) \/ Ldaxr(t) \/ Stlxr(t) \/ Stlr(t) \/ Ldr(t)
  \/ Restore(t)

(* An interrupt is taken where DAIF allows it.  The handler itself is not  *)
(* interrupted: until gicv3_write_eoir, its last call, the priority of the *)
(* interrupt it runs keeps others away.                                    *)
Interrupt(c) ==
  /\ c \in IrqCore
  /\ ~masked[c]
  /\ c \notin handling
  /\ irqs[c] < MaxIrqs
  /\ irqs' = [irqs EXCEPT ![c] = @ + 1]
  /\ handling' = handling \cup {c}
  /\ masked' = [masked EXCEPT ![c] = TRUE]
  /\ monitor' = [monitor EXCEPT ![c] = FALSE]
  /\ UNCHANGED <<lock, irq_flags, pc, x2, call, entry, calls>>

(* eret: the SPSR saved at entry had the interrupts unmasked. *)
Eret(c) ==
  /\ c \in handling
  /\ pc[irq(c)] = "out"
  /\ handling' = handling \ {c}
  /\ masked' = [masked EXCEPT ![c] = FALSE]
  /\ monitor' = [monitor EXCEPT ![c] = FALSE]
  /\ UNCHANGED <<lock, irq_flags, pc, x2, call, entry, calls, irqs>>

Next == \/ \E t \in Ctx : Step(t)
        \/ \E c \in Core : Interrupt(c) \/ Eret(c)

Spec == Init /\ [][Next]_vars

(* Every core executes its instructions, in the main program and in the    *)
(* handler, and a handler returns; a core need not call the lock again.    *)
InCall(t) == pc[t] # "out" /\ Step(t)

FairSpec == /\ Spec
            /\ \A t \in Ctx : WF_vars(InCall(t))
            /\ \A c \in Core : WF_vars(Eret(c))

-----------------------------------------------------------------------------
(* Properties. *)

Label == {"out", "str", "mask", "ldaxr", "stlxr", "held", "ldr", "ldr_fail",
          "restore"}

TypeOK ==
  /\ lock \in {0, 1}
  /\ irq_flags \in BOOLEAN
  /\ masked \in [Core -> BOOLEAN]
  /\ monitor \in [Core -> BOOLEAN]
  /\ pc \in [Ctx -> Label]
  /\ x2 \in [Ctx -> BOOLEAN]
  /\ call \in [Ctx -> {"lock", "trylock"}]
  /\ entry \in [Ctx -> BOOLEAN]
  /\ calls \in [Ctx -> Nat]
  /\ handling \subseteq Core
  /\ irqs \in [Core -> Nat]

(* At most one context, of all cores and handlers, is between lock and     *)
(* unlock.                                                                 *)
MutualExclusion ==
  \A t, u \in Ctx : pc[t] = "held" /\ pc[u] = "held" => t = u

(* The lock word says 1 exactly when a context is between lock and unlock: *)
(* no path through trylock or a failed stlxr leaves it set.                *)
LockWordExact == lock = 1 <=> \E t \in Ctx : pc[t] = "held"

(* The header's promise of no deadlock: a handler never runs on a core     *)
(* whose main program is in the middle of taking the lock or holds it, so  *)
(* it never spins for a lock its own core cannot give up.                  *)
Guarded == {"ldaxr", "stlxr", "held"}

HandlerNeverWaitsForMain ==
  \A c \in handling : pc[main(c)] \notin Guarded

(* Every call returns: a waiting core gets the lock, a holder gives it up  *)
(* (when the number of calls is finite: the lock is not fair).             *)
EveryCallReturns == \A t \in Ctx : pc[t] # "out" ~> pc[t] = "out"

(* t_spinlock.h: releasing the lock restores the interrupt state, that is  *)
(* the state the core had when it called spin_lock_irqsave.                *)
InterruptStateRestored ==
  [][\A t \in Ctx : pc[t] = "restore" /\ pc'[t] = "out"
                      => masked'[t[1]] = entry[t]]_vars
=============================================================================
