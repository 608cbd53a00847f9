------------------------------ MODULE CpuTasks ------------------------------
(***************************************************************************)
(* The dispatch of work to the secondary cores in src/t_entry.c: the boot  *)
(* wait of t_kernel_main, launch_on_core, wake_all_cores, wait_all_cores   *)
(* and the loop of t_secondary_main.                                       *)
(*                                                                         *)
(* Core 0 launches a task on every secondary core, wakes them, waits for   *)
(* all, and does it again.  The argument and the entry of the task of a    *)
(* round are the number of the round, 0 being the NULL of the bss.         *)
(*                                                                         *)
(* A store goes to its core's buffer and from there to memory; a core      *)
(* reads its own pending stores first.  Only start_flag and done_flag are  *)
(* volatile, and the only barriers are the DSBs of t_secondary_main, so    *)
(* stores to different places may reach memory in any order and the SEV    *)
(* may pass them: that is Ordered = FALSE.  Ordered = TRUE is a machine    *)
(* and a compiler that keep program order.                                 *)
(***************************************************************************)
EXTENDS Integers, Sequences, SequencesExt

CONSTANTS
  N,           \* the secondary cores are 1 .. N
  MaxRounds,   \* bound: how often core 0 hands out work
  Ordered

ASSUME ConstantsOK == /\ N \in Nat \ {0} /\ MaxRounds \in Nat \ {0}
                      /\ Ordered \in BOOLEAN

Second == 1 .. N
Core == 0 .. N
Place == Second \X {"entry", "arg", "start_flag", "done_flag", "cpu_online"}

VARIABLES
  mem,          \* the value of each place
  pending,      \* per core: its stores under way, sequence of <<place, value>>
  event,        \* per secondary core: its event register
  pc,           \* per core
  round, i,     \* core 0: the round, and its loop variable
  fn, arg,      \* the locals of t_secondary_main
  ran           \* per secondary core: the <<entry, arg>> pairs it has called

vars == <<mem, pending, event, pc, round, i, fn, arg, ran>>

Init ==
  /\ mem = [p \in Place |-> 0]
  /\ pending = [c \in Core |-> << >>]
  /\ event = [c \in Second |-> FALSE]
  /\ pc = [c \in Core |-> IF c = 0 THEN "boot" ELSE "off"]
  /\ round = 1 /\ i = 1
  /\ fn = [c \in Second |-> 0] /\ arg = [c \in Second |-> 0]
  /\ ran = [c \in Second |-> << >>]

(* A core sees its own last pending store to a place, else memory. *)
Read(c, p) ==
  LET own == {k \in DOMAIN pending[c] : pending[c][k][1] = p}
  IN IF own = {} THEN mem[p]
     ELSE pending[c][CHOOSE k \in own : \A j \in own : j <= k][2]

Store(c, p, v) == pending' = [pending EXCEPT ![c] = Append(@, <<p, v>>)]

Goto(c, l) == pc' = [pc EXCEPT ![c] = l]

(* A core that keeps program order does nothing past an unfinished store.  *)
MayGo(c) == Ordered => pending[c] = << >>

(* A pending store reaches memory; stores to one place stay in order. *)
Drain(c) ==
  /\ \E k \in DOMAIN pending[c] :
       /\ \A j \in 1 .. k - 1 : pending[c][j][1] # pending[c][k][1]
       /\ mem' = [mem EXCEPT ![pending[c][k][1]] = pending[c][k][2]]
       /\ pending' = [pending EXCEPT ![c] = RemoveAt(@, k)]
  /\ UNCHANGED <<event, pc, round, i, fn, arg, ran>>

-----------------------------------------------------------------------------
(* Core 0. *)

(* All cores are online, or five seconds have passed: both go on.          *)
BootWait ==
  /\ pc[0] = "boot"
  /\ Goto(0, "entry")
  /\ UNCHANGED <<mem, pending, event, round, i, fn, arg, ran>>

(* One store of launch_on_core(i, ...). *)
LaunchStep(from, field, v, to) ==
  /\ pc[0] = from
  /\ Store(0, <<i, field>>, v)
  /\ Goto(0, to)

launch_no_reset ==   \* variant: done_flag is not cleared
  /\ MayGo(0)
  /\ \/ LaunchStep("entry", "entry", round, "arg") /\ UNCHANGED i
     \/ LaunchStep("arg", "arg", round, "start_flag") /\ UNCHANGED i
     \/ /\ LaunchStep("start_flag", "start_flag", 1,
                      IF i = N THEN "wake" ELSE "entry")
        /\ i' = IF i = N THEN 1 ELSE i + 1
  /\ UNCHANGED <<mem, event, round, fn, arg, ran>>

(* Its four stores, in the order of the source; then the next core. *)
launch_on_core ==
  /\ MayGo(0)
  /\ \/ LaunchStep("entry", "entry", round, "arg") /\ UNCHANGED i
     \/ LaunchStep("arg", "arg", round, "done_flag") /\ UNCHANGED i
     \/ LaunchStep("done_flag", "done_flag", 0, "start_flag") /\ UNCHANGED i
     \/ /\ LaunchStep("start_flag", "start_flag", 1,
                      IF i = N THEN "wake" ELSE "entry")
        /\ i' = IF i = N THEN 1 ELSE i + 1
  /\ UNCHANGED <<mem, event, round, fn, arg, ran>>

wake_first_core ==   \* variant: only one core is woken
  /\ MayGo(0)
  /\ pc[0] = "wake"
  /\ event' = [event EXCEPT ![1] = TRUE]
  /\ Goto(0, "wait")
  /\ UNCHANGED <<mem, pending, round, i, fn, arg, ran>>

(* The SEV sets the event register of every core. *)
wake_all_cores ==
  /\ MayGo(0)
  /\ pc[0] = "wake"
  /\ event' = [c \in Second |-> TRUE]
  /\ Goto(0, "wait")
  /\ UNCHANGED <<mem, pending, round, i, fn, arg, ran>>

(* The busy wait, core by core; then the next round. *)
wait_all_cores ==
  /\ MayGo(0)
  /\ pc[0] = "wait"
  /\ Read(0, <<i, "done_flag">>) # 0
  /\ IF i < N THEN i' = i + 1 /\ UNCHANGED <<pc, round>>
     ELSE /\ i' = 1
          /\ round' = round + 1
          /\ Goto(0, IF round = MaxRounds THEN "over" ELSE "entry")
  /\ UNCHANGED <<mem, pending, event, fn, arg, ran>>

MainStep == BootWait \/ launch_on_core \/ wake_all_cores \/ wait_all_cores

-----------------------------------------------------------------------------
(* The secondary cores. *)

(* start_secondary_cpus, the boot code and the first lines of              *)
(* t_secondary_main, at any time: the core is online, then a DSB.          *)
ComeOnline(c) ==
  /\ pc[c] = "off"
  /\ Store(c, <<c, "cpu_online">>, 1)
  /\ Goto(c, "online")
  /\ UNCHANGED <<mem, event, round, i, fn, arg, ran>>

Dsb(c) ==
  /\ pc[c] \in {"online", "dsb"}
  /\ pending[c] = << >>
  /\ Goto(c, IF pc[c] = "online" THEN "check" ELSE "wfe")
  /\ UNCHANGED <<mem, pending, event, round, i, fn, arg, ran>>

Check(c) ==
  /\ pc[c] = "check"
  /\ Goto(c, IF Read(c, <<c, "start_flag">>) # 0 THEN "fn" ELSE "wfe")
  /\ UNCHANGED <<mem, pending, event, round, i, fn, arg, ran>>

ReadEntry(c) ==
  /\ pc[c] = "fn"
  /\ fn' = [fn EXCEPT ![c] = Read(c, <<c, "entry">>)]
  /\ Goto(c, "arg")
  /\ UNCHANGED <<mem, pending, event, round, i, arg, ran>>

ReadArg(c) ==
  /\ pc[c] = "arg"
  /\ arg' = [arg EXCEPT ![c] = Read(c, <<c, "arg">>)]
  /\ Goto(c, "clear")
  /\ UNCHANGED <<mem, pending, event, round, i, fn, ran>>

KeepStart(c) ==   \* variant: the flag is left set
  /\ pc[c] = "clear"
  /\ Goto(c, "call")
  /\ UNCHANGED <<mem, pending, event, round, i, fn, arg, ran>>

ClearStart(c) ==
  /\ pc[c] = "clear"
  /\ Store(c, <<c, "start_flag">>, 0)
  /\ Goto(c, "call")
  /\ UNCHANGED <<mem, event, round, i, fn, arg, ran>>

Call(c) ==
  /\ pc[c] = "call" /\ MayGo(c)
  /\ ran' = IF fn[c] = 0 THEN ran
            ELSE [ran EXCEPT ![c] = Append(@, <<fn[c], arg[c]>>)]
  /\ Goto(c, "set_done")
  /\ UNCHANGED <<mem, pending, event, round, i, fn, arg>>

SetDone(c) ==
  /\ pc[c] = "set_done"
  /\ Store(c, <<c, "done_flag">>, 1)
  /\ Goto(c, "dsb")
  /\ UNCHANGED <<mem, event, round, i, fn, arg, ran>>

(* The WFE returns at once if the event register is set, and clears it.    *)
Wfe(c) ==
  /\ pc[c] = "wfe"
  /\ event[c]
  /\ event' = [event EXCEPT ![c] = FALSE]
  /\ Goto(c, "check")
  /\ UNCHANGED <<mem, pending, round, i, fn, arg, ran>>

SecondStep(c) ==
  \/ ComeOnline(c) \/ Dsb(c) \/ Check(c) \/ ReadEntry(c) \/ ReadArg(c)
  \/ ClearStart(c) \/ Call(c) \/ SetDone(c) \/ Wfe(c)

(* An event from elsewhere, such as a lock that another core releases.     *)
OtherEvent(c) ==
  /\ ~ event[c]
  /\ event' = [event EXCEPT ![c] = TRUE]
  /\ UNCHANGED <<mem, pending, pc, round, i, fn, arg, ran>>

(* Core 0 goes on to its WFI loop, the others sleep. *)
Over ==
  /\ pc[0] = "over"
  /\ UNCHANGED vars

Next ==
  \/ MainStep
  \/ \E c \in Core : Drain(c)
  \/ \E c \in Second : SecondStep(c) \/ OtherEvent(c)
  \/ Over

Spec == Init /\ [][Next]_vars

(* Every core runs, stores reach memory, every core comes up (PSCI         *)
(* succeeds); events from elsewhere may never come.                        *)
FairSpec ==
  /\ Spec
  /\ WF_vars(MainStep)
  /\ \A c \in Core : WF_vars(Drain(c))
  /\ \A c \in Second : WF_vars(SecondStep(c))

-----------------------------------------------------------------------------

TypeOK ==
  /\ mem \in [Place -> 0 .. MaxRounds]
  /\ pending \in [Core -> Seq(Place \X (0 .. MaxRounds))]
  /\ event \in [Second -> BOOLEAN]
  /\ pc \in [Core -> {"boot", "entry", "arg", "done_flag", "start_flag",
                      "wake", "wait", "over", "off", "online", "check", "fn",
                      "clear", "call", "set_done", "dsb", "wfe"}]
  /\ round \in 1 .. MaxRounds + 1
  /\ i \in Second
  /\ fn \in [Second -> 0 .. MaxRounds] /\ arg \in [Second -> 0 .. MaxRounds]
  /\ ran \in [Second -> Seq((0 .. MaxRounds) \X (0 .. MaxRounds))]

(* Each core has called the task of every round once, in order, with the   *)
(* argument of that round: never an old argument with a new entry, and no  *)
(* task twice, however its wake-ups, late start and the launches fall.     *)
EachTaskOnce == \A c \in Second : \A k \in DOMAIN ran[c] : ran[c][k] = <<k, k>>

(* When wait_all_cores has returned from a round, every core has called    *)
(* the task of that round: a done_flag of an earlier round never counts.   *)
JoinMeansRun == \A c \in Second : Len(ran[c]) >= round - 1

(* Every round ends: no wake-up is lost between the check and the WFE.     *)
EveryRoundEnds == <>(pc[0] = "over")

(* What the comment of wake_all_cores says: once core 0 has called it, all *)
(* secondary cores start to execute their task.                            *)
AllCoresStart ==
  \A c \in Second : \A r \in 1 .. MaxRounds :
    (pc[0] = "wait" /\ round = r) ~> (Len(ran[c]) >= r)
=============================================================================
