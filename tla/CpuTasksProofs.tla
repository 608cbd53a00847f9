--------------------------- MODULE CpuTasksProofs ---------------------------
(***************************************************************************)
(* Theorems about CpuTasks, on a machine that keeps program order: for     *)
(* every number of secondary cores and of rounds, each core calls each     *)
(* task once with its own argument, and the join waits for all of them.    *)
(***************************************************************************)
EXTENDS CpuTasks, TLAPS

-----------------------------------------------------------------------------
(* The inductive invariant.                                                *)

One(p, v) == << <<p, v>> >>

(* launch_on_core(c, ..) has made its last store in this round.            *)
Launched(c) ==
  \/ pc[0] \in {"wake", "wait"}
  \/ pc[0] \in {"entry", "arg", "done_flag", "start_flag"} /\ c < i

StartPending(c) == pending[0] = One(<<c, "start_flag">>, 1)

(* Core c can see its start_flag.                                          *)
Visible(c) == Launched(c) /\ ~ StartPending(c)

(* The task of this round is in memory.                                    *)
Given(c) ==
  /\ mem[<<c, "entry">>] = round
  /\ mem[<<c, "arg">>] = round
  /\ mem[<<c, "done_flag">>] = 0

(* Core c is off, comes online, sleeps or looks at its flag.               *)
Quiet(c) ==
  \/ pc[c] \in {"off", "online", "check", "wfe", "dsb"} /\ pending[c] = << >>
  \/ pc[c] = "online" /\ pending[c] = One(<<c, "cpu_online">>, 1)

NotYet(c) ==
  /\ ~ Visible(c) /\ Quiet(c)
  /\ mem[<<c, "start_flag">>] = 0
  /\ Len(ran[c]) = round - 1

Ready(c) ==
  /\ Visible(c) /\ Quiet(c) /\ Given(c)
  /\ mem[<<c, "start_flag">>] = 1
  /\ Len(ran[c]) = round - 1

Reading(c) ==
  /\ Visible(c) /\ Given(c)
  /\ pc[c] \in {"fn", "arg", "clear"}
  /\ pending[c] = << >>
  /\ mem[<<c, "start_flag">>] = 1
  /\ pc[c] # "fn" => fn[c] = round
  /\ pc[c] = "clear" => arg[c] = round
  /\ Len(ran[c]) = round - 1

Calling(c) ==
  /\ Visible(c)
  /\ pc[c] = "call"
  /\ \/ pending[c] = << >> /\ mem[<<c, "start_flag">>] = 0
     \/ pending[c] = One(<<c, "start_flag">>, 0)
  /\ fn[c] = round /\ arg[c] = round
  /\ mem[<<c, "done_flag">>] = 0
  /\ Len(ran[c]) = round - 1

Called(c) ==
  /\ Visible(c)
  /\ \/ pc[c] = "set_done" /\ pending[c] = << >>
     \/ pc[c] = "dsb" /\ pending[c] = One(<<c, "done_flag">>, 1)
  /\ mem[<<c, "start_flag">>] = 0 /\ mem[<<c, "done_flag">>] = 0
  /\ Len(ran[c]) = round

Finished(c) ==
  /\ Visible(c) /\ Quiet(c)
  /\ mem[<<c, "start_flag">>] = 0 /\ mem[<<c, "done_flag">>] = 1
  /\ Len(ran[c]) = round

CoreInv(c) ==
  \/ NotYet(c) \/ Ready(c) \/ Reading(c)
  \/ Calling(c) \/ Called(c) \/ Finished(c)

(* What core 0 has stored, and what of it has reached memory.              *)
Launching ==
  \/ /\ pc[0] = "boot" /\ pending[0] = << >> /\ i = 1
  \/ /\ pc[0] = "entry"
     /\ \/ pending[0] = << >>
        \/ \E c \in Second : c = i - 1 /\ StartPending(c) /\ Given(c)
  \/ /\ pc[0] = "arg"
     /\ \/ pending[0] = << >> /\ mem[<<i, "entry">>] = round
        \/ pending[0] = One(<<i, "entry">>, round)
  \/ /\ pc[0] = "done_flag"
     /\ mem[<<i, "entry">>] = round
     /\ \/ pending[0] = << >> /\ mem[<<i, "arg">>] = round
        \/ pending[0] = One(<<i, "arg">>, round)
  \/ /\ pc[0] = "start_flag"
     /\ mem[<<i, "entry">>] = round /\ mem[<<i, "arg">>] = round
     /\ \/ pending[0] = << >> /\ mem[<<i, "done_flag">>] = 0
        \/ pending[0] = One(<<i, "done_flag">>, 0)

Joining ==
  \/ /\ pc[0] = "wake" /\ i = 1
     /\ pending[0] = << >> \/ (StartPending(N) /\ Given(N))
  \/ /\ pc[0] = "wait" /\ pending[0] = << >>
     /\ \A c \in Second : c < i => mem[<<c, "done_flag">>] = 1
  \/ /\ pc[0] = "over" /\ pending[0] = << >>

MainInv ==
  /\ Launching \/ Joining
  /\ pc[0] # "over" => round <= MaxRounds

IInv ==
  /\ TypeOK
  /\ MainInv
  /\ \A c \in Second : CoreInv(c)
  /\ EachTaskOnce

-----------------------------------------------------------------------------
(* Sequences of at most one store.                                         *)

LEMMA OneFacts ==
  ASSUME NEW p, NEW v
  PROVE  /\ One(p, v) # << >>
         /\ DOMAIN One(p, v) = {1}
         /\ One(p, v)[1] = <<p, v>>
         /\ RemoveAt(One(p, v), 1) = << >>
         /\ Append(<< >>, <<p, v>>) = One(p, v)
<1> DEFINE s == One(p, v)
<1>1. s # << >> /\ DOMAIN s = {1} /\ s[1] = <<p, v>> /\ Len(s) = 1
  BY DEF One
<1>2. s \in Seq({<<p, v>>})
  BY DEF One
<1>3. SubSeq(s, 1, 0) = << >> /\ SubSeq(s, 2, 1) = << >>
  BY <1>2
<1>4. RemoveAt(s, 1) = << >>
  BY <1>1, <1>3 DEF RemoveAt
<1>5. Append(<< >>, <<p, v>>) = s
  BY DEF One
<1>6. QED BY <1>1, <1>4, <1>5

LEMMA OneInjective ==
  ASSUME NEW p, NEW v, NEW q, NEW w, One(p, v) = One(q, w)
  PROVE  p = q /\ v = w
BY DEF One

(* A store from an empty buffer, and what it later does to memory.         *)
LEMMA StoreOne ==
  ASSUME TypeOK, NEW c \in Core, NEW p, NEW v,
         pending[c] = << >>, Store(c, p, v)
  PROVE  /\ pending'[c] = One(p, v)
         /\ \A d \in Core : d # c => pending'[d] = pending[d]
         /\ pending' = [pending EXCEPT ![c] = One(p, v)]
<1>1. pending' = [pending EXCEPT ![c] = One(p, v)]
  BY OneFacts DEF Store
<1>2. QED BY <1>1 DEF TypeOK

LEMMA OneTyped ==
  ASSUME NEW p \in Place, NEW v \in 0 .. MaxRounds
  PROVE  One(p, v) \in Seq(Place \X (0 .. MaxRounds))
<1> DEFINE S == Place \X (0 .. MaxRounds)
<1>1. <<p, v>> \in S
  OBVIOUS
<1>2. One(p, v) \in Seq(S)
  <2> HIDE DEF S
  <2> QED BY <1>1 DEF One
<1>3. QED BY <1>2

LEMMA ReadMem ==
  ASSUME NEW c \in Core, NEW p, pending[c] = << >>
  PROVE  Read(c, p) = mem[p]
BY DEF Read

LEMMA DrainOne ==
  ASSUME NEW c \in Core, Drain(c), NEW p, NEW v,
         pending[c] = << >> \/ pending[c] = One(p, v)
  PROVE  /\ pending[c] = One(p, v)
         /\ mem' = [mem EXCEPT ![p] = v]
         /\ pending' = [pending EXCEPT ![c] = << >>]
<1>1. pending[c] # << >>
  BY DEF Drain
<1>2. pending[c] = One(p, v)
  BY <1>1
<1>3. PICK k \in DOMAIN pending[c] :
        /\ mem' = [mem EXCEPT ![pending[c][k][1]] = pending[c][k][2]]
        /\ pending' = [pending EXCEPT ![c] = RemoveAt(@, k)]
  BY DEF Drain
<1>4. k = 1
  BY <1>2, <1>3, OneFacts
<1>5. pending[c][1] = <<p, v>>
  BY <1>2, OneFacts
<1>6. mem' = [mem EXCEPT ![p] = v]
  BY <1>3, <1>4, <1>5
<1>7. pending' = [pending EXCEPT ![c] = << >>]
  BY <1>2, <1>3, <1>4, OneFacts
<1>8. QED BY <1>2, <1>6, <1>7

-----------------------------------------------------------------------------
(* The places of a core, and who is not core 0.                            *)
LEMMA PlaceFacts ==
  /\ \A c \in Second : c \in Core /\ c # 0 /\ c \in Nat
  /\ 0 \in Core /\ N \in Second /\ 1 \in Second /\ N \in Nat
  /\ MaxRounds \in Nat /\ MaxRounds >= 1
  /\ \A c \in Second :
       \A f \in {"entry", "arg", "start_flag", "done_flag", "cpu_online"} :
         <<c, f>> \in Place
BY ConstantsOK DEF Second, Core, Place

(* Steps that do not touch core c, nor what it can see.                    *)
LEMMA CoreFrame ==
  ASSUME NEW c \in Second, CoreInv(c),
         pc'[c] = pc[c], pending'[c] = pending[c],
         mem'[<<c, "entry">>] = mem[<<c, "entry">>],
         mem'[<<c, "arg">>] = mem[<<c, "arg">>],
         mem'[<<c, "start_flag">>] = mem[<<c, "start_flag">>],
         mem'[<<c, "done_flag">>] = mem[<<c, "done_flag">>],
         fn'[c] = fn[c], arg'[c] = arg[c], ran'[c] = ran[c],
         round' = round, Visible(c)' <=> Visible(c)
  PROVE  CoreInv(c)'
<1>1. Quiet(c)' <=> Quiet(c)
  BY DEF Quiet, One
<1>2. Given(c)' <=> Given(c)
  BY DEF Given
<1>3. (NotYet(c) => NotYet(c)') /\ (Ready(c) => Ready(c)')
  BY <1>1, <1>2 DEF NotYet, Ready
<1>4. (Reading(c) => Reading(c)') /\ (Calling(c) => Calling(c)')
  BY <1>1, <1>2 DEF Reading, Calling, One
<1>5. (Called(c) => Called(c)') /\ (Finished(c) => Finished(c)')
  BY <1>1 DEF Called, Finished, One
<1>6. QED BY <1>3, <1>4, <1>5 DEF CoreInv

(* Steps of the secondary cores: core 0 does not mind, and a done_flag is  *)
(* only ever set, by a core that has seen its start_flag.                  *)
LEMMA MainFrame ==
  ASSUME TypeOK, MainInv,
         pc'[0] = pc[0], pending'[0] = pending[0], i' = i, round' = round,
         \A c \in Second : mem'[<<c, "entry">>] = mem[<<c, "entry">>],
         \A c \in Second : mem'[<<c, "arg">>] = mem[<<c, "arg">>],
         \A c \in Second : \/ mem'[<<c, "done_flag">>] = mem[<<c, "done_flag">>]
                           \/ Visible(c) /\ mem'[<<c, "done_flag">>] = 1
  PROVE  MainInv' /\ \A c \in Second : Visible(c)' <=> Visible(c)
<1>1. \A c \in Second : StartPending(c)' <=> StartPending(c)
  BY DEF StartPending, One
<1>2. \A c \in Second : Launched(c)' <=> Launched(c)
  BY DEF Launched
<1>3. \A c \in Second : Visible(c)' <=> Visible(c)
  BY <1>1, <1>2 DEF Visible
<1>4. \A c \in Second : StartPending(c) /\ Given(c) => Given(c)'
  BY DEF Visible, Given
<1>5. ~ Visible(i) \/ pc[0] \in {"wake", "wait"}
  BY DEF Visible, Launched, TypeOK, Second
<1>6. i \in Second /\ N \in Second
  BY PlaceFacts DEF TypeOK
<1>7. Launching => Launching'
  <2> SUFFICES ASSUME Launching PROVE Launching'
    OBVIOUS
  <2>1. CASE pc[0] = "boot" \/ pc[0] = "entry"
    BY <2>1, <1>1, <1>4 DEF Launching
  <2>2. CASE pc[0] = "arg" \/ pc[0] = "done_flag"
    BY <2>2, <1>6 DEF Launching, One
  <2>3. CASE pc[0] = "start_flag"
    BY <2>3, <1>5, <1>6 DEF Launching, One
  <2>4. QED BY <2>1, <2>2, <2>3 DEF Launching
<1>8. Joining => Joining'
  BY <1>1, <1>4, <1>6 DEF Joining
<1>9. QED BY <1>3, <1>7, <1>8 DEF MainInv

-----------------------------------------------------------------------------
(* The consequences, and the initial states.                               *)

LEMMA JoinFromInv == IInv => JoinMeansRun
<1> SUFFICES ASSUME IInv, NEW c \in Second PROVE Len(ran[c]) >= round - 1
  BY DEF JoinMeansRun
<1>1. round \in Int /\ CoreInv(c)
  BY PlaceFacts DEF IInv, TypeOK
<1>2. QED
  BY <1>1 DEF CoreInv, NotYet, Ready, Reading, Calling, Called, Finished

LEMMA InvInit == Init => IInv
<1> SUFFICES ASSUME Init PROVE IInv
  OBVIOUS
<1>1. TypeOK
  BY PlaceFacts DEF Init, TypeOK, Second, Core
<1>2. MainInv
  BY PlaceFacts DEF Init, MainInv, Launching
<1>3. ASSUME NEW c \in Second PROVE CoreInv(c)
  <2>1. ~ Visible(c)
    BY PlaceFacts DEF Init, Visible, Launched
  <2>2. pc[c] = "off" /\ pending[c] = << >> /\ ran[c] = << >> /\ round = 1
    BY PlaceFacts DEF Init
  <2>3. mem[<<c, "start_flag">>] = 0
    BY PlaceFacts DEF Init
  <2>4. QED BY <2>1, <2>2, <2>3 DEF CoreInv, NotYet, Quiet
<1>4. EachTaskOnce
  BY DEF Init, EachTaskOnce
<1>5. QED BY <1>1, <1>2, <1>3, <1>4 DEF IInv

-----------------------------------------------------------------------------
(* Core 0.                                                                 *)

LEMMA BootWaitKeeps == IInv /\ BootWait => IInv'
<1> SUFFICES ASSUME IInv, BootWait PROVE IInv'
  OBVIOUS
<1>1. /\ pc' = [pc EXCEPT ![0] = "entry"]
      /\ UNCHANGED <<mem, pending, event, round, i, fn, arg, ran>>
      /\ pc[0] = "boot"
  BY DEF BootWait, Goto
<1>2. pending[0] = << >> /\ i = 1
  BY <1>1 DEF IInv, MainInv, Launching, Joining
<1>3. TypeOK'
  BY <1>1, PlaceFacts DEF IInv, TypeOK
<1>4. pc'[0] = "entry" /\ \A c \in Second : pc'[c] = pc[c]
  BY <1>1, PlaceFacts DEF IInv, TypeOK
<1>5. MainInv'
  BY <1>1, <1>2, <1>4 DEF IInv, MainInv, Launching
<1>6. ASSUME NEW c \in Second PROVE CoreInv(c)'
  <2>1. ~ Visible(c) /\ ~ Visible(c)'
    BY <1>1, <1>2, <1>4 DEF Visible, Launched, Second
  <2>2. QED BY <2>1, <1>1, <1>4, CoreFrame DEF IInv
<1>7. EachTaskOnce'
  BY <1>1 DEF IInv, EachTaskOnce
<1>8. QED BY <1>3, <1>5, <1>6, <1>7 DEF IInv

(* The three stores before start_flag: core i cannot see them yet.         *)
LEMMA FillKeeps ==
  ASSUME Ordered, IInv, MayGo(0), NEW from, NEW v, NEW to,
         \/ from = "entry" /\ v = round /\ to = "arg"
         \/ from = "arg" /\ v = round /\ to = "done_flag"
         \/ from = "done_flag" /\ v = 0 /\ to = "start_flag",
         LaunchStep(from, from, v, to),
         UNCHANGED <<mem, event, round, i, fn, arg, ran>>
  PROVE  IInv'
<1>1. pending[0] = << >>
  BY DEF MayGo
<1>2. pc[0] = from /\ Store(0, <<i, from>>, v) /\ pc' = [pc EXCEPT ![0] = to]
  BY DEF LaunchStep, Goto
<1>3. i \in Second /\ TypeOK /\ round \in 0 .. MaxRounds
  <2>1. i \in Second /\ TypeOK /\ round \in 1 .. MaxRounds + 1
    BY DEF IInv, TypeOK
  <2>2. round <= MaxRounds
    BY <1>2 DEF IInv, MainInv
  <2>3. QED BY <2>1, <2>2, PlaceFacts
<1>4. /\ pending'[0] = One(<<i, from>>, v)
      /\ \A d \in Core : d # 0 => pending'[d] = pending[d]
      /\ pending' = [pending EXCEPT ![0] = One(<<i, from>>, v)]
  BY <1>1, <1>2, <1>3, StoreOne, PlaceFacts
<1>5. pc'[0] = to /\ \A c \in Second : pc'[c] = pc[c]
  BY <1>2, PlaceFacts DEF IInv, TypeOK
<1>6. TypeOK'
  <2>1. One(<<i, from>>, v) \in Seq(Place \X (0 .. MaxRounds))
    <3>1. v \in 0 .. MaxRounds
      BY <1>3, PlaceFacts
    <3>2. <<i, from>> \in Place
      <4>1. from \in {"entry", "arg", "start_flag", "done_flag", "cpu_online"}
        OBVIOUS
      <4>2. QED BY <4>1, <1>3, PlaceFacts
    <3>3. QED BY <3>1, <3>2, OneTyped
  <2>2. pending' \in [Core -> Seq(Place \X (0 .. MaxRounds))]
    BY <1>3, <1>4, <2>1 DEF TypeOK
  <2>3. QED BY <1>2, <1>3, <2>2 DEF TypeOK
<1>7. MainInv'
  <2>1. mem' = mem /\ i' = i /\ round' = round
    OBVIOUS
  <2>2. Launching
    BY <1>2 DEF IInv, MainInv, Joining
  <2>3. CASE from = "entry"
    BY <2>1, <2>2, <2>3, <1>2, <1>4, <1>5 DEF IInv, MainInv, Launching, One
  <2>4. CASE from = "arg"
    BY <2>1, <2>2, <2>4, <1>1, <1>2, <1>4, <1>5, OneFacts
    DEF IInv, MainInv, Launching, One
  <2>5. CASE from = "done_flag"
    BY <2>1, <2>2, <2>5, <1>1, <1>2, <1>4, <1>5, OneFacts
    DEF IInv, MainInv, Launching, One
  <2>6. QED BY <2>3, <2>4, <2>5
<1>8. ASSUME NEW c \in Second PROVE CoreInv(c)'
  <2>1. ~ StartPending(c) /\ ~ StartPending(c)'
    <3>1. ~ StartPending(c)
      BY <1>1, OneFacts DEF StartPending
    <3>2. SUFFICES ASSUME StartPending(c)' PROVE FALSE
      BY <3>1
    <3>3. One(<<i, from>>, v) = One(<<c, "start_flag">>, 1)
      BY <3>2, <1>4 DEF StartPending, One
    <3>4. QED BY <3>3, OneInjective
  <2>2. Launched(c)' <=> Launched(c)
    BY <1>2, <1>5 DEF Launched
  <2>3. QED BY <2>1, <2>2, <1>4, <1>5, PlaceFacts, CoreFrame DEF IInv, Visible
<1>9. EachTaskOnce'
  BY DEF IInv, EachTaskOnce
<1>10. QED BY <1>6, <1>7, <1>8, <1>9 DEF IInv

(* The store of start_flag: core i has been launched, but cannot see it.   *)
LEMMA StartKeeps ==
  ASSUME Ordered, IInv, MayGo(0),
         LaunchStep("start_flag", "start_flag", 1,
                    IF i = N THEN "wake" ELSE "entry"),
         i' = IF i = N THEN 1 ELSE i + 1,
         UNCHANGED <<mem, event, round, fn, arg, ran>>
  PROVE  IInv'
<1> DEFINE to == IF i = N THEN "wake" ELSE "entry"
<1>1. pending[0] = << >>
  BY DEF MayGo
<1>2. /\ pc[0] = "start_flag" /\ Store(0, <<i, "start_flag">>, 1)
      /\ pc' = [pc EXCEPT ![0] = to]
  BY DEF LaunchStep, Goto
<1>3. i \in Second /\ TypeOK /\ i' \in Second
  <2>1. i \in Second /\ TypeOK
    BY DEF IInv, TypeOK
  <2>2. QED BY <2>1, PlaceFacts DEF Second
<1>4. /\ pending'[0] = One(<<i, "start_flag">>, 1)
      /\ \A d \in Core : d # 0 => pending'[d] = pending[d]
      /\ pending' = [pending EXCEPT ![0] = One(<<i, "start_flag">>, 1)]
  BY <1>1, <1>2, <1>3, StoreOne, PlaceFacts
<1>5. pc'[0] = to /\ \A c \in Second : pc'[c] = pc[c]
  BY <1>2, PlaceFacts DEF IInv, TypeOK
<1>6. TypeOK'
  <2>1. One(<<i, "start_flag">>, 1) \in Seq(Place \X (0 .. MaxRounds))
    <3>1. 1 \in 0 .. MaxRounds
      BY PlaceFacts
    <3>2. <<i, "start_flag">> \in Place
      BY <1>3, PlaceFacts
    <3>3. QED BY <3>1, <3>2, OneTyped
  <2>2. pending' \in [Core -> Seq(Place \X (0 .. MaxRounds))]
    BY <1>3, <1>4, <2>1 DEF TypeOK
  <2>3. QED BY <1>2, <1>3, <2>2 DEF TypeOK
<1>7. Given(i)
  BY <1>1, <1>2, OneFacts DEF IInv, MainInv, Launching, Joining, Given
<1>8. Given(i) => (mem'[<<i, "entry">>] = round' /\ mem'[<<i, "arg">>] = round'
                   /\ mem'[<<i, "done_flag">>] = 0)
  BY DEF Given
<1>9. MainInv'
  <2>1. CASE i = N
    BY <2>1, <1>2, <1>4, <1>5, <1>7, <1>8
    DEF IInv, MainInv, Joining, StartPending, Given, One
  <2>2. CASE i # N
    <3>1. i' - 1 = i
      BY <2>2, <1>3 DEF Second
    <3>2. \A c \in Second : c = i => StartPending(c)' /\ Given(c)'
      BY <1>4, <1>7, <1>8 DEF StartPending, Given, One
    <3>3. QED BY <2>2, <3>1, <3>2, <1>2, <1>3, <1>5 DEF IInv, MainInv, Launching
  <2>3. QED BY <2>1, <2>2
<1>10. ASSUME NEW c \in Second PROVE CoreInv(c)'
  <2>1. ~ StartPending(c)
    BY <1>1, OneFacts DEF StartPending
  <2>2. StartPending(c)' <=> c = i
    <3>1. StartPending(c)' <=> One(<<i, "start_flag">>, 1) = One(<<c, "start_flag">>, 1)
      BY <1>4 DEF StartPending, One
    <3>2. QED BY <3>1, OneInjective
  <2>3. Launched(c) <=> c < i
    BY <1>2 DEF Launched
  <2>4. Launched(c)' <=> c <= i
    BY <1>3, <1>5 DEF Launched, Second
  <2>5. Visible(c)' <=> Visible(c)
    BY <2>1, <2>2, <2>3, <2>4, <1>3 DEF Visible, Second
  <2>6. QED BY <2>5, <1>4, <1>5, PlaceFacts, CoreFrame DEF IInv
<1>11. EachTaskOnce'
  BY DEF IInv, EachTaskOnce
<1>12. QED BY <1>6, <1>9, <1>10, <1>11 DEF IInv

LEMMA LaunchKeeps ==
  ASSUME Ordered, IInv, launch_on_core PROVE IInv'
<1>1. MayGo(0) /\ UNCHANGED <<mem, event, round, fn, arg, ran>>
  BY DEF launch_on_core
<1>2. CASE LaunchStep("entry", "entry", round, "arg") /\ UNCHANGED i
  BY <1>1, <1>2, FillKeeps
<1>3. CASE LaunchStep("arg", "arg", round, "done_flag") /\ UNCHANGED i
  BY <1>1, <1>3, FillKeeps
<1>4. CASE LaunchStep("done_flag", "done_flag", 0, "start_flag") /\ UNCHANGED i
  BY <1>1, <1>4, FillKeeps
<1>5. CASE /\ LaunchStep("start_flag", "start_flag", 1,
                         IF i = N THEN "wake" ELSE "entry")
           /\ i' = IF i = N THEN 1 ELSE i + 1
  BY <1>1, <1>5, StartKeeps
<1>6. QED BY <1>2, <1>3, <1>4, <1>5 DEF launch_on_core

LEMMA WakeKeeps ==
  ASSUME Ordered, IInv, wake_all_cores PROVE IInv'
<1>1. /\ pc[0] = "wake" /\ pc' = [pc EXCEPT ![0] = "wait"]
      /\ event' = [c \in Second |-> TRUE]
      /\ UNCHANGED <<mem, pending, round, i, fn, arg, ran>>
      /\ pending[0] = << >>
  BY DEF wake_all_cores, Goto, MayGo
<1>2. i = 1
  BY <1>1 DEF IInv, MainInv, Launching, Joining
<1>3. TypeOK'
  BY <1>1, PlaceFacts DEF IInv, TypeOK
<1>4. pc'[0] = "wait" /\ \A c \in Second : pc'[c] = pc[c]
  BY <1>1, PlaceFacts DEF IInv, TypeOK
<1>5. MainInv'
  BY <1>1, <1>2, <1>4 DEF IInv, MainInv, Joining, Second
<1>6. ASSUME NEW c \in Second PROVE CoreInv(c)'
  <2>1. Visible(c) /\ Visible(c)'
    BY <1>1, <1>4, OneFacts DEF Visible, Launched, StartPending, One
  <2>2. QED BY <2>1, <1>1, <1>4, CoreFrame DEF IInv
<1>7. EachTaskOnce'
  BY <1>1 DEF IInv, EachTaskOnce
<1>8. QED BY <1>3, <1>5, <1>6, <1>7 DEF IInv

(* The join: a done_flag that is set is that of a core that has finished.  *)
LEMMA WaitKeeps ==
  ASSUME Ordered, IInv, wait_all_cores PROVE IInv'
<1>1. /\ pc[0] = "wait" /\ pending[0] = << >>
      /\ UNCHANGED <<mem, pending, event, fn, arg, ran>>
  BY DEF wait_all_cores, MayGo
<1>2. i \in Second /\ TypeOK /\ round \in 1 .. MaxRounds
  <2>1. i \in Second /\ TypeOK /\ round \in 1 .. MaxRounds + 1
    BY DEF IInv, TypeOK
  <2>2. round <= MaxRounds
    BY <1>1 DEF IInv, MainInv
  <2>3. QED BY <2>1, <2>2, PlaceFacts
<1>3. \A c \in Second : Visible(c)
  BY <1>1, OneFacts DEF Visible, Launched, StartPending
<1>4. mem[<<i, "done_flag">>] # 0
  BY <1>1, PlaceFacts, ReadMem DEF wait_all_cores
<1>5. \A c \in Second : mem[<<c, "done_flag">>] # 0 => Finished(c)
  BY <1>3 DEF IInv, CoreInv, NotYet, Ready, Reading, Calling, Called, Given
<1>6. \A c \in Second : c < i => mem[<<c, "done_flag">>] = 1
  BY <1>1 DEF IInv, MainInv, Launching, Joining
<1>7. \A c \in Second : c <= i => Finished(c) /\ mem[<<c, "done_flag">>] = 1
  BY <1>2, <1>4, <1>5, <1>6 DEF Finished, Second
<1>8. EachTaskOnce'
  BY <1>1 DEF IInv, EachTaskOnce
<1>9. CASE i < N
  <2>1. i' = i + 1 /\ pc' = pc /\ round' = round
    BY <1>9 DEF wait_all_cores
  <2>2. TypeOK'
    <3>1. i' \in Second
      BY <1>2, <1>9, <2>1, PlaceFacts DEF Second
    <3>2. QED BY <3>1, <1>1, <1>2, <2>1 DEF TypeOK
  <2>3. MainInv'
    BY <1>1, <1>2, <1>7, <2>1 DEF IInv, MainInv, Joining, Second
  <2>4. ASSUME NEW c \in Second PROVE CoreInv(c)'
    <3>1. Visible(c)' <=> Visible(c)
      BY <1>1, <2>1 DEF Visible, Launched, StartPending, One
    <3>2. QED BY <3>1, <1>1, <2>1, CoreFrame DEF IInv
  <2>5. QED BY <2>2, <2>3, <2>4, <1>8 DEF IInv
<1>10. CASE ~ (i < N)
  <2>1. /\ i' = 1 /\ round' = round + 1
        /\ pc' = [pc EXCEPT ![0] = IF round = MaxRounds THEN "over" ELSE "entry"]
    BY <1>10 DEF wait_all_cores, Goto
  <2>2. /\ pc'[0] = IF round = MaxRounds THEN "over" ELSE "entry"
        /\ \A c \in Second : pc'[c] = pc[c]
    BY <2>1, <1>2, PlaceFacts DEF TypeOK
  <2>3. TypeOK'
    <3>1. i' \in Second /\ round' \in 1 .. MaxRounds + 1
      BY <1>2, <2>1, PlaceFacts
    <3>2. QED BY <3>1, <1>1, <1>2, <2>1, PlaceFacts DEF TypeOK
  <2>4. MainInv'
    BY <1>1, <1>2, <2>1, <2>2 DEF MainInv, Launching, Joining
  <2>5. ASSUME NEW c \in Second PROVE CoreInv(c)'
    <3>1. Finished(c)
      <4>1. c <= i
        BY <1>2, <1>10, PlaceFacts DEF Second
      <4>2. QED BY <4>1, <1>7
    <3>2. ~ Visible(c)'
      BY <2>1, <2>2 DEF Visible, Launched, Second
    <3>3. Quiet(c)'
      BY <3>1, <1>1, <2>2 DEF Finished, Quiet, One
    <3>4. QED BY <3>1, <3>2, <3>3, <1>1, <1>2, <2>1 DEF Finished, NotYet, CoreInv
  <2>6. QED BY <2>3, <2>4, <2>5, <1>8 DEF IInv
<1>11. QED BY <1>9, <1>10

-----------------------------------------------------------------------------
(* The stores of core 0 reach memory.                                      *)

LEMMA TypedMem ==
  ASSUME TypeOK, NEW p \in Place, NEW v \in 0 .. MaxRounds,
         mem' = [mem EXCEPT ![p] = v]
  PROVE  /\ mem' \in [Place -> 0 .. MaxRounds]
         /\ mem'[p] = v
         /\ \A q \in Place : q # p => mem'[q] = mem[q]
BY DEF TypeOK

LEMMA DrainType ==
  ASSUME TypeOK, NEW c \in Core, Drain(c),
         NEW p \in Place, NEW v \in 0 .. MaxRounds,
         pending[c] = << >> \/ pending[c] = One(p, v)
  PROVE  /\ TypeOK'
         /\ pending'[c] = << >>
         /\ \A d \in Core : d # c => pending'[d] = pending[d]
         /\ mem'[p] = v
         /\ \A q \in Place : q # p => mem'[q] = mem[q]
         /\ UNCHANGED <<event, pc, round, i, fn, arg, ran>>
<1>1. /\ mem' = [mem EXCEPT ![p] = v]
      /\ pending' = [pending EXCEPT ![c] = << >>]
  BY DrainOne
<1>2. UNCHANGED <<event, pc, round, i, fn, arg, ran>>
  BY DEF Drain
<1>3. << >> \in Seq(Place \X (0 .. MaxRounds))
  OBVIOUS
<1>4. pending' \in [Core -> Seq(Place \X (0 .. MaxRounds))]
  <2> DEFINE S == Seq(Place \X (0 .. MaxRounds))
  <2>1. pending \in [Core -> S] /\ << >> \in S
    BY <1>3 DEF TypeOK
  <2> HIDE DEF S
  <2>2. pending' \in [Core -> S]
    BY <1>1, <2>1
  <2>3. QED BY <2>2 DEF S
<1>5. TypeOK'
  BY <1>1, <1>2, <1>4, TypedMem DEF TypeOK
<1>6. QED BY <1>1, <1>2, <1>5, TypedMem DEF TypeOK

(* The start_flag arrives: the core can see it, and its task is in memory. *)
LEMMA StartDrains ==
  ASSUME IInv, Drain(0), NEW c \in Second,
         StartPending(c), Given(c), Launched(c), pc[0] \in {"entry", "wake"}
  PROVE  IInv'
<1> DEFINE p == <<c, "start_flag">>
<1>1. p \in Place /\ 1 \in 0 .. MaxRounds /\ 0 \in Core
  <2>1. 1 \in 0 .. MaxRounds
    BY PlaceFacts
  <2>2. QED BY <2>1, PlaceFacts
<1>2. /\ TypeOK' /\ pending'[0] = << >>
      /\ \A d \in Core : d # 0 => pending'[d] = pending[d]
      /\ mem'[p] = 1
      /\ \A q \in Place : q # p => mem'[q] = mem[q]
      /\ UNCHANGED <<event, pc, round, i, fn, arg, ran>>
  BY <1>1, DrainType DEF IInv, StartPending
<1>3. MainInv'
  BY <1>2 DEF IInv, MainInv, Launching, Joining
<1>4. ASSUME NEW d \in Second PROVE CoreInv(d)'
  <2>1. ~ StartPending(d)'
    BY <1>2, OneFacts DEF StartPending, One
  <2>2. Launched(d)' <=> Launched(d)
    BY <1>2 DEF Launched
  <2>3. \A f \in {"entry", "arg", "start_flag", "done_flag"} :
          <<d, f>> # p => mem'[<<d, f>>] = mem[<<d, f>>]
    BY <1>2, PlaceFacts
  <2>4. CASE d # c
    <3>1. ~ StartPending(d)
      BY <2>4, OneInjective DEF StartPending
    <3>2. Visible(d)' <=> Visible(d)
      BY <2>1, <2>2, <3>1 DEF Visible
    <3>3. QED BY <2>3, <2>4, <3>2, <1>2, PlaceFacts, CoreFrame DEF IInv
  <2>5. CASE d = c
    <3>1. NotYet(c)
      BY DEF IInv, CoreInv, Visible, Ready, Reading, Calling, Called, Finished
    <3>2. Visible(c)'
      BY <2>1, <2>2, <2>5 DEF Visible
    <3>3. Quiet(c)'
      BY <3>1, <1>2, PlaceFacts DEF NotYet, Quiet, One
    <3>4. Given(c)'
      BY <2>3, <2>5, <1>2 DEF Given
    <3>5. mem'[<<c, "start_flag">>] = 1 /\ Len(ran'[c]) = round' - 1
      BY <3>1, <1>2 DEF NotYet
    <3>6. QED BY <2>5, <3>2, <3>3, <3>4, <3>5 DEF CoreInv, Ready
  <2>6. QED BY <2>4, <2>5
<1>5. EachTaskOnce'
  BY <1>2 DEF IInv, EachTaskOnce
<1>6. QED BY <1>2, <1>3, <1>4, <1>5 DEF IInv

(* Another store arrives: it is for core i, which does not look yet.       *)
LEMMA FillDrains ==
  ASSUME IInv, Drain(0), NEW f, NEW v,
         \/ pc[0] = "arg" /\ f = "entry" /\ v = round
         \/ pc[0] = "done_flag" /\ f = "arg" /\ v = round
         \/ pc[0] = "start_flag" /\ f = "done_flag" /\ v = 0,
         pending[0] = << >> \/ pending[0] = One(<<i, f>>, v)
  PROVE  IInv'
<1> DEFINE p == <<i, f>>
<1>1. TypeOK /\ i \in Second /\ round \in 0 .. MaxRounds
  <2>1. TypeOK /\ i \in Second /\ round \in 1 .. MaxRounds + 1
    BY DEF IInv, TypeOK
  <2>2. round <= MaxRounds
    BY DEF IInv, MainInv
  <2>3. QED BY <2>1, <2>2, PlaceFacts
<1>2. p \in Place
  BY <1>1, PlaceFacts
<1>3. v \in 0 .. MaxRounds /\ 0 \in Core
  BY <1>1, PlaceFacts
<1>4. /\ TypeOK' /\ pending'[0] = << >>
      /\ \A d \in Core : d # 0 => pending'[d] = pending[d]
      /\ mem'[p] = v
      /\ \A q \in Place : q # p => mem'[q] = mem[q]
      /\ UNCHANGED <<event, pc, round, i, fn, arg, ran>>
  BY <1>1, <1>2, <1>3, DrainType
<1>5. MainInv'
  <2>1. Launching
    BY DEF IInv, MainInv, Joining
  <2>2. \A g \in {"entry", "arg", "done_flag"} :
          g # f => mem'[<<i, g>>] = mem[<<i, g>>]
    BY <1>1, <1>4, PlaceFacts
  <2>3. QED BY <2>1, <2>2, <1>4 DEF IInv, MainInv, Launching
<1>6. ASSUME NEW d \in Second PROVE CoreInv(d)'
  <2>1. ~ StartPending(d) /\ ~ StartPending(d)'
    <3>1. ~ StartPending(d)'
      BY <1>4, OneFacts DEF StartPending, One
    <3>2. SUFFICES ASSUME StartPending(d) PROVE FALSE
      BY <3>1
    <3>3. One(<<i, f>>, v) = One(<<d, "start_flag">>, 1)
      BY <3>2, OneFacts DEF StartPending
    <3>4. QED BY <3>3, OneInjective
  <2>2. Visible(d)' <=> Visible(d)
    BY <2>1, <1>4 DEF Visible, Launched
  <2>3. \A g \in {"entry", "arg", "start_flag", "done_flag"} :
          <<d, g>> # p => mem'[<<d, g>>] = mem[<<d, g>>]
    BY <1>4, PlaceFacts
  <2>4. CASE d # i
    BY <2>2, <2>3, <2>4, <1>4, PlaceFacts, CoreFrame DEF IInv
  <2>5. CASE d = i
    <3>1. ~ Visible(i)
      BY <1>1 DEF Visible, Launched, Second
    <3>2. NotYet(i)
      BY <3>1, <1>1
      DEF IInv, CoreInv, Ready, Reading, Calling, Called, Finished
    <3>3. Quiet(i)'
      BY <3>2, <1>1, <1>4, PlaceFacts DEF NotYet, Quiet, One
    <3>4. mem'[<<i, "start_flag">>] = 0 /\ Len(ran'[i]) = round' - 1
      BY <2>3, <2>5, <3>2, <1>4 DEF NotYet
    <3>5. ~ Visible(d)'
      BY <2>2, <2>5, <3>1
    <3>6. QED
      BY <2>5, <3>3, <3>4, <3>5, <1>4
      DEF CoreInv, NotYet, Quiet, Visible, Launched, StartPending
  <2>6. QED BY <2>4, <2>5
<1>7. EachTaskOnce'
  BY <1>4 DEF IInv, EachTaskOnce
<1>8. QED BY <1>4, <1>5, <1>6, <1>7 DEF IInv

LEMMA MainDrainKeeps ==
  ASSUME IInv, Drain(0) PROVE IInv'
<1>1. pending[0] # << >>
  BY DEF Drain
<1>2. i \in Second /\ N \in Second
  BY PlaceFacts DEF IInv, TypeOK
<1>3. CASE pc[0] = "entry"
  <2>1. PICK c \in Second : c = i - 1 /\ StartPending(c) /\ Given(c)
    BY <1>1, <1>3 DEF IInv, MainInv, Launching, Joining
  <2>2. Launched(c)
    BY <1>2, <1>3, <2>1 DEF Launched, Second
  <2>3. QED BY <1>3, <2>1, <2>2, StartDrains
<1>4. CASE pc[0] = "wake"
  <2>1. StartPending(N) /\ Given(N)
    BY <1>1, <1>4 DEF IInv, MainInv, Launching, Joining
  <2>2. Launched(N)
    BY <1>4 DEF Launched
  <2>3. QED BY <1>2, <1>4, <2>1, <2>2, StartDrains
<1>5. CASE pc[0] = "arg"
  <2>1. pending[0] = One(<<i, "entry">>, round)
    BY <1>1, <1>5 DEF IInv, MainInv, Launching, Joining
  <2>2. QED BY <1>5, <2>1, FillDrains
<1>6. CASE pc[0] = "done_flag"
  <2>1. pending[0] = One(<<i, "arg">>, round)
    BY <1>1, <1>6 DEF IInv, MainInv, Launching, Joining
  <2>2. QED BY <1>6, <2>1, FillDrains
<1>7. CASE pc[0] = "start_flag"
  <2>1. pending[0] = One(<<i, "done_flag">>, 0)
    BY <1>1, <1>7 DEF IInv, MainInv, Launching, Joining
  <2>2. QED BY <1>7, <2>1, FillDrains
<1>8. QED
  BY <1>1, <1>3, <1>4, <1>5, <1>6, <1>7 DEF IInv, MainInv, Launching, Joining

-----------------------------------------------------------------------------
(* The secondary cores.                                                    *)

(* A step of core c keeps the invariant if what it does to itself does.    *)
LEMMA SecondFrame ==
  ASSUME IInv, NEW c \in Second, TypeOK',
         i' = i, round' = round,
         \A d \in Core : d # c => pc'[d] = pc[d] /\ pending'[d] = pending[d],
         \A d \in Second : d # c => fn'[d] = fn[d] /\ arg'[d] = arg[d]
                                    /\ ran'[d] = ran[d],
         \A d \in Second : \A f \in {"entry", "arg", "start_flag", "done_flag"} :
           d # c \/ f \in {"entry", "arg"} => mem'[<<d, f>>] = mem[<<d, f>>],
         \/ mem'[<<c, "done_flag">>] = mem[<<c, "done_flag">>]
         \/ Visible(c) /\ mem'[<<c, "done_flag">>] = 1,
         (Visible(c)' <=> Visible(c)) => CoreInv(c)',
         \A k \in DOMAIN ran'[c] : ran'[c][k] = <<k, k>>
  PROVE  IInv'
<1>1. pc'[0] = pc[0] /\ pending'[0] = pending[0]
  BY PlaceFacts
<1>2. MainInv' /\ \A d \in Second : Visible(d)' <=> Visible(d)
  <2>1. /\ \A d \in Second : mem'[<<d, "entry">>] = mem[<<d, "entry">>]
        /\ \A d \in Second : mem'[<<d, "arg">>] = mem[<<d, "arg">>]
        /\ \A d \in Second : \/ mem'[<<d, "done_flag">>] = mem[<<d, "done_flag">>]
                             \/ Visible(d) /\ mem'[<<d, "done_flag">>] = 1
    OBVIOUS
  <2>2. TypeOK /\ MainInv
    BY DEF IInv
  <2> HIDE DEF Visible, MainInv, TypeOK
  <2>3. QED BY <1>1, <2>1, <2>2, MainFrame
<1>3. ASSUME NEW d \in Second PROVE CoreInv(d)'
  <2>1. CASE d = c
    BY <1>2, <2>1
  <2>2. CASE d # c
    BY <1>2, <2>2, PlaceFacts, CoreFrame DEF IInv
  <2>3. QED BY <2>1, <2>2
<1>4. EachTaskOnce'
  BY DEF IInv, EachTaskOnce
<1>5. QED BY <1>2, <1>3, <1>4 DEF IInv

(* The facts that every step of core c starts from.                        *)
LEMMA SecondFacts ==
  ASSUME IInv, NEW c \in Second
  PROVE  /\ c \in Core /\ c # 0
         /\ TypeOK /\ CoreInv(c)
         /\ round \in Int
         /\ \A k \in DOMAIN ran[c] : ran[c][k] = <<k, k>>
<1>1. TypeOK /\ CoreInv(c) /\ \A k \in DOMAIN ran[c] : ran[c][k] = <<k, k>>
  BY DEF IInv, EachTaskOnce
<1>2. round \in 1 .. MaxRounds + 1
  BY <1>1 DEF TypeOK
<1>3. QED BY <1>1, <1>2, PlaceFacts

LEMMA OnlineKeeps ==
  ASSUME IInv, NEW c \in Second, ComeOnline(c) PROVE IInv'
<1> DEFINE p == <<c, "cpu_online">>
<1>1. /\ pc[c] = "off" /\ Store(c, p, 1) /\ pc' = [pc EXCEPT ![c] = "online"]
      /\ UNCHANGED <<mem, event, round, i, fn, arg, ran>>
  BY DEF ComeOnline, Goto
<1>2. pending[c] = << >> /\ c \in Core /\ TypeOK
  BY <1>1, SecondFacts
  DEF CoreInv, NotYet, Ready, Reading, Calling, Called, Finished, Quiet
<1>3. /\ pending'[c] = One(p, 1)
      /\ \A d \in Core : d # c => pending'[d] = pending[d]
      /\ pending' = [pending EXCEPT ![c] = One(p, 1)]
  BY <1>1, <1>2, StoreOne
<1>4. TypeOK'
  <2>1. 1 \in 0 .. MaxRounds /\ p \in Place
    <3>1. 1 \in 0 .. MaxRounds
      BY PlaceFacts
    <3>2. QED BY <3>1, PlaceFacts
  <2>2. One(p, 1) \in Seq(Place \X (0 .. MaxRounds))
    BY <2>1, OneTyped
  <2>3. QED BY <1>1, <1>2, <1>3, <2>2 DEF TypeOK
<1>5. pc'[c] = "online" /\ \A d \in Core : d # c => pc'[d] = pc[d]
  BY <1>1, <1>2 DEF TypeOK
<1>6. ASSUME Visible(c)' <=> Visible(c) PROVE CoreInv(c)'
  <2>1. Quiet(c)'
    BY <1>3, <1>5 DEF Quiet, One
  <2>2. NotYet(c) \/ Ready(c) \/ Finished(c)
    BY <1>1, SecondFacts DEF CoreInv, Reading, Calling, Called
  <2>3. QED
    BY <1>1, <1>6, <2>1, <2>2 DEF CoreInv, NotYet, Ready, Finished, Given
<1>7. QED BY <1>1, <1>3, <1>4, <1>5, <1>6, SecondFacts, SecondFrame

LEMMA DsbKeeps ==
  ASSUME IInv, NEW c \in Second, Dsb(c) PROVE IInv'
<1> DEFINE to == IF pc[c] = "online" THEN "check" ELSE "wfe"
<1>1. /\ pc[c] \in {"online", "dsb"} /\ pending[c] = << >>
      /\ pc' = [pc EXCEPT ![c] = to]
      /\ UNCHANGED <<mem, pending, event, round, i, fn, arg, ran>>
  BY DEF Dsb, Goto
<1>2. c \in Core /\ TypeOK
  BY SecondFacts
<1>3. TypeOK'
  BY <1>1, <1>2 DEF TypeOK
<1>4. pc'[c] = to /\ \A d \in Core : d # c => pc'[d] = pc[d]
  BY <1>1, <1>2 DEF TypeOK
<1>5. ASSUME Visible(c)' <=> Visible(c) PROVE CoreInv(c)'
  <2>1. Quiet(c)'
    BY <1>1, <1>4 DEF Quiet
  <2>2. NotYet(c) \/ Ready(c) \/ Finished(c)
    <3>1. One(<<c, "done_flag">>, 1) # << >>
      BY OneFacts
    <3>2. QED
      BY <3>1, <1>1, SecondFacts DEF CoreInv, Reading, Calling, Called
  <2>3. QED
    BY <1>1, <1>5, <2>1, <2>2 DEF CoreInv, NotYet, Ready, Finished, Given
<1>6. QED BY <1>1, <1>3, <1>4, <1>5, SecondFacts, SecondFrame

LEMMA CheckKeeps ==
  ASSUME IInv, NEW c \in Second, Check(c) PROVE IInv'
<1>1. /\ pc[c] = "check"
      /\ pc' = [pc EXCEPT ![c] = IF Read(c, <<c, "start_flag">>) # 0
                                 THEN "fn" ELSE "wfe"]
      /\ UNCHANGED <<mem, pending, event, round, i, fn, arg, ran>>
  BY DEF Check, Goto
<1>2. c \in Core /\ TypeOK
  BY SecondFacts
<1>3. TypeOK'
  BY <1>1, <1>2 DEF TypeOK
<1>4. \A d \in Core : d # c => pc'[d] = pc[d]
  BY <1>1, <1>2 DEF TypeOK
<1>5. (NotYet(c) \/ Ready(c) \/ Finished(c)) /\ pending[c] = << >>
  BY <1>1, SecondFacts
  DEF CoreInv, NotYet, Ready, Finished, Reading, Calling, Called, Quiet
<1>6. pc'[c] = IF mem[<<c, "start_flag">>] # 0 THEN "fn" ELSE "wfe"
  BY <1>1, <1>2, <1>5, ReadMem DEF TypeOK
<1>7. ASSUME Visible(c)' <=> Visible(c) PROVE CoreInv(c)'
  <2>1. CASE Ready(c)
    <3>1. pc'[c] = "fn"
      BY <1>6, <2>1 DEF Ready
    <3>2. Reading(c)'
      BY <1>1, <1>5, <1>7, <2>1, <3>1 DEF Ready, Reading, Given
    <3>3. QED BY <3>2 DEF CoreInv
  <2>2. CASE NotYet(c) \/ Finished(c)
    <3>1. pc'[c] = "wfe"
      BY <1>6, <2>2 DEF NotYet, Finished
    <3>2. Quiet(c)'
      BY <1>1, <1>5, <3>1 DEF Quiet
    <3>3. QED BY <1>1, <1>7, <2>2, <3>2 DEF CoreInv, NotYet, Finished
  <2>3. QED BY <1>5, <2>1, <2>2
<1>8. QED BY <1>1, <1>3, <1>4, <1>7, SecondFacts, SecondFrame

LEMMA ReadEntryKeeps ==
  ASSUME IInv, NEW c \in Second, ReadEntry(c) PROVE IInv'
<1>1. /\ pc[c] = "fn" /\ fn' = [fn EXCEPT ![c] = Read(c, <<c, "entry">>)]
      /\ pc' = [pc EXCEPT ![c] = "arg"]
      /\ UNCHANGED <<mem, pending, event, round, i, arg, ran>>
  BY DEF ReadEntry, Goto
<1>2. c \in Core /\ TypeOK
  BY SecondFacts
<1>3. Reading(c)
  BY <1>1, SecondFacts
  DEF CoreInv, NotYet, Ready, Finished, Calling, Called, Quiet
<1>4. fn' = [fn EXCEPT ![c] = round]
  BY <1>1, <1>2, <1>3, ReadMem DEF Reading, Given
<1>5. round \in 0 .. MaxRounds
  <2>1. <<c, "entry">> \in Place /\ mem[<<c, "entry">>] = round
    BY <1>3, PlaceFacts DEF Reading, Given
  <2>2. QED BY <2>1, <1>2 DEF TypeOK
<1>6. TypeOK'
  BY <1>1, <1>2, <1>4, <1>5 DEF TypeOK
<1>7. /\ pc'[c] = "arg" /\ \A d \in Core : d # c => pc'[d] = pc[d]
      /\ fn'[c] = round /\ \A d \in Second : d # c => fn'[d] = fn[d]
  BY <1>1, <1>2, <1>4 DEF TypeOK
<1>8. (Visible(c)' <=> Visible(c)) => CoreInv(c)'
  BY <1>1, <1>3, <1>7 DEF CoreInv, Reading, Given
<1>9. QED BY <1>1, <1>6, <1>7, <1>8, SecondFacts, SecondFrame

LEMMA ReadArgKeeps ==
  ASSUME IInv, NEW c \in Second, ReadArg(c) PROVE IInv'
<1>1. /\ pc[c] = "arg" /\ arg' = [arg EXCEPT ![c] = Read(c, <<c, "arg">>)]
      /\ pc' = [pc EXCEPT ![c] = "clear"]
      /\ UNCHANGED <<mem, pending, event, round, i, fn, ran>>
  BY DEF ReadArg, Goto
<1>2. c \in Core /\ TypeOK
  BY SecondFacts
<1>3. Reading(c)
  BY <1>1, SecondFacts
  DEF CoreInv, NotYet, Ready, Finished, Calling, Called, Quiet
<1>4. arg' = [arg EXCEPT ![c] = round]
  BY <1>1, <1>2, <1>3, ReadMem DEF Reading, Given
<1>5. round \in 0 .. MaxRounds
  <2>1. <<c, "arg">> \in Place /\ mem[<<c, "arg">>] = round
    BY <1>3, PlaceFacts DEF Reading, Given
  <2>2. QED BY <2>1, <1>2 DEF TypeOK
<1>6. TypeOK'
  BY <1>1, <1>2, <1>4, <1>5 DEF TypeOK
<1>7. /\ pc'[c] = "clear" /\ \A d \in Core : d # c => pc'[d] = pc[d]
      /\ arg'[c] = round /\ \A d \in Second : d # c => arg'[d] = arg[d]
  BY <1>1, <1>2, <1>4 DEF TypeOK
<1>8. (Visible(c)' <=> Visible(c)) => CoreInv(c)'
  BY <1>1, <1>3, <1>7 DEF CoreInv, Reading, Given
<1>9. QED BY <1>1, <1>6, <1>7, <1>8, SecondFacts, SecondFrame

LEMMA ClearKeeps ==
  ASSUME IInv, NEW c \in Second, ClearStart(c) PROVE IInv'
<1> DEFINE p == <<c, "start_flag">>
<1>1. /\ pc[c] = "clear" /\ Store(c, p, 0) /\ pc' = [pc EXCEPT ![c] = "call"]
      /\ UNCHANGED <<mem, event, round, i, fn, arg, ran>>
  BY DEF ClearStart, Goto
<1>2. c \in Core /\ TypeOK
  BY SecondFacts
<1>3. Reading(c)
  BY <1>1, SecondFacts
  DEF CoreInv, NotYet, Ready, Finished, Calling, Called, Quiet
<1>4. /\ pending'[c] = One(p, 0)
      /\ \A d \in Core : d # c => pending'[d] = pending[d]
      /\ pending' = [pending EXCEPT ![c] = One(p, 0)]
  BY <1>1, <1>2, <1>3, StoreOne DEF Reading
<1>5. TypeOK'
  <2>1. 0 \in 0 .. MaxRounds
    BY PlaceFacts
  <2>2. p \in Place
    BY PlaceFacts
  <2>3. One(p, 0) \in Seq(Place \X (0 .. MaxRounds))
    BY <2>1, <2>2, OneTyped
  <2>4. QED BY <1>1, <1>2, <1>4, <2>3 DEF TypeOK
<1>6. pc'[c] = "call" /\ \A d \in Core : d # c => pc'[d] = pc[d]
  BY <1>1, <1>2 DEF TypeOK
<1>7. (Visible(c)' <=> Visible(c)) => CoreInv(c)'
  BY <1>1, <1>3, <1>4, <1>6 DEF CoreInv, Reading, Calling, Given, One
<1>8. QED BY <1>1, <1>4, <1>5, <1>6, <1>7, SecondFacts, SecondFrame

(* The call: the pair of this round goes to the end of what was run.       *)
LEMMA CallKeeps ==
  ASSUME Ordered, IInv, NEW c \in Second, Call(c) PROVE IInv'
<1>1. /\ pc[c] = "call" /\ pending[c] = << >>
      /\ pc' = [pc EXCEPT ![c] = "set_done"]
      /\ UNCHANGED <<mem, pending, event, round, i, fn, arg>>
  BY DEF Call, Goto, MayGo
<1>2. c \in Core /\ TypeOK /\ round \in 1 .. MaxRounds + 1
  BY SecondFacts DEF TypeOK
<1>3. Calling(c)
  BY <1>1, SecondFacts
  DEF CoreInv, NotYet, Ready, Finished, Reading, Called, Quiet
<1>4. mem[<<c, "start_flag">>] = 0
  <2>1. One(<<c, "start_flag">>, 0) # << >>
    BY OneFacts
  <2>2. QED BY <2>1, <1>1, <1>3 DEF Calling
<1>5. fn[c] = round /\ arg[c] = round /\ fn[c] # 0
  BY <1>2, <1>3, PlaceFacts DEF Calling
<1>6. ran' = [ran EXCEPT ![c] = Append(ran[c], <<round, round>>)]
  BY <1>5 DEF Call
<1>7. round \in 0 .. MaxRounds
  BY <1>2, <1>5 DEF TypeOK
<1> DEFINE S == (0 .. MaxRounds) \X (0 .. MaxRounds)
<1>8. /\ ran[c] \in Seq(S) /\ <<round, round>> \in S
      /\ ran \in [Second -> Seq(S)]
  BY <1>2, <1>7 DEF TypeOK
<1>9. /\ Append(ran[c], <<round, round>>) \in Seq(S)
      /\ Len(Append(ran[c], <<round, round>>)) = round
      /\ \A k \in DOMAIN Append(ran[c], <<round, round>>) :
           Append(ran[c], <<round, round>>)[k] = <<k, k>>
  <2> HIDE DEF S
  <2>1. Len(ran[c]) = round - 1 /\ round \in Int
    BY <1>2, <1>3, PlaceFacts DEF Calling
  <2>2. \A k \in DOMAIN ran[c] : ran[c][k] = <<k, k>>
    BY SecondFacts
  <2>3. QED BY <1>8, <2>1, <2>2
<1>10. /\ ran'[c] = Append(ran[c], <<round, round>>)
       /\ \A d \in Second : d # c => ran'[d] = ran[d]
       /\ ran' \in [Second -> Seq(S)]
  <2> HIDE DEF S
  <2>1. QED BY <1>6, <1>8, <1>9
<1>11. TypeOK'
  BY <1>1, <1>2, <1>10 DEF TypeOK
<1>12. pc'[c] = "set_done" /\ \A d \in Core : d # c => pc'[d] = pc[d]
  BY <1>1, <1>2 DEF TypeOK
<1>13. (Visible(c)' <=> Visible(c)) => CoreInv(c)'
  BY <1>1, <1>3, <1>4, <1>9, <1>10, <1>12 DEF CoreInv, Calling, Called
<1>14. QED
  BY <1>1, <1>9, <1>10, <1>11, <1>12, <1>13, SecondFacts, SecondFrame

LEMMA SetDoneKeeps ==
  ASSUME IInv, NEW c \in Second, SetDone(c) PROVE IInv'
<1> DEFINE p == <<c, "done_flag">>
<1>1. /\ pc[c] = "set_done" /\ Store(c, p, 1) /\ pc' = [pc EXCEPT ![c] = "dsb"]
      /\ UNCHANGED <<mem, event, round, i, fn, arg, ran>>
  BY DEF SetDone, Goto
<1>2. c \in Core /\ TypeOK
  BY SecondFacts
<1>3. Called(c) /\ pending[c] = << >>
  BY <1>1, SecondFacts
  DEF CoreInv, NotYet, Ready, Finished, Reading, Calling, Called, Quiet
<1>4. /\ pending'[c] = One(p, 1)
      /\ \A d \in Core : d # c => pending'[d] = pending[d]
      /\ pending' = [pending EXCEPT ![c] = One(p, 1)]
  BY <1>1, <1>2, <1>3, StoreOne
<1>5. TypeOK'
  <2>1. 1 \in 0 .. MaxRounds
    BY PlaceFacts
  <2>2. p \in Place
    BY PlaceFacts
  <2>3. One(p, 1) \in Seq(Place \X (0 .. MaxRounds))
    BY <2>1, <2>2, OneTyped
  <2>4. QED BY <1>1, <1>2, <1>4, <2>3 DEF TypeOK
<1>6. pc'[c] = "dsb" /\ \A d \in Core : d # c => pc'[d] = pc[d]
  BY <1>1, <1>2 DEF TypeOK
<1>7. (Visible(c)' <=> Visible(c)) => CoreInv(c)'
  BY <1>1, <1>3, <1>4, <1>6 DEF CoreInv, Called, One
<1>8. QED BY <1>1, <1>4, <1>5, <1>6, <1>7, SecondFacts, SecondFrame

LEMMA WfeKeeps ==
  ASSUME IInv, NEW c \in Second, Wfe(c) PROVE IInv'
<1>1. /\ pc[c] = "wfe" /\ pc' = [pc EXCEPT ![c] = "check"]
      /\ event' = [event EXCEPT ![c] = FALSE]
      /\ UNCHANGED <<mem, pending, round, i, fn, arg, ran>>
  BY DEF Wfe, Goto
<1>2. c \in Core /\ TypeOK
  BY SecondFacts
<1>3. TypeOK'
  BY <1>1, <1>2 DEF TypeOK
<1>4. pc'[c] = "check" /\ \A d \in Core : d # c => pc'[d] = pc[d]
  BY <1>1, <1>2 DEF TypeOK
<1>5. (NotYet(c) \/ Ready(c) \/ Finished(c)) /\ pending[c] = << >>
  BY <1>1, SecondFacts
  DEF CoreInv, NotYet, Ready, Finished, Reading, Calling, Called, Quiet
<1>6. Quiet(c)'
  BY <1>1, <1>4, <1>5 DEF Quiet
<1>7. (Visible(c)' <=> Visible(c)) => CoreInv(c)'
  BY <1>1, <1>5, <1>6 DEF CoreInv, NotYet, Ready, Finished, Given
<1>8. QED BY <1>1, <1>3, <1>4, <1>7, SecondFacts, SecondFrame

(* The stores of a secondary core reach memory.                            *)
LEMMA SecondDrainKeeps ==
  ASSUME IInv, NEW c \in Second, Drain(c) PROVE IInv'
<1>1. pending[c] # << >>
  BY DEF Drain
<1>2. c \in Core /\ TypeOK
  BY SecondFacts
<1>3. 0 \in 0 .. MaxRounds /\ 1 \in 0 .. MaxRounds
  <2>1. 1 \in 0 .. MaxRounds
    BY PlaceFacts
  <2>2. QED BY <2>1, PlaceFacts
<1>4. ASSUME NEW f \in {"cpu_online", "start_flag", "done_flag"},
             NEW v \in 0 .. MaxRounds, pending[c] = One(<<c, f>>, v),
             f = "done_flag" => Visible(c) /\ v = 1,
             /\ pending'[c] = << >> /\ mem'[<<c, f>>] = v
             /\ \A g \in {"entry", "arg", "start_flag", "done_flag"} :
                  g # f => mem'[<<c, g>>] = mem[<<c, g>>]
             /\ UNCHANGED <<pc, round, fn, arg, ran>>
             /\ Visible(c)' <=> Visible(c)
             => CoreInv(c)'
      PROVE  IInv'
  <2>1. <<c, f>> \in Place
    BY PlaceFacts
  <2>2. /\ TypeOK' /\ pending'[c] = << >>
        /\ \A d \in Core : d # c => pending'[d] = pending[d]
        /\ mem'[<<c, f>>] = v
        /\ \A q \in Place : q # <<c, f>> => mem'[q] = mem[q]
        /\ UNCHANGED <<event, pc, round, i, fn, arg, ran>>
    BY <1>2, <1>4, <2>1, DrainType
  <2>3. \A d \in Second : \A g \in {"entry", "arg", "start_flag", "done_flag"} :
          d # c \/ g # f => mem'[<<d, g>>] = mem[<<d, g>>]
    BY <2>2, PlaceFacts
  <2>4. \/ mem'[<<c, "done_flag">>] = mem[<<c, "done_flag">>]
        \/ Visible(c) /\ mem'[<<c, "done_flag">>] = 1
    BY <1>4, <2>2, <2>3
  <2>5. (Visible(c)' <=> Visible(c)) => CoreInv(c)'
    BY <1>4, <2>2, <2>3
  <2>6. QED BY <2>2, <2>3, <2>4, <2>5, SecondFacts, SecondFrame
<1>5. CASE NotYet(c) \/ Ready(c) \/ Finished(c)
  <2>1. pending[c] = One(<<c, "cpu_online">>, 1) /\ pc[c] = "online"
    BY <1>1, <1>5 DEF NotYet, Ready, Finished, Quiet
  <2>2. ASSUME /\ pending'[c] = << >>
               /\ \A g \in {"entry", "arg", "start_flag", "done_flag"} :
                    g # "cpu_online" => mem'[<<c, g>>] = mem[<<c, g>>]
               /\ UNCHANGED <<pc, round, fn, arg, ran>>
               /\ Visible(c)' <=> Visible(c)
        PROVE  CoreInv(c)'
    <3>1. Quiet(c)'
      BY <2>1, <2>2 DEF Quiet
    <3>2. QED
      BY <1>5, <2>2, <3>1 DEF CoreInv, NotYet, Ready, Finished, Given
  <2>3. QED BY <1>3, <1>4, <2>1, <2>2
<1>6. CASE Calling(c)
  <2>1. pending[c] = One(<<c, "start_flag">>, 0)
    BY <1>1, <1>6 DEF Calling
  <2>2. ASSUME /\ pending'[c] = << >> /\ mem'[<<c, "start_flag">>] = 0
               /\ \A g \in {"entry", "arg", "start_flag", "done_flag"} :
                    g # "start_flag" => mem'[<<c, g>>] = mem[<<c, g>>]
               /\ UNCHANGED <<pc, round, fn, arg, ran>>
               /\ Visible(c)' <=> Visible(c)
        PROVE  CoreInv(c)'
    BY <1>6, <2>2 DEF CoreInv, Calling
  <2>3. QED BY <1>3, <1>4, <2>1, <2>2
<1>7. CASE Called(c)
  <2>1. /\ pending[c] = One(<<c, "done_flag">>, 1) /\ pc[c] = "dsb"
        /\ Visible(c)
    BY <1>1, <1>7 DEF Called
  <2>2. ASSUME /\ pending'[c] = << >> /\ mem'[<<c, "done_flag">>] = 1
               /\ \A g \in {"entry", "arg", "start_flag", "done_flag"} :
                    g # "done_flag" => mem'[<<c, g>>] = mem[<<c, g>>]
               /\ UNCHANGED <<pc, round, fn, arg, ran>>
               /\ Visible(c)' <=> Visible(c)
        PROVE  CoreInv(c)'
    <3>1. Quiet(c)'
      BY <2>1, <2>2 DEF Quiet
    <3>2. QED BY <1>7, <2>2, <3>1 DEF CoreInv, Called, Finished
  <2>3. QED BY <1>3, <1>4, <2>1, <2>2
<1>8. ~ Reading(c)
  BY <1>1 DEF Reading
<1>9. QED BY <1>5, <1>6, <1>7, <1>8, SecondFacts DEF CoreInv

-----------------------------------------------------------------------------

LEMMA InvNext == ASSUME Ordered, IInv, [Next]_vars PROVE IInv'
<1>1. CASE UNCHANGED vars
  <2>1. TypeOK' /\ EachTaskOnce'
    BY <1>1 DEF vars, IInv, TypeOK, EachTaskOnce
  <2>2. /\ MainInv' /\ \A c \in Second : Visible(c)' <=> Visible(c)
    BY <1>1, MainFrame DEF vars, IInv
  <2>3. \A c \in Second : CoreInv(c)'
    BY <1>1, <2>2, CoreFrame DEF vars, IInv
  <2>4. QED BY <2>1, <2>2, <2>3 DEF IInv
<1>2. CASE MainStep
  BY <1>2, BootWaitKeeps, LaunchKeeps, WakeKeeps, WaitKeeps DEF MainStep
<1>3. ASSUME NEW c \in Core, Drain(c) PROVE IInv'
  <2>1. c = 0 \/ c \in Second
    BY ConstantsOK DEF Core, Second
  <2>2. QED BY <1>3, <2>1, MainDrainKeeps, SecondDrainKeeps
<1>4. ASSUME NEW c \in Second, SecondStep(c) PROVE IInv'
  BY <1>4, OnlineKeeps, DsbKeeps, CheckKeeps, ReadEntryKeeps, ReadArgKeeps,
     ClearKeeps, CallKeeps, SetDoneKeeps, WfeKeeps DEF SecondStep
<1>5. ASSUME NEW c \in Second, OtherEvent(c) PROVE IInv'
  <2>1. /\ event' = [event EXCEPT ![c] = TRUE]
        /\ UNCHANGED <<mem, pending, pc, round, i, fn, arg, ran>>
    BY <1>5 DEF OtherEvent
  <2>2. TypeOK' /\ EachTaskOnce'
    BY <2>1 DEF IInv, TypeOK, EachTaskOnce
  <2>3. MainInv' /\ \A d \in Second : Visible(d)' <=> Visible(d)
    BY <2>1, MainFrame DEF IInv
  <2>4. \A d \in Second : CoreInv(d)'
    BY <2>1, <2>3, CoreFrame DEF IInv
  <2>5. QED BY <2>2, <2>3, <2>4 DEF IInv
<1>6. QED BY <1>1, <1>2, <1>3, <1>4, <1>5 DEF Next, Over

(* t_entry.c: on a machine that keeps program order, every core calls the  *)
(* task of each round once, in order and with its own argument.            *)
THEOREM TasksRunOnce == Ordered => (Spec => [](TypeOK /\ EachTaskOnce))
<1>1. IInv => TypeOK /\ EachTaskOnce
  BY DEF IInv
<1>2. CASE Ordered
  <2>1. Init => IInv
    BY InvInit
  <2>2. IInv /\ [Next]_vars => IInv'
    BY <1>2, InvNext
  <2>3. QED BY <1>1, <2>1, <2>2, PTL DEF Spec
<1>3. QED BY <1>2

(* t_entry.c: when wait_all_cores returns from a round, every core has     *)
(* called the task of that round.                                          *)
THEOREM TheJoinWaitsForAll == Ordered => (Spec => []JoinMeansRun)
<1>1. IInv => JoinMeansRun
  BY JoinFromInv
<1>2. CASE Ordered
  <2>1. Init => IInv
    BY InvInit
  <2>2. IInv /\ [Next]_vars => IInv'
    BY <1>2, InvNext
  <2>3. QED BY <1>1, <2>1, <2>2, PTL DEF Spec
<1>3. QED BY <1>2
=============================================================================
