----------------------------- MODULE PowerClock -----------------------------
(***************************************************************************)
(* Power and clocks of the NPU: the power domains of src/npu/rkpm.c that   *)
(* rknpu_init switches on, the gates and resets of src/dev/cru.c, and the  *)
(* SCMI calls of src/dev/scmi.c.                                           *)
(*                                                                         *)
(* A PMU or CRU register is the set of its bits that are 1.  The upper     *)
(* half of a word written to it says which bits of the lower half count.   *)
(* A domain follows its bit in its own time, or not at all: the wait gives *)
(* up after MAX_WAIT_COUNT reads, and rknpu_init does not look at what it  *)
(* returns.                                                                *)
(***************************************************************************)
EXTENDS Naturals, Sequences

VARIABLES
  pwr,        \* the power-down bits of the PMU
  repaired,   \* domains whose hardware is up
  pm,         \* rknpu_init: what it does next, <<step, index of the domain>>
  timedOut,   \* domains whose wait has given up
  gate, reset,\* the clock gates and soft resets that are closed
  mux,        \* the parent selected in the CLKSEL registers
  cru,        \* how many of the enable_ functions have run
  scmi,       \* how many calls of enable_scmi_clock have been answered
  scmiOk,     \* none of them has failed
  clkOn, clkRate   \* the SCMI clock, as the platform firmware keeps it

pmVars == <<pwr, repaired, pm, timedOut>>
cruVars == <<gate, reset, mux, cru>>
scmiVars == <<scmi, scmiOk, clkOn, clkRate>>
powerVars == <<pmVars, cruVars, scmiVars>>

(* rk3588_domains and the order rknpu_init takes them in; the bit of each. *)
Domains == <<"npu", "nputop", "npu1", "npu2">>
Bit == [npu |-> 1, nputop |-> 3, npu1 |-> 4, npu2 |-> 5]
Named == {Domains[k] : k \in DOMAIN Domains}

(* What the enable_ functions release, in the order of                     *)
(* enable_rk3588_npu_clocks, with the parent the clock tree gives each.    *)
Clocks == <<"nputimer_root", "aclknpu_root", "aclknpu0", "hclknpu_root",
            "hclknpu0", "ptimer_root">>
Parent == [nputimer_root |-> "xin", aclknpu_root |-> "gpll",
           aclknpu0 |-> "aclknpu_root", hclknpu_root |-> "gpll",
           hclknpu0 |-> "hclknpu_root", ptimer_root |-> "gpll"]
Clock == {Clocks[k] : k \in DOMAIN Clocks}
Muxed == {c \in Clock : Parent[c] \notin Clock}

(* The calls of enable_scmi_clock. *)
ScmiCalls == <<"version", "config_set", "rate_get", "rate_set", "rate_get">>
Rates == {"reset", "200MHz"}

PowerTypeOK ==
  /\ pwr \subseteq 0 .. 15 /\ repaired \subseteq Named /\ timedOut \subseteq Named
  /\ pm \in {"write", "wait"} \X (1 .. Len(Domains) + 1)
  /\ gate \subseteq Clock /\ reset \subseteq Clock
  /\ mux \in [Muxed -> {0, 1}] /\ cru \in 0 .. Len(Clocks)
  /\ scmi \in 0 .. Len(ScmiCalls) /\ scmiOk \in BOOLEAN /\ clkOn \in BOOLEAN
  /\ clkRate \in Rates

(* The firmware may have left any of it on. *)
PowerReset ==
  /\ \E off \in {{}, Named, {"npu1", "npu2"}} :
       /\ pwr = {Bit[d] : d \in off} \cup {0, 2}
       /\ repaired = Named \ off
       /\ gate = (IF off = {} THEN {} ELSE Clock) /\ reset = gate
  /\ pm = <<"write", 1>> /\ timedOut = {}
  /\ mux \in {[c \in Muxed |-> 0], [c \in Muxed |-> 1]} /\ cru = 0
  /\ scmi = 0 /\ scmiOk = TRUE /\ clkOn = FALSE /\ clkRate = "reset"

-----------------------------------------------------------------------------
(* Power domains. *)

(* A word with write enables: the enabled bits take the low half's value.  *)
Written(reg, enables, value) == (reg \ enables) \cup (value \cap enables)

WriteBare(d, on) ==   \* variant: the word carries every write enable
  pwr' = Written(pwr, 0 .. 15, IF on THEN {} ELSE {Bit[d]})

rockchip_pm_write_power_control(d, on) ==
  pwr' = Written(pwr, {Bit[d]}, IF on THEN {} ELSE {Bit[d]})

(* The hardware moves a domain to where its bit says. *)
DomainFollows ==
  /\ \E d \in Named :
       \/ Bit[d] \notin pwr /\ d \notin repaired /\ repaired' = repaired \cup {d}
       \/ Bit[d] \in pwr /\ d \in repaired /\ repaired' = repaired \ {d}
  /\ UNCHANGED <<pwr, pm, timedOut, cruVars, scmiVars>>

is_domain_on(d) == d \in repaired

(* The domain rknpu_init is at. *)
Current == Domains[pm[2]]

PowerOnWrite ==
  /\ pm[1] = "write" /\ pm[2] <= Len(Domains)
  /\ rockchip_pm_write_power_control(Current, TRUE)
  /\ pm' = <<"wait", pm[2]>>
  /\ UNCHANGED <<repaired, timedOut>>

(* rockchip_pm_wait_stable sees the domain on, or has read often enough.   *)
PowerOnWait ==
  /\ pm[1] = "wait"
  /\ timedOut' = IF is_domain_on(Current) THEN timedOut ELSE timedOut \cup {Current}
  /\ pm' = <<"write", pm[2] + 1>>
  /\ UNCHANGED <<pwr, repaired>>

rockchip_pm_power_domain_on ==
  /\ PowerOnWrite \/ PowerOnWait
  /\ UNCHANGED <<cruVars, scmiVars>>

PowerOnDone == pm[2] > Len(Domains)

-----------------------------------------------------------------------------
(* Clocks. *)

(* One enable_ function: a CLKSEL written back without write enables,      *)
(* which selects nothing; then the reset is released and the gate opened.  *)
EnableClock(c) ==
  /\ mux' = mux
  /\ reset' = reset \ {c}
  /\ gate' = gate \ {c}

enable_rk3588_npu_clocks ==
  /\ cru < Len(Clocks)
  /\ EnableClock(Clocks[cru + 1])
  /\ cru' = cru + 1
  /\ UNCHANGED <<pmVars, scmiVars>>

-----------------------------------------------------------------------------
(* SCMI: the message is written to the shared memory, the SMC made and the *)
(* answer read, while nothing else runs on the core.  A failed SMC or an   *)
(* error status is logged and the next call made.                          *)

Answered(call, ok) ==
  /\ clkOn' = (clkOn \/ (ok /\ call = "config_set"))
  /\ clkRate' = IF ok /\ call = "rate_set" THEN "200MHz" ELSE clkRate

(* One SMC and what comes of it: sent and answered with success, or not.   *)
SmcOutcome == {TRUE, FALSE}

enable_scmi_clock ==
  /\ scmi < Len(ScmiCalls)
  /\ \E ok \in SmcOutcome :
       /\ Answered(ScmiCalls[scmi + 1], ok)
       /\ scmiOk' = (scmiOk /\ ok)
  /\ scmi' = scmi + 1
  /\ UNCHANGED <<pmVars, cruVars>>
=============================================================================
