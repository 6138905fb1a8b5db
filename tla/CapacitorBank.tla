--------------------------- MODULE CapacitorBank ---------------------------
(***************************************************************************)
(* The power-factor controller of the telemetry generator                  *)
(* (_step_capacitor of packages/reference_facility/telemetry.py): once a   *)
(* timestep it measures the power factor the bus would show with the       *)
(* stages now in, and switches one stage in or out with hysteresis.        *)
(*                                                                         *)
(* Power factors are compared through their tangent: for p >= 0,           *)
(* pf < 0.90 is |q| > p * tan(acos 0.90), and pf > 0.985 is                *)
(* |q| < p * tan(acos 0.985), with the tangents in millionths.             *)
(***************************************************************************)
EXTENDS Integers

CONSTANTS
  Kvar,        \* cap_stage_kvar: what one stage compensates
  Stages,      \* cap_max_stages
  Loading,     \* the <<p, q>> loads the bus may carry before compensation
  NoLoad,      \* before the first timestep
  MaxOps       \* bound of the exploration: operations counted before it stops

Scale == 1000000
TanLow == 484322     \* pf 0.90
TanHigh == 175182    \* pf 0.985

(* The bus imports, never less than MinImport; at that load one stage is   *)
(* smaller than the gap between the two thresholds.  The reference         *)
(* facility's stages of 50 kvar meet this from 162 kW on.                  *)
CONSTANT MinImport

ASSUME BankAssumption ==
  /\ Kvar \in Nat \ {0}
  /\ Stages \in Nat
  /\ MaxOps \in Nat
  /\ MinImport \in Nat \ {0}
  /\ \A l \in Loading : l \in Int \X Int /\ l[1] >= MinImport
  /\ Scale * Kvar =< (TanLow - TanHigh) * MinImport

VARIABLES
  load,    \* <<p, q>> of the bus, the bank left out, at the last timestep
  stage,   \* cap_stage: the stages in
  ops      \* cap_ops: the operation counter of the bank's breaker

bankVars == <<load, stage, ops>>

Abs(x) == IF x < 0 THEN -x ELSE x

(* What the bus draws with s stages in.                                    *)
QNow(l, s) == l[2] - s * Kvar

PfBelow(p, q) == Scale * Abs(q) > TanLow * p
PfAboveFromLow(p, q) == Scale * Abs(q) < TanLow * p
PfAbove(p, q) == Scale * Abs(q) < TanHigh * p \/ (p = 0 /\ q = 0)

SwitchInUnlimited(l, s) == PfBelow(l[1], QNow(l, s))
SwitchIn(l, s) == PfBelow(l[1], QNow(l, s)) /\ s < Stages
SwitchOut(l, s) == ~SwitchIn(l, s) /\ PfAbove(l[1], QNow(l, s)) /\ s > 0

StageAfter(l, s) == IF SwitchIn(l, s) THEN s + 1
                    ELSE IF SwitchOut(l, s) THEN s - 1 ELSE s
OpsAfterInsertionsOnly(l, s, o) == IF SwitchIn(l, s) THEN o + 1 ELSE o
OpsAfter(l, s, o) == IF SwitchIn(l, s) \/ SwitchOut(l, s) THEN o + 1 ELSE o

TypeOK ==
  /\ load \in {NoLoad} \cup Loading
  /\ stage \in 0..Stages
  /\ ops \in Nat

Init ==
  /\ load = NoLoad
  /\ stage = 0
  /\ ops = 0

(* One timestep of the bank, at whatever load the drivers produced.        *)
Timestep(l) ==
  /\ ops < MaxOps
  /\ load' = l
  /\ stage' = StageAfter(l, stage)
  /\ ops' = OpsAfter(l, stage, ops)

Next == \E l \in Loading : Timestep(l)

Spec == Init /\ [][Next]_bankVars

----------------------------------------------------------------------------
(* The operation counter accounts for every stage in: it is never behind   *)
(* the number of stages, and it differs from it by pairs (a stage in and   *)
(* out again); and no operation ever takes the bank past the stages it     *)
(* has, or below none.  A dropped or doubled count of _step_capacitor, or  *)
(* a limit forgotten on either branch, breaks it (telemetry.py, cap_ops    *)
(* next to cap_stage).                                                     *)
OpsAccountForStages ==
  /\ stage \in 0..Stages
  /\ ops >= stage /\ (ops - stage) % 2 = 0

(* The hysteresis holds: a timestep that put a stage in does not leave the *)
(* bank wanting it out at the same load, nor the reverse; so under a       *)
(* steady load the bank moves one way and stops, it never hunts            *)
(* (the 0.90 and 0.985 thresholds of _step_capacitor).                     *)
NeverHunts ==
  [][ /\ stage' > stage => ~SwitchOut(load', stage')
      /\ stage' < stage => ~SwitchIn(load', stage') ]_bankVars
=============================================================================
