----------------------------- MODULE Telemetry -----------------------------
(***************************************************************************)
(* The telemetry generator of the reference facility                       *)
(* (packages/reference_facility/telemetry.py).  generate walks a half-open *)
(* window of timestamps; at each it solves every node's power bottom-up,   *)
(* the capacitor bank switching on the way, and then emits one reading per *)
(* node and channel, some of them STALE or MISSING, which carry an earlier *)
(* value.                                                                  *)
(*                                                                         *)
(* Time is in half hours since a Monday midnight.  The ambient temperature,*)
(* the PV irradiance left by the clouds, the load noise and the quality of *)
(* a reading are pure hashes and cosines of the timestamp: here a step     *)
(* chooses them from the sets below.  The voltage is the nominal one, so   *)
(* that a feeder's loss depends on the power through it alone.  Keys of    *)
(* readings are kept for the channels that count or accumulate, and for    *)
(* active power as the representative of the measured ones.                *)
(***************************************************************************)
EXTENDS ReferenceFacility, Sequences

CONSTANTS
  Windows,                      \* <<start, end, interval_s>> a caller may ask for
  Ambient,                      \* ambient temperatures, deg C
  Irradiance,                   \* what season and clouds leave of it, per cent
  Noises,                       \* load noise of each leaf, per cent of its base
  Alpha(_, _),                  \* 1 - exp(-dt / tau), per cent, tau in minutes
  Rolls,                        \* qualities of the keys at one timestep
  None                          \* no good reading of the key yet

VARIABLES
  moment,                 \* the timestamp being generated
  begin, end, interval,   \* its window
  phase,                  \* "called", "solve", "emit", "returned" or "raised"
  ambient,                \* ambient temperature at this timestep
  elec,                   \* powers of the nodes at this timestep (_Electrical)
  capStage, capOps,       \* the bank's stages in, and its operations
  energy,                 \* energy_kwh, in half kWh
  temps,                  \* temps, in deg C; None before the first observation
  running, startCount, runtime,  \* of each motor; runtime_h in half hours
  lastGood,               \* last_good
  readings                \* the readings of the last emitted timestep

window == <<begin, end, interval>>
registers == <<energy, temps, running, startCount, runtime, lastGood, readings>>
generatorVars == <<moment, window, phase, ambient, elec, capStage, capOps, registers>>

Phase == {"called", "solve", "emit", "returned", "raised"}
Quality == {"GOOD", "STALE", "MISSING"}
(* The temperatures that lag behind the loading of their node.             *)
Thermal == (Motor \X {"WINDING", "BEARING"}) \cup ({"TX-001"} \X {"TOP_OIL", "WINDING"})
           \cup ((LoadBus \cup {"MSB-001", "CAP-001", "PV-001"}) \X {"PANEL"})

Key == (Node \X {"ACTIVE_POWER_KW", "ENERGY_ACTIVE_KWH"})
       \cup (Motor \X {"RUNTIME_HOURS", "START_COUNT"})
       \cup ({"CAP-001"} \X {"CAPACITOR_STAGES", "BREAKER_OPERATION_COUNT", "BREAKER_POSITION"})

ASSUME TelemetryAssumption ==
  /\ Windows \subseteq Nat \X Int \X Int
  /\ Ambient \subseteq Int /\ Irradiance \subseteq 0..100
  /\ Noises \subseteq [Leaf -> -3..3]
  /\ Rolls \subseteq [Key -> Quality]
  /\ None \notin Int

----------------------------------------------------------------------------
(* The drivers: piecewise-linear profiles over the hour of the day.        *)
Pwl(x, points) ==
  LET last == points[Len(points)]
      i == CHOOSE k \in 1..(Len(points) - 1) : points[k][1] =< x /\ x =< points[k + 1][1]
      a == points[i]
      b == points[i + 1]
  IN IF x =< points[1][1] THEN points[1][2]
     ELSE IF x >= last[1] THEN last[2]
     ELSE a[2] + ((x - a[1]) * (b[2] - a[2])) \div (b[1] - a[1])

HalfHour(m) == m % 48
Weekend(m) == (m \div 48) % 7 >= 5

ShiftWeekday == << <<0, 15>>, <<10, 15>>, <<14, 100>>, <<27, 95>>, <<28, 68>>,
                   <<29, 95>>, <<42, 95>>, <<46, 15>>, <<48, 15>> >>
ShiftWeekend == << <<0, 10>>, <<14, 10>>, <<18, 40>>, <<34, 40>>, <<40, 10>>, <<48, 10>> >>
ShiftFactor(m) == Pwl(HalfHour(m), IF Weekend(m) THEN ShiftWeekend ELSE ShiftWeekday)

OccWeekday == << <<0, 5>>, <<12, 5>>, <<16, 90>>, <<24, 90>>, <<25, 60>>,
                 <<26, 90>>, <<34, 90>>, <<38, 20>>, <<48, 5>> >>
OccWeekend == << <<0, 2>>, <<18, 5>>, <<20, 20>>, <<32, 20>>, <<36, 5>>, <<48, 2>> >>
OccupancyFactor(m) == Pwl(HalfHour(m), IF Weekend(m) THEN OccWeekend ELSE OccWeekday)

(* sin^1.3 between six and six (clear_sky_irradiance), in per cent rounded *)
(* up, by the half hours from noon; the season is part of Irradiance.      *)
ClearSky(m) ==
  LET noon == << 99, 96, 91, 83, 74, 64, 53, 41, 29, 18, 8 >>
      h == HalfHour(m)
      away == IF h < 24 THEN 24 - h ELSE h - 24
  IN IF away = 0 THEN 100 ELSE IF away =< 11 THEN noon[away] ELSE 0

(* What the cooling answers to an ambient temperature, per cent.           *)
AmbientResponse(t) == Max({0, 10 * (t - 22)})

LeafPowerWithoutBase(n, m, heat, noise) ==
  LET r == Rating[n]
      p == (ShiftFactor(m) * r.prod + heat * r.heat + OccupancyFactor(m) * r.occ) \div 100
  IN [p |-> p, q |-> (p * r.tan) \div 1000]
LeafPower(n, m, heat, noise) ==
  LET r == Rating[n]
      p == Max({0, r.base + (ShiftFactor(m) * r.prod + heat * r.heat
                             + OccupancyFactor(m) * r.occ + noise[n] * r.base) \div 100})
  IN [p |-> p, q |-> (p * r.tan) \div 1000]

----------------------------------------------------------------------------
(* The solution of one timestep.                                           *)
Squared(e) == e.p * e.p + e.q * e.q

(* 3 I^2 R and 3 I^2 X of the feeder of c, at the nominal 480 V.           *)
FeederLoss(c, e) == [p |-> (Squared(e) * Feeder[c][1]) \div 2304000,
                     q |-> (Squared(e) * Feeder[c][2]) \div 2304000]

(* The feeders of the children fed, with what they carry and what they     *)
(* lose (_aggregate_children).                                             *)
SumOver(S, f) == MapThenSumSet(LAMBDA c : f[c], S)

Aggregate(bus, powers, excluded) ==
  LET Fed == ChildrenOf(bus) \ excluded
  IN [p |-> SumOver(Fed, [c \in Fed |-> powers[c].p + FeederLoss(c, powers[c]).p]),
      q |-> SumOver(Fed, [c \in Fed |-> powers[c].q + FeederLoss(c, powers[c]).q])]

(* elec[n] = e, n being solved after what is in powers.                    *)
With(powers, n, e) == [x \in DOMAIN powers \cup {n} |-> IF x = n THEN e ELSE powers[x]]

(* Leaves, PV and load buses, in the order they are solved.                *)
Leaves(m, heat, noise) == [n \in Leaf |-> LeafPower(n, m, heat, noise)]
WithPv(powers, m, pv) ==
  With(powers, "PV-001", [p |-> -((PvCapacity * ClearSky(m) * pv) \div 10000), q |-> 0])
WithLoadBuses(powers) ==
  [n \in DOMAIN powers \cup LoadBus |->
     IF n \in LoadBus THEN Aggregate(n, powers, {}) ELSE powers[n]]

Downstream(m, heat, pv, noise) == WithLoadBuses(WithPv(Leaves(m, heat, noise), m, pv))

BusLoad(powers) == Aggregate("MSB-001", powers, {"CAP-001"})

(* No-load, load and magnetising share of the transformer.                 *)
TxShare(e) == [p |-> (31 + (210 * Squared(e)) \div 6250000) \div 10,
               q |-> 15 + (135 * Squared(e)) \div 6250000]

(* Bank, main bus, transformer and utility, in the order they are solved.  *)
WithBank(powers, s) == With(powers, "CAP-001", [p |-> 0, q |-> -(s * StageKvar)])
WithMainBusBeforeTheBank(powers) == With(powers, "MSB-001", BusLoad(powers))
WithMainBus(powers) == With(powers, "MSB-001", Aggregate("MSB-001", powers, {}))
WithTransformer(powers) ==
  LET secondary == Aggregate("TX-001", powers, {})
      share == TxShare(powers["MSB-001"])
  IN With(powers, "TX-001", [p |-> secondary.p + share.p, q |-> secondary.q + share.q])
WithUtility(powers) == With(powers, "UTIL-001", Aggregate("UTIL-001", powers, {}))

Upstream(powers, s) == WithUtility(WithTransformer(WithMainBus(WithBank(powers, s))))

----------------------------------------------------------------------------
Lightest == 162   \* kW: the least load for which the bank is known not to hunt

BankLoad == IF elec = <<>> THEN None
            ELSE <<BusLoad(elec).p, BusLoad(elec).q>>

Bank == INSTANCE CapacitorBank
  WITH Kvar <- StageKvar, Stages <- MaxStages, MinImport <- Lightest, MaxOps <- 1000,
       Loading <- {l \in Int \X Int : l[1] >= Lightest},
       NoLoad <- None, load <- BankLoad, stage <- capStage, ops <- capOps

GeneratorInit ==
  /\ \E w \in Windows : begin = w[1] /\ end = w[2] /\ interval = w[3]
  /\ moment = begin
  /\ phase = "called"
  /\ ambient = 0 /\ elec = <<>>
  /\ capStage = 0 /\ capOps = 0
  /\ energy = [n \in Node |-> 0]
  /\ temps = [k \in Thermal |-> None]
  /\ running = [n \in Motor |-> "unseen"]
  /\ startCount = [n \in Motor |-> 0]
  /\ runtime = [n \in Motor |-> 0]
  /\ lastGood = [k \in Key |-> None]
  /\ readings = <<>>

StartUnguarded ==
  /\ phase = "called"
  /\ phase' = IF interval < 0 THEN "raised" ELSE "solve"
  /\ UNCHANGED <<moment, window, ambient, elec, capStage, capOps, registers>>

(* _timestamps refuses an interval that would never reach the end.         *)
Start ==
  /\ phase = "called"
  /\ phase' = IF interval =< 0 THEN "raised" ELSE "solve"
  /\ UNCHANGED <<moment, window, ambient, elec, capStage, capOps, registers>>

SolveTimestep ==
  /\ phase = "solve" /\ moment < end
  /\ \E air \in Ambient, pv \in Irradiance, noise \in Noises :
       LET below == Downstream(moment, AmbientResponse(air), pv, noise)
           drawn == <<BusLoad(below).p, BusLoad(below).q>>
           s == Bank!StageAfter(drawn, capStage)
       IN /\ capStage' = s
          /\ capOps' = Bank!OpsAfter(drawn, capStage, capOps)
          /\ elec' = Upstream(below, s)
          /\ ambient' = air
  /\ phase' = "emit"
  /\ UNCHANGED <<moment, window, registers>>

(* loading_frac, capped at 1.2, in steps of ten per cent.                  *)
LoadingOf(n) ==
  Max({x \in 0..12 : LET s == (x * Capacity[n]) \div 10 IN s * s =< Squared(elec[n])})

(* What a temperature heads for above ambient, and its time constant.      *)
RiseAt(k, x) ==
  CASE k[1] \in Motor /\ k[2] = "WINDING" -> (65 * x * x) \div 100
    [] k[1] \in Motor /\ k[2] = "BEARING" -> (25 * x) \div 10
    [] k[2] = "TOP_OIL" -> (45 * x * x) \div 100
    [] k = <<"TX-001", "WINDING">> -> (60 * x * x) \div 100
    [] k[1] = "CAP-001" -> 6
    [] k[1] = "PV-001" -> (12 * x) \div 10
    [] OTHER -> (15 * x) \div 10

Tau(k) ==
  CASE k[1] \in Motor /\ k[2] = "BEARING" -> 30
    [] (k[1] \in Motor /\ k[2] = "WINDING") \/ k[1] = "PV-001" -> 15
    [] k[2] = "TOP_OIL" -> 120
    [] k[1] = "CAP-001" -> 25
    [] OTHER -> 20

(* The share of the way that a temperature makes in one interval.          *)
ASSUME ResponseAssumption ==
  \A w \in Windows : w[3] > 0 => \A k \in Thermal : Alpha(Tau(k), w[3]) \in 0..100

ThermalStepFromCold(k) ==
  LET target == ambient + RiseAt(k, LoadingOf(k[1]))
      prev == IF temps[k] = None THEN 0 ELSE temps[k]
  IN prev + ((target - prev) * Alpha(Tau(k), interval)) \div 100
ThermalStep(k) ==
  LET target == ambient + RiseAt(k, LoadingOf(k[1]))
  IN IF temps[k] = None THEN target
     ELSE temps[k] + ((target - temps[k]) * Alpha(Tau(k), interval)) \div 100

(* vfd_loading > 0.05                                                      *)
RunningNow(n) == 400 * Squared(elec[n]) > Rating[n].kva * Rating[n].kva

CountedStart(n) == running[n] = "stopped" /\ RunningNow(n)

Consumed(n) == Bank!Abs(elec[n].p) * interval

EnergyAfter(n) == energy[n] + Consumed(n)
StartsAfter(n) == startCount[n] + IF CountedStart(n) THEN 1 ELSE 0
RuntimeAfter(n) == runtime[n] + IF RunningNow(n) THEN interval ELSE 0

(* What the emission measures, the registers after this timestep.          *)
Measured(k) ==
  CASE k[2] = "ACTIVE_POWER_KW" -> elec[k[1]].p
    [] k[2] = "ENERGY_ACTIVE_KWH" -> EnergyAfter(k[1])
    [] k[2] = "RUNTIME_HOURS" -> RuntimeAfter(k[1])
    [] k[2] = "START_COUNT" -> StartsAfter(k[1])
    [] k[2] = "CAPACITOR_STAGES" -> capStage
    [] k[2] = "BREAKER_OPERATION_COUNT" -> capOps
    [] k[2] = "BREAKER_POSITION" -> IF capStage > 0 THEN 1 ELSE 0

CarriedUnlessMissing(k, q, v) ==
  IF q = "GOOD" THEN v ELSE IF q = "STALE" /\ lastGood[k] # None THEN lastGood[k] ELSE 0
(* The value a reading of quality q carries, v being the measured one.     *)
Carried(k, q, v) == IF q = "GOOD" \/ lastGood[k] = None THEN v ELSE lastGood[k]
GoodAfter(k, q, v) == IF q = "GOOD" THEN v ELSE lastGood[k]

EmitTimestep ==
  /\ phase = "emit"
  /\ UNCHANGED <<window, ambient, elec, capStage, capOps>>
  /\ temps' = [k \in Thermal |-> ThermalStep(k)]
  /\ energy' = [n \in Node |-> EnergyAfter(n)]
  /\ running' = [n \in Motor |-> IF RunningNow(n) THEN "running" ELSE "stopped"]
  /\ startCount' = [n \in Motor |-> StartsAfter(n)]
  /\ runtime' = [n \in Motor |-> RuntimeAfter(n)]
  /\ \E roll \in Rolls :
       /\ readings' = [k \in Key |-> [value |-> Carried(k, roll[k], Measured(k)), quality |-> roll[k]]]
       /\ lastGood' = [k \in Key |-> GoodAfter(k, roll[k], Measured(k))]
  /\ moment' = moment + interval
  /\ phase' = "solve"

Return ==
  /\ phase = "solve" /\ moment >= end
  /\ phase' = "returned"
  /\ UNCHANGED <<moment, window, ambient, elec, capStage, capOps, registers>>

Ended == phase \in {"returned", "raised"} /\ UNCHANGED generatorVars

GeneratorNext == Start \/ SolveTimestep \/ EmitTimestep \/ Return \/ Ended

(* The generator is sequential code that runs until it returns or raises:  *)
(* every step of it moves its phase on.                                    *)
Advance == phase \in {"called", "solve", "emit"} /\ phase' \in Phase

GeneratorSpec == GeneratorInit /\ [][GeneratorNext]_generatorVars /\ WF_phase(Advance)
----------------------------------------------------------------------------
Counters == {k \in Key : k[2] \in {"ENERGY_ACTIVE_KWH", "RUNTIME_HOURS", "START_COUNT",
                                   "BREAKER_OPERATION_COUNT"}}
Emits == phase = "emit" /\ readings # <<>>

(* What leaves through a counter channel never goes back, whatever mix of  *)
(* GOOD, STALE and MISSING the readings have: neither the export of the PV *)
(* nor a carried-over value makes a register run backwards (_emit_timestep *)
(* accumulates |P| dt, _quality_and_value carries the last good value).    *)
CountersNeverDecrease ==
  [][Emits => \A k \in Counters : readings'[k].value >= readings[k].value]_generatorVars

(* The utility supplies exactly what the leaves and the PV take, less what *)
(* the stages NOW in compensate, plus every feeder's and the transformer's *)
(* loss: no share is dropped, counted twice or taken before the bank has   *)
(* switched (the order of _solve_timestep).                                *)
UtilitySuppliesAll ==
  elec # <<>> =>
    LET taking == Leaf \cup {"PV-001"}
        fed == Node \ {"UTIL-001"}
        share == TxShare(elec["MSB-001"])
    IN /\ elec["UTIL-001"].p = SumOver(taking, [n \in taking |-> elec[n].p]) + share.p
                               + SumOver(fed, [n \in fed |-> FeederLoss(n, elec[n]).p])
       /\ elec["UTIL-001"].q = SumOver(taking, [n \in taking |-> elec[n].q]) + share.q
                               + SumOver(fed, [n \in fed |-> FeederLoss(n, elec[n]).q])
                               - capStage * StageKvar

(* The main bus always imports at least the load for which CapacitorBank   *)
(* shows that the bank never hunts, and draws more reactive power than the *)
(* whole bank compensates, so that it never leads: the code measures a     *)
(* factor without a sign and would answer a leading one with further       *)
(* stages.  No hour, weekend, weather or PV output of the drivers breaks   *)
(* it (_leaf_power and the PV injection against the bank's sizing).        *)
BusWithinBankPremises ==
  elec # <<>> => BusLoad(elec).p >= Lightest /\ BusLoad(elec).q >= MaxStages * StageKvar

(* A temperature never leaves the span of what its node can head for: the  *)
(* first observation starts at its target and no later one overshoots,     *)
(* however long the step is against the time constant (_thermal_step with  *)
(* the loading capped at 1.2 in _emit_role_channels).                      *)
TemperaturesStayWithinTargets ==
  \A k \in Thermal :
    temps[k] # None =>
      \E cold, hot \in Ambient :
        /\ cold + RiseAt(k, 0) =< temps[k]
        /\ temps[k] =< hot + RiseAt(k, 12)

(* Generation ends for every window and interval, the ones the caller got  *)
(* wrong included: _timestamps raises on an interval that would never      *)
(* reach the end.                                                          *)
GenerationEnds == <>(phase \in {"returned", "raised"})
=============================================================================
