---------------------------- MODULE MCTelemetry ----------------------------
(* Windows over a week-day morning, its noon, a Sunday and the change to a *)
(* week-end, at steps of three hours and of half an hour, empty and        *)
(* refused ones included, and one timestep at each half hour of a Friday   *)
(* and a Saturday, with the extremes of weather; the readings of a         *)
(* timestep share a quality, except for a roll that drops the bank alone.  *)
EXTENDS Telemetry

MCWindows == {<<s, s + 18, 6>> : s \in {4, 20, 300}} \cup {<<s, s + 4, 1>> : s \in {10, 306}}
             \cup {<<s, s + 19, 6>> : s \in {40}} \cup {<<4, 4, 6>>, <<4, 10, 0>>, <<4, 10, -1>>}
             \cup {<<s, s + 1, 1>> : s \in 192..287}
MCAmbient == {16, 42}
MCIrradiance == {0, 100}
MCNoises == {[n \in Leaf |-> -3]}
MCAlpha(tau, dt) == CASE dt = 1 -> (CASE tau = 15 -> 86 [] tau = 20 -> 78 [] tau = 25 -> 70
                                       [] tau = 30 -> 63 [] OTHER -> 22)
                      [] OTHER -> IF tau = 120 THEN 78 ELSE 100
MCRolls == {[k \in Key |-> q] : q \in Quality}
           \cup {[k \in Key |-> IF k[1] = "CAP-001" THEN "STALE" ELSE "GOOD"]}
=============================================================================
