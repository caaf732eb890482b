------------------------------ MODULE Traction ------------------------------
(* The formulas of the decision support engine, in integers:                *)
(*   forces in N, masses in kg, lengths in cm, implement and field widths in *)
(*   dm, speed in km/h, depth in cm, cone index in kPa, power in 10 W,       *)
(*   slip in hundredths of a percent, coefficients in 1/Unit, wheel numerics *)
(*   in hundredths, ASAE parameters in tenths, other percentages in percent. *)
(* The three simulation modes share them; TractorSimulation has the solvers. *)
EXTENDS Integers

Unit == 40000
FullSlip == 10000

\* GRAVITY.
Newtons(kg) == (kg * 981) \div 100

Lesser(m, n) == IF m < n THEN m ELSE n
Greater(m, n) == IF m < n THEN n ELSE m
clamp(value, minimum, maximum) == Greater(minimum, Lesser(maximum, value))

\* math.sqrt, rounded down: a root from that of a quarter of n.
NearerRoot == [n \in Nat, r \in Nat |-> IF (r + 1) * (r + 1) <= n THEN r + 1 ELSE r]
Root[n \in Nat] == IF n = 0 THEN 0 ELSE NearerRoot[n, 2 * Root[n \div 4]]

Square == [y \in Int |-> (y * y) \div Unit]

\* math.exp(-x) for x in 1/Unit: four terms of the series at x/8, to the 8th power.
ExpOfMinus(x) ==
    LET h == Lesser(x, 8 * Unit) \div 8
        h2 == Square[h]
        h3 == (h2 * h) \div Unit
    IN  Square[Square[Square[Unit - h + h2 \div 2 - h3 \div 6 + ((h3 * h) \div Unit) \div 24]]]
-----------------------------------------------------------------------------
\* Draft and geometry.

\* Soil texture alone selects the factor, in percent.
fi_factor == [Fine |-> 100, Medium |-> 70, Coarse |-> 45]

PY_OVER_D_RATIO_BY_IMPLEMENT ==
    [mb_plough |-> 20, disc_plough |-> 0, disc_harrow |-> 0, cultivator |-> 20]

\* The ratio of the row, or that of its type when the column is null; in percent.
py_over_d_ratio(tool) ==
    IF tool.pyd = -1 THEN PY_OVER_D_RATIO_BY_IMPLEMENT[tool.type] ELSE tool.pyd

\* Eq. 3.1: F (A + B S + C S^2) W T.
draft_force_n(tool, cond) ==
    (fi_factor[cond.texture] * (tool.a + tool.b * cond.speed + tool.c * cond.speed * cond.speed)
        * tool.width * cond.depth) \div 10000

geometry_terms(tractor, cond) ==
    [yd |-> (2 * cond.depth) \div 3, er |-> tractor.rearRadius \div 10, ef |-> tractor.frontRadius \div 10]

\* Eq. 3.5 and 3.6: rear and front axle load under an implement of the given
\* weight, centre of gravity, vertical soil reaction and draft.
dynamic_axle_loads(tractor, cond, tractorWeight, weight, cg, py, draft) ==
    LET g == geometry_terms(tractor, cond)
        moments == (weight + py) * (cg + tractor.hitch + tractor.wheelbase + g.ef)
                    + tractorWeight * (tractor.wheelbase + g.ef - tractor.cg) - draft * g.yd
        rear == moments \div (tractor.wheelbase - g.er + g.ef)
    IN  [rear |-> rear, front |-> tractorWeight + weight + py - rear]

\* The same balance for several tools as one implement, with the load of the PTO.
combined_axle_loads(tractor, cond, tractorWeight, weight, cg, py, draft, extraRear) ==
    LET g == geometry_terms(tractor, cond)
        rear == ((weight + py) * (cg + tractor.hitch + tractor.wheelbase + g.ef)
                    + tractorWeight * (tractor.wheelbase + g.ef - tractor.cg) - draft * g.yd)
                \div (tractor.wheelbase - g.er + g.ef) + extraRear
    IN  [rear |-> rear, front |-> tractorWeight + weight + py - rear]
-----------------------------------------------------------------------------
\* Traction of the driven wheels.

\* Bn = CI b d / W on the load of one wheel.
mobility_number(cond, tire, wheelLoad) ==
    (cond.coneIndex * tire.width * tire.diameter * 10) \div wheelLoad

gross_traction_ratio(bn) == (88 * (Unit - ExpOfMinus(40 * bn))) \div 100

\* 1/Bn + 0.04 + 0.5 S / sqrt(Bn) behind, 1/Bn + 0.04 in front, where nothing drives.
rolling_resistance_front(bn) == (100 * Unit) \div bn + (4 * Unit) \div 100

rolling_resistance_rear(bn, s) == rolling_resistance_front(bn) + (2000 * s) \div Root[10000 * bn]

\* Eq. 3.4: what the engine torque can pull, with the loads of both axles.
engine_torque_limited_pull_n(tractor, bnRear, bnFront, s, loads) ==
    (tractor.torque * tractor.efficiency) \div tractor.rearRadius
        - (rolling_resistance_rear(bnRear, s) * loads.rear) \div Unit
        - (rolling_resistance_front(bnFront) * loads.front) \div Unit

net_traction_coefficient(bn, s) ==
    (gross_traction_ratio(bn) * (Unit - ExpOfMinus(30 * s))) \div Unit
        - (100 * Unit) \div bn - (2000 * s) \div Root[10000 * bn]

\* TE = mu (1 - S) / mu_g, in 1/FullSlip.
traction_efficiency_percent(mu, bn, s) == (mu * (FullSlip - s)) \div gross_traction_ratio(bn)
-----------------------------------------------------------------------------
\* Work rate, power and the verdicts drawn from them.

round_half_away_from_zero(n, d) == (2 * n + d) \div (2 * d)

\* Share of the time in the field that is spent working, in percent; cond.area in
\* hundredths of a hectare, times in hundredths of a second.
field_capacity(cond, width) ==
    LET turning == clamp(1556 + (261 * width) \div (10 * cond.speed) - 141 * cond.speed, 800, 4500)
        turns == round_half_away_from_zero(cond.fieldWidth, width)
        working == (360000 * cond.area) \div (cond.speed * width)
        total == working + 2 * turning * turns
    IN  [turns |-> turns, efficiency |-> clamp(((working \div 100) * 100) \div (total \div 100), 50, 95)]

\* Share of the usable PTO power that the run takes, in tenths of a percent.
power_utilization(tractor, cond, draft, te, extraPto) ==
    LET drawbar == (draft * cond.speed) \div 36
        required == (((drawbar * 100) \div tractor.efficiency) * FullSlip) \div te
    IN  ((required + extraPto) * 1000) \div ((tractor.pto * (100 - tractor.reserve)) \div 100)

put_load_status(put) ==
    IF put \in 950 .. 1000 THEN "properly loaded" ELSE IF put < 950 THEN "underloaded" ELSE "overloaded"

\* The ceiling of mu for the soil condition that the texture stands for.
muCeiling == [Fine |-> 60, Medium |-> 55, Coarse |-> 40]

\* Mutant: load is advised down from where the run is merely heavy.
build_recommendations_early(s, mu, kwefPerMille, put, texture) ==
    UNION {IF s > 1500 \/ 100 * mu > muCeiling[texture] * Unit THEN {"ballast rear"} ELSE {},
           IF s < 800 THEN {"slip underutilized"} ELSE {},
           IF kwefPerMille < 200 THEN {"ballast front"} ELSE {},
           IF put > 850 THEN {"reduce"} ELSE {}}

\* Table 4.2 and the low-slip message of the tool before it.
build_recommendations(s, mu, kwefPerMille, put, texture) ==
    UNION {IF s > 1500 \/ 100 * mu > muCeiling[texture] * Unit THEN {"ballast rear"} ELSE {},
           IF s < 800 THEN {"slip underutilized"} ELSE {},
           IF kwefPerMille < 200 THEN {"ballast front"} ELSE {},
           IF put > 1000 THEN {"reduce"} ELSE {}}

derive_simulation_status(s, put, efficiency, converged) ==
    IF ~converged \/ s >= 2000 THEN "Unstable"
    ELSE IF s > 1500 \/ put > 850 \/ efficiency < 65 THEN "Heavy Load"
    ELSE "Stable"

derive_confidence(s, converged) ==
    IF ~converged \/ s >= 2000 THEN "Low"
    ELSE IF s < 800 \/ s > 1500 THEN "Moderate"
    ELSE "High"
=============================================================================
