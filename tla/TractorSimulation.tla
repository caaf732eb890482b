------------------------- MODULE TractorSimulation -------------------------
(* POST /simulations/run: what is refused, how the three modes reduce to    *)
(* one chain of loads, and the three iterative solvers on it: the slip      *)
(* search, the front ballast bisection and the rear ballast fixed point.    *)
(* One run at a time; a run shares nothing with another but the rows.       *)
EXTENDS Traction, FiniteSets

CONSTANTS
    Queries,           \* the requests, with the rows they name
    GrowthSteps,       \* BOUND on widening the ballast search (40 in the code)
    SolverIterations,  \* BALLAST_SOLVER_MAX_ITERATIONS
    Refused,           \* the answer of a 404 or 422
    Null

ASSUME BoundsAssumption == GrowthSteps \in Nat /\ SolverIterations \in Nat \ {0}

ASSUME NullAssumption == Null \notin Int     \* an unset column is no measure

Missing == -1          \* a NULL column or an absent field

RotorSpecs == {"weight", "cg", "resistance", "efficiency", "power", "speed", "vertical"}

\* The rows and the request as the columns and the schema type them; a measure that is
\* NULL or absent is Missing.
Tyre == [width : Int, diameter : Int]

Tractor == [tires : BOOLEAN, complete : BOOLEAN, frontTire : Tyre, rearTire : Tyre,
            reserve : Int, efficiency : Int, torque : Int, pto : Int,
            rearRadius : Int, frontRadius : Int, rearStatic : Int, frontStatic : Int,
            wheelRadius : Int, wheelbase : Int, hitch : Int, cg : Int, front : Int, rear : Int]

Tool == [type : STRING, width : Int, weight : Nat \cup {Missing}, cg : Int,
         a : Int, b : Int, c : Int, pyd : Int, rotor : [RotorSpecs -> Int]]

Conditions == [texture : {"Fine", "Medium", "Coarse"}, coneIndex : Int, depth : Int,
               speed : Int, area : Int, length : Int, fieldWidth : Int]

Request == [mode : {"single", "passive_passive", "active_passive"}, tractor : Tractor,
            tool : Tool, second : Tool \cup {Null}, ki : Int, cond : Conditions,
            preset : BOOLEAN, rotor : [RotorSpecs -> Int], override : Int]

ASSUME RequestsAssumption == Queries \subseteq Request

SlipInitial == 200
SlipIncrement == 10
MaxSlip == 2000
TargetSlip == 1500     \* REAR_BALLAST_TARGET_SLIP_PCT
BallastCeiling == 5000 \* where the search for front ballast starts, kg
BallastTolerance == 2  \* kg; 0.0001 in the code
SlipTolerance == 2     \* what the rounding of the integer curve hides

VARIABLES
    pc,        \* where the running calculation stands
    query,     \* the request
    axles,     \* AxleLoadResolution: loads in force and the ballast fitted for them
    slip,      \* trial slip
    prev,      \* the last step short of the draft: slip and pull
    solution,  \* SlipSolution
    search,    \* bracket of the ballast bisection, its loop counter and its purpose
    front,     \* ballast_front_required
    rear,      \* R' of the fixed point, with its loop counter
    answer     \* what the client gets

vars == <<pc, query, axles, slip, prev, solution, search, front, rear, answer>>
-----------------------------------------------------------------------------
\* Rows and requests.

NeededSpecs == RotorSpecs \ {"vertical"}

\* The schema: own conditions are complete when no preset is named, a pair names its
\* second tool and ki, and a rotor is named or described.
validate_preset_or_custom(q) ==
    /\ ~q.preset => \A f \in DOMAIN q.cond \ {"texture"} : q.cond[f] # Missing
    /\ q.mode = "passive_passive" => q.second # Null /\ q.ki # Missing
    /\ q.mode = "active_passive" /\ q.second = Null => \A f \in NeededSpecs : q.rotor[f] # Missing

PASSIVE_IMPLEMENT_TYPES == {"mb_plough", "disc_plough", "cultivator", "disc_harrow"}

is_passive(tool) == tool.type \in PASSIVE_IMPLEMENT_TYPES

\* Which power class may fill which slot; a pair needs two different rows.
validate_slot_assignment(q) ==
    /\ is_passive(q.tool)
    /\ q.mode = "passive_passive" => is_passive(q.second) /\ q.second # q.tool
    /\ q.mode = "active_passive" /\ q.second # Null => ~is_passive(q.second)

\* The columns the draft equation reads.
require_implement_fields(tool) ==
    \A f \in {"width", "weight", "cg", "a", "b", "c"} : tool[f] # Missing

\* Rolling radius of a tyre, else its static loaded radius, else (behind) the tractor's.
resolve_rolling_radii(t) ==
    LET ahead == IF t.frontRadius # Missing THEN t.frontRadius ELSE t.frontStatic
        behind == IF t.rearRadius # Missing THEN t.rearRadius ELSE t.rearStatic
    IN  [t EXCEPT !.frontRadius = ahead,
                  !.rearRadius = IF behind # Missing THEN behind ELSE t.wheelRadius]

\* The value of the request wins over the catalogue's, field by field.
resolve_rotor_specs(q) ==
    [f \in RotorSpecs |->
        IF q.rotor[f] # Missing THEN q.rotor[f]
        ELSE IF q.second # Null THEN q.second.rotor[f] ELSE Missing]

\* Area of the plot when its length is known, the supplied area otherwise.
field_area(cond) ==
    IF cond.length # Missing /\ cond.length * cond.fieldWidth > 0
    THEN (cond.length * cond.fieldWidth) \div 10000
    ELSE cond.area

\* What the engine is called with.
Resolved(q) == [q EXCEPT !.cond.area = field_area(q.cond), !.tractor = resolve_rolling_radii(q.tractor)]

width_in_range(tool) == tool.width \in 2 .. 50

validate_operating_ranges(q) ==
    /\ q.cond.speed \in 2 .. 8
    /\ q.cond.depth \in 5 .. 35
    /\ q.cond.coneIndex \in 300 .. 3000
    /\ width_in_range(q.tool)
    /\ q.mode = "passive_passive" => width_in_range(q.second)
    /\ q.tractor.pto >= 500

\* The checks of the route, in its order: schema, tyres, slots, columns, radii, ranges,
\* rotor.
Admissible(q) ==
    /\ validate_preset_or_custom(q)
    /\ q.tractor.tires
    /\ validate_slot_assignment(q)
    /\ q.tractor.complete
    /\ require_implement_fields(q.tool)
    /\ q.mode = "passive_passive" => require_implement_fields(q.second)
    /\ resolve_rolling_radii(q.tractor).frontRadius # Missing
    /\ resolve_rolling_radii(q.tractor).rearRadius # Missing
    /\ validate_operating_ranges(q)
    /\ q.mode = "active_passive" =>
        \A f \in NeededSpecs : resolve_rotor_specs(q)[f] # Missing
-----------------------------------------------------------------------------
\* One chain for the three modes: draft, combined implement, swath and rotor power.

single_chain(q) ==
    LET draft == draft_force_n(q.tool, q.cond)
    IN  [draft |-> draft, weight |-> Newtons(q.tool.weight), cg |-> q.tool.cg,
         py |-> (py_over_d_ratio(q.tool) * draft) \div 100, extraRear |-> 0,
         swath |-> q.tool.width, extraPto |-> 0]

\* Mutant: the centre of gravity is the middle of the two.
combined_cg_unweighted(w1, x1, w2, x2) == IF w1 + w2 > 0 THEN (x1 + x2) \div 2 ELSE 0

\* Centre of gravity of two tools, weighted by their weights.
combined_cg(w1, x1, w2, x2) == IF w1 + w2 > 0 THEN (w1 * x1 + w2 * x2) \div (w1 + w2) ELSE 0

passive_passive_chain(q) ==
    LET d1 == draft_force_n(q.tool, q.cond)
        d2 == draft_force_n(q.second, q.cond)
        w1 == Newtons(q.tool.weight)
        w2 == Newtons(q.second.weight)
    IN  [draft |-> ((100 - q.ki) * (d1 + d2)) \div 100,
         weight |-> w1 + w2,
         cg |-> combined_cg(w1, q.tool.cg, w2, q.second.cg),
         py |-> (py_over_d_ratio(q.tool) * d1 + py_over_d_ratio(q.second) * d2) \div 100,
         extraRear |-> 0,
         swath |-> IF q.override # Missing THEN q.override ELSE Greater(q.tool.width, q.second.width),
         extraPto |-> 0]

rotor_thrust_n(r, speed) == (36 * r.efficiency * r.power) \div (100 * speed)

pto_equivalent_rear_load_n(r, wheelbase) == ((9550 * r.power) \div r.speed) \div wheelbase

active_passive_chain(q) ==
    LET r == resolve_rotor_specs(q)
        dp == draft_force_n(q.tool, q.cond)
        wp == Newtons(q.tool.weight)
        wa == Newtons(r.weight)
    IN  [draft |-> dp + r.resistance - rotor_thrust_n(r, q.cond.speed),
         weight |-> wp + wa,
         cg |-> combined_cg(wp, q.tool.cg, wa, r.cg),
         py |-> (py_over_d_ratio(q.tool) * dp) \div 100,
         extraRear |-> pto_equivalent_rear_load_n(r, q.tractor.wheelbase)
                        + (IF r.vertical = Missing THEN 0 ELSE r.vertical),
         swath |-> q.tool.width, extraPto |-> r.power]

Chain(q) ==
    CASE q.mode = "single" -> single_chain(q)
      [] q.mode = "passive_passive" -> passive_passive_chain(q)
      [] q.mode = "active_passive" -> active_passive_chain(q)

\* The errors the engine raises before it solves anything.
EngineAccepts(q) ==
    /\ q.cond.area > 0
    /\ q.tractor.reserve < 100
    /\ q.mode = "passive_passive" => q.ki \in 0 .. 25
    /\ q.mode = "active_passive" =>
        /\ resolve_rotor_specs(q).efficiency \in 25 .. 45
        /\ active_passive_chain(q).draft > 0

tractor_weight_n(q) == Newtons(q.tractor.front + q.tractor.rear)

\* Axle loads with so much front ballast added to the tractor.
axle_loads_with_ballast(q, kg) ==
    LET c == Chain(q)
        weight == tractor_weight_n(q) + Newtons(kg)
    IN  IF q.mode = "single"
        THEN dynamic_axle_loads(q.tractor, q.cond, weight, c.weight, c.cg, c.py, c.draft)
        ELSE combined_axle_loads(q.tractor, q.cond, weight, c.weight, c.cg, c.py, c.draft, c.extraRear)

AxlesWith(q, kg) ==
    LET loads == axle_loads_with_ballast(q, kg)
    IN  [rear |-> loads.rear, front |-> loads.front, fitted |-> kg]

\* Kwef = Rf / (Wt + ballast) is at least 0.20.
SteersWith(q, kg) == 5 * axle_loads_with_ballast(q, kg).front >= tractor_weight_n(q) + Newtons(kg)
-----------------------------------------------------------------------------
RearNumeric(load) == mobility_number(query.cond, query.tractor.rearTire, load \div 2)

FrontNumeric == mobility_number(query.cond, query.tractor.frontTire, axles.front \div 2)

\* Pst = mu Rr at a trial slip.
Pull(s) == (net_traction_coefficient(RearNumeric(axles.rear), s) * axles.rear) \div Unit

Draft == Chain(query).draft

\* A new search, for ballast that keeps the front axle down or that lets it steer.
Searching(goal) == [lo |-> 0, hi |-> BallastCeiling, tries |-> 0, goal |-> goal]

Init ==
    /\ pc = "idle"
    /\ query = Null
    /\ axles = Null
    /\ slip = SlipInitial
    /\ prev = Null
    /\ solution = Null
    /\ search = Searching("lift")
    /\ front = Null
    /\ rear = Null
    /\ answer = Null

\* 404 and 422: nothing is stored.
Refuse ==
    /\ pc' = "idle"
    /\ answer' = Refused

\* A request is checked and, if it passes, the axle loads are found. A rear load
\* that is not positive cannot be helped; a front load that is not is.
Submit ==
    /\ pc = "idle"
    /\ \E asked \in Queries : LET q == Resolved(asked) IN
        /\ query' = q
        /\ slip' = SlipInitial
        /\ prev' = Null
        /\ solution' = Null
        /\ search' = Searching("lift")
        /\ front' = Null
        /\ rear' = Null
        /\ IF Admissible(asked) /\ EngineAccepts(q)
           THEN LET loads == AxlesWith(q, 0)
                IN  IF loads.rear <= 0
                    THEN Refuse /\ axles' = Null
                    ELSE /\ answer' = Null
                         /\ IF loads.front > 0
                            THEN axles' = loads /\ pc' = "slip"
                            ELSE axles' = Null /\ pc' = "widen"
           ELSE Refuse /\ axles' = Null

\* Mutant: every other trial slip is skipped.
NextTrialSkipping ==
    IF slip + 2 * SlipIncrement >= MaxSlip
    THEN /\ slip' = MaxSlip
         /\ solution' = [slip |-> MaxSlip, stepped |-> MaxSlip, converged |-> FALSE]
         /\ pc' = "judge"
    ELSE /\ slip' = slip + 2 * SlipIncrement
         /\ UNCHANGED <<solution, pc>>

\* The trial slip rises until the pull covers the draft, or to the cap, whose own
\* pull is computed but never compared.
NextTrial ==
    IF slip + SlipIncrement >= MaxSlip
    THEN /\ slip' = MaxSlip
         /\ solution' = [slip |-> MaxSlip, stepped |-> MaxSlip, converged |-> FALSE]
         /\ pc' = "judge"
    ELSE /\ slip' = slip + SlipIncrement
         /\ UNCHANGED <<solution, pc>>

\* Mutant: the chord is measured from its upper end.
InterpolatedFromAbove(pull) ==
    IF prev # Null /\ pull > prev.pull
    THEN prev.slip + ((pull - Draft) * (slip - prev.slip)) \div (pull - prev.pull)
    ELSE slip

\* Where the chord between the last two trials meets the draft.
Interpolated(pull) ==
    IF prev # Null /\ pull > prev.pull
    THEN prev.slip + ((Draft - prev.pull) * (slip - prev.slip)) \div (pull - prev.pull)
    ELSE slip

TrySlip ==
    /\ pc = "slip"
    /\ LET pull == Pull(slip)
       IN  IF pull >= Draft
           THEN /\ solution' = [slip |-> Interpolated(pull), stepped |-> slip, converged |-> TRUE]
                /\ pc' = "judge"
                /\ UNCHANGED <<slip, prev>>
           ELSE /\ prev' = [slip |-> slip, pull |-> pull]
                /\ NextTrial
    /\ UNCHANGED <<query, axles, search, front, rear, answer>>

Mu == net_traction_coefficient(RearNumeric(axles.rear), solution.slip)

TractiveEfficiency == traction_efficiency_percent(Mu, RearNumeric(axles.rear), solution.slip)

\* A run without tractive efficiency is refused; otherwise front ballast is sized.
Judge ==
    /\ pc = "judge"
    /\ IF TractiveEfficiency <= 0
       THEN Refuse /\ UNCHANGED front
       ELSE /\ UNCHANGED answer
            /\ IF SteersWith(query, 0)
               THEN front' = 0 /\ pc' = "settle"
               ELSE pc' = "widen" /\ UNCHANGED front
    /\ search' = Searching("steer")
    /\ UNCHANGED <<query, axles, slip, prev, solution, rear>>

\* Front ballast is found, or cannot be: before the slip search it is fitted to
\* keep the front axle down, after it it is what the answer recommends.
BallastFound(kg) ==
    IF search.goal = "lift"
    THEN /\ axles' = AxlesWith(query, kg)
         /\ pc' = "slip"
         /\ UNCHANGED <<front, answer>>
    ELSE /\ front' = kg
         /\ pc' = "settle"
         /\ UNCHANGED <<axles, answer>>

NoBallastHelps ==
    IF search.goal = "lift"
    THEN Refuse /\ UNCHANGED <<axles, front>>
    ELSE /\ front' = Missing
         /\ pc' = "settle"
         /\ UNCHANGED <<axles, answer>>

\* The upper end of the bracket grows by 8/5 until it steers.
Widen ==
    /\ pc = "widen"
    /\ \/ /\ SteersWith(query, search.hi)
          /\ search.tries < GrowthSteps
          /\ pc' = "bisect"
          /\ search' = [search EXCEPT !.tries = 0]
          /\ UNCHANGED <<axles, front, answer>>
       \/ /\ ~SteersWith(query, search.hi)
          /\ search.tries < GrowthSteps
          /\ search' = [search EXCEPT !.hi = (@ * 8) \div 5, !.tries = @ + 1]
          /\ UNCHANGED <<pc, axles, front, answer>>
       \/ /\ search.tries = GrowthSteps
          /\ NoBallastHelps
          /\ UNCHANGED search
    /\ UNCHANGED <<query, slip, prev, solution, rear>>

Middle == (search.lo + search.hi) \div 2

\* Mutant: the half of the bracket that holds the root is thrown away.
BisectAway ==
    /\ pc = "bisect"
    /\ IF search.hi - search.lo < BallastTolerance \/ search.tries = SolverIterations
       THEN BallastFound(Middle) /\ UNCHANGED search
       ELSE /\ search' = IF SteersWith(query, Middle)
                         THEN [search EXCEPT !.lo = Middle, !.tries = @ + 1]
                         ELSE [search EXCEPT !.hi = Middle, !.tries = @ + 1]
            /\ UNCHANGED <<pc, axles, front, answer>>
    /\ UNCHANGED <<query, slip, prev, solution, rear>>

Bisect ==
    /\ pc = "bisect"
    /\ IF search.hi - search.lo < BallastTolerance \/ search.tries = SolverIterations
       THEN BallastFound(Middle) /\ UNCHANGED search
       ELSE /\ search' = IF SteersWith(query, Middle)
                         THEN [search EXCEPT !.hi = Middle, !.tries = @ + 1]
                         ELSE [search EXCEPT !.lo = Middle, !.tries = @ + 1]
            /\ UNCHANGED <<pc, axles, front, answer>>
    /\ UNCHANGED <<query, slip, prev, solution, rear>>

\* Mutant: rear ballast is always sized for the slip there is.
RearTargetSolved == solution.slip

\* The slip that rear ballast is sized for: 15 %, or the solved slip under a rotor, which
\* develops the draft: what rounding took from it is given back.
RearTarget ==
    IF query.mode = "active_passive" THEN solution.slip + SlipTolerance ELSE TargetSlip

\* What the rounded curve and slip leave uncertain of a load.
RearResolution(load) == load \div 50

\* mu at a trial load and the target slip; none on a wheel so deep that Bn rounds to 0.
TractionAt(load) ==
    LET bn == RearNumeric(load)
    IN  IF bn = 0 THEN 0 ELSE net_traction_coefficient(bn, RearTarget)

\* D / mu(R): the load of the next round, Missing without traction.
NextLoad(load) ==
    LET mu == TractionAt(load) IN IF mu <= 0 THEN Missing ELSE (Draft * Unit) \div mu

\* Rounds draw nearby loads together: a change is less than nine tenths of itself a round
\* later. 200 rounds then bring any start to 0.0001 N, which is a repeated load here.
Contracts(load) ==
    LET near == load + RearResolution(load)
    IN  /\ Missing \notin {NextLoad(load), NextLoad(near)}
        /\ 10 * (NextLoad(near) - NextLoad(load)) < 9 * (near - load)

RearSeed == [load |-> Greater(axles.rear, Draft), rounds |-> 0]

\* R' = D / mu(R') by iteration; Missing when there is no traction to settle on or the rounds
\* run out. Near a fixed point that does not contract, what rounding hides decides whether the
\* loop stays, creeps until the rounds run out or drifts to where there is no traction.
Settle ==
    /\ pc = "settle"
    /\ LET r == IF rear = Null THEN RearSeed ELSE rear
           next == NextLoad(r.load)
           near == Greater(next, r.load) - Lesser(next, r.load) <= RearResolution(r.load)
           settles == IF Contracts(r.load) THEN next = r.load ELSE next # Missing /\ near
           fails == \/ next = Missing
                    \/ ~Contracts(r.load) /\ near
                    \/ ~settles /\ r.rounds + 1 = SolverIterations
       IN  \/ settles /\ rear' = [r EXCEPT !.load = next] /\ pc' = "report"
           \/ fails /\ rear' = [r EXCEPT !.load = Missing] /\ pc' = "report"
           \/ ~settles /\ ~fails /\ rear' = [load |-> next, rounds |-> r.rounds + 1] /\ UNCHANGED pc
    /\ UNCHANGED <<query, axles, slip, prev, solution, search, front, answer>>

\* BRr in N: the shortfall of the load, never negative.
rear_ballast(load) == IF load = Missing THEN Missing ELSE Greater(0, load - axles.rear)

\* Eq. 3.4 only warns; it never limits the pull.
engine_torque_warnings ==
    LET pet == engine_torque_limited_pull_n(query.tractor, RearNumeric(axles.rear), FrontNumeric,
                                            solution.slip, axles)
    IN  IF query.tractor.torque <= 0 THEN {}
        ELSE IF pet <= 0 THEN {"not physical"} ELSE IF pet < Draft THEN {"engine binds"} ELSE {}

TrialSlips == {SlipInitial + SlipIncrement * n : n \in 0 .. (MaxSlip - SlipInitial) \div SlipIncrement}

\* mu was positive at some trial slip.
traction_possible ==
    \E s \in {r \in TrialSlips : r <= slip} : net_traction_coefficient(RearNumeric(axles.rear), s) > 0

shared_warnings ==
    engine_torque_warnings
    \cup (IF axles.fitted > 0 THEN {"ballast fitted"} ELSE {})
    \cup (IF front = Missing THEN {"front out of reach"} ELSE {})
    \cup (IF rear.load = Missing THEN {"rear not sized"} ELSE {})

single_warnings == IF solution.converged THEN {} ELSE {"cap"}

passive_passive_warnings ==
    IF solution.converged THEN {} ELSE IF traction_possible THEN {"cap"} ELSE {"no net traction"}

active_passive_warnings ==
    (IF solution.converged THEN {} ELSE {"cap"})
    \cup (IF rear_ballast(rear.load) = 0 THEN {"rear not required"} ELSE {})

Warnings ==
    shared_warnings \cup
        CASE query.mode = "single" -> single_warnings
          [] query.mode = "passive_passive" -> passive_passive_warnings
          [] query.mode = "active_passive" -> active_passive_warnings

\* The verdicts shared by the three modes.
result_envelope(s, mu, kwefPerMille, put, efficiency, converged) ==
    [load |-> put_load_status(put),
     advice |-> build_recommendations(s, mu, kwefPerMille, put, query.cond.texture),
     status |-> derive_simulation_status(s, put, efficiency, converged),
     confidence |-> derive_confidence(s, converged)]

\* The row is stored with what the client gets.
Report ==
    /\ pc = "report"
    /\ LET c == Chain(query)
           put == power_utilization(query.tractor, query.cond, c.draft, TractiveEfficiency, c.extraPto)
           work == field_capacity(query.cond, c.swath)
           kwef == (axles.front * 1000) \div tractor_weight_n(query)
       IN  answer' = [verdict |-> result_envelope(solution.slip, Mu, kwef, put, work.efficiency,
                                                  solution.converged),
                      warnings |-> Warnings,
                      front |-> front,
                      rear |-> rear_ballast(rear.load)]
    /\ pc' = "idle"
    /\ UNCHANGED <<query, axles, slip, prev, solution, search, front, rear>>

Next == Submit \/ TrySlip \/ Judge \/ Widen \/ Bisect \/ Settle \/ Report

Spec == Init /\ [][Next]_vars

-----------------------------------------------------------------------------
\* PROPERTIES

\* No earlier trial slip develops the draft, and a converged search stopped on
\* one that does.
StepIsLeast ==
    solution # Null =>
        /\ solution.converged => Pull(solution.stepped) >= Draft
        /\ \A s \in TrialSlips : s < solution.stepped => ~(Pull(s) >= Draft)

\* The slip that is reported after interpolation lies within the last step and
\* still develops the draft: the chord runs below the curve.
ReportedSlipPulls ==
    solution # Null /\ solution.converged =>
        /\ solution.slip \in solution.stepped - SlipIncrement .. solution.stepped
        /\ Pull(solution.slip + SlipTolerance) >= Draft

\* The front ballast that is fitted or recommended is the least that gives the
\* front axle a fifth of the weight, and both solver runs of one request agree.
FrontBallastIsLeast ==
    LET Least(kg) == /\ SteersWith(query, kg + BallastTolerance)
                     /\ kg > 0 => ~SteersWith(query, kg - BallastTolerance)
    IN  /\ axles # Null /\ axles.fitted > 0 => Least(axles.fitted)
        /\ front \in Nat => Least(front)
        /\ front # Null /\ axles.fitted > 0 => front = axles.fitted

Reported == answer \notin {Null, Refused}

Towed == query # Null /\ query.mode # "active_passive"

\* legacy_algorithms.py:783: a converged slip at or below the target leaves no rear
\* ballast to add; one a step above it asks for some or says why it cannot. Under a rotor, where
\* it is sized for the solved slip, a converged run needs none. Where the solver does not contract
\* at the present load, and only there, such a run may be told instead that it did not converge.
RearBallastFollowsSlip ==
    Reported /\ solution.converged =>
        /\ ~Towed \/ solution.slip <= TargetSlip =>
            answer.rear = 0 \/ (answer.rear = Missing /\ ~Contracts(axles.rear))
        /\ Towed /\ solution.slip >= TargetSlip + SlipIncrement => answer.rear # 0

\* Advice and figures of one answer agree: ballast is advised where it is sized,
\* and load is advised down exactly when the tractor is reported overloaded.
AdviceAgrees ==
    Reported =>
        /\ "ballast front" \in answer.verdict.advice <=> front # 0 /\ axles.fitted = 0
        /\ "reduce" \in answer.verdict.advice <=> answer.verdict.load = "overloaded"
        /\ ~solution.converged => "cap" \in answer.warnings /\ answer.verdict.confidence = "Low"
        /\ answer.verdict.status = "Stable" => answer.verdict.confidence # "Low"

\* What no check of the code ensures and the reduction below needs: the first tool weighs
\* something, and the rear wheel is not so far behind its axle as the tractor is long.
WellPosed ==
    \A q \in Queries :
        LET g == geometry_terms(resolve_rolling_radii(q.tractor), q.cond)
        IN  q.tool.weight # 0 /\ q.tractor.wheelbase - g.er + g.ef > 0

\* What no check of the code ensures and the sizing of front ballast needs: the balance is one
\* of numbers, and the rear axle, which carries arm parts in length of what is added at the
\* centre of gravity, leaves the front axle more than the fifth of it that steering asks for.
BallastActs(q) ==
    LET g == geometry_terms(q.tractor, q.cond)
        c == Chain(q)
        length == q.tractor.wheelbase - g.er + g.ef
        arm == q.tractor.wheelbase + g.ef - q.tractor.cg
    IN  /\ {c.weight, c.cg, c.py, c.draft, c.extraRear} \subseteq Int
        /\ tractor_weight_n(q) > 0
        /\ length > 0
        /\ 45 * arm <= 31 * length

\* What the advice needs besides: the rear axle carries no negative part of what is added, the
\* tractor weighs 200 N or more, and the front ballast that is missing is not less than the
\* kilogram that this model resolves.
BallastCounts(q) ==
    /\ BallastActs(q)
    /\ q.tractor.wheelbase + geometry_terms(q.tractor, q.cond).ef >= q.tractor.cg
    /\ tractor_weight_n(q) >= 200
    /\ SteersWith(q, 1) => SteersWith(q, 0)

\* No formula of the verdicts divides by nothing, with such a load on the driven wheels and at
\* such a slip.
FiguresAt(q, load, s) ==
    LET bn == mobility_number(q.cond, q.tractor.rearTire, load \div 2)
        mu == net_traction_coefficient(bn, s)
        te == traction_efficiency_percent(mu, bn, s)
    IN  /\ mu \in Int
        /\ gross_traction_ratio(bn) \in Nat \ {0}
        /\ te <= 0 \/ power_utilization(q.tractor, q.cond, Chain(q).draft, te, Chain(q).extraPto) \in Int

FiguresAreNumbers == FiguresAt(query, axles.rear, solution.slip)

Slips == SlipInitial .. MaxSlip + SlipTolerance

\* What the formula does not ensure and the interpolation needs: from one trial slip on the
\* curve does not fall at once, and where the chord of one step crosses the draft the curve runs
\* above it.
AboveChord(pull, draft) ==
    /\ draft \in Int /\ pull \in [Slips -> Int]
    /\ \A s \in TrialSlips :
        /\ pull[s + SlipTolerance] >= pull[s]
        /\ pull[s] < draft /\ s # MaxSlip /\ pull[s + SlipIncrement] >= draft =>
            \A n \in 1 .. SlipIncrement :
                SlipIncrement * pull[s + n + 1]
                    >= (SlipIncrement - n) * pull[s] + n * pull[s + SlipIncrement]

CurveAboveChord == AboveChord([s \in Slips |-> Pull(s)], Draft)

\* combi_algorithms.py:255: a combination whose second tool contributes nothing
\* has the axle loads of the first tool alone.
CombinationReduces ==
    query # Null /\ Admissible(query) /\ query.mode = "passive_passive" /\ query.ki = 0
        /\ query.second.weight = 0 /\ draft_force_n(query.second, query.cond) = 0 =>
        \A kg \in {0, BallastCeiling} :
            axle_loads_with_ballast(query, kg)
                = axle_loads_with_ballast([query EXCEPT !.mode = "single", !.second = Null], kg)
=============================================================================
