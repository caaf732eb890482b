------------------------ MODULE MCTractorSimulation ------------------------
(* Nine tractors, seven implements and a few fields as the requests of a run. *)
EXTENDS TractorSimulation

Common == [tires |-> TRUE, complete |-> TRUE, reserve |-> 20, efficiency |-> 80,
           rearRadius |-> 65, frontRadius |-> 36, rearStatic |-> 63, frontStatic |-> 34,
           wheelRadius |-> 65, torque |-> 180, frontTire |-> [width |-> 16, diameter |-> 76],
           rearTire |-> [width |-> 35, diameter |-> 143],
           wheelbase |-> 195, hitch |-> 90, cg |-> 80, pto |-> 2800, front |-> 800, rear |-> 1160]

Light == [Common EXCEPT !.front = 260, !.rear = 560, !.cg = 60, !.wheelbase = 160, !.pto = 1500,
            !.torque = 30000]
LowNose == [Common EXCEPT !.cg = 40, !.torque = Missing]                         \* ballast never reaches a fifth
Trolley == [Common EXCEPT !.rearTire = [width |-> 12, diameter |-> 60]]  \* on narrow tyres it sinks
Misplaced == [Common EXCEPT !.cg = 420]                      \* its rear axle would lift
NoTires == [Common EXCEPT !.tires = FALSE]
NoReserve == [Common EXCEPT !.reserve = 100]
Strong == [Common EXCEPT !.torque = 9000, !.rearRadius = Missing, !.rearStatic = Missing]
Bare == [Strong EXCEPT !.wheelRadius = Missing]              \* no rear radius anywhere

NoRotor == [f \in RotorSpecs |-> Missing]

Plough == [type |-> "mb_plough", width |-> 9, weight |-> 300, cg |-> 60,
           a |-> 6520, b |-> 0, c |-> 51, pyd |-> 20, rotor |-> NoRotor]
Cultivator == [Plough EXCEPT !.type = "cultivator", !.width = 20, !.weight = 250, !.a = 460,
                 !.b = 28, !.c = 0, !.pyd = -1]
Harrow == [Plough EXCEPT !.type = "disc_harrow", !.width = 18, !.weight = 420, !.a = 3090,
             !.b = 160, !.c = 0, !.pyd = -1]
Ghost == [Cultivator EXCEPT !.weight = 0, !.cg = 120, !.a = 0, !.b = 0]
Wide == [Cultivator EXCEPT !.width = 51]
Unrated == [Cultivator EXCEPT !.a = Missing]
Rotavator == [Plough EXCEPT !.type = "rotavator", !.width = 15, !.weight = 400,
                !.rotor = [weight |-> 400, cg |-> 70, resistance |-> 500, efficiency |-> 30,
                           power |-> 900, speed |-> 200, vertical |-> Missing]]

Passive == {Plough, Cultivator, Harrow}

Field == [texture |-> "Fine", coneIndex |-> 1200, depth |-> 15, speed |-> 4, area |-> 100,
          length |-> Missing, fieldWidth |-> 500]

Fields == {[Field EXCEPT !.depth = d, !.coneIndex = k, !.texture = t, !.speed = v] :
            d \in {12, 20}, k \in {600, 1500}, t \in {"Fine", "Coarse"}, v \in {3, 5}}

Plots == Fields \cup {[Field EXCEPT !.length = 0], [Field EXCEPT !.length = 2000, !.area = 0],
                     [Field EXCEPT !.area = 0], [Field EXCEPT !.speed = 9]}

Ask(mode, tractor, tool, second, ki, cond) ==
    [mode |-> mode, tractor |-> tractor, tool |-> tool, second |-> second, ki |-> ki,
     cond |-> cond, preset |-> cond.length = Missing, rotor |-> NoRotor, override |-> Missing]

\* A tractor that sinks before it pulls, and one that nearly does: its rear ballast solver
\* does not contract at a slip just below the target.
Sunk == Ask("single", Trolley, Harrow, Null, 0, [Field EXCEPT !.coneIndex = 300])
Sinking == Ask("single", Trolley, Cultivator, Null, 0,
               [Field EXCEPT !.coneIndex = 850, !.depth = 17, !.speed = 8])

Singles == {Ask("single", t, i, Null, 0, c) : t \in {Common, Light}, i \in Passive, c \in Plots}
            \cup {Ask("single", t, i, Null, 0, Field) :
                    t \in {Common, NoTires, NoReserve, Strong, Bare, LowNose, Misplaced},
                    i \in {Plough, Cultivator, Rotavator, Wide, Unrated}}
            \cup {[Ask("single", Common, Plough, Null, 0, Field) EXCEPT !.preset = FALSE]}
            \cup {Sunk, Sinking}

Pairs == {Ask("passive_passive", t, i, j, k, c) :
            t \in {Common, Light}, i \in {Plough, Cultivator}, j \in {Cultivator, Ghost, Rotavator, Null},
            k \in {0, 10}, c \in {f \in Fields : f.speed = 3}}

Rotors == {Ask("active_passive", t, i, Rotavator, 0, c) :
            t \in {Common, Light}, i \in {Plough, Cultivator}, c \in Fields}
          \cup {[Ask("active_passive", Common, Plough, s, 0, Field) EXCEPT !.rotor = r] :
                    s \in {Null, Harrow, Rotavator},
                    r \in {NoRotor, [Rotavator.rotor EXCEPT !.power = 1400, !.vertical = 300],
                           [NoRotor EXCEPT !.efficiency = 50]}}

MCQueries == Singles \cup Pairs \cup Rotors

\* The theorem about combinations covers every request of the run.
ASSUME WellPosedRequests == WellPosed

\* So does the theorem about front ballast, but for the tractor whose front axle no ballast
\* loads to a fifth of the weight.
ASSUME BallastActsOnRequests ==
    \A q \in MCQueries :
        LET r == Resolved(q)
        IN  Admissible(q) /\ EngineAccepts(r) => (BallastActs(r) <=> q.tractor # LowNose)

\* The upper ends of the widening, and what is left of the last after each halving: once it is
\* a kilogram it stays one.
Ends[n \in Nat] == IF n = 0 THEN BallastCeiling ELSE (Ends[n - 1] * 8) \div 5

Left[n \in Nat] == IF n = 0 THEN Ends[GrowthSteps] ELSE (Left[n - 1] + 1) \div 2

ASSUME IterationsAreEnough ==
    /\ \A i \in 0 .. GrowthSteps : Ends[i] <= Left[0]
    /\ \E i \in 0 .. SolverIterations : Left[i] <= 1

\* The traction curve of a request, with the loads of the tractor as it is.
Curve(q) == INSTANCE TractorSimulation WITH
    pc <- "slip", query <- q, axles <- AxlesWith(q, 0), slip <- SlipInitial, prev <- Null,
    solution <- Null, search <- Null, front <- Null, rear <- Null, answer <- Null

\* What the engine takes up: a request that passes, with some load on the driven wheels.
TakenUp == {q \in MCQueries : LET r == Resolved(q)
                              IN  Admissible(q) /\ EngineAccepts(r) /\ AxlesWith(r, 0).rear > 0}

\* The theorem about the interpolation covers every request but the one whose tractor sinks.
ASSUME CurvesRunAboveTheirChords ==
    \A q \in TakenUp :
        LET r == Resolved(q)
        IN  q # Sunk =>
                AboveChord([s \in Slips |-> Curve(r)!Pull(s)], Chain(r).draft)

\* The theorem about the advice covers every request but that of the tractor whose front axle
\* no ballast loads enough.
ASSUME BallastCountsOnRequests ==
    \A q \in TakenUp :
        LET r == Resolved(q)
        IN  /\ BallastCounts(r) <=> q.tractor # LowNose
            /\ \A s \in SlipInitial .. MaxSlip : FiguresAt(r, AxlesWith(r, 0).rear, s)
=============================================================================
