---------------------- MODULE TractorSimulationProofs ----------------------
(***************************************************************************)
(* Theorems about TractorSimulation, for every set of requests and every   *)
(* bound on the two ballast loops.  SlipIsLeast and BracketKept are about  *)
(* the searches: what a trial slip pulls and which ballast steers is taken *)
(* as the formulas say, whatever that is.  CombinationsReduce is about a   *)
(* formula.  FrontBallast needs both: that the formula makes more ballast  *)
(* steer where less does, and that two searches of one request go the same *)
(* way.  InterpolationPulls takes the shape of the traction curve as given *)
(* and AdviceFollowsFigures follows one run from the request to the advice *)
(* it is answered with.                                                    *)
(***************************************************************************)
EXTENDS TractorSimulation, TLAPS, WellFoundedInduction

PullCovers(s) == Pull(s) >= Draft

Bracket == [lo : Nat, hi : Nat, tries : Nat, goal : {"lift", "steer"}]

\* The bracket is a bracket, and a search for lift runs before the slip search.
Types ==
  /\ search \in Bracket /\ search.lo <= search.hi
  /\ pc \in {"widen", "bisect"} /\ search.goal = "lift" => solution = Null /\ slip = SlipInitial

\* No slip tried so far develops the draft.
TriedInVain ==
  pc = "slip" =>
    /\ solution = Null
    /\ slip \in TrialSlips
    /\ \A s \in TrialSlips : s < slip => ~PullCovers(s)

\* Once there is a solution it is the least.
Least ==
  solution # Null =>
    /\ solution.converged => PullCovers(solution.stepped)
    /\ \A s \in TrialSlips : s < solution.stepped => ~PullCovers(s)

\* legacy_algorithms.py:737-755: while it is halved, the upper end of the bracket steers,
\* and its lower end does not when the tractor did not without ballast.
BracketHoldsRoot ==
  pc = "bisect" =>
    /\ SteersWith(query, search.hi)
    /\ search.goal = "steer" => ~SteersWith(query, search.lo)

\* Before it is halved the bracket still starts at no ballast.
StartsUnballasted ==
  pc = "widen" => search.lo = 0 /\ (search.goal = "steer" => ~SteersWith(query, 0))

-----------------------------------------------------------------------------
\* Arithmetic of the slip search.

LEMMA TrialSlipsAre == \A s : s \in TrialSlips <=> \E n \in 0 .. 180 : s = 200 + 10 * n
<1>1. (MaxSlip - SlipInitial) \div SlipIncrement = 180
  BY DEF SlipInitial, SlipIncrement, MaxSlip
<1> QED
  BY <1>1 DEF TrialSlips, SlipInitial, SlipIncrement

LEMMA FirstTrial == SlipInitial \in TrialSlips /\ \A s \in TrialSlips : ~(s < SlipInitial)
<1>1. SlipInitial = 200 + 10 * 0 /\ 0 \in 0 .. 180
  BY DEF SlipInitial
<1> QED
  BY <1>1, TrialSlipsAre DEF SlipInitial

LEMMA NextTrialSlip ==
  ASSUME NEW t \in TrialSlips, ~(t + SlipIncrement >= MaxSlip)
  PROVE  /\ t + SlipIncrement \in TrialSlips
         /\ \A s \in TrialSlips : s < t + SlipIncrement => s < t \/ s = t
<1>1. PICK n \in 0 .. 180 : t = 200 + 10 * n
  BY TrialSlipsAre
<1>2. n + 1 \in 0 .. 180 /\ t + 10 = 200 + 10 * (n + 1)
  BY <1>1 DEF SlipIncrement, MaxSlip
<1> QED
  BY <1>1, <1>2, TrialSlipsAre DEF SlipIncrement

LEMMA LastTrialSlip ==
  ASSUME NEW t \in TrialSlips, t + SlipIncrement >= MaxSlip
  PROVE  \A s \in TrialSlips : s < MaxSlip => s < t \/ s = t
  BY TrialSlipsAre DEF SlipIncrement, MaxSlip

\* What a slip pulls depends on the request and the axle loads alone.
LEMMA PullUnchanged ==
  ASSUME UNCHANGED <<query, axles>>
  PROVE  \A s : PullCovers(s)' <=> PullCovers(s)
  BY DEF PullCovers, Pull, RearNumeric, Draft

LEMMA NewBracket == ASSUME NEW goal \in {"lift", "steer"}
                    PROVE  /\ Searching(goal) \in Bracket
                           /\ Searching(goal).lo = 0 /\ Searching(goal).hi \in Nat
                           /\ Searching(goal).goal = goal
  BY DEF Searching, Bracket, BallastCeiling

\* What the two loops do to a bracket.
LEMMA BracketMoved ==
  ASSUME NEW b \in Bracket, NEW lo \in Nat, NEW hi \in Nat
  PROVE  /\ LET raised == [b EXCEPT !.hi = hi, !.tries = @ + 1]
            IN  raised \in Bracket /\ raised.lo = b.lo /\ raised.hi = hi /\ raised.goal = b.goal
         /\ LET cut == [b EXCEPT !.lo = lo, !.tries = @ + 1]
            IN  cut \in Bracket /\ cut.lo = lo /\ cut.hi = b.hi /\ cut.goal = b.goal
<1>1. b.lo \in Nat /\ b.hi \in Nat /\ b.tries + 1 \in Nat /\ b.goal \in {"lift", "steer"}
  BY DEF Bracket
<1> DEFINE raised == [b EXCEPT !.hi = hi, !.tries = @ + 1]
           cut == [b EXCEPT !.lo = lo, !.tries = @ + 1]
<1>2. raised.lo = b.lo /\ raised.hi = hi /\ raised.goal = b.goal /\ raised.tries = b.tries + 1
  BY DEF Bracket
<1>3. cut.lo = lo /\ cut.hi = b.hi /\ cut.goal = b.goal /\ cut.tries = b.tries + 1
  BY DEF Bracket
<1>4. \A c \in Bracket, n \in Nat : [c EXCEPT !.tries = n] \in Bracket
  BY DEF Bracket
<1>5. [b EXCEPT !.hi = hi] \in Bracket /\ [b EXCEPT !.lo = lo] \in Bracket
  BY DEF Bracket
<1>6. raised \in Bracket /\ cut \in Bracket
  <2>1. raised = [[b EXCEPT !.hi = hi] EXCEPT !.tries = b.tries + 1]
    BY DEF Bracket
  <2>2. cut = [[b EXCEPT !.lo = lo] EXCEPT !.tries = b.tries + 1]
    BY DEF Bracket
  <2> HIDE DEF raised, cut
  <2> QED
    BY <1>1, <1>4, <1>5, <2>1, <2>2
<1> HIDE DEF raised, cut
<1> QED
  BY <1>2, <1>3, <1>6 DEF raised, cut

-----------------------------------------------------------------------------

LEMMA TypesInit == Init => Types
  BY NewBracket DEF Init, Types, Bracket

LEMMA TypesStep == Types /\ TriedInVain /\ [Next]_vars => Types'
<1> SUFFICES ASSUME Types, TriedInVain, [Next]_vars
             PROVE  Types'
  OBVIOUS
<1>1. CASE UNCHANGED vars
  BY <1>1 DEF vars, Types
<1>2. CASE Submit
  <2>1. search' = Searching("lift") /\ solution' = Null /\ slip' = SlipInitial
    BY <1>2 DEF Submit
  <2> QED
    BY <2>1, NewBracket DEF Types, Bracket
<1>3. CASE TrySlip
  <2>1. pc' \in {"slip", "judge"} /\ search' = search
    BY <1>3 DEF TrySlip, NextTrial
  <2> QED
    BY <2>1 DEF Types
<1>4. CASE Judge
  <2>1. search' = Searching("steer")
    BY <1>4 DEF Judge
  <2> QED
    BY <2>1, NewBracket DEF Types, Bracket
<1>5. CASE Widen
  <2>1. CASE SteersWith(query, search.hi) /\ pc' = "bisect" /\ search' = [search EXCEPT !.tries = 0]
    BY <1>5, <2>1 DEF Types, Bracket, Widen
  <2>2. CASE search' = [search EXCEPT !.hi = (@ * 8) \div 5, !.tries = @ + 1] /\ UNCHANGED pc
    <3>1. \A h \in Nat : (h * 8) \div 5 \in Nat /\ h <= (h * 8) \div 5
      OBVIOUS
    <3>2. (search.hi * 8) \div 5 \in Nat /\ search.lo <= (search.hi * 8) \div 5
      BY <3>1 DEF Types, Bracket
    <3> DEFINE hi == (search.hi * 8) \div 5
    <3> HIDE DEF hi
    <3>3. search' \in Bracket /\ search'.lo <= search'.hi /\ search'.goal = search.goal
      <4>1. search' = [search EXCEPT !.hi = hi, !.tries = @ + 1]
        BY <2>2 DEF hi
      <4>2. hi \in Nat /\ search.lo <= hi
        BY <3>2 DEF hi
      <4>3. search \in Bracket /\ search.lo \in Nat
        BY DEF Types, Bracket
      <4> QED
        BY <4>1, <4>2, <4>3, BracketMoved
    <3> QED
      BY <1>5, <2>2, <3>3 DEF Types, Widen
  <2>3. CASE NoBallastHelps /\ UNCHANGED search
    BY <2>3 DEF Types, NoBallastHelps, Refuse
  <2> QED
    BY <1>5, <2>1, <2>2, <2>3 DEF Widen
<1>6. CASE Bisect
  <2>1. CASE BallastFound(Middle) /\ UNCHANGED search
    BY <2>1 DEF Types, BallastFound
  <2>2. CASE UNCHANGED pc /\ \/ search' = [search EXCEPT !.hi = Middle, !.tries = @ + 1]
                             \/ search' = [search EXCEPT !.lo = Middle, !.tries = @ + 1]
    <3>1. Middle \in Nat /\ search.lo <= Middle /\ Middle <= search.hi
      BY DEF Types, Bracket, Middle
    <3>2. search' \in Bracket /\ search'.lo <= search'.hi /\ search'.goal = search.goal
      <4>1. search \in Bracket /\ search.lo \in Nat /\ search.hi \in Nat /\ 0 \in Nat
        BY DEF Types, Bracket
      <4>2. CASE search' = [search EXCEPT !.hi = Middle, !.tries = @ + 1]
        BY <3>1, <4>1, <4>2, BracketMoved
      <4>3. CASE search' = [search EXCEPT !.lo = Middle, !.tries = @ + 1]
        BY <3>1, <4>1, <4>3, BracketMoved
      <4> QED
        BY <2>2, <4>2, <4>3
    <3> QED
      BY <1>6, <2>2, <3>2 DEF Types, Bisect
  <2> QED
    BY <1>6, <2>1, <2>2 DEF Bisect
<1>7. CASE Settle
  BY <1>7 DEF Settle, Types
<1>8. CASE Report
  BY <1>8 DEF Report, Types
<1> QED
  BY <1>1, <1>2, <1>3, <1>4, <1>5, <1>6, <1>7, <1>8 DEF Next

-----------------------------------------------------------------------------

LEMMA SlipInit == Init => TriedInVain /\ Least
  BY DEF Init, TriedInVain, Least

\* A search for lift ends where the slip search begins; every trial that falls short is
\* behind the next one.
LEMMA SlipStep ==
  Types /\ TriedInVain /\ Least /\ [Next]_vars => TriedInVain' /\ Least'
<1> SUFFICES ASSUME Types, TriedInVain, Least, [Next]_vars
             PROVE  TriedInVain' /\ Least'
  OBVIOUS
<1>0. TrialSlips' = TrialSlips
  BY DEF TrialSlips
\* The slip search begins.
<1>1. ASSUME solution' = Null, slip' = SlipInitial
      PROVE  TriedInVain' /\ Least'
  BY <1>0, <1>1, FirstTrial DEF TriedInVain, Least
\* The slip search is over, or has not begun.
<1>2. ASSUME UNCHANGED <<query, axles, solution>>, pc' # "slip"
      PROVE  TriedInVain' /\ Least'
  <2>1. Least'
    BY <1>0, <1>2, PullUnchanged DEF Least
  <2> QED
    BY <1>2, <2>1 DEF TriedInVain
<1>3. CASE UNCHANGED vars
  <2>1. UNCHANGED <<pc, query, axles, slip, solution>>
    BY <1>3 DEF vars
  <2>2. \A s : PullCovers(s)' <=> PullCovers(s)
    BY <2>1, PullUnchanged
  <2> QED
    BY <1>0, <2>1, <2>2 DEF TriedInVain, Least
<1>4. CASE Submit
  BY <1>1, <1>4 DEF Submit
<1>5. CASE TrySlip
  <2>1. /\ solution = Null /\ slip \in TrialSlips
        /\ \A s \in TrialSlips : s < slip => ~PullCovers(s)
    BY <1>5 DEF TrySlip, TriedInVain
  <2>2. \A s : PullCovers(s)' <=> PullCovers(s)
    BY <1>5, PullUnchanged DEF TrySlip
  <2>3. CASE PullCovers(slip)
    <3>1. /\ solution' = [slip |-> Interpolated(Pull(slip)), stepped |-> slip, converged |-> TRUE]
          /\ pc' = "judge"
      BY <1>5, <2>3 DEF TrySlip, PullCovers
    <3>2. solution'.stepped = slip
      BY <3>1
    <3> QED
      BY <1>0, <2>1, <2>2, <2>3, <3>1, <3>2 DEF TriedInVain, Least
  <2>4. CASE ~PullCovers(slip)
    <3>1. NextTrial
      BY <1>5, <2>4 DEF TrySlip, PullCovers
    <3>2. CASE slip + SlipIncrement >= MaxSlip
      <4>1. /\ solution' = [slip |-> MaxSlip, stepped |-> MaxSlip, converged |-> FALSE]
            /\ pc' = "judge"
        BY <3>1, <3>2 DEF NextTrial
      <4>2. solution'.stepped = MaxSlip /\ ~solution'.converged
        BY <4>1
      <4>3. \A s \in TrialSlips : s < MaxSlip => ~PullCovers(s)
        BY <2>1, <2>4, <3>2, LastTrialSlip
      <4> QED
        BY <1>0, <2>2, <4>1, <4>2, <4>3 DEF TriedInVain, Least
    <3>3. CASE ~(slip + SlipIncrement >= MaxSlip)
      <4>1. slip' = slip + SlipIncrement /\ UNCHANGED <<solution, pc>>
        BY <3>1, <3>3 DEF NextTrial
      <4>2. /\ slip' \in TrialSlips
            /\ \A s \in TrialSlips : s < slip' => ~PullCovers(s)
        BY <2>1, <2>4, <3>3, <4>1, NextTrialSlip
      <4> QED
        BY <1>0, <2>1, <2>2, <4>1, <4>2 DEF TriedInVain, Least
    <3> QED
      BY <3>2, <3>3
  <2> QED
    BY <2>3, <2>4
<1>6. CASE Judge
  <2>1. UNCHANGED <<query, axles, solution>> /\ pc' # "slip"
    BY <1>6 DEF Judge, Refuse
  <2> QED
    BY <1>2, <2>1
<1>7. CASE Widen \/ Bisect
  <2>1. UNCHANGED <<query, slip, solution>> /\ pc \in {"widen", "bisect"}
    BY <1>7 DEF Widen, Bisect
  <2>2. CASE search.goal = "lift"
    BY <1>1, <2>1, <2>2 DEF Types
  <2>3. CASE search.goal # "lift"
    <3>1. UNCHANGED axles /\ pc' # "slip"
      BY <1>7, <2>3 DEF Widen, Bisect, BallastFound, NoBallastHelps
    <3> QED
      BY <1>2, <2>1, <3>1
  <2> QED
    BY <2>2, <2>3
<1>8. CASE Settle \/ Report
  <2>1. UNCHANGED <<query, axles, solution>> /\ pc' # "slip"
    BY <1>8 DEF Settle, Report
  <2> QED
    BY <1>2, <2>1
<1> QED
  BY <1>3, <1>4, <1>5, <1>6, <1>7, <1>8 DEF Next

-----------------------------------------------------------------------------

LEMMA BracketInit == Init => BracketHoldsRoot /\ StartsUnballasted
  BY DEF Init, BracketHoldsRoot, StartsUnballasted

\* The half that is kept is the one whose ends still differ.
LEMMA BracketStep ==
  Types /\ BracketHoldsRoot /\ StartsUnballasted /\ [Next]_vars
    => BracketHoldsRoot' /\ StartsUnballasted'
<1> SUFFICES ASSUME Types, BracketHoldsRoot, StartsUnballasted, [Next]_vars
             PROVE  BracketHoldsRoot' /\ StartsUnballasted'
  OBVIOUS
<1> USE DEF BracketHoldsRoot, StartsUnballasted
<1>0. search \in Bracket
  BY DEF Types
<1>1. CASE UNCHANGED vars
  <2>1. UNCHANGED <<pc, query, search>>
    BY <1>1 DEF vars
  <2> QED
    BY <2>1
<1>2. CASE Submit
  <2>1. search' = Searching("lift") /\ pc' # "bisect"
    BY <1>2 DEF Submit, Refuse
  <2> QED
    BY <2>1, NewBracket
<1>3. CASE TrySlip
  BY <1>3 DEF TrySlip, NextTrial
<1>4. CASE Judge
  <2>1. /\ search' = Searching("steer") /\ query' = query /\ pc' # "bisect"
        /\ pc' = "widen" => ~SteersWith(query, 0)
    BY <1>4 DEF Judge, Refuse
  <2> QED
    BY <2>1, NewBracket
<1>5. CASE Widen
  <2>1. query' = query /\ search.lo = 0 /\ (search.goal = "steer" => ~SteersWith(query, 0))
    BY <1>5 DEF Widen
  <2>2. CASE SteersWith(query, search.hi) /\ pc' = "bisect" /\ search' = [search EXCEPT !.tries = 0]
    <3>1. search'.hi = search.hi /\ search'.lo = search.lo /\ search'.goal = search.goal
      BY <1>0, <2>2 DEF Bracket
    <3> QED
      BY <2>1, <2>2, <3>1
  <2>3. CASE search' = [search EXCEPT !.hi = (@ * 8) \div 5, !.tries = @ + 1] /\ UNCHANGED pc
    <3>1. search'.lo = search.lo /\ search'.goal = search.goal /\ pc' = "widen"
      BY <1>0, <1>5, <2>3 DEF Bracket, Widen
    <3> QED
      BY <2>1, <3>1
  <2>4. CASE NoBallastHelps
    BY <2>4 DEF NoBallastHelps, Refuse
  <2> QED
    BY <1>5, <2>2, <2>3, <2>4 DEF Widen
<1>6. CASE Bisect
  <2>1. query' = query
    BY <1>6 DEF Bisect
  <2>2. CASE BallastFound(Middle)
    BY <2>2 DEF BallastFound
  <2>3. CASE /\ UNCHANGED pc
             /\ search' = IF SteersWith(query, Middle)
                            THEN [search EXCEPT !.hi = Middle, !.tries = @ + 1]
                            ELSE [search EXCEPT !.lo = Middle, !.tries = @ + 1]
    <3>1. /\ search'.goal = search.goal
          /\ IF SteersWith(query, Middle)
               THEN search'.hi = Middle /\ search'.lo = search.lo
               ELSE search'.hi = search.hi /\ search'.lo = Middle
      BY <1>0, <2>3 DEF Bracket
    <3> QED
      BY <1>6, <2>1, <2>3, <3>1 DEF Bisect
  <2> QED
    BY <1>6, <2>2, <2>3 DEF Bisect
<1>7. CASE Settle \/ Report
  BY <1>7 DEF Settle, Report
<1> QED
  BY <1>1, <1>2, <1>3, <1>4, <1>5, <1>6, <1>7 DEF Next

-----------------------------------------------------------------------------

\* legacy_algorithms.py:618, solve_slip: the search stops on the first trial slip whose
\* pull covers the draft, or at the cap when none does.
THEOREM SlipIsLeast == Spec => []StepIsLeast
<1>1. Least => StepIsLeast
  BY DEF Least, StepIsLeast, PullCovers
<1> QED
  BY <1>1, TypesInit, TypesStep, SlipInit, SlipStep, PTL DEF Spec

\* legacy_algorithms.py:747: bisection never throws away the half that holds the root.
THEOREM BracketKept == Spec => []BracketHoldsRoot
  BY TypesInit, TypesStep, SlipInit, SlipStep, BracketInit, BracketStep, PTL DEF Spec

-----------------------------------------------------------------------------
\* A request and its rows.

\* What is calculated with is a request that was asked, its area and radii filled in.
Asked == query = Null \/ \E q \in Queries : query = Resolved(q)

LEMMA AskedInit == Init => Asked
  BY DEF Init, Asked

LEMMA AskedStep == Asked /\ [Next]_vars => Asked'
<1> SUFFICES ASSUME Asked, [Next]_vars
             PROVE  Asked'
  OBVIOUS
<1>1. CASE Submit
  BY <1>1 DEF Submit, Asked
<1>2. CASE UNCHANGED query
  BY <1>2 DEF Asked
<1>3. Next => Submit \/ UNCHANGED query
  BY DEF Next, TrySlip, Judge, Widen, Bisect, Settle, Report
<1>4. UNCHANGED vars => UNCHANGED query
  BY DEF vars
<1> QED
  BY <1>1, <1>2, <1>3, <1>4

LEMMA RadiiAreMeasures == ASSUME NEW t \in Tractor PROVE resolve_rolling_radii(t) \in Tractor
  BY DEF resolve_rolling_radii, Tractor

LEMMA AreaIsMeasure == ASSUME NEW c \in Conditions PROVE field_area(c) \in Int
  BY DEF field_area, Conditions

\* Filling in the area and the radii leaves the tools and the mode as they were asked.
LEMMA ResolvedIsRequest ==
  ASSUME NEW q \in Request
  PROVE  /\ Resolved(q) \in Request
         /\ Resolved(q).tool = q.tool /\ Resolved(q).tractor = resolve_rolling_radii(q.tractor)
<1>1. /\ q.cond \in Conditions /\ q.tractor \in Tractor
  BY DEF Request
<1>2. [q.cond EXCEPT !.area = field_area(q.cond)] \in Conditions
  BY <1>1, AreaIsMeasure DEF Conditions
<1>3. resolve_rolling_radii(q.tractor) \in Tractor
  BY <1>1, RadiiAreMeasures
<1> DEFINE cond == [q.cond EXCEPT !.area = field_area(q.cond)]
           tractor == resolve_rolling_radii(q.tractor)
<1>4. Resolved(q) = [[q EXCEPT !.cond = cond] EXCEPT !.tractor = tractor]
  BY DEF Resolved, Request
<1> HIDE DEF cond, tractor
<1>5. [q EXCEPT !.cond = cond] \in Request
  BY <1>2 DEF Request, cond
<1> QED
  BY <1>2, <1>3, <1>4, <1>5 DEF Request, tractor

-----------------------------------------------------------------------------
\* The balance of a combination.

\* The draft of a tool is a number.
LEMMA DraftIsNumber ==
  ASSUME NEW tool \in Tool, NEW cond \in Conditions PROVE draft_force_n(tool, cond) \in Int
<1>1. fi_factor[cond.texture] \in Int
  BY DEF Conditions, fi_factor
<1> DEFINE fi == fi_factor[cond.texture]
<1> HIDE DEF fi
<1>2. /\ tool.a \in Int /\ tool.b \in Int /\ tool.c \in Int /\ tool.width \in Int
      /\ cond.speed \in Int /\ cond.depth \in Int
  BY DEF Tool, Conditions
<1>3. tool.b * cond.speed \in Int /\ tool.c * cond.speed * cond.speed \in Int
  BY <1>2
<1>4. fi \in Int
  BY <1>1 DEF fi
<1>5. tool.a + tool.b * cond.speed + tool.c * cond.speed * cond.speed \in Int
  BY <1>2, <1>3
<1>6. \A x, y, z \in Int : (x * y * z) \in Int
  OBVIOUS
<1> DEFINE specific == tool.a + tool.b * cond.speed + tool.c * cond.speed * cond.speed
<1> HIDE DEF specific
<1>7. fi * specific * tool.width * cond.depth \in Int
  BY <1>2, <1>4, <1>5 DEF specific
<1>8. \A n \in Int : n \div 10000 \in Int
  OBVIOUS
<1> QED
  BY <1>7, <1>8 DEF draft_force_n, fi, specific

\* The soil reaction of a passive tool is a share of its draft.
LEMMA RatioIsNumber ==
  ASSUME NEW tool \in Tool, is_passive(tool) PROVE py_over_d_ratio(tool) \in Int
  BY DEF py_over_d_ratio, is_passive, PASSIVE_IMPLEMENT_TYPES, PY_OVER_D_RATIO_BY_IMPLEMENT, Tool

\* A weightless second tool leaves the centre of gravity where the first has it.
LEMMA CentreOfOne ==
  ASSUME NEW w \in Nat \ {0}, NEW x \in Int, NEW y \in Int PROVE combined_cg(w, x, 0, y) = x
<1>1. w + 0 > 0 /\ w * x + 0 * y = w * x /\ w + 0 = w
  OBVIOUS
<1>2. (w * x) \div w = x
  OBVIOUS
<1> QED
  BY <1>1, <1>2 DEF combined_cg

LEMMA WeightIsForce == /\ \A kg \in Nat \ {0} : Newtons(kg) \in Nat \ {0}
                       /\ Newtons(0) = 0
  BY DEF Newtons

\* A pair whose second tool weighs and pulls nothing, with no interaction.
LEMMA ChainReduces ==
  ASSUME NEW q \in Request, Admissible(q), q.mode = "passive_passive", q.ki = 0,
         q.tool.weight # 0, q.second.weight = 0, draft_force_n(q.second, q.cond) = 0
  PROVE  LET one == single_chain(q)
             two == passive_passive_chain(q)
         IN  /\ two.draft = one.draft /\ two.weight = one.weight
             /\ two.cg = one.cg /\ two.py = one.py /\ two.extraRear = 0
<1> DEFINE d == draft_force_n(q.tool, q.cond)
           p1 == py_over_d_ratio(q.tool)
           p2 == py_over_d_ratio(q.second)
           w == Newtons(q.tool.weight)
<1>1. q.tool \in Tool /\ q.second \in Tool /\ q.cond \in Conditions
  BY DEF Request, Admissible, validate_preset_or_custom
<1>2. d \in Int /\ p1 \in Int /\ p2 \in Int
  BY <1>1, DraftIsNumber, RatioIsNumber DEF Admissible, validate_slot_assignment
<1>3. q.tool.cg \in Int /\ q.second.cg \in Int /\ q.tool.weight \in Nat \ {0}
  BY <1>1 DEF Tool, Admissible, require_implement_fields, Missing
<1>4. w \in Nat \ {0} /\ Newtons(q.second.weight) = 0
  BY <1>3, WeightIsForce
<1> HIDE DEF d, p1, p2, w
<1>5. ((100 - 0) * (d + 0)) \div 100 = d /\ w + 0 = w /\ p1 * d + p2 * 0 = p1 * d
  BY <1>2, <1>4
<1>6. combined_cg(w, q.tool.cg, 0, q.second.cg) = q.tool.cg
  BY <1>3, <1>4, CentreOfOne
<1>7. passive_passive_chain(q).draft = d
  BY <1>5 DEF passive_passive_chain, d
<1>8. passive_passive_chain(q).weight = w
  BY <1>4, <1>5 DEF passive_passive_chain, w
<1>9. passive_passive_chain(q).cg = q.tool.cg
  BY <1>4, <1>6 DEF passive_passive_chain, w
<1>10. passive_passive_chain(q).py = (p1 * d) \div 100
  BY <1>5 DEF passive_passive_chain, d, p1, p2
<1>11. passive_passive_chain(q).extraRear = 0
  BY DEF passive_passive_chain
<1>12. /\ single_chain(q).draft = d /\ single_chain(q).weight = w
       /\ single_chain(q).cg = q.tool.cg /\ single_chain(q).py = (p1 * d) \div 100
  BY DEF single_chain, d, p1, w
<1> QED
  BY <1>7, <1>8, <1>9, <1>10, <1>11, <1>12

\* The same balance, the same loads: nothing is added behind.
LEMMA LoadsReduce ==
  ASSUME NEW q \in Request, NEW kg, Admissible(q), q.mode = "passive_passive", q.ki = 0,
         q.tool.weight # 0, q.second.weight = 0, draft_force_n(q.second, q.cond) = 0,
         LET g == geometry_terms(q.tractor, q.cond) IN q.tractor.wheelbase - g.er + g.ef > 0,
         kg \in {0, BallastCeiling}
  PROVE  axle_loads_with_ballast(q, kg)
            = axle_loads_with_ballast([q EXCEPT !.mode = "single", !.second = Null], kg)
<1> DEFINE s == [q EXCEPT !.mode = "single", !.second = Null]
           one == single_chain(q)
           two == passive_passive_chain(q)
           weight == tractor_weight_n(q) + Newtons(kg)
           g == geometry_terms(q.tractor, q.cond)
           length == q.tractor.wheelbase - g.er + g.ef
           moments == (one.weight + one.py) * (one.cg + q.tractor.hitch + q.tractor.wheelbase + g.ef)
                       + weight * (q.tractor.wheelbase + g.ef - q.tractor.cg) - one.draft * g.yd
<1>1. /\ s.mode = "single" /\ s.tool = q.tool /\ s.cond = q.cond /\ s.tractor = q.tractor
  BY DEF Request
<1> HIDE DEF s
<1>2. Chain(s) = one /\ tractor_weight_n(s) = tractor_weight_n(q)
  BY <1>1 DEF Chain, single_chain, tractor_weight_n
<1>3. Chain(q) = two
  BY DEF Chain
<1>4. /\ two.draft = one.draft /\ two.weight = one.weight /\ two.cg = one.cg /\ two.py = one.py
      /\ two.extraRear = 0
  BY ChainReduces
<1>5. q.tool \in Tool /\ q.cond \in Conditions /\ q.tractor \in Tractor
  BY DEF Request
<1>6. one.draft \in Int /\ one.weight \in Int /\ one.cg \in Int /\ one.py \in Int
  <2>1. draft_force_n(q.tool, q.cond) \in Int
    BY <1>5, DraftIsNumber
  <2>2. py_over_d_ratio(q.tool) \in Int
    BY <1>5, RatioIsNumber DEF Admissible, validate_slot_assignment
  <2>3. q.tool.weight \in Int /\ q.tool.cg \in Int
    BY <1>5 DEF Tool, Missing
  <2> DEFINE d == draft_force_n(q.tool, q.cond)
             p == py_over_d_ratio(q.tool)
  <2> HIDE DEF d, p
  <2>4. (p * d) \div 100 \in Int
    BY <2>1, <2>2 DEF d, p
  <2>5. Newtons(q.tool.weight) \in Int
    BY <2>3 DEF Newtons
  <2> QED
    BY <2>1, <2>3, <2>4, <2>5 DEF single_chain, d, p
<1>7. /\ q.tractor.hitch \in Int /\ q.tractor.wheelbase \in Int /\ q.tractor.cg \in Int
      /\ g.er \in Int /\ g.ef \in Int /\ g.yd \in Int
  BY <1>5 DEF Tractor, Conditions, geometry_terms
<1>8. weight \in Int
  BY <1>5 DEF Newtons, tractor_weight_n, Tractor, BallastCeiling
<1> HIDE DEF one, two, weight, g
<1>9. length \in Nat \ {0}
  BY <1>7 DEF g
<1>10. moments \in Int
  BY <1>6, <1>7, <1>8
<1> HIDE DEF moments, length
<1>11. moments \div length + 0 = moments \div length
  BY <1>9, <1>10
<1>12. dynamic_axle_loads(q.tractor, q.cond, weight, one.weight, one.cg, one.py, one.draft)
        = combined_axle_loads(q.tractor, q.cond, weight, one.weight, one.cg, one.py, one.draft, 0)
  BY <1>11 DEF dynamic_axle_loads, combined_axle_loads, moments, length, g
<1>13. axle_loads_with_ballast(s, kg)
        = dynamic_axle_loads(q.tractor, q.cond, weight, one.weight, one.cg, one.py, one.draft)
  BY <1>1, <1>2 DEF axle_loads_with_ballast, weight
<1>14. axle_loads_with_ballast(q, kg)
        = combined_axle_loads(q.tractor, q.cond, weight, one.weight, one.cg, one.py, one.draft, 0)
  BY <1>3, <1>4 DEF axle_loads_with_ballast, weight
<1> QED
  BY <1>12, <1>13, <1>14 DEF s

\* combi_algorithms.py:255, _combined_axle_load_shared: a combination whose second tool
\* contributes nothing has exactly the axle loads of the first tool alone.
THEOREM CombinationsReduce == WellPosed => (Spec => []CombinationReduces)
<1> SUFFICES ASSUME WellPosed
             PROVE  Spec => []CombinationReduces
  OBVIOUS
<1>1. Asked => CombinationReduces
  <2> SUFFICES ASSUME Asked, query # Null, Admissible(query), query.mode = "passive_passive",
                      query.ki = 0, query.second.weight = 0,
                      draft_force_n(query.second, query.cond) = 0, NEW kg \in {0, BallastCeiling}
               PROVE  axle_loads_with_ballast(query, kg)
                        = axle_loads_with_ballast([query EXCEPT !.mode = "single", !.second = Null], kg)
    BY DEF CombinationReduces
  <2>1. PICK q \in Queries : query = Resolved(q)
    BY DEF Asked
  <2>2. q \in Request
    BY <2>1, RequestsAssumption
  <2>3. query \in Request /\ query.tool = q.tool /\ query.tractor = resolve_rolling_radii(q.tractor)
    BY <2>1, <2>2, ResolvedIsRequest
  <2>4. query.tractor.wheelbase = q.tractor.wheelbase
    <3>1. q.tractor \in Tractor
      BY <2>2 DEF Request
    <3> QED
      BY <2>3, <3>1 DEF resolve_rolling_radii, Tractor
  <2>5. query.tool.weight # 0
    BY <2>3, WellPosed DEF WellPosed
  <2>6. LET g == geometry_terms(query.tractor, query.cond)
        IN  query.tractor.wheelbase - g.er + g.ef > 0
    BY <2>3, <2>4, WellPosed DEF WellPosed, geometry_terms
  <2> QED
    BY <2>3, <2>5, <2>6, LoadsReduce
<1> QED
  BY <1>1, AskedInit, AskedStep, PTL DEF Spec

-----------------------------------------------------------------------------
\* More ballast never steers less: the load of the front axle grows by at least a fifth of
\* what is added.

LEMMA QuotientIsBelow ==
  ASSUME NEW e \in Int, NEW n \in Nat \ {0}
  PROVE  e \div n \in Int /\ (e \div n) * n <= e /\ e < (e \div n) * n + n
  OBVIOUS

LEMMA QuotientOfSum ==
  ASSUME NEW y \in Int, NEW e \in Int, NEW n \in Nat \ {0}
  PROVE  (y + e) \div n <= y \div n + e \div n + 1
<1> DEFINE a == y \div n
           b == e \div n
           c == (y + e) \div n
<1>1. a \in Int /\ b \in Int /\ c \in Int /\ y < a * n + n /\ e < b * n + n /\ c * n <= y + e
  BY QuotientIsBelow
<1> HIDE DEF a, b, c
<1>2. c * n < (a + b + 2) * n
  BY <1>1
<1>3. c < a + b + 2
  BY <1>1, <1>2
<1> QED
  BY <1>1, <1>3 DEF a, b, c

\* A share of a load of at most 31 in 45 parts, rounded up.
LEMMA ShareOfLoad ==
  ASSUME NEW d \in Int, d >= 9, NEW arm \in Int, NEW n \in Nat \ {0}, 45 * arm <= 31 * n
  PROVE  5 * ((d * arm) \div n + 1) <= 4 * d
<1> DEFINE b == (d * arm) \div n
<1>1. d * arm \in Int
  OBVIOUS
<1>2. b \in Int /\ b * n <= d * arm
  BY <1>1, QuotientIsBelow
<1> HIDE DEF b
<1>3. d * (45 * arm) <= d * (31 * n)
  <2>1. \A u, v, w \in Int : u >= 0 /\ v <= w => u * v <= u * w
    OBVIOUS
  <2> QED
    BY <2>1
<1>4. (45 * b) * n <= (31 * d) * n
  <2>1. (45 * b) * n = 45 * (b * n) /\ d * (45 * arm) = 45 * (d * arm) /\ (31 * d) * n = d * (31 * n)
    BY <1>2
  <2>2. b * n \in Int /\ d * arm \in Int
    BY <1>2
  <2> QED
    BY <1>2, <1>3, <2>1, <2>2
<1>5. 45 * b <= 31 * d
  <2>1. \A u, v \in Int : u * n <= v * n => u <= v
    OBVIOUS
  <2> QED
    BY <1>2, <1>4, <2>1
<1>6. 5 * (b + 1) <= 4 * d
  BY <1>2, <1>5
<1> QED
  BY <1>6 DEF b

LEMMA NewtonsGrow ==
  ASSUME NEW k \in Int, NEW m \in Int, k < m
  PROVE  Newtons(k) \in Int /\ Newtons(m) \in Int /\ Newtons(m) >= Newtons(k) + 9
  BY DEF Newtons

\* The load of the front axle as a function of the ballast.
FrontBalance(q, c, k, x, arm, n) ==
  /\ 45 * arm <= 31 * n
  /\ arm = q.tractor.wheelbase + geometry_terms(q.tractor, q.cond).ef - q.tractor.cg
  /\ tractor_weight_n(q) \in Nat \ {0}
  /\ \A kg \in Int :
       axle_loads_with_ballast(q, kg).front
         = (tractor_weight_n(q) + Newtons(kg)) + c
             - ((k + (tractor_weight_n(q) + Newtons(kg)) * arm) \div n + x)

\* The balances of the three modes are of that form.
LEMMA FrontLoad ==
  ASSUME NEW q \in Request, BallastActs(q)
  PROVE  \E c \in Int, k \in Int, x \in Int, arm \in Int, n \in Nat \ {0} :
           FrontBalance(q, c, k, x, arm, n)
<1> DEFINE g == geometry_terms(q.tractor, q.cond)
           ch == Chain(q)
           t == q.tractor
           n == t.wheelbase - g.er + g.ef
           arm == t.wheelbase + g.ef - t.cg
           reach == ch.cg + t.hitch + t.wheelbase + g.ef
           k == (ch.weight + ch.py) * reach - ch.draft * g.yd
           weight == tractor_weight_n(q)
<1>1. q.tractor \in Tractor /\ q.cond \in Conditions
  BY DEF Request
<1>2. /\ t.hitch \in Int /\ t.wheelbase \in Int /\ t.cg \in Int
      /\ g.er \in Int /\ g.ef \in Int /\ g.yd \in Int
  BY <1>1 DEF Tractor, Conditions, geometry_terms
<1>3. weight \in Int
  BY <1>1 DEF Newtons, tractor_weight_n, Tractor
<1>4. /\ ch.weight \in Int /\ ch.cg \in Int /\ ch.py \in Int /\ ch.draft \in Int /\ ch.extraRear \in Int
      /\ weight > 0 /\ n > 0 /\ 45 * arm <= 31 * n
  BY DEF BallastActs
<1> HIDE DEF g, ch, weight
<1>5. n \in Nat \ {0} /\ arm \in Int /\ reach \in Int /\ weight \in Nat \ {0}
  BY <1>2, <1>3, <1>4
<1> HIDE DEF t
<1>6. k \in Int
  <2>1. (ch.weight + ch.py) * reach \in Int /\ ch.draft * g.yd \in Int
    BY <1>2, <1>4, <1>5
  <2> QED
    BY <2>1
<1>7. ASSUME NEW kg \in Int
      PROVE  /\ q.mode = "single" => axle_loads_with_ballast(q, kg).front
                  = (weight + Newtons(kg)) + ch.weight + ch.py - (k + (weight + Newtons(kg)) * arm) \div n
             /\ q.mode # "single" => axle_loads_with_ballast(q, kg).front
                  = (weight + Newtons(kg)) + ch.weight + ch.py
                      - ((k + (weight + Newtons(kg)) * arm) \div n + ch.extraRear)
  <2> DEFINE w == weight + Newtons(kg)
  <2>1. w \in Int
    BY <1>3, NewtonsGrow, kg + 1 \in Int, kg < kg + 1
  <2> HIDE DEF w
  <2>2. (ch.weight + ch.py) * reach + w * arm - ch.draft * g.yd = k + w * arm
    <3>1. (ch.weight + ch.py) * reach \in Int /\ ch.draft * g.yd \in Int /\ w * arm \in Int
      BY <1>2, <1>4, <1>5, <2>1
    <3> QED
      BY <3>1
  <2>3. CASE q.mode = "single"
    <3>1. axle_loads_with_ballast(q, kg) = dynamic_axle_loads(t, q.cond, w, ch.weight, ch.cg, ch.py, ch.draft)
      BY <2>3 DEF axle_loads_with_ballast, w, weight, ch, t
    <3>2. axle_loads_with_ballast(q, kg).front
            = w + ch.weight + ch.py - ((ch.weight + ch.py) * reach + w * arm - ch.draft * g.yd) \div n
      BY <3>1 DEF dynamic_axle_loads, g, t
    <3> QED
      BY <2>2, <2>3, <3>2 DEF w
  <2>4. CASE q.mode # "single"
    <3>1. axle_loads_with_ballast(q, kg)
            = combined_axle_loads(t, q.cond, w, ch.weight, ch.cg, ch.py, ch.draft, ch.extraRear)
      BY <2>4 DEF axle_loads_with_ballast, w, weight, ch, t
    <3>2. axle_loads_with_ballast(q, kg).front
            = w + ch.weight + ch.py
               - (((ch.weight + ch.py) * reach + w * arm - ch.draft * g.yd) \div n + ch.extraRear)
      BY <3>1 DEF combined_axle_loads, g, t
    <3> QED
      BY <2>2, <2>4, <3>2 DEF w
  <2> QED
    BY <2>3, <2>4
<1> HIDE DEF n, arm, k
<1> DEFINE x == IF q.mode = "single" THEN 0 ELSE ch.extraRear
           c == ch.weight + ch.py
<1>8. x \in Int /\ c \in Int /\ 45 * arm <= 31 * n
  BY <1>4
<1>9. arm = t.wheelbase + g.ef - t.cg
  BY DEF arm
<1>10. ASSUME NEW kg \in Int
       PROVE  axle_loads_with_ballast(q, kg).front
               = (weight + Newtons(kg)) + c - ((k + (weight + Newtons(kg)) * arm) \div n + x)
  <2>1. Newtons(kg) \in Int
    BY NewtonsGrow, kg + 1 \in Int, kg < kg + 1
  <2>2. (k + (weight + Newtons(kg)) * arm) \div n \in Int
    BY <1>5, <1>6, <2>1
  <2> QED
    BY <1>3, <1>4, <1>7, <2>1, <2>2
<1> HIDE DEF c, x
<1>11. FrontBalance(q, c, k, x, arm, n)
  BY <1>5, <1>8, <1>9, <1>10 DEF FrontBalance, weight, t, g
<1> QED
  BY <1>5, <1>6, <1>8, <1>11

\* More ballast steers where less does, by whole kilograms.
LEMMA MoreSteers ==
  ASSUME NEW q \in Request, BallastActs(q), NEW less \in Int, NEW more \in Int, less < more,
         SteersWith(q, less)
  PROVE  SteersWith(q, more)
<1>1. PICK c \in Int, k \in Int, x \in Int, arm \in Int, n \in Nat \ {0} :
        FrontBalance(q, c, k, x, arm, n)
  BY FrontLoad
<1> DEFINE u == tractor_weight_n(q) + Newtons(less)
           v == tractor_weight_n(q) + Newtons(more)
           d == v - u
           lighter == (k + u * arm) \div n
           heavier == (k + v * arm) \div n
           share == (d * arm) \div n
<1>2. u \in Int /\ v \in Int /\ d \in Int /\ d >= 9
  <2>1. tractor_weight_n(q) \in Int
    BY <1>1 DEF FrontBalance
  <2>2. Newtons(less) \in Int /\ Newtons(more) \in Int /\ Newtons(more) >= Newtons(less) + 9
    BY NewtonsGrow
  <2> QED
    BY <2>1, <2>2
<1>3. /\ axle_loads_with_ballast(q, less).front = u + c - (lighter + x)
      /\ axle_loads_with_ballast(q, more).front = v + c - (heavier + x)
  BY <1>1 DEF FrontBalance
<1>4. 5 * (u + c - (lighter + x)) >= u
  BY <1>3 DEF SteersWith
<1>5. /\ k + u * arm \in Int /\ d * arm \in Int
      /\ k + v * arm = (k + u * arm) + d * arm
  <2> HIDE DEF u, v
  <2>1. u * arm \in Int /\ v * arm \in Int /\ (v - u) * arm = v * arm - u * arm
    BY <1>2
  <2> QED
    BY <2>1
<1> HIDE DEF u, v
<1>6. heavier <= lighter + share + 1 /\ lighter \in Int /\ share \in Int /\ heavier \in Int
  <2>1. \A y, e \in Int : (y + e) \div n <= y \div n + e \div n + 1
    BY QuotientOfSum
  <2>2. \A y \in Int : y \div n \in Int
    BY QuotientIsBelow
  <2>3. k + u * arm \in Int /\ d * arm \in Int /\ k + v * arm = (k + u * arm) + d * arm
    BY <1>5
  <2> DEFINE y == k + u * arm
             e == d * arm
  <2> HIDE DEF d, y, e
  <2>4. y \in Int /\ e \in Int /\ k + v * arm = y + e
    BY <2>3 DEF y, e
  <2>5. /\ (y + e) \div n <= y \div n + e \div n + 1
        /\ y \div n \in Int /\ e \div n \in Int /\ (y + e) \div n \in Int
    <3>1. y + e \in Int
      BY <2>4
    <3>2. y \div n \in Int /\ e \div n \in Int /\ (y + e) \div n \in Int
      BY <2>2, <2>4, <3>1, Zenon
    <3>3. (y + e) \div n <= y \div n + e \div n + 1
      BY <2>1, <2>4, Zenon
    <3> QED
      BY <3>2, <3>3
  <2>6. lighter = y \div n /\ share = e \div n /\ heavier = (y + e) \div n
    BY <2>4 DEF y, e
  <2> HIDE DEF lighter, share, heavier
  <2> QED
    BY <2>5, <2>6
<1>7. 5 * (share + 1) <= 4 * d
  <2>1. 45 * arm <= 31 * n
    BY <1>1 DEF FrontBalance
  <2> QED
    BY <1>2, <2>1, ShareOfLoad
<1> HIDE DEF lighter, heavier, share
<1>8. 5 * (v + c - (heavier + x)) >= v
  BY <1>2, <1>4, <1>6, <1>7
<1> QED
  BY <1>3, <1>8 DEF SteersWith, v

\* A front axle that lifts does not steer.
LEMMA LiftedDoesNotSteer ==
  ASSUME NEW q \in Request, BallastActs(q), ~(axle_loads_with_ballast(q, 0).front > 0)
  PROVE  ~SteersWith(q, 0)
<1>1. PICK c \in Int, k \in Int, x \in Int, arm \in Int, n \in Nat \ {0} :
        FrontBalance(q, c, k, x, arm, n)
  BY FrontLoad
<1>2. Newtons(0) = 0
  BY DEF Newtons
<1> DEFINE w == tractor_weight_n(q)
<1> HIDE DEF w
<1>3. w \in Nat \ {0} /\ axle_loads_with_ballast(q, 0).front = w + c - ((k + w * arm) \div n + x)
  BY <1>1, <1>2 DEF w, FrontBalance
<1>4. axle_loads_with_ballast(q, 0).front \in Int
  <2>1. k + w * arm \in Int
    BY <1>3
  <2>2. (k + w * arm) \div n \in Int
    BY <2>1, QuotientIsBelow
  <2> QED
    BY <1>3, <2>2
<1>5. 5 * axle_loads_with_ballast(q, 0).front < w
  BY <1>3, <1>4
<1> QED
  BY <1>2, <1>3, <1>4, <1>5 DEF SteersWith, w

-----------------------------------------------------------------------------

\* The least number of a set of them: what stands in for an induction over the steps of a
\* walk.
LEMMA LeastNatural ==
  ASSUME NEW S, S \subseteq Nat, S # {}
  PROVE  \E x \in S : \A y \in S : x <= y
<1> DEFINE R == {pair \in Nat \X Nat : pair[1] < pair[2]}
<1>1. IsWellFoundedOn(R, Nat)
  BY NatLessThanWellFounded DEF OpToRel
<1>2. \A x, y \in Nat : <<y, x>> \in R <=> y < x
  OBVIOUS
<1> HIDE DEF R
<1>3. PICK x \in S : \A y \in S : ~ (<<y, x>> \in R)
  BY <1>1, WFMin
<1>4. ASSUME NEW y \in S PROVE x <= y
  <2>1. x \in Nat /\ y \in Nat
    OBVIOUS
  <2>2. <<y, x>> \notin R
    BY <1>3
  <2>3. <<y, x>> \in R <=> y < x
    BY <1>2, <2>1, Zenon
  <2> QED
    BY <2>1, <2>2, <2>3
<1> QED
  BY <1>4

-----------------------------------------------------------------------------
\* The solver as a walk.

Start == [phase |-> "widen", lo |-> 0, hi |-> BallastCeiling, tries |-> 0]

Finished(b) ==
  IF b.phase = "widen" THEN b.tries = GrowthSteps
  ELSE b.hi - b.lo < BallastTolerance \/ b.tries = SolverIterations

Outcome(b) == IF b.phase = "widen" THEN Missing ELSE (b.lo + b.hi) \div 2

After(q, b) ==
  LET middle == (b.lo + b.hi) \div 2
  IN  IF b.phase = "widen"
      THEN IF SteersWith(q, b.hi)
           THEN [phase |-> "bisect", lo |-> b.lo, hi |-> b.hi, tries |-> 0]
           ELSE [phase |-> "widen", lo |-> b.lo, hi |-> (b.hi * 8) \div 5, tries |-> b.tries + 1]
      ELSE IF SteersWith(q, middle)
           THEN [phase |-> "bisect", lo |-> b.lo, hi |-> middle, tries |-> b.tries + 1]
           ELSE [phase |-> "bisect", lo |-> middle, hi |-> b.hi, tries |-> b.tries + 1]

\* The first n steps of the solver for a request.
Walk(q, n, p) ==
  /\ p[0] = Start
  /\ \A i \in 0 .. n - 1 : ~Finished(p[i]) /\ p[i + 1] = After(q, p[i])

Reaches(q, b) == \E n \in Nat : \E p : Walk(q, n, p) /\ p[n] = b

Gives(q, kg) == \E b : Reaches(q, b) /\ Finished(b) /\ Outcome(b) = kg

LEMMA WalkStarts == ASSUME NEW q PROVE Reaches(q, Start)
<1>1. Walk(q, 0, [i \in {0} |-> Start])
  BY DEF Walk
<1> QED
  BY <1>1 DEF Reaches

LEMMA WalkGoesOn ==
  ASSUME NEW q, NEW b, Reaches(q, b), ~Finished(b)
  PROVE  Reaches(q, After(q, b))
<1>1. PICK n \in Nat : \E p : Walk(q, n, p) /\ p[n] = b
  BY DEF Reaches
<1>2. PICK p : Walk(q, n, p) /\ p[n] = b
  BY <1>1
<1> DEFINE longer == [i \in 0 .. n + 1 |-> IF i = n + 1 THEN After(q, b) ELSE p[i]]
<1>3. longer[0] = Start /\ longer[n + 1] = After(q, b)
  BY <1>2 DEF Walk
<1>4. ASSUME NEW i \in 0 .. n
      PROVE  ~Finished(longer[i]) /\ longer[i + 1] = After(q, longer[i])
  <2>1. longer[i] = p[i]
    OBVIOUS
  <2>2. CASE i = n
    BY <1>2, <1>3, <2>1, <2>2
  <2>3. CASE i # n
    <3>1. i \in 0 .. n - 1 /\ i + 1 \in 0 .. n + 1 /\ i + 1 # n + 1
      BY <2>3
    <3>2. longer[i + 1] = p[i + 1]
      BY <3>1
    <3> QED
      BY <1>2, <2>1, <3>1, <3>2 DEF Walk
  <2> QED
    BY <2>2, <2>3
<1> HIDE DEF longer
<1>5. Walk(q, n + 1, longer)
  BY <1>3, <1>4 DEF Walk
<1>6. n + 1 \in Nat
  OBVIOUS
<1> QED
  BY <1>3, <1>5, <1>6 DEF Reaches

\* Two walks of one request are the same, so that both solver runs find the same ballast.
LEMMA OneOutcome ==
  ASSUME NEW q, NEW k, NEW m, Gives(q, k), Gives(q, m)
  PROVE  k = m
<1>1. PICK b : Reaches(q, b) /\ Finished(b) /\ Outcome(b) = k
  BY DEF Gives
<1>2. PICK c : Reaches(q, c) /\ Finished(c) /\ Outcome(c) = m
  BY DEF Gives
<1>3. PICK i \in Nat : \E p : Walk(q, i, p) /\ p[i] = b
  BY <1>1 DEF Reaches
<1>4. PICK p : Walk(q, i, p) /\ p[i] = b
  BY <1>3
<1>5. PICK j \in Nat : \E r : Walk(q, j, r) /\ r[j] = c
  BY <1>2 DEF Reaches
<1>6. PICK r : Walk(q, j, r) /\ r[j] = c
  BY <1>5
<1> DEFINE Apart == {n \in Nat : n <= i /\ n <= j /\ p[n] # r[n]}
<1>7. Apart = {}
  <2> SUFFICES ASSUME Apart # {} PROVE FALSE
    OBVIOUS
  <2>1. PICK n \in Apart : \A y \in Apart : n <= y
    <3>1. Apart \subseteq Nat
      OBVIOUS
    <3> HIDE DEF Apart
    <3> QED
      BY <3>1, LeastNatural
  <2>2. n # 0
    BY <1>4, <1>6 DEF Walk
  <2>3. n - 1 \in 0 .. i - 1 /\ n - 1 \in 0 .. j - 1 /\ n - 1 \notin Apart /\ (n - 1) + 1 = n
    BY <2>1, <2>2
  <2>4. p[n - 1] = r[n - 1]
    BY <2>3
  <2>5. p[n] = After(q, p[n - 1]) /\ r[n] = After(q, r[n - 1])
    BY <1>4, <1>6, <2>3 DEF Walk
  <2> QED
    BY <2>4, <2>5
<1>8. \A n \in Nat : n <= i /\ n <= j => p[n] = r[n]
  BY <1>7
<1>9. ~(i < j)
  BY <1>1, <1>4, <1>6, <1>8 DEF Walk
<1>10. ~(j < i)
  BY <1>2, <1>4, <1>6, <1>8 DEF Walk
<1>11. i = j
  BY <1>9, <1>10
<1> QED
  BY <1>1, <1>2, <1>4, <1>6, <1>8, <1>11

-----------------------------------------------------------------------------
\* The solver in the run.

\* Widening opens no bracket that SolverIterations halvings leave wider than a kilogram:
\* g are the upper ends it tries, h what is left of the widest after each halving. The
\* code has 40 and 200, so five tonnes grow to less than 2^40 kg and shrink by 2^200.
Halvings(g, h) ==
  /\ g \in [Nat -> Nat] /\ h \in [Nat -> Nat]
  /\ g[0] = BallastCeiling /\ \A i \in Nat : g[i + 1] = (g[i] * 8) \div 5
  /\ \A i \in 0 .. GrowthSteps : g[i] <= h[0]
  /\ \A i \in Nat : h[i] <= 2 * h[i + 1]
  /\ h[SolverIterations] <= 1

EnoughIterations == \E g, h : Halvings(g, h)

Acts == query # Null /\ BallastActs(query)

\* How wide the bracket is.
Narrows(g, h) ==
  /\ pc = "widen" => search.lo = 0 /\ search.tries <= GrowthSteps /\ search.hi = g[search.tries]
  /\ pc = "bisect" => search.tries <= SolverIterations /\ search.hi - search.lo <= h[search.tries]

\* Ballast is sized where the tractor does not steer without, and neither does the lower end.
Unsteered ==
  Acts /\ pc \in {"widen", "bisect"} => ~SteersWith(query, 0) /\ ~SteersWith(query, search.lo)

LeastBallast(kg) == /\ SteersWith(query, kg + BallastTolerance)
                    /\ kg > 0 => ~SteersWith(query, kg - BallastTolerance)

\* A kilogram more steers, and this does not.
Sharp(kg) == SteersWith(query, kg + 1) /\ ~SteersWith(query, kg)

\* What is recommended is the least that steers.
Sized == Acts /\ front \in Nat => LeastBallast(front)

Current == [phase |-> pc, lo |-> search.lo, hi |-> search.hi, tries |-> search.tries]

\* The running solver is on its walk, and what is recommended was the end of it, unless no
\* ballast is needed.
Walked ==
  /\ pc \in {"widen", "bisect"} => Reaches(query, Current)
  /\ front # Null => Gives(query, front) \/ (SteersWith(query, 0) /\ front = 0)

\* The axle loads in force are those of some ballast, and any ballast is what the solver
\* found.
Fitted ==
  \E kg \in Nat :
    /\ axles = AxlesWith(query, kg)
    /\ kg > 0 => Gives(query, kg) /\ (Acts => ~SteersWith(query, 0) /\ LeastBallast(kg))

\* They are there from the slip search on.
Loaded ==
  /\ axles = Null \/ Fitted
  /\ \/ pc \in {"slip", "judge", "settle", "report"} \/ front # Null
     \/ pc \in {"widen", "bisect"} /\ search.goal = "steer"
     => Fitted

LEMMA QueryIsRequest == ASSUME Asked, query # Null PROVE query \in Request
  BY RequestsAssumption, ResolvedIsRequest DEF Asked

LEMMA BracketFields ==
  ASSUME Types
  PROVE  /\ search.lo \in Nat /\ search.hi \in Nat /\ search.tries \in Nat
         /\ search.lo <= search.hi /\ search \in Bracket
  BY DEF Types, Bracket

\* The two updates of a bracket that the solver makes, and the reset of its counter.
LEMMA Updates ==
  ASSUME NEW b \in Bracket, NEW v
  PROVE  /\ LET raised == [b EXCEPT !.hi = v, !.tries = @ + 1]
            IN  raised.lo = b.lo /\ raised.hi = v /\ raised.tries = b.tries + 1 /\ raised.goal = b.goal
         /\ LET cut == [b EXCEPT !.lo = v, !.tries = @ + 1]
            IN  cut.lo = v /\ cut.hi = b.hi /\ cut.tries = b.tries + 1 /\ cut.goal = b.goal
         /\ LET again == [b EXCEPT !.tries = 0]
            IN  again.lo = b.lo /\ again.hi = b.hi /\ again.tries = 0 /\ again.goal = b.goal
  BY DEF Bracket

LEMMA NewSearch ==
  ASSUME NEW goal
  PROVE  /\ Searching(goal).lo = 0 /\ Searching(goal).hi = BallastCeiling
         /\ Searching(goal).tries = 0 /\ Searching(goal).goal = goal
  BY DEF Searching

\* What a step of the solver does.
LEMMA SolverStep ==
  ASSUME Types, Widen \/ Bisect
  PROVE  /\ UNCHANGED query
         /\ \/ /\ Finished(Current)
               /\ search' = search
               /\ \/ pc = "widen" /\ NoBallastHelps
                  \/ pc = "bisect" /\ BallastFound(Middle)
            \/ /\ ~Finished(Current)
               /\ pc' \in {"widen", "bisect"}
               /\ Current' = After(query, Current)
               /\ UNCHANGED <<axles, front>> /\ search'.goal = search.goal
               /\ \/ pc = "widen" /\ pc' = "bisect"
                     /\ SteersWith(query, search.hi)
                     /\ search'.lo = search.lo /\ search'.hi = search.hi /\ search'.tries = 0
                  \/ pc = "widen" /\ pc' = "widen"
                     /\ search.tries < GrowthSteps
                     /\ search'.lo = search.lo /\ search'.hi = (search.hi * 8) \div 5
                     /\ search'.tries = search.tries + 1
                  \/ pc = "bisect" /\ pc' = "bisect"
                     /\ search.tries # SolverIterations
                     /\ search'.tries = search.tries + 1
                     /\ \/ search'.lo = search.lo /\ search'.hi = Middle
                        \/ search'.lo = Middle /\ search'.hi = search.hi /\ ~SteersWith(query, Middle)
<1>0. /\ search \in Bracket /\ search.tries \in Nat /\ GrowthSteps \in Nat
      /\ Current = [phase |-> pc, lo |-> search.lo, hi |-> search.hi, tries |-> search.tries]
      /\ Current' = [phase |-> pc', lo |-> search'.lo, hi |-> search'.hi, tries |-> search'.tries]
  BY BoundsAssumption, BracketFields DEF Current
<1>1. CASE Widen
  <2>1. pc = "widen" /\ query' = query /\ (Finished(Current) <=> search.tries = GrowthSteps)
    BY <1>0, <1>1 DEF Widen, Finished
  <2>2. CASE /\ SteersWith(query, search.hi) /\ search.tries < GrowthSteps /\ pc' = "bisect"
             /\ search' = [search EXCEPT !.tries = 0] /\ UNCHANGED <<axles, front>>
    <3>1. /\ search'.lo = search.lo /\ search'.hi = search.hi /\ search'.tries = 0
          /\ search'.goal = search.goal
      BY <1>0, <2>2, Updates
    <3>2. Current' = After(query, Current)
      BY <1>0, <2>1, <2>2, <3>1 DEF After
    <3> QED
      BY <1>0, <2>1, <2>2, <3>1, <3>2
  <2>3. CASE /\ ~SteersWith(query, search.hi) /\ search.tries < GrowthSteps
             /\ search' = [search EXCEPT !.hi = (@ * 8) \div 5, !.tries = @ + 1]
             /\ UNCHANGED <<pc, axles, front>>
    <3>1. /\ search'.lo = search.lo /\ search'.hi = (search.hi * 8) \div 5
          /\ search'.tries = search.tries + 1 /\ search'.goal = search.goal
      BY <1>0, <2>3, Updates
    <3>2. Current' = After(query, Current)
      BY <1>0, <2>1, <2>3, <3>1 DEF After
    <3> QED
      BY <1>0, <2>1, <2>3, <3>1, <3>2
  <2>4. CASE search.tries = GrowthSteps /\ NoBallastHelps /\ UNCHANGED search
    BY <2>1, <2>4
  <2> QED
    BY <1>1, <2>2, <2>3, <2>4 DEF Widen
<1>2. CASE Bisect
  <2>1. /\ pc = "bisect" /\ query' = query
        /\ Finished(Current) <=> search.hi - search.lo < BallastTolerance \/ search.tries = SolverIterations
    BY <1>0, <1>2 DEF Bisect, Finished
  <2>2. CASE Finished(Current)
    BY <1>2, <2>1, <2>2 DEF Bisect
  <2>3. CASE ~Finished(Current)
    <3>1. /\ UNCHANGED <<pc, axles, front>>
          /\ search' = IF SteersWith(query, Middle)
                         THEN [search EXCEPT !.hi = Middle, !.tries = @ + 1]
                         ELSE [search EXCEPT !.lo = Middle, !.tries = @ + 1]
      BY <1>2, <2>1, <2>3 DEF Bisect
    <3>2. CASE SteersWith(query, Middle)
      <4>1. /\ search'.lo = search.lo /\ search'.hi = Middle
            /\ search'.tries = search.tries + 1 /\ search'.goal = search.goal
        BY <1>0, <3>1, <3>2, Updates
      <4>2. Current' = After(query, Current)
        BY <1>0, <2>1, <3>1, <3>2, <4>1 DEF After, Middle
      <4> QED
        BY <2>1, <2>3, <3>1, <4>1, <4>2
    <3>3. CASE ~SteersWith(query, Middle)
      <4>1. /\ search'.lo = Middle /\ search'.hi = search.hi
            /\ search'.tries = search.tries + 1 /\ search'.goal = search.goal
        BY <1>0, <3>1, <3>3, Updates
      <4>2. Current' = After(query, Current)
        BY <1>0, <2>1, <3>1, <3>3, <4>1 DEF After, Middle
      <4> QED
        BY <2>1, <2>3, <3>1, <3>3, <4>1, <4>2
    <3> QED
      BY <3>2, <3>3
  <2> QED
    BY <2>2, <2>3
<1> QED
  BY <1>1, <1>2

-----------------------------------------------------------------------------

LEMMA NarrowsStep ==
  ASSUME NEW g, NEW h, Halvings(g, h), Types, Narrows(g, h), [Next]_vars
  PROVE  Narrows(g, h)'
<1> USE DEF Narrows
<1>0. /\ search.lo \in Nat /\ search.hi \in Nat /\ search.tries \in Nat /\ search.lo <= search.hi
      /\ GrowthSteps \in Nat /\ SolverIterations \in Nat \ {0}
      /\ g[0] = BallastCeiling /\ h \in [Nat -> Nat]
  BY BracketFields, BoundsAssumption DEF Halvings
<1>1. CASE UNCHANGED vars
  BY <1>1 DEF vars
<1>2. CASE Submit \/ Judge
  <2>1. pc' # "bisect" /\ (search' = Searching("lift") \/ search' = Searching("steer"))
    BY <1>2 DEF Submit, Judge, Refuse
  <2> QED
    BY <1>0, <2>1, NewSearch
<1>3. CASE Widen \/ Bisect
  <2>1. CASE pc' \notin {"widen", "bisect"}
    BY <2>1
  <2>2. CASE pc' \in {"widen", "bisect"}
    <3>1. ~Finished(Current)
      BY <1>3, <2>2, SolverStep DEF NoBallastHelps, BallastFound, Refuse
    <3>2. CASE pc = "widen" /\ pc' = "bisect" /\ search'.lo = search.lo /\ search'.hi = search.hi
               /\ search'.tries = 0
      <4>1. search.lo = 0 /\ search.tries \in 0 .. GrowthSteps /\ search.hi = g[search.tries]
        BY <1>0, <3>2
      <4>2. g[search.tries] <= h[0]
        BY <4>1 DEF Halvings
      <4> QED
        BY <1>0, <3>2, <4>1, <4>2
    <3>3. CASE /\ pc = "widen" /\ pc' = "widen" /\ search.tries < GrowthSteps
               /\ search'.lo = search.lo /\ search'.hi = (search.hi * 8) \div 5
               /\ search'.tries = search.tries + 1
      <4>1. search.lo = 0 /\ search.hi = g[search.tries]
        BY <3>3
      <4>2. g[search.tries + 1] = (search.hi * 8) \div 5
        BY <1>0, <4>1 DEF Halvings
      <4> QED
        BY <1>0, <3>3, <4>1, <4>2
    <3>4. CASE /\ pc = "bisect" /\ pc' = "bisect" /\ search.tries # SolverIterations
               /\ search'.tries = search.tries + 1
               /\ \/ search'.lo = search.lo /\ search'.hi = Middle
                  \/ search'.lo = Middle /\ search'.hi = search.hi
      <4>1. search.tries <= SolverIterations /\ search.hi - search.lo <= h[search.tries]
        BY <3>4
      <4>2. h[search.tries] <= 2 * h[search.tries + 1] /\ h[search.tries] \in Nat /\ h[search.tries + 1] \in Nat
        <5>1. \A i \in Nat : h[i] <= 2 * h[i + 1] /\ h[i] \in Nat /\ h[i + 1] \in Nat
          BY DEF Halvings
        <5> QED
          BY <1>0, <5>1
      <4>3. /\ Middle \in Nat /\ 2 * (Middle - search.lo) <= search.hi - search.lo
            /\ 2 * (search.hi - Middle) <= search.hi - search.lo + 1
        BY <1>0 DEF Middle
      <4>4. search'.hi - search'.lo <= h[search.tries + 1]
        BY <1>0, <3>4, <4>1, <4>2, <4>3
      <4> QED
        BY <1>0, <3>4, <4>1, <4>4
    <3> QED
      BY <1>3, <3>1, <3>2, <3>3, <3>4, SolverStep
  <2> QED
    BY <2>1, <2>2
<1>4. CASE TrySlip \/ Settle \/ Report
  BY <1>4 DEF TrySlip, NextTrial, Settle, Report
<1> QED
  BY <1>1, <1>2, <1>3, <1>4 DEF Next

\* The end of the halving: a bracket of a kilogram, from an end that does not steer to one
\* that does.
LEMMA FoundIsLeast ==
  ASSUME NEW g, NEW h, Halvings(g, h), Types, Asked, BracketHoldsRoot, Narrows(g, h), Unsteered,
         Acts, pc = "bisect", Finished(Current)
  PROVE  Middle \in Nat /\ Sharp(Middle) /\ LeastBallast(Middle) /\ ~SteersWith(query, 0)
<1>1. /\ search.lo \in Nat /\ search.hi \in Nat /\ search.lo <= search.hi
      /\ query \in Request /\ BallastActs(query)
  BY BracketFields, QueryIsRequest DEF Acts
<1>2. search.hi - search.lo <= 1
  <2>1. search.tries = SolverIterations => search.hi - search.lo <= 1
    <3>1. h[search.tries] \in Nat /\ search.hi - search.lo <= h[search.tries]
      BY BracketFields DEF Narrows, Halvings
    <3> QED
      BY <1>1, <3>1 DEF Halvings
  <2>2. search.hi - search.lo < 2 \/ search.tries = SolverIterations
    BY DEF Finished, Current, BallastTolerance
  <2> QED
    BY <1>1, <2>1, <2>2
<1>3. Middle = search.lo /\ (search.hi = search.lo \/ search.hi = search.lo + 1)
  <2>1. \A n \in Nat : (n + n) \div 2 = n /\ (n + (n + 1)) \div 2 = n
    OBVIOUS
  <2>2. search.hi = search.lo \/ search.hi = search.lo + 1
    BY <1>1, <1>2
  <2> QED
    BY <1>1, <2>1, <2>2 DEF Middle
<1>4. SteersWith(query, search.hi) /\ ~SteersWith(query, search.lo) /\ ~SteersWith(query, 0)
  BY DEF BracketHoldsRoot, Unsteered
<1>5. SteersWith(query, search.lo + 2)
  <2>1. search.hi \in Int /\ search.lo + 2 \in Int /\ search.hi < search.lo + 2
    BY <1>1, <1>2
  <2> QED
    BY <1>1, <1>4, <2>1, MoreSteers
<1>6. ~SteersWith(query, search.lo - 2)
  <2>1. search.lo - 2 \in Int /\ search.lo \in Int /\ search.lo - 2 < search.lo
    BY <1>1
  <2> QED
    BY <1>1, <1>4, <2>1, MoreSteers
<1>7. SteersWith(query, search.lo + 1)
  BY <1>3, <1>4
<1> QED
  BY <1>1, <1>3, <1>4, <1>5, <1>6, <1>7 DEF LeastBallast, Sharp, BallastTolerance

LEMMA UnsteeredStep ==
  ASSUME Types, Asked', Unsteered, BracketHoldsRoot, [Next]_vars
  PROVE  Unsteered'
<1> USE DEF Unsteered, Acts
<1>1. CASE UNCHANGED vars
  BY <1>1 DEF vars
<1>2. CASE Submit
  <2> SUFFICES ASSUME query' # Null, BallastActs(query'), pc' \in {"widen", "bisect"}
               PROVE  ~SteersWith(query', 0) /\ ~SteersWith(query', search'.lo)
    OBVIOUS
  <2>1. query' \in Request
    BY RequestsAssumption, ResolvedIsRequest DEF Asked
  <2>2. ~(AxlesWith(query', 0).front > 0) /\ search' = Searching("lift")
    BY <1>2 DEF Submit, Refuse
  <2>3. ~(axle_loads_with_ballast(query', 0).front > 0)
    BY <2>2 DEF AxlesWith
  <2> QED
    BY <2>1, <2>2, <2>3, LiftedDoesNotSteer, NewSearch
<1>3. CASE Judge
  <2>1. /\ query' = query /\ search' = Searching("steer")
        /\ pc' \in {"widen", "bisect"} => ~SteersWith(query, 0)
    BY <1>3 DEF Judge, Refuse
  <2> QED
    BY <2>1, NewSearch
<1>4. CASE Widen \/ Bisect
  <2> SUFFICES ASSUME query' # Null, BallastActs(query'), pc' \in {"widen", "bisect"}
               PROVE  ~SteersWith(query', 0) /\ ~SteersWith(query', search'.lo)
    OBVIOUS
  <2>1. query' = query /\ ~Finished(Current) /\ pc \in {"widen", "bisect"}
    BY <1>4, SolverStep DEF NoBallastHelps, BallastFound, Refuse, Widen, Bisect
  <2>2. ~SteersWith(query, 0) /\ ~SteersWith(query, search.lo)
    BY <2>1
  <2>3. search'.lo = search.lo \/ (search'.lo = Middle /\ ~SteersWith(query, Middle))
    BY <1>4, <2>1, SolverStep
  <2> QED
    BY <2>1, <2>2, <2>3
<1>5. CASE TrySlip \/ Settle \/ Report
  BY <1>5 DEF TrySlip, NextTrial, Settle, Report
<1> QED
  BY <1>1, <1>2, <1>3, <1>4, <1>5 DEF Next

LEMMA SizedStep ==
  ASSUME NEW g, NEW h, Halvings(g, h), Types, Asked, BracketHoldsRoot, Narrows(g, h), Unsteered,
         Sized, [Next]_vars
  PROVE  Sized'
<1> USE DEF Acts
<1>1. ASSUME UNCHANGED <<query, front>>
      PROVE  Sized'
  BY <1>1 DEF Sized, LeastBallast
<1>2. CASE UNCHANGED vars
  BY <1>1, <1>2 DEF vars
<1>3. CASE Submit
  BY <1>3, NullAssumption DEF Submit, Sized
<1>4. CASE Judge
  <2>1. query' = query /\ (front' = front \/ (front' = 0 /\ SteersWith(query, 0)))
    BY <1>4 DEF Judge
  <2>2. ASSUME SteersWith(query, 0), Acts
        PROVE  LeastBallast(0)
    <3>1. query \in Request /\ BallastActs(query)
      BY <2>2, QueryIsRequest
    <3>2. SteersWith(query, 2)
      BY <2>2, <3>1, MoreSteers, 0 \in Int, 2 \in Int, 0 < 2
    <3> QED
      BY <3>2 DEF LeastBallast, BallastTolerance
  <2> QED
    BY <2>1, <2>2 DEF Sized, LeastBallast
<1>5. CASE Widen \/ Bisect
  <2>1. query' = query
    BY <1>5, SolverStep
  <2>2. CASE UNCHANGED front
    BY <1>1, <2>1, <2>2
  <2>3. CASE pc = "widen" /\ NoBallastHelps
    <3>1. front' = front \/ front' = Missing
      BY <2>3 DEF NoBallastHelps
    <3>2. Missing \notin Nat
      BY DEF Missing
    <3> QED
      BY <2>1, <3>1, <3>2 DEF Sized, LeastBallast
  <2>4. CASE pc = "bisect" /\ BallastFound(Middle) /\ Finished(Current)
    <3>1. Acts => LeastBallast(Middle)
      BY <2>4, FoundIsLeast
    <3>2. front' = front \/ front' = Middle
      BY <2>4 DEF BallastFound
    <3> QED
      BY <2>1, <3>1, <3>2 DEF Sized, LeastBallast
  <2> QED
    BY <1>5, <2>2, <2>3, <2>4, SolverStep
<1>6. CASE TrySlip \/ Settle \/ Report
  BY <1>1, <1>6 DEF TrySlip, Settle, Report
<1> QED
  BY <1>2, <1>3, <1>4, <1>5, <1>6 DEF Next

LEMMA WalkedStep ==
  ASSUME Types, Walked, [Next]_vars
  PROVE  Walked'
<1>1. ASSUME UNCHANGED <<query, front>>, pc' \in {"widen", "bisect"} => Reaches(query, Current')
      PROVE  Walked'
  BY <1>1 DEF Walked
<1>2. CASE UNCHANGED vars
  BY <1>2 DEF vars, Walked, Current
<1>3. ASSUME pc' = "widen", NEW goal, search' = Searching(goal)
      PROVE  Current' = Start
  BY <1>3, NewSearch DEF Current, Start
<1>4. CASE Submit \/ Judge
  <2>1. /\ \/ front' = Null
           \/ query' = query /\ (front' = front \/ (front' = 0 /\ SteersWith(query, 0)))
        /\ search' = Searching("lift") \/ search' = Searching("steer")
        /\ pc' # "bisect"
    BY <1>4 DEF Submit, Judge, Refuse
  <2>2. pc' \in {"widen", "bisect"} => Reaches(query', Current')
    BY <1>3, <2>1, WalkStarts
  <2> QED
    BY <2>1, <2>2 DEF Walked
<1>5. CASE Widen \/ Bisect
  <2>1. query' = query /\ Reaches(query, Current)
    BY <1>5, SolverStep DEF Walked, Widen, Bisect
  <2>2. CASE ~Finished(Current) /\ Current' = After(query, Current) /\ UNCHANGED front
    BY <1>1, <2>1, <2>2, WalkGoesOn
  <2>3. CASE Finished(Current) /\ pc = "widen" /\ NoBallastHelps
    <3>1. Gives(query, Missing)
      BY <2>1, <2>3 DEF Gives, Outcome, Current
    <3>2. (front' = front \/ front' = Missing) /\ pc' \notin {"widen", "bisect"}
      BY <2>3 DEF NoBallastHelps, Refuse
    <3> QED
      BY <2>1, <3>1, <3>2 DEF Walked
  <2>4. CASE Finished(Current) /\ pc = "bisect" /\ BallastFound(Middle)
    <3>1. Outcome(Current) = Middle
      BY <2>4 DEF Outcome, Current, Middle
    <3>2. Gives(query, Middle)
      BY <2>1, <2>4, <3>1 DEF Gives
    <3>3. pc' \notin {"widen", "bisect"} /\ (front' = front \/ front' = Middle)
      BY <2>4 DEF BallastFound
    <3> QED
      BY <2>1, <3>2, <3>3 DEF Walked
  <2> QED
    BY <1>5, <2>2, <2>3, <2>4, SolverStep
<1>6. CASE TrySlip \/ Settle \/ Report
  <2>1. UNCHANGED <<query, front>> /\ pc' \notin {"widen", "bisect"}
    BY <1>6 DEF TrySlip, NextTrial, Settle, Report
  <2> QED
    BY <1>1, <2>1
<1> QED
  BY <1>2, <1>4, <1>5, <1>6 DEF Next

LEMMA LoadedStep ==
  ASSUME NEW g, NEW h, Halvings(g, h), Types, Asked, BracketHoldsRoot, Narrows(g, h), Unsteered,
         Walked, Loaded, [Next]_vars
  PROVE  Loaded'
<1>1. ASSUME UNCHANGED <<query, axles>>
      PROVE  Fitted <=> Fitted'
  BY <1>1 DEF Fitted, Acts, LeastBallast
<1>2. CASE UNCHANGED vars
  BY <1>1, <1>2 DEF vars, Loaded
<1>3. CASE Submit
  <2>1. axles' = AxlesWith(query', 0) => Fitted'
    BY DEF Fitted
  <2>2. /\ front' = Null /\ search' = Searching("lift")
        /\ \/ axles' = Null /\ pc' \in {"idle", "widen"}
           \/ axles' = AxlesWith(query', 0)
    BY <1>3 DEF Submit, Refuse
  <2> QED
    BY <2>1, <2>2, NewSearch DEF Loaded
<1>4. CASE TrySlip \/ Judge \/ Settle
  <2>1. UNCHANGED <<query, axles>> /\ pc \in {"slip", "judge", "settle"}
    BY <1>4 DEF TrySlip, Judge, Settle
  <2> QED
    BY <1>1, <2>1 DEF Loaded
<1>5. CASE Report
  <2>1. UNCHANGED <<query, axles>> /\ pc = "report"
    BY <1>5 DEF Report
  <2> QED
    BY <1>1, <2>1 DEF Loaded
<1>6. CASE Widen \/ Bisect
  <2>1. query' = query /\ pc \in {"widen", "bisect"} /\ Reaches(query, Current)
    BY <1>6, SolverStep DEF Walked, Widen, Bisect
  <2>2. CASE UNCHANGED <<axles, front>> /\ pc' \in {"widen", "bisect"} /\ search'.goal = search.goal
    BY <1>1, <2>1, <2>2 DEF Loaded
  <2>3. CASE Finished(Current) /\ pc = "widen" /\ NoBallastHelps
    <3>1. axles' = axles /\ \/ pc' = "idle" /\ front' = front
                            \/ pc' = "settle" /\ search.goal # "lift"
      BY <2>3 DEF NoBallastHelps, Refuse
    <3>2. search.goal \in {"lift", "steer"}
      BY DEF Types, Bracket
    <3> QED
      BY <1>1, <2>1, <3>1, <3>2 DEF Loaded
  <2>4. CASE Finished(Current) /\ pc = "bisect" /\ BallastFound(Middle)
    <3>1. CASE search.goal # "lift"
      <4>1. axles' = axles /\ search.goal = "steer"
        BY <2>4, <3>1 DEF BallastFound, Types, Bracket
      <4> QED
        BY <1>1, <2>1, <4>1 DEF Loaded
    <3>2. CASE search.goal = "lift"
      <4>1. axles' = AxlesWith(query, Middle)
        BY <2>4, <3>2 DEF BallastFound
      <4>2. Outcome(Current) = Middle
        BY <2>4 DEF Outcome, Current, Middle
      <4>3. Gives(query, Middle) /\ Middle \in Nat
        <5>1. Middle \in Nat
          BY BracketFields DEF Middle
        <5> QED
          BY <2>1, <2>4, <4>2, <5>1 DEF Gives
      <4>4. Acts => ~SteersWith(query, 0) /\ LeastBallast(Middle)
        BY <2>4, FoundIsLeast
      <4>5. Fitted'
        BY <2>1, <4>1, <4>3, <4>4 DEF Fitted, Acts, LeastBallast
      <4> QED
        BY <4>5 DEF Loaded
    <3> QED
      BY <3>1, <3>2
  <2> QED
    BY <1>6, <2>2, <2>3, <2>4, SolverStep
<1> QED
  BY <1>2, <1>3, <1>4, <1>5, <1>6 DEF Next

LEMMA SolverInit ==
  ASSUME NEW g, NEW h, Init
  PROVE  Narrows(g, h) /\ Unsteered /\ Sized /\ Walked /\ Loaded
  BY NullAssumption DEF Init, Narrows, Unsteered, Sized, Walked, Loaded, Acts

\* legacy_algorithms.py:725, required_front_ballast_kg: the front ballast that a run fits to
\* keep the front axle down, and the one it recommends for steering, are the least that
\* steer, to the tolerance of the search, and are the same when both are looked for:
\* wherever ballast acts on the front axle and the solver has iterations enough.
THEOREM FrontBallast ==
  EnoughIterations => (Spec => [](Acts => FrontBallastIsLeast))
<1> SUFFICES ASSUME NEW g, NEW h, Halvings(g, h)
             PROVE  Spec => [](Acts => FrontBallastIsLeast)
  BY DEF EnoughIterations
<1> DEFINE Inv == /\ Types /\ TriedInVain /\ Least /\ BracketHoldsRoot /\ StartsUnballasted /\ Asked
                  /\ Narrows(g, h) /\ Unsteered /\ Sized /\ Walked /\ Loaded
<1>1. Init => Inv
  BY TypesInit, SlipInit, BracketInit, AskedInit, SolverInit
<1>2. Inv /\ [Next]_vars => Inv'
  BY TypesStep, SlipStep, BracketStep, AskedStep, NarrowsStep, UnsteeredStep, SizedStep, WalkedStep,
     LoadedStep
<1>3. Inv => (Acts => FrontBallastIsLeast)
  <2> SUFFICES ASSUME Sized, Walked, Loaded, Acts PROVE FrontBallastIsLeast
    OBVIOUS
  <2>1. ASSUME axles # Null \/ front # Null, axles.fitted > 0
        PROVE  /\ Gives(query, axles.fitted) /\ LeastBallast(axles.fitted)
               /\ front # Null => front = axles.fitted
    <3>1. PICK kg \in Nat :
            /\ axles = AxlesWith(query, kg)
            /\ kg > 0 => Gives(query, kg) /\ (Acts => ~SteersWith(query, 0) /\ LeastBallast(kg))
      BY <2>1 DEF Loaded, Fitted
    <3>2. axles.fitted = kg
      BY <3>1 DEF AxlesWith
    <3> QED
      BY <2>1, <3>1, <3>2, OneOutcome DEF Walked
  <2> QED
    BY <2>1 DEF FrontBallastIsLeast, Sized, LeastBallast
<1> HIDE DEF Inv
<1> QED
  BY <1>1, <1>2, <1>3, PTL DEF Spec

-----------------------------------------------------------------------------
\* The solution of the slip search is a trial, or where the chord to it from the trial before
\* meets the draft.

\* The trial before the present one, with what it pulled.
PrevIsTrial ==
  /\ pc \in {"widen", "bisect"} /\ search.goal = "lift" => prev = Null
  /\ pc = "slip" /\ prev # Null =>
      \E s \in TrialSlips :
        /\ slip = s + SlipIncrement /\ ~PullCovers(s)
        /\ prev = [slip |-> s, pull |-> Pull(s)]

\* Where the chord from one trial slip to the next meets the draft.
Crossing(s) ==
  s + ((Draft - Pull(s)) * SlipIncrement) \div (Pull(s + SlipIncrement) - Pull(s))

\* The solution is a trial slip that covers the draft, or is where the chord to it does.
Interpolates ==
  solution # Null /\ solution.converged =>
    /\ solution.stepped \in TrialSlips /\ PullCovers(solution.stepped)
    /\ \/ solution.slip = solution.stepped
       \/ \E s \in TrialSlips :
            /\ solution.stepped = s + SlipIncrement /\ ~PullCovers(s)
            /\ solution.slip = Crossing(s)

LEMMA InterpolationInit == Init => PrevIsTrial /\ Interpolates
  BY DEF Init, PrevIsTrial, Interpolates

LEMMA CurveUnchanged ==
  ASSUME UNCHANGED <<query, axles>>
  PROVE  Draft' = Draft /\ \A s : Pull(s)' = Pull(s)
  BY DEF Draft, Pull, RearNumeric

LEMMA TrySlipInterpolates ==
  ASSUME Types, TriedInVain, PrevIsTrial, TrySlip
  PROVE  PrevIsTrial' /\ Interpolates'
<1>0. TrialSlips' = TrialSlips
  BY DEF TrialSlips
<1>1. /\ pc = "slip" /\ solution = Null /\ slip \in TrialSlips
      /\ UNCHANGED <<query, axles, search>>
  BY DEF TrySlip, TriedInVain
<1>2. \A s : Pull(s)' = Pull(s)
  BY <1>1, CurveUnchanged
<1>3. Draft' = Draft
  BY <1>1, CurveUnchanged
<1>4. CASE PullCovers(slip)
  <2>1. /\ solution' = [slip |-> Interpolated(Pull(slip)), stepped |-> slip, converged |-> TRUE]
        /\ pc' = "judge"
    BY <1>4 DEF TrySlip, PullCovers
  <2>2. solution'.slip = Interpolated(Pull(slip)) /\ solution'.stepped = slip
    BY <2>1
  <2>3. \/ Interpolated(Pull(slip)) = slip
        \/ \E s \in TrialSlips :
             slip = s + SlipIncrement /\ ~PullCovers(s) /\ Interpolated(Pull(slip)) = Crossing(s)
    <3>1. CASE prev # Null /\ Pull(slip) > prev.pull
      <4>1. PICK s \in TrialSlips :
              /\ slip = s + SlipIncrement /\ ~PullCovers(s)
              /\ prev = [slip |-> s, pull |-> Pull(s)]
        BY <1>1, <3>1 DEF PrevIsTrial
      <4>2. prev.slip = s /\ prev.pull = Pull(s)
        BY <4>1
      <4>3. slip - s = SlipIncrement
        <5>1. s \in Int
          BY TrialSlipsAre
        <5> QED
          BY <4>1, <5>1 DEF SlipIncrement
      <4> QED
        BY <3>1, <4>1, <4>2, <4>3 DEF Interpolated, Crossing
    <3> QED
      BY <3>1 DEF Interpolated
  <2>4. \A s : PullCovers(s)' <=> PullCovers(s)
    BY <1>2, <1>3 DEF PullCovers
  <2>5. \A s : Crossing(s)' = Crossing(s)
    BY <1>2, <1>3 DEF Crossing, SlipIncrement
  <2> QED
    BY <1>0, <1>1, <1>4, <2>1, <2>2, <2>3, <2>4, <2>5 DEF PrevIsTrial, Interpolates
<1>5. CASE ~PullCovers(slip)
  <2>1. prev' = [slip |-> slip, pull |-> Pull(slip)] /\ NextTrial
    BY <1>5 DEF TrySlip, PullCovers
  <2>2. CASE slip + SlipIncrement >= MaxSlip
    <3>1. solution' = [slip |-> MaxSlip, stepped |-> MaxSlip, converged |-> FALSE] /\ pc' = "judge"
      BY <2>1, <2>2 DEF NextTrial
    <3>2. ~solution'.converged
      BY <3>1
    <3> QED
      BY <3>1, <3>2 DEF PrevIsTrial, Interpolates
  <2>3. CASE ~(slip + SlipIncrement >= MaxSlip)
    <3>1. slip' = slip + SlipIncrement /\ solution' = Null /\ pc' = "slip"
      BY <1>1, <2>1, <2>3 DEF NextTrial
    <3>2. \E s \in TrialSlips :
             /\ slip' = s + SlipIncrement /\ ~(Pull(s)' >= Draft')
             /\ prev' = [slip |-> s, pull |-> Pull(s)']
      BY <1>1, <1>2, <1>3, <1>5, <2>1, <3>1 DEF PullCovers
    <3> QED
      BY <1>0, <3>1, <3>2 DEF PrevIsTrial, Interpolates, PullCovers
  <2> QED
    BY <2>2, <2>3
<1> QED
  BY <1>4, <1>5

LEMMA InterpolationStep ==
  ASSUME Types, TriedInVain, PrevIsTrial, Interpolates, [Next]_vars
  PROVE  PrevIsTrial' /\ Interpolates'
<1>0. TrialSlips' = TrialSlips
  BY DEF TrialSlips
<1>1. ASSUME UNCHANGED <<query, axles, solution>>
      PROVE  Interpolates'
  <2>1. /\ \A s : Pull(s)' = Pull(s)
        /\ Draft' = Draft
    BY <1>1, CurveUnchanged
  <2>2. \A s : (PullCovers(s)' <=> PullCovers(s)) /\ Crossing(s)' = Crossing(s)
    BY <2>1 DEF PullCovers, Crossing, SlipIncrement
  <2> QED
    BY <1>0, <1>1, <2>2 DEF Interpolates
<1>2. CASE UNCHANGED vars
  <2>1. /\ UNCHANGED <<pc, query, axles, slip, prev, solution, search>>
    BY <1>2 DEF vars
  <2>2. \A s : Pull(s)' = Pull(s) /\ (PullCovers(s)' <=> PullCovers(s))
    BY <2>1, CurveUnchanged DEF PullCovers
  <2> QED
    BY <1>0, <1>1, <2>1, <2>2 DEF PrevIsTrial
<1>3. CASE Submit
  BY <1>3 DEF Submit, PrevIsTrial, Interpolates
<1>4. CASE TrySlip
  BY <1>4, TrySlipInterpolates
<1>5. CASE Judge
  <2>1. UNCHANGED <<query, axles, solution>> /\ search' = Searching("steer") /\ pc' # "slip"
    BY <1>5 DEF Judge, Refuse
  <2> QED
    BY <1>1, <2>1, NewSearch DEF PrevIsTrial
<1>6. CASE Widen \/ Bisect
  <2>1. UNCHANGED <<query, solution, prev>> /\ pc \in {"widen", "bisect"}
    BY <1>6 DEF Widen, Bisect
  <2>2. search'.goal = search.goal
    BY <1>6, SolverStep
  <2>3. CASE search.goal = "lift"
    <3>1. solution' = Null /\ prev' = Null
      BY <2>1, <2>3 DEF Types, PrevIsTrial
    <3> QED
      BY <3>1 DEF PrevIsTrial, Interpolates
  <2>4. CASE search.goal # "lift"
    <3>1. UNCHANGED axles /\ pc' # "slip"
      BY <1>6, <2>1, <2>4, SolverStep DEF NoBallastHelps, BallastFound
    <3> QED
      BY <1>1, <2>1, <2>2, <2>4, <3>1 DEF PrevIsTrial
  <2> QED
    BY <2>3, <2>4
<1>7. CASE Settle \/ Report
  <2>1. UNCHANGED <<query, axles, solution>> /\ pc' \notin {"widen", "bisect", "slip"}
    BY <1>7 DEF Settle, Report
  <2> QED
    BY <1>1, <2>1 DEF PrevIsTrial
<1> QED
  BY <1>2, <1>3, <1>4, <1>5, <1>6, <1>7 DEF Next

\* The slip at which a rising chord meets the draft, rounded down: it lies on the chord, and a
\* hundredth further the chord covers the draft.
LEMMA ChordMeetsDraft ==
  ASSUME NEW p \in Int, NEW r \in Int, NEW d \in Int, p < d, d <= r
  PROVE  LET k == ((d - p) * 10) \div (r - p)
         IN  /\ k \in 0 .. 10
             /\ k < 10 => (10 - (k + 1)) * p + (k + 1) * r > 10 * d
<1> DEFINE n == r - p
           e == (d - p) * 10
           k == e \div n
<1>1. n \in Nat \ {0} /\ e \in Nat /\ e <= 10 * n
  OBVIOUS
<1> HIDE DEF n, e
<1>2. k \in Int /\ k * n <= e /\ e < k * n + n
  BY <1>1, QuotientIsBelow
<1> HIDE DEF k
<1>3. \A u, v \in Int : u * n < v * n => u < v
  BY <1>1
<1>4. k < 11 /\ -1 < k
  <2>1. k * n < 11 * n /\ (-1) * n < k * n
    BY <1>1, <1>2
  <2> QED
    BY <1>2, <1>3, <2>1
<1>5. (k + 1) * n > e
  BY <1>1, <1>2
<1>6. (10 - (k + 1)) * p + (k + 1) * r = 10 * p + (k + 1) * n
  <2>1. \A m \in Int : (10 - m) * p + m * r = 10 * p + m * (r - p)
    OBVIOUS
  <2> QED
    BY <1>2, <2>1 DEF n
<1>7. 10 * p + e = 10 * d
  BY DEF e
<1>8. (k + 1) * n \in Int
  BY <1>1, <1>2
<1> QED
  BY <1>1, <1>2, <1>4, <1>5, <1>6, <1>7, <1>8 DEF k, n, e

LEMMA TrialIsSlip ==
  ASSUME NEW s \in TrialSlips
  PROVE  s \in 200 .. 2000 /\ s \in Slips /\ s + 2 \in Slips
<1>1. PICK n \in 0 .. 180 : s = 200 + 10 * n
  BY TrialSlipsAre
<1>2. s \in 200 .. 2000
  BY <1>1
<1> QED
  BY <1>2 DEF Slips, SlipInitial, MaxSlip, SlipTolerance

LEMMA StepsAreSlips ==
  ASSUME NEW s \in TrialSlips, s + SlipIncrement \in TrialSlips, NEW n \in 1 .. SlipIncrement
  PROVE  s # MaxSlip /\ s + SlipIncrement \in Slips /\ s + n + 1 \in Slips
<1>1. s \in 200 .. 2000 /\ s + 10 \in 200 .. 2000 /\ n \in 1 .. 10
  BY TrialIsSlip DEF SlipIncrement
<1>2. \A i, j \in Int : i >= 200 /\ i + 10 <= 2000 /\ j >= 1 /\ j <= 10 =>
        i # 2000 /\ i + 10 \in 200 .. 2002 /\ i + j + 1 \in 200 .. 2002
  OBVIOUS
<1>3. s \in Int /\ n \in Int /\ s >= 200 /\ s + 10 <= 2000 /\ n >= 1 /\ n <= 10
  BY <1>1
<1>4. s # 2000 /\ s + 10 \in 200 .. 2002 /\ s + n + 1 \in 200 .. 2002
  BY <1>2, <1>3
<1>5. Slips = 200 .. 2002 /\ MaxSlip = 2000 /\ SlipIncrement = 10
  BY DEF Slips, SlipInitial, MaxSlip, SlipTolerance, SlipIncrement
<1> QED
  BY <1>4, <1>5

LEMMA CurveFacts ==
  ASSUME CurveAboveChord
  PROVE  /\ Draft \in Int
         /\ \A s \in Slips : Pull(s) \in Int
         /\ \A s \in TrialSlips : Pull(s + SlipTolerance) >= Pull(s)
         /\ \A s \in TrialSlips, n \in 1 .. SlipIncrement :
              s + SlipIncrement \in TrialSlips /\ Pull(s) < Draft /\ Pull(s + SlipIncrement) >= Draft =>
                SlipIncrement * Pull(s + n + 1)
                  >= (SlipIncrement - n) * Pull(s) + n * Pull(s + SlipIncrement)
<1> DEFINE pull == [s \in Slips |-> Pull(s)]
<1>1. AboveChord(pull, Draft)
  BY DEF CurveAboveChord
<1>2. \A s \in Slips : pull[s] = Pull(s)
  OBVIOUS
<1> HIDE DEF pull
<1>3. Draft \in Int /\ \A s \in Slips : pull[s] \in Int
  BY <1>1 DEF AboveChord
<1>4. \A s \in TrialSlips : pull[s + SlipTolerance] >= pull[s]
  BY <1>1 DEF AboveChord
<1>5. ASSUME NEW s \in TrialSlips
      PROVE  Pull(s + SlipTolerance) >= Pull(s)
  <2>1. s \in Slips /\ s + SlipTolerance \in Slips
    BY TrialIsSlip DEF SlipTolerance
  <2> QED
    BY <1>2, <1>4, <2>1
<1>6. ASSUME NEW s \in TrialSlips, NEW n \in 1 .. SlipIncrement,
             s + SlipIncrement \in TrialSlips, Pull(s) < Draft, Pull(s + SlipIncrement) >= Draft
      PROVE  SlipIncrement * Pull(s + n + 1)
               >= (SlipIncrement - n) * Pull(s) + n * Pull(s + SlipIncrement)
  <2> DEFINE after == s + SlipIncrement
             further == s + n + 1
  <2>1. s \in Slips /\ after \in Slips /\ further \in Slips /\ s # MaxSlip
    BY <1>6, TrialIsSlip, StepsAreSlips
  <2>2. pull[s] < Draft /\ s # MaxSlip /\ pull[after] >= Draft =>
          SlipIncrement * pull[further] >= (SlipIncrement - n) * pull[s] + n * pull[after]
    BY <1>1, Zenon DEF AboveChord
  <2> HIDE DEF after, further
  <2>3. pull[s] = Pull(s) /\ pull[after] = Pull(after) /\ pull[further] = Pull(further)
    BY <1>2, <2>1
  <2>4. Pull(s) < Draft /\ Pull(after) >= Draft
    BY <1>6 DEF after
  <2>5. SlipIncrement * Pull(further) >= (SlipIncrement - n) * Pull(s) + n * Pull(after)
    BY <2>1, <2>2, <2>3, <2>4
  <2> QED
    BY <2>5 DEF after, further
<1> QED
  BY <1>2, <1>3, <1>5, <1>6

\* legacy_algorithms.py:683, solve_slip: the slip that a converged run reports lies within the
\* last step of the search and develops the draft, to the tolerance of the rounding,
\* wherever the traction curve does not fall and runs above the chord that was followed.
THEOREM InterpolationPulls == Spec => [](CurveAboveChord => ReportedSlipPulls)
<1> DEFINE Inv == Types /\ TriedInVain /\ Least /\ PrevIsTrial /\ Interpolates
<1>1. Init => Inv
  BY TypesInit, SlipInit, InterpolationInit
<1>2. Inv /\ [Next]_vars => Inv'
  BY TypesStep, SlipStep, InterpolationStep
<1>3. Inv => (CurveAboveChord => ReportedSlipPulls)
  <2> SUFFICES ASSUME Interpolates, CurveAboveChord, solution # Null, solution.converged
               PROVE  /\ solution.slip \in solution.stepped - 10 .. solution.stepped
                      /\ Pull(solution.slip + 2) >= Draft
    BY DEF ReportedSlipPulls, SlipIncrement, SlipTolerance
  <2>1. /\ solution.stepped \in TrialSlips /\ solution.stepped \in Int
        /\ Pull(solution.stepped) >= Draft
    BY TrialSlipsAre DEF Interpolates, PullCovers
  <2>2. ASSUME solution.slip = solution.stepped
        PROVE  /\ solution.slip \in solution.stepped - 10 .. solution.stepped
               /\ Pull(solution.slip + 2) >= Draft
    <3>1. Pull(solution.stepped + 2) >= Pull(solution.stepped)
      BY <2>1, CurveFacts DEF SlipTolerance
    <3>2. solution.stepped \in Slips /\ solution.stepped + 2 \in Slips
      BY <2>1, TrialIsSlip
    <3>3. Draft \in Int /\ Pull(solution.stepped) \in Int /\ Pull(solution.stepped + 2) \in Int
      BY <3>2, CurveFacts
    <3> QED
      BY <2>1, <2>2, <3>1, <3>3
  <2>3. ASSUME NEW s \in TrialSlips, solution.stepped = s + 10, ~PullCovers(s),
               solution.slip = Crossing(s)
        PROVE  /\ solution.slip \in solution.stepped - 10 .. solution.stepped
               /\ Pull(solution.slip + 2) >= Draft
    <3> DEFINE p == Pull(s)
               r == Pull(s + 10)
               d == Draft
               k == ((d - p) * 10) \div (r - p)
    <3>1. s \in Int /\ s \in Slips /\ s + 10 \in Slips
      <4>1. solution.stepped \in Slips
        BY <2>1, TrialIsSlip
      <4>2. s \in Slips /\ s \in Int
        BY TrialIsSlip
      <4> QED
        BY <2>3, <4>1, <4>2
    <3>2. p \in Int /\ r \in Int /\ d \in Int
      BY <3>1, CurveFacts
    <3>3. p < d /\ d <= r
      BY <2>1, <2>3, <3>2 DEF PullCovers
    <3>4. solution.slip = s + k
      BY <2>3 DEF Crossing, SlipIncrement
    <3> HIDE DEF p, r, d
    <3>5. k \in 0 .. 10 /\ (k < 10 => (10 - (k + 1)) * p + (k + 1) * r > 10 * d)
      BY <3>2, <3>3, ChordMeetsDraft
    <3> HIDE DEF k
    <3>6. CASE k = 10
      BY <2>2, <2>3, <3>4, <3>6
    <3>7. CASE k < 10
      <4> DEFINE m == k + 1
      <4>1. m \in 1 .. 10 /\ s + m + 1 = solution.slip + 2
        BY <3>1, <3>4, <3>5, <3>7
      <4>2. s + m + 1 \in Slips /\ 10 * Pull(s + m + 1) >= (10 - m) * p + m * r
        <5>1. /\ s + SlipIncrement \in TrialSlips /\ m \in 1 .. SlipIncrement
              /\ Pull(s) < Draft /\ Pull(s + SlipIncrement) >= Draft
          BY <2>1, <2>3, <3>2, <3>3, <4>1 DEF p, r, d, SlipIncrement
        <5> HIDE DEF m
        <5>2. s + m + 1 \in Slips
          BY <5>1, StepsAreSlips
        <5>3. SlipIncrement * Pull(s + m + 1)
                >= (SlipIncrement - m) * Pull(s) + m * Pull(s + SlipIncrement)
          BY <5>1, CurveFacts
        <5> QED
          BY <5>2, <5>3 DEF SlipIncrement, p, r
      <4>3. (10 - m) * p + m * r > 10 * d
        BY <3>5, <3>7
      <4>4. Pull(s + m + 1) \in Int /\ (10 - m) * p + m * r \in Int
        BY <3>2, <4>1, <4>2, CurveFacts
      <4>5. Pull(s + m + 1) >= Draft
        <5> HIDE DEF m
        <5> DEFINE c == (10 - m) * p + m * r
        <5>1. c \in Int /\ c > 10 * d /\ 10 * Pull(s + m + 1) >= c
          BY <4>2, <4>3, <4>4
        <5> HIDE DEF c
        <5> QED
          BY <3>2, <4>4, <5>1 DEF d
      <4>6. solution.slip \in solution.stepped - 10 .. solution.stepped
        BY <2>3, <3>1, <3>4, <3>5
      <4> QED
        BY <4>1, <4>5, <4>6
    <3> QED
      BY <3>5, <3>6, <3>7
  <2> QED
    BY <2>2, <2>3 DEF Interpolates, SlipIncrement
<1> HIDE DEF Inv
<1> QED
  BY <1>1, <1>2, <1>3, PTL DEF Spec

-----------------------------------------------------------------------------

\* A front axle that is brought down from lifting by the least ballast that steers carries a
\* fifth of the tractor's own weight: the kilogram that is missing is less than the fifth of
\* the ballast.
LEMMA LiftedThenSteers ==
  ASSUME NEW q \in Request, BallastCounts(q), NEW kg \in Nat, SteersWith(q, kg + 1),
         ~(axle_loads_with_ballast(q, 0).front > 0)
  PROVE  5 * axle_loads_with_ballast(q, kg).front >= tractor_weight_n(q)
<1>0. BallastActs(q)
  BY DEF BallastCounts
<1>1. PICK c \in Int, k \in Int, x \in Int, arm \in Int, n \in Nat \ {0} :
        FrontBalance(q, c, k, x, arm, n)
  BY <1>0, FrontLoad
<1> DEFINE w == tractor_weight_n(q)
           few == Newtons(kg)
           more == Newtons(kg + 1)
           Rear(added) == (k + (w + added) * arm) \div n
<1>2. arm >= 0 /\ w \in Int /\ w >= 200
  <2>1. /\ arm = q.tractor.wheelbase + geometry_terms(q.tractor, q.cond).ef - q.tractor.cg
        /\ tractor_weight_n(q) \in Nat
    BY <1>1 DEF FrontBalance
  <2>2. /\ q.tractor.wheelbase \in Int /\ geometry_terms(q.tractor, q.cond).ef \in Int
        /\ q.tractor.cg \in Int
    BY DEF Request, Tractor, geometry_terms
  <2> QED
    BY <2>1, <2>2 DEF BallastCounts
<1>3. Newtons(0) = 0 /\ few \in Nat /\ more \in Nat /\ few <= more /\ more <= few + 10
  BY DEF Newtons
<1>4. \A m \in Int : axle_loads_with_ballast(q, m).front = (w + Newtons(m)) + c - (Rear(Newtons(m)) + x)
  BY <1>1 DEF FrontBalance
<1>5. ASSUME NEW i \in Nat, NEW j \in Nat, i <= j
      PROVE  Rear(i) \in Int /\ Rear(j) \in Int /\ Rear(i) <= Rear(j)
  <2> DEFINE u == (w + i) * arm
             v == (w + j) * arm
  <2>1. u \in Int /\ v \in Int /\ u <= v
    <3>1. \A a, b, e \in Int : e >= 0 /\ a <= b => a * e <= b * e
      OBVIOUS
    <3>2. w + i \in Int /\ w + j \in Int /\ w + i <= w + j
      BY <1>2, <1>5
    <3> QED
      BY <1>2, <3>1, <3>2
  <2> HIDE DEF u, v
  <2>2. \A y, z \in Int : y <= z => y \div n \in Int /\ z \div n \in Int /\ y \div n <= z \div n
    <3> SUFFICES ASSUME NEW y \in Int, NEW z \in Int, y <= z
                 PROVE  y \div n \in Int /\ z \div n \in Int /\ y \div n <= z \div n
      OBVIOUS
    <3> DEFINE a == y \div n
               b == z \div n
    <3>1. a \in Int /\ b \in Int /\ a * n <= y /\ z < b * n + n
      BY QuotientIsBelow
    <3> HIDE DEF a, b
    <3>2. a * n < (b + 1) * n
      BY <3>1
    <3>3. a < b + 1
      BY <3>1, <3>2
    <3> QED
      BY <3>1, <3>3 DEF a, b
  <2>3. k + u \in Int /\ k + v \in Int /\ k + u <= k + v
    BY <2>1
  <2> QED
    BY <2>2, <2>3 DEF u, v
<1>6. Rear(0) \in Int /\ Rear(few) \in Int /\ Rear(more) \in Int /\ Rear(0) <= Rear(more)
      /\ Rear(few) <= Rear(more)
  BY <1>3, <1>5
<1>7. /\ axle_loads_with_ballast(q, 0).front = w + c - (Rear(0) + x)
      /\ axle_loads_with_ballast(q, kg).front = (w + few) + c - (Rear(few) + x)
      /\ axle_loads_with_ballast(q, kg + 1).front = (w + more) + c - (Rear(more) + x)
  BY <1>2, <1>3, <1>4
<1>8. 5 * axle_loads_with_ballast(q, kg + 1).front >= w + more
  BY DEF SteersWith
<1> HIDE DEF w, few, more, Rear
<1>9. w + c - (Rear(0) + x) <= 0
  BY <1>2, <1>6, <1>7
<1>10. 5 * ((w + more) + c - (Rear(more) + x)) >= w + more
  BY <1>7, <1>8
<1>11. 4 * more >= w
  BY <1>2, <1>3, <1>6, <1>9, <1>10
<1>12. 5 * ((w + few) + c - (Rear(few) + x)) >= w
  BY <1>2, <1>3, <1>6, <1>10, <1>11
<1> QED
  BY <1>7, <1>12 DEF w

\* What the advice depends on.
FrontIsShort(kwef) == kwef < 200

Overloads(put) == put > 1000

LEMMA AdviceIs ==
  ASSUME NEW s, NEW mu, NEW kwef, NEW put, NEW texture
  PROVE  LET advice == build_recommendations(s, mu, kwef, put, texture)
         IN  /\ "ballast front" \in advice <=> FrontIsShort(kwef)
             /\ "reduce" \in advice <=> Overloads(put)
<1> DEFINE A == IF s > 1500 \/ 100 * mu > muCeiling[texture] * Unit THEN {"ballast rear"} ELSE {}
           B == IF s < 800 THEN {"slip underutilized"} ELSE {}
           D == IF FrontIsShort(kwef) THEN {"ballast front"} ELSE {}
           E == IF Overloads(put) THEN {"reduce"} ELSE {}
           advice == build_recommendations(s, mu, kwef, put, texture)
<1>1. advice = UNION {A, B, D, E}
  BY DEF build_recommendations, FrontIsShort, Overloads
<1>2. /\ "ballast front" \notin A /\ "ballast front" \notin B /\ "ballast front" \notin E
      /\ "reduce" \notin A /\ "reduce" \notin B /\ "reduce" \notin D
  OBVIOUS
<1>3. ("ballast front" \in D <=> FrontIsShort(kwef)) /\ ("reduce" \in E <=> Overloads(put))
  OBVIOUS
<1> HIDE DEF A, B, D, E, advice
<1>4. \A e : e \in advice <=> e \in A \/ e \in B \/ e \in D \/ e \in E
  BY <1>1
<1>5. "ballast front" \in advice <=> "ballast front" \in D
  BY <1>2, <1>4
<1>6. "reduce" \in advice <=> "reduce" \in E
  BY <1>2, <1>4
<1> QED
  BY <1>3, <1>5, <1>6 DEF advice

\* The status and the confidence of a run are drawn from the same slip.
LEMMA StableIsConfident ==
  ASSUME NEW s, NEW put, NEW efficiency, NEW converged
  PROVE  derive_simulation_status(s, put, efficiency, converged) = "Stable"
           => derive_confidence(s, converged) # "Low"
<1>1. CASE ~converged \/ s >= 2000
  <2>1. derive_simulation_status(s, put, efficiency, converged) = "Unstable"
    BY <1>1 DEF derive_simulation_status
  <2> QED
    BY <2>1
<1>2. CASE ~(~converged \/ s >= 2000)
  <2>1. derive_confidence(s, converged) \in {"Moderate", "High"}
    BY <1>2 DEF derive_confidence
  <2> QED
    BY <2>1
<1> QED
  BY <1>1, <1>2

-----------------------------------------------------------------------------
\* From the request to the answer.

\* The answer as the present state gives it.
Put == power_utilization(query.tractor, query.cond, Draft, TractiveEfficiency, Chain(query).extraPto)

Kwef == (axles.front * 1000) \div tractor_weight_n(query)

Verdict == result_envelope(solution.slip, Mu, Kwef, Put,
                           field_capacity(query.cond, Chain(query).swath).efficiency,
                           solution.converged)

Answer == [verdict |-> Verdict, warnings |-> Warnings, front |-> front, rear |-> rear_ballast(rear.load)]

Lifts == ~(axle_loads_with_ballast(query, 0).front > 0)

\* There are axle loads from the slip search on.
InForce == \/ pc \in {"slip", "judge", "settle", "report"} \/ front # Null
           \/ pc \in {"widen", "bisect"} /\ search.goal = "steer"

\* Ballast is fitted to a front axle that lifts, and as little as will do.
LiftIsFitted ==
  /\ pc \in {"widen", "bisect"} /\ search.goal = "lift" => Lifts
  /\ InForce /\ axles.fitted # 0 => Lifts /\ (Acts => Sharp(axles.fitted))

\* From the judgement on, with the search for steering ballast and the answer.
Decided == \/ pc \in {"settle", "report"} \/ Reported
           \/ pc \in {"widen", "bisect"} /\ search.goal = "steer"

\* A slip search that did not converge ended at the cap.
Capped == Decided \/ pc = "judge" =>
            solution.converged \/ (slip = MaxSlip /\ solution.slip = MaxSlip)

\* A run that was not refused has tractive efficiency.
Judged == Decided => ~(TractiveEfficiency <= 0)

\* Front ballast is recommended exactly where the tractor does not steer, and as little as
\* will do.
Recommended ==
  /\ pc \in {"widen", "bisect"} /\ search.goal = "steer" => ~SteersWith(query, 0)
  /\ pc \in {"settle", "report"} \/ Reported =>
      /\ front # Null
      /\ SteersWith(query, 0) => front = 0
      /\ Acts /\ ~SteersWith(query, 0) => front = Missing \/ Sharp(front)

\* An answer stands until the next request.
AnswerStands == Reported => pc = "idle" /\ answer = Answer

LEMMA AnswerInit == Init => LiftIsFitted /\ Capped /\ Judged /\ Recommended /\ AnswerStands
  BY DEF Init, LiftIsFitted, InForce, Capped, Judged, Decided, Recommended, AnswerStands, Reported, Searching

LEMMA AxlesFitted == \A q, kg : AxlesWith(q, kg).fitted = kg /\ AxlesWith(q, kg).front = axle_loads_with_ballast(q, kg).front
  BY DEF AxlesWith

LEMMA EfficiencyUnchanged ==
  ASSUME UNCHANGED <<query, axles, solution>>
  PROVE  TractiveEfficiency' = TractiveEfficiency
  BY DEF TractiveEfficiency, Mu, RearNumeric

\* The standing of an answer at the steps of a run: only a report gives one.
LEMMA OnlyReports ==
  ASSUME AnswerStands, [Next]_vars
  PROVE  \/ Report
         \/ UNCHANGED vars
         \/ (Submit \/ TrySlip \/ Judge \/ Widen \/ Bisect \/ Settle) /\ ~Reported'
<1>1. CASE Submit
  BY <1>1 DEF Submit, Refuse, Reported
<1>2. CASE TrySlip \/ Judge \/ Widen \/ Bisect \/ Settle
  <2>1. pc # "idle"
    BY <1>2 DEF TrySlip, Judge, Widen, Bisect, Settle
  <2>2. answer' = answer \/ answer' = Refused
    BY <1>2 DEF TrySlip, Judge, Widen, Bisect, Settle, BallastFound, NoBallastHelps, Refuse
  <2> QED
    BY <1>2, <2>1, <2>2 DEF AnswerStands, Reported
<1> QED
  BY <1>1, <1>2 DEF Next

LEMMA AnswerUnchanged ==
  ASSUME UNCHANGED <<query, axles, slip, solution, front, rear>>
  PROVE  Answer' = Answer
<1>1. Draft' = Draft /\ Mu' = Mu /\ TractiveEfficiency' = TractiveEfficiency
  BY DEF Draft, TractiveEfficiency, Mu, RearNumeric
<1>2. TrialSlips' = TrialSlips /\ Missing' = Missing
  BY DEF TrialSlips, Missing
<1>3. engine_torque_warnings' = engine_torque_warnings
  BY <1>1 DEF engine_torque_warnings, RearNumeric, FrontNumeric
<1>4. traction_possible' <=> traction_possible
  BY <1>2 DEF traction_possible, RearNumeric
<1>5. \A r : rear_ballast(r)' = rear_ballast(r)
  BY <1>2 DEF rear_ballast
<1>6. rear_ballast(rear.load)' = rear_ballast(rear.load)
  BY <1>2 DEF rear_ballast
<1>7. Warnings' = Warnings
  BY <1>2, <1>3, <1>4, <1>6 DEF Warnings, shared_warnings, single_warnings, passive_passive_warnings,
     active_passive_warnings
<1>8. Put' = Put /\ Kwef' = Kwef
  BY <1>1 DEF Put, Kwef
<1>9. Verdict' = Verdict
  BY <1>1, <1>8 DEF Verdict, result_envelope
<1> QED
  BY <1>6, <1>7, <1>9 DEF Answer

LEMMA AnswerStep ==
  ASSUME AnswerStands, [Next]_vars
  PROVE  AnswerStands'
<1>1. CASE UNCHANGED vars
  <2>1. UNCHANGED <<pc, query, axles, slip, solution, front, rear, answer>>
    BY <1>1 DEF vars
  <2>2. Answer' = Answer
    BY <2>1, AnswerUnchanged
  <2> QED
    BY <2>1, <2>2 DEF AnswerStands, Reported
<1>2. CASE Report
  <2>1. UNCHANGED <<query, axles, slip, solution, front, rear>> /\ pc' = "idle" /\ answer' = Answer
    BY <1>2 DEF Report, Answer, Verdict, Put, Kwef, Draft
  <2>2. Answer' = Answer
    BY <2>1, AnswerUnchanged
  <2> QED
    BY <2>1, <2>2 DEF AnswerStands
<1> QED
  BY <1>1, <1>2, OnlyReports DEF AnswerStands

LEMMA CappedStep ==
  ASSUME Types, AnswerStands, Capped, [Next]_vars
  PROVE  Capped'
<1>0. MaxSlip' = MaxSlip
  BY DEF MaxSlip
<1> USE <1>0 DEF Capped, Decided
<1>1. CASE UNCHANGED vars
  BY <1>1 DEF vars, Reported
<1>2. CASE Report
  BY <1>2 DEF Report
<1>3. CASE Submit /\ ~Reported'
  <2>1. search' = Searching("lift") /\ pc' \in {"idle", "slip", "widen"}
    BY <1>3 DEF Submit, Refuse
  <2> QED
    BY <1>3, <2>1, NewSearch
<1>4. CASE TrySlip /\ ~Reported'
  <2>1. CASE Pull(slip) >= Draft
    <3>1. /\ solution' = [slip |-> Interpolated(Pull(slip)), stepped |-> slip, converged |-> TRUE]
          /\ pc' = "judge"
      BY <1>4, <2>1 DEF TrySlip
    <3> QED
      BY <1>4, <3>1
  <2>2. CASE ~(Pull(slip) >= Draft)
    <3>1. pc = "slip" /\ NextTrial
      BY <1>4, <2>2 DEF TrySlip
    <3>2. \/ slip' = MaxSlip /\ solution' = [slip |-> MaxSlip, stepped |-> MaxSlip, converged |-> FALSE]
          \/ pc' = "slip"
      BY <3>1 DEF NextTrial
    <3> QED
      BY <1>4, <3>2
  <2> QED
    BY <2>1, <2>2
<1>5. CASE Judge /\ ~Reported'
  BY <1>5 DEF Judge
<1>6. CASE (Widen \/ Bisect) /\ ~Reported'
  <2>1. UNCHANGED <<slip, solution>> /\ pc \in {"widen", "bisect"}
    BY <1>6 DEF Widen, Bisect
  <2>2. search'.goal = search.goal
    BY <1>6, SolverStep
  <2>3. CASE search.goal = "lift"
    <3>1. pc' \notin {"judge", "settle", "report"}
      BY <1>6, <2>1, <2>3, SolverStep DEF NoBallastHelps, BallastFound, Refuse
    <3> QED
      BY <1>6, <2>2, <2>3, <3>1
  <2>4. CASE search.goal = "steer"
    BY <2>1, <2>4
  <2> QED
    BY <2>3, <2>4 DEF Types, Bracket
<1>7. CASE Settle /\ ~Reported'
  BY <1>7 DEF Settle
<1> QED
  BY <1>1, <1>2, <1>3, <1>4, <1>5, <1>6, <1>7, OnlyReports

LEMMA JudgedStep ==
  ASSUME Types, AnswerStands, Judged, [Next]_vars
  PROVE  Judged'
<1> USE DEF Decided
<1>1. ASSUME UNCHANGED <<query, axles, solution>>, ~(TractiveEfficiency <= 0)
      PROVE  Judged'
  BY <1>1, EfficiencyUnchanged DEF Judged
<1>2. CASE UNCHANGED vars
  BY <1>2, EfficiencyUnchanged DEF vars, Judged, Reported
<1>3. CASE Report
  BY <1>1, <1>3 DEF Report, Judged
<1>4. CASE Submit /\ ~Reported'
  <2>1. search' = Searching("lift") /\ pc' \in {"idle", "slip", "widen"}
    BY <1>4 DEF Submit, Refuse
  <2> QED
    BY <1>4, <2>1, NewSearch DEF Judged
<1>5. CASE TrySlip /\ ~Reported'
  <2>1. pc' \in {"slip", "judge"}
    BY <1>5 DEF TrySlip, NextTrial
  <2> QED
    BY <1>5, <2>1 DEF Judged
<1>6. CASE Judge /\ ~Reported'
  <2>1. CASE TractiveEfficiency <= 0
    BY <1>6, <2>1 DEF Judge, Refuse, Judged
  <2>2. CASE ~(TractiveEfficiency <= 0)
    BY <1>1, <1>6, <2>2 DEF Judge
  <2> QED
    BY <2>1, <2>2
<1>7. CASE (Widen \/ Bisect) /\ ~Reported'
  <2>1. UNCHANGED <<query, solution>> /\ pc \in {"widen", "bisect"}
    BY <1>7 DEF Widen, Bisect
  <2>2. search'.goal = search.goal
    BY <1>7, SolverStep
  <2>3. CASE search.goal = "lift"
    <3>1. pc' \notin {"settle", "report"}
      BY <1>7, <2>1, <2>3, SolverStep DEF NoBallastHelps, BallastFound, Refuse
    <3> QED
      BY <1>7, <2>2, <2>3, <3>1 DEF Judged
  <2>4. CASE search.goal = "steer"
    <3>1. UNCHANGED axles
      BY <1>7, <2>4, SolverStep DEF NoBallastHelps, BallastFound
    <3> QED
      BY <1>1, <2>1, <2>4, <3>1 DEF Judged
  <2> QED
    BY <2>3, <2>4 DEF Types, Bracket
<1>8. CASE Settle /\ ~Reported'
  BY <1>1, <1>8 DEF Settle, Judged
<1> QED
  BY <1>2, <1>3, <1>4, <1>5, <1>6, <1>7, <1>8, OnlyReports

LEMMA LiftIsFittedStep ==
  ASSUME NEW g, NEW h, Halvings(g, h), Types, Asked, BracketHoldsRoot, Narrows(g, h), Unsteered,
         LiftIsFitted, [Next]_vars
  PROVE  LiftIsFitted'
<1>1. ASSUME UNCHANGED <<query, axles>>, InForce' => InForce,
             pc' \in {"widen", "bisect"} /\ search'.goal = "lift" =>
               pc \in {"widen", "bisect"} /\ search.goal = "lift"
      PROVE  LiftIsFitted'
  BY <1>1 DEF LiftIsFitted, Lifts, Acts, Sharp
<1>2. CASE UNCHANGED vars
  <2>1. UNCHANGED <<pc, query, axles, search, front>>
    BY <1>2 DEF vars
  <2> QED
    BY <1>1, <2>1 DEF InForce
<1>3. CASE Submit
  <2>1. /\ front' = Null /\ search' = Searching("lift")
        /\ \/ axles' = Null /\ pc' \in {"idle", "widen"}
           \/ axles' = AxlesWith(query', 0)
        /\ pc' \in {"widen", "bisect"} => ~(AxlesWith(query', 0).front > 0)
    BY <1>3 DEF Submit, Refuse
  <2>2. search'.goal = "lift"
    BY <2>1, NewSearch
  <2>3. /\ InForce' => axles'.fitted = 0
        /\ pc' \in {"widen", "bisect"} => Lifts'
    BY <2>1, <2>2, AxlesFitted DEF Lifts, InForce
  <2> QED
    BY <2>3 DEF LiftIsFitted
<1>4. CASE Judge
  <2>1. UNCHANGED <<query, axles>> /\ search' = Searching("steer") /\ pc = "judge"
    BY <1>4 DEF Judge
  <2> QED
    BY <1>1, <2>1, NewSearch DEF InForce
<1>5. CASE Widen \/ Bisect
  <2>1. query' = query /\ pc \in {"widen", "bisect"} /\ search'.goal = search.goal
    BY <1>5, SolverStep DEF Widen, Bisect
  <2>2. CASE UNCHANGED axles /\ search.goal = "steer"
    BY <1>1, <2>1, <2>2 DEF InForce
  <2>3. CASE UNCHANGED <<axles, front>> /\ pc' \in {"widen", "bisect", "idle"} /\ search.goal = "lift"
    BY <1>1, <2>1, <2>3 DEF InForce
  <2>4. CASE Finished(Current) /\ pc = "bisect" /\ BallastFound(Middle) /\ search.goal = "lift"
    <3>1. axles' = AxlesWith(query, Middle) /\ pc' = "slip"
      BY <2>4 DEF BallastFound
    <3>2. axles'.fitted = Middle
      BY <3>1, AxlesFitted
    <3>3. Lifts /\ (Acts => Sharp(Middle))
      BY <2>4, FoundIsLeast DEF LiftIsFitted
    <3> QED
      BY <2>1, <3>1, <3>2, <3>3 DEF LiftIsFitted, Lifts, Acts, Sharp
  <2>5. search.goal \in {"lift", "steer"}
    BY DEF Types, Bracket
  <2> QED
    BY <1>5, <2>2, <2>3, <2>4, <2>5, SolverStep DEF NoBallastHelps, BallastFound, Refuse
<1>6. CASE TrySlip \/ Settle \/ Report
  <2>1. /\ UNCHANGED <<query, axles>> /\ pc' \notin {"widen", "bisect"}
        /\ pc \in {"slip", "settle", "report"}
    BY <1>6 DEF TrySlip, NextTrial, Settle, Report
  <2> QED
    BY <1>1, <2>1 DEF InForce
<1> QED
  BY <1>2, <1>3, <1>4, <1>5, <1>6 DEF Next

LEMMA RecommendedStep ==
  ASSUME NEW g, NEW h, Halvings(g, h), Types, Asked, BracketHoldsRoot, Narrows(g, h), Unsteered,
         AnswerStands, Recommended, [Next]_vars
  PROVE  Recommended'
<1>0. Missing' = Missing
  BY DEF Missing
<1>1. ASSUME UNCHANGED <<query, front>>, pc' \notin {"widen", "bisect"},
             pc \in {"settle", "report"} \/ Reported
      PROVE  Recommended'
  BY <1>0, <1>1 DEF Recommended, Acts, Sharp
<1>2. CASE UNCHANGED vars
  <2>1. UNCHANGED <<pc, query, search, front, answer>>
    BY <1>2 DEF vars
  <2> QED
    BY <1>0, <2>1 DEF Recommended, Acts, Sharp, Reported
<1>3. CASE Report
  <2>1. UNCHANGED <<query, front>> /\ pc = "report" /\ pc' = "idle"
    BY <1>3 DEF Report
  <2> QED
    BY <1>1, <2>1
<1>4. CASE (Submit \/ TrySlip) /\ ~Reported'
  <2>1. \/ search' = Searching("lift") /\ pc' \in {"idle", "slip", "widen"}
        \/ pc' \in {"slip", "judge"}
    BY <1>4 DEF Submit, Refuse, TrySlip, NextTrial
  <2> QED
    BY <1>4, <2>1, NewSearch DEF Recommended
<1>5. CASE Judge /\ ~Reported'
  <2>1. /\ query' = query
        /\ \/ pc' = "idle"
           \/ pc' = "settle" /\ SteersWith(query, 0) /\ front' = 0
           \/ pc' = "widen" /\ ~SteersWith(query, 0)
    BY <1>5 DEF Judge, Refuse
  <2>2. 0 # Null
    BY NullAssumption
  <2> QED
    BY <1>5, <2>1, <2>2 DEF Recommended
<1>6. CASE (Widen \/ Bisect) /\ ~Reported'
  <2>1. query' = query /\ search'.goal = search.goal /\ pc \in {"widen", "bisect"}
    BY <1>6, SolverStep DEF Widen, Bisect
  <2>2. CASE search.goal = "lift"
    <3>1. pc' \notin {"settle", "report"}
      BY <1>6, <2>1, <2>2, SolverStep DEF NoBallastHelps, BallastFound, Refuse
    <3> QED
      BY <1>6, <2>1, <2>2, <3>1 DEF Recommended
  <2>3. CASE search.goal = "steer"
    <3>1. ~SteersWith(query, 0)
      BY <2>1, <2>3 DEF Recommended
    <3>2. CASE pc' \in {"widen", "bisect"}
      BY <1>6, <2>1, <3>1, <3>2 DEF Recommended
    <3>3. CASE pc = "widen" /\ NoBallastHelps
      <4>1. front' = Missing /\ Missing # Null
        BY <2>3, <3>3, NullAssumption DEF NoBallastHelps, Missing
      <4>2. pc' = "settle"
        BY <2>3, <3>3 DEF NoBallastHelps
      <4> QED
        BY <1>0, <2>1, <3>1, <4>1, <4>2 DEF Recommended
    <3>4. CASE pc = "bisect" /\ BallastFound(Middle) /\ Finished(Current)
      <4>1. front' = Middle /\ pc' = "settle"
        BY <2>3, <3>4 DEF BallastFound
      <4>2. Middle # Null
        BY BracketFields, NullAssumption DEF Middle
      <4>3. Acts => Sharp(Middle)
        BY <3>4, FoundIsLeast
      <4>4. Acts' => Sharp(Middle)
        BY <2>1, <4>3 DEF Acts
      <4> DEFINE kg == Middle
      <4> HIDE DEF kg
      <4>5. front' = kg /\ (Acts' => SteersWith(query', kg + 1) /\ ~SteersWith(query', kg))
        BY <2>1, <4>1, <4>4 DEF Sharp, kg
      <4>6. Acts' => SteersWith(query', front' + 1) /\ ~SteersWith(query', front')
        BY <4>5
      <4>7. front' # Null /\ ~SteersWith(query', 0)
        BY <2>1, <3>1, <4>1, <4>2
      <4> QED
        BY <4>1, <4>6, <4>7 DEF Recommended, Sharp
    <3> QED
      BY <1>6, <3>2, <3>3, <3>4, SolverStep
  <2> QED
    BY <2>2, <2>3 DEF Types, Bracket
<1>7. CASE Settle /\ ~Reported'
  <2>1. UNCHANGED <<query, front>> /\ pc = "settle" /\ pc' \notin {"widen", "bisect"}
    BY <1>7 DEF Settle
  <2> QED
    BY <1>1, <2>1
<1> QED
  BY <1>2, <1>3, <1>4, <1>5, <1>6, <1>7, OnlyReports

\* A share of the weight in tenths of a percent is short of a fifth where the load is.
LEMMA FifthOfWeight ==
  ASSUME NEW load \in Int, NEW w \in Nat \ {0}
  PROVE  (load * 1000) \div w < 200 <=> 5 * load < w
<1> DEFINE a == load * 1000
           k == a \div w
<1>1. k \in Int /\ k * w <= a /\ a < k * w + w
  BY QuotientIsBelow
<1>2. a = 1000 * load
  OBVIOUS
<1> HIDE DEF a, k
<1>3. CASE k < 200
  <2>1. \A i, j \in Int : i <= j => i * w <= j * w
    OBVIOUS
  <2>2. (k + 1) * w <= 200 * w /\ (k + 1) * w = k * w + w /\ k * w \in Int
    BY <1>1, <1>3, <2>1
  <2> QED
    BY <1>1, <1>2, <1>3, <2>2 DEF k, a
<1>4. CASE ~(k < 200)
  <2>1. \A i, j \in Int : i <= j => i * w <= j * w
    OBVIOUS
  <2>2. 200 * w <= k * w /\ k * w \in Int
    BY <1>1, <1>4, <2>1
  <2> QED
    BY <1>1, <1>2, <1>4, <2>2 DEF k, a
<1> QED
  BY <1>3, <1>4

\* Ballast is advised where the front axle carries too little and none is fitted.
LEMMA AdvisedIsSized ==
  ASSUME Asked, Loaded, LiftIsFitted, Recommended, Reported, query # Null, BallastCounts(query)
  PROVE  Kwef < 200 <=> front # 0 /\ axles.fitted = 0
<1>0. query \in Request /\ Acts
  BY QueryIsRequest DEF Acts, BallastCounts
<1>1. /\ front # Null
      /\ SteersWith(query, 0) => front = 0
      /\ ~SteersWith(query, 0) => front = Missing \/ Sharp(front)
  BY <1>0 DEF Recommended
<1>2. PICK kg \in Nat : axles = AxlesWith(query, kg)
  BY <1>1 DEF Loaded, Fitted
<1>3. axles.fitted = kg /\ axles.front = axle_loads_with_ballast(query, kg).front
  BY <1>2, AxlesFitted
<1> DEFINE w == tractor_weight_n(query)
           load == axle_loads_with_ballast(query, kg).front
<1>4. w \in Nat \ {0} /\ load \in Int
  <2>1. PICK c \in Int, k \in Int, x \in Int, arm \in Int, n \in Nat \ {0} :
          FrontBalance(query, c, k, x, arm, n)
    BY <1>0, FrontLoad DEF BallastCounts
  <2> DEFINE v == w + Newtons(kg)
  <2>2. w \in Nat \ {0} /\ load = v + c - ((k + v * arm) \div n + x)
    BY <2>1 DEF FrontBalance
  <2>3. v \in Int
    BY <2>2 DEF Newtons
  <2> HIDE DEF v, w, load
  <2> QED
    BY <2>2, <2>3
<1>5. Kwef < 200 <=> 5 * load < w
  BY <1>3, <1>4, FifthOfWeight DEF Kwef
<1>6. CASE kg = 0
  <2>1. SteersWith(query, 0) <=> 5 * load >= w + Newtons(0)
    BY <1>6 DEF SteersWith
  <2>2. Newtons(0) = 0
    BY DEF Newtons
  <2>3. Kwef < 200 <=> ~SteersWith(query, 0)
    <3> HIDE DEF load, w
    <3> QED
      BY <1>4, <1>5, <2>1, <2>2
  <2>4. ~SteersWith(query, 0) => front # 0
    <3>1. Sharp(0) => SteersWith(query, 0)
      BY 0 + 1 = 1 DEF Sharp, BallastCounts
    <3>2. Missing # 0
      BY DEF Missing
    <3> QED
      BY <1>1, <3>1, <3>2
  <2> QED
    BY <1>1, <1>3, <1>6, <2>3, <2>4
<1>7. CASE kg # 0
  <2>1. InForce
    BY <1>1 DEF InForce
  <2>2. Lifts /\ Sharp(kg)
    BY <1>0, <1>3, <1>7, <2>1 DEF LiftIsFitted
  <2>3. 5 * load >= w
    BY <1>0, <2>2, LiftedThenSteers DEF Lifts, Sharp
  <2> HIDE DEF load, w
  <2> QED
    BY <1>3, <1>4, <1>5, <1>7, <2>3
<1> QED
  BY <1>6, <1>7

LEMMA FiguresOfRun ==
  ASSUME FiguresAreNumbers, ~(TractiveEfficiency <= 0)
  PROVE  /\ Mu \in Int /\ gross_traction_ratio(RearNumeric(axles.rear)) \in Nat \ {0}
         /\ Put \in Int
  BY DEF FiguresAreNumbers, FiguresAt, Mu, TractiveEfficiency, RearNumeric, Put, Draft

\* A search that ended at the cap is reported as such.
LEMMA CapIsReported ==
  ASSUME Asked, Capped, Judged, Reported, query # Null, FiguresAreNumbers, ~solution.converged
  PROVE  "cap" \in Warnings
<1>0. query.mode \in {"single", "passive_passive", "active_passive"}
  BY QueryIsRequest DEF Request
<1>1. slip = MaxSlip /\ solution.slip = MaxSlip
  BY DEF Capped, Decided
<1>2. Mu > 0
  <2> DEFINE n == gross_traction_ratio(RearNumeric(axles.rear))
             e == Mu * (FullSlip - MaxSlip)
             k == e \div n
  <2>1. n \in Nat \ {0} /\ Mu \in Int
    BY FiguresOfRun DEF Judged, Decided
  <2>2. TractiveEfficiency = k
    BY <1>1 DEF TractiveEfficiency, traction_efficiency_percent
  <2>3. Mu <= 0 => e \in Int /\ e <= 0
    BY <2>1 DEF FullSlip, MaxSlip
  <2>4. e \in Int
    BY <2>1 DEF FullSlip, MaxSlip
  <2> HIDE DEF e, n
  <2>5. k \in Int /\ k * n <= e
    BY <2>1, <2>4, QuotientIsBelow
  <2> HIDE DEF k
  <2>6. k > 0
    BY <2>2, <2>5 DEF Judged, Decided
  <2>7. k * n > 0
    BY <2>1, <2>5, <2>6
  <2>8. k * n \in Int
    BY <2>1, <2>5
  <2> QED
    BY <2>1, <2>3, <2>4, <2>5, <2>7, <2>8
<1>3. traction_possible
  <2>1. MaxSlip \in TrialSlips
    <3>1. MaxSlip = 200 + 10 * 180 /\ 180 \in 0 .. 180
      BY DEF MaxSlip
    <3> QED
      BY <3>1, TrialSlipsAre
  <2>2. MaxSlip <= slip
    BY <1>1 DEF MaxSlip
  <2>3. net_traction_coefficient(RearNumeric(axles.rear), MaxSlip) > 0
    BY <1>1, <1>2 DEF Mu
  <2> QED
    BY <2>1, <2>2, <2>3 DEF traction_possible
<1>4. "cap" \in single_warnings /\ "cap" \in passive_passive_warnings /\ "cap" \in active_passive_warnings
  BY <1>3 DEF single_warnings, passive_passive_warnings, active_passive_warnings
<1> QED
  BY <1>0, <1>4 DEF Warnings

\* legacy_algorithms.py, the verdicts of a run: front ballast is advised exactly where some is
\* recommended and none was fitted, less load exactly where the tractor is reported
\* overloaded, a search that ended at the cap says so and is of low confidence, and a
\* stable run is not: wherever the figures are numbers and front ballast counts.
THEOREM AdviceFollowsFigures ==
  EnoughIterations =>
    (Spec => [](query # Null /\ BallastCounts(query) /\ FiguresAreNumbers => AdviceAgrees))
<1> SUFFICES ASSUME NEW g, NEW h, Halvings(g, h)
             PROVE  Spec => [](query # Null /\ BallastCounts(query) /\ FiguresAreNumbers => AdviceAgrees)
  BY DEF EnoughIterations
<1> DEFINE Inv == /\ Types /\ TriedInVain /\ Least /\ BracketHoldsRoot /\ StartsUnballasted /\ Asked
                  /\ Narrows(g, h) /\ Unsteered /\ Walked /\ Loaded
                  /\ LiftIsFitted /\ Capped /\ Judged /\ Recommended /\ AnswerStands
<1>1. Init => Inv
  BY TypesInit, SlipInit, BracketInit, AskedInit, SolverInit, AnswerInit
<1>2. Inv /\ [Next]_vars => Inv'
  BY TypesStep, SlipStep, BracketStep, AskedStep, NarrowsStep, UnsteeredStep, WalkedStep, LoadedStep,
     LiftIsFittedStep, CappedStep, JudgedStep, RecommendedStep, AnswerStep
<1>3. Inv => (query # Null /\ BallastCounts(query) /\ FiguresAreNumbers => AdviceAgrees)
  <2> SUFFICES ASSUME Asked, Loaded, LiftIsFitted, Capped, Judged, Recommended, AnswerStands,
                      query # Null, BallastCounts(query), FiguresAreNumbers, Reported
               PROVE  /\ "ballast front" \in answer.verdict.advice <=> front # 0 /\ axles.fitted = 0
                      /\ "reduce" \in answer.verdict.advice <=> answer.verdict.load = "overloaded"
                      /\ ~solution.converged => "cap" \in answer.warnings /\ answer.verdict.confidence = "Low"
                      /\ answer.verdict.status = "Stable" => answer.verdict.confidence # "Low"
    BY DEF AdviceAgrees
  <2>1. answer.verdict = Verdict /\ answer.warnings = Warnings
    BY DEF AnswerStands, Answer
  <2> DEFINE efficiency == field_capacity(query.cond, Chain(query).swath).efficiency
  <2>2. /\ Verdict.load = put_load_status(Put)
        /\ Verdict.advice = build_recommendations(solution.slip, Mu, Kwef, Put, query.cond.texture)
        /\ Verdict.status = derive_simulation_status(solution.slip, Put, efficiency, solution.converged)
        /\ Verdict.confidence = derive_confidence(solution.slip, solution.converged)
    BY DEF Verdict, result_envelope
  <2>3. /\ "ballast front" \in Verdict.advice <=> FrontIsShort(Kwef)
        /\ "reduce" \in Verdict.advice <=> Overloads(Put)
    BY <2>2, AdviceIs
  <2>4. "ballast front" \in Verdict.advice <=> front # 0 /\ axles.fitted = 0
    BY <2>3, AdvisedIsSized DEF FrontIsShort
  <2>5. "reduce" \in Verdict.advice <=> Verdict.load = "overloaded"
    <3>1. "reduce" \in Verdict.advice <=> Put > 1000
      BY <2>3 DEF Overloads
    <3>2. Put \in Int
      BY FiguresOfRun DEF Judged, Decided
    <3>3. put_load_status(Put) = "overloaded" <=> Put > 1000
      BY <3>2 DEF put_load_status
    <3> QED
      BY <2>2, <3>1, <3>3
  <2>6. ~solution.converged => "cap" \in Warnings /\ Verdict.confidence = "Low"
    BY <2>2, CapIsReported DEF derive_confidence
  <2>7. Verdict.status = "Stable" => Verdict.confidence # "Low"
    BY <2>2, StableIsConfident
  <2> QED
    BY <2>1, <2>4, <2>5, <2>6, <2>7
<1> HIDE DEF Inv
<1> QED
  BY <1>1, <1>2, <1>3, PTL DEF Spec

=============================================================================
