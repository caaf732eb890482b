\* Requests of the three modes over nine tractors and seven implements.
SPECIFICATION Spec
CONSTANTS
  Null = Null
  Refused = Refused
  Queries <- MCQueries
  GrowthSteps = 4
  SolverIterations = 200
INVARIANTS
  StepIsLeast
  ReportedSlipPulls
  FrontBallastIsLeast
  RearBallastFollowsSlip
  AdviceAgrees
  CombinationReduces
