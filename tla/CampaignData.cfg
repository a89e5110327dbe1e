SPECIFICATION Spec
CONSTANTS
  Contracts <- MCContracts
  PoolSize = 1
  Schemas <- MCSchemas
  Values <- MCValues
  MaxReports = 3
  Space <- MCSpace
  Places <- MCPlaces
  Policies <- MCPolicies
  Fortunes <- MCFortunes
  Scale = 12
  Posterior <- MCPosterior
  a = a  b = b
  Campaigns = {a, b}
  Contract <- MCContract
  Options <- MCOptions
  Handwritten <- MCHandwritten
  MaxTrials = 2
  MaxImports = 2
  Allowed = {"ok"}
  MaxDeals = 2
  MaxDeaths = 1
  MaxWipes = 1
  MaxMade = 1
  Declarations <- MCDeclarations
  Answers <- MCAnswers
  Submissions <- MCSubmissions
  Assigned = {1, 2}
  NotFinite = 99
  Penalty = 9
  Setups <- MCSetups
  Seeds = {1, 2}
  Environments = {"old", "new"}
  Tested = {"old", "new"}
  MaxAttempts = 2
  MaxRecords = 2
  MaxRebuilds = 1
  MaxChanges = 2
  MaxLosses = 1
INVARIANTS
  PointsAreExact
  RanksAgree
  ResultsDecide
  RowsSurvive
  
  ReportsAreSettled
  ProjectionHolds
CHECK_DEADLOCK FALSE
