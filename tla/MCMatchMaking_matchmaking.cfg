CONSTANTS
  Names <- MCNames
  Score <- MCScore
  NoScore <- MCNoScore
  MinimumScore = 0
  MaximumScore = 20
  DefaultScore = 5
  Methods = {0, 1, 2}
  MapTeams <- MCMapTeams
  AutoStartPlayers = 3
  MaxCost = 5
  MaxChecks = 1
  MaxLeaving = 1
  MaxJoins = 1
SPECIFICATION Spec
INVARIANTS SeatsOK
PROPERTIES WorstGoes BalancedBest
CHECK_DEADLOCK FALSE
