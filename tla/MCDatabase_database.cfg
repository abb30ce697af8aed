CONSTANTS
    alice = alice
    Names = {alice}
    MaxIdle = 0
    MaxOpen = 2
    MaxGiveUps = 1
SPECIFICATION Spec
INVARIANTS PoolOK
PROPERTIES AllRecovered BansSettle PlayersFollowGame
CHECK_DEADLOCK FALSE
