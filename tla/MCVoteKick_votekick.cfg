CONSTANTS
    alice = alice
    bob = bob
    carol = carol
    dave = dave
    erin = erin
    None = None
    Names = {alice, bob, carol, dave, erin}
    ReservedNames = {erin}
    NumObjects = 5
    NumSlots = 4
    Percentage = 70
SPECIFICATION VoteKickSpec
INVARIANTS VotesOK
PROPERTY VotedOutByShare
SYMMETRY Interchangeable
CHECK_DEADLOCK FALSE
