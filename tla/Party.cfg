CONSTANTS
    Players = {alice, bob, carol}
    Nobody = nobody
    MaxParties = 2
    MaxMembers = 2
    MaxInvites = 2
    Standings <- MCStandings
    ShareRange = 1
    Sharing = {1}
SPECIFICATION Spec
INVARIANTS BothSidesAgree NothingLeftOver SharedFairly
SYMMETRY PlayerSymmetry
