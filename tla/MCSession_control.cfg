SPECIFICATION FairSpec
CONSTANTS
    s1 = s1
    alice = alice
    anonymous = anonymous
    n1 = n1
    Up = Up
    Sessions = {s1}
    Users = {alice, anonymous}
    Names = {n1}
    Anonymous = anonymous
    allowAnonymous = FALSE
    Logins <- MCLogins
    ArgTexts <- MCArgTexts
    Places <- MCPlaces
    MaxText = 3
PROPERTY ControlAlive
