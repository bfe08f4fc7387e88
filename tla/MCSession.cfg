SPECIFICATION Spec
CONSTANTS
    s1 = s1
    alice = alice
    anonymous = anonymous
    n1 = n1
    Up = Up
    Sessions = {s1, s2}
    Users = {alice, anonymous}
    Names = {n1}
    Anonymous = anonymous
    allowAnonymous = TRUE
    Logins <- MCLogins
    ArgTexts <- MCArgTexts
    Places <- MCPlaces
    MaxText = 3
INVARIANTS TypeOK ReadyOwnsRoot
PROPERTIES WritesAtHome RemovesAtHome
