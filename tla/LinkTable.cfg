SPECIFICATION Spec
CONSTANTS
    c1 = c1
    c2 = c2
    d1 = d1
    d2 = d2
    Creators <- TwoCreators
    Deleters <- TwoDeleters
    Digits = 1
    Letters = 2
    Tries = 2
    Customs <- CustomCodes
    MaxId = 3
    MaxIds = 1
    Visited = {2, 3}
    Expiring = {1}
    MaxFails = 1
INVARIANTS
    CodeFindsLink
    WipesOwn
PROPERTIES
    RequestsEnd
CHECK_DEADLOCK FALSE
