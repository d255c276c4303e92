SPECIFICATION Spec
CONSTANTS
    c1 = c1
    c2 = c2
    d1 = d1
    d2 = d2
    Creators <- OneCreator
    Deleters <- Nobody
    Digits = 10
    Letters = 26
    Tries = 100
    Customs <- NoCodes
    MaxId = 200
    MaxIds = 0
    Visited <- Nobody
    Expiring <- Nobody
    MaxFails = 0
INVARIANTS
    FindsFreeCode
CHECK_DEADLOCK FALSE
