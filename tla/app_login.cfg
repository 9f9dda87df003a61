SPECIFICATION Spec
CONSTANTS
    NotSet = unset
    Unusable <- MCUnusable
    Keys <- ShippedKeys
    Order <- ShippedOrder
    SectionOf <- ShippedSection
    Default <- ShippedDefault
    Control <- Pages
    Tried <- MCTried
    Again <- MCScaled
    MaxMoves = 1
    MaxFails = 0
PROPERTY ScaleInForce
CHECK_DEADLOCK FALSE
